------------------------------ MODULE SyncCalls ------------------------------
(***************************************************************************)
(* The calls of the application that wait for brokers                      *)
(* (rd_kafka_query_watermark_offsets(), rd_kafka_offsets_for_times() and   *)
(* rd_kafka_list_groups() in hs_rdkafka.c): find the leaders, send one     *)
(* request to each, and serve a queue of their replies, whose callbacks    *)
(* write to a struct on the caller's stack, until all have come or time    *)
(* is up.  A request may be retried, answered after the call returned, or  *)
(* answered by a broker that leads the partition no more.                  *)
(***************************************************************************)
EXTENDS Integers, Sequences, FiniteSets, SequencesExt

CONSTANTS
    Hosts,       \* brokers
    Parts,       \* partitions
    Groups,      \* consumer groups
    MaxRetries,  \* bound: retries of a request (rkbuf_max_retries)
    CallCases    \* the calls: name, partitions, group and bounds

Apis == {"watermarks", "times", "groups"}

(* Watermarks are those of one partition.  A broker is no state of the     *)
(* cache, and a group has a name.                                          *)
ASSUME SyncCallsAssumption ==
    /\ IsFiniteSet(Hosts) /\ Hosts # {} /\ IsFiniteSet(Parts) /\ IsFiniteSet(Groups)
    /\ "wait" \notin Hosts /\ "none" \notin Groups /\ MaxRetries \in Nat
    /\ \A c \in CallCases :
          /\ c.api \in Apis /\ c.parts \subseteq Parts /\ c.group \in Groups \cup {"none"}
          /\ c.api = "watermarks" => \E p \in Parts : c.parts = {p}

VARIABLES
    call,   \* the call and the state struct of its callbacks
    net,    \* requests on their way, the reply queue and what is served of it
    env,    \* the cluster: leaders and offsets; and the metadata cache
    left    \* what is left of the bounds

vars == <<call, net, env, left>>

None == "none"
Spend(f) == left[f] > 0 /\ left' = [left EXCEPT ![f] = @ - 1]
Waiting == call.st = "waiting"
Returned == call.st = "done"
Idle == call.st = "idle"

-----------------------------------------------------------------------------
(* The cluster (external): a log grows, is trimmed and changes its leader. *)
(* `seen' holds the ends that a log has had since the call.                *)
Matters(p) == p \in call.parts /\ ~Returned /\ ~Idle
Grow(p) ==
    /\ Matters(p) /\ Spend("appends")
    /\ env' = [env EXCEPT !.hi[p] = @ + 1, !.seen[p] = @ \cup {env.hi[p] + 1}]
    /\ UNCHANGED <<call, net>>
Trim(p) ==
    /\ Matters(p) /\ Spend("trims") /\ env.lo[p] < env.hi[p]
    /\ env' = [env EXCEPT !.lo[p] = @ + 1, !.seenLo[p] = @ \cup {env.lo[p] + 1}]
    /\ UNCHANGED <<call, net>>
Move(p, b) ==
    /\ Matters(p) /\ Spend("moves") /\ b # env.leader[p]
    /\ env' = [env EXCEPT !.leader[p] = b]
    /\ UNCHANGED <<call, net>>

(* A metadata response: the leader, or that there is none or no partition. *)
Metadata(p, found) ==
    /\ Matters(p) /\ call.asked /\ env.cache[p] # found
    /\ \/ found = env.leader[p] /\ UNCHANGED left
       \/ found \in {"unknown", "leaderless"} /\ Spend("faults")
    /\ env' = [env EXCEPT !.cache[p] = found]
    /\ UNCHANGED <<call, net>>

(* The time that the call was given is over. *)
Expire ==
    /\ ~call.expired /\ ~Returned /\ ~Idle
    /\ call' = [call EXCEPT !.expired = TRUE]
    /\ UNCHANGED <<net, env, left>>

(* The application makes its call.                                         *)
Call == /\ Idle /\ call' = [call EXCEPT !.st = "leaders"]
        /\ UNCHANGED <<net, env, left>>

-----------------------------------------------------------------------------
Request(b, parts, want) == [b |-> b, parts |-> parts, want |-> want, tries |-> 0]
Entry(p, err, off) == [p |-> p, err |-> err, off |-> off]
Reply(r, err, entries) == [req |-> r, err |-> err, entries |-> entries]

(* rd_kafka_q_destroy_owner and the end of the call: what the application  *)
(* is given.  Replies that come later find the queue disabled.             *)
Return(err, out) ==
    /\ call' = [call EXCEPT !.st = "done", !.err = err, !.out = out]
    /\ net.batch = <<>> /\ net' = [net EXCEPT !.replyq = <<>>, !.open = FALSE]

(* rd_kafka_topic_partition_list_get_leaders adds to the list of leaders   *)
(* at each turn of the loop, so that a partition that moved is with both.  *)
ByLeader(parts) == [b \in Hosts |-> call.leaders[b] \cup {p \in parts : env.cache[p] = b}]
LeaderErr(p) ==
    CASE env.cache[p] \in Hosts -> "ok"
      [] env.cache[p] = "wait" -> "in_progress"
      [] OTHER -> env.cache[p]
GetLeaders == [call EXCEPT !.leaders = ByLeader(call.parts),
                           !.perr = [p \in call.parts |-> LeaderErr(p)]]

(* rd_kafka_topic_partition_list_query_leaders: asks for what is missing   *)
(* and waits for the cache to change, until all is known or time is up.    *)
Missing == {p \in call.parts : env.cache[p] = "wait"}
QueryLeaders ==
    /\ call.st = "leaders" /\ call.api # "groups"
    /\ Missing # {} /\ ~call.expired
    /\ call' = [GetLeaders EXCEPT !.asked = TRUE]
    /\ UNCHANGED <<net, env, left>>
(* Mutant: the time is looked at before the first request only.            *)
QueryTimesOutOnce ==
    /\ call.st = "leaders" /\ call.api # "groups"
    /\ Missing # {} /\ call.expired /\ ~call.asked
    /\ \E err \in {"timed_out", "all_brokers_down"} : Return(err, None)
    /\ UNCHANGED <<env, left>>

QueryTimesOut ==
    /\ call.st = "leaders" /\ call.api # "groups"
    /\ Missing # {} /\ call.expired
    /\ \E err \in {"timed_out", "all_brokers_down"} : Return(err, None)
    /\ UNCHANGED <<env, left>>
NoLeaders ==
    /\ call.st = "leaders" /\ call.api # "groups" /\ Missing = {}
    /\ \A b \in Hosts : ByLeader(call.parts)[b] = {}
    /\ Return("unknown_partition", None)
    /\ UNCHANGED <<env, left>>

(* rd_kafka_query_watermark_offsets: two requests to the leader.           *)
SendWatermarks ==
    /\ call.st = "leaders" /\ call.api = "watermarks" /\ Missing = {}
    /\ \E b \in Hosts :
          /\ ByLeader(call.parts)[b] # {}
          /\ call' = [GetLeaders EXCEPT !.st = "waiting", !.err = "in_progress"]
          /\ net' = [net EXCEPT !.reqs = {Request(b, call.parts, "lo"),
                                          Request(b, call.parts, "hi")}]
    /\ UNCHANGED <<env, left>>

(* rd_kafka_offsets_for_times: one to each leader.                         *)
SendTimes ==
    /\ call.st = "leaders" /\ call.api = "times" /\ Missing = {}
    /\ LET of == ByLeader(call.parts)
           to == {b \in Hosts : of[b] # {}}
       IN /\ to # {}
          /\ call' = [GetLeaders EXCEPT !.st = "waiting", !.n = Cardinality(to)]
          /\ net' = [net EXCEPT !.reqs = {Request(b, of[b], "hi") : b \in to}]
    /\ UNCHANGED <<env, left>>

(* rd_kafka_list_groups: first the metadata, for the list of brokers.      *)
SendGroups ==
    /\ call.st = "leaders" /\ call.api = "groups" /\ env.brokers
    /\ call' = [call EXCEPT !.st = "waiting", !.n = Cardinality(Hosts)]
    /\ net' = [net EXCEPT !.reqs = {Request(b, {}, "list") : b \in Hosts}]
    /\ UNCHANGED <<env, left>>
GroupsTimeOut ==
    /\ call.st = "leaders" /\ call.api = "groups" /\ ~env.brokers /\ call.expired
    /\ Return("timed_out", None)
    /\ UNCHANGED <<env, left>>
BrokersKnown ==
    /\ ~env.brokers /\ call.api = "groups" /\ call.st = "leaders" /\ env' = [env EXCEPT !.brokers = TRUE]
    /\ UNCHANGED <<call, net, left>>

-----------------------------------------------------------------------------
(* A broker (external) answers, for the partitions that it leads; the      *)
(* reply is queued, or destroyed when the call has returned: its callback  *)
(* is told so and touches nothing.                                         *)
Queued(reply) == IF net.open THEN Append(net.replyq, reply) ELSE <<>>
Offset(r, p) == IF r.want = "lo" THEN env.lo[p] ELSE env.hi[p]
Told(r, p) == IF env.leader[p] = r.b THEN Entry(p, "ok", Offset(r, p)) ELSE Entry(p, "not_leader", -1)
Names(r) == {g \in env.groups[r.b] : r.want = "list" \/ g \in r.parts}
Answers(r) ==
    SetToSeq(IF r.want \in {"list", "describe"} THEN {Entry(g, "ok", 0) : g \in Names(r)}
             ELSE {Told(r, p) : p \in r.parts})
Respond(r, reply) ==
    /\ net' = [net EXCEPT !.reqs = @ \ {r}, !.replyq = Queued(reply)]
    /\ UNCHANGED <<call, env>>
Answer(r) == Respond(r, Reply(r, "ok", Answers(r))) /\ UNCHANGED left
Refuse(r, p) ==
    /\ Spend("faults") /\ p \in r.parts /\ r.want \in {"lo", "hi"}
    /\ LET es == Answers(r) IN
       Respond(r, Reply(r, "ok", [i \in DOMAIN es |->
           IF es[i].p = p THEN Entry(p, "leader_not_available", -1) ELSE es[i]]))
Fail(r) == Spend("faults") /\ Respond(r, Reply(r, "transport", <<>>))

-----------------------------------------------------------------------------
(* rd_kafka_q_serve serves all that it finds before the loop looks again   *)
(* whether to go on.                                                       *)
Ended == IF call.api = "watermarks" THEN call.err # "in_progress" ELSE call.n = 0 \/ call.expired
Serve ==
    /\ Waiting /\ ~Ended /\ net.batch = <<>> /\ net.replyq # <<>>
    /\ net' = [net EXCEPT !.batch = net.replyq, !.replyq = <<>>]
    /\ UNCHANGED <<call, env, left>>

(* rd_kafka_handle_ListOffsets: the first error of a partition is that of  *)
(* the reply, and some are retried (rd_kafka_buf_retry).                   *)
First == Head(net.batch)
FirstErr(reply) ==
    LET bad == {i \in DOMAIN reply.entries : reply.entries[i].err # "ok"} IN
    IF reply.err # "ok" THEN reply.err
    ELSE IF bad = {} THEN "ok"
    ELSE reply.entries[CHOOSE i \in bad : \A j \in bad : i <= j].err
Retriable(err) == err \in {"transport", "leader_not_available"}
Retries(reply) == Retriable(FirstErr(reply)) /\ reply.req.tries < MaxRetries
Served == Waiting /\ net.batch # <<>>
Pop(reqs) == net' = [net EXCEPT !.batch = Tail(@), !.reqs = @ \cup reqs]
Again == [First.req EXCEPT !.tries = @ + 1]

(* Of a connection that is lost the callback itself waits for a change of  *)
(* some broker's state, and then starts over; or for the call's time.      *)
Lost == FirstErr(First) = "transport" /\ ~call.expired
StartsOver ==
    /\ Served /\ call.api # "groups" /\ ~Retries(First) /\ Lost
    /\ Spend("flaps")
    /\ Pop({[First.req EXCEPT !.tries = 0]})
    /\ UNCHANGED <<call, env>>

(* rd_kafka_query_wmark_offsets_resp_cb: the offsets in order of arrival.  *)
WatermarksReply ==
    /\ Served /\ call.api = "watermarks"
    /\ IF Retries(First) THEN Pop({Again}) /\ UNCHANGED call
       ELSE LET found == First.entries # <<>>
                entry == First.entries[1]
                err == IF ~found THEN "bad_msg" ELSE entry.err
                good == found /\ err = "ok"
                idx == call.offidx + 1
            IN /\ Pop({})
               /\ call' = [call EXCEPT
                     !.expired = @ \/ Lost,
                     !.offs = IF good THEN [@ EXCEPT ![idx] = entry.off] ELSE @,
                     !.erred = @ \/ ~good,
                     !.offidx = idx,
                     !.err = IF err # "ok" \/ idx = 2 THEN err ELSE @]
    /\ UNCHANGED <<env, left>>

(* Mutant: a reply that is retried is counted off too.                     *)
TimesReplyTwice ==
    /\ Served /\ call.api = "times"
    /\ Pop(IF Retries(First) THEN {Again} ELSE {})
    /\ call' = [call EXCEPT !.results = @ \o First.entries, !.n = @ - 1]
    /\ UNCHANGED <<env, left>>

(* rd_kafka_get_offsets_for_times_resp_cb: the entries of each reply are   *)
(* added to the results, those of one that is retried too.                 *)
TimesReply ==
    /\ Served /\ call.api = "times"
    /\ LET err == FirstErr(First)
           results == call.results \o First.entries
       IN IF Retries(First)
          THEN Pop({Again}) /\ call' = [call EXCEPT !.results = results]
          ELSE /\ Pop({})
               /\ call' = [call EXCEPT !.results = results, !.expired = @ \/ Lost,
                                       !.err = IF @ = "ok" THEN err ELSE @, !.n = @ - 1]
    /\ UNCHANGED <<env, left>>

(* rd_kafka_ListGroups_resp_cb: the wanted groups of a broker, if any, are *)
(* described by it.  The error of an earlier reply is overwritten.         *)
Wanted(reply) == {reply.entries[i].p : i \in DOMAIN reply.entries}
                 \cap (IF call.group = None THEN Groups ELSE {call.group})
ListReply ==
    /\ Served /\ First.req.want = "list"
    /\ LET wanted == Wanted(First)
           more == First.err = "ok" /\ wanted # {}
           quiet == First.err = "ok" /\ First.entries = <<>>
       IN /\ Pop(IF more THEN {Request(First.req.b, wanted, "describe")}
                 ELSE {})
          /\ call' = [call EXCEPT !.n = IF more THEN @ ELSE @ - 1,
                                  !.err = IF quiet THEN @ ELSE First.err,
                                  !.failed = IF First.err = "ok" THEN @ ELSE @ \cup {First.req.b}]
    /\ UNCHANGED <<env, left>>

(* rd_kafka_DescribeGroups_resp_cb *)
DescribeReply ==
    /\ Served /\ First.req.want = "describe"
    /\ Pop({})
    /\ call' = [call EXCEPT !.n = @ - 1, !.err = First.err,
                            !.list = @ \o First.entries,
                            !.failed = IF First.err = "ok" THEN @ ELSE @ \cup {First.req.b}]
    /\ UNCHANGED <<env, left>>

-----------------------------------------------------------------------------
(* The end of each call's loop.  rd_kafka_query_watermark_offsets waits    *)
(* for its replies whatever its timeout, and puts the two in order.        *)
Ordered(x, y) == IF x < y THEN <<x, y>> ELSE <<y, x>>
OfEmpty(o) == IF o[1] < 0 /\ o[2] >= 0 THEN <<o[2], o[2]>> ELSE o
WatermarksReturn ==
    /\ Waiting /\ Ended /\ call.api = "watermarks"
    /\ Return(call.err, IF call.err # "ok" THEN None ELSE OfEmpty(Ordered(call.offs[1], call.offs[2])))
    /\ UNCHANGED <<env, left>>

(* rd_kafka_topic_partition_list_update takes the first entry it finds.    *)
Update(p) ==
    LET at == {i \in DOMAIN call.results : call.results[i].p = p} IN
    IF at = {} THEN Entry(p, call.perr[p], -1)
    ELSE call.results[CHOOSE i \in at : \A j \in at : i <= j]
TimesReturn ==
    /\ Waiting /\ Ended /\ call.api = "times"
    /\ LET err == IF call.n > 0 /\ call.err = "ok" THEN "timed_out" ELSE call.err
       IN Return(err, IF err = "ok" THEN [p \in call.parts |-> Update(p)] ELSE None)
    /\ UNCHANGED <<env, left>>
GroupsReturn ==
    /\ Waiting /\ Ended /\ call.api = "groups"
    /\ LET short == call.n > 0 /\ call.err = "ok" IN
       CASE short /\ call.list = <<>> -> Return("timed_out", None)
         [] short /\ call.list # <<>> -> Return("partial", call.list)
         [] OTHER -> Return(call.err, IF call.err = "ok" THEN call.list ELSE None)
    /\ UNCHANGED <<env, left>>

-----------------------------------------------------------------------------
(* What a call does not ask for is at home.                                *)
Home == CHOOSE b \in Hosts : TRUE
Init ==
    \E c \in CallCases :
        /\ call = [api |-> c.api, parts |-> c.parts, group |-> c.group, st |-> "idle",
                   expired |-> FALSE, asked |-> FALSE, err |-> "ok", n |-> 0, offidx |-> 0,
                   offs |-> <<-2, -1>>, erred |-> FALSE, results |-> <<>>, list |-> <<>>, failed |-> {},
                   leaders |-> [b \in Hosts |-> {}], perr |-> [p \in c.parts |-> "ok"], out |-> None]
        /\ net = [reqs |-> {}, replyq |-> <<>>, batch |-> <<>>, open |-> TRUE]
        /\ \E leader \in [Parts -> Hosts], homes \in [Groups -> Hosts] :
             \E cache \in [Parts -> Hosts \cup {"wait"}] :
               /\ \A p \in Parts \ c.parts : leader[p] = Home /\ cache[p] = Home
               /\ c.api # "groups" => \A g \in Groups : homes[g] = Home
               /\ env = [leader |-> leader, cache |-> cache, brokers |-> FALSE,
                      lo |-> [p \in Parts |-> 0], hi |-> [p \in Parts |-> 1],
                      seenLo |-> [p \in Parts |-> {0}], seen |-> [p \in Parts |-> {1}],
                      groups |-> [b \in Hosts |-> {g \in Groups : homes[g] = b}]]
        /\ left = c.bounds

Library ==
    \/ QueryLeaders \/ QueryTimesOut \/ NoLeaders
    \/ SendWatermarks \/ SendTimes \/ SendGroups \/ GroupsTimeOut
    \/ Serve \/ WatermarksReply \/ TimesReply \/ ListReply \/ DescribeReply
    \/ WatermarksReturn \/ TimesReturn \/ GroupsReturn
Cluster ==
    \/ \E p \in Parts : Grow(p) \/ Trim(p) \/ \E b \in Hosts : Move(p, b)
    \/ BrokersKnown
    \/ \E r \in net.reqs : Answer(r) \/ Fail(r) \/ \E p \in Parts : Refuse(r, p)
Next ==
    \/ Call \/ Library \/ Cluster \/ Expire \/ StartsOver
    \/ \E p \in Parts : \E found \in Hosts \cup {"unknown", "leaderless"} : Metadata(p, found)

(* The caller runs, time passes, and a request is answered or fails        *)
(* (socket.timeout.ms).                                                    *)
Fairness ==
    /\ WF_vars(Library) /\ WF_vars(Expire)
    /\ WF_vars(\E r \in net.reqs : Answer(r))
Spec == Init /\ [][Next]_vars /\ Fairness

-----------------------------------------------------------------------------
(* The loop waits for the requests that are on their way, no more, no less. *)
Outstanding == Cardinality(net.reqs) + Len(net.replyq) + Len(net.batch)
WaitExact ==
    Waiting => IF call.api = "watermarks" THEN ~Ended => call.offidx + Outstanding = 2
               ELSE call.n = Outstanding

(* What a call returns was so at some time while it ran: the ends of the   *)
(* log (which of the two is which, if it was not trimmed meanwhile), an    *)
(* offset for each partition or an error of its own, and the groups of     *)
(* every broker that answered.                                             *)
WatermarksTrue ==
    LET p == CHOOSE p \in call.parts : TRUE
        low == call.out[1]
        high == call.out[2]
    IN /\ low <= high /\ {low, high} \subseteq env.seenLo[p] \cup env.seen[p]
       /\ Cardinality(env.seenLo[p]) = 1 => low \in env.seenLo[p] /\ high \in env.seen[p]
TimesTrue ==
    \A p \in call.parts : call.out[p].err # "ok" \/ call.out[p].off \in env.seen[p]
(* The groups of a broker that the call is about.                          *)
Wish(b) == {g \in env.groups[b] : call.group \in {None, g}}
GroupsTrue ==
    LET listed == {call.out[i].p : i \in DOMAIN call.out} IN
       /\ Cardinality(listed) = Len(call.out)
       /\ \A g \in listed : \E b \in Hosts : g \in Wish(b)
       /\ call.err = "ok" => \A b \in Hosts \ call.failed : Wish(b) \subseteq listed
       /\ call.err = "partial" => listed # {}
ResultTrue ==
    Returned => /\ call.api = "watermarks" /\ call.err = "ok" /\ ~call.erred => WatermarksTrue
                /\ call.api = "times" /\ call.err = "ok" => TimesTrue
                /\ call.api = "groups" /\ call.err \in {"ok", "partial"} => GroupsTrue

(* A call waits for exactly the replies that are due to it, and returns    *)
(* what was so while it ran (rd_kafka_query_watermark_offsets(),           *)
(* rd_kafka_offsets_for_times(), rd_kafka_list_groups()).                  *)
CallsTrue == WaitExact /\ ResultTrue

(* Every call returns (rd_kafka_q_serve()).                                *)
Returns == (call.st = "leaders") ~> Returned
=============================================================================
