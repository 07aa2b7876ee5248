----------------------------- MODULE MCServices -----------------------------
(***************************************************************************)
(* What the client's main thread does for others, for TLC: requests to     *)
(* coordinators, an admin call, or the rebalances of a consumer group, as  *)
(* Init chooses; the other parts stay as they began.                       *)
(***************************************************************************)
EXTENDS Integers, Sequences

CONSTANTS Brokers, Keys, Reqs, CacheRoom, Retries, CoordCases, MaxQueries
CONSTANTS Parts, AdminCases, MaxQueried
CONSTANTS Members, Topics, MaxParts, Groups, Changes

VARIABLES c, net, coords, budget
VARIABLES a, w, call
VARIABLE g
VARIABLE part

C == INSTANCE Coord
A == INSTANCE Admin
S == INSTANCE Assignors

cvars == <<c, net, coords, budget>>
avars == <<a, w, call>>
vars == <<cvars, avars, g, part>>

-----------------------------------------------------------------------------
Bounds(reqs, flaps, moves, faults) ==
    [reqs |-> reqs, flaps |-> flaps, moves |-> moves, faults |-> faults]
RequestCases == {Bounds(1, 1, 1, 0), Bounds(1, 1, 0, 1), Bounds(2, 1, 0, 0)}

Entry(name, err) == [name |-> name, err |-> err]
Swapped == {<<Entry("b", "ok"), Entry("a", "timed_out")>>}
Single == {<<Entry("a", "ok")>>}
(* Too few, repeated, unasked and too many names, and an unknown type. *)
Odd == Swapped \cup {<<>>, <<Entry("b", "ok")>>, <<Entry("x", "ok")>>,
    <<Entry("a", "ok"), Entry("a", "ok")>>,
    <<Entry("a", "ok"), Entry("b", "err"), Entry("x", "ok")>>,
    <<Entry("unknown_type", "ok"), Entry("b", "ok")>>}
CallOf(api, n, flaps, errs, md, late, replies) ==
    [api |-> api, n |-> n, valid |-> TRUE, wait |-> FALSE, flaps |-> flaps,
     errs |-> errs, md |-> md, late |-> late, term |-> late, replies |-> replies]
Plain(api) == CallOf(api, 1, 1, 0, {}, FALSE, Odd)
TopicCalls == {"CreateTopics", "DeleteTopics", "CreatePartitions"}
Others == {"AlterConfigs", "DescribeConfigs", "CreateAcls", "DescribeAcls", "DeleteAcls"}
Calls ==
    {CallOf("CreateTopics", 1, 3, 1, {}, TRUE, Swapped),
     CallOf("DeleteGroups", 2, 0, 1, {}, TRUE, Single),
     CallOf("DeleteRecords", 2, 2, 1, {"known", "error"}, TRUE, Single),
     CallOf("DeleteConsumerGroupOffsets", 1, 0, 1, {}, TRUE, Single),
     [Plain("AlterConfigs") EXCEPT !.valid = FALSE]}
    \cup {Plain(api) : api \in TopicCalls \cup Others}
    \cup {[Plain(api) EXCEPT !.wait = TRUE] : api \in TopicCalls}

(* Groups of three, alike or not, with every assignor. *)
Group(strategy, subs, left) ==
    [strategy |-> strategy, subs |-> subs, cnt |-> <<2, 2>>, left |-> left]
Subscriptions == [Members -> {{}, {1}, {1, 2}}]
GroupCases ==
    {Group(x, s, 1) : x \in {"range", "roundrobin", "cooperative-sticky"}, s \in Subscriptions}
    \cup {Group("cooperative-sticky", s, 2) : s \in [Members -> {{}, {1, 2}}]}

-----------------------------------------------------------------------------
(* The part that rests is in one of its initial states. *)
CRest == /\ net.up = Brokers /\ coords = [k \in Keys |-> 1]
         /\ budget = (CHOOSE x \in CoordCases : TRUE)
ARest == call = (CHOOSE x \in AdminCases : ~x.valid)
SRest == g.left = 1 /\ g.strategy = "range" /\ \A m \in Members : g.subs[m] = {}

Init == /\ part \in {"coord", "admin", "assign"} /\ C!Init /\ A!Init /\ S!Init
        /\ part # "coord" => CRest
        /\ part # "admin" => ARest
        /\ part # "assign" => SRest
Next == \/ part = "coord" /\ C!Next /\ UNCHANGED <<avars, g, part>>
        \/ part = "admin" /\ A!Next /\ UNCHANGED <<cvars, g, part>>
        \/ part = "assign" /\ S!Next /\ UNCHANGED <<cvars, avars, part>>
(* What rests has nothing to serve, so its fairness asks for nothing. *)
Spec == Init /\ [][Next]_vars /\ C!Fairness /\ A!Fairness /\ S!Fairness

-----------------------------------------------------------------------------
(* The properties of each part.                                            *)

(* A request to a coordinator has one outcome, and what was taken for it   *)
(* is given back (rd_kafka_coord_req_fsm(), rd_kafka_coord_req_destroy()). *)
RequestsExact == C!RequestsExact
(* A call has one result, at its place, and its eonce is used as long as   *)
(* it exists (rd_kafka_admin_result_enq(), rd_kafka_enq_once_trigger()).   *)
ResultsExact == A!ResultsExact
(* Every partition has one consumer and equal members equal loads, and the *)
(* assignor ends (rd_kafka_assignor_run()).                                *)
GroupSound == S!GroupSound
(* Nothing is taken without need (prepopulateCurrentAssignments()).        *)
Sticky == S!Sticky
(* Requests are sent or failed, calls have results, and a group comes to   *)
(* rest (rd_kafka_coord_req_fsm(), rd_kafka_admin_worker(),                *)
(* rd_kafka_cgrp_handle_assignment_cooperative()).                         *)
Progress == C!Finishes /\ A!Answers /\ S!Converges
=============================================================================
