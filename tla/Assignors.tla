----------------------------- MODULE Assignors ------------------------------
(***************************************************************************)
(* The partition assignors (hs_rdkafka_assignor.c, ..._range_assignor.c,   *)
(* ..._roundrobin_assignor.c, ..._sticky_assignor.c) and what a group of   *)
(* consumers that use them goes through: the leader runs the assignor,     *)
(* under the cooperative protocol it adjusts the result, the members get   *)
(* their shares one after the other, and members that had to give up a     *)
(* partition join again.                                                   *)
(*                                                                         *)
(* Members and topics are numbers, in the order of their names.  A         *)
(* partition is <<topic, number>>.  No two members claim one partition     *)
(* (and every rkgm_generation is -1, cgrp.c:1977), so that prevAssignment  *)
(* of the sticky assignor is empty and is left out.                        *)
(***************************************************************************)
EXTENDS Integers, Sequences, FiniteSets, FiniteSetsExt, SequencesExt

CONSTANTS
    Members, Topics,
    MaxParts,   \* bound: partitions of a topic
    Groups,     \* the groups to begin with: [strategy, subs, cnt, left], the
                \* strategy, the subscription of each member ({}: not in the
                \* group), the partitions of each topic, and how many changes
                \* of those there may be
    Changes     \* the kinds of changes: "sub", "grow", "delete"

VARIABLE g      \* the group

-----------------------------------------------------------------------------
(* An input of an assignor: the members in the order of the JoinGroup      *)
(* response, their subscriptions, the partitions they own and the          *)
(* partition counts of the topics.                                         *)
Less(p, q) == p[1] < q[1] \/ (p[1] = q[1] /\ p[2] < q[2])
PartsOf(in, t) == {<<t, i>> : i \in 0..(in.cnt[t] - 1)}
SubscribesTo(in, m, t) == t \in in.subs[m]
(* rd_kafka_member_subscriptions_map *)
MembersOf(in, t) == SelectSeq(in.members, LAMBDA m : SubscribesTo(in, m, t))
Eligible(in) ==
    SelectSeq(SetToSortSeq(Topics, <), LAMBDA t : MembersOf(in, t) # <<>>)
Sorted(ms) == SetToSortSeq(ToSet(ms), <)

(* rd_kafka_range_assignor_assign_cb: a range of each topic's partitions. *)
Portion(n, k, i) ==
    LET start == (n \div k) * i + Min({i, n % k})
        length == (n \div k) + (IF i + 1 > n % k THEN 0 ELSE 1)
    IN start..(start + length - 1)
RangeAssign(in) == [m \in Members |-> IF m \notin ToSet(in.members) THEN {} ELSE
    UNION {LET ms == Sorted(MembersOf(in, t))
           IN IF ~SubscribesTo(in, m, t) THEN {}
              ELSE {<<t, p>> : p \in Portion(in.cnt[t], Len(ms),
                                  (CHOOSE i \in 1..Len(ms) : ms[i] = m) - 1)}
           : t \in ToSet(Eligible(in))}]

(* rd_kafka_roundrobin_assignor_assign_cb: members in turn. *)
NextMember(in, ms, next, t) ==
    LET after(k) == (next + k) % Len(ms)
        k == Min({x \in 1..Len(ms) : SubscribesTo(in, ms[after(x) + 1], t)})
    IN after(k)
InOrder(in, ts) == FlattenSeq([i \in 1..Len(ts) |-> SetToSortSeq(PartsOf(in, ts[i]), Less)])
RoundrobinAssign(in) ==
    LET ms == Sorted(in.members)
        step(acc, p) == LET n == NextMember(in, ms, acc.next, p[1])
                        IN [next |-> n, of |-> [acc.of EXCEPT ![ms[n + 1]] = @ \cup {p}]]
    IN FoldLeft(step, [next |-> -1, of |-> [m \in Members |-> {}]],
                InOrder(in, Eligible(in))).of

-----------------------------------------------------------------------------
(* The sticky assignor.  s is its state: cur (currentAssignment), pc       *)
(* (currentPartitionConsumer), list (sortedCurrentSubscriptions), mv and   *)
(* byTopic (partitionMovements, partitionMovementsByTopic), bad (what goes *)
(* wrong).                                                                 *)
Potential(in, m) == UNION {PartsOf(in, t) : t \in in.subs[m]}
All(in) == UNION {PartsOf(in, t) : t \in ToSet(Eligible(in))}
Consumers(in, p) == ToSet(MembersOf(in, p[1]))
CanMove(in, p) == Cardinality(Consumers(in, p)) >= 2
Flag(s, why) == [s EXCEPT !.bad = @ \cup {why}]

(* sort_by_map_elem_val_toppar_list_cnt *)
Fewer(cur, a, b) == \/ Cardinality(cur[a]) < Cardinality(cur[b])
                    \/ Cardinality(cur[a]) = Cardinality(cur[b]) /\ a < b
ByCount(cur, ms) == SetToSortSeq(ms, LAMBDA a, b : Fewer(cur, a, b))
Resort(s) == [s EXCEPT !.list = ByCount(s.cur, ToSet(@))]

(* assignPartition: to the first consumer that may have it. *)
AssignPartition(in, s, p) ==
    LET m == SelectSeq(s.list, LAMBDA x : p \in Potential(in, x))[1]
    IN Resort([s EXCEPT !.cur[m] = @ \cup {p}, !.pc[p] = m])

(* PartitionMovements_movePartition.  The record of a movement is taken    *)
(* off the list of its topic and pair; mv keeps the pair of a partition    *)
(* that moves back.  The key of such a list is the pair of the movement    *)
(* that began it (key), which mv frees when that partition moves on.       *)
PairList(s, t, pair) == SelectSeq(s.byTopic, LAMBDA x : x.p[1] = t /\ x.pair = pair)
AddRecord(s, p, pair) ==
    LET l == PairList(s, p[1], pair)
    IN [s EXCEPT !.mv[p] = pair,
                 !.byTopic = Append(@, [p |-> p, pair |-> pair,
                                        key |-> IF l = <<>> THEN p ELSE l[1].key])]
RemoveRecord(s, p) == [s EXCEPT !.byTopic = SelectSeq(@, LAMBDA x : x.p # p)]
MovePartition(s, p, old, new) ==
    LET was == s.mv[p]
        r == RemoveRecord(s, p)
        stale == \E i \in DOMAIN r.byTopic : r.byTopic[i].key = p
    IN CASE was = <<>> -> AddRecord(s, p, <<old, new>>)
         [] was # <<>> /\ (was[2] # old \/ \A i \in DOMAIN s.byTopic : s.byTopic[i].p # p) ->
              Flag(s, "assert")
         [] OTHER ->
              IF was[1] = new THEN r
              ELSE IF stale THEN Flag(r, "freed_key") ELSE AddRecord(r, p, <<was[1], new>>)

(* PartitionMovements_getTheActualPartitionToBeMoved: rather a partition   *)
(* that moved the other way.                                               *)
ActualPartition(s, p, old, new) ==
    LET back == PairList(s, p[1], <<new, old>>)
    IN IF back = <<>> THEN p ELSE back[1].p

ProcessMovement(s, p, new) ==
    LET old == s.pc[p]
        r == MovePartition(s, p, old, new)
    IN Resort([r EXCEPT !.cur[old] = @ \ {p}, !.cur[new] = @ \cup {p}, !.pc[p] = new])
(* reassignPartitionToConsumer: what moves back is an element of a list it *)
(* is taken off.                                                           *)
ReassignTo(s, p, new) ==
    LET q == ActualPartition(s, p, s.pc[p], new)
    IN ProcessMovement(IF q = p THEN s ELSE Flag(s, "freed_partition"), q, new)
ReassignPartition(in, s, p) ==
    ReassignTo(s, p, SelectSeq(s.list, LAMBDA m : p \in Potential(in, m))[1])

(* isBalanced.  The loop over the partitions a consumer could have uses    *)
(* the index of the loop over the consumers, which goes on behind it.      *)
RECURSIVE BalancedFrom(_, _, _)
BalancedFrom(in, s, i) ==
    LET m == s.list[i + 1]
        n == Cardinality(Potential(in, m))
        more == \E p \in Potential(in, m) \ s.cur[m] :
                   Cardinality(s.cur[m]) < Cardinality(s.cur[s.pc[p]])
    IN IF i >= Len(s.list) THEN "yes"
       ELSE IF Cardinality(s.cur[m]) = n THEN BalancedFrom(in, s, i + 1)
       ELSE IF more THEN "no"
       ELSE IF n + 1 <= i THEN "hangs"
       ELSE BalancedFrom(in, s, n + 1)
IsBalanced(in, s) ==
    IF Cardinality(s.cur[s.list[1]]) >= Cardinality(s.cur[Last(s.list)]) - 1 THEN "yes"
    ELSE BalancedFrom(in, s, 0)

(* performReassignments *)
TryReassign(in, s, p) ==
    LET n == Cardinality(s.cur[s.pc[p]])
    IN IF \E m \in Consumers(in, p) \ {s.pc[p]} : n > Cardinality(s.cur[m]) + 1
       THEN [ReassignPartition(in, s, p) EXCEPT !.moved = TRUE, !.done = TRUE] ELSE s
RECURSIVE Pass(_, _, _)
Pass(in, s, ps) ==
    IF ps = <<>> \/ s.bad # {} THEN s
    ELSE LET b == IsBalanced(in, s)
         IN CASE b = "yes" -> s
              [] b = "hangs" -> Flag(s, "hangs")
              [] b = "no" -> Pass(in, TryReassign(in, s, Head(ps)), Tail(ps))
RECURSIVE PerformReassignments(_, _, _)
PerformReassignments(in, s, ps) ==
    LET t == Pass(in, [s EXCEPT !.moved = FALSE], ps)
    IN IF t.moved /\ t.bad = {} THEN PerformReassignments(in, t, ps) ELSE t

(* getBalanceScore *)
Score(s) == LET ms == ToSet(s.list)
                n(m) == Cardinality(s.cur[m])
            IN MapThenSumSet(LAMBDA x : Max({n(x[1]), n(x[2])}) - Min({n(x[1]), n(x[2])}), {x \in ms \X ms : x[1] < x[2]})

(* consumerCanParticipateInReassignment *)
Participates(in, s, m) == \/ Cardinality(s.cur[m]) < Cardinality(Potential(in, m))
                          \/ \E p \in s.cur[m] : CanMove(in, p)

(* balance: what is unassigned is assigned, then partitions that several   *)
(* could have move between the members that can take part, unless the      *)
(* result is no better.                                                    *)
AssignAll(in, s, ps) == FoldLeft(LAMBDA x, p : AssignPartition(in, x, p), s, ps)
Movable(in, ps) == SelectSeq(ps, LAMBDA p : CanMove(in, p))
Narrow(in, s) == [s EXCEPT !.list = SelectSeq(@, LAMBDA m : Participates(in, s, m))]
Balance(in, s, sorted, unassigned, revocationRequired) ==
    LET initializing == \A m \in ToSet(s.list) : s.cur[m] = {}
        pre == Narrow(in, AssignAll(in, s, unassigned))
        first == IF revocationRequired \/ Movable(in, unassigned) = <<>> THEN pre
                 ELSE PerformReassignments(in, pre, Movable(in, unassigned))
        all == PerformReassignments(in, [first EXCEPT !.done = FALSE], Movable(in, sorted))
    IN IF ~initializing /\ all.done /\ Score(all) >= Score(pre)
       THEN [pre EXCEPT !.bad = all.bad] ELSE all

(* sortPartitions: round robin over the consumers, the one with the most   *)
(* first, when all subscribe to the same; else by number of consumers.     *)
Identical(in) == \A m, n \in ToSet(in.members) : Potential(in, m) = Potential(in, n)
RECURSIVE Takes(_, _)
Takes(ms, left) ==
    LET m == Last(ByCount(left, ms))
        p == SetToSortSeq(left[m], Less)[1]
    IN IF left[m] = {} THEN <<>> ELSE <<p>> \o Takes(ms, [left EXCEPT ![m] = @ \ {p}])
(* toppar_sort_by_list_cnt *)
FewerConsumers(in, p, q) ==
    LET n(x) == Cardinality(Consumers(in, x)) IN n(p) < n(q) \/ (n(p) = n(q) /\ Less(p, q))
SortPartitions(in, cur) ==
    LET up == SetToSortSeq(All(in), Less)
        kept == Takes(ToSet(in.members), [m \in DOMAIN cur |-> cur[m] \cap All(in)])
    IN IF ~Identical(in) THEN SetToSortSeq(All(in), LAMBDA p, q : FewerConsumers(in, p, q))
       ELSE IF kept = <<>> THEN up
       ELSE kept \o SelectSeq(Reverse(up), LAMBDA p : p \notin ToSet(kept))

PrepopulateNone(in) == [m \in Members |-> {}]
(* prepopulateCurrentAssignments: what each member claims. *)
Prepopulate(in) == [m \in Members |-> IF m \in ToSet(in.members) THEN in.owned[m] ELSE {}]
(* The claims that count: of partitions that are there, by subscribers. *)
Valid(in, claims) == [m \in Members |-> claims[m] \cap All(in) \cap Potential(in, m)]
RevocationRequired(in, claims) ==
    \E m \in Members : claims[m] \cap All(in) # Valid(in, claims)[m]
Fresh(in, cur) ==
    LET held == UNION {cur[m] : m \in Members}
        owner(p) == CHOOSE m \in Members : p \in cur[m]
    IN [cur |-> cur, pc |-> [p \in All(in) |-> IF p \in held THEN owner(p) ELSE 0],
        list |-> ByCount(cur, ToSet(in.members)), mv |-> [p \in All(in) |-> <<>>],
        byTopic |-> <<>>, moved |-> FALSE, done |-> FALSE, bad |-> {}]
(* rd_kafka_sticky_assignor_assign_cb *)
StickyRun(in) ==
    LET claims == Prepopulate(in)
        sorted == SortPartitions(in, claims)
        s == Fresh(in, Valid(in, claims))
    IN Balance(in, s, sorted, SelectSeq(sorted, LAMBDA p : s.pc[p] = 0),
               RevocationRequired(in, claims))

(* rd_kafka_assignor_run *)
Assigned(in, strategy) ==
    CASE strategy = "range" -> [of |-> RangeAssign(in), bad |-> {}]
      [] strategy = "roundrobin" -> [of |-> RoundrobinAssign(in), bad |-> {}]
      [] OTHER -> LET s == StickyRun(in) IN [of |-> s.cur, bad |-> s.bad]

(* rd_kafka_cooperative_protocol_adjust_assignment: what is given to       *)
(* another member waits until its owner has given it up; what nobody got   *)
(* stays with its owner.                                                   *)
Intersect(assigned, owned, m) == assigned[m] \cap owned[m]
Subtract(a, b, m) == a[m] \ UNION {b[n] : n \in Members}
AdjustNothing(assigned, owned) == assigned
AdjustAssignment(assigned, owned) ==
    [m \in Members |-> Intersect(assigned, owned, m) \cup Subtract(assigned, owned, m)
                         \cup Subtract(owned, assigned, m)]

-----------------------------------------------------------------------------
(* The group: owned is what each member consumes, share what the leader    *)
(* gave it and due the members that have not heard of it yet, again that   *)
(* the members have to join again, bad what went wrong in the assignor.    *)
InGroup == {m \in Members : g.subs[m] # {}}
Cooperative == g.strategy = "cooperative-sticky"

Init == \E x \in Groups :
    g = [strategy |-> x.strategy, subs |-> x.subs, cnt |-> x.cnt, left |-> x.left,
         owned |-> [m \in Members |-> {}], share |-> [m \in Members |-> {}],
         due |-> {}, again |-> TRUE, bad |-> {}]

(* A member subscribes to other topics, joins or leaves; what it no longer *)
(* subscribes to it gives up first.                                        *)
Subscribe(m, ts) ==
    /\ "sub" \in Changes /\ g.left > 0 /\ ts # g.subs[m]
    /\ g' = [g EXCEPT !.left = @ - 1, !.subs[m] = ts, !.again = TRUE, !.due = @ \ {m},
                      !.share[m] = {},
                      !.owned[m] = IF Cooperative THEN {p \in @ : p[1] \in ts} ELSE {}]
Grow(t) ==
    /\ "grow" \in Changes /\ g.left > 0 /\ g.cnt[t] < MaxParts
    /\ g' = [g EXCEPT !.left = @ - 1, !.cnt[t] = @ + 1, !.again = TRUE]
Delete(t) ==
    /\ "delete" \in Changes /\ g.left > 0 /\ g.cnt[t] > 0
    /\ g' = [g EXCEPT !.left = @ - 1, !.cnt[t] = 0, !.again = TRUE]
(* rd_kafka_cgrp_owned_but_not_exist_partitions *)
Gone(m) == {p \in g.owned[m] : p[2] >= g.cnt[p[1]]}
Notice(m) == /\ Cooperative /\ Gone(m) # {}
             /\ g' = [g EXCEPT !.owned[m] = @ \ Gone(m)]

(* What a member says it owns when it joins: under the eager protocol it   *)
(* has given up everything.                                                *)
Claim(m) == IF Cooperative THEN g.owned[m] ELSE {}
Now == [members |-> SetToSortSeq(InGroup, <), subs |-> g.subs, cnt |-> g.cnt, owned |-> g.owned]
CanRebalance == g.again /\ g.bad = {} /\ InGroup # {}
(* All members join and the leader runs the assignor. *)
Rebalance ==
    /\ CanRebalance
    /\ LET owned == [m \in Members |-> Claim(m)]
           in == [Now EXCEPT !.owned = owned]
           r == Assigned(in, g.strategy)
       IN g' = [g EXCEPT !.again = FALSE, !.owned = owned, !.due = InGroup,
                         !.bad = r.bad,
                         !.share = IF Cooperative THEN AdjustAssignment(r.of, owned) ELSE r.of]
(* Mutant: a member joins again whenever it has applied its share. *)
ApplyAgain(m) ==
    /\ m \in g.due
    /\ g' = [g EXCEPT !.due = @ \ {m}, !.owned[m] = g.share[m], !.share[m] = {},
                      !.again = TRUE]
(* A member hears of its share.  One that has to give up a partition joins *)
(* again after that (rd_kafka_cgrp_handle_assignment_cooperative).         *)
Apply(m) ==
    /\ m \in g.due
    /\ g' = [g EXCEPT !.due = @ \ {m}, !.owned[m] = g.share[m], !.share[m] = {},
                      !.again = @ \/ ~(g.owned[m] \subseteq g.share[m])]

Next == \/ \E m \in Members : (\E ts \in SUBSET Topics : Subscribe(m, ts)) \/ Notice(m) \/ Apply(m)
        \/ \E t \in Topics : Grow(t) \/ Delete(t)
        \/ Rebalance
(* Members that are asked to join again do so, and a member hears of its   *)
(* share.  A round leaves again FALSE, so the first conjunct says no more  *)
(* and no less than weak fairness of Rebalance.                            *)
Rebalances == g.again /\ ~g'.again
Fairness == []<>~CanRebalance /\ \A m \in Members : WF_g(Apply(m)) /\ WF_g(Notice(m))
LiveSpec == Init /\ [][Next]_g /\ Fairness

-----------------------------------------------------------------------------
(* The assignor comes to an end, fails no assertion and uses nothing it    *)
(* freed (isBalanced(), PartitionMovements_movePartition()).               *)
AssertsHold == g.bad = {}

(* No partition is consumed by two members, while some have heard of their *)
(* shares and others have not and while the group changes                  *)
(* (rd_kafka_cooperative_protocol_adjust_assignment()).                    *)
NoDual == \A m, n \in Members : m # n => g.owned[m] \cap g.owned[n] = {}

(* A group at rest: nobody has to join again, nobody waits for a share.    *)
Settled == ~g.again /\ g.due = {} /\ InGroup # {} /\ \A m \in Members : Gone(m) = {}
Load(m) == Cardinality(g.owned[m])
LoadOf(m, t) == Cardinality({p \in g.owned[m] : p[1] = t})

(* At rest every partition of a subscribed topic is consumed, and by a     *)
(* member that subscribes to it (rd_kafka_assignor_run()).                 *)
Complete == Settled =>
    /\ UNION {g.owned[m] : m \in Members} = All(Now)
    /\ \A m \in Members : g.owned[m] \subseteq Potential(Now, m)

(* At rest members with one and the same subscription have the same load,  *)
(* give or take one: altogether, or with the range assignor of each topic  *)
(* (balance(), rd_kafka_range_assignor_assign_cb()).                       *)
Balanced == Settled /\ Identical(Now) => \A m, n \in InGroup :
    IF g.strategy = "range" THEN \A t \in Topics : LoadOf(n, t) <= LoadOf(m, t) + 1
    ELSE Load(n) <= Load(m) + 1

(* The cooperative assignor takes nothing from a member that has no more   *)
(* than its share, when all subscribe to the same topics                   *)
(* (prepopulateCurrentAssignments(), performReassignments()).              *)
Sticky == [][Rebalances /\ Cooperative /\ Identical(Now) => \A m \in InGroup :
                Load(m) <= Cardinality(All(Now)) \div Cardinality(InGroup)
                    => g.owned[m] \subseteq g'.share[m]]_g

(* No partition can be moved to a member that has two fewer, as            *)
(* performReassignments() claims.                                          *)
Best == Settled /\ Cooperative => \A m, n \in InGroup :
    Load(n) > Load(m) + 1 => g.owned[n] \cap Potential(Now, m) = {}

(* Once the subscriptions and topics stop changing the group comes to rest *)
(* and stays there (rd_kafka_cgrp_handle_assignment_cooperative()).        *)
Converges == <>[](InGroup # {} => Settled)

(* Every partition has one consumer and equal members equal loads, and the *)
(* assignor ends (rd_kafka_assignor_run()).                                *)
GroupSound == AssertsHold /\ NoDual /\ Complete /\ Balanced
=============================================================================
