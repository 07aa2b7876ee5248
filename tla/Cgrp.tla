------------------------------- MODULE Cgrp --------------------------------
(***************************************************************************)
(* A member of a consumer group (hs_rdkafka_cgrp.c): the search for the    *)
(* coordinator, joining, rebalances by the eager and by the cooperative    *)
(* protocol, with and without a rebalance callback, heartbeats, commits,   *)
(* subscription changes and termination; the partitions start and stop as  *)
(* in hs_rdkafka_partition.c.                                              *)
(*                                                                         *)
(* External: the coordinator and a second, well-behaved member B, which    *)
(* subscribes to everything.                                               *)
(***************************************************************************)
EXTENDS Assignment

CONSTANTS
    Confs,      \* the configurations: [coop: BOOLEAN, cb: BOOLEAN]
    Started,    \* start in a stable group with this member as the only one
    Faults,     \* what may go wrong (see FaultKinds)
    MaxFaults,  \* and how often altogether
    MaxB,       \* how often member B joins or leaves
    MaxPos,     \* bound on the offsets
    Subs,       \* what the application subscribes to, Null to unsubscribe
    MaxCalls    \* bound on subscribe() and unsubscribe() calls

FaultKinds == {"disconnect", "expel", "session", "maxpoll", "topics", "scan",
               "query", "findcoord", "notcoord"}

ASSUME CgrpAssumption ==
    /\ Confs \subseteq [coop : BOOLEAN, cb : BOOLEAN] /\ Started \in BOOLEAN
    /\ Faults \subseteq FaultKinds
    /\ Subs \subseteq {Null} \cup (SUBSET Parts \ {{}})
    /\ {MaxFaults, MaxB, MaxPos, MaxCalls} \subseteq Nat

VARIABLES
    c,      \* the main thread
    gc,     \* the coordinator and member B
    calls,  \* calls the application has made; -1: it is closing
    prog,   \* the highest offset stored for each partition, and whether a
            \* stored one was delivered again: while running or closing
    faults

vars == <<c, gc, calls, prog, faults>>

Fault(k) == k \in Faults /\ faults < MaxFaults /\ faults' = faults + 1
NoFault == UNCHANGED faults

-----------------------------------------------------------------------------
(* States.                                                                 *)

HasJoined(x) == x.member # 0
WaitAssignCall(x) == x.join \in {"WAIT_ASSIGN_CALL", "WAIT_UNASSIGN_CALL"}
Rebalancing(x) ==
    \/ HasJoined(x) /\ x.join \in {"WAIT_JOIN", "WAIT_METADATA"}
    \/ x.join \in {"WAIT_SYNC", "WAIT_UNASSIGN_TO_COMPLETE",
                   "WAIT_INCR_UNASSIGN_TO_COMPLETE"}
    \/ WaitAssignCall(x)
    \/ x.incr # Null \/ x.rejoin

Protocol(x) == IF ~x.assignor THEN "NONE"
               ELSE IF x.coop THEN "COOPERATIVE" ELSE "EAGER"

SetLost(x) == IF x.grp = Null THEN x ELSE [x EXCEPT !.lost = TRUE]
ClearLost(x) == [x EXCEPT !.lost = FALSE]

SetWaitResp(x, k) == [RdAssert(x, x.wresp = "") EXCEPT !.wresp = k]
ClearWaitResp(x, k) == [RdAssert(x, x.wresp = k) EXCEPT !.wresp = ""]

NoLeader == [on |-> FALSE, b |-> FALSE, own |-> {}, bown |-> {}, topics |-> {}]

-----------------------------------------------------------------------------
(* The coordinator, as the member knows it.                                *)

CoordUpdate(x, found) ==
    IF x.st = "TERM" THEN x
    ELSE IF found
    THEN IF x.known /\ x.st = "UP" THEN x
         ELSE [x EXCEPT !.known = TRUE, !.st = "TRANSPORT"]
    ELSE [x EXCEPT !.known = FALSE, !.st = "QUERY_COORD"]

\* No broker can be asked while two queries are on their way.
CoordQuery(x) ==
    IF x.fc = 2 THEN x
    ELSE [x EXCEPT !.fc = @ + 1,
                   !.st = IF @ = "QUERY_COORD" THEN "WAIT_COORD" ELSE @]

CoordDead(x) == CoordQuery([CoordUpdate(x, FALSE) EXCEPT !.st = "QUERY_COORD"])

-----------------------------------------------------------------------------
(* Termination and leaving the group.                                      *)

(* Mutant: the answer to the LeaveGroup is not waited for.                 *)
TryTerminateEarly(x) ==
    IF x.st # "TERM" /\ x.term /\ ~WaitAssignCall(x) /\ x.oncgrp = {} /\ ~InProgress(x)
    THEN [x EXCEPT !.st = "TERM"] ELSE x

\* tmo: the session timeout has passed since the termination began.
TryTerminate(x) ==
    LET End(y) == IF ~WaitAssignCall(y) /\ y.oncgrp = {} /\ ~InProgress(y) /\ ~y.waitLeave
                  THEN [y EXCEPT !.st = "TERM"] ELSE y
    IN  IF x.st = "TERM" \/ ~x.term THEN x
        ELSE End(IF x.waitcoord # << >> /\ x.tmo
                 THEN [EnqAll(x, x.waitcoord) EXCEPT !.wcq = FALSE, !.waitcoord = << >>]
                 ELSE x)

(* Mutant: the wait for the LeaveGroup is never over.                      *)
HandleLeaveWaits(x) == TryTerminate(x)
HandleLeave(x) == TryTerminate([x EXCEPT !.waitLeave = FALSE])

Leave(x) ==
    LET y == [x EXCEPT !.member = 0, !.waitLeave = TRUE]
    IN  IF x.waitLeave THEN y
        ELSE IF x.st = "UP"
        THEN [Send(y, [k |-> "Leave", member |-> x.member]) EXCEPT !.left = TRUE]
        ELSE HandleLeave(y)

LeaveMaybe(x) == IF x.leaveOn THEN Leave([x EXCEPT !.leaveOn = FALSE]) ELSE x

Rejoin(x) ==
    LET y == IF x.sub = Null /\ x.nsub = Null THEN LeaveMaybe(x) ELSE x
    IN  [y EXCEPT !.join = "INIT"]

Terminated(x) ==
    LET y == RdAssert([x EXCEPT !.grp = Null], ~InProgress(x) /\ x.st = "TERM")
    IN  IF x.terminated THEN x
        ELSE [y EXCEPT !.terminated = TRUE, !.ops = << >>, !.waitcoord = << >>,
                       !.known = FALSE]

-----------------------------------------------------------------------------
(* The assignment is done: what the join state waits for has happened.     *)

TriggerWaiting(x) == x.nsub # Null \/ x.nunsub

UnassignDone(x) == Rejoin(LeaveMaybe(x))

SteadyDone(x) ==
    IF TriggerWaiting(x) THEN Rejoin(x)
    ELSE IF x.rejoin THEN Rejoin([x EXCEPT !.rejoin = FALSE])
    ELSE TryTerminate(x)

\* rd_kafka_cgrp_assignment_done() where no incremental revoke can end.
Done0(x) ==
    CASE x.join = "WAIT_UNASSIGN_TO_COMPLETE" -> UnassignDone(x)
      [] x.join = "STEADY" -> SteadyDone(x)
      [] x.join = "INIT" -> TryTerminate(x)
      [] OTHER -> x

DoneIf0(x) == IF Settled(x) THEN Done0(x) ELSE x
Serve0(x) == DoneIf0(ServeLists(x))

Unassign(x) ==
    LET y == Clear(x)
    IN  ClearLost(IF y.join = "WAIT_UNASSIGN_CALL"
                  THEN [y EXCEPT !.join = "WAIT_UNASSIGN_TO_COMPLETE"] ELSE y)

ToSteady(x) == IF x.join = "WAIT_ASSIGN_CALL"
               THEN [x EXCEPT !.join = "STEADY",
                              !.pollTmr = IF x.sub # Null THEN TRUE ELSE @]
               ELSE x

IncrementalAssign(x, ps) == ClearLost(ToSteady(Add(x, ps)))

IncrementalUnassign(x, ps) ==
    LET y == Subtract(x, ps)
    IN  ClearLost(IF y.join = "WAIT_UNASSIGN_CALL"
                  THEN [y EXCEPT !.join = "WAIT_INCR_UNASSIGN_TO_COMPLETE"]
                  ELSE y)

Assign(x, ps) == ToSteady(ClearLost(Add(x, ps)))

\* rd_kafka_cgrp_assign() removes the old assignment and serves it first.
ClearServe(x) == IF x.all = {} THEN x ELSE Serve0(Clear(x))

\* same: the list given is rkcg_group_assignment itself.
GroupAssignmentModify(x, add, ps, same) ==
    LET grp == IF add THEN x.grp \cup ps ELSE x.grp \ ps
    IN  IF same THEN [RdAssert(x, ~add) EXCEPT !.grp = Null]
        ELSE IF add /\ (x.grp = Null \/ x.grp = {}) THEN [x EXCEPT !.grp = ps]
        ELSE IF add THEN [RdAssert(x, ps \cap x.grp = {}) EXCEPT !.grp = grp]
        ELSE [RdAssert(x, x.grp # Null /\ x.grp # {} /\ ps \subseteq x.grp)
                EXCEPT !.grp = IF grp = {} THEN Null ELSE grp]

AfterError(x) == Clear([x EXCEPT !.join = "STEADY"])

\* With a callback the application is asked to make the change.
RebalanceOpIncrWith(Serve(_), x, add, ps, rejoin, same) ==
    LET y == [x EXCEPT !.rejoin = rejoin,
                       !.join = IF add THEN "WAIT_ASSIGN_CALL"
                                ELSE "WAIT_UNASSIGN_CALL"]
    IN  GroupAssignmentModify(
          IF x.cb THEN [y EXCEPT !.events = Append(@, [add |-> add, ps |-> ps])]
          ELSE Serve(IF add THEN IF AddFails(y, ps) THEN AfterError(y)
                                 ELSE IncrementalAssign(y, ps)
                     ELSE IF SubtractFails(y, ps) THEN AfterError(y)
                          ELSE IncrementalUnassign(y, ps)),
          add, ps, same)

\* A termination leaves what is under way to complete, then unassigns all.
IncrUnassignDone(x) ==
    IF x.term THEN Unassign(x)
    ELSE IF x.incr # Null
    THEN [RebalanceOpIncrWith(Serve0, x, TRUE, x.incr, TRUE, FALSE)
            EXCEPT !.incr = Null]
    ELSE IF x.rejoin THEN Rejoin([x EXCEPT !.rejoin = FALSE])
    ELSE IF TriggerWaiting(x) THEN Rejoin(x)
    ELSE [x EXCEPT !.join = "STEADY"]

AssignmentDone(x) == IF x.join = "WAIT_INCR_UNASSIGN_TO_COMPLETE"
                     THEN IncrUnassignDone(x) ELSE Done0(x)

DoneIf(x) == IF Settled(x) THEN AssignmentDone(x) ELSE x
Serve(x) == DoneIf(ServeLists(x))

RebalanceOpIncr(x, add, ps, rejoin, same) ==
    RebalanceOpIncrWith(Serve, x, add, ps, rejoin, same)

\* The assignment of an eager member, once the old one has been removed.
AssignAnew(x, ps) == IF AddFails(x, ps) THEN AfterError(x) ELSE Assign(x, ps)

RebalanceOp(x, add, ps) ==
    LET y == [x EXCEPT !.join = IF add THEN "WAIT_ASSIGN_CALL"
                                ELSE "WAIT_UNASSIGN_CALL"]
    IN  [(IF x.cb THEN [y EXCEPT !.events = Append(@, [add |-> add, ps |-> ps])]
          ELSE Serve(IF add THEN AssignAnew(ClearServe(y), ps) ELSE Unassign(y)))
            EXCEPT !.grp = IF add THEN ps ELSE Null]

RevokeAllRejoin(x, lost) ==
    LET y == IF lost THEN SetLost(x) ELSE x
    IN  IF Protocol(x) # "COOPERATIVE"
        THEN IF x.grp # Null /\ ~WaitAssignCall(x)
             THEN RebalanceOp(y, FALSE, x.grp) ELSE Rejoin(y)
        ELSE IF x.grp # Null /\ x.grp # {}
             THEN RebalanceOpIncr(y, FALSE, x.grp, ~x.term, TRUE)
        ELSE IF x.term THEN x ELSE Rejoin(x)

RevokeAllRejoinMaybe(x, lost) == IF Rebalancing(x) THEN x ELSE RevokeAllRejoin(x, lost)

(* Mutant: an eager member rejoins with its partitions.                    *)
GroupIsRebalancingKeeps(x) == IF Rebalancing(x) THEN x ELSE Rejoin(x)
GroupIsRebalancing(x) ==
    IF Protocol(x) = "EAGER" THEN RevokeAllRejoinMaybe(x, FALSE)
    ELSE IF Rebalancing(x) THEN x ELSE Rejoin(x)

-----------------------------------------------------------------------------
(* Subscription, metadata and joining.                                     *)

\* rd_kafka_cgrp_metadata_update_check(), without and with do_join.
UpdateTopics(x) == IF x.sub = Null \/ x.sub = {} THEN x
                   ELSE [x EXCEPT !.topics = x.sub \cap x.cached]

UpdateCheck(x) ==
    LET y    == UpdateTopics(x)
        gone == IF y.grp = Null THEN {} ELSE y.grp \ y.topics
    IN  IF x.sub = Null \/ x.sub = {} THEN x
        ELSE IF y.topics = x.topics /\ x.join # "WAIT_METADATA" THEN y
        ELSE IF Protocol(x) = "COOPERATIVE"
        THEN IF gone # {}
             THEN RebalanceOpIncr(SetLost(y), FALSE, gone, y.leader.on, FALSE)
             ELSE Rejoin(y)
        ELSE RevokeAllRejoin([y EXCEPT !.leader = NoLeader], FALSE)

MetadataNeeded(x) == ~(x.sub \subseteq x.cached)
MetadataRefresh(x) ==
    [RdAssert(x, x.join \in {"INIT", "STEADY"})
       EXCEPT !.md = @ + 1, !.join = "WAIT_METADATA"]

\* A cooperative member tells the leader what it owns.
JoinGroupRequest(x) ==
    [k |-> "Join", member |-> x.member, topics |-> x.topics,
     own |-> IF x.coop /\ x.grp # Null THEN x.grp ELSE {}]

Join(x) ==
    LET y == [x EXCEPT !.maxPoll = FALSE]
        z == IF y.topics = {} THEN UpdateTopics(y) ELSE y
    IN  IF x.st # "UP" \/ x.join # "INIT" \/ x.wresp # "" THEN x
        ELSE IF x.maxPoll /\ x.late THEN x
        ELSE IF MetadataNeeded(y) THEN MetadataRefresh(y)
        ELSE IF z.topics = {} THEN z
        ELSE Send([SetWaitResp(z, "Join") EXCEPT !.join = "WAIT_JOIN"],
                  JoinGroupRequest(z))

Unsubscribe(x, leave) ==
    LET y == [x EXCEPT !.pollTmr = FALSE, !.sub = Null, !.topics = {},
                       !.leader = NoLeader,
                       !.leaveOn = @ \/ (leave /\ HasJoined(x))]
    IN  [(IF y.lost THEN y ELSE RevokeAllRejoin(y, FALSE)) EXCEPT !.fsub = FALSE]

\* A cooperative member gives up only the topics it no longer wants.
ModifySubscription(x, ts) ==
    LET revoking == IF x.grp = Null THEN {} ELSE x.grp \cap (x.topics \ ts)
        y        == [x EXCEPT !.sub = ts]
        topics   == ts \cap x.cached
        z        == [y EXCEPT !.topics = topics]
    IN  IF MetadataNeeded(y) THEN MetadataRefresh(y)
        ELSE IF revoking # {} THEN RebalanceOpIncr(z, FALSE, revoking, TRUE, FALSE)
        ELSE IF topics # x.topics THEN Rejoin(z) ELSE z

Resubscribe(x, ts) ==
    IF ts = Null THEN x ELSE Join([x EXCEPT !.fsub = TRUE, !.sub = ts])

\* ts is Null to unsubscribe; a change during a rebalance waits for its end.
Subscribe(x, ts) ==
    LET y == [x EXCEPT !.nsub = Null, !.nunsub = FALSE]
    IN  IF Rebalancing(x)
        THEN [y EXCEPT !.nsub = ts, !.nunsub = (ts = Null)]
        ELSE IF Protocol(x) = "COOPERATIVE" /\ ts # Null /\ x.sub # Null
        THEN ModifySubscription(y, ts)
        ELSE Resubscribe(IF y.sub # Null THEN Unsubscribe(y, ts = Null) ELSE y, ts)

ApplyNextSubscribe(x) ==
    IF x.nsub # Null THEN Subscribe([x EXCEPT !.nsub = Null], x.nsub)
    ELSE IF x.nunsub THEN Unsubscribe([x EXCEPT !.nunsub = FALSE], TRUE)
    ELSE x

UnassignUnlessAsked(x) == Serve(IF WaitAssignCall(x) THEN x ELSE Unassign(x))

Terminate(x) ==
    LET y == [x EXCEPT !.term = TRUE]
    IN  IF x.st = "TERM" \/ x.term THEN x
        ELSE TryTerminate(UnassignUnlessAsked(IF y.fsub THEN Unsubscribe(y, TRUE) ELSE y))

Heartbeat(x) ==
    IF x.maxPoll \/ x.hb THEN x
    ELSE Send([x EXCEPT !.hb = TRUE],
              [k |-> "Heartbeat", member |-> x.member, gen |-> x.gen])

-----------------------------------------------------------------------------
(* Responses of the coordinator.                                           *)

\* rd_kafka_err_action(): COORD_QUERY is an op of its own.
QueryOnRefresh(x, err) ==
    IF err = "notcoord" THEN Enq(x, [k |-> "coordquery"]) ELSE x

SendSync(x, asg) ==
    Send([SetWaitResp(x, "Sync") EXCEPT !.join = "WAIT_SYNC"],
         [k |-> "Sync", member |-> x.member, gen |-> x.gen, asg |-> asg])

NoAsg == [me |-> {}, b |-> {}]

HandleJoinError(x, r) ==
    LET y == CASE r.res = "unknown" -> [x EXCEPT !.member = 0]
               [] r.res = "illegal" -> [x EXCEPT !.gen = 0]
               [] r.res = "idrequired" -> [x EXCEPT !.member = r.id]
               [] OTHER -> QueryOnRefresh(x, r.res)
    IN  IF Protocol(x) = "COOPERATIVE" /\ r.res \in {"illegal", "idrequired"}
        THEN RevokeAllRejoin(y, TRUE) ELSE Rejoin(y)

\* The leader asks for the metadata of all subscribed topics first.
LeadGroup(x, r) ==
    Send([x EXCEPT !.leader = r.leader, !.join = "WAIT_METADATA"], [k |-> "Meta"])

HandleJoin(x, r) ==
    LET y == ClearWaitResp(x, "Join")
        z == [y EXCEPT !.member = r.id, !.gen = r.gen, !.assignor = TRUE]
    IN  IF x.term \/ x.join # "WAIT_JOIN" THEN y
        ELSE IF r.res # "ok" THEN HandleJoinError(y, r)
        ELSE IF r.leader.on
        THEN LeadGroup(z, r) ELSE SendSync(z, NoAsg)

\* The cooperative adjustment: what moves is first given up by its owner.
Adjust(asg, own) ==
    LET all == asg.me \cup asg.b
        mine == own.me \ own.b   \* of two claims the later member's counts
    IN  [me |-> (asg.me \ own.b) \cup (mine \ all),
         b  |-> (asg.b \ mine) \cup (own.b \ all)]

\* What an assignor may give this member: anything, or for a sticky one a
\* fair share that moves as little as can be.
Shares(coop, topics, cluster, own) ==
    LET all    == SUBSET (topics \cap cluster)
        gap(m) == LET d == 2 * Cardinality(m) - Cardinality(cluster)
                  IN  IF d < 0 THEN -d ELSE d
        moved(m) == Cardinality(m \cap own.b) + Cardinality((own.me \ own.b) \ m)
        fair   == {m \in all : \A n \in all : gap(m) <= gap(n)}
    IN  IF coop THEN {m \in fair : \A n \in fair : moved(m) <= moved(n)} ELSE all

\* rd_kafka_cgrp_assignor_run(): mine is what the assignor gives this member.
AssignorRun(x, err, mine) ==
    LET asg == [me |-> mine,
                b  |-> IF x.leader.b THEN x.cluster \ mine ELSE {}]
        own == [me |-> x.leader.own, b |-> x.leader.bown]
    IN  IF err # "ok" THEN Rejoin(x)
        ELSE SendSync(x, IF x.coop THEN Adjust(asg, own) ELSE asg)

HandleAssignorMetadata(x, err, mine) ==
    IF x.join = "WAIT_METADATA" /\ x.leader.on THEN AssignorRun(x, err, mine) ELSE x

HandleAssignmentCooperative(x, ps) ==
    LET old == IF x.grp = Null THEN {} ELSE x.grp
    IN  IF old \ ps # {}
        THEN RebalanceOpIncr([x EXCEPT !.incr = ps \ old], FALSE, old \ ps, FALSE, FALSE)
        ELSE RebalanceOpIncr(x, TRUE, ps \ old, FALSE, FALSE)

HandleAssignment(x, ps) == IF Protocol(x) = "COOPERATIVE"
                           THEN HandleAssignmentCooperative(x, ps)
                           ELSE RebalanceOp(x, TRUE, ps)

HandleSyncError(x, err) ==
    LET y == CASE err = "illegal" -> [x EXCEPT !.gen = 0]
               [] err = "unknown" -> [x EXCEPT !.member = 0]
               [] OTHER -> x
    IN  IF Protocol(x) = "COOPERATIVE" /\ err \in {"illegal", "unknown"}
        THEN RevokeAllRejoin(y, TRUE) ELSE Rejoin(y)

HandleSync(x, r) ==
    LET y == QueryOnRefresh(x, r.res)
        z == ClearWaitResp(y, "Sync")
    IN  IF x.join # "WAIT_SYNC" THEN ClearWaitResp(x, "Sync")
        ELSE IF r.res = "transport" /\ CanRetry(r, Retries) THEN Resend(y, r)
        ELSE IF r.res # "ok" \/ x.term
        THEN HandleSyncError(z, IF r.res # "ok" THEN r.res ELSE "destroy")
        ELSE HandleAssignment([z EXCEPT !.session = TRUE], r.ps)

\* What an error means for the membership.
MemberError(x, err) ==
    IF err \in {"unknown", "illegal"}
    THEN RevokeAllRejoinMaybe(IF err = "unknown" THEN [x EXCEPT !.member = 0]
                              ELSE [x EXCEPT !.gen = 0], TRUE)
    ELSE x

HandleHeartbeat(x, err) ==
    LET y == [x EXCEPT !.hb = FALSE]
    IN  IF err = "ok" \/ x.join \in {"INIT", "WAIT_JOIN", "WAIT_METADATA", "WAIT_SYNC"}
        THEN y
        ELSE CASE err \in {"notcoord", "transport"} -> CoordQuery(y)
               [] err = "rebalance" ->
                    IF WaitAssignCall(y) THEN y ELSE GroupIsRebalancing(y)
               [] OTHER -> MemberError(y, err)

UpdateCommitted(x, offs) ==
    [x EXCEPT !.committed = [p \in Parts |->
        IF \E o \in Valid(offs) : o[1] = p
        THEN (CHOOSE o \in offs : o[1] = p)[2] ELSE @[p]]]

CommitDone(x, op, err) ==
    [RdAssert(x, x.wcommit > 0) EXCEPT
       !.wcommit = @ - 1,
       !.ex = IF err \in {"ok", "nooffset", "lost", "rebalance"} THEN @
              ELSE @ \cup {o[1] : o \in Valid(op.offs)}]

ServeLastCommit(x) == IF x.wcommit = 0 THEN Serve(x) ELSE x

\* A failed commit loses the coordinator, is retried, then put aside.
HandleCommit(x, op, err, r) ==
    LET dead  == err \in {"transport", "notcoord"}
        y == IF dead THEN CoordDead(x)
             ELSE IF err = "waitcoord" THEN CoordQuery(x) ELSE x
    IN  IF dead /\ CanRetry(r, Retries) THEN Resend(y, r)
        ELSE IF dead /\ CanDefer(y, op) THEN Defer(y, op)
        ELSE ServeLastCommit(CommitDone(IF err = "ok" THEN UpdateCommitted(y, op.offs)
                                        ELSE MemberError(y, err), op, err))

\* Retried without limit while the assignment is the one it was sent for.
HandleOffsetFetch(x, r) ==
    IF r.res = "transport" THEN IF r.cur THEN Resend(x, [r EXCEPT !.tries = 0]) ELSE x
    ELSE LET y == ApplyOffsets(QueryOnRefresh(x, r.res), r.offs)
         IN  IF r.offs = {} THEN y ELSE Serve(y)

HandleMeta(x, r) ==
    IF r.res = "transport" /\ CanRetry(r, Retries) THEN Resend(x, r)
    ELSE Enq(x, [k |-> "asgmd", err |-> r.res])

HandleResponse(x, r) ==
    CASE r.k = "Join" -> HandleJoin(x, r)
      [] r.k = "Sync" -> HandleSync(x, r)
      [] r.k = "Heartbeat" -> HandleHeartbeat(x, r.res)
      [] r.k = "Leave" -> HandleLeave(x)
      [] r.k = "Commit" -> HandleCommit(x, r.op, r.res, r)
      [] r.k = "OFetch" -> HandleOffsetFetch(x, r)
      [] r.k = "Meta" -> HandleMeta(x, r)

-----------------------------------------------------------------------------
(* Ops.                                                                    *)

\* rd_kafka_toppar_fetch_start() joins the partition to the group.
FetchStart(x, p, off) ==
    Enq([RdAssert(x, p \notin x.incgrp) EXCEPT
            !.incgrp = @ \cup {p}, !.pos[p] = off,
            !.fetch = IF [k |-> "stop", p |-> p, reply |-> TRUE] \in ToSet(x.ops)
                      THEN @ ELSE @ \cup {p}],
        [k |-> "pjoin", p |-> p])

(* Mutant: the partition stays a part of the group.                        *)
FetchStopKeeps(x, op) ==
    LET y == Enq([x EXCEPT !.fetch = @ \ {op.p}], [k |-> "pleave", p |-> op.p])
    IN  IF op.reply THEN Enq(y, [k |-> "stopped", p |-> op.p]) ELSE y

FetchStop(x, op) ==
    LET y == IF op.p \in x.incgrp THEN Enq(x, [k |-> "pleave", p |-> op.p]) ELSE x
        z == [y EXCEPT !.incgrp = @ \ {op.p}, !.fetch = @ \ {op.p}]
    IN  IF op.reply THEN Enq(z, [k |-> "stopped", p |-> op.p]) ELSE z

PartitionJoin(x, p) ==
    LET y == [RdAssert(x, p \notin x.oncgrp) EXCEPT !.oncgrp = @ \cup {p}]
    IN  IF x.term THEN Enq(y, [k |-> "stop", p |-> p, reply |-> FALSE]) ELSE y

PartitionLeave(x, p) ==
    TryTerminate([RdAssert(x, p \in x.oncgrp) EXCEPT !.oncgrp = @ \ {p}])

AssignReplace(x, ps) == IF AddFails(x, ps) THEN x ELSE Serve(Assign(x, ps))

\* How the application answers a rebalance event.
HandleAssignOp(x, op) ==
    LET unassign == x.term \/ (~op.incr /\ op.ps = Null)
    IN  IF unassign THEN Serve(Unassign(x))
        ELSE IF Protocol(x) = (IF op.incr THEN "EAGER" ELSE "COOPERATIVE") THEN x
        ELSE IF op.incr /\ op.add
        THEN IF AddFails(x, op.ps) THEN x ELSE Serve(IncrementalAssign(x, op.ps))
        ELSE IF op.incr
        THEN IF SubtractFails(x, op.ps) THEN x ELSE Serve(IncrementalUnassign(x, op.ps))
        ELSE AssignReplace(ClearServe(x), op.ps)

HandleMetadata(x) ==
    Enq(UpdateCheck([x EXCEPT !.md = @ - 1, !.cached = x.cluster]),
        [k |-> "mdop"])

OpServe(x, op, mine) ==
    CASE op.k = "resp" -> HandleResponse(x, op.r)
      [] op.k = "start" -> FetchStart(x, op.p, op.off)
      [] op.k = "stop" -> FetchStop(x, op)
      [] op.k = "stopped" -> LET y == PartitionStopped(x, op.p)
                             IN  IF y.wstop = 0 THEN Serve(y) ELSE y
      [] op.k = "pjoin" -> PartitionJoin(x, op.p)
      [] op.k = "pleave" -> PartitionLeave(x, op.p)
      [] op.k = "commit" -> OffsetsCommit(x, op, op.offs = Null)
      [] op.k = "commitresp" -> HandleCommit(x, op.op, op.err, [tries |-> Retries])
      [] op.k = "coordquery" -> CoordQuery(x)
      [] op.k = "subscribe" -> Subscribe(x, op.ts)
      [] op.k = "assign" -> HandleAssignOp(x, op)
      [] op.k = "terminate" -> Terminate(x)
      [] op.k = "mdop" -> UpdateTopics(x)
      [] op.k = "asgmd" -> HandleAssignorMetadata(x, op.err, mine)

-----------------------------------------------------------------------------
(* rd_kafka_cgrp_serve(): after every round of ops.  due: the intervals of *)
(* heartbeats, joins and coordinator queries have passed.                  *)

JoinWhenDue(x, due) == IF x.sub # Null /\ due THEN Join(x) ELSE x

JoinStateServe(x, due) ==
    IF x.join = "INIT"
    THEN IF x.wresp # "" THEN x ELSE JoinWhenDue(ApplyNextSubscribe(x), due)
    ELSE IF (x.join = "STEADY" \/ WaitAssignCall(x)) /\ x.fsub /\ due
    THEN Heartbeat(x) ELSE x

\* Deferred commits that waited for the session timeout are given up.
TimeoutScan(x) ==
    FoldLeft(LAMBDA y, op : HandleCommit(y, op, "waitcoord", [tries |-> Retries]),
             [x EXCEPT !.waitcoord = << >>], x.waitcoord)

SessionExpired(x) ==
    RevokeAllRejoinMaybe([x EXCEPT !.session = FALSE, !.member = 0], TRUE)

CoordStateServe(x, due) ==
    CASE x.st = "TERM" -> x
      [] x.st = "QUERY_COORD" -> IF due THEN CoordQuery(x) ELSE x
      [] x.st = "WAIT_COORD" -> x
      [] x.st = "TRANSPORT" ->
           IF x.up THEN Serve(JoinStateServe([x EXCEPT !.st = "UP"], due))
           ELSE IF due THEN CoordQuery(x) ELSE x
      [] x.st = "UP" ->
           JoinStateServe([EnqAll(x, x.waitcoord) EXCEPT !.waitcoord = << >>], due)

ScanDeferred(x, scan) == IF x.st # "UP" /\ scan THEN TimeoutScan(x) ELSE x

CgrpServe(x, due, late, scan) ==
    LET a == TryTerminate(IF ~x.up /\ x.st = "UP"
                          THEN [x EXCEPT !.st = "QUERY_COORD"] ELSE x)
    IN  IF a.st = "TERM" THEN Terminated(a)
        ELSE ScanDeferred(CoordStateServe(IF late /\ a.join = "STEADY" /\ a.session
                                          THEN SessionExpired(a) ELSE a, due), scan)

-----------------------------------------------------------------------------
(* The main thread.                                                        *)

\* p is fetched from off by its new owner: what was stored is not delivered
\* again, unless the old owner had to give it up (x.ex, zombie).
Taken(pr, ex, starts) ==
    [hi  |-> [p \in Parts |-> IF \E o \in starts : o[1] = p
                              THEN (CHOOSE o \in starts : o[1] = p)[2]
                              ELSE pr.hi[p]],
     dup |-> IF \E o \in starts : o[2] < pr.hi[o[1]] /\ o[1] \notin ex
             THEN pr.dup \cup {IF calls = -1 THEN "closing" ELSE "running"} ELSE pr.dup]

MainOp(mine) ==
    /\ c.ops # << >>
    /\ LET op == Head(c.ops)
           Result(x) ==
              LET starts == IF op.k = "start" /\ op.p \in x.fetch \ c.fetch
                            THEN {<<op.p, op.off>>} ELSE {}
              IN  /\ prog' = Taken(prog, IF gc.zombie THEN Parts ELSE c.ex, starts)
                  /\ c' = [x EXCEPT !.ex = @ \ {o[1] : o \in starts}]
       IN  /\ op.k = "asgmd" \/ mine = {}
           /\ op.k = "asgmd" =>
                 mine \in IF c.leader.b
                         THEN Shares(c.coop, c.leader.topics, c.cluster,
                                     [me |-> c.leader.own, b |-> c.leader.bown])
                         ELSE {c.leader.topics \cap c.cluster}
           /\ Result(OpServe([c EXCEPT !.ops = Tail(@)], op, mine))
    /\ NoFault /\ UNCHANGED <<gc, calls>>

Main == \E mine \in SUBSET Parts : MainOp(mine)

MainServe(due) ==
    /\ ~c.terminated
    /\ c' = CgrpServe(c, due, FALSE, FALSE)
    /\ NoFault /\ UNCHANGED <<gc, calls, prog>>

\* The session timeout passes here before it passes at the coordinator.
SessionTimeout ==
    /\ ~c.terminated /\ c.session /\ c.join = "STEADY"
    /\ Fault("session")
    /\ c' = CgrpServe([c EXCEPT !.ex = @ \cup c.all], FALSE, TRUE, FALSE)
    /\ gc' = [gc EXCEPT !.zombie = TRUE]
    /\ UNCHANGED <<calls, prog>>

\* A deferred commit, or the termination, has waited for session.timeout.ms.
WaitCoordTimeout ==
    /\ ~c.terminated /\ c.waitcoord # << >> /\ c.st # "UP"
    /\ "scan" \in Faults /\ NoFault
    /\ c' = CgrpServe([c EXCEPT !.tmo = c.term], FALSE, FALSE, ~c.term)
    /\ UNCHANGED <<gc, calls, prog>>

FindCoordinator ==
    /\ c.fc > 0 /\ ~c.terminated
    /\ \E due, found \in BOOLEAN :
          /\ IF found THEN NoFault ELSE Fault("findcoord")
          /\ LET x == [c EXCEPT !.fc = @ - 1]
             IN  c' = CgrpServe(IF found THEN CoordUpdate(x, TRUE)
                                ELSE [x EXCEPT !.st = "QUERY_COORD"], due, FALSE, FALSE)
    /\ UNCHANGED <<gc, calls, prog>>

\* coordinator.query.interval.ms
IntervalQuery ==
    /\ c.st = "UP" /\ c.fc = 0 /\ "query" \in Faults /\ NoFault
    /\ c' = CoordQuery(c) /\ UNCHANGED <<gc, calls, prog>>

MetadataResponse ==
    /\ c.md > 0 /\ ~c.terminated /\ [k |-> "mdop"] \notin ToSet(c.ops)
    /\ c' = HandleMetadata(c) /\ NoFault /\ UNCHANGED <<gc, calls, prog>>

\* A topic is deleted or created; the periodic refresh notices it.
MetadataChange ==
    /\ ~c.terminated /\ Fault("topics")
    /\ \E t \in Parts : LET new == IF t \in c.cluster THEN c.cluster \ {t}
                                   ELSE c.cluster \cup {t}
                        IN  c' = HandleMetadata([c EXCEPT !.cluster = new, !.md = @ + 1, !.ex = Parts])
    /\ UNCHANGED <<gc, calls, prog>>

\* enable.auto.commit: one commit of the timer at a time.
CommitTimer ==
    /\ ~c.terminated /\ c.wcommit = 0
    /\ \E p \in c.all : Offset(c, p) # Invalid
    /\ c.sub # Null => c.join = "STEADY"
    /\ c' = AssignedOffsetsCommit(c, Null, TRUE)
    /\ NoFault /\ UNCHANGED <<gc, calls, prog>>

\* max.poll.interval.ms passes without a poll.
MaxPollTimer ==
    /\ ~c.terminated /\ c.pollTmr /\ Fault("maxpoll")
    /\ c' = RevokeAllRejoinMaybe(
              [Leave([c EXCEPT !.maxPoll = TRUE, !.pollTmr = FALSE, !.late = TRUE,
                               !.ex = @ \cup c.all])
                 EXCEPT !.member = 0], TRUE)
    /\ gc' = [gc EXCEPT !.zombie = TRUE]
    /\ UNCHANGED <<calls, prog>>

-----------------------------------------------------------------------------
(* The connection.                                                         *)

ConnUp ==
    /\ c.known /\ ~c.up /\ c' = [c EXCEPT !.up = TRUE]
    /\ NoFault /\ UNCHANGED <<gc, calls, prog>>

Response(r) == [k |-> "resp", r |-> r]

ConnDown ==
    /\ c.up /\ Fault("disconnect")
    /\ c' = [EnqAll(c, [i \in DOMAIN c.conn |->
                          Response([c.conn[i] EXCEPT !.res = "transport"])])
               EXCEPT !.up = FALSE, !.conn = << >>]
    /\ UNCHANGED <<gc, calls, prog>>

Recv ==
    /\ c.up /\ c.conn # << >> /\ Head(c.conn).res \notin {"", "wait"}
    /\ c' = Enq([c EXCEPT !.conn = Tail(@)], Response(Head(c.conn)))
    /\ NoFault /\ UNCHANGED <<gc, calls, prog>>

-----------------------------------------------------------------------------
(* The application.                                                        *)

Calling == \E i \in DOMAIN c.ops : c.ops[i].k \in {"subscribe", "assign", "terminate"}

CallSubscribe ==
    /\ calls \in 0 .. MaxCalls - 1 /\ ~Calling
    /\ \E ts \in Subs :
          c' = Enq([c EXCEPT !.late = FALSE], [k |-> "subscribe", ts |-> ts])
    /\ calls' = calls + 1 /\ NoFault /\ UNCHANGED <<gc, prog>>

CallClose ==
    /\ calls >= 0 /\ ~Calling
    /\ c' = Enq([c EXCEPT !.late = FALSE], [k |-> "terminate"])
    /\ calls' = -1 /\ NoFault /\ UNCHANGED <<gc, prog>>

\* A poll finds a rebalance event: the application does as it says.
Poll ==
    /\ c.events # << >> /\ ~Calling
    /\ LET e == Head(c.events)
       IN  c' = Enq([c EXCEPT !.events = Tail(@), !.late = FALSE],
                    [k |-> "assign", incr |-> c.coop, add |-> e.add,
                     ps |-> IF c.coop \/ e.add THEN e.ps ELSE Null])
    /\ NoFault /\ UNCHANGED <<gc, calls, prog>>

\* A poll after the application was late.
PollAgain ==
    /\ c.late /\ c' = [c EXCEPT !.late = FALSE]
    /\ NoFault /\ UNCHANGED <<gc, calls, prog>>

\* A poll finds a message of p; its offset is stored (auto.offset.store).
Consume(p) ==
    /\ calls >= 0 /\ ~c.late /\ p \in c.fetch \cap c.assigned /\ c.pos[p] < MaxPos
    /\ LET o == c.pos[p] + 1
       IN  /\ c' = [c EXCEPT !.pos[p] = o, !.stored[p] = o,
                             !.ex = IF gc.zombie THEN @ \cup {p} ELSE @]
           /\ prog' = [prog EXCEPT !.hi[p] = IF o > @ THEN o ELSE @]
    /\ NoFault /\ UNCHANGED <<gc, calls>>

-----------------------------------------------------------------------------
(* The coordinator (external).  It works on one request of a connection at *)
(* a time; a JoinGroup waits until all members have joined.                *)

Request(k) == c.up /\ c.conn # << >> /\ Head(c.conn).k = k /\ Head(c.conn).res = ""

Answer(f) == c' = [c EXCEPT !.conn = <<f @@ Head(@)>> \o Tail(@)]

ToPrep(g) == [g EXCEPT !.phase = IF g.me # 0 \/ g.bIn THEN "prep" ELSE "empty"]

\* A member without an id is given one and asked to join with it.
ServeJoin ==
    /\ Request("Join")
    /\ LET m == Head(c.conn).member
       IN  IF m = 0
           THEN /\ Answer([res |-> "idrequired", id |-> gc.nextid])
                /\ gc' = [gc EXCEPT !.pend = gc.nextid, !.nextid = @ + 1]
           ELSE IF m \in {gc.pend, gc.me}
           THEN /\ Answer([res |-> "wait"])
                /\ gc' = ToPrep([gc EXCEPT !.me = m, !.pend = IF @ = m THEN 0 ELSE @,
                                           !.own = Head(c.conn).own,
                                           !.topics = Head(c.conn).topics])
           ELSE Answer([res |-> "unknown"]) /\ UNCHANGED gc
    /\ NoFault /\ UNCHANGED <<calls, prog>>

\* All members have joined; an eager one has first given up what it had.
Complete ==
    /\ gc.phase = "prep" /\ c.up /\ c.conn # << >> /\ Head(c.conn).res = "wait"
    /\ \E lead \in {"me"} \cup (IF gc.bIn THEN {"b"} ELSE {}) :
          /\ Answer([res |-> "ok", id |-> gc.me, gen |-> gc.gen + 1,
                     leader |-> IF lead # "me" THEN NoLeader
                                ELSE [on |-> TRUE, b |-> gc.bIn, own |-> gc.own,
                                      bown |-> gc.bown, topics |-> gc.topics]])
          /\ gc' = [gc EXCEPT !.gen = @ + 1, !.phase = "sync", !.lead = lead,
                              !.bown = IF c.coop THEN @ ELSE {},
                              !.zombie = @ /\ c.member # gc.me, !.brej = FALSE]
    /\ NoFault /\ UNCHANGED <<calls, prog>>

\* The leader's assignment arrives: B takes its part.
Assigned(g, asg, ans) ==
    LET new == asg.b \ g.bown
        starts == {<<p, g.com[p]>> : p \in new}
    IN  /\ gc' = [g EXCEPT !.phase = "stable", !.asg = asg, !.bown = asg.b,
                           !.brej = c.coop /\ g.bown \ asg.b # {}]
        /\ prog' = Taken(prog, c.ex, starts)
        /\ c' = [c EXCEPT !.ex = @ \ new,
                          !.conn = IF ans THEN <<[res |-> "ok", ps |-> asg.me] @@ Head(@)>>
                                               \o Tail(@)
                                   ELSE @]

ServeSync ==
    /\ Request("Sync")
    /\ LET r == Head(c.conn)
       IN  IF r.member = 0 \/ r.member # gc.me
           THEN Answer([res |-> "unknown"]) /\ UNCHANGED <<gc, prog>>
           ELSE IF r.gen # gc.gen
           THEN Answer([res |-> "illegal"]) /\ UNCHANGED <<gc, prog>>
           ELSE IF gc.phase = "prep"
           THEN Answer([res |-> "rebalance"]) /\ UNCHANGED <<gc, prog>>
           ELSE IF gc.phase = "stable"
           THEN Answer([res |-> "ok", ps |-> gc.asg.me]) /\ UNCHANGED <<gc, prog>>
           ELSE gc.lead = "me" /\ Assigned(gc, r.asg, TRUE)
    /\ NoFault /\ UNCHANGED calls

\* B, as the leader, assigns.
BSync ==
    /\ gc.phase = "sync" /\ gc.lead = "b"
    /\ LET own == [me |-> gc.own, b |-> gc.bown]
       IN  \E mine \in Shares(c.coop, gc.topics, c.cluster, own) :
              LET asg == [me |-> mine, b |-> c.cluster \ mine]
              IN  Assigned(gc, IF c.coop THEN Adjust(asg, own) ELSE asg, FALSE)
    /\ NoFault /\ UNCHANGED calls

\* B is the only member.
CompleteB ==
    /\ gc.phase = "prep" /\ gc.me = 0
    /\ Assigned([gc EXCEPT !.gen = @ + 1, !.lead = "b",
                           !.bown = IF c.coop THEN @ ELSE {}],
                [me |-> {}, b |-> c.cluster], FALSE)
    /\ NoFault /\ UNCHANGED calls

Standing(r) == IF r.member = 0 \/ r.member # gc.me THEN "unknown"
               ELSE IF r.gen # gc.gen THEN "illegal" ELSE "ok"

ServeHeartbeat ==
    /\ Request("Heartbeat")
    /\ Answer([res |-> IF Standing(Head(c.conn)) = "ok" /\ gc.phase = "prep"
                       THEN "rebalance" ELSE Standing(Head(c.conn))])
    /\ NoFault /\ UNCHANGED <<gc, calls, prog>>

ServeLeave ==
    /\ Request("Leave") /\ Answer([res |-> "ok"])
    /\ LET m == Head(c.conn).member
       IN  gc' = IF m # 0 /\ m = gc.me THEN ToPrep([gc EXCEPT !.me = 0])
                 ELSE [gc EXCEPT !.pend = IF @ = m THEN 0 ELSE @]
    /\ NoFault /\ UNCHANGED <<calls, prog>>

\* An empty group takes offsets from whoever is not a member.
ServeCommit ==
    /\ Request("Commit")
    /\ LET r == Head(c.conn)
           offs == Valid(r.op.offs)
           res == IF gc.phase = "empty" /\ r.gen = 0 THEN "ok"
                  ELSE IF Standing(r) = "ok" /\ gc.phase = "sync" THEN "rebalance"
                  ELSE Standing(r)
       IN  /\ Answer([res |-> res])
           /\ gc' = [gc EXCEPT !.com = [p \in Parts |->
                         IF res = "ok" /\ \E o \in offs : o[1] = p
                         THEN (CHOOSE o \in offs : o[1] = p)[2] ELSE @[p]]]
    /\ NoFault /\ UNCHANGED <<calls, prog>>

ServeOffsetFetch ==
    /\ Request("OFetch")
    /\ Answer([res |-> "ok", offs |-> {<<p, gc.com[p]>> : p \in Head(c.conn).ps}])
    /\ NoFault /\ UNCHANGED <<gc, calls, prog>>

ServeMeta ==
    /\ Request("Meta") /\ Answer([res |-> "ok"])
    /\ NoFault /\ UNCHANGED <<gc, calls, prog>>

\* The coordinator moved, or is not ready.
NotCoordinator ==
    /\ \E k \in {"Join", "Sync", "Heartbeat", "Leave", "Commit", "OFetch"} : Request(k)
    /\ Fault("notcoord") /\ Answer([res |-> "notcoord"])
    /\ UNCHANGED <<gc, calls, prog>>

\* The coordinator has not heard of this member for the session timeout.
Expel ==
    /\ gc.me # 0 /\ ~(c.conn # << >> /\ Head(c.conn).res = "wait")
    /\ Fault("expel")
    /\ gc' = ToPrep([gc EXCEPT !.me = 0, !.zombie = TRUE])
    /\ c' = [c EXCEPT !.ex = Parts]
    /\ UNCHANGED <<calls, prog>>

BMove ==
    /\ gc.nb < MaxB
    /\ gc' = ToPrep([gc EXCEPT !.bIn = ~@, !.bown = {}, !.brej = FALSE, !.nb = @ + 1])
    /\ NoFault /\ UNCHANGED <<c, calls, prog>>

\* B had to give up partitions, and joins again for them to be assigned.
BRejoin ==
    /\ gc.brej /\ gc' = ToPrep([gc EXCEPT !.brej = FALSE])
    /\ NoFault /\ UNCHANGED <<c, calls, prog>>

\* B consumes a message of p and commits.
BWork(p) ==
    /\ p \in gc.bown /\ gc.com[p] < MaxPos
    /\ gc' = [gc EXCEPT !.com[p] = @ + 1]
    /\ prog' = [prog EXCEPT !.hi[p] = gc.com[p] + 1]
    /\ NoFault /\ UNCHANGED <<c, calls>>

-----------------------------------------------------------------------------
InitThread(conf) ==
    LET on  == IF Started THEN Parts ELSE {}
        lst == IF Started THEN Parts ELSE Null
        one == IF Started THEN 1 ELSE 0
    IN  [st |-> IF Started THEN "UP" ELSE "QUERY_COORD", known |-> Started,
         up |-> Started, fc |-> 0, join |-> IF Started THEN "STEADY" ELSE "INIT",
         member |-> one, gen |-> one, assignor |-> Started,
         coop |-> conf.coop, cb |-> conf.cb, grp |-> lst, incr |-> Null,
         sub |-> lst, nsub |-> Null, nunsub |-> FALSE, rejoin |-> FALSE,
         lost |-> FALSE, topics |-> on, leader |-> NoLeader, wresp |-> "",
         term |-> FALSE, tmo |-> FALSE, wcq |-> TRUE, waitLeave |-> FALSE,
         leaveOn |-> FALSE, left |-> FALSE, hb |-> FALSE, maxPoll |-> FALSE,
         late |-> FALSE, pollTmr |-> Started, fsub |-> Started,
         session |-> Started, terminated |-> FALSE, all |-> on, pend |-> {},
         queried |-> {}, removed |-> {}, wstop |-> 0, wcommit |-> 0,
         started |-> on, assigned |-> on, stored |-> [p \in Parts |-> Invalid],
         committed |-> [p \in Parts |-> IF Started THEN 0 ELSE Invalid],
         pos |-> [p \in Parts |-> 0], fetch |-> on, incgrp |-> on, oncgrp |-> on,
         waitcoord |-> << >>, ops |-> << >>, conn |-> << >>, events |-> << >>,
         md |-> 0, cached |-> on, cluster |-> Parts, ex |-> {}, ok |-> TRUE]

Init ==
    /\ \E conf \in Confs : c = InitThread(conf)
    /\ gc = [gen |-> c.gen, phase |-> IF Started THEN "stable" ELSE "empty",
             me |-> c.member, pend |-> 0, bIn |-> FALSE, lead |-> "me",
             asg |-> [me |-> c.all, b |-> {}], com |-> [p \in Parts |-> 0],
             own |-> {}, bown |-> {}, topics |-> c.all, nextid |-> 2,
             zombie |-> FALSE, brej |-> FALSE, nb |-> 0]
    /\ calls = 0 /\ faults = 0
    /\ prog = [hi |-> [p \in Parts |-> 0], dup |-> {}]

Coordinator == \/ ServeJoin \/ Complete \/ ServeSync \/ BSync \/ CompleteB
               \/ ServeHeartbeat \/ ServeLeave \/ ServeCommit
               \/ ServeOffsetFetch \/ ServeMeta \/ BRejoin

Next ==
    \/ Main
    \/ \E due \in BOOLEAN : MainServe(due)
    \/ SessionTimeout \/ WaitCoordTimeout \/ FindCoordinator \/ IntervalQuery
    \/ MetadataResponse \/ MetadataChange \/ CommitTimer \/ MaxPollTimer
    \/ ConnUp \/ ConnDown \/ Recv
    \/ CallSubscribe \/ CallClose \/ Poll \/ PollAgain
    \/ Coordinator \/ NotCoordinator \/ Expel \/ BMove
    \/ \E p \in Parts : Consume(p) \/ BWork(p)

Spec == Init /\ [][Next]_vars

\* The main thread never stops, nor do the brokers; the application polls.
\* (Weak fairness; ENABLED of the main thread's actions is spelled out.)
Fairness ==
    /\ []<>(c.ops = << >>) \/ []<><<Main>>_vars
    /\ []<>(c.terminated \/ CgrpServe(c, TRUE, FALSE, FALSE) = c)
         \/ []<><<MainServe(TRUE)>>_vars
    /\ []<>(c.fc = 0 \/ c.terminated) \/ []<><<FindCoordinator>>_vars
    /\ []<>(c.md = 0 \/ c.terminated \/ [k |-> "mdop"] \in ToSet(c.ops))
         \/ []<><<MetadataResponse>>_vars
    /\ WF_vars(Coordinator) /\ WF_vars(Recv) /\ WF_vars(ConnUp)
    /\ WF_vars(Poll) /\ WF_vars(PollAgain)

LiveSpec == Spec /\ Fairness

-----------------------------------------------------------------------------
\* No assertion of cgrp.c and assignment.c fails, whatever the order of late
\* responses, rebalances, timeouts and termination: no response is waited for
\* twice, no partition is started, joined or stopped twice, no counter of
\* commits or stops goes below zero, and a group assignment changes only by
\* what it has or has not.
AssertsHold == c.ok

\* Two members never fetch one partition: a partition that moves is stopped by
\* its old owner before the new one starts it.  Excepted is a member that the
\* coordinator gave up, until it has noticed and joined again.
NoDual == c.fetch \cap gc.bown # {} => gc.zombie

\* A message whose offset was stored before its partition moved is not delivered
\* again by the next owner: the commit precedes the move, and a partition is not
\* started at an offset that was fetched too early.  Excepted are offsets whose
\* commit was refused or given up, and a close() that meets a fault or an
\* unanswered rebalance callback (it leaves the group before it commits).
NoRedelivery == "running" \notin prog.dup /\ (~c.cb /\ faults = 0 => prog.dup = {})

\* When an eager member's close() is over it has left the group, unless a
\* subscribe() was waiting for a rebalance to end when it was called.
ClosedLeft ==
    c.terminated /\ faults = 0 /\ ~c.coop /\ c.nsub = Null /\ c.sub = Null => gc.me = 0

\* An assigned partition is fetched from, or given up: it does not wait for ever
\* for its old fetcher to stop, for commits to end or for its committed offset.
Starts == \A p \in Parts : p \in c.all ~> (p \in c.fetch \/ p \notin c.all)

\* rd_kafka_consumer_close() returns.
Closes == calls = -1 ~> c.terminated

\* A partition that moves has one owner at a time, and the next one goes on
\* where the last one left off (rd_kafka_cgrp_rebalance_op(),
\* rd_kafka_assignment_serve_removals()).
Handover == NoDual /\ NoRedelivery

\* Nothing waits for ever: assigned partitions are fetched from and a close
\* returns (rd_kafka_assignment_serve(), rd_kafka_cgrp_try_terminate()).
Progress == Starts /\ Closes
=============================================================================
