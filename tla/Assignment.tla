----------------------------- MODULE Assignment -----------------------------
(***************************************************************************)
(* The assignment of a consumer (hs_rdkafka_assignment.c) and the commits  *)
(* of its offsets (hs_rdkafka_cgrp.c), as functions of the main thread's   *)
(* state.                                                                  *)
(*                                                                         *)
(* Everything here runs on the main thread, one op after the other.  Its   *)
(* state is one record, c, and a C function that changes it is an operator *)
(* from records to records.  c.ops is the queue of that thread (rk_ops, to *)
(* which the queues of the group and of the partitions are forwarded) and  *)
(* c.conn the connection to the group coordinator, oldest request first.   *)
(* A partition list is a set, a list with offsets a set of pairs; a topic  *)
(* has one partition and is known by the same name.                        *)
(***************************************************************************)
EXTENDS Integers, Sequences, FiniteSets, SequencesExt

CONSTANTS Parts,    \* the partitions
          Retries   \* rkbuf_max_retries of a request

Null == {"NULL"}    \* a list pointer that is NULL, which differs from {}
Invalid == -1       \* RD_KAFKA_OFFSET_INVALID and RD_KAFKA_OFFSET_STORED

ASSUME AssignmentAssumption == Retries \in Nat /\ "NULL" \notin Parts

-----------------------------------------------------------------------------
(* The queue, the connection and the assertions of the code.               *)

\* rd_kafka_cgrp_terminated() disables the queue.
Enq(c, op) == IF c.terminated THEN c ELSE [c EXCEPT !.ops = Append(@, op)]

EnqAll(c, ops) == FoldLeft(Enq, c, ops)

Send(c, r) == [c EXCEPT !.conn = Append(@, r @@ [tries |-> 0, res |-> ""])]

\* rd_kafka_buf_retry(): r is sent once more, when it may be.
CanRetry(r, max) == r.tries < max
Resend(c, r) == [c EXCEPT !.conn = Append(@, [r EXCEPT !.tries = @ + 1, !.res = ""])]

RdAssert(c, p) == [c EXCEPT !.ok = @ /\ p]

-----------------------------------------------------------------------------
(* Offset commits.  A commit is an op; it is sent, or put aside until      *)
(* there is a coordinator, or answered with an error.                      *)

CommitOp(offs) == [k |-> "commit", offs |-> offs, re |-> FALSE, timed |-> FALSE]

Offset(c, p) == IF c.stored[p] > c.committed[p] THEN c.stored[p] ELSE Invalid

Valid(offs) == {o \in offs : o[2] # Invalid}

\* rd_kafka_cgrp_defer_offset_commit(): once, while wait_coord_q takes ops.
CanDefer(c, op) == ~op.timed /\ c.wcq
Defer(c, op) ==
    [c EXCEPT !.waitcoord = Append(@, [op EXCEPT !.re = TRUE, !.timed = TRUE])]

CommitError(c, op, err) == Enq(c, [k |-> "commitresp", op |-> op, err |-> err])

OffsetsCommit(c, op, setOffsets) ==
    LET c1   == IF op.re THEN c ELSE [c EXCEPT !.wcommit = @ + 1]
        list == IF op.offs = Null
                THEN IF c.all = {} THEN Null ELSE {<<p, Invalid>> : p \in c.all}
                ELSE op.offs
        Commit(o1) ==
           IF o1.offs = Null \/ Valid(o1.offs) = {}
           THEN CommitError(c1, o1, "nooffset")
           ELSE IF c.st # "UP"
           THEN IF CanDefer(c, o1) THEN Defer(c1, o1)
                ELSE CommitError(c1, o1, "waitcoord")
           ELSE Send(c1, [k |-> "Commit", op |-> o1, member |-> c.member,
                          gen |-> c.gen])
    IN  IF op.offs = Null /\ c.all # {} /\ c.lost
        THEN CommitError(c1, op, "lost")
        ELSE Commit([op EXCEPT !.offs = IF setOffsets /\ list # Null
                                        THEN {<<o[1], Offset(c, o[1])>> : o \in list}
                                        ELSE list])

AssignedOffsetsCommit(c, offs, setOffsets) ==
    IF c.lost THEN c ELSE OffsetsCommit(c, CommitOp(offs), setOffsets)

-----------------------------------------------------------------------------
(* Serving the assignment: first what is removed, then what is pending.    *)

(* Mutant: the offsets are reset before they are read for the commit.      *)
ServeRemovalsReset(c) ==
    LET stop == c.removed \cap c.started
        c1 == [c EXCEPT
                 !.pend = {o \in @ : o[1] \notin c.removed},
                 !.queried = @ \ c.removed,
                 !.fetch = @ \ stop,
                 !.wstop = @ + Cardinality(stop),
                 !.stored = [p \in Parts |-> IF p \in c.removed THEN Invalid ELSE @[p]],
                 !.assigned = @ \ c.removed]
        c2 == EnqAll(c1, SetToSeq({[k |-> "stop", p |-> p, reply |-> TRUE] : p \in stop}))
    IN  IF c.removed = {} THEN c ELSE [c2 EXCEPT !.removed = {}]

\* ex: messages of p were handed out and their offset is given up.
ServeRemovals(c) ==
    LET stop == c.removed \cap c.started
        offs == {<<p, c.stored[p]>> : p \in c.removed}
        c1 == RdAssert(c, c.removed \subseteq c.assigned)
        c2 == [c1 EXCEPT
                 !.pend = {o \in @ : o[1] \notin c.removed},
                 !.queried = @ \ c.removed,
                 !.fetch = @ \ stop,
                 !.wstop = @ + Cardinality(stop),
                 !.stored = [p \in Parts |-> IF p \in c.removed THEN Invalid ELSE @[p]],
                 !.assigned = @ \ c.removed,
                 !.ex = IF c.lost THEN @ \cup {o[1] : o \in Valid(offs)} ELSE @]
        c3 == EnqAll(c2, SetToSeq({[k |-> "stop", p |-> p, reply |-> TRUE] : p \in stop}))
        Commit(x) == IF Valid(offs) # {} THEN AssignedOffsetsCommit(x, offs, FALSE) ELSE x
    IN  IF c.removed = {} THEN c ELSE [Commit(c3) EXCEPT !.removed = {}]

CanQuery(c) == c.st = "UP" /\ c.wcommit = 0 /\ c.queried = {}

ServePending(c) ==
    LET start == {o \in c.pend : o[2] # Invalid}
        ask   == IF CanQuery(c) THEN {o[1] : o \in c.pend \ start} ELSE {}
        c1 == RdAssert(c, \A o \in c.pend : o[1] \notin c.started)
        c2 == [c1 EXCEPT !.started = @ \cup {o[1] : o \in start},
                         !.pend = {o \in @ \ start : o[1] \notin ask},
                         !.queried = @ \cup ask]
        Ask(x) == IF ask = {} THEN x
                  ELSE Send(x, [k |-> "OFetch", ps |-> ask, cur |-> TRUE, offs |-> {}])
    IN  IF c.wstop > 0 \/ c.wcommit > 0 \/ c.pend = {} THEN c
        ELSE Ask(EnqAll(c2, SetToSeq({[k |-> "start", p |-> o[1], off |-> o[2]] :
                                          o \in start})))

\* rd_kafka_assignment_serve(), up to its call of
\* rd_kafka_cgrp_assignment_done(), which is made when Settled.
ServeLists(c) == ServePending(ServeRemovals(c))

Settled(c) == c.pend = {} /\ c.queried = {} /\ c.wstop = 0 /\ c.wcommit = 0

InProgress(c) == \/ c.wcommit > 0 \/ c.wstop > 0
                 \/ c.pend # {} \/ c.queried # {} \/ c.removed # {}

-----------------------------------------------------------------------------
(* Changing the assignment.                                                *)

\* version++: a query on its way is no longer the current one.
NewVersion(c) ==
    LET old(r) == IF r.k = "OFetch" THEN [r EXCEPT !.cur = FALSE] ELSE r
        oldOp(o) == IF o.k = "resp" THEN [o EXCEPT !.r = old(@)] ELSE o
    IN  [c EXCEPT !.conn = [i \in DOMAIN @ |-> old(@[i])],
                  !.ops = [i \in DOMAIN @ |-> oldOp(@[i])]]

Clear(c) ==
    IF c.all = {} THEN c
    ELSE NewVersion([c EXCEPT !.pend = {}, !.queried = {},
                              !.removed = @ \cup c.all, !.all = {}])

AddFails(c, ps) == ps \cap c.all # {}
Add(c, ps) ==
    LET c1 == RdAssert(c, ps \cap c.assigned = {})
    IN  NewVersion([c1 EXCEPT !.assigned = @ \cup ps, !.all = @ \cup ps,
                              !.pend = @ \cup {<<p, Invalid>> : p \in ps},
                              !.stored = [p \in Parts |->
                                            IF p \in ps THEN Invalid ELSE @[p]]])

SubtractFails(c, ps) == ~(ps \subseteq c.all)
Subtract(c, ps) ==
    LET c1 == [c EXCEPT !.all = @ \ ps, !.queried = @ \ ps,
                        !.pend = {o \in @ : o[1] \notin ps \ c.queried},
                        !.removed = @ \cup ps]
    IN  NewVersion(RdAssert(c1, c1.all = {} => c1.pend = {} /\ c1.queried = {}))

\* The partition's FETCH_STOP reply; the last one serves the assignment.
PartitionStopped(c, p) == [RdAssert(c, c.wstop > 0 /\ p \in c.started)
                             EXCEPT !.wstop = @ - 1, !.started = @ \ {p}]

\* Offsets fetched for partitions that are still queried; the assignment is
\* served when there were any.
ApplyOffsets(c, offs) ==
    LET hit == {o \in offs : o[1] \in c.queried}
    IN  [c EXCEPT !.queried = @ \ {o[1] : o \in hit},
                  !.pend = @ \cup hit,
                  !.committed = [p \in Parts |->
                      IF \E o \in offs : o[1] = p
                      THEN (CHOOSE o \in offs : o[1] = p)[2] ELSE @[p]]]
=============================================================================
