------------------------------ MODULE MCWaits ------------------------------
(***************************************************************************)
(* The calls in which an application waits, for TLC: it produces into a    *)
(* queue with room for one of its messages, or asks the brokers for        *)
(* offsets and groups, as Init chooses; the other part stays as it began.  *)
(***************************************************************************)
EXTENDS SyncCalls

CONSTANTS t1, t2, p1, m1, m2, Nobody

VARIABLES at, cnt, size, fatal, term, repOpen, pc, cur, again, anchored, opaque,
          noncopy, rkmHdrs, hdrs, bad, todo, accepted, reported, flush
VARIABLE part

(* A queue with room for one message.                                     *)
UnitSize == [m \in {m1, m2} |-> 1]
P == INSTANCE Producer
    WITH Threads <- {t1, t2}, Pollers <- {p1}, Msgs <- {m1, m2}, Size <- UnitSize,
         Pinned <- {m1}, WithHdrs <- {m1, m2}, TooLarge <- {}, MaxCnt <- 1, MaxSize <- 10,
         Dissolve <- "destroyMessageOpaque_", DrErrOnly <- FALSE

(* Calls that wait, and what may happen meanwhile.                         *)
CallOf(name, parts, group, appends, trims, moves, errs, flaps) ==
    [api |-> name, parts |-> parts, group |-> group,
     bounds |-> [appends |-> appends, trims |-> trims, moves |-> moves,
                 faults |-> errs, flaps |-> flaps]]
WatermarkCalls ==
    {CallOf("watermarks", {"p"}, "none", 1, 1, 0, 1, 0),
     CallOf("watermarks", {"p"}, "none", 0, 0, 2, 0, 0),
     CallOf("watermarks", {"p"}, "none", 0, 0, 1, 1, 1)}
AllCalls == WatermarkCalls \cup
    {CallOf("times", {"p", "q"}, "none", 1, 0, 0, 0, 0),
     CallOf("times", {"p", "q"}, "none", 0, 0, 1, 1, 0),
     CallOf("times", {"p"}, "none", 1, 0, 0, 2, 1),
     CallOf("groups", {}, "none", 0, 0, 0, 2, 0), CallOf("groups", {}, "g", 0, 0, 0, 1, 0)}

-----------------------------------------------------------------------------
pvars == <<at, cnt, size, fatal, term, repOpen, pc, cur, again, anchored, opaque,
           noncopy, rkmHdrs, hdrs, bad, todo, accepted, reported, flush>>
mvars == <<pvars, vars, part>>

(* The call that nobody makes is one of the cases.                         *)
YRest == /\ \A p \in Parts : env.leader[p] = "b1" /\ env.cache[p] = "b1"
         /\ call.api = "watermarks" /\ left.moves = 2

MCInit == part \in {"client", "calls"} /\ P!Init /\ Init /\ (part # "calls" => YRest)
MCNext ==
    \/ part = "client" /\ P!Next /\ UNCHANGED <<vars, part>>
    \/ part = "calls" /\ Next /\ UNCHANGED <<pvars, part>>
(* What rests has nothing to do, so its fairness asks for nothing.         *)
MCSpec == MCInit /\ [][MCNext]_mvars /\ P!Fairness /\ Fairness

-----------------------------------------------------------------------------
(* Blocked producers return, accepted messages are reported and a close    *)
(* ends (rd_kafka_curr_msgs_sub(), rd_kafka_destroy()), and every call     *)
(* that waits for brokers returns (rd_kafka_q_serve()).                    *)
Progress == P!Progress /\ Returns
=============================================================================
