----------------------------- MODULE MCThreads ------------------------------
(***************************************************************************)
(* The threads of a client, for TLC: the main thread with its timers, or   *)
(* the thread of one broker, as Init chooses; the other has nothing to do. *)
(***************************************************************************)
EXTENDS Timers, BrokerConn

CONSTANTS r1, r2

VARIABLE part

(* Two requests to the broker: a blocking one made by the main thread, one *)
(* of a higher priority made by the broker thread.                         *)
Cf(sparse, fails, unsupported, n) ==
    [sparse |-> sparse, fails |-> fails, unsupported |-> unsupported,
     faults |-> n]
Configurations == {Cf(TRUE, 1, {}, 2), Cf(FALSE, 0, {}, 1),
                   Cf(TRUE, 0, {r1}, 1)}

-----------------------------------------------------------------------------
(* Timers after rd_kafka_timers_destroy, a broker thread that nobody has   *)
(* given a request.                                                        *)
TRest ==
    /\ tmr = [t \in TimerIds |-> [interval |-> 0, sched |-> FALSE,
                                  next |-> 0, oneshot |-> FALSE]]
    /\ list = <<>> /\ on = FALSE /\ wake = FALSE
    /\ main = [pc |-> "end", until |-> 0, now |-> 0, cur |-> NoTimer]
    /\ term = TRUE /\ owed = {} /\ calls = 0
BRest == ConnInit /\ b.cf = Cf(TRUE, 1, {}, 2)

MCInit == /\ part \in {"timers", "broker"}
          /\ IF part = "timers" THEN Init ELSE TRest
          /\ IF part = "broker" THEN ConnInit ELSE BRest
MCNext == \/ part = "timers" /\ Next /\ UNCHANGED <<bvars, part>>
          \/ part = "broker" /\ ConnNext /\ UNCHANGED <<vars, part>>
MCSpec == MCInit /\ [][MCNext]_<<vars, bvars, part>> /\ Fairness /\ ConnFairness

-----------------------------------------------------------------------------
(* Timers fire, requests are answered and the broker thread ends           *)
(* (rd_kafka_timers_run(), rd_kafka_broker_serve()).                       *)
Progress == Fires /\ RequestsEnd
=============================================================================
