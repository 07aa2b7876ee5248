---------------------------- MODULE MCExactlyOnce ----------------------------
(***************************************************************************)
(* What a producer promises of the log, for TLC: the idempotent producer   *)
(* of a partition, in three configurations, or the transaction manager, as *)
(* Init chooses; the other stays as it began.                              *)
(***************************************************************************)
EXTENDS Integers, Sequences

CONSTANTS BatchMax, SeqMod, EpochMod
CONSTANTS Parts, MaxTxn, MaxReqs, MaxFaults, Started

VARIABLES p, thread, outbufs, waitresp, tmpq, up, net, replies, brk, upset
VARIABLES tx, cc, conn, api, msg, pid, offs, co, told, acc, txn, faults
VARIABLE part

(* Connections are lost and appends answered with an error: three          *)
(* messages, three requests in flight.                                     *)
Once == INSTANCE PartitionProducer
    WITH MaxMsgs <- 3, MaxInflight <- 3, MaxRetries <- 2, Gapless <- FALSE,
         Faults <- {"disconnect", "afterappend"}, MaxFaults <- 2, faults <- upset
(* Two faults of any kind but that the leader changes or forgets the       *)
(* producer.                                                               *)
Faulty == INSTANCE PartitionProducer
    WITH MaxMsgs <- 3, MaxInflight <- 2, MaxRetries <- 2, Gapless <- FALSE,
         Faults <- {"disconnect", "notenough", "afterappend", "denied", "timeout", "bump"},
         MaxFaults <- 2, faults <- upset
(* enable.gapless.guarantee, with retries that are not exhausted and a     *)
(* leader that changes or forgets the producer.                            *)
Gapless == INSTANCE PartitionProducer
    WITH MaxMsgs <- 3, MaxInflight <- 2, MaxRetries <- 3, Gapless <- TRUE,
         Faults <- {"disconnect", "notleader", "denied", "notenough", "bump", "forget"},
         MaxFaults <- 2, faults <- upset
(* Transactions, with any fault but a failed lookup of the coordinator     *)
(* (and a request that waits too long for a connection, which takes two).  *)
X == INSTANCE TxnMgr
    WITH Faults <- {"disconnect", "notcoord", "retriable", "perm", "fence",
                    "lostack", "rejected", "unknownpid", "msgtimeout", "flush"},
         ApiTimeouts <- {}

dvars == <<p, thread, outbufs, waitresp, tmpq, up, net, replies, brk, upset>>
xvars == <<tx, cc, conn, api, msg, pid, offs, co, told, acc, txn, faults>>
vars == <<dvars, xvars, part>>

Init == /\ part \in {"once", "faulty", "gapless", "txn"} /\ X!Init
        /\ CASE part = "faulty" -> Faulty!Init
             [] part = "gapless" -> Gapless!Init
             [] OTHER -> Once!Init
Next == \/ /\ \/ part = "once" /\ Once!Next
              \/ part = "faulty" /\ Faulty!Next
              \/ part = "gapless" /\ Gapless!Next
           /\ UNCHANGED <<xvars, part>>
        \/ part = "txn" /\ X!Next /\ UNCHANGED <<dvars, part>>
Spec == Init /\ [][Next]_vars

-----------------------------------------------------------------------------
(* The properties of PartitionProducer, in the configurations they are     *)
(* promised for, and of TxnMgr.                                            *)

(* What is reported of a message is true of the log, also when it is       *)
(* acknowledged implicitly (rd_kafka_dr_msgq()).  An epoch's messages are  *)
(* logged once and in order (rd_kafka_handle_idempotent_Produce_error()):  *)
(* all of them, while it is not bumped; and with the gapless guarantee     *)
(* none is missing before another (rd_kafka_idemp_set_fatal_error()).      *)
LogSound == /\ part = "once" => Once!OrderedInEpoch
            /\ part = "faulty" => /\ Faulty!HonestReports /\ Faulty!AckedPersisted
                                  /\ Faulty!OrderedInEpoch
            /\ part = "gapless" => /\ Gapless!HonestReports /\ Gapless!AckedPersisted
                                   /\ Gapless!NoGap
(* Client and leader agree on the sequence, batches are rebuilt as they    *)
(* were, and the leader remembers what may be sent again                   *)
(* (rd_kafka_handle_idempotent_Produce_success(),                          *)
(* rd_kafka_msgset_writer_write_msgq(), RD_KAFKA_IDEMP_MAX_INFLIGHT).      *)
InSync == /\ part = "once" => Once!InSync
          /\ part = "faulty" => Faulty!Reconstructible /\ Faulty!Remembered
(* The transaction manager's state machine is sound                        *)
(* (rd_kafka_txn_set_state()).                                             *)
TxnSound == X!TxnSound
(* The transaction manager implements TxnOutcome                           *)
(* (rd_kafka_txn_handle_EndTxn()).                                         *)
Atomic == X!Atomic
=============================================================================
