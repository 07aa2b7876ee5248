---------------------------- MODULE MsgSetReader ----------------------------
(***************************************************************************)
(* What a read_committed consumer makes of the batches of a Fetch response *)
(* (hs_rdkafka_msgset_reader.c). The log is a sequence of batches of one   *)
(* record, the record of offset o at o + 1. A batch is plain, or it        *)
(* belongs to a transaction of a producer, or it is that producer's commit *)
(* or abort marker. The broker (external) sends batches up to its last     *)
(* stable offset, and the first offsets of the aborted transactions.       *)
(* A legacy batch is a message of format 0 or 1.                           *)
(***************************************************************************)
EXTENDS Integers, Sequences, FiniteSets, FiniteSetsExt, SequencesExt

Batches(Pids) == [kind : {"plain", "legacy"}] \cup
                 [kind : {"data", "commit", "abort"}, pid : Pids]

Rec(log, o) == log[o + 1]
IsMarker(b) == b.kind \in {"commit", "abort"}

(* The transaction whose marker is at l: its data since the last marker.   *)
Txn(log, l) ==
    {o \in 0..(l - 1) :
       /\ Rec(log, o).kind = "data" /\ Rec(log, o).pid = Rec(log, l).pid
       /\ \A k \in (o + 1)..(l - 1) :
            ~(IsMarker(Rec(log, k)) /\ Rec(log, k).pid = Rec(log, l).pid)}
Markers(log, end) == {l \in 0..(end - 1) : IsMarker(Rec(log, l))}

(* LastStableOffset: no open transaction below it.                         *)
Open(log, end) ==
    {o \in 0..(end - 1) :
       /\ Rec(log, o).kind = "data"
       /\ \A l \in Markers(log, end) : o \notin Txn(log, l)}
LastStable(log, end) == IF Open(log, end) = {} THEN end
                        ELSE Min(Open(log, end))

(* What the application should get from the log: what is committed.        *)
Committed(log, o) ==
    \/ Rec(log, o).kind \in {"plain", "legacy"}
    \/ \E l \in (o + 1)..(Len(log) - 1) :
         Rec(log, l).kind = "commit" /\ o \in Txn(log, l)

(* AbortedTransactions of a response with the batches below `to` to a      *)
(* fetch from `from`, per producer, sorted.                                *)
Aborted(log, from, to, end, pid) ==
    LET aborts == {l \in Markers(log, end) :
                     /\ l >= from /\ Rec(log, l).kind = "abort"
                     /\ Rec(log, l).pid = pid
                     /\ \E o \in Txn(log, l) : o < to}
    IN  SetToSortSeq({Min(Txn(log, l)) : l \in aborts}, <)

-----------------------------------------------------------------------------
(* The reader: `offsets` are the aborted transactions' first offsets of    *)
(* each producer, `idx` the ones already popped.                           *)

MaxOffset == 2147483647

NextOffset(offsets, idx, pid, max) ==
    IF idx[pid] < Len(offsets[pid]) /\ offsets[pid][idx[pid] + 1] <= max
    THEN offsets[pid][idx[pid] + 1] ELSE -1

SkipAborted(r, b, o) ==
    LET start == NextOffset(r.offsets, r.idx, b.pid, MaxOffset)
    IN  start # -1 /\ o >= start

PopAborted(r, b, o) ==
    IF b.kind = "abort" /\ NextOffset(r.offsets, r.idx, b.pid, o) # -1
    THEN [r.idx EXCEPT ![b.pid] = @ + 1] ELSE r.idx

(* One record: the op it adds, [off, ctrl], unless it is before the fetch  *)
(* position.                                                               *)
ReadV1(r, b, o, fetch) ==
    IF o < fetch THEN r ELSE [r EXCEPT !.ops = Append(@, [off |-> o,
                                                          ctrl |-> FALSE])]
ReadV2(r, b, o, fetch) ==
    IF o < fetch THEN r
    ELSE [r EXCEPT !.ops = Append(@, [off |-> o, ctrl |-> IsMarker(b)]),
                   !.idx = IF IsMarker(b) THEN PopAborted(r, b, o) ELSE @]

(* One batch: a batch of an aborted transaction is skipped. Then the       *)
(* offset after it.                                                        *)
ReadBatch(r, b, o, fetch) ==
    [CASE b.kind = "legacy" -> ReadV1(r, b, o, fetch)
       [] b.kind = "data" /\ o >= fetch /\ SkipAborted(r, b, o) -> r
       [] OTHER -> ReadV2(r, b, o, fetch) EXCEPT !.next = o + 1]

(* rd_kafka_msgset_reader_run() on the batches from..to - 1 of the         *)
(* response to a request for `req` of a log that ends at `end`, with the   *)
(* fetch position `fetch`.                                                 *)
Read(log, end, req, from, to, fetch) ==
    LET pids == {log[i].pid : i \in {k \in 1..Len(log) :
                                       "pid" \in DOMAIN log[k]}}
        init == [ops |-> <<>>, next |-> 0, idx |-> [p \in pids |-> 0],
                 offsets |-> [p \in pids |-> Aborted(log, req, to, end, p)]]
        R[o \in (from - 1)..(to - 1)] ==
            IF o < from THEN init
            ELSE ReadBatch(R[o - 1], Rec(log, o), o, fetch)
    IN  R[to - 1]

(* The fetch position afterwards.                                          *)
NextFetch(r, fetch) ==
    LET last == IF r.ops = <<>> THEN fetch ELSE Last(r.ops).off + 1
    IN  IF r.next > last THEN r.next ELSE last
=============================================================================
