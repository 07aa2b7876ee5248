------------------------------- MODULE MsgSets -------------------------------
(***************************************************************************)
(* The sets of messages that a producer writes and a consumer reads        *)
(* (hs_rdkafka_msgset_writer.c, hs_rdkafka_msgset_reader.c), in the three  *)
(* formats that brokers know, compressed or not.  The writer takes from    *)
(* its queue what the limits allow; the broker (external) gives offsets    *)
(* and stores; the reader turns what is stored into messages again.        *)
(* A key, a value or a header is its length, -1 when NULL, and belongs to  *)
(* the message `id'.                                                       *)
(***************************************************************************)
EXTENDS Integers, Sequences, SequencesExt, FiniteSetsExt, TLC

CONSTANT
    SetCases   \* messages, limits, codec, broker and timestamps of a run

VARIABLES
    mset,    \* the case, and the messages that the broker has appended
    queue,   \* the partition's messages to be sent
    req,     \* the request being sent
    log,     \* what the broker stores: batches, or single and wrapper messages
    rd       \* the consumer: where it began, its position, what it has read

vars == <<mset, queue, req, log, rd>>

Sum(s) == FoldLeft(+, 0, s)
Bytes(n) == IF n = -1 THEN 0 ELSE n

-----------------------------------------------------------------------------
(* rd_uvarint_enc_i64: the size of a number, of up to four bytes here.     *)
Zigzag(n) == IF n < 0 THEN -2 * n - 1 ELSE 2 * n
VarintSize(n) == Min({k \in 1..4 : Zigzag(n) < 128^k})

(* rd_kafka_header_add keeps the size that the headers will have, and      *)
(* rd_kafka_msgset_writer_write_msg_headers writes them.                   *)
SerSize(hdrs) ==
    Sum([i \in DOMAIN hdrs |-> hdrs[i].name + Bytes(hdrs[i].value)
                               + VarintSize(hdrs[i].name) + VarintSize(Bytes(hdrs[i].value))])
WrittenHeaders(hdrs) ==
    Sum([i \in DOMAIN hdrs |-> VarintSize(hdrs[i].name) + hdrs[i].name
                               + VarintSize(hdrs[i].value) + Bytes(hdrs[i].value)])

(* rd_kafka_msg_wire_size, rd_kafka_msg_max_wire_size: the most that a     *)
(* message may need.                                                       *)
Overhead(v) == CASE v = 0 -> 26 [] v = 1 -> 34 [] v = 2 -> 36
Payload(m) == Bytes(m.key) + Bytes(m.val)
WireSize(m, v) == Overhead(v) + Payload(m) + (IF v = 2 THEN SerSize(m.hdrs) ELSE 0)
MaxWireSize(m) == Overhead(2) + Payload(m) + SerSize(m.hdrs)

(* rd_kafka_msg_new0 refuses a message that may become too large.          *)
Accepted(m) == MaxWireSize(m) <= mset.maxSize

-----------------------------------------------------------------------------
(* rd_kafka_features_check: what the range of Produce versions of a broker *)
(* tells (its Fetch versions are taken to go with them), and whether there *)
(* is a group coordinator, which came with LZ4.                            *)
Knows(b, version) == b.min <= version /\ version <= b.max

(* rd_kafka_broker_ApiVersion_supported *)
MaxApi == 7
Supported(b, minver) ==
    CASE b.max < MaxApi -> (IF b.max < minver THEN -1 ELSE b.max)
      [] b.max >= MaxApi /\ b.min > MaxApi -> -1
      [] OTHER -> MaxApi

(* rd_kafka_msgset_writer_select_MsgVersion: the format, the version of    *)
(* the request, and no compression that the broker does not know.          *)
MsgVersion(b) == CASE Knows(b, 3) -> 2 [] ~Knows(b, 3) /\ Knows(b, 2) -> 1 [] OTHER -> 0
MinApi(b) == CASE MsgVersion(b) = 2 -> 3
               [] MsgVersion(b) = 1 -> 2
               [] OTHER -> IF b.min <= 2 /\ 1 <= b.max THEN 1 ELSE 0
ApiVersion(b) == Supported(b, MinApi(b))
Codec(b) == IF Supported(b, 0) = -1 \/ (mset.codec = "lz4" /\ ~b.lz4) THEN "none" ELSE mset.codec

(* rd_kafka_msgset_writer_write_Produce_header and _MessageSet_v2_header:  *)
(* what the request holds before the first message.                        *)
MSGSET_V2_SIZE == 61
SetHeader(v) == IF v = 2 THEN MSGSET_V2_SIZE ELSE 0
Prelude(b) == mset.head + (IF ApiVersion(b) >= 3 THEN 2 ELSE 0) + SetHeader(MsgVersion(b))

-----------------------------------------------------------------------------
(* rd_kafka_msgset_writer_write_msg_v0_1.  A wrapper has an inner set.     *)
MessageSize(m, v) == 4 + 1 + 1 + 4 + Bytes(m.key) + 4 + Bytes(m.val) + (IF v = 1 THEN 8 ELSE 0)
WriteV0_1(m, v, offset, codec, inner) ==
    [magic |-> v, off |-> offset, size |-> MessageSize(m, v), codec |-> codec,
     append |-> FALSE, ts |-> IF v = 1 THEN m.ts ELSE 0, id |-> m.id,
     key |-> m.key, val |-> m.val, inner |-> inner]

(* rd_kafka_msgset_writer_write_msg_v2: Length is that of what follows it, *)
(* with the numbers in their encoded width.                                *)
WriteV2(m, offset, base) ==
    [Length |-> 1 + VarintSize(m.ts - base) + VarintSize(offset)
                + VarintSize(m.key) + Bytes(m.key) + VarintSize(m.val) + Bytes(m.val)
                + VarintSize(Len(m.hdrs)) + SerSize(m.hdrs),
     delta |-> m.ts - base, off |-> offset, id |-> m.id,
     key |-> m.key, val |-> m.val, hdrs |-> m.hdrs]

(* Up to and with the value, and all that is really in the buffer.         *)
BeforeHeaders(r) == 1 + VarintSize(r.delta) + VarintSize(r.off)
                    + VarintSize(r.key) + Bytes(r.key) + VarintSize(r.val) + Bytes(r.val)
HeaderBytes(r) == VarintSize(Len(r.hdrs)) + WrittenHeaders(r.hdrs)
RecordBytes(r) == VarintSize(r.Length) + BeforeHeaders(r) + HeaderBytes(r)

(* rd_kafka_msgset_writer_write_msg: what is added to the set.             *)
Written(m, v, i, base) == IF v = 2 THEN WriteV2(m, i, base) ELSE WriteV0_1(m, v, i, "none", <<>>)
OutLen(w, v) == IF v = 2 THEN VarintSize(w.Length) + w.Length ELSE 8 + 4 + w.size

(* rd_kafka_msgset_writer_write_msgq: messages are added as long as their  *)
(* number and size allow, the first in any case.                           *)
Batch(b) ==
    LET v == MsgVersion(b)
        base == queue[1].ts
        w == [i \in DOMAIN queue |-> Written(queue[i], v, i - 1, base)]
        before(n) == Prelude(b) + Sum([i \in 1..(n - 1) |-> OutLen(w[i], v)])
        room == IF mset.maxSize < mset.batchSize THEN mset.maxSize ELSE mset.batchSize
        fits(n) == n <= mset.maxMsgs /\ (n = 1 \/ before(n) + WireSize(queue[n], v) <= room)
        count == Max({n \in 0..Len(queue) : \A k \in 1..n : fits(k)})
    IN SubSeq(w, 1, count)

-----------------------------------------------------------------------------
(* rd_kafka_msgset_writer_compress.  The codecs (zlib, snappy, lz4) are    *)
(* external: they fail, or make the data larger or smaller.  An LZ4 frame  *)
(* of the oldest format must have the wrong header checksum that brokers   *)
(* of its time expect (rd_kafka_lz4_compress_break_framing), which the     *)
(* reader corrects (rd_kafka_lz4_decompress_fixup_bad_framing).            *)
Compressions == {"fails", "larger", "smaller"}
Lz4Compress(proper) == IF proper THEN "good" ELSE "broken"
Lz4Decompress(proper, frame) == IF proper THEN frame = "good" ELSE TRUE
Compressed(v, codec, len) ==
    [size |-> len \div 2 + 1, frame |-> IF codec = "lz4" THEN Lz4Compress(v >= 1) ELSE "good"]
Decompresses(v, e) == e.codec = "lz4" => Lz4Decompress(v >= 1, e.frame)

(* rd_kafka_msgset_writer_finalize_MessageSet_v2_header *)
FinalizeV2(w, codec, frame, len, base, seq) ==
    [magic |-> 2, off |-> 0, Length |-> MSGSET_V2_SIZE + len - (8 + 4), codec |-> codec,
     frame |-> frame, append |-> FALSE, last |-> Len(w) - 1, base |-> base,
     max |-> Max({w[i].delta + base : i \in DOMAIN w}), seq |-> seq, count |-> Len(w),
     recs |-> w, bytes |-> len]

(* rd_kafka_msgset_writer_finalize: the whole set is compressed, or sent   *)
(* as it is when that fails or does not pay.  The older formats wrap it in *)
(* a message with the first one's timestamp.                               *)
Finalize(b, w, how) ==
    LET v == MsgVersion(b)
        first == queue[1]
        len == Sum([i \in DOMAIN w |-> OutLen(w[i], v)])
        packs == Codec(b) # "none" /\ how = "smaller"
        codec == IF packs THEN Codec(b) ELSE "none"
        z == Compressed(v, codec, len)
        wrapper == [id |-> 0, key |-> -1, val |-> z.size, ts |-> first.ts, hdrs |-> <<>>]
        outer == WriteV0_1(wrapper, v, 0, codec, w) @@ [frame |-> z.frame]
        sent == CASE packs /\ v = 2 -> z.size
                  [] packs /\ v < 2 -> OutLen(outer, v)
                  [] OTHER -> len
    IN [v |-> v, api |-> ApiVersion(b), msgs |-> SubSeq(queue, 1, Len(w)), len |-> len,
        size |-> SetHeader(v) + sent,
        set |-> CASE v = 2 -> <<FinalizeV2(w, codec, z.frame, sent, first.ts, first.id)>>
                  [] v < 2 /\ packs -> <<outer>>
                  [] OTHER -> w]

NoRequest == <<>>

(* rd_kafka_msgset_create_ProduceRequest; without a common version the     *)
(* first message is tried again later.                                     *)
Create(how) ==
    /\ req = NoRequest /\ queue # <<>>
    /\ mset.broker.max >= 0 /\ ApiVersion(mset.broker) # -1
    /\ req' = Finalize(mset.broker, Batch(mset.broker), how)
    /\ queue' = SubSeq(queue, Len(req'.msgs) + 1, Len(queue))
    /\ UNCHANGED <<mset, log, rd>>

(* The broker is replaced by a later one.                                  *)
Upgrade ==
    /\ mset.upgrades # <<>> /\ req = NoRequest
    /\ mset' = [mset EXCEPT !.broker = Head(mset.upgrades), !.upgrades = Tail(@)]
    /\ UNCHANGED <<queue, req, log, rd>>

-----------------------------------------------------------------------------
(* The broker (external) gives the set its place.  It keeps the offsets in *)
(* a wrapper of format 1, whose own offset is that of the last message;    *)
(* in a wrapper of format 0 it writes all offsets anew.  It may put its    *)
(* own time on all of them.                                                *)
AppendTime == 77
End == Len(mset.sent)
Stamp(e) ==
    CASE mset.appendTime /\ e.magic = 2 -> [e EXCEPT !.append = TRUE, !.max = AppendTime]
      [] mset.appendTime /\ e.magic = 1 -> [e EXCEPT !.append = TRUE, !.ts = AppendTime]
      [] OTHER -> e
Placed(e, base) == [e EXCEPT !.off = @ + base]
Stored(e) ==
    CASE e.magic = 2 -> [e EXCEPT !.off = End]
      [] e.magic < 2 /\ e.codec = "none" -> Placed(e, End)
      [] e.magic = 1 /\ e.codec # "none" -> [e EXCEPT !.off = End + Len(e.inner) - 1]
      [] OTHER -> [e EXCEPT !.off = End + Len(e.inner) - 1,
                            !.inner = [i \in DOMAIN @ |-> Placed(@[i], End)]]
Store ==
    /\ req # NoRequest
    /\ log' = log \o [i \in DOMAIN req.set |-> Stamp(Stored(req.set[i]))]
    /\ mset' = [mset EXCEPT !.sent = @ \o [i \in DOMAIN req.msgs |->
                                              [msg |-> req.msgs[i], v |-> req.v]]]
    /\ req' = NoRequest
    /\ UNCHANGED <<queue, rd>>

-----------------------------------------------------------------------------
Message(off, r, ts, hdrs) ==
    [off |-> off, id |-> r.id, key |-> r.key, val |-> r.val, ts |-> ts, hdrs |-> hdrs]

(* rd_kafka_msgset_reader_msg_v2, rd_kafka_msg_headers_parse: the headers  *)
(* are what is left of the record's Length.                                *)
Headers(r) == IF r.Length - BeforeHeaders(r) = HeaderBytes(r) THEN r.hdrs ELSE <<"garbled">>
MsgV2(batch, r) ==
    Message(batch.off + r.off, r, IF batch.append THEN batch.max ELSE batch.base + r.delta, Headers(r))
NotOlder(ops, fetch) == SelectSeq(ops, LAMBDA m : m.off >= fetch)

(* rd_kafka_msgset_reader_v2 *)
ReaderV2(s, e) ==
    LET ops == [i \in DOMAIN e.recs |-> MsgV2(e, e.recs[i])]
        LastOffset == e.off + e.last
    IN CASE LastOffset < s.fetch -> [s EXCEPT !.next = LastOffset + 1]
         [] LastOffset >= s.fetch /\ ~Decompresses(2, e) -> [s EXCEPT !.err = "bad_compression"]
         [] OTHER -> [s EXCEPT !.ops = @ \o NotOlder(ops, s.fetch), !.next = LastOffset + 1]

(* rd_kafka_msgset_reader_msg_v0_1 of a message that is not a wrapper.     *)
MsgV0_1(e, outer) ==
    Message(e.off, e, IF outer.append THEN outer.ts ELSE IF e.magic >= 1 THEN e.ts ELSE 0, <<>>)

(* rd_kafka_msgset_reader_decompress and the run of a second reader over   *)
(* the inner set, with rd_kafka_q_fix_offsets for the relative offsets of  *)
(* format 1.  It leaves the partition's fetch offset after the last one it *)
(* read, relative as that is.                                              *)
NotOuter == [append |-> FALSE]
(* Mutant: relative offsets are left as they are.                          *)
ShiftNot(ops, by) == ops
Shift(ops, by) == [i \in DOMAIN ops |-> [ops[i] EXCEPT !.off = @ + by]]
InnerRun(s, e) ==
    LET outer == IF e.magic = 1 /\ e.append THEN e ELSE NotOuter
        read == [i \in DOMAIN e.inner |-> MsgV0_1(e.inner[i], outer)]
        ops == IF e.magic = 1 THEN read ELSE NotOlder(read, s.fetch)
        last == Last(ops).off
        fixed == IF e.magic = 1 THEN NotOlder(Shift(ops, e.off - last), s.fetch) ELSE ops
    IN IF ops = <<>> THEN s ELSE [s EXCEPT !.ops = @ \o fixed, !.fetch = last + 1]
ReaderV0_1(s, e) ==
    CASE e.off < s.fetch -> s
      [] e.off >= s.fetch /\ e.codec = "none" -> [s EXCEPT !.ops = Append(@, MsgV0_1(e, NotOuter))]
      [] e.off >= s.fetch /\ e.codec # "none" /\ ~Decompresses(e.magic, e) ->
           [s EXCEPT !.err = "bad_compression"]
      [] OTHER -> InnerRun(s, e)

(* rd_kafka_msgset_reader_run: by the magic byte of each, until the        *)
(* response ends; a part of a set at its end is left for the next fetch.   *)
ReadOne(s, e) ==
    CASE s.err # "ok" -> s
      [] s.err = "ok" /\ e.magic = 2 -> ReaderV2(s, e)
      [] OTHER -> ReaderV0_1(s, e)
Run(set, fetch) ==
    LET s == FoldLeft(ReadOne, [ops |-> <<>>, fetch |-> fetch, next |-> 0, err |-> "ok"], set)
        at == IF s.ops = <<>> THEN s.fetch ELSE Last(s.ops).off + 1
    IN [s EXCEPT !.fetch = IF s.next > at THEN s.next ELSE at]

(* A Fetch response: some of the log, from where or before where the       *)
(* offset is.                                                              *)
LastOff(e) == IF e.magic = 2 THEN e.off + e.last ELSE e.off
Fetch(from, to) ==
    /\ \A i \in 1..(from - 1) : LastOff(log[i]) < rd.fetch
    /\ \E i \in from..to : LastOff(log[i]) >= rd.fetch
    /\ LET s == Run(SubSeq(log, from, to), rd.fetch)
       IN rd' = [rd EXCEPT !.got = @ \o s.ops, !.fetch = s.fetch, !.err = s.err]
    /\ UNCHANGED <<mset, queue, req, log>>

-----------------------------------------------------------------------------
Init ==
    \E c \in SetCases :
        /\ mset = [codec |-> c.codec, maxMsgs |-> c.maxMsgs, maxSize |-> c.maxSize,
                   batchSize |-> c.batchSize, head |-> c.head, appendTime |-> c.appendTime,
                   broker |-> Head(c.brokers), upgrades |-> Tail(c.brokers), sent |-> <<>>]
        /\ queue = SelectSeq(c.msgs, Accepted)
        /\ req = NoRequest /\ log = <<>>
        /\ \E o \in c.starts : rd = [start |-> o, fetch |-> o, got |-> <<>>, err |-> "ok"]

Next ==
    \/ \E how \in Compressions : Create(how)
    \/ Store \/ Upgrade
    \/ \E from, to \in DOMAIN log : Fetch(from, to)

Spec == Init /\ [][Next]_vars

-----------------------------------------------------------------------------
(* The asserts of the writer hold: no message is larger than was said, nor *)
(* the set than message.max.bytes; the sizes in the request are those of   *)
(* what it holds, and its version knows its format.                        *)
EntryBytes(e) ==
    CASE e.magic = 2 /\ e.codec = "none" ->
           MSGSET_V2_SIZE + Sum([i \in DOMAIN e.recs |-> RecordBytes(e.recs[i])])
      [] e.magic = 2 /\ e.codec # "none" -> MSGSET_V2_SIZE + e.bytes
      [] OTHER -> 8 + 4 + e.size
RequestSound ==
    req # NoRequest =>
        /\ req.msgs # <<>> /\ req.len <= mset.maxSize
        /\ req.v = 2 => req.api >= 3
        /\ req.size = Sum([i \in DOMAIN req.set |-> EntryBytes(req.set[i])])
        /\ \A i \in DOMAIN req.set : LET e == req.set[i] IN
              e.magic = 2 => /\ e.Length + 12 = EntryBytes(e)
                             /\ \A k \in DOMAIN e.recs :
                                   OutLen(e.recs[k], 2) = RecordBytes(e.recs[k])
                                   /\ OutLen(e.recs[k], 2) <= WireSize(req.msgs[k], 2)

(* The consumer gets what was sent, each message once and whole, from its  *)
(* start on and in the order of the offsets, as far as the format goes:    *)
(* the oldest has no timestamp, and only the latest has headers.           *)
Expected(o) ==
    LET x == mset.sent[o + 1]
        ts == CASE x.v = 0 -> 0 [] x.v > 0 /\ mset.appendTime -> AppendTime [] OTHER -> x.msg.ts
    IN Message(o, x.msg, ts, IF x.v = 2 THEN x.msg.hdrs ELSE <<>>)
ReadTrue ==
    /\ rd.err = "ok" /\ rd.fetch = rd.start + Len(rd.got)
    /\ \A i \in DOMAIN rd.got : rd.got[i] = Expected(rd.start + i - 1)

(* Both, of every format and codec. *)
BatchesTrue == RequestSound /\ ReadTrue
=============================================================================
