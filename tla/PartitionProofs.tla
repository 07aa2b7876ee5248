--------------------------- MODULE PartitionProofs ---------------------------
(***************************************************************************)
(* Proof that the partition producer neither loses nor duplicates a        *)
(* message among its queues and requests, and that it is honest about what *)
(* was not persisted, for any number of messages, batches, retries, faults *)
(* and wraps of the sequence and the epoch.                                *)
(*                                                                         *)
(* Good(s, R) is about a producer state s on its own, with the messages of *)
(* R in requests; each helper of rd_kafka_handle_Produce() takes a good    *)
(* state to a good one.  Inv adds the requests on the wire and the log.    *)
(***************************************************************************)
EXTENDS PartitionProducer, FiniteSetTheorems, WellFoundedInduction, TLAPS

(* The fields of the producer's record.                                    *)
Fields == {"msgid", "msgq", "xmit", "retries", "status", "last", "dr", "inflight", "pid", "base",
           "acked", "nextAck", "nextErr", "drain", "state", "epoch", "busy", "fatal", "purge"}

(* A batch that failed ends where it began, or later.                      *)
Extents == {f \in [Ids -> Int] : \A m \in Ids : f[m] = 0 \/ m <= f[m]}

Statuses == {"no", "maybe"}
Reports  == {"none", "delivered", "maybe", "no"}

Typed(s) ==
    /\ DOMAIN s = Fields
    /\ s.msgid \in 0..MaxMsgs
    /\ s.msgq \in SUBSET Ids
    /\ s.xmit \in SUBSET Ids
    /\ s.status \in [Ids -> Statuses]
    /\ s.dr \in [Ids -> Reports]
    /\ s.last \in Extents
    /\ s.pid \in Int
    /\ s.base \in Int
    /\ s.epoch \in Int
    /\ s.nextAck \in Int

(* With the messages in R in requests: every message produced is in one    *)
(* place.                                                                  *)
Placed(s, R) ==
    \A m \in Ids :
        /\ m \in s.msgq => m \notin s.xmit /\ m \notin R /\ s.dr[m] = "none"
        /\ m \in s.xmit => m \notin R /\ s.dr[m] = "none"
        /\ m \in R => s.dr[m] = "none"
        /\ m <= s.msgid <=> (m \in s.msgq \/ m \in s.xmit \/ m \in R \/ s.dr[m] # "none")

(* A report "no" rests on the message's status.                            *)
Sincere(s) == \A m \in Ids : s.dr[m] = "no" => s.status[m] = "no"

Good(s, R) == Typed(s) /\ R \in SUBSET Ids /\ Placed(s, R) /\ Sincere(s)

(* The producer knows that the leader may have the message.                *)
Doubt(s, m) == s.status[m] = "maybe" \/ s.dr[m] = "delivered"
Firm(s, t) == \A m \in Ids : Doubt(s, m) => Doubt(t, m)

Keeps(s, t) == t.inflight = s.inflight /\ t.pid = s.pid /\ Firm(s, t)

(* What the idempotence state needs.                                       *)
Sane(s) == DOMAIN s = Fields /\ s.epoch \in Int /\ s.nextAck \in Int

(* t differs from s in nothing the placement of messages depends on.       *)
Quiet(s, t) ==
    /\ DOMAIN t = Fields
    /\ t.msgid = s.msgid
    /\ t.msgq = s.msgq
    /\ t.xmit = s.xmit
    /\ t.status = s.status
    /\ t.dr = s.dr
    /\ t.last = s.last
    /\ t.inflight = s.inflight
    /\ t.pid = s.pid
    /\ t.base = s.base
    /\ t.epoch \in Int
    /\ t.nextAck \in Int

(* A state that does not change changes nothing that matters.              *)
LEMMA QuietRefl == \A s : Sane(s) => Quiet(s, s)
  BY DEF Quiet, Sane

(* Two quiet changes are one.                                              *)
LEMMA QuietTrans == \A s, t, u : Quiet(s, t) /\ Quiet(t, u) => Quiet(s, u)
  BY DEF Quiet, Sane

(* A quiet change keeps a good state good, and what is doubted.            *)
LEMMA QuietGood ==
    ASSUME NEW s, NEW t, NEW R, Good(s, R), Quiet(s, t)
    PROVE  Good(t, R) /\ Keeps(s, t)
  <1>1. Typed(t)
    BY DEF Good, Typed, Quiet
  <1>2. Placed(t, R)
    BY DEF Good, Placed, Quiet
  <1>3. Sincere(t) /\ Keeps(s, t)
    BY DEF Good, Sincere, Quiet, Keeps, Firm, Doubt
  <1> QED BY <1>1, <1>2, <1>3 DEF Good

(* What two changes keep, both together keep.                              *)
LEMMA KeepsTrans == \A s, t, u : Keeps(s, t) /\ Keeps(t, u) => Keeps(s, u)
  BY DEF Keeps, Firm

(* rd_kafka_idemp_set_fatal_error() moves no message.                      *)
LEMMA SetFatalQuiet ==
    ASSUME NEW s, NEW why, Sane(s)
    PROVE  Quiet(s, SetFatal(s, why))
  BY DEF Quiet, SetFatal, Fields, Sane

(* rd_kafka_idemp_set_state() moves no message.                            *)
LEMMA SetStateQuiet ==
    ASSUME NEW s, NEW new, Sane(s)
    PROVE  Quiet(s, SetState(s, new))
  BY DEF Quiet, SetState, Fields, Sane

(* rd_kafka_idemp_drain_done() moves no message; the epoch stays a number  *)
(* also when it wraps.                                                     *)
LEMMA DrainDoneQuiet ==
    ASSUME NEW s, Sane(s)
    PROVE  Quiet(s, DrainDone(s))
  <1> DEFINE b == [s EXCEPT !.epoch = (@ + 1) % EpochMod]
  <1>1. (s.epoch + 1) % EpochMod \in Int
    BY PartitionAssumption DEF Sane
  <1>2. Quiet(s, b)
    BY <1>1 DEF Quiet, Fields, Sane
  <1>3. Sane(b)
    BY <1>2 DEF Quiet, Sane
  <1> HIDE DEF b
  <1>4. Quiet(b, SetState(b, "assigned"))
    BY <1>3, SetStateQuiet
  <1>5. Quiet(s, SetState(b, "assigned"))
    BY <1>2, <1>4, QuietTrans
  <1>6. Quiet(s, SetState(s, "req_pid")) /\ Quiet(s, s)
    BY SetStateQuiet, QuietRefl
  <1> QED BY <1>5, <1>6 DEF DrainDone, b

(* rd_kafka_idemp_check_drain_done() moves no message.                     *)
LEMMA CheckDrainDoneQuiet ==
    ASSUME NEW s, NEW own, Sane(s)
    PROVE  Quiet(s, CheckDrainDone(s, own))
  BY DrainDoneQuiet, QuietRefl DEF CheckDrainDone

(* Asking for a drain moves no message, even when the drain ends at once.  *)
LEMMA DrainQuiet ==
    ASSUME NEW s, NEW own, Sane(s)
    PROVE  Quiet(s, DrainEpochBump(s, own)) /\ Quiet(s, DrainReset(s, own))
  <1>1. ASSUME NEW new PROVE Quiet(s, CheckDrainDone(SetState(s, new), own))
    <2>1. Quiet(s, SetState(s, new))
      BY SetStateQuiet
    <2>2. Sane(SetState(s, new))
      BY <2>1 DEF Quiet, Sane
    <2>3. Quiet(SetState(s, new), CheckDrainDone(SetState(s, new), own))
      BY <2>2, CheckDrainDoneQuiet
    <2> QED BY <2>1, <2>3, QuietTrans
  <1> QED BY <1>1 DEF DrainEpochBump, DrainReset

-----------------------------------------------------------------------------
(* What the helpers do with the messages.                                  *)

(* rd_kafka_dr_msgq() changes the reports of the messages it is given and  *)
(* nothing else.                                                           *)
LEMMA DrIs ==
    ASSUME NEW s, NEW R, Good(s, R), NEW ms \in SUBSET Ids, NEW ok \in BOOLEAN
    PROVE  LET t == DrMsgq(s, ms, ok)
           IN  /\ Typed(t)
               /\ t.msgid = s.msgid /\ t.msgq = s.msgq /\ t.xmit = s.xmit
               /\ t.status = s.status /\ t.inflight = s.inflight /\ t.pid = s.pid
               /\ \A m \in Ids : t.dr[m] = IF m \notin ms THEN s.dr[m]
                                           ELSE IF ok THEN "delivered" ELSE s.status[m]
  <1> DEFINE new == [m \in Ids |-> IF m \notin ms THEN s.dr[m]
                                   ELSE IF ok THEN "delivered" ELSE s.status[m]]
             t == [s EXCEPT !.dr = new]
  <1>1. DrMsgq(s, ms, ok) = t
    BY DEF DrMsgq
  <1>2. new \in [Ids -> Reports]
    BY DEF Good, Typed, Statuses, Reports
  <1>3. \A m \in Ids : new[m] = IF m \notin ms THEN s.dr[m]
                                ELSE IF ok THEN "delivered" ELSE s.status[m]
    OBVIOUS
  <1>4. t.dr = new /\ DOMAIN t = Fields
    BY DEF Good, Typed, Fields
  <1>5. /\ t.msgid = s.msgid /\ t.msgq = s.msgq /\ t.xmit = s.xmit
        /\ t.status = s.status /\ t.inflight = s.inflight /\ t.pid = s.pid
        /\ t.last = s.last /\ t.base = s.base /\ t.epoch = s.epoch
        /\ t.nextAck = s.nextAck
    BY DEF Good, Typed, Fields
  <1> HIDE DEF new, t
  <1>6. Typed(t)
    BY <1>2, <1>4, <1>5 DEF Good, Typed
  <1> QED BY <1>1, <1>3, <1>4, <1>5, <1>6

(* Messages of requests are reported.                                      *)
LEMMA ReportGood ==
    ASSUME NEW s, NEW R, Good(s, R), NEW ms \in SUBSET R, NEW ok \in BOOLEAN
    PROVE  LET t == DrMsgq(s, ms, ok)
           IN  /\ Good(t, R \ ms) /\ Keeps(s, t)
               /\ \A m \in ms : t.status[m] = s.status[m] /\ (ok => t.dr[m] = "delivered")
  <1> DEFINE t == DrMsgq(s, ms, ok)
  <1>1. /\ Typed(t)
        /\ t.msgid = s.msgid /\ t.msgq = s.msgq /\ t.xmit = s.xmit
        /\ t.status = s.status /\ t.inflight = s.inflight /\ t.pid = s.pid
        /\ \A m \in Ids : t.dr[m] = IF m \notin ms THEN s.dr[m]
                                    ELSE IF ok THEN "delivered" ELSE s.status[m]
    <2>1. ms \in SUBSET Ids
      BY DEF Good
    <2> QED BY <2>1, DrIs
  <1> HIDE DEF t
  <1>2. \A m \in Ids : s.status[m] = "no" \/ s.status[m] = "maybe"
    BY DEF Good, Typed, Statuses
  <1>3. Placed(t, R \ ms)
    BY <1>1, <1>2 DEF Good, Placed
  <1>4. Sincere(t)
    BY <1>1 DEF Good, Sincere
  <1>5. Keeps(s, t)
    BY <1>1 DEF Good, Placed, Keeps, Firm, Doubt
  <1> QED BY <1>1, <1>3, <1>4, <1>5 DEF Good, t

(* Messages of the queues are reported.                                    *)
LEMMA UnqueueGood ==
    ASSUME NEW s, NEW R, Good(s, R), NEW ms \in SUBSET Queued(s), NEW ok \in BOOLEAN
    PROVE  LET t == DrMsgq(Unqueue(s, ms), ms, ok)
           IN  Good(t, R) /\ Keeps(s, t)
  <1> DEFINE u == Unqueue(s, ms)
             t == DrMsgq(u, ms, ok)
  <1>1. /\ DOMAIN u = Fields /\ u.msgid = s.msgid
        /\ u.status = s.status /\ u.inflight = s.inflight /\ u.pid = s.pid
        /\ u.dr = s.dr /\ u.last = s.last /\ u.base = s.base /\ u.epoch = s.epoch
        /\ u.nextAck = s.nextAck
    BY DEF Good, Typed, Unqueue, Fields
  <1>2. u.msgq = s.msgq \ ms /\ u.xmit = s.xmit \ ms
    BY DEF Good, Typed, Unqueue, Fields
  <1>3. ms \in SUBSET Ids /\ R \cap ms = {}
    BY DEF Good, Typed, Placed, Queued
  <1> HIDE DEF u
  <1>4. Good(u, R \cup ms)
    <2>1. Typed(u)
      BY <1>1, <1>2 DEF Good, Typed
    <2>2. Placed(u, R \cup ms)
      BY <1>1, <1>2, <1>3 DEF Good, Placed, Queued
    <2> QED BY <2>1, <2>2, <1>1, <1>3 DEF Good, Sincere
  <1>5. Good(t, (R \cup ms) \ ms) /\ Keeps(u, t)
    BY <1>4, ReportGood
  <1>6. (R \cup ms) \ ms = R
    BY <1>3
  <1>7. Keeps(s, u)
    BY <1>1 DEF Keeps, Firm, Doubt
  <1> HIDE DEF t
  <1>8. Good(t, R) /\ Keeps(s, t)
    BY <1>5, <1>6, <1>7, KeepsTrans
  <1> QED BY <1>8 DEF t, u

(* Messages of requests go back to the queue.                              *)
LEMMA RequeueGood ==
    ASSUME NEW s, NEW R, Good(s, R), NEW ms \in SUBSET R, NEW incr
    PROVE  LET t == Requeue(s, ms, incr)
           IN  /\ Good(t, R \ ms) /\ Keeps(s, t)
               /\ t.dr = s.dr /\ t.status = s.status
  <1> DEFINE t == Requeue(s, ms, incr)
  <1>1. /\ DOMAIN t = Fields /\ t.msgid = s.msgid /\ t.xmit = s.xmit
        /\ t.status = s.status /\ t.inflight = s.inflight /\ t.pid = s.pid
        /\ t.dr = s.dr /\ t.last = s.last /\ t.base = s.base /\ t.epoch = s.epoch
        /\ t.nextAck = s.nextAck
    BY DEF Good, Typed, Requeue, Fields
  <1>2. t.msgq = s.msgq \cup ms
    BY DEF Good, Typed, Requeue, Fields
  <1> HIDE DEF t
  <1>3. Typed(t)
    BY <1>1, <1>2 DEF Good, Typed
  <1>4. Placed(t, R \ ms)
    BY <1>1, <1>2 DEF Good, Placed
  <1>5. Sincere(t) /\ Keeps(s, t)
    BY <1>1 DEF Good, Sincere, Keeps, Firm, Doubt
  <1> QED BY <1>1, <1>3, <1>4, <1>5 DEF Good, t

(* The status of messages not yet reported.                                *)
LEMMA StatusGood ==
    ASSUME NEW s, NEW R, Good(s, R), NEW ms \in SUBSET Ids, NEW st \in Statuses,
           \A m \in ms : s.dr[m] = "none"
    PROVE  LET t == SetStatus(s, ms, st)
           IN  /\ Good(t, R) /\ Keeps(s, t)
               /\ t.dr = s.dr
               /\ st = "maybe" => \A m \in ms : t.status[m] = "maybe"
  <1> DEFINE new == [m \in Ids |-> IF m \in ms /\ st # "no" THEN st ELSE s.status[m]]
             t == [s EXCEPT !.status = new]
  <1>1. SetStatus(s, ms, st) = t
    BY DEF SetStatus
  <1>2. new \in [Ids -> Statuses]
    BY DEF Good, Typed
  <1>3. \A m \in Ids : new[m] = IF m \in ms /\ st # "no" THEN st ELSE s.status[m]
    OBVIOUS
  <1>4. t.status = new /\ DOMAIN t = Fields
    BY DEF Good, Typed, Fields
  <1>5. /\ t.msgid = s.msgid /\ t.msgq = s.msgq /\ t.xmit = s.xmit
        /\ t.dr = s.dr /\ t.inflight = s.inflight /\ t.pid = s.pid
        /\ t.last = s.last /\ t.base = s.base /\ t.epoch = s.epoch
        /\ t.nextAck = s.nextAck
    BY DEF Good, Typed, Fields
  <1> HIDE DEF new, t
  <1>6. Typed(t)
    BY <1>2, <1>4, <1>5 DEF Good, Typed
  <1>7. Placed(t, R)
    BY <1>5 DEF Good, Placed
  <1>8. Sincere(t)
    BY <1>3, <1>4, <1>5 DEF Good, Sincere
  <1>9. Keeps(s, t)
    BY <1>3, <1>4, <1>5 DEF Keeps, Firm, Doubt, Statuses
  <1>10. st = "maybe" => \A m \in ms : t.status[m] = "maybe"
    BY <1>3, <1>4
  <1> QED BY <1>1, <1>5, <1>6, <1>7, <1>8, <1>9, <1>10 DEF Good

-----------------------------------------------------------------------------
(* The result of a request.                                                *)

Req == [pid : Int, seq : Int, msgs : (SUBSET Ids) \ {{}}]

(* A set of messages that is not empty has a first one: by well-founded    *)
(* order on the numbers.                                                   *)
LEMMA FirstIs ==
    ASSUME NEW S \in SUBSET Ids, S # {}
    PROVE  First(S) \in S /\ \A n \in S : First(S) <= n
  <1>1. S \subseteq Nat
    BY PartitionAssumption DEF Ids
  <1>2. \E x \in S : \A y \in S : ~(<<y, x>> \in OpToRel(<, Nat))
    BY <1>1, NatLessThanWellFounded, WFMin
  <1>3. \E x \in S : \A y \in S : ~(y < x)
    BY <1>1, <1>2, Zenon DEF OpToRel
  <1>4. \E x \in S : \A y \in S : x <= y
    BY <1>1, <1>3
  <1> QED BY <1>4 DEF First

(* And a last one: the one nearest to the largest message id.              *)
LEMMA LastIs ==
    ASSUME NEW S \in SUBSET Ids, S # {}
    PROVE  Last(S) \in S /\ \A n \in S : Last(S) >= n
  <1> DEFINE T == {k \in Nat : \E m \in S : k = MaxMsgs - m}
  <1>1. S \subseteq Nat /\ MaxMsgs \in Nat /\ \A m \in S : m <= MaxMsgs
    BY PartitionAssumption DEF Ids
  <1>2. \A m \in S : MaxMsgs - m \in T
    BY <1>1
  <1>3. T \subseteq Nat /\ T # {}
    BY <1>2
  <1>4. \E x \in T : \A y \in T : ~(<<y, x>> \in OpToRel(<, Nat))
    BY <1>3, NatLessThanWellFounded, WFMin
  <1>5. PICK x \in T : \A y \in T : ~(y < x)
    BY <1>3, <1>4, Zenon DEF OpToRel
  <1>6. PICK m \in S : x = MaxMsgs - m
    BY <1>5
  <1>7. \A n \in S : ~(MaxMsgs - n < x)
    BY <1>2, <1>5
  <1> HIDE DEF T
  <1>8. \A n \in S : m >= n
    BY <1>1, <1>6, <1>7
  <1> QED BY <1>8 DEF Last

(* Every set of messages is finite.                                        *)
LEMMA FinitePart ==
    ASSUME NEW S \in SUBSET Ids
    PROVE  IsFiniteSet(S) /\ Cardinality(S) \in Nat
  <1>1. IsFiniteSet(Ids)
    BY PartitionAssumption, FS_Interval DEF Ids
  <1> QED BY <1>1, FS_Subset, FS_CardinalityType

(* The sequence after a request is a number.                               *)
LEMMA NextSeqIs ==
    ASSUME NEW r \in Req
    PROVE  NextSeq(r) \in Int
  <1>1. r.seq \in Int /\ Cardinality(r.msgs) \in Nat
    BY FinitePart DEF Req
  <1> QED BY <1>1, PartitionAssumption DEF NextSeq, Wrap

(* The first message of a failed batch keeps the batch's extent.           *)
LEMMA ExtentGood ==
    ASSUME NEW s, NEW R, Good(s, R), NEW r \in Req
    PROVE  LET t == [s EXCEPT !.last[First(r.msgs)] = Last(r.msgs)]
           IN  Good(t, R) /\ Keeps(s, t) /\ t.status = s.status /\ t.dr = s.dr
  <1> DEFINE f == First(r.msgs)
             l == Last(r.msgs)
             new == [s.last EXCEPT ![f] = l]
             t == [s EXCEPT !.last = new]
  <1>1. f \in Ids /\ l \in Ids /\ f <= l
    <2>1. r.msgs \in SUBSET Ids /\ r.msgs # {}
      BY DEF Req
    <2>2. f \in r.msgs /\ l \in r.msgs /\ l >= f
      BY <2>1, FirstIs, LastIs
    <2>3. f \in Int /\ l \in Int
      BY <2>1, <2>2 DEF Ids
    <2> QED BY <2>1, <2>2, <2>3
  <1>2. [s EXCEPT !.last[First(r.msgs)] = Last(r.msgs)] = t
    OBVIOUS
  <1> HIDE DEF f, l
  <1>3. new \in Extents
    <2>1. s.last \in [Ids -> Int] /\ \A m \in Ids : s.last[m] = 0 \/ m <= s.last[m]
      BY DEF Good, Typed, Extents
    <2>2. l \in Int
      BY <1>1 DEF Ids
    <2> QED BY <1>1, <2>1, <2>2 DEF Extents
  <1>4. t.last = new /\ DOMAIN t = Fields
    BY DEF Good, Typed, Fields
  <1>5. /\ t.msgid = s.msgid /\ t.msgq = s.msgq /\ t.xmit = s.xmit /\ t.status = s.status
        /\ t.dr = s.dr /\ t.inflight = s.inflight /\ t.pid = s.pid
        /\ t.base = s.base /\ t.epoch = s.epoch
        /\ t.nextAck = s.nextAck
    BY DEF Good, Typed, Fields
  <1> HIDE DEF new, t
  <1>6. Typed(t)
    BY <1>3, <1>4, <1>5 DEF Good, Typed
  <1>7. Placed(t, R)
    BY <1>5 DEF Good, Placed
  <1>8. Sincere(t) /\ Keeps(s, t)
    BY <1>5 DEF Good, Sincere, Keeps, Firm, Doubt
  <1> QED BY <1>2, <1>5, <1>6, <1>7, <1>8 DEF Good

(* rd_kafka_retry_msgq(): each message of the request is queued again or,  *)
(* if it has no attempt left, reported with its status.                    *)
LEMMA RetryGood ==
    ASSUME NEW s, NEW R, Good(s, R), NEW r \in Req, r.msgs \subseteq R,
           NEW incr, NEW st \in Statuses
    PROVE  LET t == RetryMsgq(s, r, incr, st)
           IN  /\ Good(t, R \ r.msgs) /\ Keeps(s, t)
               /\ st = "maybe" => \A m \in r.msgs : t.status[m] = "maybe"
  <1> DEFINE again == Again(s, r.msgs, incr)
             a == Requeue(s, again, incr)
             b == RetrySeqs(a, r, st)
             c == [b EXCEPT !.drain = TRUE]
             d == SetStatus(c, r.msgs, st)
             t == DrMsgq(d, r.msgs \ again, FALSE)
  <1>1. RetryMsgq(s, r, incr, st) = t
    BY DEF RetryMsgq
  <1>2. again \in SUBSET R /\ again \subseteq r.msgs
    BY DEF Again
  <1> HIDE DEF again
  <1> DEFINE Q == R \ again
             gone == r.msgs \ again
  <1>3. /\ Good(a, Q) /\ Keeps(s, a)
        /\ a.dr = s.dr /\ a.status = s.status
    BY <1>2, RequeueGood
  <1> HIDE DEF a, Q, gone
  <1>4. Quiet(a, b)
    BY <1>3, NextSeqIs DEF Good, Typed, Quiet, RetrySeqs, Fields
  <1> HIDE DEF b
  <1>5. Quiet(b, c)
    BY <1>4 DEF Quiet, Fields
  <1> HIDE DEF c
  <1>6. Quiet(a, c)
    BY <1>4, <1>5, QuietTrans
  <1>7. Good(c, Q) /\ Keeps(a, c) /\ c.dr = s.dr
    BY <1>3, <1>6, QuietGood DEF Quiet
  <1>8. \A m \in r.msgs : c.dr[m] = "none"
    BY <1>7 DEF Good, Placed
  <1>9. r.msgs \in SUBSET Ids
    BY DEF Req
  <1>10. /\ Good(d, Q) /\ Keeps(c, d)
         /\ st = "maybe" => \A m \in r.msgs : d.status[m] = "maybe"
    BY <1>7, <1>8, <1>9, StatusGood
  <1> HIDE DEF d
  <1>11. gone \in SUBSET Q /\ FALSE \in BOOLEAN /\ t = DrMsgq(d, gone, FALSE)
    BY DEF gone, Q
  <1>12. /\ Good(DrMsgq(d, gone, FALSE), Q \ gone) /\ Keeps(d, DrMsgq(d, gone, FALSE))
    BY <1>10, <1>11, ReportGood
  <1>13. Q \ gone = R \ r.msgs
    BY <1>2 DEF gone, Q
  <1>14. t.status = d.status
    <2>1. r.msgs \ again \in SUBSET Ids
      BY <1>9
    <2> QED BY <1>10, <2>1, DrIs
  <1> HIDE DEF t
  <1>15. Keeps(s, t)
    BY <1>3, <1>7, <1>10, <1>11, <1>12, KeepsTrans
  <1> QED BY <1>1, <1>10, <1>11, <1>12, <1>13, <1>14, <1>15

(* A request that fails for good: all its messages are reported with their *)
(* status.                                                                 *)
LEMMA FailGood ==
    ASSUME NEW s, NEW R, Good(s, R), NEW r \in Req, r.msgs \subseteq R, NEW st \in Statuses
    PROVE  LET t == FailMsgq(s, r, st)
           IN  /\ Good(t, R \ r.msgs) /\ Keeps(s, t)
               /\ st = "maybe" => \A m \in r.msgs : t.status[m] = "maybe"
  <1> DEFINE a == IF Gapless THEN DrainReset(SetFatal(s, "gapless"), TRUE)
                             ELSE DrainEpochBump(s, TRUE)
             b == [a EXCEPT !.nextErr = NextSeq(r)]
             c == SetStatus(b, r.msgs, st)
             t == DrMsgq(c, r.msgs, FALSE)
  <1>1. FailMsgq(s, r, st) = t
    BY DEF FailMsgq
  <1>2. Sane(s)
    BY DEF Good, Typed, Sane
  <1>3. Quiet(s, a)
    <2>1. Quiet(s, SetFatal(s, "gapless"))
      BY <1>2, SetFatalQuiet
    <2>2. Sane(SetFatal(s, "gapless"))
      BY <2>1 DEF Quiet, Sane
    <2>3. Quiet(SetFatal(s, "gapless"), DrainReset(SetFatal(s, "gapless"), TRUE))
      BY <2>2, DrainQuiet
    <2>4. Quiet(s, DrainEpochBump(s, TRUE))
      BY <1>2, DrainQuiet
    <2> QED BY <2>1, <2>3, <2>4, QuietTrans
  <1> HIDE DEF a
  <1>4. Quiet(a, b)
    BY <1>3 DEF Quiet, Fields
  <1> HIDE DEF b
  <1>5. Quiet(s, b)
    BY <1>3, <1>4, QuietTrans
  <1>6. Good(b, R) /\ Keeps(s, b)
    BY <1>5, QuietGood
  <1>7. r.msgs \in SUBSET Ids /\ r.msgs \in SUBSET R
    BY DEF Req
  <1>8. \A m \in r.msgs : b.dr[m] = "none"
    BY <1>6, <1>7 DEF Good, Placed
  <1>9. /\ Good(c, R) /\ Keeps(b, c)
        /\ st = "maybe" => \A m \in r.msgs : c.status[m] = "maybe"
    BY <1>6, <1>7, <1>8, StatusGood
  <1> HIDE DEF c
  <1>10. Good(t, R \ r.msgs) /\ Keeps(c, t)
    BY <1>7, <1>9, ReportGood
  <1>12. t.status = c.status
    BY <1>7, <1>9, DrIs
  <1> HIDE DEF t
  <1>11. Keeps(s, t)
    BY <1>6, <1>9, <1>10, KeepsTrans
  <1> QED BY <1>1, <1>9, <1>10, <1>12, <1>11

(* An error that leaves the leader's log unknown counts as a retry, and    *)
(* marks the messages.                                                     *)
LEMMA IdempErrorIs ==
    ASSUME NEW s, Sane(s), NEW r \in Req, NEW err
    PROVE  LET e == IdempError(s, r, err)
           IN  /\ Quiet(s, e[1])
               /\ e[2].act = "ack" \/ /\ e[2].act = "retry" \/ e[2].act = "permanent"
                                      /\ e[2].status \in Statuses
               /\ err = "transport" \/ err = "afterappend" =>
                     /\ e[2].act = "retry" \/ e[2].act = "permanent"
                     /\ e[2].incr = 1 /\ e[2].status = "maybe"
  <1>1. Quiet(s, s) /\ Quiet(s, DrainEpochBump(s, TRUE))
    BY QuietRefl, DrainQuiet
  <1>2. \A why : Quiet(s, SetFatal(s, why))
    BY SetFatalQuiet
  <1>3. /\ Quiet(s, UnknownPid(s, r)[1])
        /\ UnknownPid(s, r)[2].act = "retry" \/ UnknownPid(s, r)[2].act = "permanent"
        /\ UnknownPid(s, r)[2].status \in Statuses
    BY <1>1, <1>2 DEF UnknownPid, Retryable, Permanent, Statuses
  <1>4. /\ ErrAction(err).act = "retry" \/ ErrAction(err).act = "permanent"
        /\ ErrAction(err).status \in Statuses
        /\ err = "transport" \/ err = "afterappend" =>
              ErrAction(err).incr = 1 /\ ErrAction(err).status = "maybe"
    BY DEF ErrAction, Statuses
  <1>5. CASE r.pid # s.pid
    BY <1>1, <1>5 DEF IdempError, Permanent, Statuses
  <1>6. CASE r.pid = s.pid /\ err = "outoforder"
    <2>1. r.seq - s.nextAck \in Int
      BY DEF Req, Sane
    <2> DEFINE ahead == r.seq - s.nextAck
    <2>2. CASE ahead = 0
      <3>1. IdempError(s, r, err) = <<SetFatal(s, "desync"), Permanent>>
        BY <1>6, <2>1, <2>2 DEF IdempError
      <3> QED BY <1>2, <1>6, <3>1 DEF Permanent, Statuses
    <2>3. CASE ahead > 0
      <3> DEFINE d == DrainEpochBump(s, TRUE)
      <3>1. ahead # 0 /\ ~(ahead < 0)
        BY <2>1, <2>3
      <3>2. IdempError(s, r, err) = <<d, Retryable>>
        BY <1>6, <2>3, <3>1, Zenon DEF IdempError
      <3>3. Quiet(s, d)
        BY <1>1
      <3> HIDE DEF d
      <3> QED BY <1>6, <3>2, <3>3 DEF Retryable, Statuses
    <2>4. CASE ahead < 0
      <3>1. IdempError(s, r, err) = <<SetFatal(s, "below"), Permanent>>
        BY <1>6, <2>1, <2>4 DEF IdempError
      <3> QED BY <1>2, <1>6, <3>1 DEF Permanent, Statuses
    <2> QED BY <2>1, <2>2, <2>3, <2>4
  <1>7. CASE r.pid = s.pid /\ err = "duplicate"
    BY <1>1, <1>7 DEF IdempError, Duplicate
  <1>8. CASE r.pid = s.pid /\ err = "unknown_pid"
    BY <1>3, <1>8 DEF IdempError
  <1>9. CASE r.pid = s.pid /\ err # "outoforder" /\ err # "duplicate" /\ err # "unknown_pid"
    BY <1>1, <1>4, <1>9 DEF IdempError
  <1> QED BY <1>5, <1>6, <1>7, <1>8, <1>9

(* rd_kafka_handle_Produce_error(): no message of the request stays in it, *)
(* and if the leader may have appended it they are all in doubt.           *)
LEMMA ProduceErrorGood ==
    ASSUME NEW s, NEW R, Good(s, R), NEW r \in Req, r.msgs \subseteq R,
           NEW err, NEW sent \in BOOLEAN
    PROVE  LET t == ProduceError(s, r, err, sent)
           IN  /\ Good(t, R \ r.msgs) /\ Keeps(s, t)
               /\ sent /\ (err = "transport" \/ err = "afterappend") =>
                     \A m \in r.msgs : t.status[m] = "maybe"
  <1> DEFINE a == [s EXCEPT !.last[First(r.msgs)] = Last(r.msgs)]
             e == IdempError(a, r, err)
             ie == e[1]
             act == e[2]
             incr == IF sent THEN act.incr ELSE 0
             st == IF incr = 0 THEN "no" ELSE act.status
             ns == NextSeq(r)
             b == [ie EXCEPT !.nextAck = ns, !.nextErr = ns]
             t == ProduceError(s, r, err, sent)
  <1>1. t = CASE act.act = "retry" -> RetryMsgq(ie, r, incr, st)
              [] act.act = "permanent" -> FailMsgq(ie, r, act.status)
              [] act.act = "ack" -> DrMsgq(b, r.msgs, TRUE)
    BY DEF ProduceError
  <1>2. Good(a, R) /\ Keeps(s, a)
    BY ExtentGood
  <1> HIDE DEF a
  <1>3. Sane(a)
    BY <1>2 DEF Good, Typed, Sane
  <1>4. /\ Quiet(a, ie)
        /\ act.act = "ack" \/ /\ act.act = "retry" \/ act.act = "permanent"
                              /\ act.status \in Statuses
        /\ err = "transport" \/ err = "afterappend" =>
              /\ act.act = "retry" \/ act.act = "permanent"
              /\ act.incr = 1 /\ act.status = "maybe"
    BY <1>3, IdempErrorIs
  <1> HIDE DEF e
  <1>5. Good(ie, R) /\ Keeps(a, ie)
    BY <1>2, <1>4, QuietGood
  <1>6. Keeps(s, ie)
    BY <1>2, <1>5, KeepsTrans
  <1> HIDE DEF ie, act, t
  <1>7. CASE act.act = "retry"
    <2>1. t = RetryMsgq(ie, r, incr, st)
      BY <1>1, <1>7, Zenon
    <2>2. st \in Statuses /\ (sent /\ act.incr = 1 => st = act.status)
      BY <1>4, <1>7 DEF Statuses
    <2> HIDE DEF st, incr
    <2>3. /\ Good(t, R \ r.msgs) /\ Keeps(ie, t)
          /\ st = "maybe" => \A m \in r.msgs : t.status[m] = "maybe"
      BY <1>5, <2>1, <2>2, RetryGood
    <2>4. Keeps(s, t)
      BY <1>6, <2>3, KeepsTrans
    <2> QED BY <1>4, <2>2, <2>3, <2>4 DEF t
  <1>8. CASE act.act = "permanent"
    <2>1. t = FailMsgq(ie, r, act.status)
      BY <1>1, <1>8, Zenon
    <2>2. act.status \in Statuses
      BY <1>4, <1>8
    <2>3. /\ Good(t, R \ r.msgs) /\ Keeps(ie, t)
          /\ act.status = "maybe" => \A m \in r.msgs : t.status[m] = "maybe"
      BY <1>5, <2>1, <2>2, FailGood
    <2>4. Keeps(s, t)
      BY <1>6, <2>3, KeepsTrans
    <2> QED BY <1>4, <2>3, <2>4 DEF t
  <1>9. CASE act.act = "ack"
    <2>1. t = DrMsgq(b, r.msgs, TRUE)
      BY <1>1, <1>9, Zenon
    <2>2. ns \in Int
      BY NextSeqIs
    <2> HIDE DEF ns
    <2>3. Quiet(ie, b)
      BY <1>5, <2>2 DEF Good, Typed, Quiet, Fields
    <2> HIDE DEF b
    <2>4. Good(b, R) /\ Keeps(ie, b)
      BY <1>5, <2>3, QuietGood
    <2>5. r.msgs \in SUBSET R
      OBVIOUS
    <2>6. Good(t, R \ r.msgs) /\ Keeps(b, t)
      BY <2>1, <2>4, <2>5, ReportGood
    <2>7. Keeps(s, t)
      BY <1>6, <2>4, <2>6, KeepsTrans
    <2> QED BY <1>4, <1>9, <2>6, <2>7 DEF t
  <1> QED BY <1>4, <1>7, <1>8, <1>9

(* rd_kafka_handle_idempotent_Produce_success(): the messages of the       *)
(* request, and queued ones it acknowledges implicitly, are delivered.     *)
LEMMA ProduceSuccessGood ==
    ASSUME NEW s, NEW R, Good(s, R), NEW r \in Req, r.msgs \subseteq R
    PROVE  LET t == ProduceSuccess(s, r)
           IN  /\ Good(t, R \ r.msgs) /\ Keeps(s, t)
               /\ \A m \in r.msgs : t.dr[m] = "delivered"
  <1> DEFINE gap == s.acked < First(r.msgs) - 1
             unexpected == ~gap /\ r.seq # s.nextAck /\ r.seq = s.nextErr
             a == IF gap THEN ImplicitAck(s, Last(r.msgs)) ELSE s
             ns == NextSeq(r)
             b1 == [a EXCEPT !.nextErr = ns]
             b2 == [a EXCEPT !.nextErr = IF @ = a.nextAck THEN ns ELSE @, !.nextAck = ns]
             b == IF unexpected THEN SetFatal(b1, "unexpected") ELSE b2
             c == [b EXCEPT !.acked = IF Last(r.msgs) > @ THEN Last(r.msgs) ELSE @]
             t == DrMsgq(c, r.msgs, TRUE)
  <1>1. ProduceSuccess(s, r) = t
    BY DEF ProduceSuccess
  <1>2. Good(a, R) /\ Keeps(s, a)
    <2>1. CASE gap
      <3> DEFINE acked == {m \in Queued(s) : m <= Last(r.msgs)}
                 u == DrMsgq(Unqueue(s, acked), acked, TRUE)
      <3>1. a = u
        BY <2>1 DEF ImplicitAck
      <3>2. acked \in SUBSET Queued(s)
        OBVIOUS
      <3> HIDE DEF acked
      <3>3. Good(u, R) /\ Keeps(s, u)
        BY <3>2, UnqueueGood
      <3> QED BY <3>1, <3>3
    <2>2. CASE ~gap
      <3>1. a = s
        BY <2>2
      <3> QED BY <3>1 DEF Keeps, Firm
    <2> QED BY <2>1, <2>2
  <1> HIDE DEF a
  <1>3. ns \in Int
    BY NextSeqIs
  <1> HIDE DEF ns
  <1>4. Sane(a)
    BY <1>2 DEF Good, Typed, Sane
  <1>5. Quiet(a, b)
    <2>1. Quiet(a, b1)
      BY <1>4 DEF Quiet, Sane, Fields
    <2>2. Quiet(a, b2)
      BY <1>3, <1>4 DEF Quiet, Sane, Fields
    <2> HIDE DEF b1, b2
    <2>3. Sane(b1)
      BY <2>1 DEF Quiet, Sane
    <2>4. Quiet(b1, SetFatal(b1, "unexpected"))
      BY <2>3, SetFatalQuiet
    <2>5. Quiet(a, SetFatal(b1, "unexpected"))
      BY <2>1, <2>4, QuietTrans
    <2> HIDE DEF unexpected
    <2> QED BY <2>2, <2>5
  <1> HIDE DEF b
  <1>6. Quiet(b, c)
    BY <1>5 DEF Quiet, Fields
  <1> HIDE DEF c
  <1>7. Quiet(a, c)
    BY <1>5, <1>6, QuietTrans
  <1>8. Good(c, R) /\ Keeps(a, c)
    BY <1>2, <1>7, QuietGood
  <1>9. r.msgs \in SUBSET R /\ r.msgs \in SUBSET Ids
    BY DEF Req
  <1>10. Good(t, R \ r.msgs) /\ Keeps(c, t)
    BY <1>8, <1>9, ReportGood
  <1>11. \A m \in Ids : t.dr[m] = IF m \notin r.msgs THEN c.dr[m] ELSE "delivered"
    BY <1>8, <1>9, DrIs
  <1> HIDE DEF t
  <1>12. Keeps(s, t)
    BY <1>2, <1>8, <1>10, KeepsTrans
  <1> QED BY <1>1, <1>9, <1>10, <1>11, <1>12

(* A request's result takes its messages out of the requests, and out of   *)
(* the count; doubt about a message is not forgotten, and arises where the *)
(* leader may have it.                                                     *)
LEMMA ResultGood ==
    ASSUME NEW s, NEW R, Good(s, R), s.inflight = Cardinality(R),
           NEW r \in Req, r.msgs \subseteq R, NEW err, NEW sent \in BOOLEAN
    PROVE  LET t == HandleResult(s, r, err, sent)
           IN  /\ Good(t, R \ r.msgs) /\ t.inflight = Cardinality(R \ r.msgs)
               /\ t.pid = s.pid /\ Firm(s, t)
               /\ err = "ok" \/ (sent /\ (err = "transport" \/ err = "afterappend")) =>
                     \A m \in r.msgs : Doubt(t, m)
  <1> DEFINE n == s.inflight - Cardinality(r.msgs)
             a == [s EXCEPT !.inflight = n]
             b == IF err = "ok" THEN ProduceSuccess(a, r) ELSE ProduceError(a, r, err, sent)
             t == CheckDrainDone(b, a.inflight > 0)
  <1>1. HandleResult(s, r, err, sent) = t
    BY DEF HandleResult
  <1>2. n = Cardinality(R \ r.msgs)
    <2>1. IsFiniteSet(R) /\ R \cap r.msgs = r.msgs
      BY FinitePart DEF Good
    <2>2. Cardinality(R \ r.msgs) = Cardinality(R) - Cardinality(R \cap r.msgs)
      BY <2>1, FS_Difference, Zenon
    <2> QED BY <2>1, <2>2
  <1> HIDE DEF n
  <1>3. /\ DOMAIN a = Fields /\ a.inflight = n
        /\ a.msgid = s.msgid /\ a.msgq = s.msgq /\ a.xmit = s.xmit /\ a.status = s.status
        /\ a.dr = s.dr /\ a.last = s.last /\ a.pid = s.pid /\ a.base = s.base
        /\ a.epoch = s.epoch /\ a.nextAck = s.nextAck
    BY DEF Good, Typed, Fields
  <1> HIDE DEF a
  <1>4. Good(a, R)
    <2>1. Typed(a)
      BY <1>3 DEF Good, Typed
    <2>2. Placed(a, R)
      BY <1>3 DEF Good, Placed
    <2> QED BY <1>3, <2>1, <2>2 DEF Good, Sincere
  <1>5. /\ Good(b, R \ r.msgs) /\ Keeps(a, b)
        /\ err = "ok" \/ (sent /\ (err = "transport" \/ err = "afterappend")) =>
              \A m \in r.msgs : Doubt(b, m)
    <2>1. CASE err = "ok"
      <3>1. b = ProduceSuccess(a, r)
        BY <2>1
      <3>2. /\ Good(b, R \ r.msgs) /\ Keeps(a, b)
            /\ \A m \in r.msgs : b.dr[m] = "delivered"
        BY <1>4, <3>1, ProduceSuccessGood
      <3> QED BY <3>2 DEF Doubt
    <2>2. CASE err # "ok"
      <3>1. b = ProduceError(a, r, err, sent)
        BY <2>2
      <3> DEFINE u == ProduceError(a, r, err, sent)
      <3>2. Good(u, R \ r.msgs) /\ Keeps(a, u)
        BY <1>4, ProduceErrorGood
      <3>3. ASSUME sent, err = "transport" \/ err = "afterappend", NEW m \in r.msgs
            PROVE  u.status[m] = "maybe"
        BY <1>4, <3>3, ProduceErrorGood
      <3> HIDE DEF u
      <3> QED BY <2>2, <3>1, <3>2, <3>3 DEF Doubt, u
    <2> QED BY <2>1, <2>2
  <1> HIDE DEF b
  <1>6. Sane(b)
    BY <1>5 DEF Good, Typed, Sane
  <1>7. Quiet(b, t)
    BY <1>6, CheckDrainDoneQuiet
  <1> HIDE DEF t
  <1>8. Good(t, R \ r.msgs) /\ Keeps(b, t)
    BY <1>5, <1>7, QuietGood
  <1>9. t.inflight = n /\ t.pid = s.pid /\ Firm(s, t)
    BY <1>3, <1>5, <1>8 DEF Keeps, Firm, Doubt
  <1>10. \A m \in r.msgs : Doubt(b, m) => Doubt(t, m)
    BY <1>7 DEF Quiet, Doubt
  <1> QED BY <1>1, <1>2, <1>5, <1>8, <1>9, <1>10

-----------------------------------------------------------------------------
(* The invariant: requests on their way, and what the leader has.          *)

Codes == {"ok", "notleader", "notenough", "denied", "afterappend",
          "invalid_epoch", "unknown_pid", "outoforder"}

InOut(m)  == \E i \in 1..Len(outbufs) : m \in outbufs[i].msgs
InWait(m) == \E i \in 1..Len(waitresp) : m \in waitresp[i].msgs
InTmp(m)  == \E i \in 1..Len(tmpq) : m \in tmpq[i].req.msgs

(* Requests and codes; the requests the leader has not handled are the     *)
(* youngest of those waiting for a response.                               *)
Wires ==
    /\ outbufs \in Seq(Req)
    /\ waitresp \in Seq(Req)
    /\ tmpq \in Seq([req : Req, sent : BOOLEAN])
    /\ net \in [cur : Seq(Req), old : Seq(Req)]
    /\ replies \in Seq(Codes)
    /\ Len(waitresp) = Len(replies) + Len(net.cur)
    /\ \A i \in 1..Len(net.cur) : net.cur[i] = waitresp[Len(replies) + i]

(* broker_fail's requests are failed before the thread does anything else. *)
Threaded ==
    /\ thread = Idle \/ thread = [at |-> "fail"] \/ (thread.at = "serve" /\ thread.pid \in Int)
    /\ At("fail") => outbufs = <<>> /\ waitresp = <<>> /\ replies = <<>>
    /\ tmpq # <<>> => At("fail")

(* No message is in two requests.                                          *)
Apart ==
    /\ Len(outbufs) <= 1
    /\ \A i, j \in 1..Len(waitresp) : i # j => waitresp[i].msgs \cap waitresp[j].msgs = {}
    /\ \A i, j \in 1..Len(tmpq) : i # j => tmpq[i].req.msgs \cap tmpq[j].req.msgs = {}
    /\ \A m \in Ids : ~(InOut(m) /\ InWait(m))

Owned == Good(p, InRequest) /\ p.inflight = Cardinality(InRequest)

(* What the leader has, or may yet get, the producer doubts, or will once  *)
(* it handles the answer or the failure that is on its way.                *)
Answered(m) ==
    \E i \in 1..Len(replies) : m \in waitresp[i].msgs /\ replies[i] \in {"ok", "afterappend"}
Failing(m) == \E i \in 1..Len(tmpq) : m \in tmpq[i].req.msgs /\ tmpq[i].sent

Entries == [id : Ids, epoch : Int, seq : Int]
Honest ==
    /\ DOMAIN brk = {"log", "epoch", "next", "cache"}
    /\ brk.log \in Seq(Entries) /\ brk.epoch \in Int
    /\ \A m \in Ids : Logged(m) => Doubt(p, m) \/ Answered(m) \/ Failing(m)
    /\ \A i \in 1..Len(net.old) : \A m \in net.old[i].msgs : Doubt(p, m) \/ Failing(m)

Inv == Owned /\ Wires /\ Threaded /\ Apart /\ Honest

(* The messages in requests, place by place.                               *)
LEMMA InRequestIs == \A m : m \in InRequest <=> InOut(m) \/ InWait(m) \/ InTmp(m)
  BY DEF InRequest, Requests, InOut, InWait, InTmp

(* The same of the next state.                                             *)
LEMMA InRequestIsNext == \A m : m \in InRequest' <=> InOut(m)' \/ InWait(m)' \/ InTmp(m)'
  BY DEF InRequest, Requests, InOut, InWait, InTmp

(* As long as only the producer's state and its output buffers change.     *)
LEMMA HonestFrame ==
    ASSUME Inv, Firm(p, p'), UNCHANGED <<waitresp, tmpq, net, replies, brk>>
    PROVE  Honest'
  <1>1. \A m \in Ids : Doubt(p, m) => Doubt(p, m)'
    BY DEF Firm, Doubt
  <1>2. \A i \in 1..Len(net.old) : \A m \in net.old[i].msgs : m \in Ids
    <2>1. net.old \in Seq(Req)
      BY DEF Inv, Wires
    <2>2. \A i \in 1..Len(net.old) : net.old[i] \in Req
      BY <2>1
    <2>3. \A r \in Req : r.msgs \in SUBSET Ids
      BY DEF Req
    <2> QED BY <2>2, <2>3
  <1> QED BY <1>1, <1>2 DEF Inv, Honest, Logged, Answered, Failing

(* The invariant, when only the producer's own state changes and its       *)
(* messages are in the same requests.                                      *)
LEMMA Frame ==
    ASSUME Inv, Threaded', Good(p', InRequest), p'.inflight = Cardinality(InRequest), Firm(p, p'),
           UNCHANGED <<outbufs, waitresp, tmpq, net, replies, brk>>
    PROVE  Inv'
  <1>1. Honest'
    BY HonestFrame
  <1>2. InRequest' = InRequest
    BY DEF InRequest, Requests
  <1>3. Wires' /\ Apart'
    BY DEF Inv, Wires, Apart, InOut, InWait
  <1> QED BY <1>1, <1>2, <1>3 DEF Inv, Owned

(* The output buffers' request is failed.                                  *)
LEMMA PurgeFrame ==
    ASSUME Inv, Threaded', Good(p', InRequest'), p'.inflight = Cardinality(InRequest'), Firm(p, p'),
           outbufs' = <<>>, UNCHANGED <<waitresp, tmpq, net, replies, brk>>
    PROVE  Inv'
  <1>1. Honest'
    BY HonestFrame
  <1>2. Wires' /\ Apart'
    BY DEF Inv, Wires, Apart, InOut, InWait
  <1> QED BY <1>1, <1>2 DEF Inv, Owned

(* What is in doubt is in doubt.                                           *)
LEMMA FirmRefl == \A s : Firm(s, s)
  BY DEF Firm

(* Doubts that survive two changes survive both.                           *)
LEMMA FirmTrans == \A s, t, u : Firm(s, t) /\ Firm(t, u) => Firm(s, u)
  BY DEF Firm

-----------------------------------------------------------------------------
(* The broker thread's round.                                              *)

OutMsgs == IF outbufs = <<>> THEN {} ELSE Head(outbufs).msgs

(* There is at most one request in the output buffers; its messages are in *)
(* no other.                                                               *)
LEMMA OutMsgsIs ==
    ASSUME Inv
    PROVE  /\ \A m \in Ids : InOut(m) <=> m \in OutMsgs
           /\ OutMsgs \in SUBSET InRequest
           /\ outbufs # <<>> => Head(outbufs) \in Req
           /\ \A m \in OutMsgs : ~InWait(m) /\ ~InTmp(m)
  <1>1. outbufs \in Seq(Req) /\ Len(outbufs) <= 1
    BY DEF Inv, Wires, Apart
  <1>2. CASE outbufs = <<>>
    BY <1>2 DEF OutMsgs, InOut
  <1>3. CASE outbufs # <<>>
    <2>1. Len(outbufs) = 1 /\ Head(outbufs) = outbufs[1] /\ outbufs[1] \in Req
      <3>1. Len(outbufs) \in Nat /\ Len(outbufs) # 0
        BY <1>1, <1>3
      <3>a. \A n \in Nat : n <= 1 /\ n # 0 => n = 1
        OBVIOUS
      <3>2. Len(outbufs) = 1
        BY <1>1, <3>1, <3>a, Zenon
      <3>3. outbufs[1] \in Req
        BY <1>1, <3>2
      <3> QED BY <1>1, <1>3, <3>2, <3>3
    <2>2. \A m : InOut(m) <=> m \in OutMsgs
      BY <1>3, <2>1 DEF OutMsgs, InOut
    <2>3. outbufs[1].msgs \in SUBSET Ids
      BY <2>1 DEF Req
    <2>4. OutMsgs \in SUBSET Ids
      BY <1>3, <2>1, <2>3 DEF OutMsgs
    <2>5. tmpq = <<>>
      BY <1>3 DEF Inv, Threaded
    <2>6. \A m \in OutMsgs : ~InWait(m) /\ ~InTmp(m)
      BY <2>2, <2>4, <2>5 DEF Inv, Apart, InTmp
    <2> QED BY <2>1, <2>2, <2>6, InRequestIs
  <1> QED BY <1>2, <1>3

(* Without it, the messages of the other requests remain in requests.      *)
LEMMA PurgedRequests ==
    ASSUME Inv, outbufs' = <<>>, UNCHANGED <<waitresp, tmpq>>
    PROVE  InRequest' = InRequest \ OutMsgs
  <1>1. \A m : ~InOut(m)' /\ (InWait(m)' <=> InWait(m)) /\ (InTmp(m)' <=> InTmp(m))
    BY DEF InOut, InWait, InTmp
  <1>2. InRequest \in SUBSET Ids
    BY DEF Inv, Owned, Good
  <1>3. \A m \in InRequest : InOut(m) <=> m \in OutMsgs
    BY <1>2, OutMsgsIs
  <1>4. \A m \in OutMsgs : ~InWait(m) /\ ~InTmp(m)
    BY OutMsgsIs
  <1> QED BY <1>1, <1>3, <1>4, InRequestIs, InRequestIsNext

(* rd_kafka_broker_bufq_purge_by_toppar(): the messages of that request go *)
(* back to the queue or are reported, and none of them is counted in       *)
(* flight.                                                                 *)
LEMMA PurgeOutbufsGood ==
    ASSUME Inv, NEW s, Good(s, InRequest), s.inflight = Cardinality(InRequest), NEW err
    PROVE  LET t == PurgeOutbufs(s, err)
           IN  /\ Good(t, InRequest \ OutMsgs) /\ t.inflight = Cardinality(InRequest \ OutMsgs)
               /\ t.pid = s.pid /\ Firm(s, t)
  <1>1. CASE outbufs = <<>>
    <2>1. PurgeOutbufs(s, err) = s
      BY <1>1 DEF PurgeOutbufs
    <2>2. InRequest \ OutMsgs = InRequest
      BY <1>1 DEF OutMsgs
    <2> QED BY <2>1, <2>2, FirmRefl
  <1>2. CASE outbufs # <<>>
    <2> DEFINE r == Head(outbufs)
               t == HandleResult(s, r, err, FALSE)
    <2>1. PurgeOutbufs(s, err) = t
      BY <1>2 DEF PurgeOutbufs
    <2>2. r \in Req /\ r.msgs \subseteq InRequest /\ OutMsgs = r.msgs
      BY <1>2, OutMsgsIs DEF OutMsgs
    <2> HIDE DEF r
    <2> DEFINE Q == InRequest
    <2> HIDE DEF Q
    <2>a. Good(s, Q) /\ s.inflight = Cardinality(Q) /\ r.msgs \subseteq Q /\ FALSE \in BOOLEAN
      BY <2>2 DEF Q
    <2>3. \A sent \in BOOLEAN :
             LET u == HandleResult(s, r, err, sent)
             IN  /\ Good(u, Q \ r.msgs) /\ u.inflight = Cardinality(Q \ r.msgs)
                 /\ u.pid = s.pid /\ Firm(s, u)
      BY <2>2, <2>a, ResultGood
    <2>b. /\ Good(t, InRequest \ r.msgs) /\ t.inflight = Cardinality(InRequest \ r.msgs)
          /\ t.pid = s.pid /\ Firm(s, t)
      BY <2>3, Zenon DEF Q
    <2> HIDE DEF t
    <2> QED BY <2>1, <2>2, <2>b
  <1> QED BY <1>1, <1>2

(* Messages move from the partition queue to the transmit queue.           *)
LEMMA LoadedGood ==
    ASSUME Inv
    PROVE  /\ Good(Loaded, InRequest) /\ Keeps(p, Loaded)
           /\ Loaded.drain = p.drain
  <1> DEFINE t == MoveToXmit(p)
  <1>1. Good(p, InRequest)
    BY DEF Inv, Owned
  <1>2. /\ DOMAIN t = Fields /\ t.xmit = p.xmit \cup p.msgq /\ t.msgq = {}
        /\ t.msgid = p.msgid /\ t.status = p.status /\ t.dr = p.dr /\ t.last = p.last
        /\ t.inflight = p.inflight /\ t.pid = p.pid /\ t.base = p.base
        /\ t.epoch = p.epoch /\ t.nextAck = p.nextAck /\ t.drain = p.drain
    BY <1>1 DEF Good, Typed, MoveToXmit, Fields
  <1> HIDE DEF t
  <1>3. Typed(t)
    BY <1>1, <1>2 DEF Good, Typed
  <1>4. Placed(t, InRequest)
    BY <1>1, <1>2 DEF Good, Placed
  <1>5. Sincere(t) /\ Keeps(p, t) /\ Keeps(p, p)
    BY <1>1, <1>2 DEF Good, Sincere, Keeps, Firm, Doubt
  <1> QED BY <1>1, <1>2, <1>3, <1>4, <1>5 DEF Loaded, Good, t

(* rd_kafka_toppar_pid_change() moves no message.                          *)
LEMMA PidChangeGood ==
    ASSUME NEW s, NEW R, Good(s, R), NEW pid \in Int, s.xmit # {}
    PROVE  LET t == PidChange(s, pid)
           IN  Good(t, R) /\ t.inflight = s.inflight /\ Firm(s, t)
  <1> DEFINE t == PidChange(s, pid)
  <1>1. First(s.xmit) \in Int
    <2>1. First(s.xmit) \in s.xmit /\ s.xmit \in SUBSET Ids
      BY FirstIs DEF Good, Typed
    <2> QED BY <2>1 DEF Ids
  <1>2. /\ DOMAIN t = Fields /\ t.xmit = s.xmit /\ t.msgq = s.msgq
        /\ t.msgid = s.msgid /\ t.status = s.status /\ t.dr = s.dr /\ t.last = s.last
        /\ t.inflight = s.inflight /\ t.pid = pid /\ t.base = First(s.xmit)
        /\ t.epoch = s.epoch /\ t.nextAck = 0
    BY DEF Good, Typed, PidChange, Fields
  <1> HIDE DEF t
  <1>3. Typed(t)
    BY <1>1, <1>2 DEF Good, Typed
  <1>4. Placed(t, R)
    BY <1>2 DEF Good, Placed
  <1>5. Sincere(t) /\ Firm(s, t)
    BY <1>2 DEF Good, Sincere, Firm, Doubt
  <1> QED BY <1>2, <1>3, <1>4, <1>5 DEF Good, t

(* The round's requests after the purges.                                  *)
Left(pid) == IF Purged(pid) THEN InRequest \ OutMsgs ELSE InRequest

(* rd_kafka_toppar_producer_serve() up to the request it may send: a purge *)
(* leaves the messages of the other requests in requests.                  *)
LEMMA ServedGood ==
    ASSUME Inv, NEW pid \in Int
    PROVE  /\ Good(Served(pid), Left(pid)) /\ Served(pid).inflight = Cardinality(Left(pid))
           /\ Firm(p, Served(pid))
  <1> DEFINE a == IF pid # p.pid THEN PurgeOutbufs(Loaded, "retry") ELSE Loaded
             b == Drained(a, pid)
             ready == ~b.drain /\ Room /\ b.inflight < MaxInflight /\ b.xmit # {}
                         /\ pid # b.pid /\ b.inflight = 0
             c == IF ready THEN PidChange(b, pid) ELSE b
  <1>1. Served(pid) = c
    BY DEF Served
  <1>2. p.inflight = Cardinality(InRequest) /\ InRequest \in SUBSET Ids
    BY DEF Inv, Owned, Good
  <1>3. p.inflight \in Nat
    BY <1>2, FinitePart
  <1>4. /\ Good(Loaded, InRequest) /\ Loaded.inflight = p.inflight /\ Loaded.pid = p.pid
        /\ Firm(p, Loaded) /\ Loaded.drain = p.drain
    BY LoadedGood DEF Keeps
  <1>5. CASE pid # p.pid
    <2>1. Left(pid) = InRequest \ OutMsgs
      BY <1>5 DEF Left, Purged
    <2>2. /\ Good(a, Left(pid)) /\ a.inflight = Cardinality(Left(pid))
          /\ a.pid = p.pid /\ Firm(Loaded, a)
      BY <1>2, <1>4, <1>5, <2>1, PurgeOutbufsGood
    <2>3. Left(pid) \in SUBSET Ids
      BY <1>2, <2>1
    <2>4. a.inflight \in Nat
      BY <2>2, <2>3, FinitePart
    <2> HIDE DEF a
    <2>5. b = a \/ b = [a EXCEPT !.drain = FALSE]
      BY <1>5, <2>2, <2>4 DEF Drained
    <2>6. Quiet(a, [a EXCEPT !.drain = FALSE]) /\ Quiet(a, a)
      BY <2>2 DEF Quiet, Good, Typed, Fields
    <2> HIDE DEF b
    <2>7. Quiet(a, b)
      BY <2>5, <2>6
    <2>8. Good(b, Left(pid)) /\ b.inflight = Cardinality(Left(pid)) /\ Firm(a, b)
      BY <2>2, <2>7, QuietGood DEF Keeps
    <2>9. Firm(p, b)
      BY <1>4, <2>2, <2>8, FirmTrans
    <2>10. CASE ready
      <3>1. c = PidChange(b, pid) /\ b.xmit # {}
        BY <2>10
      <3>2. Good(c, Left(pid)) /\ c.inflight = b.inflight /\ Firm(b, c)
        BY <2>8, <3>1, PidChangeGood
      <3> HIDE DEF c
      <3> QED BY <1>1, <2>8, <2>9, <3>2, FirmTrans
    <2>11. CASE ~ready
      <3>1. c = b
        BY <2>11
      <3> QED BY <1>1, <2>8, <2>9, <3>1
    <2> QED BY <2>10, <2>11
  <1>6. CASE pid = p.pid
    <2>1. a = Loaded
      BY <1>6
    <2> HIDE DEF a
    <2>2. Good(a, InRequest) /\ a.inflight = p.inflight /\ a.pid = p.pid /\ a.drain = p.drain
            /\ Firm(p, a)
      BY <1>4, <2>1
    <2>3. /\ Good(b, Left(pid)) /\ b.inflight = Cardinality(Left(pid))
          /\ b.pid = pid /\ Firm(a, b)
      <3>1. CASE p.drain /\ p.inflight > 0
        <4>1. b = PurgeOutbufs(a, "retry")
          BY <1>3, <1>6, <2>2, <3>1 DEF Drained
        <4>2. Left(pid) = InRequest \ OutMsgs
          BY <3>1 DEF Left, Purged
        <4> HIDE DEF b
        <4> QED BY <1>2, <1>6, <2>2, <4>1, <4>2, PurgeOutbufsGood
      <3>2. CASE ~(p.drain /\ p.inflight > 0)
        <4>1. b = a \/ b = [a EXCEPT !.drain = FALSE]
          BY <1>3, <2>2, <3>2 DEF Drained
        <4>2. Quiet(a, [a EXCEPT !.drain = FALSE]) /\ Quiet(a, a)
          BY <2>2 DEF Quiet, Good, Typed, Fields
        <4> HIDE DEF b
        <4>3. Quiet(a, b)
          BY <4>1, <4>2
        <4>4. Left(pid) = InRequest
          BY <1>6, <3>2 DEF Left, Purged
        <4> QED BY <1>2, <1>6, <2>2, <4>3, <4>4, QuietGood DEF Keeps
      <3> QED BY <3>1, <3>2
    <2> HIDE DEF b
    <2>4. c = b
      BY <2>3
    <2>5. Firm(p, b)
      BY <2>2, <2>3, FirmTrans
    <2> QED BY <1>1, <2>3, <2>4, <2>5
  <1> QED BY <1>5, <1>6

-----------------------------------------------------------------------------
(* One lemma per action.                                                   *)

(* What the invariant says of the producer's state.                        *)
LEMMA Mine ==
    ASSUME Inv
    PROVE  /\ Good(p, InRequest) /\ p.inflight = Cardinality(InRequest)
           /\ InRequest \in SUBSET Ids /\ Sane(p) /\ DOMAIN p = Fields
  BY DEF Inv, Owned, Good, Typed, Sane

(* Initially nothing is queued, sent or logged.                            *)
LEMMA InitInv == Init => Inv
  <1> SUFFICES ASSUME Init PROVE Inv
    OBVIOUS
  <1>1. InRequest = {}
    BY DEF Init, InRequest, Requests
  <1>2. Typed(p)
    BY PartitionAssumption DEF Init, Typed, Fields, Extents, Statuses, Reports, NoPid
  <1>3. Placed(p, {}) /\ Sincere(p) /\ p.inflight = 0
    BY DEF Init, Placed, Sincere, Ids
  <1>4. Owned
    BY <1>1, <1>2, <1>3, FS_EmptySet DEF Owned, Good
  <1>5. Wires
    BY DEF Init, Wires
  <1>6. Threaded /\ Apart
    BY DEF Init, Threaded, Apart, At, Idle, InOut
  <1>7. Honest
    BY DEF Init, Honest, Logged, NoPid
  <1> QED BY <1>4, <1>5, <1>6, <1>7 DEF Inv

(* A new message is in the partition queue only, and nobody has reported   *)
(* it.                                                                     *)
LEMMA EnqMsgInv == ASSUME Inv, EnqMsg PROVE Inv'
  <1> DEFINE n == p.msgid + 1
  <1>1. Good(p, InRequest)
    BY Mine
  <1>2. /\ DOMAIN p' = Fields /\ p'.msgid = n /\ p'.msgq = p.msgq \cup {n}
        /\ p'.xmit = p.xmit /\ p'.status = p.status /\ p'.dr = p.dr /\ p'.last = p.last
        /\ p'.inflight = p.inflight /\ p'.pid = p.pid /\ p'.base = p.base
        /\ p'.epoch = p.epoch /\ p'.nextAck = p.nextAck
    BY <1>1 DEF EnqMsg, Good, Typed, Fields
  <1>3. n \in Ids /\ n \in 0..MaxMsgs /\ p.msgid \in Nat
    BY <1>1, PartitionAssumption DEF EnqMsg, Good, Typed, Ids
  <1>4. Typed(p')
    BY <1>1, <1>2, <1>3 DEF Good, Typed
  <1>5. Placed(p', InRequest)
    <2>1. \A m \in Ids : m <= n <=> m <= p.msgid \/ m = n
      BY <1>3 DEF Ids
    <2>2. ~(n <= p.msgid)
      BY <1>3
    <2> HIDE DEF n
    <2> QED BY <1>1, <1>2, <1>3, <2>1, <2>2 DEF Good, Placed
  <1>6. Sincere(p') /\ Firm(p, p')
    BY <1>1, <1>2 DEF Good, Sincere, Firm, Doubt
  <1>7. Threaded'
    BY DEF Inv, EnqMsg, Threaded, At, conn
  <1> QED BY <1>1, <1>2, <1>4, <1>5, <1>6, <1>7, Mine, Frame DEF Good, EnqMsg, conn

(* An action that changes the producer's state quietly keeps the           *)
(* invariant.                                                              *)
LEMMA QuietInv ==
    ASSUME Inv, Quiet(p, p'), Threaded', UNCHANGED <<outbufs, waitresp, tmpq, net, replies, brk>>
    PROVE  Inv'
  <1>1. Good(p', InRequest) /\ Keeps(p, p')
    BY Mine, QuietGood
  <1> QED BY <1>1, Mine, Frame DEF Keeps

(* rd_kafka_broker_produce_toppars(): the pid is read, nothing else.       *)
LEMMA ProduceTopparsInv == ASSUME Inv, ProduceToppars PROVE Inv'
  <1>1. Quiet(p, p')
    BY Mine, QuietRefl DEF ProduceToppars, Sane
  <1>2. p.epoch \in Int
    BY Mine DEF Sane
  <1>3. Threaded'
    BY <1>2 DEF Inv, ProduceToppars, Threaded, At, Idle, conn
  <1> QED BY <1>1, <1>3, QuietInv DEF ProduceToppars, conn

(* rd_kafka_toppar_producer_serve() without a request to send.             *)
LEMMA ServeInv == ASSUME Inv, Serve PROVE Inv'
  <1> DEFINE pid == thread.pid
  <1>1. pid \in Int /\ tmpq = <<>>
    BY DEF Inv, Serve, Threaded, At, Idle
  <1>2. Threaded'
    BY <1>1 DEF Serve, Threaded, At, Idle, conn
  <1>3. /\ Good(p', Left(pid)) /\ p'.inflight = Cardinality(Left(pid))
        /\ Firm(p, p')
    BY <1>1, ServedGood DEF Serve
  <1>4. CASE Purged(pid)
    <2>1. outbufs' = <<>> /\ UNCHANGED <<waitresp, tmpq, net, replies, brk>>
      BY <1>4 DEF Serve, conn
    <2>2. InRequest' = Left(pid)
      BY <1>4, <2>1, PurgedRequests DEF Left
    <2> QED BY <1>2, <1>3, <2>1, <2>2, PurgeFrame
  <1>5. CASE ~Purged(pid)
    <2>1. UNCHANGED <<outbufs, waitresp, tmpq, net, replies, brk>>
      BY <1>5 DEF Serve, conn
    <2>2. Left(pid) = InRequest
      BY <1>5 DEF Left
    <2> QED BY <1>2, <1>3, <2>1, <2>2, Frame
  <1> QED BY <1>4, <1>5

(* rd_kafka_broker_toppar_msgq_scan(): expired messages leave the queues   *)
(* with their status.                                                      *)
LEMMA MsgqScanInv == ASSUME Inv, NEW t \in Ids, MsgqScan(t) PROVE Inv'
  <1> DEFINE ms == Expired(t)
             u == DrMsgq(Unqueue(p, ms), ms, FALSE)
  <1>1. ms \in SUBSET Queued(p)
    BY DEF Expired
  <1> HIDE DEF ms
  <1>2. \A ok \in BOOLEAN :
           Good(DrMsgq(Unqueue(p, ms), ms, ok), InRequest) /\ Keeps(p, DrMsgq(Unqueue(p, ms), ms, ok))
    BY <1>1, Mine, UnqueueGood
  <1>3. Good(u, InRequest) /\ Keeps(p, u)
    BY <1>2, Zenon
  <1>4. UNCHANGED <<outbufs, waitresp, tmpq, net, replies, brk>>
    BY DEF MsgqScan, conn
  <1>5. CASE At("serve") /\ p' = DrainEpochBump(u, p.inflight > 0) /\ thread' = Idle
    <2>1. Sane(u)
      BY <1>3 DEF Good, Typed, Sane
    <2> HIDE DEF u
    <2>2. Quiet(u, p')
      BY <1>5, <2>1, DrainQuiet
    <2>3. Good(p', InRequest) /\ Keeps(u, p')
      BY <1>3, <2>2, QuietGood
    <2>4. Keeps(p, p')
      BY <1>3, <2>3, KeepsTrans
    <2>5. Threaded'
      BY <1>4, <1>5 DEF Inv, Threaded, At, Idle
    <2> QED BY <1>4, <2>3, <2>4, <2>5, Mine, Frame DEF Keeps
  <1>6. CASE At("idle") /\ p' = u /\ UNCHANGED thread
    <2> HIDE DEF u
    <2>1. Threaded'
      BY <1>4, <1>6 DEF Inv, Threaded, At, Idle
    <2> QED BY <1>3, <1>4, <1>6, <2>1, Mine, Frame DEF Keeps
  <1> QED BY <1>5, <1>6 DEF MsgqScan, ms

(* A new connection.                                                       *)
LEMMA ConnectInv == ASSUME Inv, Connect PROVE Inv'
  <1>1. Quiet(p, p')
    BY Mine, QuietRefl DEF Connect, Sane
  <1>2. Threaded'
    BY DEF Inv, Connect, Threaded, At, Idle
  <1> QED BY <1>1, <1>2, QuietInv DEF Connect

(* rd_kafka_idemp_pid_update(): a new pid, no message moves.               *)
LEMMA PidUpdateInv == ASSUME Inv, PidUpdate PROVE Inv'
  <1> DEFINE u == [p EXCEPT !.epoch = 0]
  <1>1. Quiet(p, u)
    BY Mine DEF Quiet, Sane, Fields
  <1> HIDE DEF u
  <1>2. Sane(u)
    BY <1>1 DEF Quiet, Sane
  <1>3. p' = SetState(u, "assigned")
    BY DEF PidUpdate, u
  <1>4. Quiet(u, p')
    BY <1>2, <1>3, SetStateQuiet
  <1>5. Quiet(p, p')
    BY <1>1, <1>4, QuietTrans
  <1>6. Threaded'
    BY DEF Inv, PidUpdate, Threaded, At, conn
  <1> QED BY <1>5, <1>6, QuietInv DEF PidUpdate, conn

(* What other partitions do may end a drain or start one.                  *)
LEMMA OtherInv == ASSUME Inv, OtherInflight \/ OtherDrained \/ OtherBump PROVE Inv'
  <1> DEFINE u == [p EXCEPT !.busy = FALSE]
             v == [p EXCEPT !.busy = TRUE]
  <1>1. Quiet(p, u) /\ Quiet(p, v)
    BY Mine DEF Quiet, Sane, Fields
  <1> HIDE DEF u, v
  <1>2. Sane(u) /\ Sane(p)
    BY <1>1, Mine DEF Quiet, Sane
  <1>3. Quiet(p, p')
    <2>1. CASE OtherInflight
      BY <1>1, <2>1 DEF OtherInflight, v
    <2>2. CASE OtherDrained
      <3>1. p' = CheckDrainDone(u, p.inflight > 0)
        BY <2>2 DEF OtherDrained, u
      <3>2. Quiet(u, p')
        BY <1>2, <3>1, CheckDrainDoneQuiet
      <3> QED BY <1>1, <3>2, QuietTrans
    <2>3. CASE OtherBump
      <3>1. p' = DrainEpochBump(p, p.inflight > 0)
        BY <2>3 DEF OtherBump
      <3> QED BY <1>2, <3>1, DrainQuiet
    <2> QED BY <2>1, <2>2, <2>3
  <1>4. UNCHANGED <<thread, outbufs, waitresp, tmpq, net, replies, brk>>
    BY DEF OtherInflight, OtherDrained, OtherBump, conn
  <1>5. Threaded'
    BY <1>4 DEF Inv, Threaded, At
  <1> QED BY <1>3, <1>4, <1>5, QuietInv

(* The main thread purges the partition queue and leaves the rest to the   *)
(* broker thread.                                                          *)
LEMMA PurgeTopparsInv == ASSUME Inv, PurgeToppars PROVE Inv'
  <1> DEFINE d == DrMsgq(p, p.msgq, FALSE)
  <1>1. p.msgq \in SUBSET Ids /\ Good(p, InRequest)
    BY Mine DEF Good, Typed
  <1>2. \A ok \in BOOLEAN :
           LET u == DrMsgq(p, p.msgq, ok)
           IN  /\ Typed(u)
               /\ u.msgid = p.msgid /\ u.msgq = p.msgq /\ u.xmit = p.xmit
               /\ u.status = p.status /\ u.inflight = p.inflight /\ u.pid = p.pid
               /\ \A m \in Ids : u.dr[m] = IF m \notin p.msgq THEN p.dr[m]
                                           ELSE IF ok THEN "delivered" ELSE p.status[m]
    BY <1>1, DrIs
  <1>3. /\ Typed(d)
        /\ d.msgid = p.msgid /\ d.msgq = p.msgq /\ d.xmit = p.xmit
        /\ d.status = p.status /\ d.inflight = p.inflight /\ d.pid = p.pid
        /\ \A m \in Ids : d.dr[m] = IF m \notin p.msgq THEN p.dr[m] ELSE p.status[m]
    BY <1>2, Zenon
  <1>4. p' = [d EXCEPT !.msgq = {}, !.purge = "broker"]
    BY DEF PurgeToppars
  <1> HIDE DEF d
  <1>5. /\ DOMAIN p' = Fields /\ p'.msgq = {} /\ p'.msgid = d.msgid /\ p'.xmit = d.xmit
        /\ p'.status = d.status /\ p'.dr = d.dr /\ p'.last = d.last
        /\ p'.inflight = d.inflight /\ p'.pid = d.pid /\ p'.base = d.base
        /\ p'.epoch = d.epoch /\ p'.nextAck = d.nextAck
    BY <1>3, <1>4 DEF Typed, Fields
  <1>6. Typed(p')
    BY <1>3, <1>5 DEF Typed
  <1>7. \A m \in Ids : p.status[m] = "no" \/ p.status[m] = "maybe"
    BY <1>1 DEF Good, Typed, Statuses
  <1>8. Placed(p', InRequest)
    BY <1>1, <1>3, <1>5, <1>7 DEF Good, Placed
  <1>9. Sincere(p')
    BY <1>1, <1>3, <1>5 DEF Good, Sincere
  <1>10. Firm(p, p')
    BY <1>1, <1>3, <1>5 DEF Good, Placed, Firm, Doubt
  <1>11. Threaded'
    BY DEF Inv, PurgeToppars, Threaded, At, conn
  <1>12. Good(p', InRequest) /\ p'.inflight = p.inflight
    BY <1>1, <1>3, <1>5, <1>6, <1>8, <1>9 DEF Good
  <1> QED BY <1>10, <1>11, <1>12, Mine, Frame DEF PurgeToppars, conn

(* rd_kafka_broker_handle_purge_queues(): the request in the output        *)
(* buffers and both queues are emptied into reports.                       *)
LEMMA HandlePurgeQueuesInv == ASSUME Inv, HandlePurgeQueues PROVE Inv'
  <1> DEFINE Q == InRequest \ OutMsgs
             a == PurgeOutbufs(p, "purge")
             ms == Queued(a)
             b == DrMsgq(Unqueue(a, ms), ms, FALSE)
             c == [b EXCEPT !.purge = "done"]
  <1>1. p' = c
    BY DEF HandlePurgeQueues
  <1>2. Good(a, Q) /\ a.inflight = Cardinality(Q) /\ Firm(p, a)
    BY Mine, PurgeOutbufsGood
  <1> HIDE DEF a, Q
  <1>3. ms \in SUBSET Queued(a)
    OBVIOUS
  <1> HIDE DEF ms
  <1>4. \A ok \in BOOLEAN :
           Good(DrMsgq(Unqueue(a, ms), ms, ok), Q) /\ Keeps(a, DrMsgq(Unqueue(a, ms), ms, ok))
    BY <1>2, <1>3, UnqueueGood
  <1>5. Good(b, Q) /\ Keeps(a, b)
    BY <1>4, Zenon
  <1> HIDE DEF b
  <1>6. Quiet(b, c)
    BY <1>5 DEF Good, Typed, Quiet, Fields
  <1> HIDE DEF c
  <1>7. Good(c, Q) /\ Keeps(b, c)
    BY <1>5, <1>6, QuietGood
  <1>8. Firm(p, c) /\ c.inflight = Cardinality(Q)
    BY <1>2, <1>5, <1>7, FirmTrans DEF Keeps
  <1>9. outbufs' = <<>> /\ UNCHANGED <<thread, waitresp, tmpq, net, replies, brk>> /\ At("idle")
    BY DEF HandlePurgeQueues, conn
  <1>10. InRequest' = Q
    BY <1>9, PurgedRequests DEF Q
  <1>11. Threaded'
    BY <1>9 DEF Inv, Threaded, At, Idle
  <1> QED BY <1>1, <1>7, <1>8, <1>9, <1>10, <1>11, PurgeFrame

(* A batch has at least one message and all of them are from the transmit  *)
(* queue.                                                                  *)
LEMMA BatchIs ==
    ASSUME NEW s, NEW R, Good(s, R), s.xmit # {}, NEW n \in 1..BatchMax
    PROVE  Batch(s, n) \subseteq s.xmit /\ Batch(s, n) # {}
  <1> DEFINE f == First(s.xmit)
             retried == s.last[f]
             limit == IF retried = 0 THEN n ELSE BatchMax
             before == {k \in s.xmit : k < f}
  <1>1. s.xmit \in SUBSET Ids
    BY DEF Good, Typed
  <1>2. f \in s.xmit /\ \A k \in s.xmit : f <= k
    BY <1>1, FirstIs
  <1>3. \A k \in s.xmit : k \in Int
    BY <1>1 DEF Ids
  <1>4. Cardinality(before) = 0
    <2>1. before = {}
      BY <1>2, <1>3
    <2> QED BY <2>1, FS_EmptySet
  <1>5. limit > 0
    BY PartitionAssumption
  <1>6. retried = 0 \/ f <= retried
    BY <1>1, <1>2 DEF Good, Typed, Extents
  <1>7. Batch(s, n) = {m \in s.xmit : /\ retried # 0 => m <= retried
                                      /\ Cardinality({k \in s.xmit : k < m}) < limit}
    BY DEF Batch
  <1> HIDE DEF limit, retried
  <1>8. f \in Batch(s, n)
    BY <1>2, <1>4, <1>5, <1>6, <1>7
  <1> QED BY <1>7, <1>8

(* rd_kafka_ProduceRequest(): the batch moves from the transmit queue to   *)
(* the output buffers and is counted in flight.                            *)
LEMMA ProduceRequestInv == ASSUME Inv, NEW n \in 1..BatchMax, ProduceRequest(n) PROVE Inv'
  <1> DEFINE pid == thread.pid
             s == Served(pid)
             b == Batch(s, n)
             r == Request(s, b)
  <1>1. pid \in Int /\ tmpq = <<>>
    BY DEF Inv, ProduceRequest, Threaded, At, Idle
  <1>2. /\ Good(s, Left(pid)) /\ s.inflight = Cardinality(Left(pid))
        /\ Firm(p, s)
    BY <1>1, ServedGood
  <1>3. MaySend(s, pid)
    BY DEF ProduceRequest
  <1>4. outbufs = <<>> /\ s.xmit # {}
    BY <1>3 DEF MaySend, Room
  <1>5. \/ /\ p' = [s EXCEPT !.xmit = @ \ b, !.inflight = @ + Cardinality(b)]
           /\ outbufs' = <<r>>
        \/ p' = SetFatal(s, "inconsistent") /\ outbufs' = outbufs
    BY DEF ProduceRequest
  <1>6. thread' = Idle /\ UNCHANGED <<waitresp, tmpq, net, replies, brk>>
    BY DEF ProduceRequest, conn
  <1> HIDE DEF s, pid
  <1>7. Left(pid) = InRequest
    BY <1>4 DEF Left, OutMsgs
  <1>8. Threaded'
    BY <1>1, <1>6 DEF Threaded, At, Idle
  <1>9. b \subseteq s.xmit /\ b # {}
    BY <1>2, <1>4, BatchIs
  <1> HIDE DEF b
  <1>10. CASE p' = SetFatal(s, "inconsistent") /\ outbufs' = outbufs
    <2>1. Sane(s)
      BY <1>2 DEF Good, Typed, Sane
    <2>2. Quiet(s, p')
      BY <1>10, <2>1, SetFatalQuiet
    <2>3. Good(p', InRequest) /\ Keeps(s, p')
      BY <1>2, <1>7, <2>2, QuietGood
    <2>4. Firm(p, p') /\ p'.inflight = Cardinality(InRequest)
      BY <1>2, <1>7, <2>3, FirmTrans DEF Keeps
    <2> QED BY <1>6, <1>8, <1>10, <2>3, <2>4, Frame
  <1>11. CASE /\ p' = [s EXCEPT !.xmit = @ \ b, !.inflight = @ + Cardinality(b)]
              /\ outbufs' = <<r>>
    <2> DEFINE Q == InRequest \cup b
    <2>1. s.xmit \in SUBSET Ids /\ InRequest \in SUBSET Ids /\ b \in SUBSET Ids
      BY <1>2, <1>9, Mine DEF Good, Typed
    <2>2. InRequest \cap b = {}
      BY <1>2, <1>7, <1>9, <2>1 DEF Good, Placed
    <2>3. r \in Req /\ r.msgs = b
      <3>1. First(b) \in Int
        <4>1. First(b) \in b
          BY <1>9, <2>1, FirstIs
        <4>2. \A k \in Ids : k \in Int
          BY DEF Ids
        <4> QED BY <2>1, <4>1, <4>2
      <3>2. Wrap(First(b) - s.base) \in Int /\ s.pid \in Int
        BY <1>2, <3>1, PartitionAssumption DEF Wrap, Good, Typed
      <3>3. b \in (SUBSET Ids) \ {{}}
        BY <1>9, <2>1
      <3> QED BY <3>2, <3>3 DEF Request, Req
    <2> HIDE DEF r
    <2>4. /\ DOMAIN p' = Fields /\ p'.xmit = s.xmit \ b
          /\ p'.inflight = s.inflight + Cardinality(b)
          /\ p'.msgid = s.msgid /\ p'.msgq = s.msgq /\ p'.status = s.status
          /\ p'.dr = s.dr /\ p'.last = s.last /\ p'.pid = s.pid /\ p'.base = s.base
          /\ p'.epoch = s.epoch /\ p'.nextAck = s.nextAck
      BY <1>2, <1>11 DEF Good, Typed, Fields
    <2>5. Typed(p')
      BY <1>2, <2>4 DEF Good, Typed
    <2>6. Placed(p', Q)
      BY <1>2, <1>7, <1>9, <2>1, <2>4 DEF Good, Placed
    <2>7. Sincere(p') /\ Firm(s, p')
      BY <1>2, <2>4 DEF Good, Sincere, Firm, Doubt
    <2>8. p'.inflight = Cardinality(Q)
      <3>1. IsFiniteSet(InRequest) /\ IsFiniteSet(b) /\ Cardinality(InRequest) \in Nat
              /\ Cardinality(b) \in Nat
        BY <2>1, FinitePart
      <3>2. Cardinality(Q) = Cardinality(InRequest) + Cardinality(b) - Cardinality(InRequest \cap b)
        BY <3>1, FS_Union, Zenon
      <3>3. Cardinality(InRequest \cap b) = 0
        BY <2>2, FS_EmptySet
      <3> QED BY <1>2, <1>7, <2>4, <3>1, <3>2, <3>3
    <2>9. \A m : InOut(m)' <=> m \in b
      BY <1>11, <2>3 DEF InOut
    <2>10. \A m : ~InOut(m) /\ (InWait(m)' <=> InWait(m)) /\ (InTmp(m)' <=> InTmp(m))
      BY <1>4, <1>6 DEF InOut, InWait, InTmp
    <2>11. InRequest' = Q
      BY <2>9, <2>10, InRequestIs, InRequestIsNext
    <2>12. Firm(p, p')
      BY <1>2, <2>7, FirmTrans
    <2>13. Honest'
      BY <1>6, <2>12, HonestFrame
    <2>14. Wires'
      BY <1>6, <1>11, <2>3 DEF Inv, Wires
    <2>15. Apart'
      <3>1. \A m \in Ids : ~(InOut(m)' /\ InWait(m)')
        BY <2>2, <2>9, <2>10, InRequestIs
      <3>2. Len(outbufs') <= 1
        BY <1>11
      <3> QED BY <1>6, <3>1, <3>2 DEF Inv, Apart, InWait
    <2>16. Owned'
      BY <2>1, <2>5, <2>6, <2>7, <2>8, <2>11 DEF Owned, Good
    <2> QED BY <1>8, <2>13, <2>14, <2>15, <2>16 DEF Inv
  <1> QED BY <1>5, <1>10, <1>11

(* rd_kafka_broker_send(): the request now waits for its response, and the *)
(* leader will get it.                                                     *)
LEMMA SendInv == ASSUME Inv, Send PROVE Inv'
  <1> DEFINE r == Head(outbufs)
             n == Len(waitresp)
  <1>1. /\ outbufs \in Seq(Req) /\ waitresp \in Seq(Req) /\ outbufs # <<>>
        /\ net \in [cur : Seq(Req), old : Seq(Req)] /\ replies \in Seq(Codes)
    BY DEF Inv, Wires, Send
  <1>2. /\ waitresp' = Append(waitresp, r) /\ outbufs' = Tail(outbufs)
        /\ net' = [net EXCEPT !.cur = Append(@, r)]
        /\ UNCHANGED <<p, thread, tmpq, replies, brk>> /\ At("idle")
    BY DEF Send
  <1>3. r \in Req /\ OutMsgs = r.msgs /\ r.msgs \in SUBSET Ids
    BY <1>1, OutMsgsIs DEF OutMsgs, Req
  <1>4. outbufs' = <<>>
    BY <1>1, <1>2 DEF Inv, Apart
  <1> HIDE DEF r
  <1>5. /\ waitresp' \in Seq(Req) /\ n \in Nat /\ Len(waitresp') = n + 1
        /\ waitresp'[n + 1] = r /\ \A i \in 1..n : waitresp'[i] = waitresp[i]
    BY <1>1, <1>2, <1>3
  <1>6. net'.cur = Append(net.cur, r) /\ net'.old = net.old
        /\ net' \in [cur : Seq(Req), old : Seq(Req)]
    <2> DEFINE q == Append(net.cur, r)
    <2>1. net.cur \in Seq(Req)
      BY <1>1
    <2>2. q \in Seq(Req)
      BY <1>3, <2>1
    <2>3. net' = [net EXCEPT !.cur = q]
      BY <1>2
    <2> HIDE DEF q
    <2>4. net'.cur = q /\ net'.old = net.old /\ net' \in [cur : Seq(Req), old : Seq(Req)]
      BY <1>1, <2>2, <2>3
    <2> QED BY <2>4 DEF q
  <1> HIDE DEF n
  <1>7. \A m : InWait(m)' <=> InWait(m) \/ m \in r.msgs
    BY <1>5 DEF InWait, n
  <1>8. \A m : ~InOut(m)' /\ (InTmp(m)' <=> InTmp(m))
    BY <1>2, <1>4 DEF InOut, InTmp
  <1>9. InRequest' = InRequest
    <2>1. InRequest \in SUBSET Ids /\ r.msgs \subseteq InRequest
      BY <1>3, Mine, OutMsgsIs
    <2>2. \A m \in InRequest : InOut(m) <=> m \in r.msgs
      BY <1>3, <2>1, OutMsgsIs
    <2> QED BY <1>7, <1>8, <2>1, <2>2, InRequestIs, InRequestIsNext
  <1>10. Owned'
    BY <1>2, <1>9 DEF Inv, Owned
  <1>11. Wires'
    <2>1. net.cur \in Seq(Req) /\ Len(net.cur) \in Nat /\ Len(replies) \in Nat
            /\ n = Len(replies) + Len(net.cur)
            /\ \A i \in 1..Len(net.cur) : net.cur[i] = waitresp[Len(replies) + i]
      BY <1>1 DEF Inv, Wires, n
    <2>2. Len(net'.cur) = Len(net.cur) + 1 /\ net'.cur[Len(net.cur) + 1] = r
            /\ \A i \in 1..Len(net.cur) : net'.cur[i] = net.cur[i]
      BY <1>3, <1>6, <2>1
    <2>3. \A i \in 1..Len(net'.cur) : net'.cur[i] = waitresp'[Len(replies) + i]
      <3>1. \A i \in 1..Len(net'.cur) : i \in 1..Len(net.cur) \/ i = Len(net.cur) + 1
        BY <2>1, <2>2
      <3>2. Len(replies) + (Len(net.cur) + 1) = n + 1
        BY <2>1
      <3>3. \A i \in 1..Len(net.cur) : Len(replies) + i \in 1..n
        BY <2>1
      <3> QED BY <1>5, <2>1, <2>2, <3>1, <3>2, <3>3
    <2>4. Len(waitresp') = Len(replies') + Len(net'.cur)
      BY <1>2, <1>5, <2>1, <2>2
    <2>5. outbufs' \in Seq(Req)
      BY <1>4
    <2>6. tmpq' \in Seq([req : Req, sent : BOOLEAN]) /\ replies' \in Seq(Codes)
      BY <1>2 DEF Inv, Wires
    <2> QED BY <1>2, <1>5, <1>6, <2>3, <2>4, <2>5, <2>6 DEF Wires
  <1>12. Threaded'
    BY <1>2 DEF Inv, Threaded, At, Idle
  <1>13. Apart'
    <2>1. \A i \in 1..n : waitresp[i].msgs \cap r.msgs = {}
      <3>1. \A m \in r.msgs : ~InWait(m)
        BY <1>3, OutMsgsIs
      <3> QED BY <3>1 DEF InWait, n
    <2>2. \A i, j \in 1..n : i # j => waitresp[i].msgs \cap waitresp[j].msgs = {}
      BY DEF Inv, Apart, n
    <2>3. \A i, j \in 1..(n + 1) : i # j => waitresp'[i].msgs \cap waitresp'[j].msgs = {}
      <3>1. \A i \in 1..(n + 1) : i \in 1..n \/ i = n + 1
        BY <1>5
      <3> QED BY <1>5, <2>1, <2>2, <3>1
    <2>4. Len(outbufs') <= 1
      BY <1>4
    <2> QED BY <1>2, <1>5, <1>8, <2>3, <2>4 DEF Inv, Apart
  <1>14. Honest'
    <2>1. \A m : Answered(m) => Answered(m)'
      <3>1. \A i \in 1..Len(replies) : i \in 1..n
        BY <1>1 DEF Inv, Wires, n
      <3> QED BY <1>2, <1>5, <3>1 DEF Answered
    <2> QED BY <1>2, <1>6, <2>1 DEF Inv, Honest, Doubt, Logged, Failing
  <1> QED BY <1>10, <1>11, <1>12, <1>13, <1>14 DEF Inv

(* rd_kafka_handle_Produce(): the answer to the oldest request ends it; a  *)
(* message the leader logged for it is delivered or in doubt.              *)
LEMMA HandleProduceInv == ASSUME Inv, HandleProduce PROVE Inv'
  <1> DEFINE r == Head(waitresp)
             e == Head(replies)
             n == Len(waitresp)
             k == Len(replies)
  <1>1. /\ waitresp \in Seq(Req) /\ replies \in Seq(Codes) /\ replies # <<>>
        /\ net.cur \in Seq(Req)
    BY DEF Inv, Wires, HandleProduce
  <1>2. /\ p' = HandleResult(p, r, e, TRUE)
        /\ waitresp' = Tail(waitresp) /\ replies' = Tail(replies)
        /\ UNCHANGED <<thread, outbufs, tmpq, net, brk>> /\ At("idle")
    BY DEF HandleProduce
  <1>3. /\ n \in Nat /\ k \in Nat /\ k > 0 /\ n >= k
    <2>1. k \in Nat /\ Len(net.cur) \in Nat /\ n = k + Len(net.cur)
      BY <1>1 DEF Inv, Wires
    <2>2. k # 0
      BY <1>1
    <2> HIDE DEF n, k
    <2> QED BY <2>1, <2>2
  <1>4. 1 \in 1..n /\ 1 \in 1..k
    BY <1>3
  <1>5. r = waitresp[1] /\ r \in Req /\ e = replies[1]
    BY <1>1, <1>4
  <1>6. /\ waitresp' \in Seq(Req) /\ Len(waitresp') = n - 1
        /\ \A i \in 1..(n - 1) : waitresp'[i] = waitresp[i + 1]
    BY <1>1, <1>2, <1>3
  <1>7. /\ replies' \in Seq(Codes) /\ Len(replies') = k - 1
        /\ \A i \in 1..(k - 1) : replies'[i] = replies[i + 1]
    BY <1>1, <1>2, <1>3
  <1>8. \A i \in 1..n : i = 1 \/ (i - 1 \in 1..(n - 1) /\ waitresp'[i - 1] = waitresp[i])
    BY <1>3, <1>6
  <1>9. \A i \in 1..k : i = 1 \/ (i - 1 \in 1..(k - 1) /\ replies'[i - 1] = replies[i])
    BY <1>3, <1>7
  <1>10. \A i, j \in 1..n : i # j => waitresp[i].msgs \cap waitresp[j].msgs = {}
    BY DEF Inv, Apart
  <1>11. tmpq = <<>>
    BY <1>2 DEF Inv, Threaded, At
  <1> HIDE DEF r, e, n, k
  <1>12. \A m : InWait(m)' <=> InWait(m) /\ m \notin r.msgs
    <2>1. \A m : InWait(m) <=> \E i \in 1..n : m \in waitresp[i].msgs
      BY DEF InWait, n
    <2>2. \A m : InWait(m)' <=> \E i \in 1..(n - 1) : m \in waitresp'[i].msgs
      BY <1>6 DEF InWait
    <2>3. \A i \in 1..(n - 1) : i + 1 \in 1..n /\ i + 1 # 1
      BY <1>3
    <2> QED BY <1>4, <1>5, <1>6, <1>8, <1>10, <2>1, <2>2, <2>3
  <1>13. \A m \in r.msgs : m \in Ids /\ InWait(m) /\ ~InOut(m) /\ ~InTmp(m)
    <2>1. \A m \in r.msgs : m \in Ids /\ InWait(m)
      BY <1>4, <1>5 DEF Req, InWait, n
    <2> QED BY <1>11, <2>1 DEF Inv, Apart, InTmp
  <1>14. InRequest' = InRequest \ r.msgs /\ r.msgs \subseteq InRequest
    <2>1. \A m : (InOut(m)' <=> InOut(m)) /\ (InTmp(m)' <=> InTmp(m))
      BY <1>2 DEF InOut, InTmp
    <2> QED BY <1>12, <1>13, <2>1, InRequestIs, InRequestIsNext
  <1>15. \A sent \in BOOLEAN :
            LET u == HandleResult(p, r, e, sent)
            IN  /\ Good(u, InRequest \ r.msgs) /\ u.inflight = Cardinality(InRequest \ r.msgs)
                /\ Firm(p, u)
                /\ e = "ok" \/ (sent /\ (e = "transport" \/ e = "afterappend")) =>
                      \A m \in r.msgs : Doubt(u, m)
    BY <1>5, <1>14, Mine, ResultGood
  <1>16. /\ Good(p', InRequest \ r.msgs) /\ p'.inflight = Cardinality(InRequest \ r.msgs)
         /\ Firm(p, p')
         /\ e = "ok" \/ e = "afterappend" => \A m \in r.msgs : Doubt(p', m)
    BY <1>2, <1>15, Zenon
  <1>17. Owned'
    BY <1>14, <1>16 DEF Owned
  <1>18. Wires'
    <2>1. Len(net.cur) \in Nat /\ n = k + Len(net.cur)
            /\ \A i \in 1..Len(net.cur) : net.cur[i] = waitresp[k + i]
      BY <1>1 DEF Inv, Wires, n, k
    <2>2. \A i \in 1..Len(net.cur) : net.cur[i] = waitresp'[(k - 1) + i]
      BY <1>3, <1>6, <2>1
    <2>3. n - 1 = (k - 1) + Len(net.cur)
      BY <1>3, <2>1
    <2> QED BY <1>2, <1>6, <1>7, <2>2, <2>3 DEF Inv, Wires
  <1>19. Threaded'
    BY <1>2 DEF Inv, Threaded, At, Idle
  <1>20. Apart'
    <2>1. \A i, j \in 1..(n - 1) : i # j => waitresp'[i].msgs \cap waitresp'[j].msgs = {}
      <3>1. \A i \in 1..(n - 1) : i + 1 \in 1..n
        BY <1>3
      <3>2. \A i, j \in 1..(n - 1) : i # j => i + 1 # j + 1
        BY <1>3
      <3> QED BY <1>6, <1>10, <3>1, <3>2
    <2>2. \A m \in Ids : ~(InOut(m)' /\ InWait(m)')
      BY <1>2, <1>12 DEF Inv, Apart, InOut
    <2> QED BY <1>2, <1>6, <2>1, <2>2 DEF Inv, Apart
  <1>21. Honest'
    <2>1. \A m \in Ids : Doubt(p, m) => Doubt(p', m)
      BY <1>16 DEF Firm
    <2>2. \A m : ~Failing(m)
      BY <1>11 DEF Failing
    <2>3. ASSUME NEW m \in Ids, Answered(m)
          PROVE  Doubt(p', m) \/ Answered(m)'
      <3>1. PICK i \in 1..k : m \in waitresp[i].msgs /\ replies[i] \in {"ok", "afterappend"}
        BY <2>3 DEF Answered, k
      <3>2. CASE i = 1
        BY <1>5, <1>16, <3>1, <3>2
      <3>3. CASE i # 1
        <4>1. i \in 1..n
          BY <1>3, <3>1
        <4>2. waitresp'[i - 1] = waitresp[i] /\ replies'[i - 1] = replies[i]
                /\ i - 1 \in 1..Len(replies')
          BY <1>7, <1>8, <1>9, <3>1, <3>3, <4>1
        <4> QED BY <3>1, <4>2 DEF Answered
      <3> QED BY <3>2, <3>3
    <2>4. \A m \in Ids : Logged(m)' => Doubt(p', m) \/ Answered(m)'
      BY <1>2, <2>1, <2>2, <2>3 DEF Inv, Honest, Logged
    <2>5. \A i \in 1..Len(net.old) : net.old[i].msgs \in SUBSET Ids
      <3>1. \A x \in Req : x.msgs \in SUBSET Ids
        BY DEF Req
      <3>2. net.old \in Seq(Req)
        BY DEF Inv, Wires
      <3>3. \A i \in 1..Len(net.old) : net.old[i] \in Req
        BY <3>2
      <3> QED BY <3>1, <3>3
    <2> QED BY <1>2, <2>1, <2>2, <2>4, <2>5 DEF Inv, Honest, Doubt
  <1> QED BY <1>17, <1>18, <1>19, <1>20, <1>21 DEF Inv

(* The elements of a concatenation.                                        *)
LEMMA ConcatIs ==
    ASSUME NEW S, NEW a \in Seq(S), NEW b \in Seq(S)
    PROVE  /\ a \o b \in Seq(S)
           /\ Len(a) \in Nat /\ Len(b) \in Nat /\ Len(a \o b) = Len(a) + Len(b)
           /\ \A i \in 1..Len(a) : (a \o b)[i] = a[i]
           /\ \A i \in 1..Len(b) : (a \o b)[Len(a) + i] = b[i]
  OBVIOUS

(* Each element of a sequence is one of its kind.                          *)
LEMMA SeqOf ==
    ASSUME NEW S, NEW n \in Nat, NEW f \in [1..n -> S]
    PROVE  f \in Seq(S) /\ Len(f) = n
  OBVIOUS

(* rd_kafka_broker_fail(): the requests that waited are failed as sent, so *)
(* that those the leader has, or will handle late, end in doubt.           *)
LEMMA BrokerFailInv == ASSUME Inv, BrokerFail PROVE Inv'
  <1> DEFINE T == [req : Req, sent : BOOLEAN]
             n == Len(waitresp)
             l == Len(outbufs)
             A == [i \in 1..n |-> [req |-> waitresp[i], sent |-> TRUE]]
             B == [i \in 1..l |-> [req |-> outbufs[i], sent |-> FALSE]]
  <1>1. /\ waitresp \in Seq(Req) /\ outbufs \in Seq(Req) /\ replies \in Seq(Codes)
        /\ net.cur \in Seq(Req) /\ net.old \in Seq(Req)
    BY DEF Inv, Wires
  <1>2. /\ tmpq' = A \o B
        /\ waitresp' = <<>> /\ outbufs' = <<>> /\ replies' = <<>>
        /\ thread' = [at |-> "fail"] /\ UNCHANGED <<p, brk>> /\ At("idle")
    BY DEF BrokerFail
  <1>3. PICK k \in 0..Len(net.cur) : net' = [cur |-> <<>>, old |-> net.old \o SubSeq(net.cur, 1, k)]
    BY DEF BrokerFail
  <1>4. n \in Nat /\ l \in Nat
    BY <1>1
  <1>5. tmpq = <<>>
    BY <1>2 DEF Inv, Threaded, At
  <1>6. (\A i \in 1..n : waitresp[i] \in Req) /\ (\A i \in 1..l : outbufs[i] \in Req)
    BY <1>1
  <1>7. l <= 1
    BY DEF Inv, Apart
  <1> HIDE DEF n, l
  <1>8. A \in Seq(T) /\ Len(A) = n /\ \A i \in 1..n : A[i] = [req |-> waitresp[i], sent |-> TRUE]
    <2>1. \A i \in 1..n : [req |-> waitresp[i], sent |-> TRUE] \in T
      BY <1>6
    <2>2. A \in [1..n -> T] /\ \A i \in 1..n : A[i] = [req |-> waitresp[i], sent |-> TRUE]
      BY <2>1
    <2> HIDE DEF A, T
    <2> QED BY <1>4, <2>2, SeqOf
  <1>9. B \in Seq(T) /\ Len(B) = l /\ \A i \in 1..l : B[i] = [req |-> outbufs[i], sent |-> FALSE]
    <2>1. \A i \in 1..l : [req |-> outbufs[i], sent |-> FALSE] \in T
      BY <1>6
    <2>2. B \in [1..l -> T] /\ \A i \in 1..l : B[i] = [req |-> outbufs[i], sent |-> FALSE]
      BY <2>1
    <2> HIDE DEF B, T
    <2> QED BY <1>4, <2>2, SeqOf
  <1> HIDE DEF A, B
  <1>10. /\ tmpq' \in Seq(T) /\ Len(tmpq') = n + l
         /\ \A i \in 1..n : tmpq'[i] = A[i]
         /\ \A i \in 1..l : tmpq'[n + i] = B[i]
    <2> HIDE DEF T
    <2> QED BY <1>2, <1>8, <1>9, ConcatIs
  <1>11. /\ \A i \in 1..n : tmpq'[i].req = waitresp[i] /\ tmpq'[i].sent
         /\ \A i \in 1..l : tmpq'[n + i].req = outbufs[i]
    BY <1>8, <1>9, <1>10
  <1>12. /\ \A i \in 1..n : i \in 1..Len(tmpq')
         /\ \A i \in 1..l : n + i \in 1..Len(tmpq')
         /\ \A i \in 1..Len(tmpq') : i \in 1..n \/ \E j \in 1..l : i = n + j
    <2>1. \A i \in 1..(n + l) : i \in 1..n \/ (i - n \in 1..l /\ i = n + (i - n))
      BY <1>4
    <2>2. /\ \A i \in 1..n : i \in 1..(n + l)
          /\ \A i \in 1..l : n + i \in 1..(n + l)
      BY <1>4
    <2> QED BY <1>10, <2>1, <2>2
  <1>13. \A m : InTmp(m)' <=> InWait(m) \/ InOut(m)
    <2>1. ASSUME NEW m, InTmp(m)' PROVE InWait(m) \/ InOut(m)
      <3>1. PICK i \in 1..Len(tmpq') : m \in tmpq'[i].req.msgs
        BY <2>1 DEF InTmp
      <3> QED BY <1>11, <1>12, <3>1 DEF InWait, InOut, n, l
    <2>2. ASSUME NEW m, InWait(m) PROVE InTmp(m)'
      BY <1>11, <1>12, <2>2 DEF InTmp, InWait, n
    <2>3. ASSUME NEW m, InOut(m) PROVE InTmp(m)'
      BY <1>11, <1>12, <2>3 DEF InTmp, InOut, l
    <2> QED BY <2>1, <2>2, <2>3
  <1>14. \A m : ~InOut(m)' /\ ~InWait(m)' /\ ~InTmp(m)
    BY <1>2, <1>5 DEF InOut, InWait, InTmp
  <1>15. InRequest' = InRequest
    BY <1>13, <1>14, InRequestIs, InRequestIsNext
  <1>16. Owned'
    BY <1>2, <1>15 DEF Inv, Owned
  <1>17. net' \in [cur : Seq(Req), old : Seq(Req)] /\ net'.cur = <<>>
         /\ net'.old = net.old \o SubSeq(net.cur, 1, k)
    <2> DEFINE q == net.old \o SubSeq(net.cur, 1, k)
    <2>1. k \in 0..Len(net.cur)
      BY <1>3
    <2>2. SubSeq(net.cur, 1, k) \in Seq(Req)
      BY <1>1, <2>1
    <2>3. q \in Seq(Req)
      BY <1>1, <2>2
    <2>4. net' = [cur |-> <<>>, old |-> q]
      BY <1>3
    <2> HIDE DEF q
    <2>5. net' \in [cur : Seq(Req), old : Seq(Req)] /\ net'.cur = <<>> /\ net'.old = q
      BY <2>3, <2>4
    <2> QED BY <2>5 DEF q
  <1>18. Wires'
    BY <1>2, <1>10, <1>17 DEF Wires
  <1>19. Threaded'
    BY <1>2 DEF Threaded, At
  <1>20. Apart'
    <2>1. \A i, j \in 1..n : i # j => waitresp[i].msgs \cap waitresp[j].msgs = {}
      BY DEF Inv, Apart, n
    <2>2. \A i \in 1..n, j \in 1..l : waitresp[i].msgs \cap outbufs[j].msgs = {}
      <3>1. \A i \in 1..n : \A m \in waitresp[i].msgs : m \in Ids /\ InWait(m)
        <4>1. \A i \in 1..n : waitresp[i].msgs \in SUBSET Ids
          BY <1>6 DEF Req
        <4> QED BY <4>1 DEF InWait, n
      <3>2. \A j \in 1..l : \A m \in outbufs[j].msgs : InOut(m)
        BY DEF InOut, l
      <3> QED BY <3>1, <3>2 DEF Inv, Apart
    <2>3. \A i, j \in 1..l : i = j
      BY <1>4, <1>7
    <2>4. ASSUME NEW i \in 1..Len(tmpq'), NEW j \in 1..Len(tmpq'), i # j
          PROVE  tmpq'[i].req.msgs \cap tmpq'[j].req.msgs = {}
      <3>1. CASE i \in 1..n /\ j \in 1..n
        BY <1>11, <2>1, <2>4, <3>1
      <3>2. CASE i \in 1..n /\ j \notin 1..n
        BY <1>11, <1>12, <2>2, <3>2
      <3>3. CASE i \notin 1..n /\ j \in 1..n
        BY <1>11, <1>12, <2>2, <3>3
      <3>4. CASE i \notin 1..n /\ j \notin 1..n
        BY <1>12, <2>3, <2>4, <3>4
      <3> QED BY <3>1, <3>2, <3>3, <3>4
    <2>5. Len(outbufs') <= 1 /\ Len(waitresp') = 0
      BY <1>2
    <2> QED BY <1>14, <2>4, <2>5 DEF Apart
  <1>21. Honest'
    <2>1. \A i \in 1..n : \A m \in waitresp[i].msgs : Failing(m)'
      BY <1>11, <1>12 DEF Failing
    <2>2. Len(replies) \in Nat /\ Len(net.cur) \in Nat /\ n = Len(replies) + Len(net.cur)
            /\ \A i \in 1..Len(net.cur) : net.cur[i] = waitresp[Len(replies) + i]
      BY <1>1 DEF Inv, Wires, n
    <2>3. \A m : Answered(m) => Failing(m)'
      <3>1. \A i \in 1..Len(replies) : i \in 1..n
        BY <2>2
      <3> QED BY <2>1, <3>1 DEF Answered
    <2>4. \A m : ~Failing(m)
      BY <1>5 DEF Failing
    <2>5. \A m \in Ids : Logged(m)' => Doubt(p, m)' \/ Failing(m)'
      BY <1>2, <2>3, <2>4 DEF Inv, Honest, Logged, Doubt
    <2>6. ASSUME NEW i \in 1..Len(net'.old), NEW m \in net'.old[i].msgs
          PROVE  Doubt(p, m)' \/ Failing(m)'
      <3> DEFINE o == Len(net.old)
                 c == SubSeq(net.cur, 1, k)
      <3>1. o \in Nat /\ k \in Nat /\ k <= Len(net.cur)
        BY <1>1, <1>3, <2>2
      <3>2. c \in Seq(Req) /\ Len(c) = k /\ \A j \in 1..k : c[j] = net.cur[j]
        BY <1>1, <3>1
      <3> HIDE DEF c
      <3>3. net'.old = net.old \o c
        BY <1>17 DEF c
      <3>4. /\ Len(net'.old) = o + k
            /\ \A j \in 1..o : net'.old[j] = net.old[j]
            /\ \A j \in 1..k : net'.old[o + j] = c[j]
        <4> DEFINE q == net.old
        <4>1. q \in Seq(Req) /\ c \in Seq(Req)
          BY <1>1, <3>2
        <4> HIDE DEF q
        <4>2. /\ Len(q \o c) = Len(q) + Len(c)
              /\ \A j \in 1..Len(q) : (q \o c)[j] = q[j]
              /\ \A j \in 1..Len(c) : (q \o c)[Len(q) + j] = c[j]
          BY <4>1, ConcatIs
        <4> QED BY <3>2, <3>3, <4>2 DEF q
      <3> HIDE DEF o
      <3>5. CASE i \in 1..o
        <4>1. m \in net.old[i].msgs
          BY <2>6, <3>4, <3>5
        <4> QED BY <1>2, <2>4, <3>5, <4>1 DEF Inv, Honest, Doubt, o
      <3>6. CASE i \notin 1..o
        <4>1. i - o \in 1..k /\ i = o + (i - o)
          BY <3>1, <3>4, <3>6
        <4>2. PICK j \in 1..k : i = o + j
          BY <4>1
        <4>3. j \in 1..Len(net.cur)
          BY <2>2, <3>1, <4>2
        <4>4. net'.old[i] = net.cur[j]
          BY <3>2, <3>4, <4>2
        <4>5. net.cur[j] = waitresp[Len(replies) + j] /\ Len(replies) + j \in 1..n
          BY <2>2, <4>3
        <4> QED BY <2>1, <2>6, <4>4, <4>5
      <3> QED BY <3>5, <3>6
    <2>7. DOMAIN brk' = {"log", "epoch", "next", "cache"} /\ brk'.log \in Seq(Entries)
            /\ brk'.epoch \in Int
      BY <1>2 DEF Inv, Honest
    <2> QED BY <2>5, <2>6, <2>7 DEF Honest
  <1> QED BY <1>16, <1>18, <1>19, <1>20, <1>21 DEF Inv

(* rd_kafka_bufq_purge(): one of the failed requests ends with a transport *)
(* error; if it was sent its messages are in doubt from now on.            *)
LEMMA BufqPurgeInv == ASSUME Inv, BufqPurge PROVE Inv'
  <1>1. CASE tmpq = <<>>
    <2>1. Quiet(p, p')
      BY <1>1, Mine, QuietRefl DEF BufqPurge, Sane
    <2>2. UNCHANGED <<outbufs, waitresp, tmpq, net, replies, brk>> /\ thread' = Idle
      BY <1>1 DEF BufqPurge
    <2>3. Threaded'
      BY <1>1, <2>2 DEF Threaded, At, Idle
    <2> QED BY <2>1, <2>2, <2>3, QuietInv
  <1>2. CASE tmpq # <<>>
    <2> DEFINE T == [req : Req, sent : BOOLEAN]
               x == Head(tmpq)
               r == x.req
               n == Len(tmpq)
    <2>1. tmpq \in Seq(T)
      BY DEF Inv, Wires
    <2>2. /\ p' = HandleResult(p, r, "transport", x.sent) /\ tmpq' = Tail(tmpq)
          /\ UNCHANGED <<thread, outbufs, waitresp, net, replies, brk>>
      BY <1>2 DEF BufqPurge
    <2> HIDE DEF T
    <2>3. n \in Nat /\ n # 0 /\ x = tmpq[1]
      BY <1>2, <2>1
    <2>4. 1 \in 1..n
      BY <2>3
    <2>5. x \in T
      BY <2>1, <2>3, <2>4
    <2>6. r \in Req /\ x.sent \in BOOLEAN
      BY <2>5 DEF T
    <2>7. /\ tmpq' \in Seq(T) /\ Len(tmpq') = n - 1
          /\ \A i \in 1..(n - 1) : tmpq'[i] = tmpq[i + 1]
      BY <1>2, <2>1, <2>2, <2>3
    <2>8. \A i \in 1..n : i = 1 \/ (i - 1 \in 1..(n - 1) /\ tmpq'[i - 1] = tmpq[i])
      BY <2>3, <2>7
    <2>9. \A i, j \in 1..n : i # j => tmpq[i].req.msgs \cap tmpq[j].req.msgs = {}
      BY DEF Inv, Apart
    <2>10. outbufs = <<>> /\ waitresp = <<>>
      BY <1>2 DEF Inv, Threaded
    <2>11. r = tmpq[1].req /\ (x.sent <=> tmpq[1].sent)
      BY <2>3
    <2> HIDE DEF r, x, n
    <2>12. \A m : InTmp(m)' <=> InTmp(m) /\ m \notin r.msgs
      <3>1. \A m : InTmp(m) <=> \E i \in 1..n : m \in tmpq[i].req.msgs
        BY DEF InTmp, n
      <3>2. \A m : InTmp(m)' <=> \E i \in 1..(n - 1) : m \in tmpq'[i].req.msgs
        BY <2>7 DEF InTmp
      <3>3. \A i \in 1..(n - 1) : i + 1 \in 1..n /\ i + 1 # 1
        BY <2>3
      <3> QED BY <2>4, <2>7, <2>8, <2>9, <2>11, <3>1, <3>2, <3>3
    <2>13. \A m : ~InOut(m) /\ ~InWait(m) /\ ~InOut(m)' /\ ~InWait(m)'
      BY <2>2, <2>10 DEF InOut, InWait
    <2>14. \A m \in r.msgs : InTmp(m)
      BY <2>4, <2>11 DEF InTmp, n
    <2>15. InRequest' = InRequest \ r.msgs /\ r.msgs \subseteq InRequest
      BY <2>12, <2>13, <2>14, InRequestIs, InRequestIsNext
    <2>16. \A sent \in BOOLEAN :
              LET u == HandleResult(p, r, "transport", sent)
              IN  /\ Good(u, InRequest \ r.msgs) /\ u.inflight = Cardinality(InRequest \ r.msgs)
                  /\ Firm(p, u)
                  /\ sent => \A m \in r.msgs : Doubt(u, m)
      BY <2>6, <2>15, Mine, ResultGood
    <2>17. /\ Good(p', InRequest \ r.msgs) /\ p'.inflight = Cardinality(InRequest \ r.msgs)
           /\ Firm(p, p')
           /\ x.sent => \A m \in r.msgs : Doubt(p', m)
      BY <2>2, <2>6, <2>16, Zenon
    <2>18. Owned'
      BY <2>15, <2>17 DEF Owned
    <2>19. Wires'
      BY <2>2, <2>7 DEF Inv, Wires, T
    <2>20. Threaded'
      BY <1>2, <2>2 DEF Inv, Threaded, At
    <2>21. Apart'
      <3>1. \A i, j \in 1..(n - 1) : i # j => tmpq'[i].req.msgs \cap tmpq'[j].req.msgs = {}
        <4>1. \A i \in 1..(n - 1) : i + 1 \in 1..n
          BY <2>3
        <4>2. \A i, j \in 1..(n - 1) : i # j => i + 1 # j + 1
          BY <2>3
        <4> QED BY <2>7, <2>9, <4>1, <4>2
      <3> QED BY <2>2, <2>7, <2>13, <3>1 DEF Inv, Apart
    <2>22. Honest'
      <3>1. \A m \in Ids : Doubt(p, m) => Doubt(p', m)
        BY <2>17 DEF Firm
      <3>2. ASSUME NEW m \in Ids, Failing(m)
            PROVE  Doubt(p', m) \/ Failing(m)'
        <4>1. PICK i \in 1..n : m \in tmpq[i].req.msgs /\ tmpq[i].sent
          BY <3>2 DEF Failing, n
        <4>2. CASE i = 1
          BY <2>11, <2>17, <4>1, <4>2
        <4>3. CASE i # 1
          <5>1. tmpq'[i - 1] = tmpq[i] /\ i - 1 \in 1..Len(tmpq')
            BY <2>7, <2>8, <4>1, <4>3
          <5> QED BY <4>1, <5>1 DEF Failing
        <4> QED BY <4>2, <4>3
      <3>3. \A m : Answered(m)' <=> Answered(m)
        BY <2>2 DEF Answered
      <3>4. \A m \in Ids : Logged(m)' => Doubt(p', m) \/ Answered(m)' \/ Failing(m)'
        BY <2>2, <3>1, <3>2, <3>3 DEF Inv, Honest, Logged
      <3>5. \A i \in 1..Len(net.old) : net.old[i].msgs \in SUBSET Ids
        <4>1. \A y \in Req : y.msgs \in SUBSET Ids
          BY DEF Req
        <4>2. net.old \in Seq(Req)
          BY DEF Inv, Wires
        <4>3. \A i \in 1..Len(net.old) : net.old[i] \in Req
          BY <4>2
        <4> QED BY <4>1, <4>3
      <3> QED BY <2>2, <3>1, <3>2, <3>4, <3>5 DEF Inv, Honest, Doubt
    <2> QED BY <2>18, <2>19, <2>20, <2>21, <2>22 DEF Inv
  <1> QED BY <1>1, <1>2

-----------------------------------------------------------------------------
(* The leader.                                                             *)

(* The messages of a batch, in order, are the messages of the batch.       *)
LEMMA SortedSeqIs ==
    ASSUME NEW S \in SUBSET Ids
    PROVE  SortedSeq(S) \in Seq(S)
  <1> DEFINE n == Cardinality(S)
             Upto(m) == {k \in S : k <= m}
             rank == [m \in S |-> Cardinality(Upto(m))]
  <1>1. IsFiniteSet(S) /\ n \in Nat
    BY FinitePart
  <1>2. S \subseteq Int
    BY DEF Ids
  <1>3. \A m \in S : IsFiniteSet(Upto(m)) /\ Cardinality(Upto(m)) \in Nat /\ Cardinality(Upto(m)) <= n
    <2> TAKE m \in S
    <2>1. Upto(m) \in SUBSET S
      OBVIOUS
    <2> HIDE DEF Upto
    <2> QED BY <1>1, <2>1, FS_Subset, FS_CardinalityType
  <1>4. \A m \in S : Cardinality(Upto(m)) >= 1
    <2> TAKE m \in S
    <2>1. m \in Upto(m)
      BY <1>2
    <2>2. Cardinality(Upto(m)) # 0
      BY <1>3, <2>1, FS_EmptySet
    <2> QED BY <1>3, <2>2
  <1>5. rank \in [S -> 1..n]
    BY <1>1, <1>3, <1>4
  <1>6. \A m, k \in S : m < k => Cardinality(Upto(m)) # Cardinality(Upto(k))
    <2> SUFFICES ASSUME NEW m \in S, NEW k \in S, m < k, Cardinality(Upto(m)) = Cardinality(Upto(k))
                 PROVE  FALSE
      OBVIOUS
    <2>a. m \in Int /\ k \in Int /\ \A j \in S : j \in Int
      BY <1>2
    <2>b. k \in Upto(k) /\ k \notin Upto(m)
      BY <2>a
    <2>c. \A j \in S : j <= m => j <= k
      BY <2>a
    <2>1. Upto(m) \in SUBSET Upto(k) /\ k \in Upto(k) /\ k \notin Upto(m)
      BY <2>b, <2>c
    <2>2. IsFiniteSet(Upto(k))
      BY <1>3
    <2> HIDE DEF Upto
    <2>3. Upto(k) = Upto(m)
      BY <2>1, <2>2, FS_Subset
    <2> QED BY <2>1, <2>3
  <1>7. rank \in Injection(S, 1..n)
    <2>1. \A m, k \in S : rank[m] = rank[k] => m = k
      BY <1>2, <1>6
    <2> HIDE DEF rank
    <2> QED BY <1>5, <2>1 DEF Injection, IsInjective
  <1>8. IsFiniteSet(1..n) /\ Cardinality(1..n) = n
    BY <1>1, FS_Interval
  <1>9. rank \in Surjection(S, 1..n)
    <2> HIDE DEF rank
    <2> QED BY <1>7, <1>8, FS_Injection
  <1>10. \A i \in 1..n : \E m \in S : Cardinality(Upto(m)) = i
    BY <1>9 DEF Surjection
  <1>11. SortedSeq(S) = [i \in 1..n |-> CHOOSE m \in S : Cardinality(Upto(m)) = i]
    BY DEF SortedSeq
  <1>12. \A i \in 1..n : (CHOOSE m \in S : Cardinality(Upto(m)) = i) \in S
    BY <1>10
  <1> HIDE DEF n, Upto
  <1>13. SortedSeq(S) \in [1..n -> S]
    BY <1>11, <1>12
  <1> QED BY <1>1, <1>13, SeqOf

(* The leader appends a request's messages only when it answers that it    *)
(* did, or answers with an error after the append.                         *)
LEMMA HandleIs ==
    ASSUME Inv, NEW r \in Req, Handle(r)
    PROVE  /\ DOMAIN brk' = {"log", "epoch", "next", "cache"}
           /\ brk'.log \in Seq(Entries) /\ brk'.epoch \in Int
           /\ Code(r) \in Codes
           /\ \A m \in Ids : Logged(m)' => Logged(m) \/ m \in r.msgs
           /\ \A m \in Ids : Logged(m)' => Logged(m) \/ Code(r) = "ok"
  <1>1. DOMAIN brk = {"log", "epoch", "next", "cache"} /\ brk.log \in Seq(Entries)
    BY DEF Inv, Honest
  <1>a. brk.epoch \in Int /\ r.pid \in Int
    BY DEF Inv, Honest, Req
  <1>b. Code(r) \in Codes
    <2>1. Verdict(r) \in Codes \cup {"append"}
      BY <1>a DEF Verdict, Known, Codes
    <2> QED BY <2>1 DEF Code, Codes
  <1>2. CASE Verdict(r) # "append"
    <2>1. brk' = brk
      BY <1>2 DEF Handle
    <2> QED BY <1>1, <1>a, <1>b, <2>1 DEF Logged
  <1>3. CASE Verdict(r) = "append"
    <2> DEFINE new == SortedSeq(r.msgs)
               n == Len(new)
               add == [i \in 1..n |-> [id |-> new[i], epoch |-> r.pid, seq |-> r.seq]]
               old == brk.log
               l == Len(old)
    <2>1. r.msgs \in SUBSET Ids /\ r.pid \in Int /\ r.seq \in Int
      BY DEF Req
    <2>2. new \in Seq(r.msgs)
      BY <2>1, SortedSeqIs
    <2>3. /\ brk'.log = old \o add /\ brk'.epoch = r.pid
          /\ DOMAIN brk' = {"log", "epoch", "next", "cache"}
      BY <1>3 DEF Handle, Append1
    <2>a. old \in Seq(Entries)
      BY <1>1
    <2>b. \A m : Logged(m) <=> \E i \in 1..l : old[i].id = m
      BY DEF Logged
    <2> HIDE DEF new, old
    <2>4. n \in Nat /\ \A i \in 1..n : new[i] \in r.msgs
      BY <2>2
    <2>5. add \in [1..n -> Entries] /\ \A i \in 1..n : add[i].id \in r.msgs
      BY <2>1, <2>4 DEF Entries
    <2> HIDE DEF add, n
    <2>6. add \in Seq(Entries) /\ Len(add) = n
      BY <2>4, <2>5, SeqOf
    <2>7. /\ old \o add \in Seq(Entries) /\ l \in Nat /\ Len(old \o add) = l + Len(add)
          /\ \A i \in 1..l : (old \o add)[i] = old[i]
          /\ \A i \in 1..Len(add) : (old \o add)[l + i] = add[i]
      <3>1. add \in Seq(Entries)
        BY <2>6
      <3> QED BY <2>a, <3>1, ConcatIs
    <2>8. ASSUME NEW m \in Ids, Logged(m)' PROVE Logged(m) \/ m \in r.msgs
      <3>1. PICK i \in 1..(l + n) : (old \o add)[i].id = m
        BY <2>3, <2>6, <2>7, <2>8 DEF Logged
      <3>2. CASE i \in 1..l
        BY <2>7, <2>b, <3>1, <3>2
      <3>3. CASE i \notin 1..l
        <4>1. i - l \in 1..n /\ i = l + (i - l)
          BY <2>4, <2>7, <3>1, <3>3
        <4>2. PICK j \in 1..n : i = l + j
          BY <4>1
        <4> QED BY <2>5, <2>6, <2>7, <3>1, <4>2
      <3> QED BY <3>2, <3>3
    <2>9. Code(r) = "ok"
      BY <1>3 DEF Code
    <2> QED BY <1>a, <1>b, <2>3, <2>7, <2>8, <2>9
  <1> QED BY <1>2, <1>3

(* The leader handles a request of the present connection: the answer      *)
(* tells what it appended.                                                 *)
LEMMA LeaderHandlesInv == ASSUME Inv, LeaderHandles PROVE Inv'
  <1> DEFINE q == net.cur
             r == Head(q)
             k == Len(replies)
             n == Len(waitresp)
  <1>1. /\ net \in [cur : Seq(Req), old : Seq(Req)] /\ replies \in Seq(Codes) /\ q # <<>>
        /\ waitresp \in Seq(Req)
    BY DEF Inv, Wires, LeaderHandles
  <1>2. /\ net' = [net EXCEPT !.cur = Tail(@)]
        /\ UNCHANGED <<p, thread, outbufs, waitresp, tmpq>>
    BY DEF LeaderHandles
  <1>3. q \in Seq(Req) /\ net.old \in Seq(Req) /\ k \in Nat
    BY <1>1
  <1>4. n = k + Len(q) /\ \A i \in 1..Len(q) : q[i] = waitresp[k + i]
    BY DEF Inv, Wires
  <1>5. net'.cur = Tail(q) /\ net'.old = net.old /\ net' \in [cur : Seq(Req), old : Seq(Req)]
    <2> DEFINE t == Tail(q)
    <2>1. t \in Seq(Req)
      BY <1>1, <1>3
    <2>2. net' = [net EXCEPT !.cur = t]
      BY <1>2
    <2> HIDE DEF t
    <2>3. net'.cur = t /\ net'.old = net.old /\ net' \in [cur : Seq(Req), old : Seq(Req)]
      BY <1>1, <2>1, <2>2
    <2> QED BY <2>3 DEF t
  <1>6. PICK c \in Codes :
           /\ replies' = Append(replies, c)
           /\ \/ brk' = brk
              \/ Handle(r) /\ (c = Code(r) \/ (c = "afterappend" /\ Code(r) = "ok"))
    <2>1. r \in Req
      BY <1>1, <1>3
    <2>2. CASE Handle(r) /\ replies' = Append(replies, Code(r))
      BY <2>1, <2>2, HandleIs
    <2>3. CASE \E e \in {"notleader", "notenough", "denied"} :
                  replies' = Append(replies, e) /\ UNCHANGED brk
      BY <2>3 DEF Codes
    <2>4. CASE Code(r) = "ok" /\ Handle(r) /\ replies' = Append(replies, "afterappend")
      BY <2>4 DEF Codes
    <2> QED BY <2>2, <2>3, <2>4 DEF LeaderHandles
  <1> HIDE DEF q
  <1>7. Len(q) \in Nat /\ Len(q) # 0
    BY <1>1, <1>3
  <1>8. 1 \in 1..Len(q) /\ r = q[1]
    BY <1>1, <1>3, <1>7
  <1>9. r \in Req
    BY <1>3, <1>8
  <1>10. r = waitresp[k + 1]
    BY <1>4, <1>8
  <1> HIDE DEF r, n
  <1>11. /\ replies' \in Seq(Codes) /\ Len(replies') = k + 1 /\ replies'[k + 1] = c
         /\ \A i \in 1..k : replies'[i] = replies[i]
    BY <1>1, <1>6
  <1> HIDE DEF k
  <1>12. InRequest' = InRequest
    BY <1>2 DEF InRequest, Requests
  <1>13. Owned'
    BY <1>2, <1>12 DEF Inv, Owned
  <1>14. Wires'
    <2>1. Len(net'.cur) = Len(q) - 1 /\ \A i \in 1..(Len(q) - 1) : net'.cur[i] = q[i + 1]
      BY <1>1, <1>3, <1>5, <1>7
    <2>2. \A i \in 1..(Len(q) - 1) : i + 1 \in 1..Len(q) /\ k + (i + 1) = (k + 1) + i
      BY <1>3, <1>7
    <2>3. \A i \in 1..Len(net'.cur) : net'.cur[i] = waitresp'[Len(replies') + i]
      BY <1>2, <1>4, <1>11, <2>1, <2>2
    <2>4. Len(waitresp') = Len(replies') + Len(net'.cur)
      BY <1>2, <1>3, <1>4, <1>7, <1>11, <2>1 DEF n
    <2> QED BY <1>2, <1>5, <1>11, <2>3, <2>4 DEF Inv, Wires
  <1>15. ~At("fail")
    <2>1. n # 0
      BY <1>3, <1>4, <1>7
    <2> QED BY <2>1 DEF Inv, Threaded, n
  <1>16. Threaded'
    BY <1>2, <1>15 DEF Inv, Threaded, At
  <1>17. Apart'
    BY <1>2 DEF Inv, Apart, InOut, InWait
  <1>18. Honest'
    <2>1. \A m : (Failing(m)' <=> Failing(m)) /\ (Doubt(p, m)' <=> Doubt(p, m))
      BY <1>2 DEF Failing, Doubt
    <2>2. /\ \A i \in 1..k : i \in 1..(k + 1)
          /\ k + 1 \in 1..(k + 1)
      BY <1>3
    <2>3. \A m : Answered(m) => Answered(m)'
      BY <1>2, <1>11, <2>2 DEF Answered, k
    <2>4. \A m \in r.msgs : c \in {"ok", "afterappend"} => Answered(m)'
      BY <1>2, <1>10, <1>11, <2>2 DEF Answered
    <2>5. \A i \in 1..Len(net'.old) : \A m \in net'.old[i].msgs : Doubt(p, m)' \/ Failing(m)'
      BY <1>5, <2>1 DEF Inv, Honest
    <2>6. CASE brk' = brk
      <3>1. \A m \in Ids : Logged(m)' => Doubt(p, m)' \/ Answered(m)' \/ Failing(m)'
        BY <2>1, <2>3, <2>6 DEF Inv, Honest, Logged
      <3> QED BY <2>5, <2>6, <3>1 DEF Inv, Honest
    <2>7. CASE Handle(r) /\ (c = Code(r) \/ (c = "afterappend" /\ Code(r) = "ok"))
      <3>1. /\ DOMAIN brk' = {"log", "epoch", "next", "cache"}
            /\ brk'.log \in Seq(Entries) /\ brk'.epoch \in Int
            /\ \A m \in Ids : Logged(m)' => Logged(m) \/ m \in r.msgs
            /\ \A m \in Ids : Logged(m)' => Logged(m) \/ Code(r) = "ok"
        BY <1>9, <2>7, HandleIs
      <3>2. \A m \in Ids : Logged(m)' => Doubt(p, m)' \/ Answered(m)' \/ Failing(m)'
        BY <2>1, <2>3, <2>4, <2>7, <3>1 DEF Inv, Honest
      <3> QED BY <2>5, <3>1, <3>2 DEF Honest
    <2> QED BY <1>6, <2>6, <2>7
  <1> QED BY <1>13, <1>14, <1>16, <1>17, <1>18 DEF Inv

(* The leader handles a request of a lost connection: whatever it appends  *)
(* was in doubt before.                                                    *)
LEMMA LeaderHandlesOldInv == ASSUME Inv, LeaderHandlesOld PROVE Inv'
  <1> DEFINE q == net.old
             r == Head(q)
  <1>1. net \in [cur : Seq(Req), old : Seq(Req)] /\ q # <<>>
    BY DEF Inv, Wires, LeaderHandlesOld
  <1>2. /\ net' = [net EXCEPT !.old = Tail(@)] /\ Handle(r)
        /\ UNCHANGED <<p, thread, outbufs, waitresp, tmpq, replies>>
    BY DEF LeaderHandlesOld
  <1>3. q \in Seq(Req)
    BY <1>1
  <1>4. net'.old = Tail(q) /\ net'.cur = net.cur /\ net' \in [cur : Seq(Req), old : Seq(Req)]
    <2> DEFINE t == Tail(q)
    <2>1. t \in Seq(Req)
      BY <1>1, <1>3
    <2>2. net' = [net EXCEPT !.old = t]
      BY <1>2
    <2> HIDE DEF t
    <2>3. net'.old = t /\ net'.cur = net.cur /\ net' \in [cur : Seq(Req), old : Seq(Req)]
      BY <1>1, <2>1, <2>2
    <2> QED BY <2>3 DEF t
  <1>5. \A i \in 1..Len(q) : \A m \in q[i].msgs : Doubt(p, m) \/ Failing(m)
    BY DEF Inv, Honest
  <1> HIDE DEF q
  <1>6. Len(q) \in Nat /\ Len(q) # 0
    BY <1>1, <1>3
  <1>7. 1 \in 1..Len(q) /\ r = q[1]
    BY <1>1, <1>3, <1>6
  <1>8. r \in Req
    BY <1>3, <1>7
  <1> HIDE DEF r
  <1>9. InRequest' = InRequest
    BY <1>2 DEF InRequest, Requests
  <1>10. Owned' /\ Threaded'
    BY <1>2, <1>9 DEF Inv, Owned, Threaded, At
  <1>11. Wires' /\ Apart'
    BY <1>2, <1>4 DEF Inv, Wires, Apart, InOut, InWait
  <1>12. Honest'
    <2>1. \A m : /\ Failing(m)' <=> Failing(m)
                 /\ Doubt(p, m)' <=> Doubt(p, m)
                 /\ Answered(m)' <=> Answered(m)
      BY <1>2 DEF Failing, Doubt, Answered
    <2>2. /\ DOMAIN brk' = {"log", "epoch", "next", "cache"}
          /\ brk'.log \in Seq(Entries) /\ brk'.epoch \in Int
          /\ \A m \in Ids : Logged(m)' => Logged(m) \/ m \in r.msgs
      BY <1>2, <1>8, HandleIs
    <2>3. \A m \in Ids : Logged(m)' => Doubt(p, m)' \/ Answered(m)' \/ Failing(m)'
      BY <1>5, <1>7, <2>1, <2>2 DEF Inv, Honest
    <2>4. \A i \in 1..Len(net'.old) : \A m \in net'.old[i].msgs : Doubt(p, m)' \/ Failing(m)'
      <3>1. Len(net'.old) = Len(q) - 1 /\ \A i \in 1..(Len(q) - 1) : net'.old[i] = q[i + 1]
        BY <1>1, <1>3, <1>4, <1>6
      <3>2. \A i \in 1..(Len(q) - 1) : i + 1 \in 1..Len(q)
        BY <1>6
      <3> QED BY <1>5, <2>1, <3>1, <3>2
    <2> QED BY <2>2, <2>3, <2>4 DEF Honest
  <1> QED BY <1>10, <1>11, <1>12 DEF Inv

(* The leader forgets the producer's state: the log remains.               *)
LEMMA LeaderForgetsInv == ASSUME Inv, LeaderForgets PROVE Inv'
  <1>1. UNCHANGED <<p, thread, outbufs, waitresp, tmpq, net, replies>>
    BY DEF LeaderForgets, conn
  <1>2. /\ DOMAIN brk' = {"log", "epoch", "next", "cache"}
        /\ brk'.log = brk.log /\ brk'.epoch \in Int
    BY DEF Inv, Honest, LeaderForgets, NoPid
  <1>3. InRequest' = InRequest
    BY <1>1 DEF InRequest, Requests
  <1>4. Owned' /\ Threaded' /\ Wires' /\ Apart'
    BY <1>1, <1>3 DEF Inv, Owned, Threaded, At, Wires, Apart, InOut, InWait
  <1>5. Honest'
    BY <1>1, <1>2 DEF Inv, Honest, Logged, Doubt, Answered, Failing
  <1> QED BY <1>4, <1>5 DEF Inv

-----------------------------------------------------------------------------
(* Every step keeps the invariant.                                         *)
LEMMA NextInv == Inv /\ [Next]_vars => Inv'
  <1> SUFFICES ASSUME Inv, [Next]_vars PROVE Inv'
    OBVIOUS
  <1>1. CASE BrokerThread
    BY <1>1, ProduceTopparsInv, ServeInv, ProduceRequestInv, MsgqScanInv, SendInv,
       HandleProduceInv, BrokerFailInv, BufqPurgeInv, ConnectInv, HandlePurgeQueuesInv
       DEF BrokerThread, SendRequest, ScanTimeouts
  <1>2. CASE OtherThreads
    BY <1>2, EnqMsgInv, PidUpdateInv, PurgeTopparsInv, OtherInv DEF OtherThreads
  <1>3. CASE Leader
    BY <1>3, LeaderHandlesInv, LeaderHandlesOldInv, LeaderForgetsInv DEF Leader
  <1>4. CASE UNCHANGED vars
    <2>1. UNCHANGED <<p, thread, outbufs, waitresp, tmpq, net, replies, brk>>
      BY <1>4 DEF vars, conn
    <2>2. Quiet(p, p')
      BY <2>1, Mine, QuietRefl
    <2>3. Threaded'
      BY <2>1 DEF Inv, Threaded, At
    <2> QED BY <2>1, <2>2, <2>3, QuietInv
  <1> QED BY <1>1, <1>2, <1>3, <1>4 DEF Next

(* The invariant places every message once: the places are disjoint and    *)
(* their sizes add up.                                                     *)
LEMMA InvConserved == Inv => Conserved
  <1> SUFFICES ASSUME Inv PROVE Conserved
    OBVIOUS
  <1> DEFINE A == p.msgq
             B == p.xmit
             C == InRequest
             D == Reported
  <1>1. Good(p, C) /\ p.inflight = Cardinality(C)
    BY Mine
  <1>2. /\ A \in SUBSET Ids /\ B \in SUBSET Ids /\ C \in SUBSET Ids /\ D \in SUBSET Ids
        /\ p.msgid \in 0..MaxMsgs
    BY <1>1 DEF Good, Typed, Reported
  <1>3. /\ A \cap B = {} /\ (A \cup B) \cap C = {} /\ ((A \cup B) \cup C) \cap D = {}
    BY <1>1, <1>2 DEF Good, Placed, Reported
  <1>4. 1..p.msgid = ((A \cup B) \cup C) \cup D
    <2>1. \A m : m \in 1..p.msgid <=> m \in Ids /\ m <= p.msgid
      BY <1>2, PartitionAssumption DEF Ids
    <2>2. \A m \in Ids : m <= p.msgid <=> m \in A \/ m \in B \/ m \in C \/ m \in D
      BY <1>1 DEF Good, Placed, Reported
    <2> QED BY <1>2, <2>1, <2>2
  <1>5. p.msgid = Cardinality(A) + Cardinality(B) + Cardinality(C) + Cardinality(D)
    <2> HIDE DEF A, B, C, D
    <2>1. /\ IsFiniteSet(A) /\ IsFiniteSet(B) /\ IsFiniteSet(C) /\ IsFiniteSet(D)
          /\ Cardinality(A) \in Nat /\ Cardinality(B) \in Nat
          /\ Cardinality(C) \in Nat /\ Cardinality(D) \in Nat
      BY <1>2, FinitePart
    <2>2. \A X, Y : IsFiniteSet(X) /\ IsFiniteSet(Y) /\ X \cap Y = {} /\ Cardinality(X) \in Nat
                      /\ Cardinality(Y) \in Nat
                    => /\ IsFiniteSet(X \cup Y)
                       /\ Cardinality(X \cup Y) = Cardinality(X) + Cardinality(Y)
                       /\ Cardinality(X \cup Y) \in Nat
      <3> TAKE X, Y
      <3> HAVE IsFiniteSet(X) /\ IsFiniteSet(Y) /\ X \cap Y = {} /\ Cardinality(X) \in Nat
                 /\ Cardinality(Y) \in Nat
      <3>1. IsFiniteSet(X \cup Y)
              /\ Cardinality(X \cup Y) = Cardinality(X) + Cardinality(Y) - Cardinality(X \cap Y)
        BY FS_Union, Zenon
      <3>2. Cardinality(X \cap Y) = 0
        BY FS_EmptySet
      <3> QED BY <3>1, <3>2
    <2>3. /\ IsFiniteSet(A \cup B)
          /\ Cardinality(A \cup B) = Cardinality(A) + Cardinality(B)
          /\ Cardinality(A \cup B) \in Nat
      BY <1>3, <2>1, <2>2
    <2>4. /\ IsFiniteSet((A \cup B) \cup C)
          /\ Cardinality((A \cup B) \cup C) = Cardinality(A \cup B) + Cardinality(C)
          /\ Cardinality((A \cup B) \cup C) \in Nat
      BY <1>3, <2>1, <2>2, <2>3
    <2>5. Cardinality(((A \cup B) \cup C) \cup D) = Cardinality((A \cup B) \cup C) + Cardinality(D)
      BY <1>3, <2>1, <2>2, <2>4
    <2>6. Cardinality(1..p.msgid) = p.msgid
      BY <1>2, FS_Interval
    <2> QED BY <1>2, <1>4, <2>1, <2>3, <2>4, <2>5, <2>6
  <1>6. p.msgid = Cardinality(A) + Cardinality(B) + p.inflight + Cardinality(D)
    BY <1>1, <1>5
  <1> QED BY <1>1, <1>4, <1>6 DEF Conserved

(* A message reported as not persisted is in no request and not in doubt,  *)
(* hence not in the log.                                                   *)
LEMMA InvHonest == Inv => NotPersistedHonest
  <1> SUFFICES ASSUME Inv, NEW m \in Ids, p.dr[m] = "no", Logged(m) PROVE FALSE
    BY DEF NotPersistedHonest
  <1>1. p.status[m] = "no" /\ m \notin InRequest
    BY Mine DEF Good, Sincere, Placed
  <1>2. ~Doubt(p, m)
    BY <1>1 DEF Doubt
  <1>3. ~Answered(m)
    <2>1. Len(replies) <= Len(waitresp) /\ Len(replies) \in Nat /\ Len(waitresp) \in Nat
      <3>1. Len(net.cur) \in Nat /\ Len(replies) \in Nat
        BY DEF Inv, Wires
      <3> QED BY <3>1 DEF Inv, Wires
    <2>2. \A i \in 1..Len(replies) : i \in 1..Len(waitresp)
      BY <2>1
    <2> QED BY <1>1, <2>2, InRequestIs DEF Answered, InWait
  <1>4. ~Failing(m)
    BY <1>1, InRequestIs DEF Failing, InTmp
  <1> QED BY <1>2, <1>3, <1>4 DEF Inv, Honest

(* Every message produced is in one queue, in one request or reported, and *)
(* rktp_msgs_inflight is the number of messages in requests, whatever is   *)
(* retried, purged or failed (rd_kafka_msgbatch_handle_Produce_result(),   *)
(* rd_kafka_broker_bufq_purge_by_toppar()); and a message whose delivery   *)
(* report (rd_kafka_dr_msgq()) has the status                              *)
(* RD_KAFKA_MSG_STATUS_NOT_PERSISTED is not in the log.                    *)
THEOREM ReportsHonest == Spec => []HonestReports
  <1>1. Inv => HonestReports
    BY InvConserved, InvHonest DEF HonestReports
  <1> QED BY InitInv, NextInv, <1>1, PTL DEF Spec
=============================================================================
