----------------------------- MODULE SyncProofs -----------------------------
(***************************************************************************)
(* Calls that wait for brokers, for any brokers, partitions and groups:    *)
(* the loop of a call waits for exactly the requests that are on their     *)
(* way, whatever is retried or lost, and what the call returns was so at   *)
(* some time while it ran.                                                 *)
(***************************************************************************)
EXTENDS SyncCalls, FiniteSetTheorems, WellFoundedInduction, TLAPS

-----------------------------------------------------------------------------
(* The invariant.                                                          *)

CallFields == {"api", "parts", "group", "st", "expired", "asked", "err", "n", "offidx", "offs",
               "erred", "results", "list", "failed", "leaders", "perr", "out"}
NetFields == {"reqs", "replyq", "batch", "open"}
EnvFields == {"leader", "cache", "brokers", "lo", "hi", "seenLo", "seen", "groups"}

Wants == {"lo", "hi", "list", "describe"}
Errors == {"ok", "not_leader", "leader_not_available"}
Subjects == Parts \cup Groups
Requests == [b : Hosts, parts : SUBSET Subjects, want : Wants, tries : Nat]
Entries == [p : Subjects, err : Errors, off : Int]
Replies == [req : Requests, err : {"ok", "transport"}, entries : Seq(Entries)]

(* Replies that came, in the order in which they will be served.           *)
Line == net.batch \o net.replyq

CallOK ==
    /\ DOMAIN call = CallFields
    /\ call.api \in Apis /\ call.parts \subseteq Parts /\ call.group \in Groups \cup {None}
    /\ call.api = "watermarks" => \E p \in Parts : call.parts = {p}
    /\ call.st \in {"idle", "leaders", "waiting", "done"}
    /\ call.leaders \in [Hosts -> SUBSET Parts]

(* The ends a log has had, while the call ran, are numbers; the broker of  *)
(* a group is one.                                                         *)
EnvOK ==
    /\ DOMAIN env = EnvFields
    /\ env.cache \in [Parts -> Hosts \cup {"wait", "unknown", "leaderless"}]
    /\ env.lo \in [Parts -> Nat] /\ env.hi \in [Parts -> Nat]
    /\ env.seenLo \in [Parts -> SUBSET Nat] /\ env.seen \in [Parts -> SUBSET Nat]
    /\ \A p \in Parts : /\ IsFiniteSet(env.seenLo[p]) /\ 0 \in env.seenLo[p]
                        /\ 0 \notin env.seen[p]
                        /\ env.lo[p] \in env.seenLo[p] /\ env.hi[p] \in env.seen[p]
    /\ env.groups \in [Hosts -> SUBSET Groups]
    /\ \A b, d \in Hosts : b # d => env.groups[b] \cap env.groups[d] = {}

(* Nothing has been sent.                                                  *)
Fresh ==
    /\ net.reqs = {} /\ net.replyq = <<>> /\ net.batch = <<>> /\ net.open
    /\ call.err = "ok" /\ call.n = 0 /\ call.offidx = 0 /\ call.offs = <<-2, -1>> /\ ~call.erred
    /\ call.results = <<>> /\ call.list = <<>> /\ call.failed = {}

(* No two requests for the same: watermarks of both ends, or anything of a *)
(* broker.                                                                 *)
Same(r, q) == IF call.api = "watermarks" THEN r.want = q.want ELSE r.b = q.b
Apart ==
    /\ \A r, q \in net.reqs : Same(r, q) => r = q
    /\ \A r \in net.reqs : \A i \in 1..Len(Line) : ~Same(r, Line[i].req)
    /\ \A i, j \in 1..Len(Line) : i # j => ~Same(Line[i].req, Line[j].req)

(* Requests without a reply, and those whose reply is in line.             *)
Pending == net.reqs \cup {Line[i].req : i \in 1..Len(Line)}

Ends(w, p) == IF w = "lo" THEN env.seenLo[p] ELSE env.seen[p]

(* A request of this call.                                                 *)
Fits(r) ==
    CASE call.api = "watermarks" -> r.want \in {"lo", "hi"} /\ r.parts = call.parts
      [] call.api = "times" -> r.want = "hi" /\ r.parts \subseteq Parts
      [] call.api = "groups" -> r.want = "list" \/ (r.want = "describe" /\ r.parts = Wish(r.b))

(* What a broker answers about, and what it says.                          *)
Due(r) == CASE r.want \in {"lo", "hi"} -> r.parts
            [] r.want = "list" -> env.groups[r.b]
            [] r.want = "describe" -> env.groups[r.b] \cap r.parts
Named(es) == {es[i].p : i \in 1..Len(es)}
Frank(y) ==
    /\ y.err = "ok" => Named(y.entries) = Due(y.req)
    /\ y.err # "ok" => y.entries = <<>>
    /\ \A i, j \in 1..Len(y.entries) : i # j => y.entries[i].p # y.entries[j].p
    /\ y.req.want \in {"lo", "hi"} =>
         \A i \in 1..Len(y.entries) :
             y.entries[i].err = "ok" => y.entries[i].off \in Ends(y.req.want, y.entries[i].p)

Count == Cardinality(net.reqs) + Len(Line)
Counted == IF call.api = "watermarks" THEN call.offidx \in Nat /\ call.offidx + Count = 2
           ELSE call.n = Count

(* Watermarks: the replies that came well were one of each end.            *)
Other(w) == IF w = "lo" THEN "hi" ELSE "lo"
Marks ==
    /\ call.offs \in [1..2 -> Int]
    /\ call.err # "ok" \/ call.offidx = 2
    /\ ~call.erred =>
         \A p \in call.parts :
             /\ call.offidx = 1 =>
                  \E w \in {"lo", "hi"} :
                      call.offs[1] \in Ends(w, p) /\ \A r \in Pending : r.want # w
             /\ call.offidx = 2 =>
                  \E w \in {"lo", "hi"} :
                      call.offs[1] \in Ends(w, p) /\ call.offs[2] \in Ends(Other(w), p)

(* Times: a partition with a leader has a result or will have.             *)
Asked(p) == \E r \in Pending : p \in r.parts
Timed ==
    /\ call.results \in Seq(Entries)
    /\ \A i \in 1..Len(call.results) :
         /\ call.results[i].p \in Parts
         /\ call.results[i].err = "ok" => call.results[i].off \in env.seen[call.results[i].p]
    /\ call.err = "ok" =>
         \A p \in call.parts : \/ call.perr[p] # "ok" \/ Asked(p)
                               \/ p \in Named(call.results)

(* Groups: a broker was asked, failed, or all its groups are in the list.  *)
Busy(b) == \E r \in Pending : r.b = b
Listed ==
    /\ call.list \in Seq(Entries)
    /\ \A i, j \in 1..Len(call.list) : i # j => call.list[i].p # call.list[j].p
    /\ \A i \in 1..Len(call.list) : \E b \in Hosts : call.list[i].p \in Wish(b)
    /\ \A b \in Hosts : Busy(b) => Named(call.list) \cap env.groups[b] = {}
    /\ \A b \in Hosts \ call.failed : Busy(b) \/ Wish(b) \subseteq Named(call.list)
    /\ call.err \in {"ok", "transport"}

Wired ==
    /\ net.reqs \in SUBSET Requests /\ IsFiniteSet(net.reqs)
    /\ net.replyq \in Seq(Replies) /\ net.batch \in Seq(Replies) /\ net.open
Fitting == /\ \A r \in Pending : Fits(r)
           /\ \A i \in 1..Len(Line) : Frank(Line[i])
Live ==
    /\ Wired /\ Apart /\ Fitting /\ Counted
    /\ call.api = "watermarks" => Marks
    /\ call.api = "times" => Timed
    /\ call.api = "groups" => Listed

(* Before anything is sent, while the call waits, and what it returned.    *)
Inv ==
    /\ CallOK /\ EnvOK /\ DOMAIN net = NetFields
    /\ call.st \in {"idle", "leaders"} => Fresh
    /\ Waiting => Live
    /\ ResultTrue

-----------------------------------------------------------------------------
(* Sequences.                                                              *)

(* The elements of a concatenation.                                        *)
LEMMA ConcatIs ==
    ASSUME NEW S, NEW a \in Seq(S), NEW b \in Seq(S)
    PROVE  /\ a \o b \in Seq(S) /\ Len(a \o b) = Len(a) + Len(b)
           /\ Len(a) \in Nat /\ Len(b) \in Nat
           /\ \A i \in 1..Len(a) : (a \o b)[i] = a[i]
           /\ \A i \in 1..Len(b) : (a \o b)[Len(a) + i] = b[i]
  OBVIOUS

(* An index of a concatenation is one of its first or its second part.     *)
LEMMA ConcatAt ==
    ASSUME NEW S, NEW a \in Seq(S), NEW b \in Seq(S), NEW i \in 1..Len(a \o b)
    PROVE  \/ i \in 1..Len(a) /\ (a \o b)[i] = a[i]
           \/ \E j \in 1..Len(b) : i = Len(a) + j /\ (a \o b)[i] = b[j]
  <1>1. /\ Len(a \o b) = Len(a) + Len(b) /\ Len(a) \in Nat /\ Len(b) \in Nat
        /\ \A k \in 1..Len(a) : (a \o b)[k] = a[k]
        /\ \A k \in 1..Len(b) : (a \o b)[Len(a) + k] = b[k]
    BY ConcatIs
  <1>2. CASE i <= Len(a)
    BY <1>1, <1>2
  <1>3. CASE ~(i <= Len(a))
    <2>1. i - Len(a) \in 1..Len(b) /\ i = Len(a) + (i - Len(a))
      BY <1>1, <1>3
    <2> QED BY <1>1, <2>1
  <1> QED BY <1>2, <1>3

(* What is named by a concatenation.                                       *)
LEMMA ConcatNamed ==
    ASSUME NEW a \in Seq(Entries), NEW b \in Seq(Entries)
    PROVE  Named(a \o b) = Named(a) \cup Named(b)
  <1>1. ASSUME NEW x \in Named(a \o b) PROVE x \in Named(a) \cup Named(b)
    <2>1. PICK i \in 1..Len(a \o b) : x = (a \o b)[i].p
      BY <1>1 DEF Named
    <2>2. CASE i \in 1..Len(a) /\ (a \o b)[i] = a[i]
      BY <2>1, <2>2 DEF Named
    <2>3. CASE \E j \in 1..Len(b) : i = Len(a) + j /\ (a \o b)[i] = b[j]
      BY <2>1, <2>3 DEF Named
    <2> QED BY <2>1, <2>2, <2>3, ConcatAt
  <1>2. ASSUME NEW x \in Named(a) PROVE x \in Named(a \o b)
    <2>1. PICK i \in 1..Len(a) : x = a[i].p
      BY <1>2 DEF Named
    <2>2. i \in 1..Len(a \o b) /\ (a \o b)[i] = a[i]
      BY ConcatIs
    <2> QED BY <2>1, <2>2 DEF Named
  <1>3. ASSUME NEW x \in Named(b) PROVE x \in Named(a \o b)
    <2>1. PICK i \in 1..Len(b) : x = b[i].p
      BY <1>3 DEF Named
    <2>2. Len(a) + i \in 1..Len(a \o b) /\ (a \o b)[Len(a) + i] = b[i]
      BY ConcatIs
    <2> QED BY <2>1, <2>2 DEF Named
  <1> QED BY <1>1, <1>2, <1>3

(* SetToSeq has each element of a finite set once.                         *)
LEMMA SetToSeqIs ==
    ASSUME NEW S, IsFiniteSet(S)
    PROVE  /\ SetToSeq(S) \in Seq(S)
           /\ \A x \in S : \E i \in 1..Len(SetToSeq(S)) : SetToSeq(S)[i] = x
           /\ \A i, j \in 1..Len(SetToSeq(S)) : SetToSeq(S)[i] = SetToSeq(S)[j] => i = j
  <1> DEFINE n == Cardinality(S)
             f == SetToSeq(S)
  <1>1. n \in Nat /\ ExistsBijection(1..n, S)
    BY FS_CardinalityType
  <1>2. \E g \in [1..n -> S] : IsInjective(g)
    BY <1>1 DEF ExistsBijection, Bijection, Injection
  <1>3. f \in [1..n -> S] /\ IsInjective(f)
    <2>1. f = CHOOSE g \in [1..n -> S] : IsInjective(g)
      BY DEF SetToSeq
    <2> HIDE DEF f, n
    <2> QED BY <1>2, <2>1
  <1> HIDE DEF f, n
  <1>4. f \in Injection(1..n, S)
    BY <1>3 DEF Injection
  <1>5. Cardinality(1..n) = n
    BY <1>1, FS_Interval
  <1>6. f \in Surjection(1..n, S)
    BY <1>4, <1>5, FS_Injection DEF n
  <1>7. \A x \in S : \E i \in 1..n : f[i] = x
    BY <1>6 DEF Surjection
  <1>8. f \in Seq(S) /\ Len(f) = n
    BY <1>1, <1>3
  <1>9. \A i, j \in 1..n : f[i] = f[j] => i = j
    BY <1>3 DEF IsInjective
  <1> QED BY <1>7, <1>8, <1>9 DEF f

-----------------------------------------------------------------------------
(* The replies in line.                                                    *)

(* They are replies, as many as in both parts of the queue.                *)
LEMMA LineIs ==
    ASSUME Wired
    PROVE  /\ Line \in Seq(Replies) /\ Len(Line) \in Nat
           /\ \A i \in 1..Len(Line) : Line[i] \in Replies
           /\ Len(Line) = Len(net.batch) + Len(net.replyq)
  <1> DEFINE a == net.batch
             b == net.replyq
  <1>1. a \in Seq(Replies) /\ b \in Seq(Replies)
    BY DEF Wired
  <1> HIDE DEF a, b
  <1>2. a \o b \in Seq(Replies) /\ Len(a \o b) = Len(a) + Len(b)
    BY <1>1, ConcatIs
  <1>3. Len(a \o b) \in Nat /\ \A i \in 1..Len(a \o b) : (a \o b)[i] \in Replies
    BY <1>2
  <1> QED BY <1>2, <1>3 DEF a, b, Line

(* rd_kafka_q_serve() passes on the first, the others move up.             *)
LEMMA Shifts ==
    ASSUME Wired, net.batch # <<>>, net'.batch = Tail(net.batch), net'.replyq = net.replyq
    PROVE  /\ First = Line[1] /\ 1 \in 1..Len(Line) /\ Line[1] \in Replies
           /\ net'.batch \in Seq(Replies)
           /\ Line' \in Seq(Replies) /\ Len(Line') = Len(Line) - 1
           /\ \A i \in 1..Len(Line') : i + 1 \in 1..Len(Line) /\ Line'[i] = Line[i + 1]
  <1> DEFINE a == net.batch
             b == net.replyq
             t == Tail(a)
  <1>1. a \in Seq(Replies) /\ b \in Seq(Replies) /\ a # <<>>
    BY DEF Wired
  <1>2. Line = a \o b /\ Line' = t \o b /\ First = Head(a)
    BY DEF Line, First
  <1> HIDE DEF a, b
  <1>3. /\ t \in Seq(Replies) /\ Len(t) = Len(a) - 1 /\ Len(a) \in Nat /\ Len(a) >= 1
        /\ \A i \in 1..Len(t) : t[i] = a[i + 1]
        /\ Head(a) = a[1]
    BY <1>1
  <1> HIDE DEF t
  <1>4. /\ a \o b \in Seq(Replies) /\ Len(a \o b) = Len(a) + Len(b) /\ Len(b) \in Nat
        /\ \A i \in 1..Len(a) : (a \o b)[i] = a[i]
        /\ \A i \in 1..Len(b) : (a \o b)[Len(a) + i] = b[i]
    BY <1>1, ConcatIs
  <1>5. /\ t \o b \in Seq(Replies) /\ Len(t \o b) = Len(t) + Len(b)
    BY <1>1, <1>3, ConcatIs
  <1>6. \A i \in 1..Len(t \o b) : i + 1 \in 1..Len(a \o b) /\ (t \o b)[i] = (a \o b)[i + 1]
    <2> TAKE i \in 1..Len(t \o b)
    <2>1. i + 1 \in 1..Len(a \o b)
      BY <1>3, <1>4, <1>5
    <2>2. CASE i \in 1..Len(t) /\ (t \o b)[i] = t[i]
      <3>1. i + 1 \in 1..Len(a) /\ t[i] = a[i + 1]
        BY <1>3, <2>2
      <3> QED BY <1>4, <2>1, <2>2, <3>1
    <2>3. CASE \E j \in 1..Len(b) : i = Len(t) + j /\ (t \o b)[i] = b[j]
      <3>1. PICK j \in 1..Len(b) : i = Len(t) + j /\ (t \o b)[i] = b[j]
        BY <2>3
      <3>2. i + 1 = Len(a) + j
        BY <1>3, <3>1
      <3> QED BY <1>4, <2>1, <3>1, <3>2
    <2>4. t \in Seq(Replies)
      BY <1>3
    <2>5. \/ i \in 1..Len(t) /\ (t \o b)[i] = t[i]
          \/ \E j \in 1..Len(b) : i = Len(t) + j /\ (t \o b)[i] = b[j]
      BY <1>1, <2>4, ConcatAt
    <2> QED BY <2>2, <2>3, <2>5
  <1>7. 1 \in 1..Len(a \o b) /\ (a \o b)[1] = a[1]
    BY <1>3, <1>4
  <1>8. a[1] \in Replies
    BY <1>1, <1>3
  <1>9. First = Line[1] /\ 1 \in 1..Len(Line) /\ Line[1] \in Replies
    BY <1>2, <1>3, <1>7, <1>8
  <1>10. net'.batch \in Seq(Replies)
    BY <1>3 DEF a, t
  <1>11. Line' \in Seq(Replies) /\ Len(Line') = Len(Line) - 1
    BY <1>2, <1>3, <1>4, <1>5
  <1>12. \A i \in 1..Len(Line') : i + 1 \in 1..Len(Line) /\ Line'[i] = Line[i + 1]
    BY <1>2, <1>6
  <1> QED BY <1>9, <1>10, <1>11, <1>12

(* A reply is put at the end.                                              *)
LEMMA Lengthens ==
    ASSUME Wired, NEW y \in Replies, net'.batch = net.batch, net'.replyq = Append(net.replyq, y)
    PROVE  /\ net'.replyq \in Seq(Replies)
           /\ Line' \in Seq(Replies) /\ Len(Line') = Len(Line) + 1
           /\ \A i \in 1..Len(Line) : Line'[i] = Line[i]
           /\ Line'[Len(Line) + 1] = y
  <1> DEFINE a == net.batch
             b == net.replyq
             t == Append(b, y)
  <1>1. a \in Seq(Replies) /\ b \in Seq(Replies)
    BY DEF Wired
  <1>2. Line = a \o b /\ Line' = a \o t /\ net'.replyq = t
    BY DEF Line
  <1> HIDE DEF a, b
  <1>3. /\ t \in Seq(Replies) /\ Len(t) = Len(b) + 1 /\ Len(b) \in Nat
        /\ \A i \in 1..Len(b) : t[i] = b[i]
        /\ t[Len(b) + 1] = y
    BY <1>1
  <1> HIDE DEF t
  <1>4. /\ a \o b \in Seq(Replies) /\ Len(a \o b) = Len(a) + Len(b) /\ Len(a) \in Nat
        /\ \A i \in 1..Len(a) : (a \o b)[i] = a[i]
        /\ \A i \in 1..Len(b) : (a \o b)[Len(a) + i] = b[i]
    BY <1>1, ConcatIs
  <1>5. /\ a \o t \in Seq(Replies) /\ Len(a \o t) = Len(a) + Len(t)
        /\ \A i \in 1..Len(a) : (a \o t)[i] = a[i]
        /\ \A i \in 1..Len(t) : (a \o t)[Len(a) + i] = t[i]
    <2>1. t \in Seq(Replies)
      BY <1>3
    <2> QED BY <1>1, <2>1, ConcatIs
  <1>10. \A i \in 1..Len(a \o b) : \/ i \in 1..Len(a) /\ (a \o b)[i] = a[i]
                                   \/ \E j \in 1..Len(b) : i = Len(a) + j /\ (a \o b)[i] = b[j]
    BY <1>1, ConcatAt
  <1>6. \A i \in 1..Len(a \o b) : (a \o t)[i] = (a \o b)[i]
    <2> TAKE i \in 1..Len(a \o b)
    <2>1. CASE i \in 1..Len(a) /\ (a \o b)[i] = a[i]
      BY <1>5, <2>1
    <2>2. CASE \E j \in 1..Len(b) : i = Len(a) + j /\ (a \o b)[i] = b[j]
      <3>1. PICK j \in 1..Len(b) : i = Len(a) + j /\ (a \o b)[i] = b[j]
        BY <2>2
      <3>2. j \in 1..Len(t) /\ t[j] = b[j]
        BY <1>3
      <3> QED BY <1>5, <3>1, <3>2
    <2>3. \/ i \in 1..Len(a) /\ (a \o b)[i] = a[i]
          \/ \E j \in 1..Len(b) : i = Len(a) + j /\ (a \o b)[i] = b[j]
      BY <1>10
    <2> QED BY <2>1, <2>2, <2>3
  <1>7. Len(a \o b) + 1 = Len(a) + (Len(b) + 1) /\ Len(b) + 1 \in 1..Len(t)
    BY <1>3, <1>4
  <1>8. (a \o t)[Len(a \o b) + 1] = y
    BY <1>3, <1>5, <1>7
  <1>9. Len(a \o t) = Len(a \o b) + 1
    BY <1>3, <1>4, <1>5
  <1> QED BY <1>2, <1>3, <1>5, <1>6, <1>8, <1>9

(* A request is answered: it is as much awaited as before.                 *)
LEMMA RespondKeeps ==
    ASSUME Live, DOMAIN net = NetFields, NEW r \in net.reqs, NEW y \in Replies, y.req = r, Frank(y),
           net' = [net EXCEPT !.reqs = @ \ {r}, !.replyq = Append(net.replyq, y)],
           UNCHANGED <<call, env>>
    PROVE  Live'
  <1>0. Wired /\ Apart /\ Fitting /\ Counted
    BY DEF Live
  <1>1. /\ net'.reqs = net.reqs \ {r} /\ net'.batch = net.batch /\ net'.open = net.open
        /\ net'.replyq = Append(net.replyq, y)
    BY DEF NetFields
  <1>2. /\ net'.replyq \in Seq(Replies)
        /\ Line' \in Seq(Replies) /\ Len(Line') = Len(Line) + 1
        /\ \A i \in 1..Len(Line) : Line'[i] = Line[i]
        /\ Line'[Len(Line) + 1] = y
    BY <1>0, <1>1, Lengthens
  <1>3. Len(Line) \in Nat /\ Line \in Seq(Replies)
    BY <1>0, LineIs
  <1>4. \A i \in 1..Len(Line') : \/ i \in 1..Len(Line) /\ Line'[i] = Line[i]
                                 \/ i = Len(Line) + 1 /\ Line'[i] = y
    BY <1>2, <1>3
  <1>5. IsFiniteSet(net'.reqs) /\ Cardinality(net'.reqs) = Cardinality(net.reqs) - 1
    BY <1>0, <1>1, FS_RemoveElement DEF Wired
  <1>6. Wired'
    BY <1>0, <1>1, <1>2, <1>5 DEF Wired
  <1>7. Pending' = Pending
    <2>1. ASSUME NEW q \in Pending PROVE q \in Pending'
      <3>1. CASE q \in net.reqs /\ q # r
        BY <1>1, <3>1 DEF Pending
      <3>2. CASE q = r
        <4>1. Len(Line) + 1 \in 1..Len(Line')
          BY <1>2, <1>3
        <4> QED BY <1>2, <3>2, <4>1 DEF Pending
      <3>3. CASE \E i \in 1..Len(Line) : q = Line[i].req
        <4>1. PICK i \in 1..Len(Line) : q = Line[i].req
          BY <3>3
        <4>2. i \in 1..Len(Line')
          BY <1>2, <1>3
        <4> QED BY <1>2, <4>1, <4>2 DEF Pending
      <3> QED BY <2>1, <3>1, <3>2, <3>3 DEF Pending
    <2>2. ASSUME NEW q \in Pending' PROVE q \in Pending
      <3>1. CASE q \in net'.reqs
        BY <1>1, <3>1 DEF Pending
      <3>2. CASE \E i \in 1..Len(Line') : q = Line'[i].req
        BY <1>4, <3>2 DEF Pending
      <3> QED BY <2>2, <3>1, <3>2 DEF Pending
    <2> QED BY <2>1, <2>2
  <1>8. \A p, q : Same(p, q)' <=> Same(p, q)
    BY DEF Same
  <1>9. Apart'
    <2>1. \A p, q \in net'.reqs : Same(p, q) => p = q
      BY <1>0, <1>1 DEF Apart
    <2>2. \A p \in net'.reqs : \A i \in 1..Len(Line') : ~Same(p, Line'[i].req)
      BY <1>0, <1>1, <1>4 DEF Apart
    <2>3. \A i \in 1..Len(Line) : ~Same(Line[i].req, r) /\ ~Same(r, Line[i].req)
      BY <1>0 DEF Apart, Same
    <2>4. \A i, j \in 1..Len(Line') : i # j => ~Same(Line'[i].req, Line'[j].req)
      BY <1>0, <1>4, <2>3 DEF Apart
    <2> QED BY <1>8, <2>1, <2>2, <2>4 DEF Apart
  <1>10. Fitting'
    <2>1. \A q \in Pending : Fits(q)'
      BY <1>0 DEF Fitting, Fits, Wish
    <2>2. \A i \in 1..Len(Line') : Frank(Line'[i])
      BY <1>0, <1>4 DEF Fitting
    <2>3. \A i \in 1..Len(Line') : Frank(Line[i])'
      BY <2>2 DEF Frank, Due, Ends
    <2> QED BY <1>7, <2>1, <2>3 DEF Fitting
  <1>11. Counted'
    <2>1. Cardinality(net.reqs) \in Nat
      BY <1>0, FS_CardinalityType DEF Wired
    <2>2. Count' = Count
      BY <1>2, <1>3, <1>5, <2>1 DEF Count
    <2> QED BY <1>0, <2>2 DEF Counted
  <1>12. call.api = "watermarks" => Marks'
    BY <1>7 DEF Live, Marks, Ends
  <1>13. call.api = "times" => Timed'
    BY <1>7 DEF Live, Timed, Asked
  <1>14. call.api = "groups" => Listed'
    BY <1>7 DEF Live, Listed, Busy, Wish
  <1> QED BY <1>6, <1>9, <1>10, <1>11, <1>12, <1>13, <1>14 DEF Live

(* The first reply is served; in its place there may be one request, for   *)
(* the same.                                                               *)
LEMMA PopKeeps ==
    ASSUME Wired, Apart, Fitting, DOMAIN net = NetFields, net.batch # <<>>, NEW X,
           X = {} \/ \E x \in Requests : X = {x} /\ Same(x, First.req) /\ Fits(x),
           Pop(X), call'.api = call.api, call'.parts = call.parts, call'.group = call.group,
           env' = env
    PROVE  /\ Wired' /\ Apart' /\ Fitting' /\ Count' = Count - 1 + Cardinality(X)
           /\ First \in Replies /\ First.req \in Pending /\ Fits(First.req) /\ Frank(First)
           /\ X \subseteq Pending'
           /\ \A q \in Pending' : q \in X \/ (q \in Pending /\ ~Same(q, First.req))
           /\ \A q \in Pending : q \in Pending' \/ q = First.req
  <1>1. /\ net'.reqs = net.reqs \cup X /\ net'.batch = Tail(net.batch)
        /\ net'.replyq = net.replyq /\ net'.open = net.open
    BY DEF NetFields, Pop
  <1>2. /\ First = Line[1] /\ 1 \in 1..Len(Line) /\ Line[1] \in Replies
        /\ net'.batch \in Seq(Replies)
        /\ Line' \in Seq(Replies) /\ Len(Line') = Len(Line) - 1
        /\ \A i \in 1..Len(Line') : i + 1 \in 1..Len(Line) /\ Line'[i] = Line[i + 1]
    BY <1>1, Shifts
  <1>3. Len(Line) \in Nat
    BY LineIs
  <1> DEFINE f == First.req
  <1>4. \A i \in 1..Len(Line) : i # 1 => i - 1 \in 1..Len(Line') /\ Line'[i - 1] = Line[i]
    <2> SUFFICES ASSUME NEW i \in 1..Len(Line), i # 1
                 PROVE  i - 1 \in 1..Len(Line') /\ Line'[i - 1] = Line[i]
      OBVIOUS
    <2>1. i - 1 \in 1..Len(Line') /\ (i - 1) + 1 = i
      BY <1>2, <1>3
    <2> QED BY <1>2, <2>1
  <1>5. \A i \in 1..Len(Line') : i + 1 # 1 /\ i + 1 \in 1..Len(Line)
    BY <1>2
  <1>6. \A p, q : (Same(p, q)' <=> Same(p, q)) /\ (Same(p, q) <=> Same(q, p))
    BY DEF Same
  <1>7. \A p, q, r : Same(p, q) /\ Same(q, r) => Same(p, r)
    BY DEF Same
  <1>8. \A q \in net.reqs : ~Same(q, f)
    BY <1>2 DEF Apart
  <1>9. \A i \in 1..Len(Line') : ~Same(Line'[i].req, f)
    BY <1>2, <1>5 DEF Apart
  <1>10. /\ IsFiniteSet(net'.reqs) /\ Cardinality(X) \in Nat
         /\ Cardinality(net'.reqs) = Cardinality(net.reqs) + Cardinality(X)
         /\ Cardinality(net.reqs) \in Nat
    <2>1. IsFiniteSet(net.reqs) /\ Cardinality(net.reqs) \in Nat
      BY FS_CardinalityType DEF Wired
    <2>2. CASE X = {}
      <3>1. net'.reqs = net.reqs /\ Cardinality(X) = 0
        BY <1>1, <2>2, FS_EmptySet
      <3> QED BY <2>1, <3>1
    <2>3. ASSUME NEW x, X = {x}, Same(x, f)
          PROVE  /\ IsFiniteSet(net'.reqs) /\ Cardinality(X) = 1
                 /\ Cardinality(net'.reqs) = Cardinality(net.reqs) + 1
      <3>1. x \notin net.reqs
        BY <1>8, <2>3
      <3>2. net'.reqs = net.reqs \cup {x}
        BY <1>1, <2>3
      <3>3. IsFiniteSet(net.reqs \cup {x}) /\ Cardinality(net.reqs \cup {x}) = Cardinality(net.reqs) + 1
        BY <2>1, <3>1, FS_AddElement
      <3>4. Cardinality(X) = 1
        BY <2>3, FS_Singleton
      <3> QED BY <3>2, <3>3, <3>4
    <2> QED BY <2>1, <2>2, <2>3
  <1>11. Wired'
    <2>1. X \subseteq Requests
      OBVIOUS
    <2> QED BY <1>1, <1>2, <1>10, <2>1 DEF Wired
  <1>12. Count' = Count - 1 + Cardinality(X)
    BY <1>2, <1>3, <1>10 DEF Count
  <1>13. \A q \in Pending : q \in Pending' \/ q = f
    <2> SUFFICES ASSUME NEW q \in Pending, q # f PROVE q \in Pending'
      OBVIOUS
    <2>1. CASE q \in net.reqs
      BY <1>1, <2>1 DEF Pending
    <2>2. CASE \E i \in 1..Len(Line) : q = Line[i].req
      <3>1. PICK i \in 1..Len(Line) : q = Line[i].req
        BY <2>2
      <3>2. i # 1
        BY <1>2, <3>1
      <3> QED BY <1>4, <3>1, <3>2 DEF Pending
    <2> QED BY <2>1, <2>2 DEF Pending
  <1>14. \A q \in Pending' : q \in X \/ (q \in Pending /\ ~Same(q, f))
    <2> SUFFICES ASSUME NEW q \in Pending', q \notin X PROVE q \in Pending /\ ~Same(q, f)
      OBVIOUS
    <2>1. CASE q \in net'.reqs
      BY <1>1, <1>8, <2>1 DEF Pending
    <2>2. CASE \E i \in 1..Len(Line') : q = Line'[i].req
      <3>1. PICK i \in 1..Len(Line') : q = Line'[i].req
        BY <2>2
      <3>2. i + 1 \in 1..Len(Line) /\ q = Line[i + 1].req
        BY <1>2, <3>1
      <3> QED BY <1>9, <3>1, <3>2 DEF Pending
    <2> QED BY <2>1, <2>2 DEF Pending
  <1>15. First \in Replies /\ f \in Pending /\ Fits(f) /\ Frank(First)
    BY <1>2 DEF Pending, Fitting
  <1>16. \A q \in X : Same(q, f) /\ Fits(q) /\ \A r \in X : q = r
    OBVIOUS
  <1>17. Apart'
    <2>1. \A p, q \in net'.reqs : Same(p, q) => p = q
      BY <1>1, <1>6, <1>7, <1>8, <1>16 DEF Apart
    <2>2. \A i \in 1..Len(Line') : Line'[i].req = Line[i + 1].req /\ i + 1 \in 1..Len(Line)
      BY <1>2
    <2>3. \A p \in net'.reqs : \A i \in 1..Len(Line') : ~Same(p, Line'[i].req)
      <3> SUFFICES ASSUME NEW p \in net'.reqs, NEW i \in 1..Len(Line'), Same(p, Line'[i].req)
                   PROVE  FALSE
        OBVIOUS
      <3>1. CASE p \in net.reqs
        BY <2>2, <3>1 DEF Apart
      <3>2. CASE p \in X
        BY <1>6, <1>7, <1>9, <1>16, <3>2
      <3> QED BY <1>1, <3>1, <3>2
    <2>4. \A i, j \in 1..Len(Line') : i # j => ~Same(Line'[i].req, Line'[j].req)
      <3> TAKE i, j \in 1..Len(Line')
      <3> HAVE i # j
      <3>1. i + 1 # j + 1
        OBVIOUS
      <3> QED BY <2>2, <3>1 DEF Apart
    <2> QED BY <1>6, <2>1, <2>3, <2>4 DEF Apart
  <1>18. Fitting'
    <2>1. \A q : Fits(q) => Fits(q)'
      BY DEF Fits, Wish
    <2>2. \A q \in Pending' : Fits(q)
      BY <1>14, <1>16 DEF Fitting
    <2>3. \A i \in 1..Len(Line') : Frank(Line'[i])
      BY <1>2 DEF Fitting
    <2>4. \A y : Frank(y) => Frank(y)'
      BY DEF Frank, Due, Ends
    <2> QED BY <2>1, <2>2, <2>3, <2>4 DEF Fitting
  <1>19. X \subseteq Pending'
    BY <1>1 DEF Pending
  <1> QED BY <1>11, <1>12, <1>13, <1>14, <1>15, <1>17, <1>18, <1>19

(* What the cluster does meanwhile: logs have more ends than before.       *)
LEMMA ClusterKeeps ==
    ASSUME Live, CallOK, EnvOK, UNCHANGED <<call, net>>,
           DOMAIN env' = EnvFields, env'.groups = env.groups,
           \A p \in Parts : env.seen[p] \subseteq env'.seen[p]
                            /\ env.seenLo[p] \subseteq env'.seenLo[p]
    PROVE  Live'
  <1>0. Wired /\ Apart /\ Fitting /\ Counted
    BY DEF Live
  <1>1. Line' = Line /\ Pending' = Pending
    BY DEF Line, Pending
  <1>2. Wired' /\ Apart' /\ Counted'
    BY <1>0, <1>1 DEF Wired, Apart, Same, Counted, Count
  <1>3. \A w : \A p \in Parts : Ends(w, p) \subseteq Ends(w, p)'
    BY DEF Ends
  <1>4. \A r : Due(r)' = Due(r) /\ (Fits(r)' <=> Fits(r))
    BY DEF Due, Fits, Wish
  <1>5. \A r \in Requests : Fits(r) /\ r.want \in {"lo", "hi"} => r.parts \subseteq Parts
    BY DEF Fits, CallOK, Apis
  <1>6. Fitting'
    <2>1. ASSUME NEW y \in Replies, Frank(y), Fits(y.req) PROVE Frank(y)'
      <3>1. /\ y.err = "ok" => Named(y.entries) = Due(y.req)'
            /\ y.err # "ok" => y.entries = <<>>
            /\ \A k, j \in 1..Len(y.entries) : k # j => y.entries[k].p # y.entries[j].p
        BY <1>4, <2>1 DEF Frank
      <3>2. ASSUME y.req.want \in {"lo", "hi"}, NEW k \in 1..Len(y.entries), y.entries[k].err = "ok"
            PROVE  y.entries[k].off \in Ends(y.req.want, y.entries[k].p)'
        <4>1. y.req \in Requests /\ y.entries \in Seq(Entries)
          BY DEF Replies
        <4>2. y.entries # <<>>
          BY <3>2, <4>1
        <4>3. y.err = "ok"
          BY <4>2, <3>1
        <4>4. y.entries[k].p \in Due(y.req) /\ Due(y.req) = y.req.parts
          BY <3>2, <4>3, <2>1 DEF Frank, Named, Due
        <4>5. y.req.parts \subseteq Parts
          BY <1>5, <2>1, <3>2, <4>1
        <4>6. y.entries[k].off \in Ends(y.req.want, y.entries[k].p)
          BY <2>1, <3>2 DEF Frank
        <4> QED BY <1>3, <4>4, <4>5, <4>6
      <3> QED BY <3>1, <3>2 DEF Frank
    <2>2. \A i \in 1..Len(Line) : Frank(Line[i]) /\ Line[i] \in Replies /\ Fits(Line[i].req)
      BY <1>0, LineIs DEF Fitting, Pending
    <2>3. \A r \in Pending : Fits(r)'
      BY <1>0, <1>4 DEF Fitting
    <2> QED BY <1>1, <2>1, <2>2, <2>3 DEF Fitting
  <1>7. call.api = "watermarks" => Marks'
    <2> SUFFICES ASSUME Marks PROVE Marks'
      BY DEF Live
    <2>1. call.parts \subseteq Parts
      BY DEF CallOK
    <2>2. \A w \in {"lo", "hi"} : \A p \in call.parts : Ends(w, p) \subseteq Ends(w, p)'
      BY <1>3, <2>1
    <2> QED BY <1>1, <2>2 DEF Marks, Other
  <1>8. call.api = "times" => Timed'
    BY <1>1 DEF Live, Timed, Asked
  <1>9. call.api = "groups" => Listed'
    BY <1>1 DEF Live, Listed, Busy, Wish
  <1> QED BY <1>2, <1>6, <1>7, <1>8, <1>9 DEF Live

(* A step that leaves requests, replies and the results of a call alone.   *)
LEMMA SameLive ==
    ASSUME Live, UNCHANGED env, net'.reqs = net.reqs, net'.open = net.open,
           net'.batch \in Seq(Replies), net'.replyq \in Seq(Replies), Line' = Line,
           \A f \in CallFields \ {"expired"} : call'[f] = call[f]
    PROVE  Live'
  <1>0. Wired /\ Apart /\ Fitting /\ Counted
    BY DEF Live
  <1>1. Pending' = Pending
    BY DEF Pending
  <1>2. /\ call'.api = call.api /\ call'.parts = call.parts /\ call'.group = call.group
        /\ call'.offidx = call.offidx /\ call'.offs = call.offs /\ call'.erred = call.erred
        /\ call'.err = call.err /\ call'.n = call.n
    BY DEF CallFields
  <1>3. /\ call'.results = call.results /\ call'.perr = call.perr /\ call'.list = call.list
        /\ call'.failed = call.failed
    BY DEF CallFields
  <1>4. Wired' /\ Apart' /\ Counted'
    BY <1>0, <1>2 DEF Wired, Apart, Same, Counted, Count
  <1>5. Fitting'
    <2>1. \A r : Fits(r) => Fits(r)'
      BY <1>2 DEF Fits, Wish
    <2>2. \A y : Frank(y) => Frank(y)'
      BY DEF Frank, Due, Ends
    <2> QED BY <1>0, <1>1, <2>1, <2>2 DEF Fitting
  <1>6. call.api = "watermarks" => Marks'
    BY <1>1, <1>2 DEF Live, Marks, Ends
  <1>7. call.api = "times" => Timed'
    BY <1>1, <1>2, <1>3 DEF Live, Timed, Asked
  <1>8. call.api = "groups" => Listed'
    BY <1>1, <1>2, <1>3 DEF Live, Listed, Busy, Wish
  <1> QED BY <1>2, <1>4, <1>5, <1>6, <1>7, <1>8 DEF Live

-----------------------------------------------------------------------------
(* The brokers' answers.                                                   *)

(* Entries for the members of a finite set, as a sequence.                 *)
LEMMA EntriesOf ==
    ASSUME NEW N, IsFiniteSet(N), NEW e, \A x \in N : e[x] \in Entries /\ e[x].p = x,
           NEW S, \A y : y \in S <=> \E x \in N : y = e[x]
    PROVE  LET s == SetToSeq(S)
           IN  /\ s \in Seq(Entries) /\ Named(s) = N
               /\ \A i, j \in 1..Len(s) : i # j => s[i].p # s[j].p
               /\ \A i \in 1..Len(s) : s[i] = e[s[i].p]
  <1> DEFINE f == [x \in N |-> e[x]]
             s == SetToSeq(S)
  <1>1. f \in Surjection(N, S)
    BY DEF Surjection
  <1>2. IsFiniteSet(S)
    <2> HIDE DEF f
    <2> QED BY <1>1, FS_Surjection
  <1>3. S \subseteq Entries /\ \A y \in S : y.p \in N /\ y = e[y.p]
    OBVIOUS
  <1>4. \A x \in N : e[x] \in S
    OBVIOUS
  <1>5. /\ s \in Seq(S)
        /\ \A x \in S : \E i \in 1..Len(s) : s[i] = x
        /\ \A i, j \in 1..Len(s) : s[i] = s[j] => i = j
    BY <1>2, SetToSeqIs
  <1> HIDE DEF s
  <1>6. Len(s) \in Nat /\ \A i \in 1..Len(s) : s[i] \in S
    BY <1>5
  <1>7. \A i \in 1..Len(s) : s[i] \in Entries /\ s[i].p \in N /\ s[i] = e[s[i].p]
    BY <1>3, <1>6
  <1>8. \A i, j \in 1..Len(s) : i # j => s[i].p # s[j].p
    <2> SUFFICES ASSUME NEW i \in 1..Len(s), NEW j \in 1..Len(s), s[i].p = s[j].p PROVE i = j
      OBVIOUS
    <2>1. s[i] = e[s[i].p] /\ s[j] = e[s[j].p]
      BY <1>7
    <2>2. s[i] = s[j]
      BY <2>1
    <2> QED BY <1>5, <2>2
  <1>9. Named(s) = N
    <2>1. \A x \in N : \E i \in 1..Len(s) : s[i].p = x
      BY <1>4, <1>5
    <2> QED BY <1>7, <2>1 DEF Named
  <1>10. s \in Seq(Entries)
    <2>1. \A i \in 1..Len(s) : s[i] \in Entries
      BY <1>7
    <2> QED BY <1>5, <1>6, <2>1
  <1>11. \A i \in 1..Len(s) : s[i] = e[s[i].p]
    BY <1>7
  <1> QED BY <1>8, <1>9, <1>10, <1>11 DEF s

(* A broker's answer is about what it was asked, and it is true: an offset *)
(* is an end that the log has now.                                         *)
LEMMA AnswerIs ==
    ASSUME CallOK, EnvOK, NEW r \in Requests, Fits(r)
    PROVE  Answers(r) \in Seq(Entries) /\ Frank(Reply(r, "ok", Answers(r)))
  <1> DEFINE es == Answers(r)
             y == Reply(r, "ok", es)
  <1>0. y.req = r /\ y.err = "ok" /\ y.entries = es
    BY DEF Reply
  <1>1. r.want \in Wants /\ r.parts \subseteq Subjects /\ r.b \in Hosts
    BY DEF Requests
  <1>2. env.groups[r.b] \subseteq Groups /\ IsFiniteSet(env.groups[r.b])
    BY <1>1, SyncCallsAssumption, FS_Subset DEF EnvOK
  <1>3. CASE r.want \in {"list", "describe"}
    <2> DEFINE N == Names(r)
               e == [g \in N |-> Entry(g, "ok", 0)]
    <2>1. N = Due(r) /\ N \subseteq env.groups[r.b]
      BY <1>3 DEF Names, Due
    <2>2. IsFiniteSet(N) /\ N \subseteq Groups
      BY <1>2, <2>1, FS_Subset
    <2>3. \A g \in N : e[g] \in Entries /\ e[g].p = g
      BY <2>2 DEF Entry, Entries, Subjects, Errors
    <2> DEFINE T == {Entry(g, "ok", 0) : g \in N}
    <2>4. es = SetToSeq(T)
      BY <1>3 DEF Answers
    <2>5. \A z : z \in T <=> \E g \in N : z = e[g]
      OBVIOUS
    <2> HIDE DEF N, e, es, T
    <2>6. /\ es \in Seq(Entries) /\ Named(es) = N
          /\ \A i, j \in 1..Len(es) : i # j => es[i].p # es[j].p
      BY <2>2, <2>3, <2>4, <2>5, EntriesOf
    <2> HIDE DEF y
    <2>7. Frank(y)
      BY <1>0, <1>3, <2>1, <2>6 DEF Frank
    <2> QED BY <2>6, <2>7 DEF y, es
  <1>4. CASE r.want \in {"lo", "hi"}
    <2> DEFINE N == r.parts
               e == [p \in N |-> Told(r, p)]
    <2>1. N = Due(r)
      BY <1>4 DEF Due
    <2>2. IsFiniteSet(N) /\ N \subseteq Parts
      <3>1. N \subseteq Parts
        BY <1>4 DEF Fits, CallOK, Apis
      <3> QED BY <3>1, SyncCallsAssumption, FS_Subset
    <2>3. \A p \in N : e[p] \in Entries /\ e[p].p = p
      <3> SUFFICES ASSUME NEW p \in N PROVE Told(r, p) \in Entries /\ Told(r, p).p = p
        OBVIOUS
      <3>1. Offset(r, p) \in Int
        BY <2>2 DEF Offset, EnvOK
      <3> QED BY <2>2, <3>1 DEF Told, Entry, Entries, Subjects, Errors
    <2> DEFINE T == {Told(r, p) : p \in N}
    <2>4. es = SetToSeq(T)
      BY <1>4 DEF Answers
    <2>5. \A z : z \in T <=> \E p \in N : z = e[p]
      OBVIOUS
    <2>6. \A p \in N : e[p].err = "ok" => e[p].off \in Ends(r.want, p)
      BY <1>4, <2>2 DEF Told, Entry, Offset, Ends, EnvOK
    <2> HIDE DEF N, e, es, T
    <2>7. /\ es \in Seq(Entries) /\ Named(es) = N
          /\ \A i, j \in 1..Len(es) : i # j => es[i].p # es[j].p
          /\ \A i \in 1..Len(es) : es[i] = e[es[i].p]
      BY <2>2, <2>3, <2>4, <2>5, EntriesOf
    <2>8. \A i \in 1..Len(es) : es[i].p \in N
      BY <2>7 DEF Named
    <2>9. \A i \in 1..Len(es) : es[i].err = "ok" => es[i].off \in Ends(r.want, es[i].p)
      BY <2>6, <2>7, <2>8
    <2> HIDE DEF y
    <2>10. Frank(y)
      BY <1>0, <2>1, <2>7, <2>9 DEF Frank
    <2> QED BY <2>7, <2>10 DEF y, es
  <1> QED BY <1>1, <1>3, <1>4 DEF Wants

(* A partition of it may be refused.                                       *)
LEMMA RefusalIs ==
    ASSUME NEW es \in Seq(Entries), NEW r, r.want \in {"lo", "hi"}, NEW p \in Parts,
           Frank(Reply(r, "ok", es))
    PROVE  LET fs == [i \in DOMAIN es |->
                        IF es[i].p = p THEN Entry(p, "leader_not_available", -1) ELSE es[i]]
           IN  fs \in Seq(Entries) /\ Frank(Reply(r, "ok", fs))
  <1> DEFINE fs == [i \in DOMAIN es |->
                      IF es[i].p = p THEN Entry(p, "leader_not_available", -1) ELSE es[i]]
             y == Reply(r, "ok", es)
             z == Reply(r, "ok", fs)
  <1>1. y.req = r /\ y.err = "ok" /\ y.entries = es /\ z.req = r /\ z.err = "ok" /\ z.entries = fs
    BY DEF Reply
  <1>2. Len(es) \in Nat /\ DOMAIN es = 1..Len(es) /\ \A i \in 1..Len(es) : es[i] \in Entries
    OBVIOUS
  <1>3. Entry(p, "leader_not_available", -1) \in Entries
    BY DEF Entry, Entries, Subjects, Errors
  <1>4. fs \in [1..Len(es) -> Entries]
    BY <1>2, <1>3
  <1>5. fs \in Seq(Entries) /\ Len(fs) = Len(es)
    BY <1>2, <1>4
  <1>6. \A i \in 1..Len(es) : fs[i].p = es[i].p /\ (fs[i].err = "ok" => fs[i] = es[i])
    BY <1>2 DEF Entry
  <1> HIDE DEF fs, y, z
  <1>7. Named(fs) = Named(es)
    BY <1>5, <1>6 DEF Named
  <1>8. Frank(z)
    <2>1. Frank(y)
      BY DEF y
    <2> QED BY <1>1, <1>5, <1>6, <1>7, <2>1 DEF Frank
  <1> QED BY <1>5, <1>8 DEF fs, z

-----------------------------------------------------------------------------
(* The invariant, action by action.                                        *)

(* What a call returned stays true.                                        *)
LEMMA ResultSame ==
    ASSUME ResultTrue, call' = call, env' = env
    PROVE  ResultTrue'
  <1>1. WatermarksTrue => WatermarksTrue'
    BY DEF WatermarksTrue
  <1>2. TimesTrue => TimesTrue'
    BY DEF TimesTrue
  <1>3. GroupsTrue => GroupsTrue'
    <2>1. \A b : Wish(b)' = Wish(b)
      BY DEF Wish
    <2> QED BY <2>1 DEF GroupsTrue
  <1> QED BY <1>1, <1>2, <1>3 DEF ResultTrue, Returned

(* A step of the brokers that only answers.                                *)
LEMMA RespondInv ==
    ASSUME Inv, NEW r \in net.reqs, NEW y, Respond(r, y),
           Waiting => y \in Replies /\ y.req = r /\ Frank(y)
    PROVE  Inv'
  <1>1. /\ net' = [net EXCEPT !.reqs = @ \ {r}, !.replyq = Queued(y)]
        /\ call' = call /\ env' = env
    BY DEF Respond
  <1>2. CallOK' /\ EnvOK'
    BY <1>1 DEF Inv, CallOK, EnvOK
  <1>6. DOMAIN net' = NetFields
    BY <1>1 DEF Inv, NetFields
  <1>3. ResultTrue'
    BY <1>1, ResultSame DEF Inv
  <1>4. call.st \notin {"idle", "leaders"}
    BY DEF Inv, Fresh
  <1>5. Waiting => Live'
    <2> SUFFICES ASSUME Waiting PROVE Live'
      OBVIOUS
    <2>1. Live /\ DOMAIN net = NetFields /\ net.open
      BY DEF Inv, Live, Wired
    <2>2. net' = [net EXCEPT !.reqs = @ \ {r}, !.replyq = Append(net.replyq, y)]
      BY <1>1, <2>1 DEF Queued
    <2> QED BY <1>1, <2>1, <2>2, RespondKeeps
  <1> QED BY <1>1, <1>2, <1>6, <1>3, <1>4, <1>5 DEF Inv, Waiting

(* A request that is answered, refused or lost.                            *)
LEMMA AnswersInv ==
    ASSUME Inv, NEW r \in net.reqs, NEW p,
           Answer(r) \/ Fail(r) \/ (p \in Parts /\ Refuse(r, p))
    PROVE  Inv'
  <1>1. Waiting => r \in Requests /\ Fits(r)
    BY DEF Inv, Live, Wired, Fitting, Pending
  <1>2. CallOK /\ EnvOK
    BY DEF Inv
  <1>3. CASE Answer(r)
    <2> DEFINE y == Reply(r, "ok", Answers(r))
    <2>1. Respond(r, y)
      BY <1>3 DEF Answer
    <2>2. y.req = r
      BY DEF Reply
    <2>3. Waiting => y \in Replies /\ Frank(y)
      <3> SUFFICES ASSUME Waiting PROVE y \in Replies /\ Frank(y)
        OBVIOUS
      <3>1. Answers(r) \in Seq(Entries) /\ Frank(y)
        BY <1>1, <1>2, AnswerIs
      <3> QED BY <1>1, <3>1 DEF Reply, Replies
    <2> HIDE DEF y
    <2> QED BY <2>1, <2>2, <2>3, RespondInv
  <1>4. CASE Fail(r)
    <2> DEFINE y == Reply(r, "transport", <<>>)
    <2>1. Respond(r, y)
      BY <1>4 DEF Fail
    <2>2. y.req = r /\ y.err = "transport" /\ y.entries = <<>>
      BY DEF Reply
    <2>3. Waiting => y \in Replies
      BY <1>1 DEF Reply, Replies
    <2>4. Frank(y)
      BY <2>2 DEF Frank
    <2> HIDE DEF y
    <2> QED BY <2>1, <2>2, <2>3, <2>4, RespondInv
  <1>5. CASE p \in Parts /\ Refuse(r, p)
    <2> DEFINE es == Answers(r)
               fs == [i \in DOMAIN es |->
                        IF es[i].p = p THEN Entry(p, "leader_not_available", -1) ELSE es[i]]
               y == Reply(r, "ok", fs)
    <2>1. Respond(r, y) /\ r.want \in {"lo", "hi"}
      BY <1>5 DEF Refuse
    <2>2. y.req = r
      BY DEF Reply
    <2>3. Waiting => y \in Replies /\ Frank(y)
      <3> SUFFICES ASSUME Waiting PROVE y \in Replies /\ Frank(y)
        OBVIOUS
      <3>1. es \in Seq(Entries) /\ Frank(Reply(r, "ok", es))
        BY <1>1, <1>2, AnswerIs
      <3> HIDE DEF es
      <3>2. fs \in Seq(Entries) /\ Frank(y)
        BY <1>5, <2>1, <3>1, RefusalIs
      <3> HIDE DEF fs
      <3> QED BY <1>1, <3>2 DEF Reply, Replies
    <2> HIDE DEF y
    <2> QED BY <2>1, <2>2, <2>3, RespondInv
  <1> QED BY <1>3, <1>4, <1>5

(* The cluster and its metadata change.                                    *)
LEMMA EnvInv ==
    ASSUME Inv, UNCHANGED <<call, net>>, ~Returned, EnvOK',
           env'.groups = env.groups,
           \A p \in Parts : env.seen[p] \subseteq env'.seen[p]
                            /\ env.seenLo[p] \subseteq env'.seenLo[p]
    PROVE  Inv'
  <1>1. Waiting => Live'
    <2>1. CallOK /\ EnvOK /\ DOMAIN env' = EnvFields
      BY DEF Inv, EnvOK
    <2> QED BY <2>1, ClusterKeeps DEF Inv
  <1>2. ResultTrue'
    BY DEF ResultTrue, Returned
  <1> QED BY <1>1, <1>2 DEF Inv, CallOK, Fresh, Waiting

(* A log grows or is trimmed, a partition moves, metadata comes.           *)
LEMMA ClusterInv ==
    ASSUME Inv, NEW p, NEW b,
           \/ /\ p \in Parts /\ b \in Hosts \cup {"unknown", "leaderless"}
              /\ Grow(p) \/ Trim(p) \/ Move(p, b) \/ Metadata(p, b)
           \/ BrokersKnown
    PROVE  Inv'
  <1>0. UNCHANGED <<call, net>> /\ ~Returned /\ EnvOK
    BY DEF Inv, Grow, Trim, Move, Metadata, BrokersKnown, Matters, Returned
  <1>1. CASE p \in Parts /\ Grow(p)
    <2>1. env' = [env EXCEPT !.hi[p] = @ + 1, !.seen[p] = @ \cup {env.hi[p] + 1}]
      BY <1>1 DEF Grow
    <2>2. /\ DOMAIN env' = EnvFields /\ env'.groups = env.groups /\ env'.lo = env.lo
          /\ env'.cache = env.cache
          /\ env'.seenLo = env.seenLo /\ env'.hi = [env.hi EXCEPT ![p] = @ + 1]
          /\ env'.seen = [env.seen EXCEPT ![p] = @ \cup {env.hi[p] + 1}]
      BY <1>0, <1>1, <2>1 DEF EnvOK, EnvFields
    <2>3. env.hi[p] \in Nat /\ env.hi[p] + 1 \in Nat /\ env.hi[p] + 1 # 0
      BY <1>0, <1>1 DEF EnvOK
    <2>4. EnvOK'
      BY <1>0, <1>1, <2>2, <2>3 DEF EnvOK
    <2>5. \A q \in Parts : env.seen[q] \subseteq env'.seen[q]
      BY <1>0, <1>1, <2>2 DEF EnvOK
    <2> QED BY <1>0, <1>1, <2>2, <2>4, <2>5, EnvInv
  <1>2. CASE p \in Parts /\ Trim(p)
    <2>1. env' = [env EXCEPT !.lo[p] = @ + 1, !.seenLo[p] = @ \cup {env.lo[p] + 1}]
      BY <1>2 DEF Trim
    <2>2. /\ DOMAIN env' = EnvFields /\ env'.groups = env.groups /\ env'.hi = env.hi
          /\ env'.cache = env.cache
          /\ env'.seen = env.seen /\ env'.lo = [env.lo EXCEPT ![p] = @ + 1]
          /\ env'.seenLo = [env.seenLo EXCEPT ![p] = @ \cup {env.lo[p] + 1}]
      BY <1>0, <1>2, <2>1 DEF EnvOK, EnvFields
    <2>3. env.lo[p] \in Nat /\ env.lo[p] + 1 \in Nat
      BY <1>0, <1>2 DEF EnvOK
    <2>4. IsFiniteSet(env.seenLo[p] \cup {env.lo[p] + 1})
      BY <1>0, <1>2, FS_AddElement DEF EnvOK
    <2>5. EnvOK'
      BY <1>0, <1>2, <2>2, <2>3, <2>4 DEF EnvOK
    <2>6. \A q \in Parts : env.seenLo[q] \subseteq env'.seenLo[q]
      BY <1>0, <1>2, <2>2 DEF EnvOK
    <2> QED BY <1>0, <1>2, <2>2, <2>5, <2>6, EnvInv
  <1>3. CASE \/ /\ p \in Parts /\ b \in Hosts \cup {"unknown", "leaderless"}
                /\ Move(p, b) \/ Metadata(p, b)
             \/ BrokersKnown
    <2>1. \/ env' = [env EXCEPT !.leader[p] = b]
          \/ /\ p \in Parts /\ b \in Hosts \cup {"unknown", "leaderless"}
             /\ env' = [env EXCEPT !.cache[p] = b]
          \/ env' = [env EXCEPT !.brokers = TRUE]
      BY <1>3 DEF Move, Metadata, BrokersKnown
    <2>2. /\ DOMAIN env' = EnvFields /\ env'.groups = env.groups /\ env'.lo = env.lo
          /\ env'.seenLo = env.seenLo /\ env'.hi = env.hi /\ env'.seen = env.seen
      BY <1>0, <1>3, <2>1 DEF EnvOK, EnvFields
    <2>3. env'.cache \in [Parts -> Hosts \cup {"wait", "unknown", "leaderless"}]
      <3>1. /\ env' = [env EXCEPT !.cache[p] = b] => env'.cache = [env.cache EXCEPT ![p] = b]
            /\ env' = [env EXCEPT !.leader[p] = b] => env'.cache = env.cache
            /\ env' = [env EXCEPT !.brokers = TRUE] => env'.cache = env.cache
        BY <1>0 DEF EnvOK, EnvFields
      <3> QED BY <1>0, <2>1, <3>1 DEF EnvOK
    <2>4. EnvOK'
      BY <1>0, <2>2, <2>3 DEF EnvOK
    <2> QED BY <1>0, <2>2, <2>4, EnvInv
  <1> QED BY <1>1, <1>2, <1>3

(* The call before it is made, whatever the cluster is like.               *)
LEMMA InitInv == Init => Inv
  <1> SUFFICES ASSUME Init PROVE Inv
    OBVIOUS
  <1>1. PICK c \in CallCases :
          /\ call = [api |-> c.api, parts |-> c.parts, group |-> c.group, st |-> "idle",
                     expired |-> FALSE, asked |-> FALSE, err |-> "ok", n |-> 0, offidx |-> 0,
                     offs |-> <<-2, -1>>, erred |-> FALSE, results |-> <<>>, list |-> <<>>,
                     failed |-> {}, leaders |-> [b \in Hosts |-> {}],
                     perr |-> [p \in c.parts |-> "ok"], out |-> None]
          /\ net = [reqs |-> {}, replyq |-> <<>>, batch |-> <<>>, open |-> TRUE]
          /\ \E leader \in [Parts -> Hosts], homes \in [Groups -> Hosts] :
               \E cache \in [Parts -> Hosts \cup {"wait"}] :
                 env = [leader |-> leader, cache |-> cache, brokers |-> FALSE,
                        lo |-> [p \in Parts |-> 0], hi |-> [p \in Parts |-> 1],
                        seenLo |-> [p \in Parts |-> {0}], seen |-> [p \in Parts |-> {1}],
                        groups |-> [b \in Hosts |-> {g \in Groups : homes[g] = b}]]
    BY DEF Init
  <1>2. /\ c.api \in Apis /\ c.parts \subseteq Parts /\ c.group \in Groups \cup {"none"}
        /\ c.api = "watermarks" => \E p \in Parts : c.parts = {p}
    BY SyncCallsAssumption
  <1>3. /\ DOMAIN call = CallFields /\ call.api = c.api /\ call.parts = c.parts
        /\ call.group = c.group /\ call.st = "idle" /\ call.err = "ok" /\ call.n = 0
        /\ call.offidx = 0 /\ call.offs = <<-2, -1>> /\ call.erred = FALSE
        /\ call.results = <<>> /\ call.list = <<>> /\ call.failed = {}
        /\ call.leaders = [b \in Hosts |-> {}]
    BY <1>1 DEF CallFields
  <1>4. CallOK
    BY <1>2, <1>3 DEF CallOK, None
  <1>5. DOMAIN net = NetFields /\ Fresh
    BY <1>1, <1>3 DEF NetFields, Fresh
  <1>6. EnvOK
    <2>1. PICK homes \in [Groups -> Hosts], cache \in [Parts -> Hosts \cup {"wait"}] :
            /\ DOMAIN env = EnvFields /\ env.cache = cache
            /\ env.lo = [p \in Parts |-> 0] /\ env.hi = [p \in Parts |-> 1]
            /\ env.seenLo = [p \in Parts |-> {0}] /\ env.seen = [p \in Parts |-> {1}]
            /\ env.groups = [b \in Hosts |-> {g \in Groups : homes[g] = b}]
      BY <1>1 DEF EnvFields
    <2>2. IsFiniteSet({0})
      BY FS_Singleton
    <2>3. env.cache \in [Parts -> Hosts \cup {"wait", "unknown", "leaderless"}]
      BY <2>1
    <2>4. \A p \in Parts : /\ env.seenLo[p] = {0} /\ env.seen[p] = {1}
                           /\ env.lo[p] = 0 /\ env.hi[p] = 1
      BY <2>1
    <2>5. /\ env.groups \in [Hosts -> SUBSET Groups]
          /\ \A b, d \in Hosts : b # d => env.groups[b] \cap env.groups[d] = {}
      BY <2>1
    <2>6. /\ env.lo \in [Parts -> Nat] /\ env.hi \in [Parts -> Nat]
          /\ env.seenLo \in [Parts -> SUBSET Nat] /\ env.seen \in [Parts -> SUBSET Nat]
      BY <2>1
    <2> QED BY <2>1, <2>2, <2>3, <2>4, <2>5, <2>6 DEF EnvOK
  <1>7. ResultTrue
    BY <1>3 DEF ResultTrue, Returned
  <1> QED BY <1>3, <1>4, <1>5, <1>6, <1>7 DEF Inv, Waiting

(* Time runs out, the call begins, and the queue's replies are taken.      *)
LEMMA QuietInv ==
    ASSUME Inv, Expire \/ Call \/ Serve
    PROVE  Inv'
  <1>0. CallOK /\ EnvOK /\ DOMAIN net = NetFields /\ env' = env
    BY DEF Inv, Expire, Call, Serve
  <1>1. EnvOK'
    BY <1>0 DEF EnvOK
  <1>2. CASE Expire
    <2>1. /\ DOMAIN call' = CallFields /\ \A f \in CallFields \ {"expired"} : call'[f] = call[f]
          /\ net' = net /\ ~Returned
      BY <1>0, <1>2 DEF Expire, CallOK
    <2>2. /\ call'.api = call.api /\ call'.parts = call.parts /\ call'.group = call.group
          /\ call'.offidx = call.offidx /\ call'.offs = call.offs /\ call'.erred = call.erred
          /\ call'.err = call.err /\ call'.n = call.n /\ call'.st = call.st
      BY <2>1 DEF CallFields
    <2>3. /\ call'.results = call.results /\ call'.list = call.list
          /\ call'.failed = call.failed /\ call'.leaders = call.leaders
      BY <2>1 DEF CallFields
    <2>4. CallOK' /\ (Fresh => Fresh')
      BY <1>0, <2>1, <2>2, <2>3 DEF CallOK, Fresh
    <2>5. Waiting => Live'
      <3>1. Waiting => Wired /\ Live
        BY DEF Inv, Live
      <3>2. Line' = Line
        BY <2>1 DEF Line
      <3>3. Waiting => net'.batch \in Seq(Replies) /\ net'.replyq \in Seq(Replies)
        BY <2>1, <3>1 DEF Wired
      <3> QED BY <1>0, <2>1, <3>1, <3>2, <3>3, SameLive
    <2>6. ResultTrue'
      BY <2>1, <2>2 DEF ResultTrue, Returned
    <2> QED BY <1>0, <1>1, <2>1, <2>2, <2>4, <2>5, <2>6 DEF Inv, Waiting
  <1>3. CASE Call
    <2>1. /\ DOMAIN call' = CallFields /\ \A f \in CallFields \ {"st"} : call'[f] = call[f]
          /\ net' = net /\ call'.st = "leaders" /\ call.st = "idle"
      BY <1>0, <1>3 DEF Call, CallOK, CallFields, Idle
    <2>2. /\ call'.api = call.api /\ call'.parts = call.parts /\ call'.group = call.group
          /\ call'.offidx = call.offidx /\ call'.offs = call.offs /\ call'.erred = call.erred
          /\ call'.err = call.err /\ call'.n = call.n
      BY <2>1 DEF CallFields
    <2>3. /\ call'.results = call.results /\ call'.list = call.list
          /\ call'.failed = call.failed /\ call'.leaders = call.leaders
      BY <2>1 DEF CallFields
    <2>4. CallOK' /\ Fresh'
      BY <1>0, <2>1, <2>2, <2>3 DEF CallOK, Fresh, Inv
    <2>5. ResultTrue'
      BY <2>1 DEF ResultTrue, Returned
    <2> QED BY <1>0, <1>1, <2>1, <2>4, <2>5 DEF Inv, Waiting
  <1>4. CASE Serve
    <2>1. /\ call' = call /\ Waiting /\ net.batch = <<>>
          /\ net' = [net EXCEPT !.batch = net.replyq, !.replyq = <<>>]
      BY <1>4 DEF Serve
    <2>2. /\ DOMAIN net' = NetFields /\ net'.reqs = net.reqs /\ net'.open = net.open
          /\ net'.batch = net.replyq /\ net'.replyq = <<>>
      BY <1>0, <2>1 DEF NetFields
    <2>3. Live /\ Wired
      BY <2>1 DEF Inv, Live
    <2>4. net'.batch \in Seq(Replies) /\ net'.replyq \in Seq(Replies)
      BY <2>2, <2>3 DEF Wired
    <2>5. Line' = Line
      <3> DEFINE q == net.replyq
      <3>1. q \in Seq(Replies)
        BY <2>3 DEF Wired
      <3>2. Line = <<>> \o q /\ Line' = q \o <<>>
        BY <2>1, <2>2 DEF Line
      <3> HIDE DEF q
      <3> QED BY <3>1, <3>2
    <2>6. Live'
      BY <1>0, <2>1, <2>2, <2>3, <2>4, <2>5, SameLive
    <2>7. CallOK' /\ ResultTrue'
      BY <1>0, <2>1 DEF CallOK, ResultTrue, Returned, Waiting
    <2> QED BY <1>1, <2>1, <2>2, <2>6, <2>7 DEF Inv, Waiting
  <1> QED BY <1>2, <1>3, <1>4

(* A call that returns keeps no promise but that of its result.            *)
LEMMA ReturnIs ==
    ASSUME CallOK, NEW err, NEW out, Return(err, out)
    PROVE  /\ DOMAIN call' = CallFields
           /\ call'.st = "done" /\ call'.err = err /\ call'.out = out
           /\ call'.api = call.api /\ call'.parts = call.parts /\ call'.group = call.group
           /\ call'.erred = call.erred /\ call'.failed = call.failed
           /\ call'.leaders = call.leaders
  <1>1. call' = [call EXCEPT !.st = "done", !.err = err, !.out = out] /\ DOMAIN call = CallFields
    BY DEF Return, CallOK
  <1> QED BY <1>1 DEF CallFields

(* After that nothing is promised of the queue.                            *)
LEMMA ReturnInv ==
    ASSUME Inv, NEW err, NEW out, Return(err, out), env' = env, ResultTrue'
    PROVE  Inv'
  <1>1. CallOK /\ EnvOK /\ DOMAIN net = NetFields
    BY DEF Inv
  <1>2. /\ DOMAIN call' = CallFields /\ call'.st = "done"
        /\ call'.api = call.api /\ call'.parts = call.parts /\ call'.group = call.group
        /\ call'.leaders = call.leaders
    BY <1>1, ReturnIs
  <1>3. CallOK' /\ EnvOK'
    BY <1>1, <1>2 DEF CallOK, EnvOK
  <1>4. DOMAIN net' = NetFields
    BY <1>1 DEF Return, NetFields
  <1> QED BY <1>2, <1>3, <1>4 DEF Inv, Waiting

(* Calls that fail before anything is sent.                                *)
LEMMA FailsInv ==
    ASSUME Inv, QueryTimesOut \/ NoLeaders \/ GroupsTimeOut
    PROVE  Inv'
  <1>1. PICK err \in {"timed_out", "all_brokers_down", "unknown_partition"} : Return(err, None)
    BY DEF QueryTimesOut, NoLeaders, GroupsTimeOut
  <1>2. env' = env /\ CallOK
    BY DEF Inv, QueryTimesOut, NoLeaders, GroupsTimeOut
  <1>3. call'.err = err
    BY <1>1, <1>2, ReturnIs
  <1>4. ResultTrue'
    BY <1>3 DEF ResultTrue
  <1> QED BY <1>1, <1>2, <1>4, ReturnInv

(* rd_kafka_topic_partition_list_get_leaders()                             *)
LEMMA LeadersAre ==
    ASSUME CallOK, EnvOK
    PROVE  /\ DOMAIN GetLeaders = CallFields
           /\ \A f \in CallFields \ {"leaders", "perr"} : GetLeaders[f] = call[f]
           /\ GetLeaders.leaders = ByLeader(call.parts)
           /\ GetLeaders.perr = [p \in call.parts |-> LeaderErr(p)]
           /\ ByLeader(call.parts) \in [Hosts -> SUBSET Parts]
  <1>1. DOMAIN call = CallFields
    BY DEF CallOK
  <1>2. ByLeader(call.parts) \in [Hosts -> SUBSET Parts]
    BY DEF ByLeader, CallOK
  <1> QED BY <1>1, <1>2 DEF GetLeaders, CallFields

(* rd_kafka_topic_partition_list_query_leaders(): one turn of its loop.    *)
LEMMA QueryInv ==
    ASSUME Inv, QueryLeaders
    PROVE  Inv'
  <1>1. CallOK /\ EnvOK /\ DOMAIN net = NetFields /\ Fresh
    BY DEF Inv, QueryLeaders
  <1>2. /\ call' = [GetLeaders EXCEPT !.asked = TRUE] /\ call.st = "leaders"
        /\ net' = net /\ env' = env
    BY DEF QueryLeaders
  <1>3. /\ DOMAIN GetLeaders = CallFields
        /\ \A f \in CallFields \ {"leaders", "perr"} : GetLeaders[f] = call[f]
        /\ GetLeaders.leaders = ByLeader(call.parts)
        /\ ByLeader(call.parts) \in [Hosts -> SUBSET Parts]
    BY <1>1, LeadersAre
  <1>4. /\ DOMAIN call' = CallFields
        /\ \A f \in CallFields \ {"leaders", "perr", "asked"} : call'[f] = call[f]
        /\ call'.leaders \in [Hosts -> SUBSET Parts]
    BY <1>2, <1>3 DEF CallFields
  <1>5. /\ call'.api = call.api /\ call'.parts = call.parts /\ call'.group = call.group
        /\ call'.offidx = call.offidx /\ call'.offs = call.offs /\ call'.erred = call.erred
        /\ call'.err = call.err /\ call'.n = call.n /\ call'.st = call.st
    BY <1>4 DEF CallFields
  <1>6. /\ call'.results = call.results /\ call'.list = call.list
        /\ call'.failed = call.failed
    BY <1>4 DEF CallFields
  <1>7. CallOK' /\ EnvOK' /\ Fresh'
    BY <1>1, <1>2, <1>4, <1>5, <1>6 DEF CallOK, EnvOK, Fresh
  <1>8. ResultTrue'
    BY <1>2, <1>5 DEF ResultTrue, Returned
  <1> QED BY <1>1, <1>2, <1>5, <1>7, <1>8 DEF Inv, Waiting

(* What is true of any set of requests that is sent.                       *)
LEMMA SendKeeps ==
    ASSUME Fresh, DOMAIN net = NetFields, NEW R, R \subseteq Requests, IsFiniteSet(R),
           \A r, q \in R : Same(r, q) => r = q, \A r \in R : Fits(r),
           net' = [net EXCEPT !.reqs = R], env' = env,
           call'.api = call.api, call'.parts = call.parts, call'.group = call.group
    PROVE  Wired' /\ Apart' /\ Fitting' /\ Count' = Cardinality(R) /\ Pending' = R
  <1>1. /\ net'.reqs = R /\ net'.replyq = <<>> /\ net'.batch = <<>> /\ net'.open
    BY DEF Fresh, NetFields
  <1>2. Line' = <<>> /\ Len(Line') = 0
    <2>1. Line' = <<>> \o <<>>
      BY <1>1 DEF Line
    <2>2. <<>> \o <<>> = <<>> /\ Len(<<>>) = 0
      OBVIOUS
    <2> QED BY <2>1, <2>2
  <1>3. Pending' = R
    BY <1>1, <1>2 DEF Pending
  <1>4. Wired'
    <2>1. <<>> \in Seq(Replies)
      OBVIOUS
    <2> QED BY <1>1, <2>1, Zenon DEF Wired
  <1>5. \A r, q : Same(r, q)' <=> Same(r, q)
    BY DEF Same
  <1>6. Apart'
    BY <1>1, <1>2, <1>5 DEF Apart
  <1>7. \A r : Fits(r)' <=> Fits(r)
    BY DEF Fits, Wish
  <1>8. Fitting'
    BY <1>2, <1>3, <1>7 DEF Fitting
  <1>9. Cardinality(R) \in Nat
    BY FS_CardinalityType
  <1>10. Count' = Cardinality(R)
    BY <1>1, <1>2, <1>9 DEF Count
  <1> QED BY <1>3, <1>4, <1>6, <1>8, <1>10

(* As many requests as brokers: each has its own.                          *)
LEMMA OneEach ==
    ASSUME NEW H, IsFiniteSet(H), NEW e, \A b \in H : e[b].b = b,
           NEW R, \A r : r \in R <=> \E b \in H : r = e[b]
    PROVE  IsFiniteSet(R) /\ Cardinality(R) = Cardinality(H)
  <1> DEFINE f == [b \in H |-> e[b]]
  <1>1. f \in Bijection(H, R)
    BY DEF Bijection, Injection, Surjection, IsInjective
  <1>2. ExistsBijection(H, R)
    BY <1>1 DEF ExistsBijection
  <1>3. f \in Surjection(H, R)
    BY <1>1 DEF Bijection
  <1>4. IsFiniteSet(R)
    BY <1>3, FS_Surjection
  <1>5. Cardinality(R) = Cardinality(H)
    BY <1>1, <1>2, FS_Bijection
  <1> QED BY <1>4, <1>5

(* rd_kafka_query_watermark_offsets(): one request for each end.           *)
LEMMA SendWatermarksInv ==
    ASSUME Inv, SendWatermarks
    PROVE  Inv'
  <1>1. CallOK /\ EnvOK /\ DOMAIN net = NetFields /\ Fresh
    BY DEF Inv, SendWatermarks
  <1>2. call.api = "watermarks" /\ env' = env
    BY DEF SendWatermarks
  <1>3. PICK b \in Hosts :
          /\ call' = [GetLeaders EXCEPT !.st = "waiting", !.err = "in_progress"]
          /\ net' = [net EXCEPT !.reqs = {Request(b, call.parts, "lo"),
                                          Request(b, call.parts, "hi")}]
    BY DEF SendWatermarks
  <1> DEFINE x == Request(b, call.parts, "lo")
             y == Request(b, call.parts, "hi")
  <1>4. /\ DOMAIN GetLeaders = CallFields
        /\ \A f \in CallFields \ {"leaders", "perr"} : GetLeaders[f] = call[f]
        /\ GetLeaders.leaders \in [Hosts -> SUBSET Parts]
    BY <1>1, LeadersAre
  <1>5. /\ DOMAIN call' = CallFields /\ call'.st = "waiting" /\ call'.err = "in_progress"
        /\ call'.leaders \in [Hosts -> SUBSET Parts]
        /\ \A f \in CallFields \ {"leaders", "perr", "st", "err"} : call'[f] = call[f]
    BY <1>3, <1>4 DEF CallFields
  <1>6. /\ call'.api = call.api /\ call'.parts = call.parts /\ call'.group = call.group
        /\ call'.offidx = 0 /\ call'.offs = <<-2, -1>>
    BY <1>1, <1>5 DEF CallFields, Fresh
  <1>7. CallOK' /\ EnvOK'
    BY <1>1, <1>2, <1>5, <1>6 DEF CallOK, EnvOK
  <1>8. /\ x \in Requests /\ y \in Requests /\ x.want = "lo" /\ y.want = "hi"
        /\ x.parts = call.parts /\ y.parts = call.parts
    BY <1>1 DEF Request, Requests, Wants, Subjects, CallOK
  <1>9. DOMAIN net' = NetFields /\ net' = [net EXCEPT !.reqs = {x, y}]
    BY <1>1, <1>3 DEF NetFields
  <1> HIDE DEF x, y
  <1>10. IsFiniteSet({x, y}) /\ Cardinality({x, y}) = 2
    <2>1. IsFiniteSet({x}) /\ Cardinality({x}) = 1
      BY FS_Singleton
    <2>2. y \notin {x} /\ {x, y} = {x} \cup {y}
      BY <1>8
    <2>3. IsFiniteSet({x} \cup {y}) /\ Cardinality({x} \cup {y}) = 1 + 1
      BY <2>1, <2>2, FS_AddElement
    <2> QED BY <2>2, <2>3
  <1>11. \A r, q \in {x, y} : Same(r, q) => r = q
    BY <1>2, <1>8 DEF Same
  <1>12. \A r \in {x, y} : Fits(r)
    BY <1>2, <1>8 DEF Fits
  <1>13. Wired' /\ Apart' /\ Fitting' /\ Count' = 2
    BY <1>1, <1>2, <1>6, <1>8, <1>9, <1>10, <1>11, <1>12, SendKeeps
  <1>14. Counted'
    BY <1>2, <1>6, <1>13 DEF Counted
  <1>15. Marks'
    <2>1. <<-2, -1>> \in [1..2 -> Int]
      OBVIOUS
    <2> QED BY <1>5, <1>6, <2>1 DEF Marks
  <1>16. Live'
    BY <1>2, <1>6, <1>13, <1>14, <1>15 DEF Live
  <1>17. ResultTrue'
    BY <1>5 DEF ResultTrue, Returned
  <1> QED BY <1>5, <1>7, <1>9, <1>16, <1>17 DEF Inv

(* rd_kafka_offsets_for_times(): one request for each leader, and every    *)
(* partition that has a leader is in one.                                  *)
LEMMA SendTimesInv ==
    ASSUME Inv, SendTimes
    PROVE  Inv'
  <1>1. CallOK /\ EnvOK /\ DOMAIN net = NetFields /\ Fresh
    BY DEF Inv, SendTimes
  <1> DEFINE of == ByLeader(call.parts)
             to == {b \in Hosts : of[b] # {}}
             e == [b \in to |-> Request(b, of[b], "hi")]
             R == {Request(b, of[b], "hi") : b \in to}
  <1>2. /\ call.api = "times" /\ env' = env
        /\ call' = [GetLeaders EXCEPT !.st = "waiting", !.n = Cardinality(to)]
        /\ net' = [net EXCEPT !.reqs = R]
    BY DEF SendTimes
  <1>3. /\ DOMAIN GetLeaders = CallFields
        /\ \A f \in CallFields \ {"leaders", "perr"} : GetLeaders[f] = call[f]
        /\ GetLeaders.leaders \in [Hosts -> SUBSET Parts]
        /\ GetLeaders.perr = [p \in call.parts |-> LeaderErr(p)]
        /\ of \in [Hosts -> SUBSET Parts]
    BY <1>1, LeadersAre
  <1>4. \A p \in call.parts : LeaderErr(p) = "ok" => \E b \in to : p \in of[b]
    <2> SUFFICES ASSUME NEW p \in call.parts, LeaderErr(p) = "ok"
                 PROVE  \E b \in to : p \in of[b]
      OBVIOUS
    <2>1. env.cache[p] \in Hosts \cup {"wait", "unknown", "leaderless"}
      BY <1>1 DEF CallOK, EnvOK
    <2>2. env.cache[p] \in Hosts
      BY <2>1 DEF LeaderErr
    <2>3. p \in of[env.cache[p]]
      BY <2>2 DEF ByLeader
    <2> QED BY <2>2, <2>3
  <1>5. /\ \A b \in to : e[b] \in Requests /\ e[b].b = b /\ e[b].want = "hi" /\ e[b].parts = of[b]
        /\ \A r : r \in R <=> \E b \in to : r = e[b]
    BY <1>3 DEF Request, Requests, Wants, Subjects
  <1>6. IsFiniteSet(to)
    <2>1. to \subseteq Hosts
      OBVIOUS
    <2> HIDE DEF to
    <2> QED BY <2>1, SyncCallsAssumption, FS_Subset
  <1> HIDE DEF R, e, to, of
  <1>7. IsFiniteSet(R) /\ Cardinality(R) = Cardinality(to)
    BY <1>5, <1>6, OneEach
  <1>8. /\ DOMAIN call' = CallFields /\ call'.st = "waiting" /\ call'.n = Cardinality(to)
        /\ call'.leaders \in [Hosts -> SUBSET Parts]
        /\ call'.perr = [p \in call.parts |-> LeaderErr(p)]
        /\ \A f \in CallFields \ {"leaders", "perr", "st", "n"} : call'[f] = call[f]
    BY <1>2, <1>3 DEF CallFields
  <1>9. /\ call'.api = call.api /\ call'.parts = call.parts /\ call'.group = call.group
        /\ call'.results = <<>>
    BY <1>1, <1>8 DEF CallFields, Fresh
  <1>10. CallOK' /\ EnvOK' /\ DOMAIN net' = NetFields
    BY <1>1, <1>2, <1>8, <1>9 DEF CallOK, EnvOK, NetFields
  <1>11. R \subseteq Requests /\ \A r, q \in R : Same(r, q) => r = q
    BY <1>2, <1>5 DEF Same
  <1>12. \A r \in R : Fits(r)
    BY <1>2, <1>3, <1>5, of \in [Hosts -> SUBSET Parts], to \subseteq Hosts DEF Fits, to
  <1>13. Wired' /\ Apart' /\ Fitting' /\ Count' = Cardinality(R) /\ Pending' = R
    BY <1>1, <1>2, <1>7, <1>9, <1>11, <1>12, SendKeeps
  <1>14. Counted'
    BY <1>2, <1>7, <1>8, <1>9, <1>13 DEF Counted
  <1>15. Timed'
    <2>1. <<>> \in Seq(Entries) /\ Len(<<>>) = 0
      OBVIOUS
    <2>2. \A p \in call.parts : LeaderErr(p) = "ok" => \E r \in R : p \in r.parts
      BY <1>4, <1>5
    <2>3. \A p \in call'.parts : call'.perr[p] # "ok" \/ Asked(p)'
      BY <1>8, <1>9, <1>13, <2>2 DEF Asked
    <2> QED BY <1>9, <2>1, <2>3 DEF Timed
  <1>16. Live'
    BY <1>2, <1>9, <1>13, <1>14, <1>15 DEF Live
  <1>17. ResultTrue'
    BY <1>8 DEF ResultTrue, Returned
  <1> QED BY <1>8, <1>10, <1>16, <1>17 DEF Inv

(* rd_kafka_list_groups(): one request for each broker.                    *)
LEMMA SendGroupsInv ==
    ASSUME Inv, SendGroups
    PROVE  Inv'
  <1>1. CallOK /\ EnvOK /\ DOMAIN net = NetFields /\ Fresh
    BY DEF Inv, SendGroups
  <1> DEFINE e == [b \in Hosts |-> Request(b, {}, "list")]
             R == {Request(b, {}, "list") : b \in Hosts}
  <1>2. /\ call.api = "groups" /\ env' = env
        /\ call' = [call EXCEPT !.st = "waiting", !.n = Cardinality(Hosts)]
        /\ net' = [net EXCEPT !.reqs = R]
    BY DEF SendGroups
  <1>3. /\ \A b \in Hosts : e[b] \in Requests /\ e[b].b = b /\ e[b].want = "list"
        /\ \A r : r \in R <=> \E b \in Hosts : r = e[b]
    BY DEF Request, Requests, Wants, Subjects
  <1> HIDE DEF R, e
  <1>4. IsFiniteSet(R) /\ Cardinality(R) = Cardinality(Hosts)
    BY <1>3, SyncCallsAssumption, OneEach
  <1>5. /\ DOMAIN call' = CallFields /\ call'.st = "waiting" /\ call'.n = Cardinality(Hosts)
        /\ \A f \in CallFields \ {"st", "n"} : call'[f] = call[f]
    BY <1>1, <1>2 DEF CallFields, CallOK
  <1>6. /\ call'.api = call.api /\ call'.parts = call.parts /\ call'.group = call.group
        /\ call'.list = <<>> /\ call'.failed = {} /\ call'.err = "ok"
        /\ call'.leaders = call.leaders
    BY <1>1, <1>5 DEF CallFields, Fresh
  <1>7. CallOK' /\ EnvOK' /\ DOMAIN net' = NetFields
    BY <1>1, <1>2, <1>5, <1>6 DEF CallOK, EnvOK, NetFields
  <1>8. R \subseteq Requests /\ \A r, q \in R : Same(r, q) => r = q
    BY <1>2, <1>3 DEF Same
  <1>9. \A r \in R : Fits(r)
    BY <1>2, <1>3 DEF Fits
  <1>10. Wired' /\ Apart' /\ Fitting' /\ Count' = Cardinality(R) /\ Pending' = R
    BY <1>1, <1>2, <1>4, <1>6, <1>8, <1>9, SendKeeps
  <1>11. Counted'
    BY <1>2, <1>4, <1>5, <1>6, <1>10 DEF Counted
  <1>12. Listed'
    <2>1. <<>> \in Seq(Entries) /\ Len(<<>>) = 0 /\ Named(<<>>) = {}
      BY DEF Named
    <2>2. \A b \in Hosts : Busy(b)'
      BY <1>3, <1>10 DEF Busy
    <2>3. /\ \A b \in Hosts : Busy(b)' => Named(call'.list) \cap env'.groups[b] = {}
          /\ \A b \in Hosts \ call'.failed : Busy(b)'
      BY <1>6, <2>1, <2>2
    <2> QED BY <1>6, <2>1, <2>3 DEF Listed
  <1>13. Live'
    BY <1>2, <1>6, <1>10, <1>11, <1>12 DEF Live
  <1>14. ResultTrue'
    BY <1>5 DEF ResultTrue, Returned
  <1> QED BY <1>5, <1>7, <1>13, <1>14 DEF Inv

-----------------------------------------------------------------------------
(* Replies that are served.                                                *)

(* The first reply is one of those that the call waits for.                *)
LEMMA FirstIs ==
    ASSUME Wired, Fitting, net.batch # <<>>
    PROVE  /\ First \in Replies /\ First.req \in Requests /\ First.req \in Pending
           /\ Fits(First.req) /\ Frank(First)
           /\ Count \in Nat /\ Count >= 1
  <1> DEFINE a == net.batch
             b == net.replyq
  <1>1. a \in Seq(Replies) /\ b \in Seq(Replies) /\ a # <<>>
    BY DEF Wired
  <1>2. Line = a \o b /\ First = Head(a)
    BY DEF Line, First
  <1> HIDE DEF a, b
  <1>3. Head(a) = a[1] /\ 1 \in 1..Len(a) /\ a[1] \in Replies /\ Len(a) \in Nat
    BY <1>1
  <1>4. Len(a \o b) = Len(a) + Len(b) /\ Len(b) \in Nat /\ (a \o b)[1] = a[1]
    BY <1>1, <1>3, ConcatIs
  <1>5. First = Line[1] /\ 1 \in 1..Len(Line) /\ First \in Replies /\ Len(Line) \in Nat
    BY <1>2, <1>3, <1>4
  <1>6. First.req \in Requests
    BY <1>5 DEF Replies
  <1>7. First.req \in Pending
    BY <1>5 DEF Pending
  <1>8. Fits(First.req) /\ Frank(First)
    BY <1>5, <1>7 DEF Fitting
  <1>9. Cardinality(net.reqs) \in Nat
    BY FS_CardinalityType DEF Wired
  <1> QED BY <1>5, <1>6, <1>7, <1>8, <1>9 DEF Count

(* A request that is sent again takes the place it had.                    *)
LEMMA AgainKeeps ==
    ASSUME Wired, Apart, Fitting, DOMAIN net = NetFields, net.batch # <<>>, NEW k \in Nat,
           Pop({[First.req EXCEPT !.tries = k]}),
           call'.api = call.api, call'.parts = call.parts, call'.group = call.group, env' = env
    PROVE  /\ Wired' /\ Apart' /\ Fitting' /\ Count' = Count
           /\ \A w : (\A r \in Pending : r.want # w) => \A r \in Pending' : r.want # w
           /\ \A p : Asked(p) => Asked(p)'
  <1> DEFINE x == [First.req EXCEPT !.tries = k]
  <1>1. First.req \in Requests /\ First.req \in Pending /\ Fits(First.req) /\ Count \in Nat
    BY FirstIs
  <1>2. x \in Requests /\ x.b = First.req.b /\ x.want = First.req.want /\ x.parts = First.req.parts
    BY <1>1 DEF Requests
  <1>3. Same(x, First.req) /\ Fits(x)
    BY <1>1, <1>2 DEF Same, Fits
  <1>4. Pop({x})
    OBVIOUS
  <1>5. Cardinality({x}) = 1
    BY FS_Singleton
  <1> HIDE DEF x
  <1>6. /\ Wired' /\ Apart' /\ Fitting' /\ Count' = Count - 1 + Cardinality({x})
        /\ {x} \subseteq Pending'
        /\ \A q \in Pending' : q \in {x} \/ (q \in Pending /\ ~Same(q, First.req))
        /\ \A q \in Pending : q \in Pending' \/ q = First.req
    BY <1>2, <1>3, <1>4, PopKeeps
  <1>7. Count' = Count
    BY <1>1, <1>5, <1>6
  <1>8. \A w : (\A r \in Pending : r.want # w) => \A r \in Pending' : r.want # w
    BY <1>1, <1>2, <1>6
  <1>9. \A p : Asked(p) => Asked(p)'
    BY <1>1, <1>2, <1>6 DEF Asked
  <1> QED BY <1>6, <1>7, <1>8, <1>9

(* A reply that changes nothing but who is asked.                          *)
LEMMA ServedInv ==
    ASSUME Inv, Served, DOMAIN call' = CallFields, call'.api = call.api,
           call'.parts = call.parts, call'.group = call.group, call'.st = call.st,
           call'.leaders = call.leaders, env' = env, NEW X, Pop(X), Live'
    PROVE  Inv'
  <1>1. CallOK /\ EnvOK /\ DOMAIN net = NetFields /\ call.st = "waiting"
    BY DEF Inv, Served, Waiting
  <1>2. CallOK' /\ EnvOK'
    BY <1>1 DEF CallOK, EnvOK
  <1>3. DOMAIN net' = NetFields
    BY <1>1 DEF Pop, NetFields
  <1>4. ResultTrue'
    BY <1>1 DEF ResultTrue, Returned
  <1> QED BY <1>1, <1>2, <1>3, <1>4 DEF Inv

(* What holds when a reply is served.                                      *)
LEMMA ServedHas ==
    ASSUME Inv, Served
    PROVE  /\ CallOK /\ EnvOK /\ DOMAIN net = NetFields /\ net.batch # <<>>
           /\ Live /\ Wired /\ Apart /\ Fitting /\ Counted
  BY DEF Inv, Served, Live

(* The connection came back: the request starts over.                      *)
LEMMA StartsOverInv ==
    ASSUME Inv, StartsOver
    PROVE  Inv'
  <1>1. /\ Served /\ call.api # "groups" /\ Pop({[First.req EXCEPT !.tries = 0]})
        /\ call' = call /\ env' = env
    BY DEF StartsOver
  <1>2. /\ CallOK /\ DOMAIN net = NetFields /\ net.batch # <<>>
        /\ Live /\ Wired /\ Apart /\ Fitting /\ Counted
    BY <1>1, ServedHas
  <1>3. /\ Wired' /\ Apart' /\ Fitting' /\ Count' = Count
        /\ \A w : (\A r \in Pending : r.want # w) => \A r \in Pending' : r.want # w
        /\ \A p : Asked(p) => Asked(p)'
    BY <1>1, <1>2, AgainKeeps
  <1>4. Counted'
    BY <1>1, <1>2, <1>3 DEF Counted
  <1>5. \A w, p : Ends(w, p)' = Ends(w, p)
    BY <1>1 DEF Ends
  <1>6. Marks => Marks'
    BY <1>1, <1>3, <1>5 DEF Marks
  <1>7. Timed => Timed'
    BY <1>1, <1>3 DEF Timed
  <1>8. Live'
    BY <1>1, <1>2, <1>3, <1>4, <1>6, <1>7 DEF Live
  <1> HIDE DEF StartsOver
  <1> QED BY <1>1, <1>2, <1>8, ServedInv DEF CallOK

(* rd_kafka_query_wmark_offsets_resp_cb(): a second reply is of the other  *)
(* end than the first.                                                     *)
LEMMA WatermarksReplyInv ==
    ASSUME Inv, WatermarksReply
    PROVE  Inv'
  <1>1. Served /\ call.api = "watermarks" /\ env' = env
    BY DEF WatermarksReply
  <1>2. /\ CallOK /\ DOMAIN net = NetFields /\ net.batch # <<>>
        /\ Live /\ Wired /\ Apart /\ Fitting /\ Counted /\ Marks /\ DOMAIN call = CallFields
    BY <1>1, ServedHas DEF Live, CallOK
  <1>3. /\ First \in Replies /\ First.req \in Requests /\ First.req \in Pending
        /\ Fits(First.req) /\ Frank(First) /\ Count \in Nat /\ Count >= 1
    BY <1>2, FirstIs
  <1>4. \A w, p : Ends(w, p)' = Ends(w, p)
    BY <1>1 DEF Ends
  <1>5. CASE Retries(First)
    <2>1. Pop({Again}) /\ call' = call
      BY <1>5 DEF WatermarksReply
    <2>2. First.req.tries + 1 \in Nat /\ Again = [First.req EXCEPT !.tries = First.req.tries + 1]
      BY <1>3 DEF Again, Requests
    <2>3. /\ Wired' /\ Apart' /\ Fitting' /\ Count' = Count
          /\ \A w : (\A r \in Pending : r.want # w) => \A r \in Pending' : r.want # w
      BY <1>1, <1>2, <2>1, <2>2, AgainKeeps
    <2>4. Counted'
      BY <1>1, <1>2, <2>1, <2>3 DEF Counted
    <2>5. Marks'
      BY <1>2, <1>4, <2>1, <2>3 DEF Marks
    <2>6. Live'
      BY <1>1, <2>1, <2>3, <2>4, <2>5 DEF Live
    <2> QED BY <1>1, <1>2, <2>1, <2>6, ServedInv
  <1>6. CASE ~Retries(First)
    <2> DEFINE es == First.entries
               found == es # <<>>
               entry == es[1]
               err == IF ~found THEN "bad_msg" ELSE entry.err
               good == found /\ err = "ok"
               idx == call.offidx + 1
    <2>1. /\ Pop({})
          /\ call' = [call EXCEPT !.expired = @ \/ Lost,
                                  !.offs = IF good THEN [@ EXCEPT ![idx] = entry.off] ELSE @,
                                  !.erred = @ \/ ~good,
                                  !.offidx = idx,
                                  !.err = IF err # "ok" \/ idx = 2 THEN err ELSE @]
      BY <1>6 DEF WatermarksReply
    <2>2. /\ DOMAIN call' = CallFields /\ call'.st = call.st /\ call'.api = call.api
          /\ call'.parts = call.parts /\ call'.group = call.group /\ call'.leaders = call.leaders
          /\ call'.offs = (IF good THEN [call.offs EXCEPT ![idx] = entry.off] ELSE call.offs)
          /\ call'.erred = (call.erred \/ ~good) /\ call'.offidx = idx
          /\ call'.err = (IF err # "ok" \/ idx = 2 THEN err ELSE call.err)
      <3> HIDE DEF err, good, entry, idx
      <3> QED BY <1>2, <2>1 DEF CallFields
    <2>3. /\ Wired' /\ Apart' /\ Fitting' /\ Count' = Count - 1 + Cardinality({})
          /\ \A q \in Pending' : q \in Pending /\ ~Same(q, First.req)
      BY <1>1, <1>2, <2>1, <2>2, PopKeeps
    <2>4. call.offidx \in Nat /\ call.offidx + Count = 2 /\ Count' = Count - 1
      BY <1>1, <1>2, <1>3, <2>3, FS_EmptySet DEF Counted
    <2>5. idx \in {1, 2} /\ (idx = 1 <=> call.offidx = 0) /\ (idx = 2 <=> call.offidx = 1)
      BY <1>3, <2>4
    <2>6. Counted'
      BY <1>1, <1>3, <2>2, <2>4 DEF Counted
    <2>7. es \in Seq(Entries) /\ First.err \in {"ok", "transport"}
      BY <1>3 DEF Replies
    <2>8. good => /\ 1 \in 1..Len(es) /\ entry \in Entries /\ entry.off \in Int
                  /\ \A p \in call.parts : entry.off \in Ends(First.req.want, p)
      <3> SUFFICES ASSUME good
                   PROVE  /\ 1 \in 1..Len(es) /\ entry \in Entries /\ entry.off \in Int
                          /\ \A p \in call.parts : entry.off \in Ends(First.req.want, p)
        OBVIOUS
      <3>1. 1 \in 1..Len(es) /\ entry \in Entries
        BY <2>7
      <3>2. entry.off \in Int /\ entry.err = "ok"
        BY <3>1 DEF Entries
      <3>3. First.err = "ok" /\ Named(es) = Due(First.req)
        BY <1>3 DEF Frank
      <3>4. First.req.want \in {"lo", "hi"} /\ First.req.parts = call.parts
        BY <1>1, <1>3 DEF Fits
      <3>5. entry.p \in call.parts
        BY <3>1, <3>3, <3>4 DEF Named, Due
      <3>6. entry.off \in Ends(First.req.want, entry.p)
        BY <1>3, <3>1, <3>2, <3>4 DEF Frank
      <3>7. \A p \in call.parts : p = entry.p
        BY <1>1, <1>2, <3>5 DEF CallOK
      <3> QED BY <3>1, <3>2, <3>6, <3>7
    <2>9. call.offs \in [1..2 -> Int] /\ (call.err # "ok" \/ call.offidx = 2)
      BY <1>2 DEF Marks
    <2>10. First.req.want \in {"lo", "hi"} /\ \A q \in Pending' : q.want # First.req.want
      BY <1>1, <1>3, <2>3 DEF Fits, Same
    <2> HIDE DEF good, idx, entry
    <2>11. call'.offs \in [1..2 -> Int]
      BY <2>2, <2>5, <2>8, <2>9
    <2>12. call'.err # "ok" \/ call'.offidx = 2
      BY <2>2, <2>4, <2>5, <2>9
    <2>13. ASSUME ~call'.erred, NEW p \in call'.parts, call'.offidx = 1
           PROVE  \E w \in {"lo", "hi"} :
                      call'.offs[1] \in Ends(w, p)' /\ \A r \in Pending' : r.want # w
      <3>1. good /\ idx = 1 /\ p \in call.parts
        BY <2>2, <2>13
      <3>2. call'.offs[1] = entry.off
        BY <2>2, <2>9, <3>1
      <3> QED BY <1>4, <2>8, <2>10, <3>1, <3>2
    <2>14. ASSUME ~call'.erred, NEW p \in call'.parts, call'.offidx = 2
           PROVE  \E w \in {"lo", "hi"} :
                      call'.offs[1] \in Ends(w, p)' /\ call'.offs[2] \in Ends(Other(w), p)'
      <3>1. good /\ idx = 2 /\ p \in call.parts /\ ~call.erred /\ call.offidx = 1
        BY <2>2, <2>5, <2>14
      <3>2. call'.offs[1] = call.offs[1] /\ call'.offs[2] = entry.off
        BY <2>2, <2>9, <3>1
      <3>3. PICK w \in {"lo", "hi"} : call.offs[1] \in Ends(w, p) /\ \A r \in Pending : r.want # w
        BY <1>2, <3>1 DEF Marks
      <3>4. First.req.want = Other(w)
        BY <1>3, <2>10, <3>3 DEF Other
      <3> QED BY <1>4, <2>8, <3>1, <3>2, <3>3, <3>4
    <2>15. Marks'
      BY <2>11, <2>12, <2>13, <2>14 DEF Marks
    <2>16. Live'
      BY <1>1, <2>2, <2>3, <2>6, <2>15 DEF Live
    <2> QED BY <1>1, <2>1, <2>2, <2>16, ServedInv
  <1> QED BY <1>5, <1>6

(* rd_kafka_get_offsets_for_times_resp_cb(): a partition whose request is  *)
(* answered, and not sent again, has an entry.                             *)
LEMMA TimesReplyInv ==
    ASSUME Inv, TimesReply
    PROVE  Inv'
  <1>1. Served /\ call.api = "times" /\ env' = env
    BY DEF TimesReply
  <1>2. /\ CallOK /\ DOMAIN net = NetFields /\ net.batch # <<>>
        /\ Live /\ Wired /\ Apart /\ Fitting /\ Counted /\ Timed /\ DOMAIN call = CallFields
    BY <1>1, ServedHas DEF Live, CallOK
  <1>3. /\ First \in Replies /\ First.req \in Requests /\ First.req \in Pending
        /\ Fits(First.req) /\ Frank(First) /\ Count \in Nat
    BY <1>2, FirstIs
  <1> DEFINE es == First.entries
             rs == call.results
  <1>4. es \in Seq(Entries) /\ rs \in Seq(Entries) /\ First.err \in {"ok", "transport"}
    BY <1>2, <1>3 DEF Replies, Timed
  <1>5. First.req.want = "hi" /\ First.req.parts \subseteq Parts
    BY <1>1, <1>3 DEF Fits
  <1>6. \A i \in 1..Len(es) : es[i].p \in Parts /\ (es[i].err = "ok" => es[i].off \in env.seen[es[i].p])
    <2> SUFFICES ASSUME NEW i \in 1..Len(es)
                 PROVE  es[i].p \in Parts /\ (es[i].err = "ok" => es[i].off \in env.seen[es[i].p])
      OBVIOUS
    <2>1. es # <<>>
      BY <1>4
    <2>2. Named(es) = First.req.parts
      BY <1>3, <1>5, <2>1 DEF Frank, Due
    <2>3. es[i].p \in Parts
      BY <1>5, <2>2 DEF Named
    <2>4. es[i].err = "ok" => es[i].off \in Ends("hi", es[i].p)
      BY <1>3, <1>5 DEF Frank
    <2> QED BY <2>3, <2>4 DEF Ends
  <1>7. call'.results = rs \o es /\ DOMAIN call' = CallFields
        /\ call'.st = call.st /\ call'.api = call.api /\ call'.perr = call.perr
        /\ call'.parts = call.parts /\ call'.group = call.group /\ call'.leaders = call.leaders
    BY <1>2 DEF TimesReply, CallFields
  <1>8. \A i \in 1..Len(rs) : rs[i].p \in Parts /\ (rs[i].err = "ok" => rs[i].off \in env.seen[rs[i].p])
    BY <1>2 DEF Timed
  <1> HIDE DEF es, rs
  <1>9. rs \o es \in Seq(Entries) /\ Named(rs \o es) = Named(rs) \cup Named(es)
    BY <1>4, ConcatIs, ConcatNamed
  <1>10. \A i \in 1..Len(rs \o es) : \/ i \in 1..Len(rs) /\ (rs \o es)[i] = rs[i]
                                     \/ \E j \in 1..Len(es) : i = Len(rs) + j /\ (rs \o es)[i] = es[j]
    BY <1>4, ConcatAt
  <1>11. \A i \in 1..Len(rs \o es) :
           /\ (rs \o es)[i].p \in Parts
           /\ (rs \o es)[i].err = "ok" => (rs \o es)[i].off \in env.seen[(rs \o es)[i].p]
    BY <1>6, <1>8, <1>10
  <1>12. CASE Retries(First)
    <2>1. Pop({Again}) /\ call'.err = call.err /\ call'.n = call.n
      BY <1>2, <1>12 DEF TimesReply, CallFields
    <2>2. First.req.tries + 1 \in Nat /\ Again = [First.req EXCEPT !.tries = First.req.tries + 1]
      BY <1>3 DEF Again, Requests
    <2>3. /\ Wired' /\ Apart' /\ Fitting' /\ Count' = Count
          /\ \A p : Asked(p) => Asked(p)'
      BY <1>1, <1>2, <1>7, <2>1, <2>2, AgainKeeps
    <2>4. Counted'
      BY <1>1, <1>2, <1>7, <2>1, <2>3 DEF Counted
    <2>5. call'.err = "ok" => \A p \in call'.parts : \/ call'.perr[p] # "ok" \/ Asked(p)'
                                                    \/ p \in Named(call'.results)
      BY <1>2, <1>7, <1>9, <2>1, <2>3 DEF Timed, rs
    <2>6. Timed'
      BY <1>1, <1>7, <1>9, <1>11, <2>5 DEF Timed
    <2>7. Live'
      BY <1>1, <1>7, <2>3, <2>4, <2>6 DEF Live
    <2> QED BY <1>1, <1>7, <2>1, <2>7, ServedInv
  <1>13. CASE ~Retries(First)
    <2>1. /\ Pop({}) /\ call'.n = call.n - 1
          /\ call'.err = (IF call.err = "ok" THEN FirstErr(First) ELSE call.err)
      BY <1>2, <1>13 DEF TimesReply, CallFields
    <2>2. /\ Wired' /\ Apart' /\ Fitting' /\ Count' = Count - 1 + Cardinality({})
          /\ \A q \in Pending : q \in Pending' \/ q = First.req
      BY <1>1, <1>2, <1>7, <2>1, PopKeeps
    <2>3. Counted'
      BY <1>1, <1>2, <1>3, <1>7, <2>1, <2>2, FS_EmptySet DEF Counted
    <2>4. call'.err = "ok" => call.err = "ok" /\ Named(es) = First.req.parts
      <3>1. FirstErr(First) = "ok" => First.err = "ok"
        BY DEF FirstErr
      <3> QED BY <1>3, <1>5, <2>1, <3>1 DEF Frank, Due, es
    <2>5. \A p : Asked(p) => Asked(p)' \/ p \in First.req.parts
      BY <2>2 DEF Asked
    <2>6. call'.err = "ok" => \A p \in call'.parts : \/ call'.perr[p] # "ok" \/ Asked(p)'
                                                    \/ p \in Named(call'.results)
      BY <1>2, <1>7, <1>9, <2>4, <2>5 DEF Timed, rs
    <2>7. Timed'
      BY <1>1, <1>7, <1>9, <1>11, <2>6 DEF Timed
    <2>8. Live'
      BY <1>1, <1>7, <2>2, <2>3, <2>7 DEF Live
    <2> QED BY <1>1, <1>7, <2>1, <2>8, ServedInv
  <1> QED BY <1>12, <1>13

(* Only a call for groups asks for them.                                   *)
LEMMA GroupsOnly ==
    ASSUME CallOK, NEW r, Fits(r), r.want \in {"list", "describe"}
    PROVE  call.api = "groups"
  BY DEF CallOK, Apis, Fits

(* rd_kafka_ListGroups_resp_cb(): a broker with groups that are wanted is  *)
(* asked to describe them.                                                 *)
LEMMA ListReplyInv ==
    ASSUME Inv, ListReply
    PROVE  Inv'
  <1>1. Served /\ First.req.want = "list" /\ env' = env
    BY DEF ListReply
  <1>2. /\ CallOK /\ EnvOK /\ DOMAIN net = NetFields /\ net.batch # <<>>
        /\ Live /\ Wired /\ Apart /\ Fitting /\ Counted /\ DOMAIN call = CallFields
    BY <1>1, ServedHas DEF CallOK
  <1>3. /\ First \in Replies /\ First.req \in Requests /\ First.req \in Pending
        /\ Fits(First.req) /\ Frank(First) /\ Count \in Nat
    BY <1>2, FirstIs
  <1>4. call.api = "groups"
    BY <1>1, <1>2, <1>3, GroupsOnly
  <1>5. Listed
    BY <1>2, <1>4 DEF Live
  <1> DEFINE b == First.req.b
             wanted == Wanted(First)
             more == First.err = "ok" /\ wanted # {}
             x == Request(b, wanted, "describe")
             X == IF more THEN {x} ELSE {}
  <1>6. /\ Pop(X)
        /\ call' = [call EXCEPT
              !.n = IF more THEN @ ELSE @ - 1,
              !.err = IF First.err = "ok" /\ First.entries = <<>> THEN @ ELSE First.err,
              !.failed = IF First.err = "ok" THEN @ ELSE @ \cup {First.req.b}]
    BY DEF ListReply
  <1>7. b \in Hosts /\ First.err \in {"ok", "transport"} /\ First.entries \in Seq(Entries)
    BY <1>3 DEF Replies, Requests
  <1>8. First.err = "ok" => wanted = Wish(b)
    <2> SUFFICES ASSUME First.err = "ok" PROVE wanted = Wish(b)
      OBVIOUS
    <2>1. DOMAIN First.entries = 1..Len(First.entries)
      BY <1>7
    <2>2. Named(First.entries) = env.groups[b]
      BY <1>1, <1>3 DEF Frank, Due
    <2>3. wanted = env.groups[b] \cap (IF call.group = None THEN Groups ELSE {call.group})
      BY <2>1, <2>2 DEF Wanted, Named
    <2>4. env.groups[b] \subseteq Groups
      BY <1>2, <1>7 DEF EnvOK
    <2>5. None \notin Groups
      BY SyncCallsAssumption DEF None
    <2> HIDE DEF wanted
    <2> QED BY <2>3, <2>4, <2>5 DEF Wish
  <1>9. more => x \in Requests /\ x.b = b /\ x.want = "describe" /\ x.parts = Wish(b)
    <2> SUFFICES ASSUME more PROVE x \in Requests /\ x.b = b /\ x.want = "describe" /\ x.parts = Wish(b)
      OBVIOUS
    <2>1. wanted = Wish(b) /\ Wish(b) \subseteq Groups
      BY <1>2, <1>7, <1>8 DEF Wish, EnvOK
    <2> QED BY <1>7, <2>1 DEF Request, Requests, Wants, Subjects
  <1>10. more => Same(x, First.req) /\ Fits(x)
    BY <1>4, <1>9 DEF Same, Fits
  <1> HIDE DEF x, wanted
  <1>11. /\ DOMAIN call' = CallFields /\ call'.st = call.st /\ call'.api = call.api
         /\ call'.parts = call.parts /\ call'.group = call.group /\ call'.leaders = call.leaders
         /\ call'.list = call.list
         /\ call'.n = (IF more THEN call.n ELSE call.n - 1)
         /\ call'.err = (IF First.err = "ok" /\ First.entries = <<>> THEN call.err ELSE First.err)
         /\ call'.failed = (IF First.err = "ok" THEN call.failed ELSE call.failed \cup {b})
    BY <1>2, <1>6 DEF CallFields
  <1> HIDE DEF more
  <1>12. X = {} \/ \E y \in Requests : X = {y} /\ Same(y, First.req) /\ Fits(y)
    BY <1>9, <1>10
  <1>13. Cardinality(X) = (IF more THEN 1 ELSE 0)
    BY FS_EmptySet, FS_Singleton
  <1> HIDE DEF X
  <1>14. /\ Wired' /\ Apart' /\ Fitting' /\ Count' = Count - 1 + Cardinality(X)
         /\ X \subseteq Pending'
         /\ \A q \in Pending' : q \in X \/ (q \in Pending /\ ~Same(q, First.req))
         /\ \A q \in Pending : q \in Pending' \/ q = First.req
    BY <1>1, <1>2, <1>6, <1>11, <1>12, PopKeeps
  <1>15. Counted'
    BY <1>2, <1>3, <1>4, <1>11, <1>13, <1>14 DEF Counted
  <1>16. \A d : Busy(d)' => Busy(d)
    BY <1>3, <1>9, <1>14 DEF Busy, X
  <1>17. \A d : Wish(d)' = Wish(d)
    BY <1>1, <1>11 DEF Wish
  <1>18. \A d \in Hosts \ call'.failed : Busy(d)' \/ Wish(d) \subseteq Named(call.list)
    <2> SUFFICES ASSUME NEW d \in Hosts \ call'.failed, ~Busy(d)'
                 PROVE  Wish(d) \subseteq Named(call.list)
      OBVIOUS
    <2>1. d \in Hosts \ call.failed
      BY <1>11
    <2>2. CASE ~Busy(d)
      BY <1>5, <2>1, <2>2 DEF Listed
    <2>3. CASE Busy(d)
      <3>1. d = b
        BY <1>14, <2>3 DEF Busy
      <3>2. First.err = "ok"
        BY <1>11, <3>1
      <3>3. ~more
        BY <1>9, <1>14, <3>1 DEF X, Busy
      <3>4. Wish(d) = {}
        BY <1>8, <3>1, <3>2, <3>3 DEF more
      <3> QED BY <3>4
    <2> QED BY <2>2, <2>3
  <1>19. call'.err \in {"ok", "transport"}
    BY <1>5, <1>7, <1>11 DEF Listed
  <1>20. Listed'
    BY <1>1, <1>5, <1>11, <1>16, <1>17, <1>18, <1>19 DEF Listed
  <1>21. Live'
    BY <1>4, <1>11, <1>14, <1>15, <1>20 DEF Live
  <1> QED BY <1>1, <1>6, <1>11, <1>21, ServedInv

(* rd_kafka_DescribeGroups_resp_cb(): no other broker has these groups.    *)
LEMMA DescribeReplyInv ==
    ASSUME Inv, DescribeReply
    PROVE  Inv'
  <1>1. Served /\ First.req.want = "describe" /\ env' = env /\ Pop({})
    BY DEF DescribeReply
  <1>2. /\ CallOK /\ EnvOK /\ DOMAIN net = NetFields /\ net.batch # <<>>
        /\ Live /\ Wired /\ Apart /\ Fitting /\ Counted /\ DOMAIN call = CallFields
    BY <1>1, ServedHas DEF CallOK
  <1>3. /\ First \in Replies /\ First.req \in Requests /\ First.req \in Pending
        /\ Fits(First.req) /\ Frank(First) /\ Count \in Nat
    BY <1>2, FirstIs
  <1>4. call.api = "groups"
    BY <1>1, <1>2, <1>3, GroupsOnly
  <1>5. Listed
    BY <1>2, <1>4 DEF Live
  <1> DEFINE b == First.req.b
             es == First.entries
             l == call.list
  <1>6. b \in Hosts /\ First.err \in {"ok", "transport"} /\ es \in Seq(Entries) /\ l \in Seq(Entries)
    BY <1>3, <1>5 DEF Replies, Requests, Listed
  <1>7. /\ DOMAIN call' = CallFields /\ call'.st = call.st /\ call'.api = call.api
        /\ call'.parts = call.parts /\ call'.group = call.group /\ call'.leaders = call.leaders
        /\ call'.list = l \o es /\ call'.n = call.n - 1 /\ call'.err = First.err
        /\ call'.failed = (IF First.err = "ok" THEN call.failed ELSE call.failed \cup {b})
    BY <1>2 DEF DescribeReply, CallFields
  <1>8. /\ Wired' /\ Apart' /\ Fitting' /\ Count' = Count - 1 + Cardinality({})
        /\ \A q \in Pending' : q \in Pending /\ ~Same(q, First.req)
        /\ \A q \in Pending : q \in Pending' \/ q = First.req
    BY <1>1, <1>2, <1>7, PopKeeps
  <1>9. Counted'
    BY <1>2, <1>3, <1>4, <1>7, <1>8, FS_EmptySet DEF Counted
  <1>10. First.req.parts = Wish(b) /\ Wish(b) \subseteq env.groups[b]
    BY <1>1, <1>3, <1>4 DEF Fits, Wish
  <1>11. /\ First.err = "ok" => Named(es) = Wish(b)
         /\ First.err # "ok" => Named(es) = {}
         /\ Named(es) \subseteq Wish(b)
    <2>1. First.err = "ok" => Named(es) = Wish(b)
      BY <1>1, <1>3, <1>10 DEF Frank, Due
    <2>2. First.err # "ok" => es = <<>>
      BY <1>3 DEF Frank
    <2>3. Named(<<>>) = {}
      BY DEF Named
    <2> QED BY <2>1, <2>2, <2>3
  <1>12. /\ \A i, j \in 1..Len(l) : i # j => l[i].p # l[j].p
         /\ \A i \in 1..Len(l) : \E d \in Hosts : l[i].p \in Wish(d)
         /\ \A d \in Hosts : Busy(d) => Named(l) \cap env.groups[d] = {}
         /\ \A d \in Hosts \ call.failed : Busy(d) \/ Wish(d) \subseteq Named(l)
    BY <1>5 DEF Listed
  <1>13. \A i, j \in 1..Len(es) : i # j => es[i].p # es[j].p
    BY <1>3 DEF Frank
  <1>14. Busy(b) /\ \A d : Busy(d)' => Busy(d) /\ d # b
    BY <1>3, <1>4, <1>8 DEF Busy, Same
  <1>15. \A d : Busy(d) => Busy(d)' \/ d = b
    BY <1>8 DEF Busy
  <1>16. /\ \A i \in 1..Len(l) : l[i].p \in Named(l)
         /\ \A i \in 1..Len(es) : es[i].p \in Named(es)
    BY DEF Named
  <1> HIDE DEF l, es, b
  <1>17. l \o es \in Seq(Entries) /\ Named(l \o es) = Named(l) \cup Named(es)
    BY <1>6, ConcatIs, ConcatNamed
  <1>18. \A i \in 1..Len(l \o es) : \/ i \in 1..Len(l) /\ (l \o es)[i] = l[i]
                                    \/ \E j \in 1..Len(es) : i = Len(l) + j /\ (l \o es)[i] = es[j]
    BY <1>6, ConcatAt
  <1>19. Named(l) \cap Named(es) = {}
    BY <1>6, <1>10, <1>11, <1>12, <1>14
  <1>20. \A i, j \in 1..Len(l \o es) : i # j => (l \o es)[i].p # (l \o es)[j].p
    <2> SUFFICES ASSUME NEW i \in 1..Len(l \o es), NEW j \in 1..Len(l \o es), i # j
                 PROVE  (l \o es)[i].p # (l \o es)[j].p
      OBVIOUS
    <2>1. CASE i \in 1..Len(l) /\ (l \o es)[i] = l[i]
      <3>1. CASE j \in 1..Len(l) /\ (l \o es)[j] = l[j]
        BY <1>12, <2>1, <3>1
      <3>2. CASE \E k \in 1..Len(es) : j = Len(l) + k /\ (l \o es)[j] = es[k]
        BY <1>16, <1>19, <2>1, <3>2
      <3> QED BY <1>18, <3>1, <3>2
    <2>2. ASSUME NEW k \in 1..Len(es), i = Len(l) + k, (l \o es)[i] = es[k]
          PROVE  (l \o es)[i].p # (l \o es)[j].p
      <3>1. CASE j \in 1..Len(l) /\ (l \o es)[j] = l[j]
        BY <1>16, <1>19, <2>2, <3>1
      <3>2. ASSUME NEW m \in 1..Len(es), j = Len(l) + m, (l \o es)[j] = es[m]
            PROVE  (l \o es)[i].p # (l \o es)[j].p
        <4>1. k # m
          BY <2>2, <3>2
        <4> QED BY <1>13, <2>2, <3>2, <4>1
      <3> QED BY <1>18, <3>1, <3>2
    <2> QED BY <1>18, <2>1, <2>2
  <1>21. \A i \in 1..Len(l \o es) : \E d \in Hosts : (l \o es)[i].p \in Wish(d)
    BY <1>6, <1>11, <1>12, <1>16, <1>18
  <1>22. \A d : Wish(d)' = Wish(d)
    BY <1>1, <1>7 DEF Wish
  <1>23. \A d \in Hosts : Busy(d)' => Named(l \o es) \cap env.groups[d] = {}
    <2> SUFFICES ASSUME NEW d \in Hosts, Busy(d)' PROVE Named(l \o es) \cap env.groups[d] = {}
      OBVIOUS
    <2>1. Named(l) \cap env.groups[d] = {} /\ d # b
      BY <1>12, <1>14
    <2>2. env.groups[b] \cap env.groups[d] = {}
      BY <1>2, <1>6, <2>1 DEF EnvOK
    <2> QED BY <1>10, <1>11, <1>17, <2>1, <2>2
  <1>24. \A d \in Hosts \ call'.failed : Busy(d)' \/ Wish(d) \subseteq Named(l \o es)
    <2> SUFFICES ASSUME NEW d \in Hosts \ call'.failed, ~Busy(d)'
                 PROVE  Wish(d) \subseteq Named(l \o es)
      OBVIOUS
    <2>1. d \in Hosts \ call.failed
      BY <1>7
    <2>2. CASE ~Busy(d)
      BY <1>12, <1>17, <2>1, <2>2
    <2>3. CASE Busy(d)
      <3>1. d = b /\ First.err = "ok"
        BY <1>7, <1>15, <2>3
      <3> QED BY <1>11, <1>17, <3>1
    <2> QED BY <2>2, <2>3
  <1>25. Listed'
    BY <1>1, <1>6, <1>7, <1>17, <1>20, <1>21, <1>22, <1>23, <1>24 DEF Listed
  <1>26. Live'
    BY <1>4, <1>7, <1>8, <1>9, <1>25 DEF Live
  <1> QED BY <1>1, <1>7, <1>26, ServedInv

-----------------------------------------------------------------------------
(* What the application is given.                                          *)

(* When the count is at zero nobody is asked.                              *)
LEMMA NothingLeft ==
    ASSUME Wired, Count = 0
    PROVE  Pending = {}
  <1>1. Cardinality(net.reqs) \in Nat /\ Len(Line) \in Nat
    BY FS_CardinalityType, LineIs DEF Wired
  <1>2. Cardinality(net.reqs) = 0 /\ Len(Line) = 0
    BY <1>1 DEF Count
  <1>3. net.reqs = {}
    BY <1>2, FS_EmptySet DEF Wired
  <1> QED BY <1>2, <1>3 DEF Pending

(* The least of some indices.                                              *)
LEMMA LeastAt ==
    ASSUME NEW T, T \subseteq Nat, T # {}
    PROVE  LET k == CHOOSE i \in T : \A j \in T : i <= j IN k \in T
  <1>1. \E x \in T : \A y \in T : ~(<<y, x>> \in OpToRel(<, Nat))
    BY NatLessThanWellFounded, WFMin
  <1>2. \E x \in T : \A y \in T : ~(y < x)
    BY <1>1, Zenon DEF OpToRel
  <1>3. \E x \in T : \A y \in T : x <= y
    BY <1>2
  <1> QED BY <1>3

(* A list whose entries are about different things is as long as they are. *)
LEMMA NamedCount ==
    ASSUME NEW l \in Seq(Entries), \A i, j \in 1..Len(l) : i # j => l[i].p # l[j].p
    PROVE  Cardinality(Named(l)) = Len(l)
  <1> DEFINE f == [i \in 1..Len(l) |-> l[i].p]
  <1>1. Len(l) \in Nat
    OBVIOUS
  <1>2. f \in Bijection(1..Len(l), Named(l))
    BY DEF Bijection, Injection, Surjection, IsInjective, Named
  <1>3. ExistsBijection(1..Len(l), Named(l))
    BY <1>2 DEF ExistsBijection
  <1>4. IsFiniteSet(1..Len(l)) /\ Cardinality(1..Len(l)) = Len(l)
    <2> DEFINE n == Len(l)
    <2>1. n \in Nat
      OBVIOUS
    <2> HIDE DEF n
    <2>2. IsFiniteSet(1..n) /\ Cardinality(1..n) = n
      BY <2>1, FS_Interval
    <2> QED BY <2>2 DEF n
  <1> QED BY <1>3, <1>4, FS_Bijection

(* rd_kafka_query_watermark_offsets(): two offsets, one of each end, in    *)
(* order.                                                                  *)
LEMMA WatermarksReturnInv ==
    ASSUME Inv, WatermarksReturn
    PROVE  Inv'
  <1> DEFINE o == OfEmpty(Ordered(call.offs[1], call.offs[2]))
             out == IF call.err # "ok" THEN None ELSE o
  <1>1. Waiting /\ call.api = "watermarks" /\ env' = env /\ Return(call.err, out)
    BY DEF WatermarksReturn
  <1>2. CallOK /\ EnvOK /\ Marks
    BY <1>1 DEF Inv, Live
  <1>3. /\ call'.st = "done" /\ call'.err = call.err /\ call'.out = out
        /\ call'.api = call.api /\ call'.parts = call.parts /\ call'.erred = call.erred
    BY <1>1, <1>2, ReturnIs
  <1>4. call'.err = "ok" /\ ~call'.erred => WatermarksTrue'
    <2> SUFFICES ASSUME call.err = "ok", ~call.erred PROVE WatermarksTrue'
      BY <1>3
    <2>1. PICK p \in Parts : call.parts = {p}
      BY <1>1, <1>2 DEF CallOK
    <2>2. PICK w \in {"lo", "hi"} :
            call.offs[1] \in Ends(w, p) /\ call.offs[2] \in Ends(Other(w), p)
      BY <1>2, <2>1 DEF Marks
    <2> DEFINE x == call.offs[1]
               y == call.offs[2]
               L == env.seenLo[p]
               H == env.seen[p]
    <2>3. L \subseteq Nat /\ H \subseteq Nat /\ 0 \in L /\ 0 \notin H /\ IsFiniteSet(L)
      BY <1>2 DEF EnvOK
    <2>4. (x \in L /\ y \in H) \/ (x \in H /\ y \in L)
      BY <2>2 DEF Ends, Other
    <2>5. call'.out = OfEmpty(Ordered(x, y))
      BY <1>3
    <2> HIDE DEF x, y, L, H
    <2>6. /\ x \in Nat /\ y \in Nat
          /\ OfEmpty(Ordered(x, y)) = IF x < y THEN <<x, y>> ELSE <<y, x>>
      <3>1. x \in Nat /\ y \in Nat
        BY <2>3, <2>4
      <3>2. \A u, v \in Nat : OfEmpty(<<u, v>>) = <<u, v>>
        BY DEF OfEmpty
      <3> QED BY <3>1, <3>2 DEF Ordered
    <2>7. Cardinality(L) = 1 => L = {0}
      <3> SUFFICES ASSUME Cardinality(L) = 1, NEW z \in L PROVE z = 0
        BY <2>3
      <3>1. PICK u : L = {u}
        BY <2>3, FS_Singleton
      <3> QED BY <2>3, <3>1
    <2> DEFINE low == call'.out[1]
               high == call'.out[2]
    <2>8. /\ low = (IF x < y THEN x ELSE y) /\ high = (IF x < y THEN y ELSE x)
      BY <2>5, <2>6
    <2> HIDE DEF low, high
    <2>9. low <= high /\ {low, high} \subseteq L \cup H
      BY <2>3, <2>4, <2>6, <2>8
    <2>10. Cardinality(L) = 1 => low \in L /\ high \in H
      BY <2>3, <2>4, <2>6, <2>7, <2>8
    <2>11. (CHOOSE q \in call'.parts : TRUE) = p
      BY <1>3, <2>1
    <2>12. env'.seenLo[p] = L /\ env'.seen[p] = H
      BY <1>1 DEF L, H
    <2> QED BY <2>9, <2>10, <2>11, <2>12 DEF WatermarksTrue, low, high
  <1>5. ResultTrue'
    BY <1>1, <1>3, <1>4 DEF ResultTrue
  <1> HIDE DEF out
  <1> QED BY <1>1, <1>5, ReturnInv

(* rd_kafka_offsets_for_times(): a partition without an entry has an error *)
(* of its own.                                                             *)
LEMMA TimesReturnInv ==
    ASSUME Inv, TimesReturn
    PROVE  Inv'
  <1> DEFINE err == IF call.n > 0 /\ call.err = "ok" THEN "timed_out" ELSE call.err
             out == IF err = "ok" THEN [p \in call.parts |-> Update(p)] ELSE None
  <1>1. Waiting /\ call.api = "times" /\ env' = env /\ Return(err, out)
    BY DEF TimesReturn
  <1>2. CallOK /\ EnvOK /\ Wired /\ Counted /\ Timed
    BY <1>1 DEF Inv, Live
  <1>3. /\ call'.st = "done" /\ call'.err = err /\ call'.out = out
        /\ call'.api = call.api /\ call'.parts = call.parts
    BY <1>1, <1>2, ReturnIs
  <1>4. err = "ok" => TimesTrue'
    <2> SUFFICES ASSUME err = "ok", NEW p \in call.parts
                 PROVE  Update(p).err # "ok" \/ Update(p).off \in env.seen[p]
      BY <1>1, <1>3 DEF TimesTrue
    <2>1. Cardinality(net.reqs) \in Nat /\ Len(Line) \in Nat
      BY <1>2, FS_CardinalityType, LineIs DEF Wired
    <2>2. call.err = "ok" /\ Count = 0
      BY <1>1, <1>2, <2>1 DEF Counted, Count
    <2>3. Pending = {}
      BY <1>2, <2>2, NothingLeft
    <2>4. call.perr[p] # "ok" \/ p \in Named(call.results)
      BY <1>2, <2>2, <2>3 DEF Timed, Asked
    <2> DEFINE rs == call.results
               at == {i \in DOMAIN rs : rs[i].p = p}
    <2>5. /\ rs \in Seq(Entries)
          /\ \A i \in 1..Len(rs) : rs[i].err = "ok" => rs[i].off \in env.seen[rs[i].p]
      BY <1>2 DEF Timed
    <2>6. DOMAIN rs = 1..Len(rs) /\ Len(rs) \in Nat
      BY <2>5
    <2>7. Update(p) = IF at = {} THEN Entry(p, call.perr[p], -1)
                      ELSE rs[CHOOSE i \in at : \A j \in at : i <= j]
      BY DEF Update
    <2>8. CASE at = {}
      <3>1. p \notin Named(rs)
        BY <2>6, <2>8 DEF Named
      <3>2. Update(p).err = call.perr[p]
        BY <2>7, <2>8 DEF Entry
      <3> QED BY <2>4, <3>1, <3>2
    <2>9. CASE at # {}
      <3> DEFINE k == CHOOSE i \in at : \A j \in at : i <= j
      <3>1. at \subseteq Nat
        BY <2>6
      <3> HIDE DEF at
      <3>2. k \in at
        BY <2>9, <3>1, LeastAt
      <3>3. Update(p) = rs[k]
        BY <2>7, <2>9
      <3> HIDE DEF k
      <3>4. k \in 1..Len(rs) /\ rs[k].p = p
        BY <2>6, <3>2 DEF at
      <3> QED BY <2>5, <3>3, <3>4
    <2> QED BY <2>8, <2>9
  <1>5. ResultTrue'
    BY <1>1, <1>3, <1>4 DEF ResultTrue
  <1> HIDE DEF err, out
  <1> QED BY <1>1, <1>5, ReturnInv

(* rd_kafka_list_groups(): what is in the list, and, without an error,     *)
(* that nothing is left out of it.                                         *)
LEMMA GroupsReturnInv ==
    ASSUME Inv, GroupsReturn
    PROVE  Inv'
  <1>1. Waiting /\ call.api = "groups" /\ env' = env
    BY DEF GroupsReturn
  <1>2. CallOK /\ EnvOK /\ Wired /\ Counted /\ Listed
    BY <1>1 DEF Inv, Live
  <1> DEFINE l == call.list
  <1>3. /\ l \in Seq(Entries)
        /\ \A i, j \in 1..Len(l) : i # j => l[i].p # l[j].p
        /\ \A i \in 1..Len(l) : \E b \in Hosts : l[i].p \in Wish(b)
        /\ \A b \in Hosts \ call.failed : Busy(b) \/ Wish(b) \subseteq Named(l)
        /\ call.err \in {"ok", "transport"}
    BY <1>2 DEF Listed
  <1>4. Cardinality(Named(l)) = Len(l)
    BY <1>3, NamedCount
  <1>5. ASSUME NEW err, Return(err, l), err = "ok" => call.n = 0, err = "partial" => l # <<>>
        PROVE  ResultTrue'
    <2>1. /\ call'.err = err /\ call'.out = l /\ call'.api = call.api
          /\ call'.failed = call.failed /\ call'.group = call.group
      BY <1>2, <1>5, ReturnIs
    <2>2. \A b : Wish(b)' = Wish(b)
      BY <1>1, <2>1 DEF Wish
    <2>3. {l[i].p : i \in DOMAIN l} = Named(l)
      BY <1>3 DEF Named
    <2>4. err = "partial" => Named(l) # {}
      <3> SUFFICES ASSUME err = "partial" PROVE l[1].p \in Named(l)
        OBVIOUS
      <3>1. l \in Seq(Entries) /\ l # <<>>
        BY <1>3, <1>5
      <3> HIDE DEF l
      <3>2. 1 \in 1..Len(l)
        BY <3>1
      <3> QED BY <3>2 DEF Named
    <2>5. \A g \in Named(l) : \E b \in Hosts : g \in Wish(b)
      BY <1>3 DEF Named
    <2>6. err = "ok" => \A b \in Hosts \ call.failed : Wish(b) \subseteq Named(l)
      <3> SUFFICES ASSUME err = "ok", NEW b \in Hosts \ call.failed PROVE Wish(b) \subseteq Named(l)
        OBVIOUS
      <3>1. Count = 0
        BY <1>1, <1>2, <1>5 DEF Counted
      <3>2. Pending = {}
        BY <1>2, <3>1, NothingLeft
      <3>3. ~Busy(b)
        BY <3>2 DEF Busy
      <3> QED BY <1>3, <3>3
    <2> HIDE DEF l
    <2>7. {call'.out[i].p : i \in DOMAIN call'.out} = Named(l) /\ Len(call'.out) = Len(l)
      BY <2>1, <2>3
    <2> DEFINE S == {call'.out[i].p : i \in DOMAIN call'.out}
    <2>8. S = Named(l)
      BY <2>7
    <2> HIDE DEF S
    <2>9. /\ Cardinality(S) = Len(call'.out)
          /\ \A g \in S : \E b \in Hosts : g \in Wish(b)'
          /\ call'.err = "ok" => \A b \in Hosts \ call'.failed : Wish(b)' \subseteq S
          /\ call'.err = "partial" => S # {}
      BY <1>4, <2>1, <2>2, <2>4, <2>5, <2>6, <2>7, <2>8
    <2>10. GroupsTrue'
      BY <2>9 DEF GroupsTrue, S
    <2> QED BY <1>1, <2>1, <2>10 DEF ResultTrue
  <1>6. ASSUME NEW err \in {"timed_out", "transport"}, Return(err, None)
        PROVE  ResultTrue'
    <2>1. call'.err = err
      BY <1>2, <1>6, ReturnIs
    <2> QED BY <2>1 DEF ResultTrue
  <1>7. call.n \in Nat
    <2>1. Cardinality(net.reqs) \in Nat /\ Len(Line) \in Nat
      BY <1>2, FS_CardinalityType, LineIs DEF Wired
    <2> QED BY <1>1, <1>2, <2>1 DEF Counted, Count
  <1>8. CASE call.n > 0 /\ call.err = "ok" /\ l = <<>>
    <2>1. Return("timed_out", None)
      BY <1>8 DEF GroupsReturn
    <2> QED BY <1>1, <1>6, <2>1, ReturnInv
  <1>9. CASE call.n > 0 /\ call.err = "ok" /\ l # <<>>
    <2>1. Return("partial", l)
      BY <1>9 DEF GroupsReturn
    <2>2. ResultTrue'
      BY <1>5, <1>9, <2>1
    <2> QED BY <1>1, <2>1, <2>2, ReturnInv
  <1>10. CASE ~(call.n > 0 /\ call.err = "ok")
    <2>1. Return(call.err, IF call.err = "ok" THEN l ELSE None)
      BY <1>10 DEF GroupsReturn
    <2>2. CASE call.err = "ok"
      <3>1. Return("ok", l) /\ call.n = 0
        BY <1>7, <1>10, <2>1, <2>2
      <3>2. ResultTrue'
        BY <1>5, <3>1
      <3> QED BY <1>1, <3>1, <3>2, ReturnInv
    <2>3. CASE call.err = "transport"
      <3>1. Return("transport", None)
        BY <2>1, <2>3
      <3> QED BY <1>1, <1>6, <3>1, ReturnInv
    <2> QED BY <1>3, <2>2, <2>3
  <1> QED BY <1>8, <1>9, <1>10

-----------------------------------------------------------------------------
(* All of it.                                                              *)

(* A step of somebody else.                                                *)
LEMMA StutterInv ==
    ASSUME Inv, UNCHANGED vars
    PROVE  Inv'
  <1>1. call' = call /\ net' = net /\ env' = env
    BY DEF vars
  <1>2. ResultTrue'
    BY <1>1, ResultSame DEF Inv
  <1>3. CallOK' /\ EnvOK' /\ DOMAIN net' = NetFields /\ (Fresh => Fresh')
    BY <1>1 DEF Inv, CallOK, EnvOK, Fresh
  <1>4. Line' = Line
    BY <1>1 DEF Line
  <1>5. Waiting => net'.batch \in Seq(Replies) /\ net'.replyq \in Seq(Replies)
    BY <1>1 DEF Inv, Live, Wired
  <1>6. Waiting => Live'
    BY <1>1, <1>4, <1>5, SameLive DEF Inv
  <1> QED BY <1>1, <1>2, <1>3, <1>6 DEF Inv, Waiting

(* Every step of the call, the brokers and the clock.                      *)
LEMMA NextInv == Inv /\ [Next]_vars => Inv'
  <1> SUFFICES ASSUME Inv, [Next]_vars PROVE Inv'
    OBVIOUS
  <1>1. CASE Call \/ Expire \/ Serve
    BY <1>1, QuietInv
  <1>2. CASE QueryLeaders
    BY <1>2, QueryInv
  <1>3. CASE QueryTimesOut \/ NoLeaders \/ GroupsTimeOut
    BY <1>3, FailsInv
  <1>4. CASE SendWatermarks
    BY <1>4, SendWatermarksInv
  <1>5. CASE SendTimes
    BY <1>5, SendTimesInv
  <1>6. CASE SendGroups
    BY <1>6, SendGroupsInv
  <1>7. CASE WatermarksReply
    BY <1>7, WatermarksReplyInv
  <1>8. CASE TimesReply
    BY <1>8, TimesReplyInv
  <1>9. CASE ListReply
    BY <1>9, ListReplyInv
  <1>10. CASE DescribeReply
    BY <1>10, DescribeReplyInv
  <1>11. CASE WatermarksReturn
    BY <1>11, WatermarksReturnInv
  <1>12. CASE TimesReturn
    BY <1>12, TimesReturnInv
  <1>13. CASE GroupsReturn
    BY <1>13, GroupsReturnInv
  <1>14. CASE StartsOver
    BY <1>14, StartsOverInv
  <1>15. ASSUME NEW p \in Parts, NEW b \in Hosts \cup {"unknown", "leaderless"},
                Grow(p) \/ Trim(p) \/ Move(p, b) \/ Metadata(p, b)
         PROVE  Inv'
    BY <1>15, ClusterInv
  <1>16. CASE BrokersKnown
    BY <1>16, ClusterInv
  <1>17. ASSUME NEW r \in net.reqs, NEW p, Answer(r) \/ Fail(r) \/ (p \in Parts /\ Refuse(r, p))
         PROVE  Inv'
    BY <1>17, AnswersInv
  <1>18. CASE UNCHANGED vars
    BY <1>18, StutterInv
  <1>19. CASE Library
    BY <1>1, <1>2, <1>3, <1>4, <1>5, <1>6, <1>7, <1>8, <1>9, <1>10, <1>11, <1>12, <1>13, <1>19
       DEF Library
  <1>20. CASE Cluster
    <2>1. CASE \E p \in Parts : Grow(p) \/ Trim(p)
      <3>1. PICK p \in Parts : Grow(p) \/ Trim(p)
        BY <2>1
      <3>2. PICK b : b \in Hosts
        BY SyncCallsAssumption
      <3> QED BY <1>15, <3>1, <3>2
    <2>2. CASE \E p \in Parts : \E b \in Hosts : Move(p, b)
      BY <1>15, <2>2
    <2>3. CASE \E r \in net.reqs : Answer(r) \/ Fail(r) \/ \E p \in Parts : Refuse(r, p)
      BY <1>17, <2>3
    <2> QED BY <1>16, <1>20, <2>1, <2>2, <2>3 DEF Cluster
  <1>21. CASE \E p \in Parts : \E found \in Hosts \cup {"unknown", "leaderless"} : Metadata(p, found)
    BY <1>15, <1>21
  <1> QED BY <1>1, <1>14, <1>18, <1>19, <1>20, <1>21 DEF Next

(* A call waits for exactly what it has asked for, and what it gives to    *)
(* the application was so while it ran: for any brokers, partitions and    *)
(* groups, any number of retries, and whatever is lost or moves meanwhile  *)
(* (rd_kafka_query_watermark_offsets(), rd_kafka_offsets_for_times(),      *)
(* rd_kafka_list_groups()).                                                *)
THEOREM CallsHonest == Spec => []CallsTrue
  <1>1. Init => Inv
    BY InitInv
  <1>2. Inv /\ [Next]_vars => Inv'
    BY NextInv
  <1>3. Inv => CallsTrue
    <2> SUFFICES ASSUME Inv PROVE WaitExact /\ ResultTrue
      BY DEF CallsTrue
    <2>1. Waiting => Wired /\ Counted
      BY DEF Inv, Live
    <2>2. Waiting => Len(Line) = Len(net.batch) + Len(net.replyq)
      BY <2>1, LineIs
    <2>3. Waiting => Len(net.batch) \in Nat /\ Len(net.replyq) \in Nat
      <3> DEFINE a == net.batch
                 b == net.replyq
      <3>1. Waiting => a \in Seq(Replies) /\ b \in Seq(Replies)
        BY <2>1 DEF Wired
      <3> HIDE DEF a, b
      <3>2. Waiting => Len(a) \in Nat /\ Len(b) \in Nat
        BY <3>1
      <3> QED BY <3>2 DEF a, b
    <2>4. Waiting => Cardinality(net.reqs) \in Nat
      BY <2>1, FS_CardinalityType DEF Wired
    <2>5. Waiting => Outstanding = Count
      <3> DEFINE u == Cardinality(net.reqs)
                 x == Len(net.batch)
                 y == Len(net.replyq)
                 z == Len(Line)
      <3>1. Outstanding = u + y + x /\ Count = u + z
        BY DEF Outstanding, Count
      <3>2. Waiting => u \in Nat /\ x \in Nat /\ y \in Nat /\ z = x + y
        BY <2>2, <2>3, <2>4
      <3> HIDE DEF u, x, y, z
      <3> QED BY <3>1, <3>2
    <2>6. WaitExact
      BY <2>1, <2>5 DEF WaitExact, Counted
    <2> QED BY <2>6 DEF Inv
  <1> QED BY <1>1, <1>2, <1>3, PTL DEF Spec
=============================================================================
