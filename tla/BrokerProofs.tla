---------------------------- MODULE BrokerProofs ----------------------------
(***************************************************************************)
(* Proofs about BrokerConn: RequestsKept and StreamSound hold for any      *)
(* number of requests, of any kind, any number of retries and requests in  *)
(* flight, and however often the connection fails.                         *)
(***************************************************************************)
EXTENDS BrokerConn, SequenceTheorems, FiniteSetTheorems, WellFoundedInduction, TLAPS

(* The records the broker thread works on.                                 *)
States == {"INIT", "DOWN", "TRY_CONNECT", "CONNECT", "APIVERSION_QUERY", "UP", "UPDATE"}
Errors == {"OK", "TRANSPORT", "TIMED_OUT", "TIMED_OUT_QUEUE", "DESTROY", "UNSUPPORTED_FEATURE"}
Buf == [corr : Nat, conn : Nat, part : BOOLEAN, sent : BOOLEAN, tries : 0..MaxRetries, ver : Nat]
Broker == [cf : Configs, st : States, trans : BOOLEAN, out : Seq(All), wait : Seq(All),
           retry : Seq(Reqs), conn : Nat, corr : Nat, infl : Nat, blk : Int, apiv : BOOLEAN,
           coord : BOOLEAN, nodename : Nat, epoch : Nat]
Answers == [r : Reqs, err : Errors]
Received == [r : All, corr : Nat]
Ghost == [ended : [Reqs -> Nat], got : [All -> Nat], issued : SUBSET Reqs,
          wire : All \cup {None}, mixed : BOOLEAN, av : BOOLEAN, early : BOOLEAN,
          bad : BOOLEAN, thread : {"runs", "ended"}]
Work == [b : Broker, rq : [All -> Buf], mainq : Seq(Answers), net : Seq(Received), ghost : Ghost]
Xmit == {"XMIT_BUF", "XMIT_RETRY"}
OpSet == [op : Xmit, r : Reqs] \cup [op : {"CONNECT", "NODE_NAME", "NODE_ID", "TERMINATE"}]

(* A request is in one place: a queue, an op, an answer, the hand of the   *)
(* thread that works on it (H), or it has ended.                           *)
Num(p) == IF p THEN 1 ELSE 0
Distinct(q) == \A i, j \in 1..Len(q) : q[i] = q[j] => i = j
Asked(q) == {q[i].r : i \in 1..Len(q)}
AskedOnce(q) == \A i, j \in 1..Len(q) : q[i].r = q[j].r => i = j
Carry(o) == {i \in 1..Len(o) : o[i].op \in Xmit}
Carried(o) == {o[i].r : i \in Carry(o)}
CarriedOnce(o) == \A i, j \in Carry(o) : o[i].r = o[j].r => i = j
Spread(w, o, H, r) ==
    Num(r \in ToSet(w.b.out)) + Num(r \in ToSet(w.b.wait)) + Num(r \in ToSet(w.b.retry))
    + Num(r \in Carried(o)) + Num(r \in Asked(w.mainq)) + Num(r \in H) + w.ghost.ended[r]
Kept(w, o, H) ==
    /\ Distinct(w.b.out) /\ Distinct(w.b.wait) /\ Distinct(w.b.retry)
    /\ AskedOnce(w.mainq) /\ CarriedOnce(o)
    /\ \A r \in Reqs : Spread(w, o, H, r) = Num(r \in w.ghost.issued)
    /\ Num(AV \in ToSet(w.b.out)) + Num(AV \in ToSet(w.b.wait)) + Num(AV \in H) <= 1

(* There is a transport from connecting on, and the versions are asked for *)
(* in one state only.                                                      *)
Linked(w) ==
    /\ w.b.trans <=> w.b.st \in {"CONNECT", "APIVERSION_QUERY", "UP", "UPDATE"}
    /\ AV \in ToSet(w.b.out) \cup ToSet(w.b.wait) => w.b.st = "APIVERSION_QUERY"

(* A correlation id belongs to one request of this connection.             *)
Numbers(w) ==
    /\ \A r \in All : w.rq[r].corr <= w.b.corr
    /\ \A i \in 1..Len(w.net) : w.net[i].corr \in 1..w.b.corr
    /\ \A r \in ToSet(w.b.out) :
         /\ w.rq[r].corr # 0 => w.rq[r].part
         /\ w.rq[r].part => w.rq[r].corr # 0 /\ w.rq[r].conn = w.b.conn /\ IsUp(w.b.st)
    /\ \A r \in ToSet(w.b.wait) : w.rq[r].corr # 0
    /\ \A r, x \in ToSet(w.b.out) \cup ToSet(w.b.wait) :
         w.rq[r].corr = w.rq[x].corr /\ w.rq[r].corr # 0 => r = x
    /\ \A i \in 1..Len(w.net) : \A r \in ToSet(w.b.wait) :
         w.net[i].corr = w.rq[r].corr => w.net[i].r = r
    /\ \A i \in 1..Len(w.net) : \A r \in ToSet(w.b.out) : w.net[i].corr # w.rq[r].corr

(* What was received of a request is covered by its tries.                 *)
Unused(w, r) == w.rq[r] = Fresh /\ w.ghost.got[r] = 0
Due(w, r) == w.ghost.got[r] <= w.rq[r].tries
Counted(w, o) ==
    /\ w.b.blk = Cardinality(ToSet(w.b.wait) \cap Blocking)
    /\ \A r \in Reqs : w.ghost.got[r] <= w.rq[r].tries + Num(w.rq[r].sent)
    /\ \A r \in Reqs \cap (ToSet(w.b.out) \cup ToSet(w.b.retry)) : Due(w, r)
    /\ \A r \in ToSet(w.b.retry) : ~w.rq[r].part /\ w.rq[r].corr = 0
    /\ \A i \in Carry(o) : IF o[i].op = "XMIT_BUF" THEN Unused(w, o[i].r) ELSE Due(w, o[i].r)
    /\ \A r \in Reqs \ w.ghost.issued : Unused(w, r)

(* Until the client terminates: what was begun is first in the queue, and  *)
(* so is the question for the versions until it is answered.               *)
Whole(w) ==
    /\ ~w.ghost.mixed
    /\ w.ghost.wire # None =>
         /\ w.b.out # <<>> /\ Head(w.b.out) = w.ghost.wire
         /\ w.rq[w.ghost.wire].part /\ w.ghost.wire \notin w.b.cf.unsupported
Asking(w) ==
    /\ ~w.ghost.early
    /\ w.b.st \in {"UP", "UPDATE"} => w.ghost.av
    /\ w.b.st = "APIVERSION_QUERY" =>
         /\ w.b.infl = 1
         /\ AV \in ToSet(w.b.wait) \/ (w.b.out # <<>> /\ Head(w.b.out) = AV)
         /\ \A r \in ToSet(w.b.out) : w.rq[r].part => r = AV
Leads(w) == bterm = "no" => Whole(w) /\ Asking(w)

Base(w, o, H) == /\ w \in Work /\ o \in Seq(OpSet) /\ Kept(w, o, H) /\ Linked(w) /\ Numbers(w)
                 /\ Counted(w, o) /\ ~w.ghost.bad
Inv == Base(W, ops, {}) /\ Leads(W) /\ bterm \in {"no", "flag", "op"}

-----------------------------------------------------------------------------
(* Sequences: what is in them, whether twice, and what is first.           *)

(* A set of natural numbers has a least element.                           *)
LEMMA Least ==
    ASSUME NEW T, T \subseteq Nat, T # {}
    PROVE  \E n \in T : \A k \in T : n <= k
  <1>1. PICK n \in T : \A k \in T : ~(<<k, n>> \in OpToRel(<, Nat))
    BY WFMin, NatLessThanWellFounded
  <1>2. ASSUME NEW k \in T PROVE n <= k
    <2>1. k \in Nat /\ n \in Nat /\ <<k, n>> \in Nat \X Nat
      OBVIOUS
    <2>2. ~(k < n)
      BY <1>1, <2>1 DEF OpToRel
    <2> QED BY <2>1, <2>2
  <1> QED BY <1>2

(* And Min is that element.                                                *)
LEMMA MinIs ==
    ASSUME NEW T, T \subseteq Nat, T # {}
    PROVE  Min(T) \in T /\ \A k \in T : Min(T) <= k
  BY Least DEF Min

(* The elements of a sequence.                                             *)
LEMMA ElemsIs ==
    ASSUME NEW S, NEW q \in Seq(S)
    PROVE  /\ Len(q) \in Nat /\ ToSet(q) = {q[i] : i \in 1..Len(q)} /\ ToSet(q) \subseteq S
           /\ q = <<>> <=> Len(q) = 0
           /\ q # <<>> => Head(q) \in ToSet(q) /\ Head(q) = q[1] /\ Len(q) > 0
           /\ IsFiniteSet(ToSet(q))
  <1>1. Len(q) \in Nat /\ DOMAIN q = 1..Len(q) /\ q \in [1..Len(q) -> S]
    OBVIOUS
  <1>2. ToSet(q) = {q[i] : i \in 1..Len(q)} /\ ToSet(q) \subseteq S
    BY <1>1 DEF ToSet
  <1>3. q = <<>> <=> Len(q) = 0
    OBVIOUS
  <1>4. ASSUME q # <<>> PROVE Head(q) \in ToSet(q) /\ Head(q) = q[1] /\ Len(q) > 0
    <2>1. Head(q) = q[1] /\ Len(q) > 0
      BY <1>4
    <2> QED BY <1>1, <1>2, <2>1
  <1>5. IsFiniteSet(1..Len(q))
    BY <1>1, FS_Interval
  <1>6. IsFiniteSet({q[i] : i \in 1..Len(q)})
    <2> DEFINE f == [i \in 1..Len(q) |-> q[i]]
               T == {q[i] : i \in 1..Len(q)}
    <2>1. f \in Surjection(1..Len(q), T)
      BY DEF Surjection
    <2> QED BY <1>5, <2>1, FS_Surjection
  <1> QED BY <1>1, <1>2, <1>3, <1>4, <1>6

(* An element is added at the end.                                         *)
LEMMA AppendSet ==
    ASSUME NEW S, NEW q \in Seq(S), NEW x \in S
    PROVE  /\ Append(q, x) \in Seq(S) /\ ToSet(Append(q, x)) = ToSet(q) \cup {x}
           /\ Append(q, x) # <<>> /\ (q # <<>> => Head(Append(q, x)) = Head(q))
           /\ Distinct(q) /\ x \notin ToSet(q) => Distinct(Append(q, x))
           /\ Len(Append(q, x)) = Len(q) + 1 /\ Len(q) \in Nat
  <1> DEFINE a == Append(q, x)
  <1>1. /\ a \in Seq(S) /\ Len(a) = Len(q) + 1 /\ Len(q) \in Nat
        /\ \A i \in 1..Len(q) : a[i] = q[i]
        /\ a[Len(q) + 1] = x
    OBVIOUS
  <1>0. a # <<>> /\ (q # <<>> => Head(a) = Head(q))
    <2>1. a \in Seq(S) /\ Len(a) > 0
      BY <1>1
    <2>2. q # <<>> => 1 \in 1..Len(q) /\ Head(q) = q[1]
      OBVIOUS
    <2>3. a # <<>> /\ Head(a) = a[1]
      BY <2>1, ElemsIs
    <2> QED BY <1>1, <2>2, <2>3
  <1> HIDE DEF a
  <1>2. ToSet(a) = {a[i] : i \in 1..Len(a)} /\ ToSet(q) = {q[i] : i \in 1..Len(q)}
    BY <1>1, ElemsIs
  <1>3. ToSet(a) = ToSet(q) \cup {x}
    BY <1>1, <1>2
  <1>4. Distinct(q) /\ x \notin ToSet(q) => Distinct(a)
    BY <1>1, <1>2 DEF Distinct
  <1> QED BY <1>0, <1>1, <1>3, <1>4 DEF a

(* The first element is taken away.                                        *)
LEMMA TailSet ==
    ASSUME NEW S, NEW q \in Seq(S), q # <<>>
    PROVE  /\ Tail(q) \in Seq(S) /\ Len(Tail(q)) = Len(q) - 1
           /\ \A i \in 1..(Len(q) - 1) : Tail(q)[i] = q[i + 1]
           /\ ToSet(Tail(q)) \subseteq ToSet(q)
           /\ Distinct(q) => Distinct(Tail(q)) /\ ToSet(Tail(q)) = ToSet(q) \ {Head(q)}
  <1> DEFINE t == Tail(q)
  <1>1. /\ t \in Seq(S) /\ Len(t) = Len(q) - 1 /\ Len(q) \in Nat \ {0} /\ Head(q) = q[1]
        /\ \A i \in 1..(Len(q) - 1) : t[i] = q[i + 1]
    OBVIOUS
  <1> HIDE DEF t
  <1>2. ToSet(t) = {t[i] : i \in 1..Len(t)} /\ ToSet(q) = {q[i] : i \in 1..Len(q)}
    BY <1>1, ElemsIs
  <1>3. ToSet(t) \subseteq ToSet(q)
    BY <1>1, <1>2
  <1>4. ASSUME Distinct(q) PROVE Distinct(t) /\ ToSet(t) = ToSet(q) \ {Head(q)}
    <2>1. Distinct(t)
      BY <1>1, <1>4 DEF Distinct
    <2>2. Head(q) \notin ToSet(t)
      BY <1>1, <1>2, <1>4 DEF Distinct
    <2>3. ASSUME NEW i \in 1..Len(q), q[i] # Head(q) PROVE q[i] \in ToSet(t)
      <3>1. i - 1 \in 1..Len(t) /\ t[i - 1] = q[i]
        BY <1>1, <2>3
      <3> QED BY <1>2, <3>1
    <2> QED BY <1>2, <1>3, <2>1, <2>2, <2>3
  <1> QED BY <1>1, <1>3, <1>4 DEF t

(* One sequence after another.                                             *)
LEMMA ConcatSet ==
    ASSUME NEW S, NEW p \in Seq(S), NEW q \in Seq(S)
    PROVE  /\ p \o q \in Seq(S) /\ ToSet(p \o q) = ToSet(p) \cup ToSet(q)
           /\ Distinct(p) /\ Distinct(q) /\ ToSet(p) \cap ToSet(q) = {} => Distinct(p \o q)
  <1> DEFINE a == p \o q
  <1>1. /\ a \in Seq(S) /\ Len(a) = Len(p) + Len(q) /\ Len(p) \in Nat /\ Len(q) \in Nat
        /\ \A i \in 1..Len(p) : a[i] = p[i]
        /\ \A i \in 1..Len(q) : a[Len(p) + i] = q[i]
    OBVIOUS
  <1> HIDE DEF a
  <1>2. /\ ToSet(a) = {a[i] : i \in 1..Len(a)} /\ ToSet(q) = {q[i] : i \in 1..Len(q)}
        /\ ToSet(p) = {p[i] : i \in 1..Len(p)}
    BY <1>1, ElemsIs
  <1>3. ASSUME NEW i \in 1..Len(a)
        PROVE  \/ i \in 1..Len(p) /\ a[i] = p[i]
               \/ i - Len(p) \in 1..Len(q) /\ a[i] = q[i - Len(p)]
    <2>1. CASE i <= Len(p)
      BY <1>1, <2>1
    <2>2. CASE ~(i <= Len(p))
      <3>1. i - Len(p) \in 1..Len(q) /\ Len(p) + (i - Len(p)) = i
        BY <1>1, <2>2
      <3> QED BY <1>1, <3>1
    <2> QED BY <2>1, <2>2
  <1>4. \A i \in 1..Len(p) : i \in 1..Len(a)
    BY <1>1
  <1>5. \A i \in 1..Len(q) : Len(p) + i \in 1..Len(a)
    BY <1>1
  <1>6. ToSet(a) = ToSet(p) \cup ToSet(q)
    BY <1>1, <1>2, <1>3, <1>4, <1>5
  <1>7. ASSUME Distinct(p), Distinct(q), ToSet(p) \cap ToSet(q) = {},
               NEW i \in 1..Len(a), NEW j \in 1..Len(a), a[i] = a[j]
        PROVE  i = j
    <2>1. CASE i \in 1..Len(p) /\ a[i] = p[i] /\ j \in 1..Len(p) /\ a[j] = p[j]
      BY <1>7, <2>1 DEF Distinct
    <2>2. CASE /\ i - Len(p) \in 1..Len(q) /\ a[i] = q[i - Len(p)]
               /\ j - Len(p) \in 1..Len(q) /\ a[j] = q[j - Len(p)]
      <3>1. i - Len(p) = j - Len(p)
        BY <1>7, <2>2 DEF Distinct
      <3> QED BY <1>1, <3>1
    <2>3. a[i] \in ToSet(p) /\ a[j] \in ToSet(q) => FALSE
      BY <1>7
    <2>4. a[i] \in ToSet(q) /\ a[j] \in ToSet(p) => FALSE
      BY <1>7
    <2> QED BY <1>2, <1>3, <2>1, <2>2, <2>3, <2>4
  <1> QED BY <1>1, <1>6, <1>7 DEF a, Distinct

(* An element is put in at a place.                                        *)
LEMMA InsertSet ==
    ASSUME NEW S, NEW q \in Seq(S), NEW n \in 1..(Len(q) + 1), NEW x \in S
    PROVE  /\ InsertAt(q, n, x) \in Seq(S) /\ ToSet(InsertAt(q, n, x)) = ToSet(q) \cup {x}
           /\ InsertAt(q, n, x) # <<>>
           /\ Head(InsertAt(q, n, x)) = IF n = 1 THEN x ELSE Head(q)
           /\ Distinct(q) /\ x \notin ToSet(q) => Distinct(InsertAt(q, n, x))
  <1> DEFINE p == SubSeq(q, 1, n - 1)
             m == p \o <<x>>
             s == SubSeq(q, n, Len(q))
             a == m \o s
  <1>0. Len(q) \in Nat /\ InsertAt(q, n, x) = a
    BY DEF InsertAt
  <1>1. p \in Seq(S) /\ Len(p) = n - 1 /\ \A i \in 1..(n - 1) : p[i] = q[i]
    OBVIOUS
  <1>2. /\ s \in Seq(S) /\ Len(s) = Len(q) + 1 - n
        /\ \A i \in 1..(Len(q) + 1 - n) : s[i] = q[i + n - 1]
    OBVIOUS
  <1> HIDE DEF p, s
  <1>3. m \in Seq(S) /\ Len(m) = n /\ (\A i \in 1..(n - 1) : m[i] = p[i]) /\ m[n] = x
    BY <1>1
  <1>4. <<x>> \in Seq(S) /\ ToSet(<<x>>) = {x} /\ Distinct(<<x>>)
    <2> DEFINE o == <<x>>
    <2>1. o \in Seq(S) /\ Len(o) = 1 /\ o[1] = x
      OBVIOUS
    <2> HIDE DEF o
    <2>2. ToSet(o) = {o[i] : i \in 1..Len(o)}
      BY <2>1, ElemsIs
    <2> QED BY <2>1, <2>2 DEF o, Distinct
  <1>5. ToSet(m) = ToSet(p) \cup {x} /\ a \in Seq(S) /\ ToSet(a) = ToSet(m) \cup ToSet(s)
    <2>1. ToSet(m) = ToSet(p) \cup {x}
      <3> DEFINE o == <<x>>
      <3>1. o \in Seq(S) /\ ToSet(o) = {x}
        BY <1>4
      <3> HIDE DEF o
      <3>2. ToSet(p \o o) = ToSet(p) \cup ToSet(o)
        BY <1>1, <3>1, ConcatSet
      <3> QED BY <3>1, <3>2 DEF o
    <2> HIDE DEF m
    <2>2. a \in Seq(S) /\ ToSet(a) = ToSet(m) \cup ToSet(s)
      BY <1>2, <1>3, ConcatSet
    <2> QED BY <2>1, <2>2
  <1>6. /\ ToSet(p) = {p[i] : i \in 1..Len(p)} /\ ToSet(q) = {q[i] : i \in 1..Len(q)}
        /\ ToSet(s) = {s[i] : i \in 1..Len(s)}
    BY <1>1, <1>2, ElemsIs
  <1>7. ToSet(p) \cup ToSet(s) = ToSet(q)
    <2>1. ASSUME NEW i \in 1..Len(q) PROVE q[i] \in ToSet(p) \cup ToSet(s)
      <3>1. CASE i < n
        BY <1>0, <1>1, <1>6, <3>1
      <3>2. CASE ~(i < n)
        <4>1. i + 1 - n \in 1..Len(s) /\ (i + 1 - n) + n - 1 = i
          BY <1>0, <1>2, <3>2
        <4> QED BY <1>2, <1>6, <4>1
      <3> QED BY <3>1, <3>2
    <2>2. \A i \in 1..Len(p) : p[i] \in ToSet(q)
      BY <1>0, <1>1, <1>6
    <2>3. ASSUME NEW i \in 1..Len(s) PROVE s[i] \in ToSet(q)
      <3>1. i \in 1..(Len(q) + 1 - n) /\ i + n - 1 \in 1..Len(q)
        BY <1>0, <1>2
      <3> QED BY <1>2, <1>6, <3>1
    <2> QED BY <1>6, <2>1, <2>2, <2>3
  <1>8. ASSUME Distinct(q), x \notin ToSet(q) PROVE Distinct(a)
    <2>1. Distinct(p)
      BY <1>0, <1>1, <1>8 DEF Distinct
    <2>4. Distinct(s)
      <3>1. \A i \in 1..Len(s) : i \in 1..(Len(q) + 1 - n) /\ i + n - 1 \in 1..Len(q)
        BY <1>0, <1>2
      <3>2. SUFFICES ASSUME NEW i \in 1..Len(s), NEW j \in 1..Len(s), s[i] = s[j] PROVE i = j
        BY DEF Distinct
      <3>3. i + n - 1 = j + n - 1
        BY <1>2, <1>8, <3>1, <3>2 DEF Distinct
      <3> QED BY <3>3
    <2>2. ToSet(p) \cap ToSet(s) = {}
      <3>1. SUFFICES ASSUME NEW i \in 1..Len(p), NEW j \in 1..Len(s), p[i] = s[j] PROVE FALSE
        BY <1>6
      <3>2. i \in 1..Len(q) /\ j + n - 1 \in 1..Len(q) /\ i # j + n - 1
        BY <1>0, <1>1, <1>2
      <3> QED BY <1>1, <1>2, <1>8, <3>1, <3>2 DEF Distinct
    <2>3. Distinct(m)
      BY <1>1, <1>4, <1>7, <1>8, <2>1, ConcatSet, ZenonT(60)
    <2>5. ToSet(m) \cap ToSet(s) = {}
      BY <1>5, <1>7, <1>8, <2>2
    <2> HIDE DEF m
    <2> QED BY <1>2, <1>3, <2>3, <2>4, <2>5, ConcatSet
  <1>9. a # <<>> /\ Head(a) = IF n = 1 THEN x ELSE Head(q)
    <2>1. a # <<>> /\ Head(a) = a[1]
      <3>1. ToSet(a) # {}
        BY <1>5
      <3>2. Len(a) \in Nat /\ ToSet(a) = {a[i] : i \in 1..Len(a)}
        BY <1>5, ElemsIs, ZenonT(60)
      <3>3. Len(a) # 0
        BY <3>1, <3>2
      <3> QED BY <1>5, <3>3, ElemsIs
    <2>2. a[1] = m[1]
      <3> HIDE DEF m
      <3>1. 1 \in 1..Len(m)
        BY <1>3
      <3> QED BY <1>2, <1>3, <3>1
    <2>3. n # 1 => m[1] = q[1] /\ q # <<>>
      BY <1>0, <1>1, <1>3
    <2>4. q # <<>> => Head(q) = q[1]
      BY ElemsIs
    <2> QED BY <1>3, <2>1, <2>2, <2>3, <2>4
  <1> QED BY <1>0, <1>5, <1>7, <1>8, <1>9

(* The recursion by which Those is defined.                                *)
Steps(f, q, S) ==
    \A n \in 0..Len(q) : f[n] = IF n = 0 THEN <<>>
                                ELSE IF q[n] \in S THEN Append(f[n - 1], q[n]) ELSE f[n - 1]

(* A function that satisfies the recursion exists, and Those is its last   *)
(* value.                                                                  *)
LEMMA ThoseRec ==
    ASSUME NEW A, NEW q \in Seq(A), NEW S
    PROVE  \E f : Steps(f, q, S) /\ Those(q, S) = f[Len(q)]
  <1> DEFINE D(f, n) == IF n = 0 THEN <<>>
                        ELSE IF q[n] \in S THEN Append(f[n - 1], q[n]) ELSE f[n - 1]
             Good(f, m) == f = [n \in 0..m |-> D(f, n)]
             T == {m \in Nat : ~\E f : Good(f, m)}
  <1>0. Len(q) \in Nat
    OBVIOUS
  <1>1. T = {}
    <2>1. SUFFICES ASSUME T # {} PROVE FALSE
      OBVIOUS
    <2>2. PICK m \in T : \A k \in T : m <= k
      BY <2>1, Least
    <2>3. CASE m = 0
      <3> DEFINE g == [n \in 0..0 |-> <<>>]
      <3>1. Good(g, 0)
        OBVIOUS
      <3> QED BY <2>2, <2>3, <3>1
    <2>4. CASE m # 0
      <3>0. m \in Nat /\ m - 1 \in Nat
        BY <2>4
      <3>1. m - 1 \in Nat /\ m - 1 \notin T /\ m \in Nat
        <4> HIDE DEF T
        <4> QED BY <2>2, <3>0
      <3>2. PICK f : Good(f, m - 1)
        BY <3>1
      <3> DEFINE g == [n \in 0..m |-> IF n < m THEN f[n] ELSE D(f, n)]
      <3>3. \A n \in 0..(m - 1) : f[n] = D(f, n) /\ g[n] = f[n]
        <4>1. ASSUME NEW n \in 0..(m - 1) PROVE f[n] = D(f, n) /\ g[n] = f[n]
          <5>1. f = [k \in 0..(m - 1) |-> D(f, k)]
            BY <3>2
          <5>2. f[n] = D(f, n)
            BY <5>1
          <5>3. n < m /\ n \in 0..m
            BY <3>0
          <5> HIDE DEF D
          <5> QED BY <5>2, <5>3
        <4> HIDE DEF D, g
        <4> QED BY <4>1
      <3>4. ASSUME NEW n \in 0..m PROVE g[n] = D(g, n)
        <4>1. CASE n = 0
          <5>1. 0 \in 0..(m - 1)
            BY <3>0
          <5>2. g[0] = f[0] /\ f[0] = D(f, 0)
            BY <3>3, <5>1
          <5>3. D(f, 0) = D(g, 0)
            OBVIOUS
          <5> HIDE DEF D, g
          <5> QED BY <4>1, <5>2, <5>3
        <4>2. CASE n # 0
          <5>1. n - 1 \in 0..(m - 1)
            BY <3>1, <4>2
          <5>2. D(g, n) = D(f, n)
            BY <3>3, <4>2, <5>1
          <5>3. g[n] = D(f, n)
            <6>1. CASE n < m
              <7>1. n \in 0..(m - 1)
                BY <3>0, <6>1
              <7> HIDE DEF D, g
              <7> QED BY <3>3, <7>1
            <6>2. CASE ~(n < m)
              BY <6>2
            <6> QED BY <6>1, <6>2
          <5> QED BY <5>2, <5>3
        <4> QED BY <4>1, <4>2
      <3>5. Good(g, m)
        BY <3>4
      <3> QED BY <2>2, <3>5
    <2> QED BY <2>3, <2>4
  <1> DEFINE F == CHOOSE f : Good(f, Len(q))
  <1>2. Good(F, Len(q))
    <2>1. \E f : Good(f, Len(q))
      BY <1>0, <1>1
    <2> QED BY <2>1, ZenonT(60)
  <1>3. Those(q, S) = F[Len(q)]
    BY DEF Those
  <1> HIDE DEF F
  <1>4. Steps(F, q, S)
    BY <1>2 DEF Steps
  <1> QED BY <1>3, <1>4

(* The requests of a queue that are in a set; the first one stays first.   *)
LEMMA ThoseIs ==
    ASSUME NEW A, NEW q \in Seq(A), NEW S
    PROVE  /\ Those(q, S) \in Seq(A) /\ ToSet(Those(q, S)) = ToSet(q) \cap S
           /\ Distinct(q) => Distinct(Those(q, S))
           /\ q # <<>> /\ Head(q) \in S =>
                Those(q, S) # <<>> /\ Head(Those(q, S)) = Head(q)
  <1>0. Len(q) \in Nat /\ (\A i \in 1..Len(q) : q[i] \in A) /\ (q # <<>> => Head(q) = q[1])
    BY ElemsIs
  <1>1. PICK f : Steps(f, q, S) /\ Those(q, S) = f[Len(q)]
    BY ThoseRec
  <1> DEFINE Seen(n) == {q[i] : i \in 1..n}
             P(n) == /\ f[n] \in Seq(A) /\ ToSet(f[n]) = Seen(n) \cap S
                     /\ Distinct(q) => Distinct(f[n])
                     /\ n > 0 /\ q[1] \in S => f[n] # <<>> /\ Head(f[n]) = q[1]
             T == {n \in 0..Len(q) : ~P(n)}
  <1>2. T = {}
    <2>1. SUFFICES ASSUME T # {} PROVE FALSE
      OBVIOUS
    <2>2. PICK n \in T : \A k \in T : n <= k
      <3>1. T \subseteq Nat
        BY <1>0
      <3> QED BY <2>1, <3>1, Least
    <2>3. n \in Nat /\ n <= Len(q) /\ ~P(n)
      BY <1>0
    <2>4. CASE n = 0
      <3>1. f[0] = <<>>
        BY <1>0, <1>1 DEF Steps
      <3>2. <<>> \in Seq(A) /\ Len(<<>>) = 0
        OBVIOUS
      <3> DEFINE e == <<>>
      <3> HIDE DEF e
      <3>3. e \in Seq(A) /\ Len(e) = 0 /\ f[0] = e
        BY <3>1, <3>2 DEF e
      <3>4. ToSet(e) = {e[i] : i \in 1..Len(e)}
        BY <3>3, ElemsIs
      <3>5. ToSet(e) = {} /\ Distinct(e) /\ Seen(0) = {}
        BY <3>3, <3>4 DEF Distinct
      <3> QED BY <2>3, <2>4, <3>3, <3>5
    <2>5. CASE n # 0
      <3>0. n - 1 \in Nat /\ n - 1 \in 0..Len(q) /\ n \in 1..Len(q)
        BY <1>0, <2>3, <2>5
      <3>1. P(n - 1)
        <4>1. n - 1 \notin T
          <5> HIDE DEF T
          <5> QED BY <2>2, <2>3, <3>0
        <4> QED BY <3>0, <4>1
      <3>2. f[n] = IF q[n] \in S THEN Append(f[n - 1], q[n]) ELSE f[n - 1]
        BY <1>1, <2>5, <3>0 DEF Steps
      <3>3. Seen(n) = Seen(n - 1) \cup {q[n]}
        BY <3>0
      <3>4. Distinct(q) => q[n] \notin Seen(n - 1)
        BY <1>0, <3>0 DEF Distinct
      <3>5. n - 1 = 0 \/ n - 1 > 0
        BY <3>0
      <3> DEFINE g == f[n - 1]
      <3> HIDE DEF Seen
      <3>6. CASE q[n] \in S
        <4>1. g \in Seq(A) /\ q[n] \in A
          BY <1>0, <3>0, <3>1
        <4>2. f[n] = Append(g, q[n])
          BY <3>2, <3>6
        <4> HIDE DEF g
        <4>3. /\ f[n] \in Seq(A) /\ ToSet(f[n]) = ToSet(g) \cup {q[n]}
              /\ f[n] # <<>> /\ (g # <<>> => Head(f[n]) = Head(g))
              /\ Distinct(g) /\ q[n] \notin ToSet(g) => Distinct(f[n])
          BY <4>1, <4>2, AppendSet
        <4>4. ToSet(f[n]) = Seen(n) \cap S
          BY <3>1, <3>3, <3>6, <4>3 DEF g
        <4>5. Distinct(q) => Distinct(f[n])
          BY <3>1, <3>4, <4>3 DEF g
        <4>6. ASSUME q[1] \in S PROVE Head(f[n]) = q[1]
          <5>1. CASE n - 1 > 0
            BY <3>1, <4>3, <4>6, <5>1 DEF g
          <5>2. CASE n - 1 = 0
            <6>1. f[0] = <<>> /\ n = 1
              BY <1>0, <1>1, <2>3, <5>2 DEF Steps
            <6>3. g = <<>>
              BY <5>2, <6>1 DEF g
            <6>2. f[n] = <<q[1]>>
              BY <4>2, <6>1, <6>3
            <6> QED BY <6>2
          <5> QED BY <3>5, <5>1, <5>2
        <4> QED BY <2>3, <4>3, <4>4, <4>5, <4>6
      <3>7. CASE q[n] \notin S
        <4>1. f[n] = f[n - 1]
          BY <3>2, <3>7
        <4>2. n - 1 = 0 => q[1] \notin S
          BY <2>3, <3>7
        <4>3. ToSet(f[n]) = Seen(n) \cap S
          BY <3>1, <3>3, <3>7, <4>1
        <4> QED BY <2>3, <3>1, <3>5, <4>1, <4>2, <4>3
      <3> QED BY <3>6, <3>7
    <2> QED BY <2>4, <2>5
  <1>3. P(Len(q))
    <2>1. Len(q) \in 0..Len(q)
      BY <1>0
    <2>2. Len(q) \notin T
      <3> HIDE DEF T
      <3> QED BY <1>2
    <2> QED BY <2>1, <2>2
  <1>4. ToSet(q) = Seen(Len(q)) /\ (q # <<>> => Len(q) > 0)
    BY ElemsIs
  <1> QED BY <1>0, <1>1, <1>3, <1>4

(* And the others.                                                         *)
LEMMA DropIs ==
    ASSUME NEW A, NEW q \in Seq(A), NEW S
    PROVE  /\ Drop(q, S) \in Seq(A) /\ ToSet(Drop(q, S)) = ToSet(q) \ S
           /\ Distinct(q) => Distinct(Drop(q, S))
           /\ q # <<>> /\ Head(q) \notin S =>
                Drop(q, S) # <<>> /\ Head(Drop(q, S)) = Head(q)
  <1> DEFINE R == ToSet(q) \ S
  <1>1. Drop(q, S) = Those(q, R) /\ ToSet(q) \cap R = ToSet(q) \ S
    BY DEF Drop
  <1>2. q # <<>> => Head(q) \in ToSet(q)
    BY ElemsIs
  <1>3. q # <<>> /\ Head(q) \notin S => Head(q) \in R
    BY <1>2
  <1> HIDE DEF R
  <1>4. /\ Those(q, R) \in Seq(A) /\ ToSet(Those(q, R)) = ToSet(q) \cap R
        /\ Distinct(q) => Distinct(Those(q, R))
        /\ q # <<>> /\ Head(q) \in R => Those(q, R) # <<>> /\ Head(Those(q, R)) = Head(q)
    BY ThoseIs
  <1> QED BY <1>1, <1>3, <1>4

-----------------------------------------------------------------------------
(* Handlers are called one after the other.                                *)
Calls(v, w, rs, err) ==
    v[0] = w /\ \A n \in 1..Len(rs) : v[n] = Callback(v[n - 1], rs[n], err)

(* The same for CallAll.                                                   *)
LEMMA CallAllRec ==
    ASSUME NEW A, NEW rs \in Seq(A), NEW w, NEW err
    PROVE  \E v : Calls(v, w, rs, err) /\ CallAll(w, rs, err) = v[Len(rs)]
  <1> DEFINE D(f, n) == IF n = 0 THEN w ELSE Callback(f[n - 1], rs[n], err)
             Good(f, m) == f = [n \in 0..m |-> D(f, n)]
             T == {m \in Nat : ~\E f : Good(f, m)}
  <1>0. Len(rs) \in Nat
    OBVIOUS
  <1>1. T = {}
    <2>1. SUFFICES ASSUME T # {} PROVE FALSE
      OBVIOUS
    <2>2. PICK m \in T : \A k \in T : m <= k
      BY <2>1, Least
    <2>3. CASE m = 0
      <3> DEFINE g == [n \in 0..0 |-> w]
      <3>1. Good(g, 0)
        OBVIOUS
      <3> QED BY <2>2, <2>3, <3>1
    <2>4. CASE m # 0
      <3>0. m \in Nat /\ m - 1 \in Nat
        BY <2>4
      <3>1. m - 1 \in Nat /\ m - 1 \notin T /\ m \in Nat
        <4> HIDE DEF T
        <4> QED BY <2>2, <3>0
      <3>2. PICK f : Good(f, m - 1)
        BY <3>1
      <3> DEFINE g == [n \in 0..m |-> IF n < m THEN f[n] ELSE D(f, n)]
      <3>3. \A n \in 0..(m - 1) : f[n] = D(f, n) /\ g[n] = f[n]
        <4>1. ASSUME NEW n \in 0..(m - 1) PROVE f[n] = D(f, n) /\ g[n] = f[n]
          <5>1. f = [k \in 0..(m - 1) |-> D(f, k)]
            BY <3>2
          <5>2. f[n] = D(f, n)
            BY <5>1
          <5>3. n < m /\ n \in 0..m
            BY <3>0
          <5> HIDE DEF D
          <5> QED BY <5>2, <5>3
        <4> HIDE DEF D, g
        <4> QED BY <4>1
      <3>4. ASSUME NEW n \in 0..m PROVE g[n] = D(g, n)
        <4>1. CASE n = 0
          <5>1. 0 \in 0..(m - 1)
            BY <3>0
          <5>2. g[0] = f[0] /\ f[0] = D(f, 0)
            BY <3>3, <5>1
          <5>3. D(f, 0) = D(g, 0)
            OBVIOUS
          <5> HIDE DEF D, g
          <5> QED BY <4>1, <5>2, <5>3
        <4>2. CASE n # 0
          <5>1. n - 1 \in 0..(m - 1)
            BY <3>1, <4>2
          <5>2. D(g, n) = D(f, n)
            BY <3>3, <4>2, <5>1
          <5>3. g[n] = D(f, n)
            <6>1. CASE n < m
              <7>1. n \in 0..(m - 1)
                BY <3>0, <6>1
              <7> HIDE DEF D, g
              <7> QED BY <3>3, <7>1
            <6>2. CASE ~(n < m)
              BY <6>2
            <6> QED BY <6>1, <6>2
          <5> QED BY <5>2, <5>3
        <4> QED BY <4>1, <4>2
      <3>5. Good(g, m)
        BY <3>4
      <3> QED BY <2>2, <3>5
    <2> QED BY <2>3, <2>4
  <1> DEFINE F == CHOOSE f : Good(f, Len(rs))
  <1>2. Good(F, Len(rs))
    <2>1. \E f : Good(f, Len(rs))
      BY <1>0, <1>1
    <2> QED BY <2>1
  <1>3. CallAll(w, rs, err) = F[Len(rs)]
    BY DEF CallAll
  <1> HIDE DEF F
  <1>4. Calls(F, w, rs, err)
    <2>1. F[0] = w
      BY <1>0, <1>2
    <2>2. ASSUME NEW n \in 1..Len(rs) PROVE F[n] = Callback(F[n - 1], rs[n], err)
      <3>1. n \in 0..Len(rs) /\ n # 0
        BY <1>0
      <3> QED BY <1>2, <3>1
    <2> QED BY <2>1, <2>2 DEF Calls
  <1> QED BY <1>3, <1>4

-----------------------------------------------------------------------------
(* Records.                                                                *)
LEMMA Typed ==
    ASSUME NEW w \in Work
    PROVE  /\ w.b \in Broker /\ w.rq \in [All -> Buf] /\ w.mainq \in Seq(Answers)
           /\ w.net \in Seq(Received) /\ w.ghost \in Ghost
           /\ w.b.out \in Seq(All) /\ w.b.wait \in Seq(All) /\ w.b.retry \in Seq(Reqs)
           /\ w.b.conn \in Nat /\ w.b.corr \in Nat /\ w.b.blk \in Int /\ w.b.st \in States
           /\ w.b.cf \in Configs /\ w.b.infl \in Nat
           /\ w.ghost.ended \in [Reqs -> Nat] /\ w.ghost.got \in [All -> Nat]
           /\ w.ghost.issued \subseteq Reqs /\ w.ghost.wire \in All \cup {None}
  BY DEF Work, Broker, Ghost

(* What a step changes when handlers are called: the queue of retries, the *)
(* answers, the requests and what has ended.                               *)
Calm(w, u) == /\ u.b = [w.b EXCEPT !.retry = u.b.retry] /\ u.net = w.net
              /\ u.ghost = [w.ghost EXCEPT !.ended = u.ghost.ended]

Again(w, r) == [w.rq[r] EXCEPT !.part = FALSE, !.corr = 0, !.tries = Tries(w, r)]

(* A handler's call has four outcomes.                                     *)
Outcome(w, u, r, err) ==
    \/ /\ r = AV /\ u.b = w.b /\ u.mainq = w.mainq /\ u.ghost = w.ghost
       /\ u.rq = [w.rq EXCEPT ![r] = Fresh]
    \/ /\ r \in Reqs /\ u.b = w.b /\ u.ghost = w.ghost /\ u.rq = w.rq
       /\ u.mainq = Append(w.mainq, [r |-> r, err |-> err])
    \/ /\ r \in Reqs /\ u.b.retry = Append(w.b.retry, r) /\ u.mainq = w.mainq
       /\ u.ghost = w.ghost /\ u.rq = [w.rq EXCEPT ![r] = Again(w, r)]
    \/ /\ r \in Reqs /\ u.b = w.b /\ u.mainq = w.mainq /\ u.rq = w.rq
       /\ u.ghost.ended = [w.ghost.ended EXCEPT ![r] = @ + 1]

(* A call of a handler has one of four outcomes.                           *)
LEMMA CallbackIs ==
    ASSUME NEW w \in Work, NEW r \in All, NEW err \in Errors
    PROVE  /\ Callback(w, r, err) \in Work /\ Calm(w, Callback(w, r, err))
           /\ Outcome(w, Callback(w, r, err), r, err)
  <1> DEFINE u == Callback(w, r, err)
  <1>0. MaxRetries \in Nat /\ AV \notin Reqs
    BY BrokerAssumption
  <1>1. CASE r = AV
    <2>1. u = [w EXCEPT !.rq[AV] = Fresh]
      BY <1>1 DEF Callback
    <2>2. Fresh \in Buf
      BY <1>0 DEF Fresh, Buf
    <2> HIDE DEF u
    <2>3. u \in Work /\ u.b = w.b /\ u.mainq = w.mainq /\ u.ghost = w.ghost /\ u.net = w.net
          /\ u.rq = [w.rq EXCEPT ![r] = Fresh]
      BY <1>1, <2>1, <2>2 DEF Work
    <2>4. Calm(w, u)
      BY <2>3 DEF Calm, Work, Broker, Ghost
    <2> QED BY <1>1, <2>3, <2>4 DEF u, Outcome
  <1>2. CASE r # AV /\ r \in Main /\ err # "DESTROY"
    <2> DEFINE m == [r |-> r, err |-> err]
    <2>0. r \in Reqs /\ m \in Answers
      BY <1>2 DEF All, Answers
    <2>1. u = [w EXCEPT !.mainq = Append(@, m)]
      BY <1>2 DEF Callback
    <2> HIDE DEF u, m, Outcome
    <2>2. Append(w.mainq, m) \in Seq(Answers)
      BY <2>0, Typed
    <2>3. u \in Work /\ u.b = w.b /\ u.mainq = Append(w.mainq, m) /\ u.ghost = w.ghost
          /\ u.rq = w.rq /\ u.net = w.net
      BY <2>1, <2>2 DEF Work
    <2>4. Calm(w, u)
      BY <2>3 DEF Calm, Work, Broker, Ghost
    <2> QED BY <2>0, <2>3, <2>4 DEF u, m, Outcome
  <1>3. CASE r # AV /\ ~(r \in Main /\ err # "DESTROY") /\ MayRetry(w, r, err)
    <2>0. r \in Reqs
      BY <1>3 DEF All
    <2>1. u = BufRetry(CountTry(w, r), r)
      BY <1>3 DEF Callback
    <2>2. w.rq[r] \in Buf /\ w.rq \in [All -> Buf] /\ r \in DOMAIN w.rq
      BY Typed
    <2>3. Tries(w, r) \in 0..MaxRetries
      BY <1>0, <1>3, <2>2 DEF MayRetry, Tries, Buf
    <2>4. Again(w, r) \in Buf
      BY <2>2, <2>3 DEF Again, Buf
    <2> DEFINE x == CountTry(w, r)
    <2>5. x \in Work /\ x.b = w.b /\ x.mainq = w.mainq /\ x.ghost = w.ghost /\ x.net = w.net
          /\ x.rq = [w.rq EXCEPT ![r] = [w.rq[r] EXCEPT !.tries = Tries(w, r)]]
      <3>1. [w.rq[r] EXCEPT !.tries = Tries(w, r)] \in Buf
        BY <2>2, <2>3 DEF Buf
      <3> QED BY <2>2, <3>1 DEF CountTry, Work
    <2> HIDE DEF u, x
    <2>6. u = [x EXCEPT !.rq[r].part = FALSE, !.rq[r].corr = 0, !.b.retry = Append(@, r)]
      BY <2>1 DEF BufRetry, x
    <2>7. u.rq = [w.rq EXCEPT ![r] = Again(w, r)]
      <3>1. u.rq = [[x.rq EXCEPT ![r].part = FALSE] EXCEPT ![r].corr = 0]
        BY <2>5, <2>6 DEF Work
      <3>2. x.rq[r] = [w.rq[r] EXCEPT !.tries = Tries(w, r)]
        BY <2>2, <2>5
      <3>3. u.rq = [x.rq EXCEPT ![r] = [[x.rq[r] EXCEPT !.part = FALSE] EXCEPT !.corr = 0]]
        BY <2>2, <2>5, <3>1
      <3>4. [[x.rq[r] EXCEPT !.part = FALSE] EXCEPT !.corr = 0] = Again(w, r)
        BY <2>2, <3>2 DEF Again, Buf
      <3> QED BY <2>2, <2>5, <3>3, <3>4
    <2>8. Append(w.b.retry, r) \in Seq(Reqs)
      BY <2>0, Typed
    <2>9. u.b = [w.b EXCEPT !.retry = Append(w.b.retry, r)] /\ u.mainq = w.mainq
          /\ u.net = w.net /\ u.ghost = w.ghost
      BY <2>5, <2>6 DEF Work, Broker
    <2>10. u \in Work
      <3>1. u.b \in Broker /\ u.b.retry = Append(w.b.retry, r)
        BY <2>8, <2>9, Typed DEF Broker
      <3>2. u.rq \in [All -> Buf]
        BY <2>2, <2>4, <2>7
      <3>3. u = [b |-> u.b, rq |-> u.rq, mainq |-> u.mainq, net |-> u.net, ghost |-> u.ghost]
        BY <2>5, <2>6 DEF Work
      <3> QED BY <2>9, <3>1, <3>2, <3>3, Typed DEF Work
    <2>11. u.b.retry = Append(w.b.retry, r) /\ Calm(w, u)
      BY <2>9, <2>10, Typed DEF Calm, Broker, Ghost
    <2> QED BY <2>0, <2>7, <2>9, <2>10, <2>11 DEF u, Outcome
  <1>4. CASE r # AV /\ ~(r \in Main /\ err # "DESTROY") /\ ~MayRetry(w, r, err)
    <2>0. r \in Reqs
      BY <1>4 DEF All
    <2>1. u = [w EXCEPT !.ghost.ended[r] = @ + 1]
      BY <1>4 DEF Callback, Ends
    <2>2. [w.ghost.ended EXCEPT ![r] = @ + 1] \in [Reqs -> Nat]
      BY <2>0, Typed
    <2> HIDE DEF u
    <2>3. /\ u \in Work /\ u.b = w.b /\ u.mainq = w.mainq /\ u.rq = w.rq /\ u.net = w.net
          /\ u.ghost.ended = [w.ghost.ended EXCEPT ![r] = @ + 1]
          /\ u.ghost = [w.ghost EXCEPT !.ended = u.ghost.ended]
      BY <2>1, <2>2 DEF Work, Ghost
    <2>4. Calm(w, u)
      BY <2>3 DEF Calm, Work, Broker
    <2> QED BY <2>0, <2>3, <2>4 DEF u, Outcome
  <1> QED BY <1>1, <1>2, <1>3, <1>4

-----------------------------------------------------------------------------
(* Answers on their way to the main thread, and ops with a request.        *)
LEMMA AskAppend ==
    ASSUME NEW q \in Seq(Answers), NEW m \in Answers
    PROVE  /\ Append(q, m) \in Seq(Answers) /\ Asked(Append(q, m)) = Asked(q) \cup {m.r}
           /\ AskedOnce(q) /\ m.r \notin Asked(q) => AskedOnce(Append(q, m))
  <1> DEFINE a == Append(q, m)
  <1>1. /\ a \in Seq(Answers) /\ Len(a) = Len(q) + 1 /\ Len(q) \in Nat
        /\ \A i \in 1..Len(q) : a[i] = q[i]
        /\ a[Len(q) + 1] = m
    OBVIOUS
  <1> HIDE DEF a
  <1>2. Asked(a) = Asked(q) \cup {m.r}
    BY <1>1 DEF Asked
  <1>3. AskedOnce(q) /\ m.r \notin Asked(q) => AskedOnce(a)
    BY <1>1 DEF Asked, AskedOnce
  <1> QED BY <1>1, <1>2, <1>3 DEF a

(* The first answer is taken.                                              *)
LEMMA AskTail ==
    ASSUME NEW q \in Seq(Answers), q # <<>>, AskedOnce(q)
    PROVE  /\ Head(q) \in Answers /\ Tail(q) \in Seq(Answers) /\ AskedOnce(Tail(q))
           /\ Head(q).r \in Asked(q) /\ Asked(Tail(q)) = Asked(q) \ {Head(q).r}
  <1> DEFINE t == Tail(q)
             h == Head(q)
  <1>1. /\ t \in Seq(Answers) /\ Len(t) = Len(q) - 1 /\ Len(q) \in Nat \ {0}
        /\ h = q[1] /\ h \in Answers
        /\ \A i \in 1..(Len(q) - 1) : t[i] = q[i + 1]
    OBVIOUS
  <1> HIDE DEF t, h
  <1>2. AskedOnce(t)
    BY <1>1 DEF AskedOnce
  <1>3. h.r \in Asked(q) /\ h.r \notin Asked(t) /\ Asked(t) \subseteq Asked(q)
    <2>1. h.r \in Asked(q)
      BY <1>1 DEF Asked
    <2>2. \A i \in 1..Len(t) : i + 1 \in 1..Len(q) /\ t[i] = q[i + 1] /\ i + 1 # 1
      BY <1>1
    <2>3. 1 \in 1..Len(q)
      BY <1>1
    <2>4. \A i \in 1..Len(t) : t[i].r # h.r
      BY <1>1, <2>2, <2>3 DEF AskedOnce
    <2> QED BY <2>1, <2>2, <2>4 DEF Asked
  <1>4. ASSUME NEW i \in 1..Len(q), q[i].r # h.r PROVE q[i].r \in Asked(t)
    <2>1. i - 1 \in 1..Len(t) /\ t[i - 1] = q[i]
      BY <1>1, <1>4
    <2> QED BY <2>1 DEF Asked
  <1>5. Asked(t) = Asked(q) \ {h.r}
    BY <1>3, <1>4 DEF Asked
  <1> QED BY <1>1, <1>2, <1>3, <1>5 DEF t, h

(* An op that carries a request.                                           *)
LEMMA OpTypes ==
    ASSUME NEW x \in OpSet
    PROVE  x.op \in Xmit => x.r \in Reqs /\ x \in [op : Xmit, r : Reqs]
  BY DEF OpSet, Xmit

(* The ops that carry requests are finitely many.                          *)
LEMMA CarryIs ==
    ASSUME NEW o \in Seq(OpSet)
    PROVE  /\ Len(o) \in Nat /\ Carry(o) \subseteq 1..Len(o) /\ Carried(o) \subseteq Reqs
           /\ IsFiniteSet(Carry(o)) /\ Cardinality(Carry(o)) \in Nat
           /\ Cardinality(Carry(o)) = 0 => Carry(o) = {}
  <1>1. Len(o) \in Nat /\ Carry(o) \subseteq 1..Len(o)
    BY DEF Carry
  <1>2. \A i \in 1..Len(o) : o[i] \in OpSet
    OBVIOUS
  <1>3. Carried(o) \subseteq Reqs
    BY <1>1, <1>2, OpTypes DEF Carried, Carry
  <1>4. IsFiniteSet(1..Len(o))
    BY <1>1, FS_Interval
  <1>5. IsFiniteSet(Carry(o))
    BY <1>1, <1>4, FS_Subset
  <1> QED BY <1>1, <1>3, <1>5, FS_CardinalityType, FS_EmptySet

(* An op is added.                                                         *)
LEMMA CarryAppend ==
    ASSUME NEW o \in Seq(OpSet), NEW x \in OpSet, CarriedOnce(o),
           x.op \in Xmit => x.r \notin Carried(o)
    PROVE  /\ Append(o, x) \in Seq(OpSet) /\ CarriedOnce(Append(o, x))
           /\ Carried(Append(o, x)) = IF x.op \in Xmit THEN Carried(o) \cup {x.r} ELSE Carried(o)
           /\ \A i \in Carry(Append(o, x)) : \/ i \in Carry(o) /\ Append(o, x)[i] = o[i]
                                             \/ Append(o, x)[i] = x
  <1> DEFINE a == Append(o, x)
  <1>1. /\ a \in Seq(OpSet) /\ Len(a) = Len(o) + 1 /\ Len(o) \in Nat
        /\ \A i \in 1..Len(o) : a[i] = o[i]
        /\ a[Len(o) + 1] = x
    OBVIOUS
  <1> HIDE DEF a
  <1>2. Carry(a) = IF x.op \in Xmit THEN Carry(o) \cup {Len(o) + 1} ELSE Carry(o)
    BY <1>1 DEF Carry
  <1>3. \A i \in Carry(o) : i \in 1..Len(o) /\ a[i] = o[i]
    BY <1>1 DEF Carry
  <1>4. Carried(a) = IF x.op \in Xmit THEN Carried(o) \cup {x.r} ELSE Carried(o)
    BY <1>1, <1>2, <1>3 DEF Carried
  <1>5. CarriedOnce(a)
    BY <1>1, <1>2, <1>3 DEF Carried, CarriedOnce
  <1>6. \A i \in Carry(a) : (i \in Carry(o) /\ a[i] = o[i]) \/ a[i] = x
    BY <1>1, <1>2, <1>3
  <1> QED BY <1>1, <1>4, <1>5, <1>6 DEF a

(* The first op is taken.                                                  *)
LEMMA CarryTail ==
    ASSUME NEW o \in Seq(OpSet), o # <<>>, CarriedOnce(o)
    PROVE  /\ Head(o) \in OpSet /\ Tail(o) \in Seq(OpSet) /\ CarriedOnce(Tail(o))
           /\ Head(o).op \in Xmit => /\ 1 \in Carry(o) /\ o[1] = Head(o) /\ Head(o).r \in Carried(o)
                                     /\ Carried(Tail(o)) = Carried(o) \ {Head(o).r}
           /\ Head(o).op \notin Xmit => Carried(Tail(o)) = Carried(o)
           /\ \A i \in Carry(Tail(o)) : i + 1 \in Carry(o) /\ Tail(o)[i] = o[i + 1]
  <1> DEFINE t == Tail(o)
             h == Head(o)
  <1>1. /\ t \in Seq(OpSet) /\ Len(t) = Len(o) - 1 /\ Len(o) \in Nat \ {0}
        /\ h = o[1] /\ h \in OpSet
        /\ \A i \in 1..(Len(o) - 1) : t[i] = o[i + 1]
    OBVIOUS
  <1> HIDE DEF t, h
  <1>2. \A i \in Carry(t) : i + 1 \in Carry(o) /\ t[i] = o[i + 1] /\ i + 1 # 1 /\ i \in Nat
    BY <1>1 DEF Carry
  <1>3. \A i \in Carry(o) : i # 1 => i - 1 \in Carry(t) /\ t[i - 1] = o[i]
    <2>1. SUFFICES ASSUME NEW i \in Carry(o), i # 1 PROVE i - 1 \in Carry(t) /\ t[i - 1] = o[i]
      OBVIOUS
    <2>2. i \in 1..Len(o) /\ i - 1 \in 1..Len(t) /\ (i - 1) + 1 = i
      BY <1>1, <2>1 DEF Carry
    <2> QED BY <1>1, <2>1, <2>2 DEF Carry
  <1>4. 1 \in Carry(o) <=> h.op \in Xmit
    BY <1>1 DEF Carry
  <1>5. CarriedOnce(t)
    <2>1. SUFFICES ASSUME NEW i \in Carry(t), NEW j \in Carry(t), t[i].r = t[j].r PROVE i = j
      BY DEF CarriedOnce
    <2>2. i + 1 = j + 1 /\ i \in Nat /\ j \in Nat
      BY <1>2, <2>1 DEF CarriedOnce
    <2> QED BY <2>2
  <1>6. Carried(t) \subseteq Carried(o)
    BY <1>2 DEF Carried
  <1>7. ASSUME h.op \in Xmit PROVE h.r \in Carried(o) /\ Carried(t) = Carried(o) \ {h.r}
    <2>1. h.r \in Carried(o)
      BY <1>1, <1>4, <1>7 DEF Carried
    <2>2. \A i \in Carry(t) : t[i].r # h.r
      BY <1>1, <1>2, <1>4, <1>7 DEF CarriedOnce
    <2>3. \A i \in Carry(o) : o[i].r # h.r => o[i].r \in Carried(t)
      BY <1>1, <1>3 DEF Carried
    <2>4. h.r \notin Carried(t)
      BY <2>2 DEF Carried
    <2> QED BY <1>6, <2>1, <2>3, <2>4 DEF Carried
  <1>8. ASSUME h.op \notin Xmit PROVE Carried(t) = Carried(o)
    <2>1. \A i \in Carry(o) : o[i].r \in Carried(t)
      BY <1>3, <1>4, <1>8 DEF Carried
    <2> QED BY <1>6, <2>1 DEF Carried
  <1> QED BY <1>1, <1>2, <1>4, <1>5, <1>7, <1>8 DEF t, h

(* An op without a request goes to the front.                              *)
LEMMA CarryFront ==
    ASSUME NEW o \in Seq(OpSet), NEW x \in OpSet, x.op \notin Xmit, CarriedOnce(o)
    PROVE  /\ <<x>> \o o \in Seq(OpSet) /\ CarriedOnce(<<x>> \o o)
           /\ Carried(<<x>> \o o) = Carried(o)
           /\ \A i \in Carry(<<x>> \o o) : i - 1 \in Carry(o) /\ (<<x>> \o o)[i] = o[i - 1]
  <1> DEFINE a == <<x>> \o o
  <1>1. /\ a \in Seq(OpSet) /\ Len(a) = Len(o) + 1 /\ Len(o) \in Nat /\ a[1] = x
        /\ \A i \in 1..Len(o) : a[i + 1] = o[i]
    OBVIOUS
  <1> HIDE DEF a
  <1>2. ASSUME NEW i \in Carry(a) PROVE i - 1 \in Carry(o) /\ a[i] = o[i - 1] /\ i \in Nat
    <2>1. i \in 1..Len(a) /\ i # 1
      BY <1>1, <1>2 DEF Carry
    <2>2. i - 1 \in 1..Len(o) /\ (i - 1) + 1 = i
      BY <1>1, <2>1
    <2> QED BY <1>1, <1>2, <2>2 DEF Carry
  <1>3. \A i \in Carry(o) : i + 1 \in Carry(a) /\ a[i + 1] = o[i]
    BY <1>1 DEF Carry
  <1>4. Carried(a) = Carried(o)
    BY <1>2, <1>3 DEF Carried
  <1>5. CarriedOnce(a)
    <2>1. SUFFICES ASSUME NEW i \in Carry(a), NEW j \in Carry(a), a[i].r = a[j].r PROVE i = j
      BY DEF CarriedOnce
    <2>2. i - 1 = j - 1 /\ i \in Nat /\ j \in Nat
      BY <1>2, <2>1 DEF CarriedOnce
    <2> QED BY <2>2
  <1> QED BY <1>1, <1>2, <1>4, <1>5 DEF a

-----------------------------------------------------------------------------
(* A request is in one place.                                              *)
LEMMA OnlyThere ==
    ASSUME NEW w \in Work, NEW o, NEW H, Kept(w, o, H), NEW r \in Reqs
    PROVE  /\ r \in H => /\ r \notin ToSet(w.b.out) \cup ToSet(w.b.wait) \cup ToSet(w.b.retry)
                         /\ r \notin Carried(o) \cup Asked(w.mainq)
                         /\ w.ghost.ended[r] = 0 /\ r \in w.ghost.issued
           /\ r \in ToSet(w.b.out) => r \notin ToSet(w.b.wait) \cup ToSet(w.b.retry) \cup Carried(o)
           /\ r \in ToSet(w.b.wait) => r \notin ToSet(w.b.retry) \cup Carried(o)
           /\ r \in Carried(o) => r \notin ToSet(w.b.retry) /\ r \notin Asked(w.mainq)
           /\ r \in ToSet(w.b.out) \cup ToSet(w.b.wait) \cup ToSet(w.b.retry) =>
                r \in w.ghost.issued /\ r \notin Asked(w.mainq)
           /\ r \in Asked(w.mainq) \cup Carried(o) => r \in w.ghost.issued
  <1>1. w.ghost.ended[r] \in Nat
    BY Typed
  <1>2. Spread(w, o, H, r) = Num(r \in w.ghost.issued)
    BY DEF Kept
  <1> QED BY <1>1, <1>2 DEF Spread, Num

-----------------------------------------------------------------------------
(* What calling a handler leaves as it is.                                 *)
Alike(w, u) ==
    /\ u.b.st = w.b.st /\ u.b.trans = w.b.trans /\ u.b.out = w.b.out /\ u.b.wait = w.b.wait
    /\ u.b.conn = w.b.conn /\ u.b.corr = w.b.corr /\ u.b.blk = w.b.blk /\ u.b.cf = w.b.cf
    /\ u.b.infl = w.b.infl /\ u.net = w.net
    /\ u.ghost.got = w.ghost.got /\ u.ghost.issued = w.ghost.issued
    /\ u.ghost.wire = w.ghost.wire /\ u.ghost.mixed = w.ghost.mixed /\ u.ghost.av = w.ghost.av
    /\ u.ghost.early = w.ghost.early /\ u.ghost.bad = w.ghost.bad

(* What a call of a handler leaves alone.                                  *)
LEMMA CalmIs ==
    ASSUME NEW w \in Work, NEW u \in Work, Calm(w, u)
    PROVE  Alike(w, u)
  BY DEF Calm, Alike, Work, Broker, Ghost

(* The question for the versions is in one place.                          *)
LEMMA AVThere ==
    ASSUME NEW w, NEW o, NEW H, Kept(w, o, H)
    PROVE  /\ AV \in H => AV \notin ToSet(w.b.out) \cup ToSet(w.b.wait)
           /\ AV \in ToSet(w.b.out) => AV \notin ToSet(w.b.wait)
  BY DEF Kept, Num

(* A request in hand is in no queue.                                       *)
LEMMA HandIs ==
    ASSUME NEW w \in Work, NEW o, NEW H, Kept(w, o, H), NEW r \in All, r \in H
    PROVE  r \notin ToSet(w.b.out) \cup ToSet(w.b.wait)
  BY OnlyThere, AVThere DEF All

(* A handler takes a request out of the hand and puts it in one other      *)
(* place (rd_kafka_buf_callback()).                                        *)
LEMMA CallbackKeeps ==
    ASSUME NEW w, NEW o, NEW H, Base(w, o, H), NEW r \in All, r \in H, NEW err \in Errors
    PROVE  LET u == Callback(w, r, err)
           IN  Base(u, o, H \ {r}) /\ Alike(w, u) /\ (Leads(w) => Leads(u))
  <1> DEFINE u == Callback(w, r, err)
             G == H \ {r}
  <1>0. /\ w \in Work /\ o \in Seq(OpSet) /\ Kept(w, o, H) /\ Linked(w) /\ Numbers(w)
        /\ Counted(w, o) /\ ~w.ghost.bad /\ AV \notin Reqs
    BY BrokerAssumption DEF Base
  <1>o. u \in Work /\ Calm(w, u) /\ Outcome(w, u, r, err)
    BY <1>0, CallbackIs
  <1> HIDE DEF u
  <1>1. /\ u \in Work /\ Calm(w, u)
        /\ \/ /\ r = AV /\ u.b = w.b /\ u.mainq = w.mainq /\ u.ghost = w.ghost
              /\ u.rq = [w.rq EXCEPT ![r] = Fresh]
           \/ /\ r \in Reqs /\ u.b = w.b /\ u.ghost = w.ghost /\ u.rq = w.rq
              /\ u.mainq = Append(w.mainq, [r |-> r, err |-> err])
           \/ /\ r \in Reqs /\ u.b.retry = Append(w.b.retry, r) /\ u.mainq = w.mainq
              /\ u.ghost = w.ghost /\ u.rq = [w.rq EXCEPT ![r] = Again(w, r)]
           \/ /\ r \in Reqs /\ u.b = w.b /\ u.mainq = w.mainq /\ u.rq = w.rq
              /\ u.ghost.ended = [w.ghost.ended EXCEPT ![r] = @ + 1]
    BY <1>o DEF Outcome
  <1>2. Alike(w, u)
    BY <1>0, <1>1, CalmIs
  <1>t. /\ w.rq \in [All -> Buf] /\ w.mainq \in Seq(Answers) /\ w.b.retry \in Seq(Reqs)
        /\ w.b.out \in Seq(All) /\ w.b.wait \in Seq(All)
        /\ w.ghost.ended \in [Reqs -> Nat] /\ w.ghost.got \in [All -> Nat] /\ Reqs \subseteq All
    BY <1>0, Typed DEF All
  <1>3. r \notin ToSet(w.b.out) \cup ToSet(w.b.wait)
    BY <1>0, HandIs
  <1>4. r \in Reqs => /\ r \notin ToSet(w.b.retry) /\ r \notin Carried(o) /\ r \notin Asked(w.mainq)
                      /\ w.ghost.ended[r] = 0 /\ r \in w.ghost.issued
    BY <1>0, OnlyThere
  <1>5. ToSet(w.b.out) \subseteq All /\ ToSet(w.b.wait) \subseteq All /\ ToSet(w.b.retry) \subseteq Reqs
    BY <1>t, ElemsIs
  <1>6. \A x \in All \ {r} : u.rq[x] = w.rq[x]
    BY <1>1, <1>t
  <1>7. /\ Distinct(u.b.retry) /\ AskedOnce(u.mainq)
        /\ \A x \in Reqs : Num(x \in ToSet(u.b.retry)) + Num(x \in Asked(u.mainq)) + Num(x \in G)
                           + u.ghost.ended[x]
                         = Num(x \in ToSet(w.b.retry)) + Num(x \in Asked(w.mainq)) + Num(x \in H)
                           + w.ghost.ended[x]
    <2>0. Distinct(w.b.retry) /\ AskedOnce(w.mainq)
      BY <1>0 DEF Kept
    <2>1. CASE r = AV /\ u.b = w.b /\ u.mainq = w.mainq /\ u.ghost = w.ghost
      <3>1. \A x \in Reqs : x \in G <=> x \in H
        BY <1>0, <2>1
      <3> QED BY <2>0, <2>1, <3>1 DEF Num
    <2>2. CASE /\ r \in Reqs /\ u.b = w.b /\ u.ghost = w.ghost
               /\ u.mainq = Append(w.mainq, [r |-> r, err |-> err])
      <3> DEFINE m == [r |-> r, err |-> err]
      <3>1. m \in Answers /\ m.r = r
        BY <2>2 DEF Answers
      <3> HIDE DEF m
      <3>2. Asked(u.mainq) = Asked(w.mainq) \cup {r} /\ AskedOnce(u.mainq)
        BY <1>4, <1>t, <2>0, <2>2, <3>1, AskAppend DEF m
      <3>3. \A x \in Reqs : w.ghost.ended[x] \in Nat
        BY <1>t
      <3> QED BY <1>4, <2>0, <2>2, <3>2, <3>3 DEF Num
    <2>3. CASE /\ r \in Reqs /\ u.b.retry = Append(w.b.retry, r) /\ u.mainq = w.mainq
               /\ u.ghost = w.ghost
      <3>1. ToSet(u.b.retry) = ToSet(w.b.retry) \cup {r} /\ Distinct(u.b.retry)
        BY <1>4, <1>t, <2>0, <2>3, AppendSet
      <3>3. \A x \in Reqs : w.ghost.ended[x] \in Nat
        BY <1>t
      <3> QED BY <1>4, <2>0, <2>3, <3>1, <3>3 DEF Num
    <2>4. CASE /\ r \in Reqs /\ u.b = w.b /\ u.mainq = w.mainq
               /\ u.ghost.ended = [w.ghost.ended EXCEPT ![r] = @ + 1]
      <3>1. u.ghost.ended[r] = 1 /\ \A x \in Reqs \ {r} : u.ghost.ended[x] = w.ghost.ended[x]
        BY <1>4, <1>t, <2>4
      <3>2. \A x \in Reqs : w.ghost.ended[x] \in Nat
        BY <1>t
      <3> QED BY <1>4, <2>0, <2>4, <3>1, <3>2 DEF Num
    <2> QED BY <1>1, <2>1, <2>2, <2>3, <2>4
  <1>8. Kept(u, o, G)
    <2>1. \A x \in Reqs : Spread(u, o, G, x) = Spread(w, o, H, x)
      <3>1. \A x \in Reqs : w.ghost.ended[x] \in Nat /\ u.ghost.ended[x] \in Nat
        BY <1>1, <1>t, Typed
      <3> QED BY <1>2, <1>7, <3>1 DEF Spread, Num, Alike
    <2>2. Num(AV \in G) <= Num(AV \in H)
      BY DEF Num
    <2>3. /\ Num(AV \in ToSet(w.b.out)) + Num(AV \in ToSet(w.b.wait)) + Num(AV \in H) <= 1
          /\ Num(AV \in ToSet(w.b.out)) \in Nat /\ Num(AV \in ToSet(w.b.wait)) \in Nat
          /\ Num(AV \in H) \in Nat /\ Num(AV \in G) \in Nat
      BY <1>0 DEF Kept, Num
    <2>4. Num(AV \in ToSet(w.b.out)) + Num(AV \in ToSet(w.b.wait)) + Num(AV \in G) <= 1
      BY <2>2, <2>3
    <2> QED BY <1>0, <1>2, <1>7, <2>1, <2>4 DEF Kept, Alike
  <1>9. Linked(u)
    BY <1>0, <1>2 DEF Linked, Alike
  <1>10. u.rq[r].corr <= w.b.corr
    <2>1. w.b.corr \in Nat /\ w.rq[r].corr <= w.b.corr
      BY <1>0, Typed DEF Numbers
    <2>2. Fresh.corr = 0 /\ Again(w, r).corr = 0
      BY <1>t DEF Fresh, Again, Buf
    <2> QED BY <1>1, <1>t, <2>1, <2>2
  <1>11. Numbers(u)
    <2>1. \A x \in ToSet(w.b.out) \cup ToSet(w.b.wait) : u.rq[x] = w.rq[x]
      BY <1>3, <1>5, <1>6
    <2>2. \A x \in All : u.rq[x].corr <= w.b.corr
      BY <1>0, <1>6, <1>10 DEF Numbers
    <2> QED BY <1>0, <1>2, <2>1, <2>2 DEF Numbers, Alike
  <1>12. Counted(u, o)
    <2>1. u.rq[r] = w.rq[r] \/ r = AV \/ (r \in Reqs /\ u.rq[r] = Again(w, r))
      BY <1>1, <1>t
    <2>2. ASSUME r \in Reqs
          PROVE  /\ Again(w, r).tries = w.rq[r].tries + Num(w.rq[r].sent)
                 /\ Again(w, r).sent = w.rq[r].sent
                 /\ Again(w, r).corr = 0 /\ ~Again(w, r).part
                 /\ w.ghost.got[r] <= w.rq[r].tries + Num(w.rq[r].sent)
                 /\ w.ghost.got[r] \in Nat /\ w.rq[r].tries \in Nat /\ Num(w.rq[r].sent) \in Nat
      <3>1. w.rq[r] \in Buf /\ w.ghost.got[r] \in Nat
        BY <1>t
      <3>2. MaxRetries \in Nat
        BY BrokerAssumption
      <3> QED BY <1>0, <2>2, <3>1, <3>2 DEF Again, Buf, Tries, Num, Counted
    <2>3. \A x \in Reqs : u.ghost.got[x] <= u.rq[x].tries + Num(u.rq[x].sent)
      <3>1. \A x \in Reqs \ {r} : u.rq[x] = w.rq[x]
        BY <1>6, <1>t
      <3>2. r \in Reqs => u.ghost.got[r] <= u.rq[r].tries + Num(u.rq[r].sent)
        BY <1>0, <1>2, <2>1, <2>2 DEF Alike
      <3> QED BY <1>0, <1>2, <3>1, <3>2 DEF Alike, Counted
    <2>4. ASSUME NEW x \in Reqs \cap ToSet(w.b.out) PROVE Due(u, x)
      BY <1>0, <1>2, <1>3, <1>6, <1>t, <2>4 DEF Alike, Counted, Due
    <2>5. ASSUME NEW x \in ToSet(u.b.retry) PROVE Due(u, x) /\ ~u.rq[x].part /\ u.rq[x].corr = 0
      <3>1. CASE x \in ToSet(w.b.retry)
        <4>1. x # r /\ x \in All
          BY <1>4, <1>5, <1>t, <3>1
        <4> QED BY <1>0, <1>2, <1>5, <1>6, <3>1, <4>1 DEF Alike, Counted, Due
      <3>2. CASE x \notin ToSet(w.b.retry)
        <4>1. u.b.retry # w.b.retry
          BY <2>5, <3>2
        <4>2. /\ r \in Reqs /\ u.b.retry = Append(w.b.retry, r)
              /\ u.rq = [w.rq EXCEPT ![r] = Again(w, r)]
          BY <1>1, <4>1
        <4>3. x = r
          BY <1>t, <2>5, <3>2, <4>2, AppendSet
        <4>4. u.rq[r] = Again(w, r)
          BY <1>t, <4>2
        <4> QED BY <1>2, <2>2, <4>2, <4>3, <4>4 DEF Alike, Due
      <3> QED BY <3>1, <3>2
    <2>6. ASSUME NEW i \in Carry(o)
          PROVE  IF o[i].op = "XMIT_BUF" THEN Unused(u, o[i].r) ELSE Due(u, o[i].r)
      <3>1. o[i].r \in Carried(o) /\ o[i].r \in Reqs
        BY <1>0, CarryIs DEF Carried
      <3>2. o[i].r # r /\ o[i].r \in All
        BY <1>4, <1>t, <3>1
      <3>3. u.rq[o[i].r] = w.rq[o[i].r]
        BY <1>6, <3>2
      <3> QED BY <1>0, <1>2, <3>3 DEF Alike, Counted, Due, Unused
    <2>7. ASSUME NEW x \in Reqs \ w.ghost.issued PROVE Unused(u, x)
      <3>1. x # r /\ x \in All
        BY <1>4, <1>t
      <3> QED BY <1>0, <1>2, <1>6, <3>1 DEF Alike, Counted, Unused
    <2> QED BY <1>0, <1>2, <2>3, <2>4, <2>5, <2>6, <2>7 DEF Alike, Counted
  <1>13. ASSUME Leads(w) PROVE Leads(u)
    <2>1. \A x \in ToSet(w.b.out) : u.rq[x] = w.rq[x]
      BY <1>3, <1>5, <1>6
    <2>2. w.b.out # <<>> => Head(w.b.out) \in ToSet(w.b.out)
      BY <1>t, ElemsIs
    <2>3. Whole(w) => Whole(u)
      BY <1>2, <2>1, <2>2 DEF Whole, Alike
    <2>4. Asking(w) => Asking(u)
      BY <1>2, <2>1 DEF Asking, Alike
    <2> QED BY <1>13, <2>3, <2>4 DEF Leads
  <1>14. ~u.ghost.bad
    BY <1>0, <1>2 DEF Alike
  <1>15. Base(u, o, G)
    BY <1>0, <1>1, <1>8, <1>9, <1>11, <1>12, <1>14 DEF Base
  <1> QED BY <1>2, <1>13, <1>15 DEF u

(* Alike is transitive,                                                    *)
LEMMA AlikeTrans ==
    ASSUME NEW w, NEW u, NEW v, Alike(w, u), Alike(u, v)
    PROVE  Alike(w, v)
  BY DEF Alike

(* and reflexive.                                                          *)
LEMMA AlikeSelf ==
    ASSUME NEW w
    PROVE  Alike(w, w)
  BY DEF Alike

(* The handlers of the requests in hand are called.                        *)
LEMMA CallAllKeeps ==
    ASSUME NEW w, NEW o, NEW H, Base(w, o, H), NEW rs \in Seq(All), Distinct(rs),
           ToSet(rs) \subseteq H, NEW err \in Errors
    PROVE  /\ Base(CallAll(w, rs, err), o, H \ ToSet(rs)) /\ Alike(w, CallAll(w, rs, err))
           /\ Leads(w) => Leads(CallAll(w, rs, err))
  <1>0. /\ Len(rs) \in Nat /\ ToSet(rs) = {rs[i] : i \in 1..Len(rs)}
        /\ \A i \in 1..Len(rs) : rs[i] \in All
    BY ElemsIs
  <1>1. PICK v : Calls(v, w, rs, err) /\ CallAll(w, rs, err) = v[Len(rs)]
    BY CallAllRec
  <1> DEFINE Seen(n) == {rs[i] : i \in 1..n}
             P(n) == /\ Base(v[n], o, H \ Seen(n)) /\ Alike(w, v[n])
                     /\ Leads(w) => Leads(v[n])
             T == {n \in 0..Len(rs) : ~P(n)}
  <1>2. T = {}
    <2>1. SUFFICES ASSUME T # {} PROVE FALSE
      OBVIOUS
    <2>2. PICK n \in T : \A k \in T : n <= k
      <3>1. T \subseteq Nat
        BY <1>0
      <3> QED BY <2>1, <3>1, Least
    <2>3. n \in Nat /\ n <= Len(rs) /\ ~P(n)
      BY <1>0
    <2>4. CASE n = 0
      <3>1. v[0] = w /\ w \in Work
        BY <1>1 DEF Calls, Base
      <3>2. H \ Seen(0) = H
        OBVIOUS
      <3>3. Alike(w, w)
        BY <3>1, AlikeSelf
      <3> QED BY <2>3, <2>4, <3>1, <3>2, <3>3
    <2>5. CASE n # 0
      <3>0. n - 1 \in Nat /\ n - 1 \in 0..Len(rs) /\ n \in 1..Len(rs)
        BY <1>0, <2>3, <2>5
      <3>1. P(n - 1)
        <4>1. n - 1 \notin T
          <5> HIDE DEF T
          <5> QED BY <2>2, <2>3, <3>0
        <4> QED BY <3>0, <4>1
      <3>2. v[n] = Callback(v[n - 1], rs[n], err)
        BY <1>1, <3>0 DEF Calls
      <3>3. Seen(n) = Seen(n - 1) \cup {rs[n]}
        BY <3>0
      <3>4. rs[n] \notin Seen(n - 1)
        BY <1>0, <3>0 DEF Distinct
      <3>5. rs[n] \in H /\ rs[n] \in All
        BY <1>0, <3>0
      <3> DEFINE x == v[n - 1]
                 G == H \ Seen(n - 1)
                 r == rs[n]
      <3> HIDE DEF Seen, x
      <3>6. Base(x, o, G) /\ r \in G /\ r \in All /\ v[n] = Callback(x, r, err)
        BY <3>1, <3>2, <3>4, <3>5 DEF x
      <3>7. G \ {r} = H \ Seen(n)
        BY <3>3
      <3> HIDE DEF G, r, T, P
      <3>8. /\ Base(v[n], o, G \ {r}) /\ Alike(x, v[n])
            /\ Leads(x) => Leads(v[n])
        BY <3>6, CallbackKeeps
      <3>9. w \in Work /\ x \in Work /\ v[n] \in Work
        BY <3>6, <3>8 DEF Base
      <3>10. Alike(w, v[n])
        BY <3>1, <3>8, <3>9, AlikeTrans DEF x, P
      <3> QED BY <2>3, <3>1, <3>7, <3>8, <3>10 DEF x, P
    <2> QED BY <2>4, <2>5
  <1>3. P(Len(rs))
    <2>1. Len(rs) \in 0..Len(rs)
      BY <1>0
    <2>2. Len(rs) \notin T
      <3> HIDE DEF T
      <3> QED BY <1>2
    <2> QED BY <2>1, <2>2
  <1> QED BY <1>0, <1>1, <1>3

-----------------------------------------------------------------------------
(* rd_kafka_broker_fail(): all that is not to be retried is called back.   *)
Cleared(w) ==
    [w EXCEPT !.b.trans = FALSE, !.b.st = "DOWN", !.b.out = <<>>,
              !.b.apiv = @ /\ w.b.st # "APIVERSION_QUERY",
              !.b.wait = <<>>, !.b.blk = 0, !.net = <<>>, !.ghost.wire = None]

(* Nothing is in the empty sequence.                                       *)
LEMMA NoElems == <<>> \in Seq(All) /\ ToSet(<<>>) = {} /\ Distinct(<<>>) /\ Len(<<>>) = 0
  <1>1. <<>> \in Seq(All) /\ Len(<<>>) = 0
    OBVIOUS
  <1> DEFINE e == <<>>
  <1> HIDE DEF e
  <1>2. e \in Seq(All) /\ Len(e) = 0
    BY <1>1 DEF e
  <1>3. ToSet(e) = {e[i] : i \in 1..Len(e)}
    BY <1>2, ElemsIs
  <1>4. ToSet(e) = {} /\ Distinct(e)
    BY <1>2, <1>3 DEF Distinct
  <1> QED BY <1>1, <1>4 DEF e

(* The fields after the connection is closed.                              *)
LEMMA ClearedIs ==
    ASSUME NEW w \in Work, NEW v, v = Cleared(w)
    PROVE  /\ v \in Work /\ v.b.trans = FALSE /\ v.b.st = "DOWN" /\ v.b.out = <<>>
           /\ v.b.wait = <<>> /\ v.b.blk = 0 /\ v.net = <<>> /\ v.ghost.wire = None
           /\ v.b.retry = w.b.retry /\ v.b.corr = w.b.corr /\ v.rq = w.rq /\ v.mainq = w.mainq
           /\ v.ghost.ended = w.ghost.ended /\ v.ghost.got = w.ghost.got
           /\ v.ghost.issued = w.ghost.issued /\ v.ghost.mixed = w.ghost.mixed
           /\ v.ghost.early = w.ghost.early /\ v.ghost.bad = w.ghost.bad
  <1> DEFINE p == w.b.apiv /\ w.b.st # "APIVERSION_QUERY"
             c == [w.b EXCEPT !.trans = FALSE, !.st = "DOWN", !.out = <<>>, !.apiv = p,
                              !.wait = <<>>, !.blk = 0]
             g == [w.ghost EXCEPT !.wire = None]
  <1>1. /\ w.b \in Broker /\ w.ghost \in Ghost /\ w.b.apiv \in BOOLEAN
        /\ w.rq \in [All -> Buf] /\ w.mainq \in Seq(Answers)
        /\ w = [b |-> w.b, rq |-> w.rq, mainq |-> w.mainq, net |-> w.net, ghost |-> w.ghost]
    BY DEF Work, Broker
  <1>2. v = [b |-> c, rq |-> w.rq, mainq |-> w.mainq, net |-> <<>>, ghost |-> g]
    BY <1>1 DEF Cleared
  <1>3. g \in Ghost /\ g.wire = None /\ g.ended = w.ghost.ended /\ g.got = w.ghost.got
        /\ g.issued = w.ghost.issued /\ g.mixed = w.ghost.mixed
        /\ g.early = w.ghost.early /\ g.bad = w.ghost.bad
    BY <1>1 DEF Ghost
  <1>p. p \in BOOLEAN
    OBVIOUS
  <1> HIDE DEF p
  <1>4. c \in Broker /\ c.trans = FALSE /\ c.st = "DOWN" /\ c.out = <<>> /\ c.wait = <<>>
        /\ c.blk = 0 /\ c.retry = w.b.retry /\ c.corr = w.b.corr
    <2>1. <<>> \in Seq(All) /\ "DOWN" \in States
      BY DEF States
    <2>2. c.trans = FALSE /\ c.st = "DOWN" /\ c.out = <<>> /\ c.wait = <<>>
          /\ c.blk = 0 /\ c.retry = w.b.retry /\ c.corr = w.b.corr
      BY <1>1 DEF Broker
    <2>3. c \in Broker
      <3> DEFINE e == <<>>
                 d == [w.b EXCEPT !.trans = FALSE, !.st = "DOWN", !.out = e]
      <3>1. e \in Seq(All)
        BY <2>1
      <3> HIDE DEF e
      <3>2. d \in Broker
        BY <1>1, <2>1, <3>1 DEF Broker
      <3> DEFINE z == 0
      <3>3. c = [d EXCEPT !.apiv = p, !.wait = e, !.blk = z] /\ z \in Int
        BY <1>1 DEF Broker, e
      <3> HIDE DEF d, c, z
      <3> QED BY <1>p, <3>1, <3>2, <3>3 DEF Broker
    <2> QED BY <2>2, <2>3
  <1> HIDE DEF c, g
  <1>5. v.b = c /\ v.rq = w.rq /\ v.mainq = w.mainq /\ v.net = <<>> /\ v.ghost = g
    BY <1>2
  <1>6. v \in Work
    BY <1>1, <1>2, <1>3, <1>4 DEF Work
  <1> QED BY <1>3, <1>4, <1>5, <1>6

(* What a connection that is given up has to satisfy.                      *)
Near(w, o, H) == /\ w \in Work /\ o \in Seq(OpSet) /\ Kept(w, o, H) /\ Counted(w, o)
                 /\ (\A r \in All : w.rq[r].corr <= w.b.corr) /\ ~w.ghost.bad

(* Base without what is about the connection.                              *)
LEMMA BaseNear ==
    ASSUME NEW w, NEW o, NEW H, Base(w, o, H)
    PROVE  Near(w, o, H)
  BY DEF Base, Near, Numbers

(* The requests of the two queues are in hand.                             *)
LEMMA ClearedKeeps ==
    ASSUME NEW w, NEW o, NEW H, Near(w, o, H)
    PROVE  /\ Base(Cleared(w), o, H \cup ToSet(w.b.wait) \cup ToSet(w.b.out))
           /\ (bterm = "no" => ~w.ghost.mixed /\ ~w.ghost.early) => Leads(Cleared(w))
           /\ ToSet(w.b.wait) \cap ToSet(w.b.out) = {}
           /\ H \cap (ToSet(w.b.wait) \cup ToSet(w.b.out)) = {}
           /\ w.b.wait \in Seq(All) /\ w.b.out \in Seq(All)
           /\ Distinct(w.b.wait) /\ Distinct(w.b.out)
  <1> DEFINE v == Cleared(w)
             G == H \cup ToSet(w.b.wait) \cup ToSet(w.b.out)
  <1>0. /\ w \in Work /\ o \in Seq(OpSet) /\ Kept(w, o, H) /\ Counted(w, o) /\ ~w.ghost.bad
        /\ (\A r \in All : w.rq[r].corr <= w.b.corr) /\ AV \notin Reqs
    BY BrokerAssumption DEF Near
  <1>1. /\ v \in Work /\ v.b.trans = FALSE /\ v.b.st = "DOWN" /\ v.b.out = <<>>
        /\ v.b.wait = <<>> /\ v.b.blk = 0 /\ v.net = <<>> /\ v.ghost.wire = None
        /\ v.b.retry = w.b.retry /\ v.b.corr = w.b.corr /\ v.rq = w.rq /\ v.mainq = w.mainq
        /\ v.ghost.ended = w.ghost.ended /\ v.ghost.got = w.ghost.got
        /\ v.ghost.issued = w.ghost.issued /\ v.ghost.mixed = w.ghost.mixed
        /\ v.ghost.early = w.ghost.early /\ v.ghost.bad = w.ghost.bad
    BY <1>0, ClearedIs
  <1> HIDE DEF v
  <1>2. w.b.wait \in Seq(All) /\ w.b.out \in Seq(All) /\ w.ghost.ended \in [Reqs -> Nat]
    BY <1>0, Typed
  <1>3. ToSet(w.b.out) \subseteq All /\ ToSet(w.b.wait) \subseteq All
    BY <1>2, ElemsIs
  <1>4. ToSet(w.b.wait) \cap ToSet(w.b.out) = {}
    BY <1>0, <1>3, OnlyThere, AVThere DEF All
  <1>5. H \cap (ToSet(w.b.wait) \cup ToSet(w.b.out)) = {}
    BY <1>0, <1>3, HandIs
  <1>6. ToSet(v.b.out) = {} /\ ToSet(v.b.wait) = {} /\ Distinct(v.b.out) /\ Distinct(v.b.wait)
        /\ Len(v.net) = 0
    BY <1>1, NoElems
  <1>7. Kept(v, o, G)
    <2>1. ASSUME NEW x \in Reqs PROVE Spread(v, o, G, x) = Spread(w, o, H, x)
      <3>1. w.ghost.ended[x] \in Nat
        BY <1>2
      <3>2. Num(x \in G) = Num(x \in H) + Num(x \in ToSet(w.b.wait)) + Num(x \in ToSet(w.b.out))
        BY <1>4, <1>5 DEF Num
      <3>3. Num(x \in ToSet(v.b.out)) = 0 /\ Num(x \in ToSet(v.b.wait)) = 0
        BY <1>6 DEF Num
      <3> HIDE DEF G
      <3> QED BY <1>1, <3>1, <3>2, <3>3 DEF Spread, Num
    <2>2. Num(AV \in ToSet(v.b.out)) + Num(AV \in ToSet(v.b.wait)) + Num(AV \in G) <= 1
      BY <1>6 DEF Num
    <2>3. /\ Distinct(v.b.retry) /\ AskedOnce(v.mainq) /\ CarriedOnce(o)
          /\ \A x \in Reqs : Spread(w, o, H, x) = Num(x \in w.ghost.issued)
      BY <1>0, <1>1 DEF Kept
    <2> HIDE DEF G
    <2> QED BY <1>1, <1>6, <2>1, <2>2, <2>3 DEF Kept
  <1>8. Linked(v)
    BY <1>1, <1>6 DEF Linked
  <1>9. Numbers(v)
    <2>1. \A x \in All : v.rq[x].corr <= v.b.corr
      BY <1>0, <1>1
    <2> QED BY <1>6, <2>1 DEF Numbers
  <1>10. Counted(v, o)
    <2>1. Cardinality(ToSet(v.b.wait) \cap Blocking) = 0
      <3>1. ToSet(v.b.wait) \cap Blocking = {}
        BY <1>6
      <3> QED BY <3>1, FS_EmptySet
    <2> QED BY <1>0, <1>1, <1>6, <2>1 DEF Counted, Due, Unused
  <1>11. Base(v, o, G)
    BY <1>0, <1>1, <1>7, <1>8, <1>9, <1>10 DEF Base
  <1>12. (bterm = "no" => ~w.ghost.mixed /\ ~w.ghost.early) => Leads(v)
    BY <1>1 DEF Leads, Whole, Asking
  <1>13. Distinct(w.b.wait) /\ Distinct(w.b.out)
    BY <1>0 DEF Kept
  <1> QED BY <1>2, <1>4, <1>5, <1>11, <1>12, <1>13 DEF v

(* rd_kafka_broker_fail(): the requests that were sent or queued are each  *)
(* dealt with once.                                                        *)
LEMMA FailKeeps ==
    ASSUME NEW w, NEW o, NEW H, Near(w, o, H), NEW err \in Errors,
           bterm = "no" => ~w.ghost.mixed /\ ~w.ghost.early
    PROVE  Base(Fail(w, err), o, H) /\ Leads(Fail(w, err))
  <1> DEFINE v == Cleared(w)
             later == IF err = "TIMED_OUT" THEN "TIMED_OUT_QUEUE" ELSE err
             x == CallAll(v, w.b.wait, err)
             y == CallAll(x, w.b.out, later)
             G == H \cup ToSet(w.b.wait) \cup ToSet(w.b.out)
  <1>1. Fail(w, err) = y
    BY DEF Fail, Cleared
  <1>2. /\ Base(v, o, G) /\ Leads(v)
        /\ ToSet(w.b.wait) \cap ToSet(w.b.out) = {}
        /\ H \cap (ToSet(w.b.wait) \cup ToSet(w.b.out)) = {}
        /\ w.b.wait \in Seq(All) /\ w.b.out \in Seq(All)
        /\ Distinct(w.b.wait) /\ Distinct(w.b.out)
    BY ClearedKeeps
  <1>3. later \in Errors
    BY DEF Errors
  <1>4. ToSet(w.b.wait) \subseteq G
    OBVIOUS
  <1> DEFINE F == G \ ToSet(w.b.wait)
  <1>5. ToSet(w.b.out) \subseteq F /\ F \ ToSet(w.b.out) = H
    BY <1>2
  <1> HIDE DEF v, later, x, y, G, F
  <1>6. Base(x, o, F) /\ Leads(x)
    BY <1>2, <1>4, CallAllKeeps DEF x, F
  <1>7. Base(y, o, F \ ToSet(w.b.out)) /\ Leads(y)
    BY <1>2, <1>3, <1>5, <1>6, CallAllKeeps DEF y
  <1> QED BY <1>1, <1>5, <1>7

-----------------------------------------------------------------------------
(* The state of the connection changes, the requests stay where they are.  *)
Stays(w, u) ==
    /\ u.b.out = w.b.out /\ u.b.wait = w.b.wait /\ u.b.retry = w.b.retry
    /\ u.b.corr = w.b.corr /\ u.b.blk = w.b.blk /\ u.b.cf = w.b.cf
    /\ u.rq = w.rq /\ u.mainq = w.mainq /\ u.net = w.net
    /\ u.ghost.ended = w.ghost.ended /\ u.ghost.got = w.ghost.got
    /\ u.ghost.issued = w.ghost.issued /\ u.ghost.wire = w.ghost.wire
    /\ u.ghost.mixed = w.ghost.mixed /\ u.ghost.early = w.ghost.early
    /\ u.ghost.bad = w.ghost.bad

(* A change of the connection alone.                                       *)
LEMMA StaysKeeps ==
    ASSUME NEW w, NEW o, NEW H, Base(w, o, H), NEW u \in Work, Stays(w, u), Linked(u),
           IsUp(w.b.st) => IsUp(u.b.st) /\ u.b.conn = w.b.conn
    PROVE  Base(u, o, H) /\ (Whole(w) => Whole(u))
  <1>1. Kept(u, o, H)
    BY DEF Base, Kept, Spread, Stays
  <1>2. Numbers(u)
    BY DEF Base, Numbers, Stays
  <1>3. Counted(u, o)
    BY DEF Base, Counted, Due, Unused, Stays
  <1>4. Whole(w) => Whole(u)
    BY DEF Whole, Stays
  <1> QED BY <1>1, <1>2, <1>3, <1>4 DEF Base, Stays

(* Requests are taken out of the queues, into the hand.                    *)
Takes(w, u, S) ==
    /\ u.b.st = w.b.st /\ u.b.trans = w.b.trans /\ u.b.conn = w.b.conn /\ u.b.corr = w.b.corr
    /\ u.b.cf = w.b.cf /\ u.b.infl = w.b.infl
    /\ u.rq = w.rq /\ u.mainq = w.mainq /\ u.ghost = w.ghost
    /\ ToSet(u.b.out) = ToSet(w.b.out) \ S /\ Distinct(u.b.out)
    /\ ToSet(u.b.wait) = ToSet(w.b.wait) \ S /\ Distinct(u.b.wait)
    /\ ToSet(u.b.retry) = ToSet(w.b.retry) \ S /\ Distinct(u.b.retry)
    /\ u.b.blk = Cardinality(ToSet(u.b.wait) \cap Blocking)
    /\ \A i \in 1..Len(u.net) : \E j \in 1..Len(w.net) : u.net[i] = w.net[j]

(* What was begun, and the question for the versions, are not taken.       *)
Leaves(w, u, S) ==
    bterm = "no" =>
      /\ w.ghost.wire \notin S /\ AV \notin S
      /\ w.b.out # <<>> /\ Head(w.b.out) \in {w.ghost.wire, AV} =>
           u.b.out # <<>> /\ Head(u.b.out) = Head(w.b.out)

(* Requests are taken out of the queues.                                   *)
LEMMA TakesKeeps ==
    ASSUME NEW w, NEW o, NEW H, Base(w, o, H), NEW u \in Work, NEW S, Takes(w, u, S),
           S \subseteq ToSet(w.b.out) \cup ToSet(w.b.wait) \cup ToSet(w.b.retry)
    PROVE  /\ Base(u, o, H \cup S) /\ H \cap S = {}
           /\ Leads(w) /\ Leaves(w, u, S) => Leads(u)
  <1> DEFINE G == H \cup S
  <1>0. /\ w \in Work /\ o \in Seq(OpSet) /\ Kept(w, o, H) /\ Linked(w) /\ Numbers(w)
        /\ Counted(w, o) /\ ~w.ghost.bad /\ AV \notin Reqs
    BY BrokerAssumption DEF Base
  <1>1. /\ w.b.wait \in Seq(All) /\ w.b.out \in Seq(All) /\ w.b.retry \in Seq(Reqs)
        /\ w.ghost.ended \in [Reqs -> Nat]
    BY <1>0, Typed
  <1>2. ToSet(w.b.out) \subseteq All /\ ToSet(w.b.wait) \subseteq All /\ ToSet(w.b.retry) \subseteq Reqs
    BY <1>1, ElemsIs
  <1>3. AV \in S => AV \in ToSet(w.b.out) \cup ToSet(w.b.wait)
    BY <1>0, <1>2
  <1>4. \A x \in Reqs : x \in S => x \notin H
    BY <1>0, OnlyThere
  <1>5. AV \in S => AV \notin H
    BY <1>0, <1>3, AVThere
  <1>6. H \cap S = {}
    BY <1>2, <1>4, <1>5 DEF All
  <1>7. Kept(u, o, G)
    <2>1. ASSUME NEW x \in Reqs PROVE Spread(u, o, G, x) = Spread(w, o, H, x)
      <3>1. w.ghost.ended[x] \in Nat
        BY <1>1
      <3>2. x \in ToSet(w.b.out) => x \notin ToSet(w.b.wait) /\ x \notin ToSet(w.b.retry)
        BY <1>0, OnlyThere
      <3>3. x \in ToSet(w.b.wait) => x \notin ToSet(w.b.retry)
        BY <1>0, OnlyThere
      <3>4. Num(x \in ToSet(u.b.out)) + Num(x \in ToSet(u.b.wait)) + Num(x \in ToSet(u.b.retry))
            + Num(x \in G)
          = Num(x \in ToSet(w.b.out)) + Num(x \in ToSet(w.b.wait)) + Num(x \in ToSet(w.b.retry))
            + Num(x \in H)
        BY <1>4, <3>2, <3>3 DEF Takes, Num
      <3>5. u.mainq = w.mainq /\ u.ghost = w.ghost
        BY DEF Takes
      <3> HIDE DEF G
      <3> QED BY <3>1, <3>4, <3>5 DEF Spread, Num
    <2>2. Num(AV \in ToSet(u.b.out)) + Num(AV \in ToSet(u.b.wait)) + Num(AV \in G) <= 1
      <3>1. AV \in ToSet(w.b.out) => AV \notin ToSet(w.b.wait)
        BY <1>0, AVThere
      <3>2. AV \in H => AV \notin ToSet(w.b.out) \cup ToSet(w.b.wait)
        BY <1>0, AVThere
      <3> QED BY <1>3, <1>5, <3>1, <3>2 DEF Takes, Num
    <2>3. /\ AskedOnce(w.mainq) /\ CarriedOnce(o)
          /\ \A x \in Reqs : Spread(w, o, H, x) = Num(x \in w.ghost.issued)
      BY <1>0 DEF Kept
    <2> HIDE DEF G
    <2> QED BY <2>1, <2>2, <2>3 DEF Kept, Takes
  <1>8. Linked(u)
    BY <1>0 DEF Linked, Takes
  <1>9. Numbers(u)
    <2>1. ASSUME NEW i \in 1..Len(u.net)
          PROVE  /\ u.net[i].corr \in 1..u.b.corr
                 /\ \A x \in ToSet(u.b.wait) : u.net[i].corr = u.rq[x].corr => u.net[i].r = x
                 /\ \A x \in ToSet(u.b.out) : u.net[i].corr # u.rq[x].corr
      <3>1. PICK j \in 1..Len(w.net) : u.net[i] = w.net[j]
        BY DEF Takes
      <3> QED BY <1>0, <3>1 DEF Numbers, Takes
    <2>2. ToSet(u.b.out) \subseteq ToSet(w.b.out) /\ ToSet(u.b.wait) \subseteq ToSet(w.b.wait)
      BY DEF Takes
    <2>3. u.rq = w.rq /\ u.b.corr = w.b.corr /\ u.b.conn = w.b.conn /\ u.b.st = w.b.st
      BY DEF Takes
    <2>4. \A x \in ToSet(u.b.out) :
            /\ u.rq[x].corr # 0 => u.rq[x].part
            /\ u.rq[x].part => u.rq[x].corr # 0 /\ u.rq[x].conn = u.b.conn /\ IsUp(u.b.st)
      BY <1>0, <2>2, <2>3 DEF Numbers
    <2>5. \A r, x \in ToSet(u.b.out) \cup ToSet(u.b.wait) :
            u.rq[r].corr = u.rq[x].corr /\ u.rq[r].corr # 0 => r = x
      BY <1>0, <2>2, <2>3 DEF Numbers
    <2>6. (\A r \in All : u.rq[r].corr <= u.b.corr) /\ \A r \in ToSet(u.b.wait) : u.rq[r].corr # 0
      BY <1>0, <2>2, <2>3 DEF Numbers
    <2> QED BY <2>1, <2>4, <2>5, <2>6 DEF Numbers
  <1>10. Counted(u, o)
    BY <1>0 DEF Counted, Takes, Due, Unused
  <1>11. Base(u, o, G)
    BY <1>0, <1>7, <1>8, <1>9, <1>10 DEF Base, Takes
  <1>12. ASSUME Leads(w), Leaves(w, u, S) PROVE Leads(u)
    <2>1. SUFFICES ASSUME bterm = "no" PROVE Whole(u) /\ Asking(u)
      BY DEF Leads
    <2>2. Whole(u)
      BY <1>12, <2>1 DEF Leads, Leaves, Whole, Takes
    <2>3. Asking(u)
      BY <1>12, <2>1 DEF Leads, Leaves, Asking, Takes
    <2> QED BY <2>2, <2>3
  <1> QED BY <1>6, <1>11, <1>12

(* The ApiVersion request is made anew, or has been dealt with.            *)
Anew(w, f) == [w EXCEPT !.rq[AV] = f]
Asks(w, u, f) == /\ u.b = w.b /\ u.mainq = w.mainq /\ u.net = w.net /\ u.ghost = w.ghost
                 /\ u.rq = [w.rq EXCEPT ![AV] = f]

(* That disturbs no other request.                                         *)
LEMMA AskKeeps ==
    ASSUME NEW w, NEW o, NEW H, Base(w, o, H), AV \notin ToSet(w.b.out) \cup ToSet(w.b.wait),
           NEW G, G \subseteq H \cup {AV}, H \ {AV} \subseteq G,
           NEW f \in Buf, f.corr = 0, NEW u, u = Anew(w, f)
    PROVE  /\ Base(u, o, G) /\ Asks(w, u, f)
           /\ (bterm = "no" => w.ghost.wire = None) /\ Leads(w) => Leads(u)
  <1>0. /\ w \in Work /\ o \in Seq(OpSet) /\ Kept(w, o, H) /\ Linked(w) /\ Numbers(w)
        /\ Counted(w, o) /\ ~w.ghost.bad /\ AV \notin Reqs /\ AV \in All /\ Reqs \subseteq All
    BY BrokerAssumption DEF Base, All
  <1>1. /\ w.b.wait \in Seq(All) /\ w.b.out \in Seq(All) /\ w.b.retry \in Seq(Reqs)
        /\ w.ghost.ended \in [Reqs -> Nat] /\ w.rq \in [All -> Buf] /\ w.b.corr \in Nat
    BY <1>0, Typed
  <1>2. ToSet(w.b.out) \subseteq All /\ ToSet(w.b.wait) \subseteq All /\ ToSet(w.b.retry) \subseteq Reqs
    BY <1>1, ElemsIs
  <1>3. /\ u \in Work /\ u.b = w.b /\ u.mainq = w.mainq /\ u.net = w.net
        /\ u.ghost = w.ghost /\ u.rq = [w.rq EXCEPT ![AV] = f]
    BY <1>0, <1>1 DEF Work, Anew
  <1>4. u.rq[AV] = f /\ \A x \in All \ {AV} : u.rq[x] = w.rq[x]
    BY <1>0, <1>1, <1>3
  <1>5. \A x \in Reqs \cup ToSet(w.b.out) \cup ToSet(w.b.wait) : u.rq[x] = w.rq[x]
    BY <1>0, <1>2, <1>4
  <1>6. Kept(u, o, G)
    <2>1. \A x \in Reqs : x \in G <=> x \in H
      BY <1>0
    <2>2. \A x \in Reqs : Spread(u, o, G, x) = Spread(w, o, H, x)
      BY <1>3, <2>1 DEF Spread, Num
    <2>3. Num(AV \in ToSet(u.b.out)) + Num(AV \in ToSet(u.b.wait)) + Num(AV \in G) <= 1
      BY <1>3 DEF Num
    <2> QED BY <1>0, <1>3, <2>2, <2>3 DEF Kept
  <1>7. Linked(u)
    BY <1>0, <1>3 DEF Linked
  <1>8. Numbers(u)
    <2>1. \A x \in All : u.rq[x].corr <= u.b.corr
      BY <1>0, <1>1, <1>3, <1>4 DEF Numbers
    <2> QED BY <1>0, <1>3, <1>5, <2>1 DEF Numbers
  <1>9. Counted(u, o)
    <2>1. \A i \in Carry(o) : o[i].r \in Reqs
      BY <1>0, CarryIs DEF Carried
    <2> QED BY <1>0, <1>2, <1>3, <1>5, <2>1 DEF Counted, Due, Unused
  <1>10. Base(u, o, G)
    BY <1>0, <1>3, <1>6, <1>7, <1>8, <1>9 DEF Base
  <1>11. (bterm = "no" => w.ghost.wire = None) /\ Leads(w) => Leads(u)
    BY <1>3, <1>5 DEF Leads, Whole, Asking
  <1> QED BY <1>3, <1>10, <1>11 DEF Asks

-----------------------------------------------------------------------------
(* Where a request is queued: not before one that was begun, nor before    *)
(* the question for the versions; and that question first of all, when     *)
(* nothing was begun.                                                      *)
LEMMA QueuePlaceIs ==
    ASSUME NEW w \in Work, NEW r \in All
    PROVE  \E n \in 1..(Len(w.b.out) + 1) :
             /\ QueuePlace(w, r) = InsertAt(w.b.out, n, r)
             /\ w.b.out # <<>> /\ (w.rq[Head(w.b.out)].corr # 0 \/ Head(w.b.out) = AV) => n # 1
             /\ r = AV /\ (\A x \in ToSet(w.b.out) : x # AV /\ w.rq[x].corr = 0) => n = 1
  <1> DEFINE q == w.b.out
             before == {i \in 1..Len(q) : Prio(q[i]) < Prio(r) /\ w.rq[q[i]].corr = 0}
             k == CHOOSE i \in before : \A j \in before : i <= j
             n == IF before = {} \/ Prio(r) = 0 THEN Len(q) + 1 ELSE k
  <1>1. QueuePlace(w, r) = InsertAt(q, n, r)
    BY DEF QueuePlace
  <1>2. q \in Seq(All)
    BY Typed
  <1>3. /\ Len(q) \in Nat /\ ToSet(q) = {q[i] : i \in 1..Len(q)}
        /\ q = <<>> <=> Len(q) = 0
        /\ q # <<>> => Head(q) = q[1] /\ Len(q) > 0
    BY <1>2, ElemsIs
  <1>4. Prio(r) \in 0..2 /\ Prio(AV) = 2 /\ \A x : Prio(x) \in 0..2 /\ (x # AV => Prio(x) < 2)
    BY DEF Prio
  <1>5. before \subseteq 1..Len(q)
    OBVIOUS
  <1> HIDE DEF q
  <1>6. before # {} => k \in before /\ \A j \in before : k <= j
    <2>1. ASSUME before # {} PROVE \E i \in before : \A j \in before : i <= j
      <3>1. before \subseteq Nat
        BY <1>3, <1>5
      <3> HIDE DEF before
      <3> QED BY <2>1, <3>1, Least
    <2> HIDE DEF before
    <2> QED BY <2>1
  <1>7. n \in 1..(Len(q) + 1)
    <2>1. before # {} => k \in Nat /\ 1 <= k /\ k <= Len(q)
      <3> HIDE DEF before, k
      <3>1. before # {} => k \in 1..Len(q)
        BY <1>5, <1>6
      <3> QED BY <1>3, <3>1
    <2> HIDE DEF before, k
    <2>2. CASE before = {} \/ Prio(r) = 0
      BY <1>3, <2>2
    <2>3. CASE ~(before = {} \/ Prio(r) = 0)
      BY <1>3, <2>1, <2>3
    <2> QED BY <2>2, <2>3
  <1>8. ASSUME q # <<>>, w.rq[Head(q)].corr # 0 \/ Head(q) = AV PROVE n # 1
    <2>1. 1 \notin before
      BY <1>3, <1>4, <1>8
    <2> HIDE DEF before, k
    <2> QED BY <1>3, <1>6, <1>8, <2>1
  <1>9. ASSUME r = AV, \A x \in ToSet(q) : x # AV /\ w.rq[x].corr = 0 PROVE n = 1
    <2>1. before = 1..Len(q)
      BY <1>3, <1>4, <1>9
    <2>2. CASE q = <<>>
      <3>1. before = {} /\ Len(q) = 0
        BY <1>3, <2>1, <2>2
      <3> HIDE DEF before, k
      <3> QED BY <3>1
    <2>3. CASE q # <<>>
      <3>1. 1 \in before /\ Prio(r) # 0
        BY <1>3, <1>4, <1>9, <2>1, <2>3
      <3>2. k \in before /\ k <= 1
        <4> HIDE DEF before, k
        <4> QED BY <1>6, <3>1
      <3>3. k = 1
        <4> HIDE DEF before, k
        <4> QED BY <1>3, <1>5, <3>2
      <3> HIDE DEF before, k
      <3> QED BY <3>1, <3>3
    <2> QED BY <2>2, <2>3
  <1> HIDE DEF n
  <1> QED BY <1>1, <1>7, <1>8, <1>9 DEF q

(* What queueing changes.                                                  *)
Queued(w, u, r) ==
    /\ u.b.out = QueuePlace(w, r)
    /\ u.b.st = w.b.st \/ (w.b.st = "INIT" /\ u.b.st = "TRY_CONNECT")
    /\ u.b.trans = w.b.trans /\ u.b.wait = w.b.wait /\ u.b.retry = w.b.retry
    /\ u.b.conn = w.b.conn /\ u.b.corr = w.b.corr /\ u.b.blk = w.b.blk
    /\ u.b.cf = w.b.cf /\ u.b.infl = w.b.infl
    /\ u.mainq = w.mainq /\ u.net = w.net /\ u.ghost = w.ghost
    /\ u.rq[r] = [w.rq[r] EXCEPT !.sent = FALSE]
    /\ \A x \in All \ {r} : u.rq[x] = w.rq[x]

(* The fields after a request is queued.                                   *)
LEMMA BufEnqIs ==
    ASSUME NEW w \in Work, NEW r \in All, NEW u, u = BufEnq(w, r)
    PROVE  u \in Work /\ Queued(w, u, r)
  <1> DEFINE s == IF Sparse /\ w.b.st = "INIT" THEN "TRY_CONNECT" ELSE w.b.st
             q == QueuePlace(w, r)
             p == [w.rq EXCEPT ![r].sent = FALSE]
             c == [w.b EXCEPT !.st = s, !.out = q]
  <1>1. q \in Seq(All)
    BY QueuePlaceIs, InsertSet, Typed
  <1>2. s \in States /\ (s = w.b.st \/ (w.b.st = "INIT" /\ s = "TRY_CONNECT"))
    BY Typed DEF States
  <1>3. /\ p \in [All -> Buf] /\ p[r] = [w.rq[r] EXCEPT !.sent = FALSE]
        /\ \A x \in All \ {r} : p[x] = w.rq[x]
    <2>1. w.rq \in [All -> Buf] /\ w.rq[r] \in Buf
      BY Typed
    <2> DEFINE f == [w.rq[r] EXCEPT !.sent = FALSE]
    <2>2. f \in Buf /\ p = [w.rq EXCEPT ![r] = f]
      BY <2>1 DEF Buf
    <2> HIDE DEF f, p
    <2> QED BY <2>1, <2>2 DEF f
  <1>4. /\ w.b \in Broker /\ w.ghost \in Ghost /\ w.net \in Seq(Received)
        /\ w.rq \in [All -> Buf] /\ w.mainq \in Seq(Answers)
        /\ w = [b |-> w.b, rq |-> w.rq, mainq |-> w.mainq, net |-> w.net, ghost |-> w.ghost]
    BY DEF Work
  <1>5. u = [b |-> c, rq |-> p, mainq |-> w.mainq, net |-> w.net, ghost |-> w.ghost]
    <2> HIDE DEF q
    <2>1. u = [w EXCEPT !.b.st = s, !.rq[r].sent = FALSE, !.b.out = q]
      BY DEF BufEnq, q
    <2> HIDE DEF s
    <2> QED BY <1>4, <2>1
  <1> HIDE DEF s, q, p
  <1>6. /\ c \in Broker /\ c.out = q /\ c.st = s
        /\ c.trans = w.b.trans /\ c.wait = w.b.wait /\ c.retry = w.b.retry
        /\ c.conn = w.b.conn /\ c.corr = w.b.corr /\ c.blk = w.b.blk
        /\ c.cf = w.b.cf /\ c.infl = w.b.infl
    BY <1>1, <1>2, <1>4 DEF Broker
  <1> HIDE DEF c
  <1>7. u.b = c /\ u.rq = p /\ u.mainq = w.mainq /\ u.net = w.net /\ u.ghost = w.ghost
    BY <1>5
  <1>8. u \in Work
    BY <1>3, <1>4, <1>5, <1>6 DEF Work
  <1> QED BY <1>2, <1>3, <1>6, <1>7, <1>8 DEF q, Queued

(* A request in hand is queued.                                            *)
LEMMA BufEnqKeeps ==
    ASSUME NEW w, NEW o, NEW H, Base(w, o, H), NEW r \in All, r \in H,
           ~w.rq[r].part, w.rq[r].corr = 0, r \in Reqs => Due(w, r),
           r = AV => w.b.st = "APIVERSION_QUERY", NEW u, u = BufEnq(w, r)
    PROVE  /\ Base(u, o, H \ {r})
           /\ r \in Reqs /\ Leads(w) => Leads(u)
           /\ (r = AV /\ (bterm = "no" => /\ w.ghost.wire = None /\ w.b.infl = 1
                                          /\ ~w.ghost.mixed /\ ~w.ghost.early
                                          /\ \A x \in ToSet(w.b.out) : ~w.rq[x].part))
              => Leads(u)
  <1> DEFINE G == H \ {r}
  <1>0. /\ w \in Work /\ o \in Seq(OpSet) /\ Kept(w, o, H) /\ Linked(w) /\ Numbers(w)
        /\ Counted(w, o) /\ ~w.ghost.bad /\ AV \notin Reqs /\ AV \in All /\ Reqs \subseteq All
        /\ None \notin All
    BY BrokerAssumption DEF Base, All
  <1>1. /\ w.b.wait \in Seq(All) /\ w.b.out \in Seq(All) /\ w.b.retry \in Seq(Reqs)
        /\ w.ghost.ended \in [Reqs -> Nat] /\ w.rq \in [All -> Buf] /\ w.b.corr \in Nat
        /\ w.net \in Seq(Received)
    BY <1>0, Typed
  <1>2. /\ ToSet(w.b.out) \subseteq All /\ ToSet(w.b.wait) \subseteq All
        /\ ToSet(w.b.retry) \subseteq Reqs
        /\ w.b.out # <<>> => Head(w.b.out) \in ToSet(w.b.out)
    BY <1>1, ElemsIs
  <1>3. r \notin ToSet(w.b.out) \cup ToSet(w.b.wait)
    BY <1>0, HandIs
  <1>4. r \in Reqs => /\ r \notin ToSet(w.b.retry) /\ r \notin Carried(o) /\ r \in w.ghost.issued
    BY <1>0, OnlyThere
  <1>5. PICK n \in 1..(Len(w.b.out) + 1) :
             /\ QueuePlace(w, r) = InsertAt(w.b.out, n, r)
             /\ w.b.out # <<>> /\ (w.rq[Head(w.b.out)].corr # 0 \/ Head(w.b.out) = AV) => n # 1
             /\ r = AV /\ (\A x \in ToSet(w.b.out) : x # AV /\ w.rq[x].corr = 0) => n = 1
    BY <1>0, QueuePlaceIs
  <1>6. /\ u \in Work /\ u.b.out = InsertAt(w.b.out, n, r)
        /\ u.b.st = w.b.st \/ (w.b.st = "INIT" /\ u.b.st = "TRY_CONNECT")
        /\ u.b.trans = w.b.trans /\ u.b.wait = w.b.wait /\ u.b.retry = w.b.retry
        /\ u.b.conn = w.b.conn /\ u.b.corr = w.b.corr /\ u.b.blk = w.b.blk
        /\ u.b.cf = w.b.cf /\ u.b.infl = w.b.infl
        /\ u.mainq = w.mainq /\ u.net = w.net /\ u.ghost = w.ghost
        /\ \A x \in All \ {r} : u.rq[x] = w.rq[x]
    <2>0. u \in Work /\ Queued(w, u, r)
      BY <1>0, BufEnqIs
    <2>1. u.b.out = QueuePlace(w, r)
      BY <2>0 DEF Queued
    <2>2. u.b.out = InsertAt(w.b.out, n, r)
      BY <1>5, <2>1
    <2>3. /\ u \in Work
          /\ u.b.st = w.b.st \/ (w.b.st = "INIT" /\ u.b.st = "TRY_CONNECT")
          /\ u.b.trans = w.b.trans /\ u.b.wait = w.b.wait /\ u.b.retry = w.b.retry
          /\ u.b.conn = w.b.conn /\ u.b.corr = w.b.corr /\ u.b.blk = w.b.blk
          /\ u.b.cf = w.b.cf /\ u.b.infl = w.b.infl
          /\ u.mainq = w.mainq /\ u.net = w.net /\ u.ghost = w.ghost
          /\ \A x \in All \ {r} : u.rq[x] = w.rq[x]
      BY <2>0 DEF Queued
    <2> QED BY <2>2, <2>3
  <1>e. u.rq[r] = [w.rq[r] EXCEPT !.sent = FALSE]
    <2>0. u \in Work /\ Queued(w, u, r)
      BY <1>0, BufEnqIs
    <2> QED BY <2>0 DEF Queued
  <1>7. Distinct(w.b.out)
    BY <1>0 DEF Kept
  <1>8. /\ ToSet(u.b.out) = ToSet(w.b.out) \cup {r} /\ Distinct(u.b.out) /\ u.b.out # <<>>
        /\ Head(u.b.out) = IF n = 1 THEN r ELSE Head(w.b.out)
    <2> DEFINE q == w.b.out
    <2>1. q \in Seq(All) /\ n \in 1..(Len(q) + 1) /\ r \notin ToSet(q) /\ Distinct(q)
      BY <1>1, <1>3, <1>7
    <2>2. u.b.out = InsertAt(q, n, r)
      BY <1>6
    <2> HIDE DEF q
    <2>3. /\ ToSet(InsertAt(q, n, r)) = ToSet(q) \cup {r} /\ InsertAt(q, n, r) # <<>>
          /\ Head(InsertAt(q, n, r)) = IF n = 1 THEN r ELSE Head(q)
          /\ Distinct(InsertAt(q, n, r))
      BY <2>1, InsertSet
    <2> QED BY <2>2, <2>3 DEF q
  <1>9. /\ u.rq[r].corr = 0 /\ ~u.rq[r].part /\ u.rq[r].part = w.rq[r].part /\ ~u.rq[r].sent
        /\ u.rq[r].tries = w.rq[r].tries /\ w.rq[r].tries \in Nat
    <2>1. w.rq[r] \in Buf /\ MaxRetries \in Nat
      BY <1>1, BrokerAssumption
    <2> QED BY <1>e, <2>1 DEF Buf
  <1>10. Kept(u, o, G)
    <2>1. ASSUME NEW x \in Reqs PROVE Spread(u, o, G, x) = Spread(w, o, H, x)
      <3>1. w.ghost.ended[x] \in Nat
        BY <1>1
      <3>2. Num(x \in ToSet(u.b.out)) + Num(x \in G) = Num(x \in ToSet(w.b.out)) + Num(x \in H)
        BY <1>3, <1>8 DEF Num
      <3> HIDE DEF G
      <3> QED BY <1>6, <3>1, <3>2 DEF Spread, Num
    <2>2. Num(AV \in ToSet(u.b.out)) + Num(AV \in ToSet(u.b.wait)) + Num(AV \in G) <= 1
      BY <1>0, <1>3, <1>6, <1>8 DEF Kept, Num
    <2> HIDE DEF G
    <2> QED BY <1>0, <1>6, <1>8, <2>1, <2>2 DEF Kept
  <1>11. Linked(u)
    BY <1>0, <1>6, <1>8 DEF Linked
  <1>12. Numbers(u)
    <2>1. \A x \in All : u.rq[x].corr = w.rq[x].corr /\ u.rq[x].part = w.rq[x].part
                         /\ (x # r => u.rq[x] = w.rq[x])
      BY <1>6, <1>9
    <2>2. IsUp(w.b.st) => IsUp(u.b.st)
      BY <1>6 DEF IsUp
    <2>3. \A i \in 1..Len(w.net) : w.net[i].corr # 0
      BY <1>0, <1>1 DEF Numbers
    <2>4. \A x \in ToSet(u.b.out) :
            /\ u.rq[x].corr # 0 => u.rq[x].part
            /\ u.rq[x].part => u.rq[x].corr # 0 /\ u.rq[x].conn = u.b.conn /\ IsUp(u.b.st)
      BY <1>0, <1>2, <1>6, <1>8, <1>9, <2>1, <2>2 DEF Numbers
    <2>5. \A y, x \in ToSet(u.b.out) \cup ToSet(u.b.wait) :
            u.rq[y].corr = u.rq[x].corr /\ u.rq[y].corr # 0 => y = x
      BY <1>0, <1>2, <1>6, <1>8, <1>9, <2>1 DEF Numbers
    <2>6. \A i \in 1..Len(u.net) : \A x \in ToSet(u.b.out) : u.net[i].corr # u.rq[x].corr
      BY <1>0, <1>2, <1>6, <1>8, <1>9, <2>1, <2>3 DEF Numbers
    <2>7. \A x \in All : u.rq[x].corr <= u.b.corr
      BY <1>0, <1>6, <2>1 DEF Numbers
    <2>8. \A x \in ToSet(u.b.wait) : u.rq[x] = w.rq[x]
      BY <1>2, <1>3, <1>6
    <2> QED BY <1>0, <1>6, <2>4, <2>5, <2>6, <2>7, <2>8 DEF Numbers
  <1>13. Counted(u, o)
    <2>1. \A x \in Reqs \ {r} : u.rq[x] = w.rq[x]
      BY <1>0, <1>6
    <2>2. r \in Reqs => Due(u, r) /\ u.ghost.got[r] <= u.rq[r].tries + Num(u.rq[r].sent)
      <3>1. r \in Reqs => w.ghost.got[r] \in Nat /\ w.ghost.got[r] <= w.rq[r].tries
        BY <1>0, Typed DEF Due
      <3> QED BY <1>6, <1>9, <3>1 DEF Due, Num
    <2>3. \A x \in Reqs : u.ghost.got[x] <= u.rq[x].tries + Num(u.rq[x].sent)
      BY <1>0, <1>6, <2>1, <2>2 DEF Counted
    <2>4. \A x \in Reqs \cap (ToSet(u.b.out) \cup ToSet(u.b.retry)) : Due(u, x)
      BY <1>0, <1>6, <1>8, <2>1, <2>2 DEF Counted, Due
    <2>5. \A x \in ToSet(u.b.retry) : ~u.rq[x].part /\ u.rq[x].corr = 0
      BY <1>0, <1>2, <1>6, <1>9, <2>1 DEF Counted
    <2>6. ASSUME NEW i \in Carry(o)
          PROVE  IF o[i].op = "XMIT_BUF" THEN Unused(u, o[i].r) ELSE Due(u, o[i].r)
      <3>1. o[i].r \in Carried(o) /\ o[i].r \in Reqs
        BY <1>0, CarryIs DEF Carried
      <3>2. u.rq[o[i].r] = w.rq[o[i].r]
        BY <1>4, <2>1, <3>1
      <3> QED BY <1>0, <1>6, <3>2 DEF Counted, Due, Unused
    <2>7. ASSUME NEW x \in Reqs \ u.ghost.issued PROVE Unused(u, x)
      <3>1. x # r
        BY <1>4, <1>6
      <3> QED BY <1>0, <1>6, <2>1, <3>1 DEF Counted, Unused
    <2> QED BY <1>0, <1>6, <2>3, <2>4, <2>5, <2>6, <2>7 DEF Counted
  <1>14. Base(u, o, G)
    BY <1>0, <1>6, <1>10, <1>11, <1>12, <1>13 DEF Base
  <1>15. ASSUME r \in Reqs, Leads(w) PROVE Leads(u)
    <2>1. SUFFICES ASSUME bterm = "no" PROVE Whole(u) /\ Asking(u)
      BY DEF Leads
    <2>2. Whole(w) /\ Asking(w) /\ r # AV
      BY <1>0, <1>15, <2>1 DEF Leads
    <2>3. \A x \in ToSet(w.b.out) : u.rq[x] = w.rq[x]
      BY <1>2, <1>3, <1>6
    <2>4. Whole(u)
      <3>1. ASSUME w.ghost.wire # None
            PROVE  /\ u.b.out # <<>> /\ Head(u.b.out) = w.ghost.wire
                   /\ u.rq[w.ghost.wire].part /\ w.ghost.wire \notin u.b.cf.unsupported
        <4>1. /\ w.b.out # <<>> /\ Head(w.b.out) = w.ghost.wire /\ w.rq[w.ghost.wire].part
              /\ w.ghost.wire \notin w.b.cf.unsupported
          BY <2>2, <3>1 DEF Whole
        <4>2. w.ghost.wire \in ToSet(w.b.out) /\ w.rq[w.ghost.wire].corr # 0
          BY <1>0, <1>2, <4>1 DEF Numbers
        <4>3. n # 1
          BY <1>5, <4>1, <4>2
        <4> QED BY <1>6, <1>8, <2>3, <4>1, <4>2, <4>3
      <3> QED BY <1>6, <2>2, <3>1 DEF Whole
    <2>5. Asking(u)
      <3>1. ASSUME w.b.st = "APIVERSION_QUERY"
            PROVE  AV \in ToSet(u.b.wait) \/ (u.b.out # <<>> /\ Head(u.b.out) = AV)
        BY <1>5, <1>6, <1>8, <2>2, <3>1 DEF Asking
      <3>2. u.b.st \in {"UP", "UPDATE", "APIVERSION_QUERY"} => u.b.st = w.b.st
        BY <1>6
      <3>3. w.b.st = "APIVERSION_QUERY" => \A x \in ToSet(u.b.out) : u.rq[x].part => x = AV
        BY <1>8, <1>9, <2>2, <2>3 DEF Asking
      <3> QED BY <1>6, <2>2, <3>1, <3>2, <3>3 DEF Asking
    <2> QED BY <2>4, <2>5
  <1>16. ASSUME r = AV, bterm = "no", w.ghost.wire = None, w.b.infl = 1,
                ~w.ghost.mixed, ~w.ghost.early, \A x \in ToSet(w.b.out) : ~w.rq[x].part
         PROVE  Whole(u) /\ Asking(u)
    <2>1. \A x \in ToSet(w.b.out) : x # AV /\ w.rq[x].corr = 0
      BY <1>0, <1>3, <1>16 DEF Numbers
    <2>2. Head(u.b.out) = AV
      BY <1>5, <1>8, <1>16, <2>1
    <2>3. u.b.st = "APIVERSION_QUERY"
      BY <1>6, <1>16
    <2>4. \A x \in ToSet(u.b.out) : ~u.rq[x].part
      BY <1>2, <1>3, <1>6, <1>8, <1>9, <1>16
    <2> QED BY <1>6, <1>8, <1>16, <2>2, <2>3, <2>4 DEF Whole, Asking
  <1> QED BY <1>14, <1>15, <1>16 DEF Leads

-----------------------------------------------------------------------------
(* The first request of the queue has an id of this connection, its own.   *)
Tagged(w, n, r) ==
    /\ n.b.out = w.b.out /\ n.b.wait = w.b.wait /\ n.b.retry = w.b.retry
    /\ n.b.st = w.b.st /\ n.b.trans = w.b.trans /\ n.b.conn = w.b.conn /\ n.b.blk = w.b.blk
    /\ n.b.cf = w.b.cf /\ n.b.infl = w.b.infl
    /\ n.mainq = w.mainq /\ n.net = w.net /\ n.ghost = w.ghost
    /\ n.b.corr >= w.b.corr /\ n.rq[r].corr \in 1..n.b.corr /\ n.rq[r].conn = w.b.conn
    /\ n.rq[r].part = w.rq[r].part /\ n.rq[r].tries = w.rq[r].tries /\ n.rq[r].sent = w.rq[r].sent
    /\ \A x \in All \ {r} : n.rq[x] = w.rq[x]
    /\ \A x \in (ToSet(w.b.out) \cup ToSet(w.b.wait)) \ {r} : w.rq[x].corr # n.rq[r].corr
    /\ \A i \in 1..Len(w.net) : w.net[i].corr # n.rq[r].corr

(* The fields after a request has its correlation id; no assertion fails.  *)
LEMMA NumberedIs ==
    ASSUME NEW w, NEW o, NEW H, Base(w, o, H), NEW r, r \in ToSet(w.b.out), IsUp(w.b.st),
           NEW n, n = Require(Numbered(w, r), w.b.trans)
    PROVE  n \in Work /\ Tagged(w, n, r)
  <1>0. /\ w \in Work /\ Kept(w, o, H) /\ Linked(w) /\ Numbers(w)
    BY DEF Base
  <1>1. /\ w.b \in Broker /\ w.b.wait \in Seq(All) /\ w.b.out \in Seq(All)
        /\ w.rq \in [All -> Buf] /\ w.b.corr \in Nat /\ w.b.conn \in Nat
        /\ w.net \in Seq(Received) /\ w.mainq \in Seq(Answers) /\ w.ghost \in Ghost
        /\ w = [b |-> w.b, rq |-> w.rq, mainq |-> w.mainq, net |-> w.net, ghost |-> w.ghost]
    BY <1>0, Typed DEF Work
  <1>2. ToSet(w.b.out) \subseteq All /\ ToSet(w.b.wait) \subseteq All /\ r \in All
    BY <1>1, ElemsIs
  <1>3. w.b.trans
    BY <1>0 DEF Linked, IsUp
  <1>4. n = Numbered(w, r)
    BY <1>3 DEF Require
  <1>5. w.rq[r] \in Buf /\ w.rq[r].corr \in Nat /\ w.rq[r].part \in BOOLEAN
    BY <1>1, <1>2 DEF Buf
  <1>6. CASE w.rq[r].corr # 0
    <2>1. w.rq[r].part /\ w.rq[r].conn = w.b.conn
      BY <1>0, <1>6 DEF Numbers
    <2>2. n = w
      BY <1>4, <1>6, <2>1 DEF Numbered
    <2>3. w.rq[r].corr \in 1..w.b.corr
      BY <1>0, <1>1, <1>2, <1>5, <1>6 DEF Numbers
    <2>4. \A x \in (ToSet(w.b.out) \cup ToSet(w.b.wait)) \ {r} : w.rq[x].corr # w.rq[r].corr
      BY <1>0, <1>6 DEF Numbers
    <2>5. \A i \in 1..Len(w.net) : w.net[i].corr # w.rq[r].corr
      BY <1>0 DEF Numbers
    <2>6. w.b.corr >= w.b.corr
      BY <1>1
    <2>7. Tagged(w, w, r)
      BY <2>1, <2>3, <2>4, <2>5, <2>6 DEF Tagged
    <2> QED BY <1>0, <2>2, <2>7
  <1>7. CASE w.rq[r].corr = 0
    <2>1. ~w.rq[r].part
      BY <1>0, <1>7 DEF Numbers
    <2> DEFINE k == w.b.corr + 1
               f == [w.rq[r] EXCEPT !.corr = k, !.conn = w.b.conn]
               c == [w.b EXCEPT !.corr = k]
    <2>2. k \in Nat /\ k > 0 /\ k > w.b.corr
      BY <1>1
    <2>3. n = [w EXCEPT !.rq[r].corr = k, !.b.corr = k, !.rq[r].conn = w.b.conn]
      BY <1>4, <1>7, <2>1 DEF Numbered, Require
    <2> HIDE DEF k
    <2>4. n = [b |-> c, rq |-> [w.rq EXCEPT ![r] = f], mainq |-> w.mainq, net |-> w.net,
               ghost |-> w.ghost]
      <3>1. n.rq = [[w.rq EXCEPT ![r].corr = k] EXCEPT ![r].conn = w.b.conn]
        BY <1>1, <2>3
      <3>2. n.rq = [w.rq EXCEPT ![r] = f]
        BY <1>1, <1>2, <1>5, <3>1 DEF Buf
      <3>3. n = [b |-> c, rq |-> n.rq, mainq |-> w.mainq, net |-> w.net, ghost |-> w.ghost]
        BY <1>1, <2>3
      <3> HIDE DEF f, c
      <3> QED BY <3>2, <3>3
    <2>5. /\ f \in Buf /\ f.corr = k /\ f.conn = w.b.conn /\ f.part = w.rq[r].part
          /\ f.tries = w.rq[r].tries /\ f.sent = w.rq[r].sent
      BY <1>1, <1>5, <2>2 DEF Buf
    <2>6. /\ c \in Broker /\ c.out = w.b.out /\ c.wait = w.b.wait /\ c.retry = w.b.retry
          /\ c.st = w.b.st /\ c.trans = w.b.trans /\ c.conn = w.b.conn /\ c.blk = w.b.blk
          /\ c.cf = w.b.cf /\ c.infl = w.b.infl /\ c.corr = k
      BY <1>1, <2>2 DEF Broker
    <2> HIDE DEF f, c
    <2>7. /\ n.b = c /\ n.rq = [w.rq EXCEPT ![r] = f] /\ n.mainq = w.mainq /\ n.net = w.net
          /\ n.ghost = w.ghost
      BY <2>4
    <2>8. n.rq \in [All -> Buf] /\ n.rq[r] = f /\ \A x \in All \ {r} : n.rq[x] = w.rq[x]
      BY <1>1, <1>2, <2>5, <2>7
    <2>9. n \in Work
      BY <1>1, <2>4, <2>6, <2>7, <2>8 DEF Work
    <2>10. \A x \in All : w.rq[x].corr \in Nat /\ w.rq[x].corr <= w.b.corr
      BY <1>0, <1>1 DEF Numbers, Buf
    <2>11. \A x \in (ToSet(w.b.out) \cup ToSet(w.b.wait)) \ {r} : w.rq[x].corr # k
      BY <1>1, <1>2, <2>2, <2>10
    <2>12. \A i \in 1..Len(w.net) : w.net[i].corr # k
      <3>1. \A i \in 1..Len(w.net) : w.net[i].corr \in 1..w.b.corr
        BY <1>0 DEF Numbers
      <3> QED BY <1>1, <2>2, <3>1
    <2>13. k >= w.b.corr /\ k \in 1..k
      BY <1>1, <2>2
    <2> QED BY <2>5, <2>6, <2>7, <2>8, <2>9, <2>11, <2>12, <2>13 DEF Tagged
  <1> QED BY <1>5, <1>6, <1>7

(* A request that has an id waits to be given up, too.                     *)
LEMMA TaggedNear ==
    ASSUME NEW w, NEW o, NEW H, Base(w, o, H), NEW n \in Work, NEW r \in ToSet(w.b.out),
           Tagged(w, n, r)
    PROVE  Near(n, o, H)
  <1>0. /\ w \in Work /\ o \in Seq(OpSet) /\ Kept(w, o, H) /\ Numbers(w) /\ Counted(w, o)
        /\ ~w.ghost.bad
    BY DEF Base
  <1>1. w.b.out \in Seq(All) /\ w.b.retry \in Seq(Reqs) /\ n.b.corr \in Nat /\ w.b.corr \in Nat
        /\ n.rq \in [All -> Buf] /\ w.rq \in [All -> Buf]
    BY <1>0, Typed
  <1>2. r \in All /\ Reqs \subseteq All /\ ToSet(w.b.retry) \subseteq Reqs
    BY <1>1, ElemsIs DEF All
  <1>3. Kept(n, o, H)
    BY <1>0 DEF Kept, Spread, Tagged
  <1>4. \A x \in Reqs : n.rq[x].tries = w.rq[x].tries /\ n.rq[x].sent = w.rq[x].sent
                        /\ (x # r => n.rq[x] = w.rq[x])
    BY <1>2 DEF Tagged
  <1>5. r \in Reqs => r \notin Carried(o) /\ r \notin ToSet(w.b.retry) /\ r \in w.ghost.issued
    BY <1>0, OnlyThere
  <1>6. Counted(n, o)
    <2>1. \A i \in Carry(o) : o[i].r \in Reqs /\ o[i].r # r
      BY <1>0, <1>5, CarryIs DEF Carried
    <2>2. n.ghost = w.ghost /\ n.b.out = w.b.out /\ n.b.retry = w.b.retry /\ n.b.wait = w.b.wait
          /\ n.b.blk = w.b.blk
      BY DEF Tagged
    <2>3. \A x \in ToSet(n.b.retry) : n.rq[x] = w.rq[x]
      BY <1>2, <1>4, <1>5, <2>2
    <2>4. \A i \in Carry(o) : n.rq[o[i].r] = w.rq[o[i].r]
      BY <1>4, <2>1
    <2>5. \A x \in Reqs \ n.ghost.issued : n.rq[x] = w.rq[x]
      BY <1>4, <1>5, <2>2
    <2>6. \A x \in Reqs \cap (ToSet(n.b.out) \cup ToSet(n.b.retry)) : Due(n, x)
      BY <1>0, <1>4, <2>2 DEF Counted, Due
    <2>7. \A x \in Reqs : n.ghost.got[x] <= n.rq[x].tries + Num(n.rq[x].sent)
      BY <1>0, <1>4, <2>2 DEF Counted
    <2>8. \A x \in Reqs \ n.ghost.issued : Unused(n, x)
      BY <1>0, <2>2, <2>5 DEF Counted, Unused
    <2>9. \A i \in Carry(o) : IF o[i].op = "XMIT_BUF" THEN Unused(n, o[i].r) ELSE Due(n, o[i].r)
      BY <1>0, <2>2, <2>4 DEF Counted, Unused, Due
    <2>10. \A x \in ToSet(n.b.retry) : ~n.rq[x].part /\ n.rq[x].corr = 0
      BY <1>0, <2>2, <2>3 DEF Counted
    <2>11. n.b.blk = Cardinality(ToSet(n.b.wait) \cap Blocking)
      BY <1>0, <2>2 DEF Counted
    <2> QED BY <2>6, <2>7, <2>8, <2>9, <2>10, <2>11 DEF Counted
  <1>7. \A x \in All : n.rq[x].corr <= n.b.corr
    <2>1. n.rq[r].corr <= n.b.corr
      BY <1>1 DEF Tagged
    <2>2. ASSUME NEW x \in All \ {r} PROVE n.rq[x].corr <= n.b.corr
      <3>1. n.rq[x] = w.rq[x] /\ n.b.corr >= w.b.corr
        BY DEF Tagged
      <3>2. w.rq[x].corr <= w.b.corr /\ w.rq[x].corr \in Nat
        BY <1>0, <1>1 DEF Numbers, Buf
      <3> QED BY <1>1, <3>1, <3>2
    <2> QED BY <2>1, <2>2
  <1>8. ~n.ghost.bad
    BY <1>0 DEF Tagged
  <1> QED BY <1>0, <1>3, <1>6, <1>7, <1>8 DEF Near

(* What sending a whole request changes.                                   *)
Sends(w, u, r) ==
    /\ u.b.out = Tail(w.b.out) /\ u.b.wait = Append(w.b.wait, r) /\ u.b.retry = w.b.retry
    /\ u.b.st = w.b.st /\ u.b.trans = w.b.trans /\ u.b.conn = w.b.conn /\ u.b.corr = w.b.corr
    /\ u.b.cf = w.b.cf /\ u.b.infl = w.b.infl
    /\ u.b.blk = (IF r \in Blocking THEN w.b.blk + 1 ELSE w.b.blk)
    /\ u.mainq = w.mainq /\ u.net = Append(w.net, [r |-> r, corr |-> w.rq[r].corr])
    /\ u.rq[r].corr = w.rq[r].corr /\ u.rq[r].tries = w.rq[r].tries /\ u.rq[r].sent
    /\ ~u.rq[r].part /\ u.rq[r].conn = w.rq[r].conn
    /\ \A x \in All \ {r} : u.rq[x] = w.rq[x]
    /\ u.ghost.ended = w.ghost.ended /\ u.ghost.issued = w.ghost.issued
    /\ u.ghost.av = w.ghost.av /\ u.ghost.bad = w.ghost.bad /\ u.ghost.wire = None
    /\ u.ghost.got[r] = w.ghost.got[r] + 1
    /\ \A x \in All \ {r} : u.ghost.got[x] = w.ghost.got[x]
    /\ u.ghost.mixed <=> w.ghost.mixed \/ w.ghost.wire \notin {r, None}
    /\ u.ghost.early <=> w.ghost.early \/ (r # AV /\ ~w.ghost.av)

(* The fields after a request is sent.                                     *)
LEMMA SentIs ==
    ASSUME NEW w \in Work, w.b.out # <<>>, NEW r \in All, NEW u, u = Sent(w, r)
    PROVE  u \in Work /\ Sends(w, u, r)
  <1>1. /\ w.b \in Broker /\ w.b.wait \in Seq(All) /\ w.b.out \in Seq(All)
        /\ w.rq \in [All -> Buf] /\ w.b.blk \in Int /\ w.ghost.got \in [All -> Nat]
        /\ w.net \in Seq(Received) /\ w.mainq \in Seq(Answers) /\ w.ghost \in Ghost
        /\ w = [b |-> w.b, rq |-> w.rq, mainq |-> w.mainq, net |-> w.net, ghost |-> w.ghost]
        /\ w.rq[r] \in Buf
    BY Typed DEF Work
  <1> DEFINE f == [w.rq[r] EXCEPT !.sent = TRUE, !.part = FALSE]
             k == IF r \in Blocking THEN w.b.blk + 1 ELSE w.b.blk
             t == Tail(w.b.out)
             a == Append(w.b.wait, r)
             m == [r |-> r, corr |-> w.rq[r].corr]
             mx == w.ghost.mixed \/ w.ghost.wire \notin {r, None}
             ea == w.ghost.early \/ (r # AV /\ ~w.ghost.av)
             gt == [w.ghost.got EXCEPT ![r] = @ + 1]
             c == [w.b EXCEPT !.out = t, !.wait = a, !.blk = k]
             g == [w.ghost EXCEPT !.mixed = mx, !.wire = None, !.got = gt, !.early = ea]
             p == [w.rq EXCEPT ![r] = f]
             nt == Append(w.net, m)
  <1>2. /\ f \in Buf /\ f.corr = w.rq[r].corr /\ f.tries = w.rq[r].tries /\ f.sent /\ ~f.part
        /\ f.conn = w.rq[r].conn
    BY <1>1 DEF Buf
  <1>3. p \in [All -> Buf] /\ p[r] = f /\ \A x \in All \ {r} : p[x] = w.rq[x]
    <2> HIDE DEF f
    <2> QED BY <1>1, <1>2
  <1>4. nt \in Seq(Received)
    <2>1. m \in Received
      BY <1>1 DEF Received, Buf
    <2> HIDE DEF m
    <2> QED BY <1>1, <2>1
  <1>5. gt \in [All -> Nat] /\ gt[r] = w.ghost.got[r] + 1 /\ \A x \in All \ {r} : gt[x] = w.ghost.got[x]
    BY <1>1
  <1>6. mx \in BOOLEAN /\ ea \in BOOLEAN
    OBVIOUS
  <1>7. k \in Int /\ t \in Seq(All) /\ a \in Seq(All)
    BY <1>1
  <1>8. u = [b |-> c, rq |-> p, mainq |-> w.mainq, net |-> nt, ghost |-> g]
    <2> DEFINE v == OnWire(w, r)
               d == [w.b EXCEPT !.out = Tail(@), !.wait = Append(@, r),
                                !.blk = IF r \in Blocking THEN @ + 1 ELSE @]
               h == [v.ghost EXCEPT !.wire = None, !.got[r] = @ + 1,
                                    !.early = @ \/ (r # AV /\ ~w.ghost.av)]
    <2>1. u = [w EXCEPT !.rq[r] = f, !.b = d, !.net = nt, !.ghost = h]
      BY ZenonT(60) DEF Sent
    <2>2. d = c
      BY <1>1 DEF Broker
    <2>3. v.ghost = [w.ghost EXCEPT !.mixed = mx]
      <3> HIDE DEF mx
      <3>1. v = [w EXCEPT !.ghost.mixed = mx]
        BY DEF OnWire, mx
      <3> HIDE DEF v
      <3> QED BY <1>1, <3>1
    <2>4. h = g
      <3> HIDE DEF v, mx
      <3> QED BY <1>1, <2>3 DEF Ghost
    <2> HIDE DEF c, d, f, g, h, nt
    <2> QED BY <1>1, <2>1, <2>2, <2>4
  <1>9. /\ c \in Broker /\ c.out = t /\ c.wait = a /\ c.blk = k /\ c.retry = w.b.retry
        /\ c.st = w.b.st /\ c.trans = w.b.trans /\ c.conn = w.b.conn /\ c.corr = w.b.corr
        /\ c.cf = w.b.cf /\ c.infl = w.b.infl
    <2> HIDE DEF t, a, k
    <2> QED BY <1>1, <1>7 DEF Broker
  <1>10. /\ g \in Ghost /\ g.ended = w.ghost.ended /\ g.issued = w.ghost.issued
         /\ g.av = w.ghost.av /\ g.bad = w.ghost.bad /\ g.wire = None
         /\ g.got = gt /\ g.mixed = mx /\ g.early = ea
    <2> HIDE DEF mx, ea, gt
    <2> QED BY <1>1, <1>5, <1>6 DEF Ghost
  <1> HIDE DEF c, p, g, nt
  <1>11. u.b = c /\ u.rq = p /\ u.mainq = w.mainq /\ u.net = nt /\ u.ghost = g
    BY <1>8
  <1>12. u \in Work
    BY <1>1, <1>3, <1>4, <1>8, <1>9, <1>10 DEF Work
  <1>13. (mx <=> w.ghost.mixed \/ w.ghost.wire \notin {r, None})
         /\ (ea <=> w.ghost.early \/ (r # AV /\ ~w.ghost.av))
    OBVIOUS
  <1> HIDE DEF f, gt, mx, ea
  <1> QED BY <1>2, <1>3, <1>5, <1>9, <1>10, <1>11, <1>12, <1>13 DEF Sends, nt

(* The two together: a request goes from one queue to the other.           *)
Goes(w, u, r) ==
    /\ ToSet(u.b.out) = ToSet(w.b.out) \ {r} /\ Distinct(u.b.out)
    /\ ToSet(u.b.wait) = ToSet(w.b.wait) \cup {r} /\ Distinct(u.b.wait)
    /\ u.b.retry = w.b.retry
    /\ u.b.st = w.b.st /\ u.b.trans = w.b.trans /\ u.b.conn = w.b.conn
    /\ u.b.cf = w.b.cf /\ u.b.infl = w.b.infl /\ u.mainq = w.mainq
    /\ u.b.blk = (IF r \in Blocking THEN w.b.blk + 1 ELSE w.b.blk)
    /\ u.b.corr >= w.b.corr /\ u.rq[r].corr \in 1..u.b.corr
    /\ u.rq[r].sent /\ u.rq[r].tries = w.rq[r].tries /\ ~u.rq[r].part
    /\ \A x \in All \ {r} : u.rq[x] = w.rq[x] /\ u.ghost.got[x] = w.ghost.got[x]
    /\ u.ghost.got[r] = w.ghost.got[r] + 1
    /\ u.ghost.ended = w.ghost.ended /\ u.ghost.issued = w.ghost.issued
    /\ u.ghost.av = w.ghost.av /\ u.ghost.bad = w.ghost.bad /\ u.ghost.wire = None
    /\ \A x \in (ToSet(w.b.out) \cup ToSet(w.b.wait)) \ {r} : w.rq[x].corr # u.rq[r].corr
    /\ \A i \in 1..Len(w.net) : w.net[i].corr # u.rq[r].corr
    /\ \A i \in 1..Len(u.net) : \/ i \in 1..Len(w.net) /\ u.net[i] = w.net[i]
                                \/ u.net[i].r = r /\ u.net[i].corr = u.rq[r].corr

(* Numbering and sending, in one.                                          *)
LEMMA GoesIs ==
    ASSUME NEW w \in Work, NEW n \in Work, NEW u \in Work, NEW r \in All,
           Tagged(w, n, r), Sends(n, u, r), r \notin ToSet(w.b.wait), Distinct(w.b.wait),
           ToSet(Tail(w.b.out)) = ToSet(w.b.out) \ {r}, Distinct(Tail(w.b.out))
    PROVE  Goes(w, u, r)
  <1>1. w.b.wait \in Seq(All) /\ w.net \in Seq(Received) /\ n.rq \in [All -> Buf]
    BY Typed
  <1>2. /\ n.b.out = w.b.out /\ n.b.wait = w.b.wait /\ n.b.retry = w.b.retry
        /\ n.b.st = w.b.st /\ n.b.trans = w.b.trans /\ n.b.conn = w.b.conn /\ n.b.blk = w.b.blk
        /\ n.b.cf = w.b.cf /\ n.b.infl = w.b.infl
        /\ n.mainq = w.mainq /\ n.net = w.net /\ n.ghost = w.ghost
    BY DEF Tagged
  <1>3. /\ u.b.out = Tail(n.b.out) /\ u.b.wait = Append(n.b.wait, r) /\ u.b.retry = n.b.retry
        /\ u.b.st = n.b.st /\ u.b.trans = n.b.trans /\ u.b.conn = n.b.conn /\ u.b.corr = n.b.corr
        /\ u.b.cf = n.b.cf /\ u.b.infl = n.b.infl /\ u.mainq = n.mainq
        /\ u.b.blk = (IF r \in Blocking THEN n.b.blk + 1 ELSE n.b.blk)
        /\ u.ghost.ended = n.ghost.ended /\ u.ghost.issued = n.ghost.issued
        /\ u.ghost.av = n.ghost.av /\ u.ghost.bad = n.ghost.bad /\ u.ghost.wire = None
        /\ u.ghost.got[r] = n.ghost.got[r] + 1
    BY DEF Sends
  <1>4. ToSet(u.b.out) = ToSet(w.b.out) \ {r} /\ Distinct(u.b.out)
    BY <1>2, <1>3
  <1>5. ToSet(u.b.wait) = ToSet(w.b.wait) \cup {r} /\ Distinct(u.b.wait)
    <2>1. u.b.wait = Append(w.b.wait, r)
      BY <1>2, <1>3
    <2> QED BY <1>1, <2>1, AppendSet
  <1>6. /\ u.b.corr >= w.b.corr /\ u.rq[r].corr = n.rq[r].corr /\ n.rq[r].corr \in 1..n.b.corr
        /\ u.rq[r].sent /\ u.rq[r].tries = w.rq[r].tries /\ ~u.rq[r].part
    BY DEF Sends, Tagged
  <1>7. \A x \in All \ {r} : u.rq[x] = w.rq[x]
    BY DEF Sends, Tagged
  <1>8. \A x \in All \ {r} : u.ghost.got[x] = w.ghost.got[x]
    BY <1>2 DEF Sends
  <1>9. \A x \in (ToSet(w.b.out) \cup ToSet(w.b.wait)) \ {r} : w.rq[x].corr # u.rq[r].corr
    BY <1>6 DEF Tagged
  <1>10. \A i \in 1..Len(w.net) : w.net[i].corr # u.rq[r].corr
    BY <1>6 DEF Tagged
  <1>11. \A i \in 1..Len(u.net) : \/ i \in 1..Len(w.net) /\ u.net[i] = w.net[i]
                                  \/ u.net[i].r = r /\ u.net[i].corr = u.rq[r].corr
    <2> DEFINE m == [r |-> r, corr |-> n.rq[r].corr]
    <2>1. u.net = Append(w.net, m) /\ m.r = r /\ m.corr = u.rq[r].corr
      BY <1>2, <1>6 DEF Sends
    <2>2. m \in Received
      BY <1>1 DEF Received, Buf
    <2> HIDE DEF m
    <2>3. /\ Len(u.net) = Len(w.net) + 1 /\ Len(w.net) \in Nat /\ u.net[Len(w.net) + 1] = m
          /\ \A i \in 1..Len(w.net) : u.net[i] = w.net[i]
      <3> DEFINE q == w.net
      <3>1. q \in Seq(Received) /\ u.net = Append(q, m)
        BY <1>1, <2>1
      <3> HIDE DEF q
      <3>2. /\ Len(Append(q, m)) = Len(q) + 1 /\ Len(q) \in Nat /\ Append(q, m)[Len(q) + 1] = m
            /\ \A i \in 1..Len(q) : Append(q, m)[i] = q[i]
        BY <2>2, <3>1
      <3> QED BY <3>1, <3>2 DEF q
    <2>4. \A i \in 1..Len(u.net) : i \in 1..Len(w.net) \/ i = Len(w.net) + 1
      BY <2>3
    <2>5. ASSUME NEW i \in 1..Len(u.net)
          PROVE  \/ i \in 1..Len(w.net) /\ u.net[i] = w.net[i]
                 \/ u.net[i].r = r /\ u.net[i].corr = u.rq[r].corr
      <3>1. CASE i \in 1..Len(w.net)
        BY <2>3, <3>1
      <3>2. CASE i = Len(w.net) + 1
        <4>1. u.net[i] = m
          BY <2>3, <3>2
        <4> QED BY <2>1, <4>1
      <3> QED BY <2>4, <3>1, <3>2
    <2> QED BY <2>5
  <1>12. /\ u.b.retry = w.b.retry
         /\ u.b.st = w.b.st /\ u.b.trans = w.b.trans /\ u.b.conn = w.b.conn /\ u.b.corr = n.b.corr
         /\ u.b.cf = w.b.cf /\ u.b.infl = w.b.infl /\ u.mainq = w.mainq
         /\ u.b.blk = (IF r \in Blocking THEN w.b.blk + 1 ELSE w.b.blk)
         /\ u.ghost.ended = w.ghost.ended /\ u.ghost.issued = w.ghost.issued
         /\ u.ghost.av = w.ghost.av /\ u.ghost.bad = w.ghost.bad /\ u.ghost.wire = None
         /\ u.ghost.got[r] = w.ghost.got[r] + 1
    BY <1>2, <1>3
  <1> QED BY <1>4, <1>5, <1>6, <1>7, <1>8, <1>9, <1>10, <1>11, <1>12 DEF Goes

(* A request that is sent is in flight, with an id of its own.             *)
LEMMA GoesKeeps ==
    ASSUME NEW w, NEW o, NEW H, Base(w, o, H), NEW r \in ToSet(w.b.out), IsUp(w.b.st),
           NEW u \in Work, Goes(w, u, r)
    PROVE  Base(u, o, H)
  <1>0. /\ w \in Work /\ o \in Seq(OpSet) /\ Kept(w, o, H) /\ Linked(w) /\ Numbers(w)
        /\ Counted(w, o) /\ ~w.ghost.bad /\ AV \notin Reqs /\ AV \in All /\ Reqs \subseteq All
    BY BrokerAssumption DEF Base, All
  <1>1. /\ w.b.wait \in Seq(All) /\ w.b.out \in Seq(All) /\ w.b.retry \in Seq(Reqs)
        /\ w.ghost.ended \in [Reqs -> Nat] /\ w.rq \in [All -> Buf] /\ w.b.corr \in Nat
        /\ w.net \in Seq(Received) /\ w.ghost.got \in [All -> Nat] /\ u.b.corr \in Nat
        /\ u.rq \in [All -> Buf]
    BY <1>0, Typed
  <1>2. /\ ToSet(w.b.out) \subseteq All /\ ToSet(w.b.wait) \subseteq All
        /\ ToSet(w.b.retry) \subseteq Reqs /\ r \in ToSet(w.b.out) /\ r \in All
        /\ IsFiniteSet(ToSet(w.b.wait))
    BY <1>1, ElemsIs
  <1>3. r \notin ToSet(w.b.wait)
    BY <1>0, <1>2, OnlyThere, AVThere DEF All
  <1>4. r \in Reqs => /\ r \notin ToSet(w.b.retry) /\ r \notin Carried(o) /\ r \in w.ghost.issued
    BY <1>0, <1>2, OnlyThere
  <1>6. /\ u.b.retry = w.b.retry
        /\ u.b.st = w.b.st /\ u.b.trans = w.b.trans /\ u.b.conn = w.b.conn
        /\ u.b.cf = w.b.cf /\ u.b.infl = w.b.infl /\ u.mainq = w.mainq
        /\ u.b.blk = (IF r \in Blocking THEN w.b.blk + 1 ELSE w.b.blk)
        /\ u.ghost.ended = w.ghost.ended /\ u.ghost.issued = w.ghost.issued
        /\ u.ghost.bad = w.ghost.bad
    BY DEF Goes
  <1>7. /\ u.b.corr >= w.b.corr /\ u.b.corr \in Nat
        /\ u.rq[r].corr \in 1..u.b.corr
        /\ u.rq[r].sent /\ u.rq[r].tries = w.rq[r].tries /\ ~u.rq[r].part
    BY <1>1 DEF Goes
  <1>8. /\ \A x \in All \ {r} : u.rq[x] = w.rq[x] /\ u.ghost.got[x] = w.ghost.got[x]
        /\ u.ghost.got[r] = w.ghost.got[r] + 1
    BY DEF Goes
  <1>9. /\ \A x \in (ToSet(w.b.out) \cup ToSet(w.b.wait)) \ {r} : w.rq[x].corr # u.rq[r].corr
        /\ \A i \in 1..Len(w.net) : w.net[i].corr # u.rq[r].corr
    BY DEF Goes
  <1>11. ToSet(u.b.out) = ToSet(w.b.out) \ {r} /\ Distinct(u.b.out)
    BY DEF Goes
  <1>12. ToSet(u.b.wait) = ToSet(w.b.wait) \cup {r} /\ Distinct(u.b.wait)
    BY DEF Goes
  <1>13. \A i \in 1..Len(u.net) : \/ i \in 1..Len(w.net) /\ u.net[i] = w.net[i]
                                  \/ u.net[i].r = r /\ u.net[i].corr = u.rq[r].corr
    BY DEF Goes
  <1>14. Kept(u, o, H)
    <2>1. ASSUME NEW x \in Reqs PROVE Spread(u, o, H, x) = Spread(w, o, H, x)
      <3>1. w.ghost.ended[x] \in Nat
        BY <1>1
      <3>2. Num(x \in ToSet(u.b.out)) + Num(x \in ToSet(u.b.wait))
          = Num(x \in ToSet(w.b.out)) + Num(x \in ToSet(w.b.wait))
        BY <1>2, <1>3, <1>11, <1>12 DEF Num
      <3> QED BY <1>6, <3>1, <3>2 DEF Spread, Num
    <2>2. Num(AV \in ToSet(u.b.out)) + Num(AV \in ToSet(u.b.wait)) + Num(AV \in H) <= 1
      BY <1>0, <1>2, <1>3, <1>11, <1>12 DEF Kept, Num
    <2> QED BY <1>0, <1>6, <1>11, <1>12, <2>1, <2>2 DEF Kept
  <1>15. Linked(u)
    BY <1>0, <1>2, <1>6, <1>11, <1>12 DEF Linked
  <1>16. \A x \in ToSet(w.b.out) \cup ToSet(w.b.wait) : x # r => u.rq[x] = w.rq[x]
    BY <1>2, <1>8
  <1>17. Numbers(u)
    <2>1. ASSUME NEW x \in All PROVE u.rq[x].corr <= u.b.corr
      <3>1. CASE x = r
        BY <1>7, <3>1
      <3>2. CASE x # r
        <4>1. u.rq[x] = w.rq[x] /\ w.rq[x].corr <= w.b.corr /\ w.rq[x].corr \in Nat
          BY <1>0, <1>1, <1>8, <3>2 DEF Numbers, Buf
        <4> QED BY <1>1, <1>7, <4>1
      <3> QED BY <3>1, <3>2
    <2>2. \A x \in ToSet(u.b.out) :
            /\ u.rq[x].corr # 0 => u.rq[x].part
            /\ u.rq[x].part => u.rq[x].corr # 0 /\ u.rq[x].conn = u.b.conn /\ IsUp(u.b.st)
      BY <1>0, <1>6, <1>11, <1>16 DEF Numbers
    <2>3. \A x \in ToSet(u.b.wait) : u.rq[x].corr # 0
      BY <1>0, <1>7, <1>12, <1>16 DEF Numbers
    <2>4. \A x, y \in ToSet(u.b.out) \cup ToSet(u.b.wait) :
            u.rq[x].corr = u.rq[y].corr /\ u.rq[x].corr # 0 => x = y
      <3>1. ToSet(u.b.out) \cup ToSet(u.b.wait) = ToSet(w.b.out) \cup ToSet(w.b.wait)
        BY <1>2, <1>11, <1>12
      <3>2. \A x \in (ToSet(w.b.out) \cup ToSet(w.b.wait)) \ {r} : u.rq[x].corr # u.rq[r].corr
        BY <1>9, <1>16
      <3>3. \A x, y \in (ToSet(w.b.out) \cup ToSet(w.b.wait)) \ {r} :
              u.rq[x].corr = u.rq[y].corr /\ u.rq[x].corr # 0 => x = y
        BY <1>0, <1>16 DEF Numbers
      <3> QED BY <3>1, <3>2, <3>3
    <2>5. ASSUME NEW i \in 1..Len(u.net)
          PROVE  /\ u.net[i].corr \in 1..u.b.corr
                 /\ \A x \in ToSet(u.b.wait) : u.net[i].corr = u.rq[x].corr => u.net[i].r = x
                 /\ \A x \in ToSet(u.b.out) : u.net[i].corr # u.rq[x].corr
      <3>1. CASE i \in 1..Len(w.net) /\ u.net[i] = w.net[i]
        <4>1. w.net[i].corr \in 1..w.b.corr
          BY <1>0, <3>1 DEF Numbers
        <4>2. u.net[i].corr \in 1..u.b.corr
          BY <1>1, <1>7, <3>1, <4>1
        <4>3. u.net[i].corr # u.rq[r].corr
          BY <1>9, <3>1
        <4>4. \A x \in ToSet(u.b.wait) : u.net[i].corr = u.rq[x].corr => u.net[i].r = x
          BY <1>0, <1>12, <1>16, <3>1, <4>3 DEF Numbers
        <4>5. \A x \in ToSet(u.b.out) : u.net[i].corr # u.rq[x].corr
          BY <1>0, <1>11, <1>16, <3>1 DEF Numbers
        <4> QED BY <4>2, <4>4, <4>5
      <3>2. CASE u.net[i].r = r /\ u.net[i].corr = u.rq[r].corr
        <4>1. u.net[i].corr \in 1..u.b.corr
          BY <1>7, <3>2
        <4>2. \A x \in (ToSet(w.b.out) \cup ToSet(w.b.wait)) \ {r} : u.rq[x].corr # u.rq[r].corr
          BY <1>9, <1>16
        <4> QED BY <1>11, <1>12, <3>2, <4>1, <4>2
      <3> QED BY <1>13, <3>1, <3>2
    <2> QED BY <2>1, <2>2, <2>3, <2>4, <2>5 DEF Numbers
  <1>18. Counted(u, o)
    <2>1. u.b.blk = Cardinality(ToSet(u.b.wait) \cap Blocking)
      <3> DEFINE B == ToSet(w.b.wait) \cap Blocking
      <3>1. w.b.blk = Cardinality(B)
        BY <1>0 DEF Counted
      <3>2. IsFiniteSet(B) /\ r \notin B
        BY <1>2, <1>3, FS_Subset
      <3>3. ToSet(u.b.wait) \cap Blocking = IF r \in Blocking THEN B \cup {r} ELSE B
        BY <1>12
      <3> HIDE DEF B
      <3>4. Cardinality(B \cup {r}) = Cardinality(B) + 1
        BY <3>2, FS_AddElement
      <3> QED BY <1>6, <3>1, <3>3, <3>4
    <2>2. \A x \in Reqs \ {r} : u.rq[x] = w.rq[x] /\ u.ghost.got[x] = w.ghost.got[x]
      BY <1>0, <1>8
    <2>3. ASSUME r \in Reqs PROVE u.ghost.got[r] <= u.rq[r].tries + Num(u.rq[r].sent)
      <3>1. w.ghost.got[r] <= w.rq[r].tries
        BY <1>0, <1>2, <2>3 DEF Counted, Due
      <3>2. w.ghost.got[r] \in Nat /\ w.rq[r].tries \in Nat /\ Num(u.rq[r].sent) = 1
        BY <1>1, <1>2, <1>7, BrokerAssumption DEF Buf, Num
      <3>3. u.ghost.got[r] = w.ghost.got[r] + 1 /\ u.rq[r].tries = w.rq[r].tries
        BY <1>7, <1>8
      <3> QED BY <3>1, <3>2, <3>3
    <2>4. \A x \in Reqs : u.ghost.got[x] <= u.rq[x].tries + Num(u.rq[x].sent)
      <3>1. \A x \in Reqs \ {r} : u.ghost.got[x] <= u.rq[x].tries + Num(u.rq[x].sent)
        BY <1>0, <2>2 DEF Counted
      <3> QED BY <2>3, <3>1
    <2>5. \A x \in Reqs \cap (ToSet(u.b.out) \cup ToSet(u.b.retry)) : Due(u, x)
      BY <1>0, <1>4, <1>6, <1>11, <2>2 DEF Counted, Due
    <2>6. \A x \in ToSet(u.b.retry) : ~u.rq[x].part /\ u.rq[x].corr = 0
      <3>1. \A x \in ToSet(w.b.retry) : u.rq[x] = w.rq[x]
        BY <1>2, <1>4, <2>2
      <3> QED BY <1>0, <1>6, <3>1 DEF Counted
    <2>7. ASSUME NEW i \in Carry(o)
          PROVE  IF o[i].op = "XMIT_BUF" THEN Unused(u, o[i].r) ELSE Due(u, o[i].r)
      <3>1. o[i].r \in Carried(o) /\ o[i].r \in Reqs
        BY <1>0, CarryIs DEF Carried
      <3>2. u.rq[o[i].r] = w.rq[o[i].r] /\ u.ghost.got[o[i].r] = w.ghost.got[o[i].r]
        BY <1>4, <2>2, <3>1
      <3> QED BY <1>0, <3>2 DEF Counted, Due, Unused
    <2>8. ASSUME NEW x \in Reqs \ u.ghost.issued PROVE Unused(u, x)
      <3>1. x # r
        BY <1>4, <1>6
      <3> QED BY <1>0, <1>6, <2>2, <3>1 DEF Counted, Unused
    <2> QED BY <2>1, <2>4, <2>5, <2>6, <2>7, <2>8 DEF Counted
  <1> QED BY <1>0, <1>6, <1>14, <1>15, <1>17, <1>18 DEF Base

(* All of the first request is sent.                                       *)
LEMMA SentKeeps ==
    ASSUME NEW w, NEW o, NEW H, Base(w, o, H), w.b.out # <<>>, IsUp(w.b.st),
           NEW n \in Work, Tagged(w, n, Head(w.b.out))
    PROVE  /\ Base(Sent(n, Head(w.b.out)), o, H)
           /\ Leads(w) /\ Len(w.b.wait) < w.b.infl => Leads(Sent(n, Head(w.b.out)))
  <1> DEFINE r == Head(w.b.out)
             u == Sent(n, r)
  <1>0. /\ w \in Work /\ Kept(w, o, H) /\ Linked(w) /\ Numbers(w) /\ AV \notin Reqs
    BY BrokerAssumption DEF Base
  <1>1. w.b.out \in Seq(All) /\ w.b.wait \in Seq(All) /\ w.b.infl \in Nat
    BY <1>0, Typed
  <1>2. r \in ToSet(w.b.out) /\ r \in All
    BY <1>1, ElemsIs
  <1>3. Distinct(w.b.out) /\ Distinct(w.b.wait)
    BY <1>0 DEF Kept
  <1>4. ToSet(Tail(w.b.out)) = ToSet(w.b.out) \ {r} /\ Distinct(Tail(w.b.out))
    BY <1>1, <1>3, TailSet
  <1>5. Tagged(w, n, r)
    OBVIOUS
  <1>f. Head(w.b.out) = r
    OBVIOUS
  <1> HIDE DEF r
  <1>6. r \notin ToSet(w.b.wait)
    BY <1>0, <1>2, OnlyThere, AVThere DEF All
  <1>7. n.b.out # <<>>
    BY <1>5, ZenonT(60) DEF Tagged
  <1>8. u \in Work /\ Sends(n, u, r)
    BY <1>2, <1>7, SentIs
  <1> HIDE DEF u
  <1>9. Goes(w, u, r)
    BY <1>0, <1>2, <1>3, <1>4, <1>5, <1>6, <1>8, GoesIs
  <1>10. Base(u, o, H)
    BY <1>2, <1>8, <1>9, GoesKeeps
  <1>11. ASSUME Leads(w), Len(w.b.wait) < w.b.infl PROVE Leads(u)
    <2>1. SUFFICES ASSUME bterm = "no" PROVE Whole(u) /\ Asking(u)
      BY DEF Leads
    <2>2. Whole(w) /\ Asking(w)
      BY <1>11, <2>1 DEF Leads
    <2>3. w.ghost.wire \in {r, None} /\ ~w.ghost.mixed
      BY <1>f, <2>2 DEF Whole
    <2>4. ASSUME w.b.st = "APIVERSION_QUERY" PROVE r = AV
      <3>1. Len(w.b.wait) = 0
        BY <1>1, <1>11, <2>2, <2>4, ElemsIs DEF Asking
      <3>2. ToSet(w.b.wait) = {}
        BY <1>1, <3>1, ElemsIs
      <3> QED BY <1>f, <2>2, <2>4, <3>2 DEF Asking
    <2>5. ~(r # AV /\ ~w.ghost.av)
      BY <2>2, <2>4 DEF Asking, IsUp
    <2>6. n.ghost = w.ghost
      BY <1>5, ZenonT(60) DEF Tagged
    <2>7. ~u.ghost.mixed /\ ~u.ghost.early
      BY <1>8, <2>2, <2>3, <2>5, <2>6 DEF Sends, Asking
    <2>8. Whole(u)
      BY <1>9, <2>7 DEF Whole, Goes
    <2>9. \A x \in ToSet(u.b.out) : u.rq[x] = w.rq[x] /\ x \in ToSet(w.b.out)
      <3>1. ToSet(w.b.out) \subseteq All
        BY <1>1, ElemsIs
      <3> QED BY <1>9, <3>1 DEF Goes
    <2>10. Asking(u)
      <3>1. /\ u.b.st = w.b.st /\ u.b.infl = w.b.infl /\ u.ghost.av = w.ghost.av
            /\ ToSet(u.b.wait) = ToSet(w.b.wait) \cup {r}
        BY <1>9 DEF Goes
      <3> QED BY <2>2, <2>4, <2>7, <2>9, <3>1 DEF Asking
    <2> QED BY <2>8, <2>10
  <1> QED BY <1>10, <1>11 DEF u, r

(* What sending a part of a request changes.                               *)
Begins(w, u, r) ==
    /\ u.b = w.b /\ u.mainq = w.mainq /\ u.net = w.net
    /\ u.rq[r].part /\ u.rq[r].corr = w.rq[r].corr /\ u.rq[r].conn = w.rq[r].conn
    /\ u.rq[r].tries = w.rq[r].tries /\ u.rq[r].sent = w.rq[r].sent
    /\ \A x \in All \ {r} : u.rq[x] = w.rq[x]
    /\ u.ghost.ended = w.ghost.ended /\ u.ghost.issued = w.ghost.issued
    /\ u.ghost.got = w.ghost.got /\ u.ghost.av = w.ghost.av /\ u.ghost.early = w.ghost.early
    /\ u.ghost.bad = w.ghost.bad /\ u.ghost.wire = r
    /\ u.ghost.mixed <=> w.ghost.mixed \/ w.ghost.wire \notin {r, None}

Begun(w, r) == [OnWire(w, r) EXCEPT !.rq[r].part = TRUE, !.ghost.wire = r]

(* The fields after a part of a request is sent.                           *)
LEMMA BegunIs ==
    ASSUME NEW w \in Work, NEW r \in All, NEW u, u = Begun(w, r)
    PROVE  u \in Work /\ Begins(w, u, r)
  <1>1. /\ w.b \in Broker /\ w.rq \in [All -> Buf]
        /\ w.net \in Seq(Received) /\ w.mainq \in Seq(Answers) /\ w.ghost \in Ghost
        /\ w.rq[r] \in Buf
    BY Typed
  <1>w. w = [b |-> w.b, rq |-> w.rq, mainq |-> w.mainq, net |-> w.net, ghost |-> w.ghost]
    BY DEF Work
  <1> DEFINE mx == w.ghost.mixed \/ w.ghost.wire \notin {r, None}
             f == [w.rq[r] EXCEPT !.part = TRUE]
             p == [w.rq EXCEPT ![r] = f]
             g == [w.ghost EXCEPT !.mixed = mx, !.wire = r]
  <1>2. /\ f \in Buf /\ f.corr = w.rq[r].corr /\ f.tries = w.rq[r].tries /\ f.part
        /\ f.sent = w.rq[r].sent /\ f.conn = w.rq[r].conn
    BY <1>1 DEF Buf
  <1>3. mx \in BOOLEAN
    OBVIOUS
  <1>4. u = [b |-> w.b, rq |-> p, mainq |-> w.mainq, net |-> w.net, ghost |-> g]
    <2> HIDE DEF mx
    <2>1. u = [[w EXCEPT !.ghost.mixed = mx] EXCEPT !.rq[r].part = TRUE, !.ghost.wire = r]
      BY DEF Begun, OnWire, mx
    <2> QED BY <1>w, <2>1
  <1>5. p \in [All -> Buf] /\ p[r] = f /\ \A x \in All \ {r} : p[x] = w.rq[x]
    <2> HIDE DEF f
    <2> QED BY <1>1, <1>2
  <1>6. /\ g \in Ghost /\ g.ended = w.ghost.ended /\ g.issued = w.ghost.issued
        /\ g.got = w.ghost.got /\ g.av = w.ghost.av /\ g.early = w.ghost.early
        /\ g.bad = w.ghost.bad /\ g.wire = r /\ g.mixed = mx
    <2> HIDE DEF mx
    <2> QED BY <1>1, <1>3 DEF Ghost
  <1>7. mx <=> w.ghost.mixed \/ w.ghost.wire \notin {r, None}
    OBVIOUS
  <1> HIDE DEF p, g, f, mx
  <1>8. u.b = w.b /\ u.rq = p /\ u.mainq = w.mainq /\ u.net = w.net /\ u.ghost = g
    BY <1>4
  <1>9. u \in Work
    BY <1>1, <1>4, <1>5, <1>6 DEF Work
  <1> QED BY <1>2, <1>5, <1>6, <1>7, <1>8, <1>9 DEF Begins

(* A request of which a part is sent stays queued.                         *)
LEMMA BegunKeeps ==
    ASSUME NEW w, NEW o, NEW H, Base(w, o, H), NEW r \in ToSet(w.b.out), IsUp(w.b.st),
           NEW n \in Work, Tagged(w, n, r), NEW u \in Work, Begins(n, u, r)
    PROVE  Base(u, o, H)
  <1>0. /\ w \in Work /\ o \in Seq(OpSet) /\ Kept(w, o, H) /\ Linked(w) /\ Numbers(w)
        /\ Counted(w, o) /\ ~w.ghost.bad /\ AV \notin Reqs /\ AV \in All /\ Reqs \subseteq All
    BY BrokerAssumption DEF Base, All
  <1>1. /\ w.b.wait \in Seq(All) /\ w.b.out \in Seq(All) /\ w.b.retry \in Seq(Reqs)
        /\ w.net \in Seq(Received) /\ n.b.corr \in Nat /\ w.b.corr \in Nat
    BY <1>0, Typed
  <1>2. /\ ToSet(w.b.out) \subseteq All /\ ToSet(w.b.wait) \subseteq All
        /\ ToSet(w.b.retry) \subseteq Reqs /\ r \in All
    BY <1>1, ElemsIs
  <1>3. r \notin ToSet(w.b.wait)
    BY <1>0, <1>2, OnlyThere, AVThere DEF All
  <1>4. r \in Reqs => /\ r \notin ToSet(w.b.retry) /\ r \notin Carried(o) /\ r \in w.ghost.issued
    BY <1>0, <1>2, OnlyThere
  <1>5. Near(n, o, H)
    BY TaggedNear
  <1>6. Kept(n, o, H) /\ Counted(n, o) /\ ~n.ghost.bad /\ \A x \in All : n.rq[x].corr <= n.b.corr
    BY <1>5 DEF Near
  <1>7. /\ n.b.out = w.b.out /\ n.b.wait = w.b.wait /\ n.b.retry = w.b.retry
        /\ n.b.st = w.b.st /\ n.b.trans = w.b.trans /\ n.b.conn = w.b.conn /\ n.net = w.net
        /\ n.ghost = w.ghost /\ n.b.corr >= w.b.corr
    BY DEF Tagged
  <1>8. /\ u.b = n.b /\ u.mainq = n.mainq /\ u.net = n.net
        /\ u.ghost.ended = n.ghost.ended /\ u.ghost.issued = n.ghost.issued
        /\ u.ghost.got = n.ghost.got /\ u.ghost.bad = n.ghost.bad
    BY DEF Begins
  <1>9. /\ u.rq[r].part /\ u.rq[r].corr = n.rq[r].corr /\ n.rq[r].corr \in 1..n.b.corr
        /\ u.rq[r].conn = w.b.conn
        /\ u.rq[r].tries = n.rq[r].tries /\ u.rq[r].sent = n.rq[r].sent
    BY DEF Begins, Tagged
  <1>10. \A x \in All \ {r} : u.rq[x] = n.rq[x] /\ n.rq[x] = w.rq[x]
    BY DEF Begins, Tagged
  <1>11. /\ \A x \in (ToSet(w.b.out) \cup ToSet(w.b.wait)) \ {r} : w.rq[x].corr # n.rq[r].corr
         /\ \A i \in 1..Len(w.net) : w.net[i].corr # n.rq[r].corr
    BY DEF Tagged
  <1>12. Kept(u, o, H)
    BY <1>6, <1>8 DEF Kept, Spread
  <1>13. Linked(u)
    BY <1>0, <1>7, <1>8 DEF Linked
  <1>14. Numbers(u)
    <2>1. \A x \in ToSet(w.b.out) \cup ToSet(w.b.wait) : x # r => u.rq[x] = w.rq[x]
      BY <1>2, <1>10
    <2>2. \A x \in All : u.rq[x].corr <= u.b.corr
      <3>1. \A x \in All : u.rq[x].corr = n.rq[x].corr
        BY <1>9, <1>10
      <3> QED BY <1>6, <1>8, <3>1
    <2>3. u.b.out = w.b.out /\ u.b.wait = w.b.wait /\ u.net = w.net /\ u.b.corr = n.b.corr
          /\ u.b.conn = w.b.conn /\ u.b.st = w.b.st
      BY <1>7, <1>8
    <2>4. u.rq[r].corr # 0
      BY <1>1, <1>9
    <2>5. \A x \in ToSet(u.b.out) :
            /\ u.rq[x].corr # 0 => u.rq[x].part
            /\ u.rq[x].part => u.rq[x].corr # 0 /\ u.rq[x].conn = u.b.conn /\ IsUp(u.b.st)
      BY <1>0, <1>9, <2>1, <2>3, <2>4 DEF Numbers
    <2>6. \A x \in ToSet(u.b.wait) : u.rq[x].corr # 0
      BY <1>0, <1>3, <2>1, <2>3 DEF Numbers
    <2>7. \A x, y \in ToSet(u.b.out) \cup ToSet(u.b.wait) :
            u.rq[x].corr = u.rq[y].corr /\ u.rq[x].corr # 0 => x = y
      <3>1. \A x \in (ToSet(w.b.out) \cup ToSet(w.b.wait)) \ {r} : u.rq[x].corr # u.rq[r].corr
        BY <1>9, <1>11, <2>1
      <3>2. \A x, y \in (ToSet(w.b.out) \cup ToSet(w.b.wait)) \ {r} :
              u.rq[x].corr = u.rq[y].corr /\ u.rq[x].corr # 0 => x = y
        BY <1>0, <2>1 DEF Numbers
      <3> QED BY <2>3, <3>1, <3>2
    <2>8. \A i \in 1..Len(u.net) : u.net[i].corr \in 1..u.b.corr
      <3>1. \A i \in 1..Len(w.net) : w.net[i].corr \in 1..w.b.corr
        BY <1>0 DEF Numbers
      <3> QED BY <1>1, <1>7, <2>3, <3>1
    <2>9. \A i \in 1..Len(u.net) : \A x \in ToSet(u.b.wait) :
            u.net[i].corr = u.rq[x].corr => u.net[i].r = x
      BY <1>0, <1>3, <2>1, <2>3 DEF Numbers
    <2>10. \A i \in 1..Len(u.net) : \A x \in ToSet(u.b.out) : u.net[i].corr # u.rq[x].corr
      BY <1>0, <1>9, <1>11, <2>1, <2>3 DEF Numbers
    <2> QED BY <2>2, <2>5, <2>6, <2>7, <2>8, <2>9, <2>10 DEF Numbers
  <1>15. Counted(u, o)
    <2>1. \A x \in Reqs : /\ u.rq[x].tries = n.rq[x].tries /\ u.rq[x].sent = n.rq[x].sent
                          /\ x # r => u.rq[x] = n.rq[x]
      BY <1>0, <1>9, <1>10
    <2>2. \A x \in ToSet(w.b.retry) : u.rq[x] = n.rq[x]
      BY <1>2, <1>4, <2>1
    <2>3. \A i \in Carry(o) : u.rq[o[i].r] = n.rq[o[i].r]
      <3>1. \A i \in Carry(o) : o[i].r \in Carried(o) /\ o[i].r \in Reqs
        BY <1>0, CarryIs DEF Carried
      <3> QED BY <1>4, <2>1, <3>1
    <2>4. \A x \in Reqs \ w.ghost.issued : u.rq[x] = n.rq[x]
      BY <1>4, <2>1
    <2>5. u.ghost.got = n.ghost.got /\ u.ghost.issued = n.ghost.issued /\ n.ghost.issued = w.ghost.issued
          /\ u.b = n.b /\ n.b.retry = w.b.retry
      BY <1>7, <1>8
    <2>6. \A x \in Reqs \cap (ToSet(u.b.out) \cup ToSet(u.b.retry)) : Due(u, x)
      BY <1>6, <2>1, <2>5 DEF Counted, Due
    <2>7. \A x \in Reqs : u.ghost.got[x] <= u.rq[x].tries + Num(u.rq[x].sent)
      BY <1>6, <2>1, <2>5 DEF Counted
    <2>8. \A x \in Reqs \ u.ghost.issued : Unused(u, x)
      BY <1>6, <2>4, <2>5 DEF Counted, Unused
    <2>9. \A i \in Carry(o) : IF o[i].op = "XMIT_BUF" THEN Unused(u, o[i].r) ELSE Due(u, o[i].r)
      BY <1>6, <2>3, <2>5 DEF Counted, Unused, Due
    <2>10. \A x \in ToSet(u.b.retry) : ~u.rq[x].part /\ u.rq[x].corr = 0
      BY <1>6, <2>2, <2>5 DEF Counted
    <2>11. u.b.blk = Cardinality(ToSet(u.b.wait) \cap Blocking)
      BY <1>6, <2>5 DEF Counted
    <2> QED BY <2>6, <2>7, <2>8, <2>9, <2>10, <2>11 DEF Counted
  <1> QED BY <1>0, <1>6, <1>8, <1>12, <1>13, <1>14, <1>15 DEF Base

-----------------------------------------------------------------------------
(* The steps.                                                              *)
LEMMA BecomesIs ==
    ASSUME NEW w \in Work, Becomes(w)
    PROVE  W' = w
  <1>1. w = [b |-> w.b, rq |-> w.rq, mainq |-> w.mainq, net |-> w.net, ghost |-> w.ghost]
    BY DEF Work
  <1>2. W' = [b |-> w.b, rq |-> w.rq, mainq |-> w.mainq, net |-> w.net, ghost |-> w.ghost]
    BY DEF W, Becomes
  <1> QED BY <1>1, <1>2

(* A step keeps the invariant if what the thread works on satisfies it,    *)
LEMMA StepTo ==
    ASSUME Inv, NEW w, Becomes(w), bterm' = bterm, Base(w, ops', {}), Leads(w)
    PROVE  Inv'
  <1>1. w \in Work
    BY DEF Base
  <1>2. W' = w
    BY <1>1, BecomesIs
  <1>3. Base(W', ops', {})
    BY <1>2
  <1>4. bterm' = "no" => Whole(W') /\ Asking(W')
    BY <1>2 DEF Leads
  <1>5. bterm' \in {"no", "flag", "op"}
    BY DEF Inv
  <1> QED BY <1>3, <1>4, <1>5 DEF Inv, Leads

(* in particular a step that leaves the ops alone.                         *)
LEMMA ThreadTo ==
    ASSUME Inv, NEW w, Thread(w), Base(w, ops, {}), Leads(w)
    PROVE  Inv'
  <1>1. Becomes(w) /\ bterm' = bterm /\ ops' = ops
    BY DEF Thread
  <1>2. Base(w, ops', {})
    BY <1>1
  <1> QED BY <1>1, <1>2, StepTo

(* What the invariant says of the work at hand.                            *)
LEMMA InvIs ==
    ASSUME Inv
    PROVE  /\ Base(W, ops, {}) /\ Leads(W) /\ W \in Work /\ Near(W, ops, {})
           /\ W.b = b /\ W.rq = rq /\ W.mainq = mainq /\ W.net = net /\ W.ghost = ghost
           /\ bterm = "no" => ~W.ghost.mixed /\ ~W.ghost.early
  <1>1. Base(W, ops, {}) /\ Leads(W)
    BY DEF Inv
  <1>2. Near(W, ops, {})
    BY <1>1, BaseNear
  <1>3. bterm = "no" => ~W.ghost.mixed /\ ~W.ghost.early
    BY <1>1 DEF Leads, Whole, Asking
  <1>4. W.b = b /\ W.rq = rq /\ W.mainq = mainq /\ W.net = net /\ W.ghost = ghost
    BY DEF W
  <1>5. W \in Work
    BY <1>1 DEF Base
  <1> QED BY <1>1, <1>2, <1>3, <1>4, <1>5

(* The first request has no version the broker knows.                      *)
LEMMA RefuseKeeps ==
    ASSUME NEW w, NEW o, Base(w, o, {}), Leads(w), w.b.out # <<>>, IsUp(w.b.st),
           Len(w.b.wait) < w.b.infl, NEW r, r = Head(w.b.out), r \in w.b.cf.unsupported,
           NEW u, u = [w EXCEPT !.b.out = Tail(@)]
    PROVE  /\ Base(Callback(u, r, "UNSUPPORTED_FEATURE"), o, {})
           /\ Leads(Callback(u, r, "UNSUPPORTED_FEATURE"))
  <1>0. w \in Work /\ Kept(w, o, {}) /\ Counted(w, o)
    BY DEF Base
  <1>1. /\ w.b.out \in Seq(All) /\ w.b.wait \in Seq(All) /\ w.b.infl \in Nat /\ w.b.cf \in Configs
        /\ w.b \in Broker
    BY <1>0, Typed
  <1>2. r \in Reqs /\ r # AV /\ r # None /\ r \in All
    BY <1>1, BrokerAssumption DEF All
  <1>3. r \in ToSet(w.b.out)
    BY <1>1, ElemsIs
  <1>4. Distinct(w.b.out) /\ Distinct(w.b.wait) /\ Distinct(w.b.retry)
    BY <1>0 DEF Kept
  <1>5. ToSet(Tail(w.b.out)) = ToSet(w.b.out) \ {r} /\ Distinct(Tail(w.b.out)) /\ Tail(w.b.out) \in Seq(All)
    BY <1>1, <1>4, TailSet
  <1>6. r \notin ToSet(w.b.wait) /\ r \notin ToSet(w.b.retry)
    BY <1>0, <1>2, <1>3, OnlyThere
  <1>7. u \in Work /\ u.rq = w.rq /\ u.mainq = w.mainq /\ u.net = w.net /\ u.ghost = w.ghost
        /\ u.b.out = Tail(w.b.out)
        /\ u.b.wait = w.b.wait /\ u.b.retry = w.b.retry /\ u.b.st = w.b.st /\ u.b.trans = w.b.trans
        /\ u.b.conn = w.b.conn /\ u.b.corr = w.b.corr /\ u.b.cf = w.b.cf /\ u.b.infl = w.b.infl
        /\ u.b.blk = w.b.blk
    <2> DEFINE t == Tail(w.b.out)
               c == [w.b EXCEPT !.out = t]
    <2>1. t \in Seq(All)
      BY <1>5
    <2>2. u = [w EXCEPT !.b.out = t]
      OBVIOUS
    <2> HIDE DEF t
    <2>3. /\ c \in Broker /\ c.out = t
          /\ c.wait = w.b.wait /\ c.retry = w.b.retry /\ c.st = w.b.st /\ c.trans = w.b.trans
          /\ c.conn = w.b.conn /\ c.corr = w.b.corr /\ c.cf = w.b.cf /\ c.infl = w.b.infl
          /\ c.blk = w.b.blk
      BY <1>1, <2>1, ZenonT(60) DEF Broker
    <2>4. u = [w EXCEPT !.b = c]
      BY <2>2
    <2> HIDE DEF c
    <2>5. u \in Work /\ u.rq = w.rq /\ u.mainq = w.mainq /\ u.net = w.net /\ u.ghost = w.ghost
          /\ u.b = c
      BY <1>0, <2>3, <2>4 DEF Work
    <2> QED BY <2>3, <2>5 DEF t
  <1>9. Takes(w, u, {r})
    <2>1. \A i \in 1..Len(u.net) : \E j \in 1..Len(w.net) : u.net[i] = w.net[j]
      BY <1>7
    <2>2. ToSet(u.b.out) = ToSet(w.b.out) \ {r} /\ Distinct(u.b.out)
      BY <1>5, <1>7
    <2>3. ToSet(u.b.wait) = ToSet(w.b.wait) \ {r} /\ ToSet(u.b.retry) = ToSet(w.b.retry) \ {r}
          /\ Distinct(u.b.wait) /\ Distinct(u.b.retry)
      BY <1>4, <1>6, <1>7
    <2>4. u.b.blk = Cardinality(ToSet(u.b.wait) \cap Blocking)
      BY <1>0, <1>7 DEF Counted
    <2> QED BY <1>7, <2>1, <2>2, <2>3, <2>4 DEF Takes
  <1>10. bterm = "no" => w.ghost.wire # r /\ Head(w.b.out) \notin {w.ghost.wire, AV}
    BY <1>2 DEF Leads, Whole
  <1>11. Base(u, o, {} \cup {r}) /\ Leads(u)
    <2> DEFINE S == {r}
               E == {}
    <2>1. S \subseteq ToSet(w.b.out) \cup ToSet(w.b.wait) \cup ToSet(w.b.retry) /\ Takes(w, u, S)
          /\ Base(w, o, E) /\ u \in Work
      BY <1>3, <1>7, <1>9
    <2>2. Leaves(w, u, S)
      BY <1>2, <1>10 DEF Leaves
    <2> HIDE DEF S, E
    <2>3. Base(u, o, E \cup S) /\ Leads(u)
      BY <2>1, <2>2, TakesKeeps
    <2> QED BY <2>3 DEF S, E
  <1>12. "UNSUPPORTED_FEATURE" \in Errors
    BY DEF Errors
  <1> DEFINE v == Callback(u, r, "UNSUPPORTED_FEATURE")
             G == {} \cup {r}
  <1>13. r \in G /\ G \ {r} = {}
    OBVIOUS
  <1> HIDE DEF v, G
  <1>14. Base(v, o, G \ {r}) /\ Leads(v)
    BY <1>2, <1>11, <1>12, <1>13, CallbackKeeps DEF v, G
  <1> QED BY <1>13, <1>14 DEF v

(* A step that ends in rd_kafka_broker_fail().                             *)
LEMMA FailStep ==
    ASSUME Inv, NEW w, Near(w, ops, {}), bterm = "no" => ~w.ghost.mixed /\ ~w.ghost.early,
           Thread(Fail(w, "TRANSPORT"))
    PROVE  Inv'
  <1>1. "TRANSPORT" \in Errors
    BY DEF Errors
  <1>2. Base(Fail(w, "TRANSPORT"), ops, {}) /\ Leads(Fail(w, "TRANSPORT"))
    BY <1>1, FailKeeps
  <1> QED BY <1>2, ThreadTo

(* rd_kafka_send(): refused, whole, in part, or the connection fails.      *)
LEMMA SendKeeps ==
    ASSUME Inv, Send
    PROVE  Inv'
  <1> DEFINE r == Head(b.out)
             n == Require(Numbered(W, r), b.trans)
             u == [W EXCEPT !.b.out = Tail(@)]
  <1>1. /\ Base(W, ops, {}) /\ Leads(W) /\ W \in Work
        /\ W.b = b /\ W.rq = rq /\ W.ghost = ghost
        /\ bterm = "no" => ~W.ghost.mixed /\ ~W.ghost.early
    BY InvIs
  <1>2. IsUp(W.b.st) /\ Len(W.b.wait) < W.b.infl /\ W.b.out # <<>> /\ r = Head(W.b.out)
    BY <1>1 DEF Send, MaySend
  <1>3. CASE r \in b.cf.unsupported
    <2>1. Thread(Callback(u, r, "UNSUPPORTED_FEATURE"))
      BY <1>3 DEF Send
    <2>2. r \in W.b.cf.unsupported
      BY <1>1, <1>3
    <2> HIDE DEF r
    <2>3. /\ Base(Callback(u, r, "UNSUPPORTED_FEATURE"), ops, {})
          /\ Leads(Callback(u, r, "UNSUPPORTED_FEATURE"))
      <3>1. u = [W EXCEPT !.b.out = Tail(@)]
        OBVIOUS
      <3> HIDE DEF u
      <3> QED BY <1>1, <1>2, <2>2, <3>1, RefuseKeeps
    <2> HIDE DEF u
    <2> QED BY <2>1, <2>3, ThreadTo
  <1>4. CASE r \notin b.cf.unsupported
    <2>1. \/ Thread(Sent(n, r))
          \/ Thread(Begun(n, r))
          \/ Thread(Fail(n, "TRANSPORT"))
      BY <1>4 DEF Send, Begun
    <2>2. W.b.out \in Seq(All)
      BY <1>1, Typed
    <2>3. r \in ToSet(W.b.out) /\ r \in All
      BY <1>2, <2>2, ElemsIs
    <2>4. n \in Work /\ Tagged(W, n, r)
      <3>1. n = Require(Numbered(W, r), W.b.trans)
        BY <1>1
      <3> HIDE DEF n, r
      <3> QED BY <1>1, <1>2, <2>3, <3>1, NumberedIs
    <2> HIDE DEF n, r
    <2>5. CASE Thread(Sent(n, r))
      <3>1. Base(Sent(n, r), ops, {}) /\ Leads(Sent(n, r))
        BY <1>1, <1>2, <2>4, SentKeeps
      <3> QED BY <2>5, <3>1, ThreadTo
    <2>6. CASE Thread(Begun(n, r))
      <3> DEFINE v == Begun(n, r)
      <3>1. v \in Work /\ Begins(n, v, r)
        BY <2>3, <2>4, BegunIs
      <3> HIDE DEF v
      <3>2. Base(v, ops, {})
        BY <1>1, <1>2, <2>3, <2>4, <3>1, BegunKeeps
      <3>3. ASSUME bterm = "no" PROVE Whole(v) /\ Asking(v)
        <4>1. Whole(W) /\ Asking(W)
          BY <1>1, <3>3 DEF Leads
        <4>2. n.ghost = W.ghost /\ n.b.out = W.b.out /\ n.b.wait = W.b.wait /\ n.b.st = W.b.st
              /\ n.b.infl = W.b.infl /\ n.b.cf = W.b.cf
              /\ \A x \in All \ {r} : n.rq[x] = W.rq[x]
          BY <2>4 DEF Tagged
        <4>3. /\ v.b = n.b /\ v.ghost.wire = r /\ v.rq[r].part
              /\ v.ghost.early = n.ghost.early /\ v.ghost.av = n.ghost.av
              /\ v.ghost.mixed <=> n.ghost.mixed \/ n.ghost.wire \notin {r, None}
              /\ \A x \in All \ {r} : v.rq[x] = n.rq[x]
          BY <3>1 DEF Begins
        <4>4. W.ghost.wire \in {r, None} /\ ~W.ghost.mixed
          BY <1>2, <4>1 DEF Whole
        <4>5. ~v.ghost.mixed
          BY <4>2, <4>3, <4>4
        <4>6. Whole(v)
          BY <1>1, <1>2, <1>4, <4>2, <4>3, <4>5 DEF Whole
        <4>7. ASSUME W.b.st = "APIVERSION_QUERY" PROVE r = AV
          <5>1. W.b.wait \in Seq(All) /\ W.b.infl \in Nat
            BY <1>1, Typed
          <5>2. Len(W.b.wait) = 0
            BY <1>2, <4>1, <4>7, <5>1, ElemsIs DEF Asking
          <5>3. ToSet(W.b.wait) = {}
            BY <5>1, <5>2, ElemsIs
          <5> QED BY <1>2, <4>1, <4>7, <5>3 DEF Asking
        <4>8. \A x \in ToSet(W.b.out) : x # r => v.rq[x] = W.rq[x]
          <5>1. ToSet(W.b.out) \subseteq All
            BY <2>2, ElemsIs
          <5> QED BY <4>2, <4>3, <5>1
        <4>9. Asking(v)
          BY <4>1, <4>2, <4>3, <4>7, <4>8 DEF Asking
        <4> QED BY <4>6, <4>9
      <3>4. Leads(v)
        BY <3>3 DEF Leads
      <3> QED BY <2>6, <3>2, <3>4, ThreadTo DEF v
    <2>7. CASE Thread(Fail(n, "TRANSPORT"))
      <3>1. Near(n, ops, {})
        BY <1>1, <2>3, <2>4, TaggedNear
      <3>2. n.ghost = W.ghost
        BY <2>4 DEF Tagged
      <3> QED BY <1>1, <2>7, <3>1, <3>2, FailStep
    <2> QED BY <2>1, <2>5, <2>6, <2>7
  <1> QED BY <1>3, <1>4

(* The broker's own fields change.                                         *)
LEMMA PutBroker ==
    ASSUME NEW w \in Work, NEW c \in Broker, NEW u, u = [w EXCEPT !.b = c],
           c.out = w.b.out, c.wait = w.b.wait, c.retry = w.b.retry, c.corr = w.b.corr,
           c.blk = w.b.blk, c.cf = w.b.cf
    PROVE  u \in Work /\ Stays(w, u) /\ u.b = c /\ u.ghost = w.ghost /\ u.rq = w.rq
  <1>1. /\ u \in Work /\ u.b = c /\ u.rq = w.rq /\ u.mainq = w.mainq /\ u.net = w.net
        /\ u.ghost = w.ghost
    BY DEF Work
  <1> QED BY <1>1 DEF Stays

(* A change of the connection disturbs no request.                         *)
LEMMA StaysNear ==
    ASSUME NEW w, NEW o, NEW H, Near(w, o, H), NEW u \in Work, Stays(w, u)
    PROVE  Near(u, o, H)
  <1>1. Kept(u, o, H)
    BY DEF Near, Kept, Spread, Stays
  <1>2. Counted(u, o)
    BY DEF Near, Counted, Due, Unused, Stays
  <1> QED BY <1>1, <1>2 DEF Near, Stays

(* The thread goes on to another state.                                    *)
Moves(st, to) == \/ st \in {"INIT", "DOWN"} /\ to \in {"INIT", "TRY_CONNECT"}
                 \/ st = "UPDATE" /\ to = "UP"
                 \/ st = "UP" /\ to = "UPDATE"

(* Such a move keeps the invariant.                                        *)
LEMMA MoveKeeps ==
    ASSUME NEW w, NEW o, NEW H, Base(w, o, H), NEW to, Moves(w.b.st, to),
           NEW u, u = SetState(w, to)
    PROVE  Base(u, o, H) /\ (Leads(w) => Leads(u))
  <1> DEFINE c == [w.b EXCEPT !.st = to]
  <1>0. w \in Work /\ Linked(w) /\ Numbers(w)
    BY DEF Base
  <1>1. w.b \in Broker /\ to \in States
    BY <1>0, Typed DEF Moves, States
  <1>2. /\ c \in Broker /\ c.st = to /\ c.trans = w.b.trans /\ c.infl = w.b.infl /\ c.conn = w.b.conn
        /\ c.out = w.b.out /\ c.wait = w.b.wait /\ c.retry = w.b.retry /\ c.corr = w.b.corr
        /\ c.blk = w.b.blk /\ c.cf = w.b.cf
    BY <1>1 DEF Broker
  <1>3. u = [w EXCEPT !.b = c]
    BY DEF SetState
  <1> HIDE DEF c
  <1>4. u \in Work /\ Stays(w, u) /\ u.b = c /\ u.ghost = w.ghost /\ u.rq = w.rq
    BY <1>0, <1>2, <1>3, PutBroker
  <1>5. Linked(u)
    BY <1>0, <1>2, <1>4 DEF Linked, Moves
  <1>6. IsUp(w.b.st) => IsUp(u.b.st) /\ u.b.conn = w.b.conn
    BY <1>2, <1>4 DEF IsUp, Moves
  <1>7. Base(u, o, H) /\ (Whole(w) => Whole(u))
    BY <1>4, <1>5, <1>6, StaysKeeps
  <1>8. Asking(w) => Asking(u)
    BY <1>2, <1>4 DEF Asking, Moves
  <1> QED BY <1>7, <1>8 DEF Leads

(* rd_kafka_broker_thread_main() moves on.                                 *)
LEMMA RedoKeeps ==
    ASSUME Inv, Redo
    PROVE  Inv'
  <1>1. Base(W, ops, {}) /\ Leads(W) /\ W.b = b
    BY InvIs
  <1>2. PICK to : Moves(W.b.st, to) /\ Thread(SetState(W, to))
    <2>1. CASE NeedsConnection /\ Thread(SetState(W, "TRY_CONNECT"))
      <3>1. Moves(W.b.st, "TRY_CONNECT")
        BY <1>1, <2>1 DEF NeedsConnection, Moves
      <3> QED BY <2>1, <3>1
    <2>2. CASE b.st = "DOWN" /\ Thread(SetState(W, IF Sparse THEN "INIT" ELSE "TRY_CONNECT"))
      <3> DEFINE t == IF Sparse THEN "INIT" ELSE "TRY_CONNECT"
      <3>1. Moves(W.b.st, t) /\ Thread(SetState(W, t))
        BY <1>1, <2>2 DEF Moves
      <3> QED BY <3>1
    <2>3. CASE b.st = "UPDATE" /\ Thread(SetState(W, "UP"))
      <3>1. Moves(W.b.st, "UP")
        BY <1>1, <2>3 DEF Moves
      <3> QED BY <2>3, <3>1
    <2> QED BY <2>1, <2>2, <2>3 DEF Redo
  <1> DEFINE u == SetState(W, to)
  <1>3. Base(u, ops, {}) /\ Leads(u)
    BY <1>1, <1>2, MoveKeeps
  <1> HIDE DEF u
  <1> QED BY <1>2, <1>3, ThreadTo DEF u

(* rd_kafka_broker_connect(): there is no transport yet.                   *)
LEMMA ConnectKeeps ==
    ASSUME Inv, Connect
    PROVE  Inv'
  <1> DEFINE w == SetState([W EXCEPT !.b.epoch = b.nodename], "CONNECT")
             c == [b EXCEPT !.epoch = b.nodename, !.st = "CONNECT"]
             d == [b EXCEPT !.epoch = b.nodename, !.st = "CONNECT", !.trans = TRUE]
             u == [w EXCEPT !.b.trans = TRUE]
  <1>1. /\ Base(W, ops, {}) /\ Leads(W) /\ W \in Work /\ W.b = b /\ Near(W, ops, {})
        /\ bterm = "no" => ~W.ghost.mixed /\ ~W.ghost.early
    BY InvIs
  <1>2. b \in Broker /\ "CONNECT" \in States /\ b.nodename \in Nat
    <2>1. b \in Broker
      BY <1>1, Typed
    <2> QED BY <2>1 DEF Broker, States
  <1>3. b.st = "TRY_CONNECT" /\ ~b.trans /\ Linked(W)
    BY <1>1 DEF Connect, Base, Linked
  <1>4. /\ c \in Broker /\ c.out = b.out /\ c.wait = b.wait /\ c.retry = b.retry
        /\ c.corr = b.corr /\ c.blk = b.blk /\ c.cf = b.cf
    BY <1>2 DEF Broker
  <1>5. /\ d \in Broker /\ d.out = b.out /\ d.wait = b.wait /\ d.retry = b.retry
        /\ d.corr = b.corr /\ d.blk = b.blk /\ d.cf = b.cf /\ d.st = "CONNECT" /\ d.trans = TRUE
    BY <1>2 DEF Broker
  <1>6. w = [W EXCEPT !.b = c] /\ u = [W EXCEPT !.b = d]
    BY <1>1, <1>2 DEF SetState, Work, Broker
  <1>7. Thread(u) \/ Thread(Fail(w, "TRANSPORT"))
    <2>1. Thread(Require(u, ~b.trans)) \/ Thread(Fail(w, "TRANSPORT"))
      BY DEF Connect
    <2>2. Require(u, ~b.trans) = u
      BY <1>3 DEF Require
    <2> HIDE DEF u, w
    <2> QED BY <2>1, <2>2
  <1> HIDE DEF w, c, d, u
  <1>8. w \in Work /\ Stays(W, w) /\ w.ghost = W.ghost
    BY <1>1, <1>4, <1>6, PutBroker
  <1>9. u \in Work /\ Stays(W, u) /\ u.b = d /\ u.ghost = W.ghost /\ u.rq = W.rq
    BY <1>1, <1>5, <1>6, PutBroker
  <1>10. CASE Thread(u)
    <2>1. Linked(u)
      BY <1>1, <1>3, <1>5, <1>9 DEF Linked
    <2>2. ~IsUp(W.b.st)
      BY <1>1, <1>3 DEF IsUp
    <2>3. Base(u, ops, {}) /\ (Whole(W) => Whole(u))
      BY <1>1, <1>9, <2>1, <2>2, StaysKeeps
    <2>4. Asking(W) => Asking(u)
      BY <1>5, <1>9 DEF Asking
    <2>5. Leads(u)
      BY <1>1, <2>3, <2>4 DEF Leads
    <2> QED BY <1>10, <2>3, <2>5, ThreadTo
  <1>11. CASE Thread(Fail(w, "TRANSPORT"))
    <2>1. Near(w, ops, {})
      BY <1>1, <1>8, StaysNear
    <2> QED BY <1>1, <1>8, <1>11, <2>1, FailStep
  <1> QED BY <1>7, <1>10, <1>11

(* The connection is lost or times out.                                    *)
LEMMA FailsKeeps ==
    ASSUME Inv, Thread(Fail(W, "TRANSPORT"))
    PROVE  Inv'
  BY InvIs, FailStep

(* And what is known of the versions.                                      *)
Same(d, c) == /\ c.out = d.out /\ c.wait = d.wait /\ c.retry = d.retry /\ c.corr = d.corr
              /\ c.blk = d.blk /\ c.cf = d.cf
Put(w, u, c, a) == u \in Work /\ Stays(w, u) /\ u.b = c /\ u.ghost.av = a /\ u.rq = w.rq

(* Both are put in.                                                        *)
LEMMA PutAsked ==
    ASSUME NEW w \in Work, NEW c \in Broker, NEW a \in BOOLEAN, Same(w.b, c),
           NEW u, u = [w EXCEPT !.b = c, !.ghost.av = a]
    PROVE  Put(w, u, c, a)
  <1> DEFINE g == [w.ghost EXCEPT !.av = a]
  <1>1. w.ghost \in Ghost
    BY Typed
  <1>2. /\ g \in Ghost /\ g.av = a
        /\ g.ended = w.ghost.ended /\ g.got = w.ghost.got
        /\ g.issued = w.ghost.issued /\ g.wire = w.ghost.wire
        /\ g.mixed = w.ghost.mixed /\ g.early = w.ghost.early
        /\ g.bad = w.ghost.bad
    BY <1>1 DEF Ghost
  <1>3. u = [w EXCEPT !.b = c, !.ghost = g]
    BY DEF Work
  <1> HIDE DEF g
  <1>4. /\ u \in Work /\ u.b = c /\ u.rq = w.rq /\ u.mainq = w.mainq /\ u.net = w.net
        /\ u.ghost = g
    BY <1>2, <1>3 DEF Work
  <1> QED BY <1>2, <1>4 DEF Stays, Put, Same

(* When no connection is up, nothing was begun.                            *)
LEMMA NoneBegun ==
    ASSUME NEW w, NEW o, NEW H, Base(w, o, H), ~IsUp(w.b.st)
    PROVE  /\ \A x \in ToSet(w.b.out) : ~w.rq[x].part
           /\ Leads(w) => (bterm = "no" => w.ghost.wire = None)
  <1>1. w \in Work /\ Numbers(w)
    BY DEF Base
  <1>2. w.b.out \in Seq(All)
    BY <1>1, Typed
  <1>3. w.b.out # <<>> => Head(w.b.out) \in ToSet(w.b.out)
    BY <1>2, ElemsIs
  <1>4. \A x \in ToSet(w.b.out) : ~w.rq[x].part
    BY <1>1 DEF Numbers
  <1> QED BY <1>3, <1>4 DEF Leads, Whole

(* A connection is made: the question for the versions goes out first.     *)
LEMMA ConnectedAsks ==
    ASSUME Inv, b.st = "CONNECT", NEW q \in BOOLEAN,
           NEW u, u = ConnectDone([W EXCEPT !.b.apiv = q], TRUE)
    PROVE  Base(u, ops, {}) /\ Leads(u)
  <1> DEFINE c == [b EXCEPT !.apiv = q, !.conn = @ + 1, !.infl = 1, !.st = "APIVERSION_QUERY"]
             y == [W EXCEPT !.b = c, !.ghost.av = FALSE]
             f == [Fresh EXCEPT !.ver = 3]
             x == [y EXCEPT !.rq[AV] = f]
  <1>1. /\ Base(W, ops, {}) /\ Leads(W) /\ W \in Work /\ W.b = b
        /\ bterm = "no" => ~W.ghost.mixed /\ ~W.ghost.early
    BY InvIs
  <1>2. b \in Broker /\ "APIVERSION_QUERY" \in States
    BY <1>1, Typed DEF States
  <1>3. /\ c \in Broker /\ c.out = b.out /\ c.wait = b.wait /\ c.retry = b.retry
        /\ c.corr = b.corr /\ c.blk = b.blk /\ c.cf = b.cf /\ c.infl = 1
        /\ c.st = "APIVERSION_QUERY" /\ c.trans = b.trans
    <2> DEFINE i == 1
    <2>1. i \in Nat /\ b.conn + 1 \in Nat /\ c = [b EXCEPT !.apiv = q, !.conn = @ + 1, !.infl = i, !.st = "APIVERSION_QUERY"]
      BY <1>2 DEF Broker
    <2> HIDE DEF i, c
    <2>2. /\ c \in Broker /\ c.out = b.out /\ c.wait = b.wait /\ c.retry = b.retry
          /\ c.corr = b.corr /\ c.blk = b.blk /\ c.cf = b.cf /\ c.infl = i
          /\ c.st = "APIVERSION_QUERY" /\ c.trans = b.trans
      BY <1>2, <2>1 DEF Broker
    <2> QED BY <2>2 DEF i
  <1>4. f \in Buf /\ f.corr = 0 /\ f.part = FALSE
    <2> DEFINE k == 3
               z == 0
               p == FALSE
    <2>1. k \in Nat /\ z \in Nat /\ z \in 0..MaxRetries /\ p \in BOOLEAN
      BY BrokerAssumption
    <2>4. Fresh = [corr |-> z, conn |-> z, part |-> p, sent |-> p, tries |-> z, ver |-> z]
      BY DEF Fresh
    <2>5. f = [Fresh EXCEPT !.ver = k]
      OBVIOUS
    <2> HIDE DEF k, z, p, f
    <2>2. f = [corr |-> z, conn |-> z, part |-> p, sent |-> p, tries |-> z, ver |-> k]
      BY <2>4, <2>5
    <2>3. f \in Buf /\ f.corr = z /\ f.part = p
      BY <2>1, <2>2 DEF Buf
    <2> QED BY <2>3 DEF z, p
  <1>5. u = BufEnq(x, AV)
    <2>1. SetState([[W EXCEPT !.b.apiv = q] EXCEPT !.b.conn = @ + 1, !.b.infl = 1, !.ghost.av = FALSE],
                   "APIVERSION_QUERY") = y
      BY <1>1, <1>2 DEF SetState, Work, Broker
    <2>2. u = BufEnq([SetState([[W EXCEPT !.b.apiv = q] EXCEPT !.b.conn = @ + 1, !.b.infl = 1,
                                !.ghost.av = FALSE], "APIVERSION_QUERY") EXCEPT !.rq[AV] = f], AV)
      BY DEF ConnectDone
    <2> HIDE DEF y, f
    <2> QED BY <2>1, <2>2
  <1>6. y \in Work /\ Stays(W, y) /\ y.b = c /\ y.rq = W.rq
    <2> DEFINE a == FALSE
    <2>1. a \in BOOLEAN /\ y = [W EXCEPT !.b = c, !.ghost.av = a]
      OBVIOUS
    <2> HIDE DEF c, y, a
    <2>2. Same(W.b, c)
      BY <1>1, <1>3 DEF Same
    <2>3. Put(W, y, c, a)
      BY <1>1, <1>3, <2>1, <2>2, PutAsked
    <2> QED BY <2>3 DEF Put
  <1>7. ~IsUp(W.b.st) /\ Linked(W) /\ b.trans /\ AV \notin ToSet(W.b.out) \cup ToSet(W.b.wait)
    BY <1>1 DEF IsUp, Base, Linked
  <1>8. /\ \A r \in ToSet(W.b.out) : ~W.rq[r].part
        /\ bterm = "no" => W.ghost.wire = None
    BY <1>1, <1>7, NoneBegun
  <1> HIDE DEF c, y, f
  <1>9. Linked(y)
    BY <1>1, <1>3, <1>6, <1>7 DEF Linked, Stays
  <1>10. Base(y, ops, {})
    BY <1>1, <1>6, <1>7, <1>9, StaysKeeps
  <1>11. y.b.out = W.b.out /\ y.b.wait = W.b.wait /\ y.ghost.wire = W.ghost.wire
         /\ y.ghost.mixed = W.ghost.mixed /\ y.ghost.early = W.ghost.early
    BY <1>6 DEF Stays
  <1> DEFINE G == {AV}
             E == {}
  <1>12. G \subseteq E \cup {AV} /\ E \ {AV} \subseteq G /\ Base(y, ops, E) /\ AV \in G /\ G \ {AV} = {}
    BY <1>10
  <1>13. AV \notin ToSet(y.b.out) \cup ToSet(y.b.wait) /\ x = Anew(y, f)
    BY <1>7, <1>11 DEF Anew
  <1> HIDE DEF G, E, x
  <1>14. /\ Base(x, ops, G) /\ x.b = y.b /\ x.ghost = y.ghost /\ x.rq = [y.rq EXCEPT ![AV] = f]
    <2>1. f \in Buf /\ f.corr = 0
      BY <1>4
    <2>2. Base(x, ops, G) /\ Asks(y, x, f)
      BY <1>12, <1>13, <2>1, AskKeeps
    <2> QED BY <2>2 DEF Asks
  <1>15. AV \in All /\ AV \notin Reqs /\ y.rq \in [All -> Buf] /\ ToSet(y.b.out) \subseteq All
    <2>1. y.rq \in [All -> Buf] /\ y.b.out \in Seq(All)
      BY <1>6, Typed
    <2>2. ToSet(y.b.out) \subseteq All
      BY <2>1, ElemsIs
    <2> QED BY <2>1, <2>2, BrokerAssumption DEF All
  <1>16. ~x.rq[AV].part /\ x.rq[AV].corr = 0
    BY <1>4, <1>14, <1>15
  <1>17. x.b.st = "APIVERSION_QUERY" /\ x.b.infl = 1
    BY <1>3, <1>6, <1>14
  <1>18. bterm = "no" => /\ x.ghost.wire = None /\ x.b.infl = 1
                         /\ ~x.ghost.mixed /\ ~x.ghost.early
                         /\ \A r \in ToSet(x.b.out) : ~x.rq[r].part
    <2>1. \A r \in ToSet(x.b.out) : ~x.rq[r].part
      BY <1>6, <1>8, <1>11, <1>13, <1>14, <1>15
    <2> QED BY <1>1, <1>8, <1>11, <1>14, <1>17, <2>1
  <1>19. Base(u, ops, G \ {AV}) /\ Leads(u)
    BY <1>5, <1>12, <1>14, <1>15, <1>16, <1>17, <1>18, BufEnqKeeps
  <1> QED BY <1>12, <1>19

(* Or the versions are those of the configuration.                         *)
LEMMA ConnectedUp ==
    ASSUME Inv, b.st = "CONNECT", NEW q \in BOOLEAN,
           NEW u, u = ConnectDone([W EXCEPT !.b.apiv = q], FALSE)
    PROVE  Base(u, ops, {}) /\ Leads(u)
  <1> DEFINE d == [b EXCEPT !.apiv = q, !.conn = @ + 1, !.infl = 1, !.st = "UP"]
             y == [W EXCEPT !.b = d, !.ghost.av = FALSE]
             c == [d EXCEPT !.infl = MaxInflight]
  <1>1. /\ Base(W, ops, {}) /\ Leads(W) /\ W \in Work /\ W.b = b
        /\ bterm = "no" => ~W.ghost.mixed /\ ~W.ghost.early
    BY InvIs
  <1>2. b \in Broker /\ "UP" \in States /\ MaxInflight \in Nat
    BY <1>1, Typed, BrokerAssumption DEF States
  <1>3. d \in Broker /\ Same(b, d) /\ d.st = "UP" /\ d.trans = b.trans
    <2> DEFINE i == 1
    <2>1. i \in Nat /\ b.conn + 1 \in Nat /\ d = [b EXCEPT !.apiv = q, !.conn = @ + 1, !.infl = i, !.st = "UP"]
      BY <1>2 DEF Broker
    <2> HIDE DEF i, d
    <2> QED BY <1>2, <2>1 DEF Broker, Same
  <1>4. u = [y EXCEPT !.b = c, !.ghost.av = TRUE]
    <2>1. u = [SetState([[W EXCEPT !.b.apiv = q] EXCEPT !.b.conn = @ + 1, !.b.infl = 1,
                         !.ghost.av = FALSE], "UP") EXCEPT !.b.infl = MaxInflight, !.ghost.av = TRUE]
      BY DEF ConnectDone
    <2>2. SetState([[W EXCEPT !.b.apiv = q] EXCEPT !.b.conn = @ + 1, !.b.infl = 1, !.ghost.av = FALSE],
                   "UP") = y
      BY <1>1, <1>2 DEF SetState, Work, Broker
    <2>3. u = [y EXCEPT !.b.infl = MaxInflight, !.ghost.av = TRUE]
      BY <2>1, <2>2
    <2>4. y.b = d
      BY <1>1 DEF Work
    <2> HIDE DEF y, d
    <2> QED BY <2>3, <2>4
  <1>10. Put(W, y, d, FALSE)
    <2> DEFINE a == FALSE
    <2>1. a \in BOOLEAN /\ y = [W EXCEPT !.b = d, !.ghost.av = a]
      OBVIOUS
    <2> HIDE DEF a, y, d
    <2>2. Put(W, y, d, a)
      BY <1>1, <1>3, <2>1, PutAsked
    <2> QED BY <2>2 DEF a
  <1> HIDE DEF y, d
  <1>11. y \in Work /\ y.b = d /\ Stays(W, y) /\ y.rq = W.rq
    BY <1>10 DEF Put
  <1>12. c \in Broker /\ Same(d, c) /\ c.st = "UP" /\ c.trans = b.trans
    BY <1>2, <1>3 DEF Broker, Same
  <1> HIDE DEF c
  <1>13. Put(y, u, c, TRUE)
    <2> DEFINE a == TRUE
    <2>1. a \in BOOLEAN /\ u = [y EXCEPT !.b = c, !.ghost.av = a]
      BY <1>4
    <2> HIDE DEF a
    <2>2. Same(y.b, c)
      BY <1>11, <1>12
    <2>3. Put(y, u, c, a)
      BY <1>11, <1>12, <2>1, <2>2, PutAsked
    <2> QED BY <2>3 DEF a
  <1>5. u \in Work /\ Stays(W, u) /\ u.b = c /\ u.ghost.av = TRUE /\ u.rq = W.rq
    <2>1. u \in Work /\ Stays(y, u) /\ u.b = c /\ u.ghost.av = TRUE /\ u.rq = y.rq
      BY <1>13 DEF Put
    <2>2. Stays(W, u)
      BY <1>11, <2>1, ZenonT(60) DEF Stays
    <2> QED BY <1>11, <2>1, <2>2
  <1>6. ~IsUp(W.b.st) /\ Linked(W) /\ b.trans /\ AV \notin ToSet(W.b.out) \cup ToSet(W.b.wait)
    BY <1>1 DEF IsUp, Base, Linked
  <1>7. Linked(u)
    BY <1>1, <1>12, <1>5, <1>6 DEF Linked, Stays
  <1>8. Base(u, ops, {}) /\ (Whole(W) => Whole(u))
    BY <1>1, <1>5, <1>6, <1>7, StaysKeeps
  <1>9. Asking(W) => Asking(u)
    BY <1>12, <1>5 DEF Asking, Stays
  <1> QED BY <1>1, <1>8, <1>9 DEF Leads

(* rd_kafka_broker_connect_done().                                         *)
LEMMA ConnectedKeeps ==
    ASSUME Inv, Connected
    PROVE  Inv'
  <1>1. b.st = "CONNECT"
    BY DEF Connected
  <1>2. CASE \E q \in {b.apiv, TRUE} : Thread(ConnectDone([W EXCEPT !.b.apiv = q], q))
    <2>1. PICK q \in {b.apiv, TRUE} : Thread(ConnectDone([W EXCEPT !.b.apiv = q], q))
      BY <1>2
    <2>2. q \in BOOLEAN
      <3>1. W.b \in Broker /\ W.b = b
        BY InvIs, Typed
      <3> QED BY <3>1 DEF Broker
    <2> DEFINE u == ConnectDone([W EXCEPT !.b.apiv = q], q)
    <2>3. Base(u, ops, {}) /\ Leads(u)
      <3>1. CASE q = TRUE
        <4>1. u = ConnectDone([W EXCEPT !.b.apiv = q], TRUE)
          BY <3>1
        <4> HIDE DEF u
        <4> QED BY <1>1, <2>2, <4>1, ConnectedAsks
      <3>2. CASE q = FALSE
        <4>1. u = ConnectDone([W EXCEPT !.b.apiv = q], FALSE)
          BY <3>2
        <4> HIDE DEF u
        <4> QED BY <1>1, <2>2, <4>1, ConnectedUp
      <3> QED BY <2>2, <3>1, <3>2
    <2> HIDE DEF u
    <2> QED BY <2>1, <2>3, ThreadTo DEF u
  <1>3. CASE Thread(Fail(W, "TRANSPORT"))
    BY <1>3, FailsKeeps
  <1> QED BY <1>2, <1>3 DEF Connected

-----------------------------------------------------------------------------
(* A response comes in. The request it answers leaves the ones in flight.  *)
Hears(w, u) == /\ u \in Work /\ u.b = w.b /\ u.rq = w.rq /\ u.mainq = w.mainq /\ u.ghost = w.ghost
               /\ u.net = Tail(w.net)

(* A response is read from the connection.                                 *)
LEMMA HearsKeeps ==
    ASSUME NEW w, NEW o, NEW H, Base(w, o, H), w.net # <<>>, NEW u, u = [w EXCEPT !.net = Tail(@)]
    PROVE  Hears(w, u) /\ Base(u, o, H) /\ (Leads(w) => Leads(u))
  <1>0. w \in Work /\ Kept(w, o, H) /\ Counted(w, o)
    BY DEF Base
  <1>1. w.net \in Seq(Received) /\ w.b.out \in Seq(All)
    BY <1>0, Typed
  <1>2. /\ Tail(w.net) \in Seq(Received) /\ Len(Tail(w.net)) = Len(w.net) - 1
        /\ \A i \in 1..(Len(w.net) - 1) : Tail(w.net)[i] = w.net[i + 1]
    BY <1>1, TailSet
  <1>3. Hears(w, u)
    <2> DEFINE t == Tail(w.net)
    <2>1. t \in Seq(Received) /\ u = [w EXCEPT !.net = t]
      BY <1>2
    <2> HIDE DEF t
    <2>2. u \in Work /\ u.b = w.b /\ u.rq = w.rq /\ u.mainq = w.mainq /\ u.ghost = w.ghost /\ u.net = t
      BY <1>0, <2>1 DEF Work
    <2> QED BY <2>2 DEF t, Hears
  <1>4. Takes(w, u, {})
    <2>1. ASSUME NEW i \in 1..Len(u.net) PROVE \E j \in 1..Len(w.net) : u.net[i] = w.net[j]
      <3>1. Len(w.net) \in Nat /\ u.net = Tail(w.net)
        BY <1>1, <1>3, ElemsIs DEF Hears
      <3>2. i \in 1..(Len(w.net) - 1) /\ i + 1 \in 1..Len(w.net)
        BY <1>2, <3>1
      <3> QED BY <1>2, <3>1, <3>2
    <2>2. /\ u.b = w.b /\ u.rq = w.rq /\ u.mainq = w.mainq /\ u.ghost = w.ghost
      BY <1>3 DEF Hears
    <2>3. w.b.blk = Cardinality(ToSet(w.b.wait) \cap Blocking) /\ Distinct(w.b.out) /\ Distinct(w.b.wait)
          /\ Distinct(w.b.retry)
      BY <1>0 DEF Counted, Kept
    <2> QED BY <2>1, <2>2, <2>3 DEF Takes
  <1> DEFINE E == {}
  <1>5. Takes(w, u, E) /\ E \subseteq ToSet(w.b.out) \cup ToSet(w.b.wait) \cup ToSet(w.b.retry)
        /\ H \cup E = H /\ Leaves(w, u, E) /\ u \in Work
    BY <1>3, <1>4 DEF Leaves, Hears
  <1> HIDE DEF E
  <1>6. Base(u, o, H \cup E) /\ (Leads(w) => Leads(u))
    BY <1>5, TakesKeeps
  <1> QED BY <1>3, <1>5, <1>6

Answering(w, r, p) ==
    [w EXCEPT !.b.wait = Drop(@, {r}), !.b.blk = IF r \in Blocking THEN @ - 1 ELSE @,
              !.ghost.bad = @ \/ p]
Frees(w, u, r) == /\ u \in Work /\ Takes(w, u, {r}) /\ u.b.out = w.b.out

(* The fields after the request it answers has left.                       *)
LEMMA FreesIs ==
    ASSUME NEW w, NEW o, NEW H, Base(w, o, H), NEW r \in ToSet(w.b.wait), NEW p \in BOOLEAN, ~p,
           NEW u, u = Answering(w, r, p)
    PROVE  Frees(w, u, r)
  <1>0. w \in Work /\ Kept(w, o, H) /\ Counted(w, o) /\ ~w.ghost.bad
    BY DEF Base
  <1>1. /\ w.b \in Broker /\ w.ghost \in Ghost /\ w.b.wait \in Seq(All) /\ w.b.blk \in Int
        /\ w.b.out \in Seq(All) /\ w.b.retry \in Seq(Reqs) /\ w.net \in Seq(Received)
    BY <1>0, Typed
  <1>2. Distinct(w.b.wait) /\ Distinct(w.b.out) /\ Distinct(w.b.retry)
        /\ w.b.blk = Cardinality(ToSet(w.b.wait) \cap Blocking)
    BY <1>0 DEF Kept, Counted
  <1> DEFINE S == {r}
             t == Drop(w.b.wait, S)
             k == IF r \in Blocking THEN w.b.blk - 1 ELSE w.b.blk
             c == [w.b EXCEPT !.wait = t, !.blk = k]
             g == [w.ghost EXCEPT !.bad = @ \/ p]
  <1>3. t \in Seq(All) /\ ToSet(t) = ToSet(w.b.wait) \ S /\ Distinct(t)
    <2> HIDE DEF S
    <2> QED BY <1>1, <1>2, DropIs
  <1>4. k \in Int
    BY <1>1
  <1>5. u = [w EXCEPT !.b = c, !.ghost = g]
    BY DEF Answering
  <1>6. g = w.ghost
    BY <1>0, <1>1 DEF Ghost
  <1>7. k = Cardinality(ToSet(t) \cap Blocking)
    <2> DEFINE T == ToSet(w.b.wait) \cap Blocking
    <2>1. IsFiniteSet(ToSet(w.b.wait))
      BY <1>1, ElemsIs
    <2>2. IsFiniteSet(T)
      BY <2>1, FS_Intersection
    <2>3. ToSet(t) \cap Blocking = T \ {r}
      BY <1>3
    <2>4. w.b.blk = Cardinality(T) /\ (r \in T <=> r \in Blocking)
      BY <1>2
    <2> HIDE DEF T
    <2>5. Cardinality(T \ {r}) = IF r \in T THEN Cardinality(T) - 1 ELSE Cardinality(T)
      BY <2>2, FS_RemoveElement
    <2> QED BY <2>3, <2>4, <2>5
  <1> HIDE DEF t, k, g
  <1>8. /\ c \in Broker /\ c.wait = t /\ c.blk = k /\ c.out = w.b.out /\ c.retry = w.b.retry
        /\ c.st = w.b.st /\ c.trans = w.b.trans /\ c.conn = w.b.conn /\ c.corr = w.b.corr
        /\ c.cf = w.b.cf /\ c.infl = w.b.infl
    BY <1>1, <1>3, <1>4 DEF Broker
  <1> HIDE DEF c
  <1>9. /\ u \in Work /\ u.b = c /\ u.rq = w.rq /\ u.mainq = w.mainq /\ u.net = w.net /\ u.ghost = w.ghost
    BY <1>0, <1>1, <1>5, <1>6, <1>8 DEF Work
  <1>10. r \notin ToSet(w.b.out) /\ r \notin ToSet(w.b.retry)
    <2>1. r \in All /\ ToSet(w.b.retry) \subseteq Reqs /\ AV \notin Reqs
      BY <1>1, ElemsIs, BrokerAssumption
    <2>2. CASE r = AV
      BY <1>0, <2>1, <2>2, AVThere
    <2>3. CASE r # AV
      <3>1. r \in Reqs
        BY <2>1, <2>3 DEF All
      <3> QED BY <1>0, <3>1, OnlyThere
    <2> QED BY <2>2, <2>3
  <1>11. \A i \in 1..Len(u.net) : \E j \in 1..Len(w.net) : u.net[i] = w.net[j]
    BY <1>9
  <1>12. Takes(w, u, {r})
    BY <1>2, <1>3, <1>7, <1>8, <1>9, <1>10, <1>11 DEF Takes, S
  <1> QED BY <1>8, <1>9, <1>12 DEF Frees

(* That request is in hand.                                                *)
LEMMA FreesKeeps ==
    ASSUME NEW w, NEW o, Base(w, o, {}), NEW r \in ToSet(w.b.wait), NEW u, Frees(w, u, r)
    PROVE  Base(u, o, {r}) /\ (r \in Reqs /\ Leads(w) => Leads(u))
  <1> DEFINE S == {r}
             E == {}
  <1>0. w \in Work /\ Kept(w, o, {})
    BY DEF Base
  <1>1. /\ S \subseteq ToSet(w.b.out) \cup ToSet(w.b.wait) \cup ToSet(w.b.retry) /\ Takes(w, u, S)
        /\ Base(w, o, E) /\ u \in Work /\ E \cup S = {r} /\ u.b.out = w.b.out
    BY DEF Frees
  <1>2. ASSUME r \in Reqs, Leads(w) PROVE Leaves(w, u, S)
    <2>1. w.b.out \in Seq(All)
      BY <1>0, Typed
    <2>2. w.b.out # <<>> => Head(w.b.out) \in ToSet(w.b.out)
      BY <2>1, ElemsIs
    <2>3. r \notin ToSet(w.b.out) /\ r # AV /\ r # None
      BY <1>0, <1>2, OnlyThere, BrokerAssumption
    <2>4. bterm = "no" => w.ghost.wire # r
      BY <1>2, <2>2, <2>3 DEF Leads, Whole
    <2> QED BY <1>1, <2>3, <2>4 DEF Leaves
  <1> HIDE DEF S, E
  <1>3. Base(u, o, E \cup S) /\ (Leads(w) /\ Leaves(w, u, S) => Leads(u))
    BY <1>1, TakesKeeps
  <1> QED BY <1>1, <1>2, <1>3

(* What holds when the question for the versions is in flight.             *)
Alone(w) == bterm = "no" => /\ w.ghost.wire = None /\ w.b.infl = 1 /\ ~w.ghost.mixed /\ ~w.ghost.early
                            /\ \A x \in ToSet(w.b.out) : ~w.rq[x].part

(* Nothing else was begun then.                                            *)
LEMMA AloneIs ==
    ASSUME NEW w, NEW o, NEW H, Base(w, o, H), Leads(w), AV \in ToSet(w.b.wait)
    PROVE  Alone(w) /\ w.b.st = "APIVERSION_QUERY"
  <1>0. w \in Work /\ Kept(w, o, H) /\ Linked(w)
    BY DEF Base
  <1>1. w.b.out \in Seq(All)
    BY <1>0, Typed
  <1>2. w.b.out # <<>> => Head(w.b.out) \in ToSet(w.b.out)
    BY <1>1, ElemsIs
  <1>3. AV \notin ToSet(w.b.out)
    BY <1>0, AVThere
  <1>4. w.b.st = "APIVERSION_QUERY"
    BY <1>0 DEF Linked
  <1>5. ASSUME bterm = "no" PROVE \A x \in ToSet(w.b.out) : ~w.rq[x].part
    BY <1>3, <1>4, <1>5 DEF Leads, Asking
  <1>6. ASSUME bterm = "no"
        PROVE  w.ghost.wire = None /\ w.b.infl = 1 /\ ~w.ghost.mixed /\ ~w.ghost.early
    BY <1>2, <1>4, <1>5, <1>6 DEF Leads, Asking, Whole
  <1> QED BY <1>4, <1>5, <1>6 DEF Alone

(* A request as it is made.                                                *)
LEMMA FreshIs == Fresh \in Buf /\ Fresh.corr = 0 /\ Fresh.part = FALSE
  <1> DEFINE z == 0
             p == FALSE
  <1>1. z \in Nat /\ z \in 0..MaxRetries /\ p \in BOOLEAN
    BY BrokerAssumption
  <1>2. Fresh = [corr |-> z, conn |-> z, part |-> p, sent |-> p, tries |-> z, ver |-> z]
    BY DEF Fresh
  <1> HIDE DEF z, p
  <1>3. Fresh \in Buf /\ Fresh.corr = z /\ Fresh.part = p
    BY <1>1, <1>2 DEF Buf
  <1> QED BY <1>3 DEF z, p

(* The request of the question for the versions starts over.               *)
LEMMA AnewKeeps ==
    ASSUME NEW w, NEW o, Base(w, o, {AV}), Alone(w), NEW G \in SUBSET {AV}, NEW u, u = Anew(w, Fresh)
    PROVE  /\ Base(u, o, G) /\ Alone(u) /\ u.b = w.b /\ u.rq[AV] = Fresh /\ u.ghost = w.ghost
           /\ AV \notin ToSet(u.b.out) \cup ToSet(u.b.wait)
  <1> DEFINE H == {AV}
  <1>0. w \in Work /\ Kept(w, o, H) /\ AV \in H /\ Base(w, o, H) /\ AV \in All
    BY DEF Base, All
  <1>1. G \subseteq H \cup {AV} /\ H \ {AV} \subseteq G
    OBVIOUS
  <1> HIDE DEF H
  <1>2. AV \notin ToSet(w.b.out) \cup ToSet(w.b.wait)
    BY <1>0, AVThere
  <1>3. Base(u, o, G) /\ Asks(w, u, Fresh)
    BY <1>0, <1>1, <1>2, FreshIs, AskKeeps
  <1>4. w.rq \in [All -> Buf] /\ w.b.out \in Seq(All)
    BY <1>0, Typed
  <1>5. ToSet(w.b.out) \subseteq All
    BY <1>4, ElemsIs
  <1>6. u.b = w.b /\ u.ghost = w.ghost /\ u.rq[AV] = Fresh /\ \A x \in ToSet(w.b.out) : u.rq[x] = w.rq[x]
    BY <1>0, <1>2, <1>3, <1>4, <1>5 DEF Asks
  <1>7. Alone(u)
    BY <1>6 DEF Alone
  <1> QED BY <1>2, <1>3, <1>6, <1>7

(* The versions are known, and the connection is up;                       *)
LEMMA VersionsKnown ==
    ASSUME NEW w, NEW o, Base(w, o, {AV}), Alone(w), w.b.st = "APIVERSION_QUERY",
           NEW u, u = HandleApiVersion(w, "OK")
    PROVE  Base(u, o, {}) /\ Leads(u)
  <1> DEFINE a == Anew(w, Fresh)
             G == {}
             c == [w.b EXCEPT !.st = "UP", !.infl = MaxInflight]
  <1>1. G \in SUBSET {AV}
    OBVIOUS
  <1>2. /\ Base(a, o, G) /\ Alone(a) /\ a.b = w.b /\ a.ghost = w.ghost
        /\ AV \notin ToSet(a.b.out) \cup ToSet(a.b.wait)
    <2> HIDE DEF G, a
    <2> QED BY <1>1, AnewKeeps DEF a
  <1>3. w \in Work /\ w.b \in Broker /\ "UP" \in States /\ MaxInflight \in Nat /\ Linked(w)
    <2>1. w \in Work /\ Linked(w)
      BY DEF Base
    <2> QED BY <2>1, Typed, BrokerAssumption DEF States
  <1>4. c \in Broker /\ Same(w.b, c) /\ c.st = "UP" /\ c.trans = w.b.trans /\ c.conn = w.b.conn
    BY <1>3 DEF Broker, Same
  <1>5. u = [a EXCEPT !.b = c, !.ghost.av = TRUE]
    <2>1. u = [SetState(w, "UP") EXCEPT !.b.infl = MaxInflight, !.ghost.av = TRUE, !.rq[AV] = Fresh]
      BY DEF HandleApiVersion
    <2> QED BY <1>3, <2>1 DEF SetState, Anew, Work, Broker
  <1> HIDE DEF a, c
  <1>6. a \in Work /\ Linked(a)
    BY <1>2 DEF Base
  <1>7. Put(a, u, c, TRUE)
    <2> DEFINE t == TRUE
    <2>1. t \in BOOLEAN /\ u = [a EXCEPT !.b = c, !.ghost.av = t]
      BY <1>5
    <2> HIDE DEF t
    <2>2. Same(a.b, c)
      BY <1>2, <1>4
    <2>3. Put(a, u, c, t)
      BY <1>4, <1>6, <2>1, <2>2, PutAsked
    <2> QED BY <2>3 DEF t
  <1>8. u \in Work /\ Stays(a, u) /\ u.b = c /\ u.ghost.av = TRUE
    BY <1>7 DEF Put
  <1>9. u.b.out = a.b.out /\ u.b.wait = a.b.wait /\ u.ghost.wire = a.ghost.wire
        /\ u.ghost.mixed = a.ghost.mixed /\ u.ghost.early = a.ghost.early
    BY <1>8 DEF Stays
  <1>10. Linked(u)
    BY <1>2, <1>4, <1>6, <1>8, <1>9 DEF Linked
  <1>11. IsUp(a.b.st) => IsUp(u.b.st) /\ u.b.conn = a.b.conn
    BY <1>2, <1>4, <1>8 DEF IsUp
  <1>12. Base(u, o, G)
    <2> HIDE DEF G
    <2> QED BY <1>2, <1>8, <1>10, <1>11, StaysKeeps
  <1>13. Leads(u)
    <2>1. bterm = "no" => u.ghost.wire = None /\ ~u.ghost.mixed /\ ~u.ghost.early
      BY <1>2, <1>9 DEF Alone
    <2>2. u.ghost.av /\ u.b.st = "UP"
      BY <1>4, <1>8
    <2> QED BY <2>1, <2>2 DEF Leads, Whole, Asking
  <1> QED BY <1>12, <1>13

(* or the question is asked again, with another version;                   *)
LEMMA VersionsAgain ==
    ASSUME NEW w, NEW o, Base(w, o, {AV}), Alone(w), w.b.st = "APIVERSION_QUERY",
           NEW u, u = BufEnq(Anew(w, Fresh), AV)
    PROVE  Base(u, o, {}) /\ Leads(u)
  <1> DEFINE a == Anew(w, Fresh)
             G == {AV}
  <1>1. G \in SUBSET {AV} /\ AV \in G /\ G \ {AV} = {} /\ AV \in All /\ AV \notin Reqs
    BY BrokerAssumption DEF All
  <1>2. Base(a, o, G) /\ Alone(a) /\ a.b = w.b /\ a.rq[AV] = Fresh
    <2> HIDE DEF G, a
    <2> QED BY <1>1, AnewKeeps DEF a
  <1>3. ~a.rq[AV].part /\ a.rq[AV].corr = 0 /\ a.b.st = "APIVERSION_QUERY" /\ u = BufEnq(a, AV)
    <2> HIDE DEF a
    <2> QED BY <1>2, FreshIs DEF a
  <1>4. bterm = "no" => /\ a.ghost.wire = None /\ a.b.infl = 1 /\ ~a.ghost.mixed /\ ~a.ghost.early
                        /\ \A x \in ToSet(a.b.out) : ~a.rq[x].part
    BY <1>2 DEF Alone
  <1> HIDE DEF a, G
  <1>5. Base(u, o, G \ {AV}) /\ Leads(u)
    BY <1>1, <1>2, <1>3, <1>4, BufEnqKeeps
  <1> QED BY <1>1, <1>5

(* or the connection fails.                                                *)
LEMMA VersionsFail ==
    ASSUME NEW w, NEW o, Base(w, o, {AV}), Alone(w), NEW u, u = Fail(Anew(w, Fresh), "TRANSPORT")
    PROVE  Base(u, o, {}) /\ Leads(u)
  <1> DEFINE a == Anew(w, Fresh)
             G == {}
  <1>1. G \in SUBSET {AV}
    OBVIOUS
  <1>2. Base(a, o, G) /\ Alone(a)
    <2> HIDE DEF G, a
    <2> QED BY <1>1, AnewKeeps DEF a
  <1> HIDE DEF a, G
  <1>3. "TRANSPORT" \in Errors
    BY DEF Errors
  <1>4. Near(a, o, G)
    BY <1>2, BaseNear
  <1>5. bterm = "no" => ~a.ghost.mixed /\ ~a.ghost.early
    BY <1>2 DEF Alone
  <1>6. Base(Fail(a, "TRANSPORT"), o, G) /\ Leads(Fail(a, "TRANSPORT"))
    BY <1>3, <1>4, <1>5, FailKeeps
  <1> QED BY <1>6 DEF a, G

(* rd_kafka_broker_handle_ApiVersion(), whatever the answer.               *)
LEMMA VersionsKeeps ==
    ASSUME NEW w, NEW o, Base(w, o, {AV}), Alone(w), w.b.st = "APIVERSION_QUERY", NEW err,
           NEW u, u = HandleApiVersion(w, err)
    PROVE  Base(u, o, {}) /\ Leads(u)
  <1>1. CASE err = "OK"
    BY <1>1, VersionsKnown
  <1>2. CASE err # "OK" /\ err = "UNSUPPORTED_VERSION" /\ w.rq[AV].ver > 0
    <2>1. u = BufEnq(Anew(w, Fresh), AV)
      BY <1>2 DEF HandleApiVersion, Anew
    <2> QED BY <2>1, VersionsAgain
  <1>3. CASE err # "OK" /\ ~(err = "UNSUPPORTED_VERSION" /\ w.rq[AV].ver > 0)
    <2>1. u = Fail(Anew(w, Fresh), "TRANSPORT")
      BY <1>3 DEF HandleApiVersion, Anew
    <2> QED BY <2>1, VersionsFail
  <1> QED BY <1>1, <1>2, <1>3

(* rd_kafka_recv(): a response meets the request it answers.               *)
LEMMA RecvKeeps ==
    ASSUME Inv, Recv
    PROVE  Inv'
  <1> DEFINE m == Head(net)
             hits == {i \in 1..Len(b.wait) : rq[b.wait[i]].corr = m.corr}
             w == [W EXCEPT !.net = Tail(@)]
             r == b.wait[Min(hits)]
             p == r # m.r
             v == Answering(w, r, p)
  <1>1. /\ Base(W, ops, {}) /\ Leads(W) /\ W \in Work
        /\ W.b = b /\ W.rq = rq /\ W.net = net
    BY InvIs
  <1>2. net # <<>> /\ W.net # <<>>
    BY <1>1, ZenonT(60) DEF Recv
  <1>3. Hears(W, w) /\ Base(w, ops, {}) /\ Leads(w)
    <2>1. w = [W EXCEPT !.net = Tail(@)]
      OBVIOUS
    <2> HIDE DEF w
    <2> QED BY <1>1, <1>2, <2>1, HearsKeeps
  <1>4. \/ hits = {} /\ Thread(w)
        \/ hits # {} /\ r = AV /\ \E e \in {"OK", "UNSUPPORTED_VERSION", "OTHER"} : Thread(HandleApiVersion(v, e))
        \/ hits # {} /\ r # AV /\ Thread(Callback(v, r, "OK"))
    BY ZenonT(60) DEF Recv, Answering
  <1>5. ASSUME hits # {} PROVE r \in ToSet(w.b.wait) /\ p \in BOOLEAN /\ ~p /\ r \in All
    <2>1. w.b = b /\ Numbers(W)
      BY <1>1, <1>3 DEF Hears, Base
    <2>2. b.wait \in Seq(All) /\ net \in Seq(Received)
      BY <1>1, Typed
    <2>3. Len(b.wait) \in Nat /\ ToSet(b.wait) = {b.wait[i] : i \in 1..Len(b.wait)} /\ ToSet(b.wait) \subseteq All
      BY <2>2, ElemsIs
    <2>4. hits \subseteq Nat
      BY <2>3
    <2>5. Min(hits) \in hits
      <3> HIDE DEF hits
      <3> QED BY <1>5, <2>4, MinIs, ZenonT(60)
    <2>6. Min(hits) \in 1..Len(b.wait) /\ rq[r].corr = m.corr
      BY <2>5, ZenonT(60)
    <2>7. r \in ToSet(b.wait)
      <3> HIDE DEF hits
      <3> QED BY <2>3, <2>6
    <2>8. m = net[1] /\ 1 \in 1..Len(net)
      <3>1. Head(net) = net[1] /\ Len(net) > 0 /\ Len(net) \in Nat
        BY <1>2, <2>2, ElemsIs
      <3> QED BY <3>1
    <2> HIDE DEF r, m
    <2>9. \A i \in 1..Len(W.net) : \A x \in ToSet(W.b.wait) : W.net[i].corr = W.rq[x].corr => W.net[i].r = x
      BY <2>1 DEF Numbers
    <2>10. m.r = r
      BY <1>1, <2>6, <2>7, <2>8, <2>9
    <2> QED BY <2>1, <2>3, <2>7, <2>10
  <1> HIDE DEF w, hits
  <1>6. CASE hits = {} /\ Thread(w)
    BY <1>3, <1>6, ThreadTo
  <1>7. ASSUME hits # {} PROVE Base(v, ops, {r}) /\ Frees(w, v, r) /\ (r \in Reqs => Leads(v))
    <2>1. r \in ToSet(w.b.wait) /\ p \in BOOLEAN /\ ~p
      BY <1>5, <1>7
    <2>2. v = Answering(w, r, p)
      OBVIOUS
    <2> HIDE DEF v, r, p
    <2>3. Frees(w, v, r)
      <3> DEFINE E == {}
      <3>1. Base(w, ops, E)
        BY <1>3
      <3> HIDE DEF E
      <3> QED BY <2>1, <2>2, <3>1, FreesIs
    <2> QED BY <1>3, <2>1, <2>3, FreesKeeps
  <1>8. CASE hits # {} /\ r = AV /\ \E e \in {"OK", "UNSUPPORTED_VERSION", "OTHER"} : Thread(HandleApiVersion(v, e))
    <2>1. PICK e : Thread(HandleApiVersion(v, e))
      BY <1>8
    <2>2. AV \in ToSet(w.b.wait) /\ Base(v, ops, {AV}) /\ Frees(w, v, AV)
      BY <1>5, <1>7, <1>8
    <2> HIDE DEF v, r
    <2>3. Alone(w) /\ w.b.st = "APIVERSION_QUERY"
      <3> DEFINE E == {}
      <3>1. Base(w, ops, E)
        BY <1>3
      <3> HIDE DEF E
      <3> QED BY <1>3, <2>2, <3>1, AloneIs
    <2>4. Alone(v) /\ v.b.st = "APIVERSION_QUERY"
      <3>1. v.b.out = w.b.out /\ v.rq = w.rq /\ v.ghost = w.ghost /\ v.b.infl = w.b.infl /\ v.b.st = w.b.st
        BY <2>2 DEF Frees, Takes
      <3> QED BY <2>3, <3>1 DEF Alone
    <2> DEFINE u == HandleApiVersion(v, e)
    <2>5. Base(u, ops, {}) /\ Leads(u)
      BY <2>2, <2>4, VersionsKeeps
    <2> HIDE DEF u
    <2> QED BY <2>1, <2>5, ThreadTo DEF u
  <1>9. CASE hits # {} /\ r # AV /\ Thread(Callback(v, r, "OK"))
    <2>1. r \in Reqs /\ r \in All /\ "OK" \in Errors
      BY <1>5, <1>9 DEF All, Errors
    <2>2. Base(v, ops, {r}) /\ Leads(v)
      BY <1>7, <1>9, <2>1
    <2> DEFINE u == Callback(v, r, "OK")
               G == {r}
    <2>3. r \in G /\ G \ {r} = {} /\ Base(v, ops, G)
      BY <2>2
    <2>6. Thread(u)
      BY <1>9
    <2> HIDE DEF u, G, v, r
    <2>4. Base(u, ops, G \ {r}) /\ Leads(u)
      BY <2>1, <2>2, <2>3, CallbackKeeps DEF u
    <2> QED BY <2>3, <2>4, <2>6, ThreadTo
  <1> QED BY <1>4, <1>6, <1>8, <1>9

(* What has expired leaves the queues.                                     *)
Scanned(w, S) ==
    [w EXCEPT !.b.wait = Drop(@, S), !.b.retry = Drop(@, S), !.b.out = Drop(@, S),
              !.b.blk = @ - Cardinality(ToSet(Those(w.b.wait, S)) \cap Blocking)]

(* The fields after that; the count of blocking requests is right.         *)
LEMMA ScannedIs ==
    ASSUME NEW w, NEW o, NEW H, Base(w, o, H), NEW S, NEW u, u = Scanned(w, S)
    PROVE  u \in Work /\ Takes(w, u, S) /\ u.b.out = Drop(w.b.out, S)
  <1>0. w \in Work /\ Kept(w, o, H) /\ Counted(w, o)
    BY DEF Base
  <1>1. /\ w.b \in Broker /\ w.b.wait \in Seq(All) /\ w.b.blk \in Int
        /\ w.b.out \in Seq(All) /\ w.b.retry \in Seq(Reqs) /\ w.net \in Seq(Received)
    BY <1>0, Typed
  <1>2. Distinct(w.b.wait) /\ Distinct(w.b.out) /\ Distinct(w.b.retry)
        /\ w.b.blk = Cardinality(ToSet(w.b.wait) \cap Blocking)
    BY <1>0 DEF Kept, Counted
  <1> DEFINE x == Drop(w.b.wait, S)
             y == Drop(w.b.retry, S)
             z == Drop(w.b.out, S)
             k == w.b.blk - Cardinality(ToSet(Those(w.b.wait, S)) \cap Blocking)
             c == [w.b EXCEPT !.wait = x, !.retry = y, !.out = z, !.blk = k]
  <1>3. x \in Seq(All) /\ ToSet(x) = ToSet(w.b.wait) \ S /\ Distinct(x)
    BY <1>1, <1>2, DropIs
  <1>4. y \in Seq(Reqs) /\ ToSet(y) = ToSet(w.b.retry) \ S /\ Distinct(y)
    BY <1>1, <1>2, DropIs
  <1>5. z \in Seq(All) /\ ToSet(z) = ToSet(w.b.out) \ S /\ Distinct(z)
    BY <1>1, <1>2, DropIs
  <1>6. k \in Int /\ k = Cardinality(ToSet(x) \cap Blocking)
    <2> DEFINE T == ToSet(w.b.wait) \cap Blocking
    <2>1. IsFiniteSet(ToSet(w.b.wait))
      BY <1>1, ElemsIs
    <2>2. IsFiniteSet(T)
      BY <2>1, FS_Intersection
    <2>3. ToSet(x) \cap Blocking = T \ S
      BY <1>3
    <2>4. ToSet(Those(w.b.wait, S)) = ToSet(w.b.wait) \cap S
      BY <1>1, ThoseIs
    <2>5. ToSet(Those(w.b.wait, S)) \cap Blocking = T \cap S
      BY <2>4
    <2>6. w.b.blk = Cardinality(T)
      BY <1>2
    <2> HIDE DEF T
    <2>7. Cardinality(T \ S) = Cardinality(T) - Cardinality(T \cap S) /\ IsFiniteSet(T \ S)
      BY <2>2, FS_Difference
    <2>8. Cardinality(T \ S) \in Nat
      BY <2>7, FS_CardinalityType
    <2>9. k = Cardinality(T) - Cardinality(T \cap S)
      BY <2>5, <2>6
    <2> HIDE DEF k, x
    <2> QED BY <2>3, <2>7, <2>8, <2>9
  <1>7. u = [w EXCEPT !.b = c]
    BY DEF Scanned
  <1> HIDE DEF x, y, z, k
  <1>8. /\ c \in Broker /\ c.wait = x /\ c.blk = k /\ c.out = z /\ c.retry = y
        /\ c.st = w.b.st /\ c.trans = w.b.trans /\ c.conn = w.b.conn /\ c.corr = w.b.corr
        /\ c.cf = w.b.cf /\ c.infl = w.b.infl
    BY <1>1, <1>3, <1>4, <1>5, <1>6 DEF Broker
  <1> HIDE DEF c
  <1>9. /\ u \in Work /\ u.b = c /\ u.rq = w.rq /\ u.mainq = w.mainq /\ u.net = w.net /\ u.ghost = w.ghost
    BY <1>0, <1>7, <1>8 DEF Work
  <1>11. \A i \in 1..Len(u.net) : \E j \in 1..Len(w.net) : u.net[i] = w.net[j]
    BY <1>9
  <1>12. Takes(w, u, S)
    BY <1>3, <1>4, <1>5, <1>6, <1>8, <1>9, <1>11 DEF Takes
  <1> QED BY <1>8, <1>9, <1>12 DEF z

(* And ends, or goes elsewhere.                                            *)
Expired(w, v, S) == CallAll(CallAll(CallAll(v, Those(w.b.wait, S), "TIMED_OUT"),
                                    Those(w.b.retry, S), "TIMED_OUT_QUEUE"),
                            Those(w.b.out, S), "TIMED_OUT_QUEUE")

(* Each of them once.                                                      *)
LEMMA ExpiredKeeps ==
    ASSUME NEW w, NEW o, Base(w, o, {}), NEW S, NEW v, Base(v, o, S),
           S \subseteq ToSet(w.b.out) \cup ToSet(w.b.wait) \cup ToSet(w.b.retry),
           NEW u, u = Expired(w, v, S)
    PROVE  Base(u, o, {}) /\ Alike(v, u) /\ (Leads(v) => Leads(u))
  <1>0. w \in Work /\ Kept(w, o, {}) /\ "TIMED_OUT" \in Errors /\ "TIMED_OUT_QUEUE" \in Errors
    BY DEF Base, Errors
  <1>1. /\ w.b.wait \in Seq(All) /\ w.b.out \in Seq(All) /\ w.b.retry \in Seq(Reqs) /\ Reqs \subseteq All
        /\ AV \notin Reqs
    BY <1>0, Typed, BrokerAssumption DEF All
  <1>2. Distinct(w.b.wait) /\ Distinct(w.b.out) /\ Distinct(w.b.retry)
    BY <1>0 DEF Kept
  <1>3. w.b.retry \in Seq(All)
    BY <1>1
  <1>4. /\ ToSet(w.b.out) \subseteq All /\ ToSet(w.b.wait) \subseteq All /\ ToSet(w.b.retry) \subseteq Reqs
    BY <1>1, ElemsIs
  <1>5. /\ ToSet(w.b.wait) \cap ToSet(w.b.retry) = {} /\ ToSet(w.b.wait) \cap ToSet(w.b.out) = {}
        /\ ToSet(w.b.retry) \cap ToSet(w.b.out) = {}
    <2>1. ASSUME NEW r \in Reqs
          PROVE  /\ ~(r \in ToSet(w.b.wait) /\ r \in ToSet(w.b.retry))
                 /\ ~(r \in ToSet(w.b.wait) /\ r \in ToSet(w.b.out))
                 /\ ~(r \in ToSet(w.b.retry) /\ r \in ToSet(w.b.out))
      BY <1>0, OnlyThere
    <2>2. ~(AV \in ToSet(w.b.wait) /\ AV \in ToSet(w.b.out))
      BY <1>0, AVThere
    <2> QED BY <1>1, <1>4, <2>1, <2>2 DEF All
  <1> DEFINE x == Those(w.b.wait, S)
             y == Those(w.b.retry, S)
             z == Those(w.b.out, S)
             v1 == CallAll(v, x, "TIMED_OUT")
             v2 == CallAll(v1, y, "TIMED_OUT_QUEUE")
             S1 == S \ ToSet(x)
             S2 == S1 \ ToSet(y)
  <1>6. x \in Seq(All) /\ ToSet(x) = ToSet(w.b.wait) \cap S /\ Distinct(x)
    BY <1>1, <1>2, ThoseIs
  <1>7. y \in Seq(All) /\ ToSet(y) = ToSet(w.b.retry) \cap S /\ Distinct(y)
    BY <1>2, <1>3, ThoseIs
  <1>8. z \in Seq(All) /\ ToSet(z) = ToSet(w.b.out) \cap S /\ Distinct(z)
    BY <1>1, <1>2, ThoseIs
  <1>9. u = CallAll(v2, z, "TIMED_OUT_QUEUE")
    BY DEF Expired
  <1> HIDE DEF x, y, z
  <1>10. ToSet(x) \subseteq S /\ ToSet(y) \subseteq S1 /\ ToSet(z) \subseteq S2 /\ S2 \ ToSet(z) = {}
    BY <1>5, <1>6, <1>7, <1>8
  <1> HIDE DEF v1, v2, S1, S2
  <1>11. Base(v1, o, S1) /\ Alike(v, v1) /\ (Leads(v) => Leads(v1))
    BY <1>0, <1>6, <1>10, CallAllKeeps DEF v1, S1
  <1>12. Base(v2, o, S2) /\ Alike(v1, v2) /\ (Leads(v1) => Leads(v2))
    BY <1>0, <1>7, <1>10, <1>11, CallAllKeeps DEF v2, S2
  <1>13. Base(u, o, S2 \ ToSet(z)) /\ Alike(v2, u) /\ (Leads(v2) => Leads(u))
    BY <1>0, <1>8, <1>9, <1>10, <1>12, CallAllKeeps
  <1>14. Alike(v, u)
    BY <1>11, <1>12, <1>13, AlikeTrans
  <1> QED BY <1>10, <1>11, <1>12, <1>13, <1>14

(* rd_kafka_broker_timeout_scan().                                         *)
LEMMA ScanKeeps ==
    ASSUME NEW w, NEW o, Base(w, o, {}), Leads(w), NEW S,
           S \subseteq ToSet(w.b.out) \cup ToSet(w.b.wait) \cup ToSet(w.b.retry),
           NEW u, u = Scan(w, S)
    PROVE  Base(u, o, {}) /\ Leads(u)
  <1> DEFINE v == Scanned(w, S)
             x == Expired(w, v, S)
             p == \E r \in S : w.rq[r].part
  <1>1. \/ AV \in S /\ u = Fail(x, "TRANSPORT")
        \/ AV \notin S /\ u = Fail(x, "TIMED_OUT")
        \/ AV \notin S /\ ~p /\ u = x
    BY DEF Scan, Scanned, Expired
  <1>2. v \in Work /\ Takes(w, v, S) /\ v.b.out = Drop(w.b.out, S)
    <2> DEFINE E == {}
    <2>1. Base(w, o, E)
      OBVIOUS
    <2> HIDE DEF E, v
    <2> QED BY <2>1, ScannedIs DEF v
  <1> HIDE DEF v
  <1>3. Base(v, o, S) /\ (Leaves(w, v, S) => Leads(v))
    <2> DEFINE E == {}
    <2>1. Base(w, o, E) /\ E \cup S = S
      OBVIOUS
    <2> HIDE DEF E
    <2> QED BY <1>2, <2>1, TakesKeeps
  <1>4. Base(x, o, {}) /\ Alike(v, x) /\ (Leads(v) => Leads(x))
    BY <1>3, ExpiredKeeps
  <1> HIDE DEF x
  <1>5. Near(x, o, {})
    BY <1>4, BaseNear
  <1>6. bterm = "no" => ~x.ghost.mixed /\ ~x.ghost.early
    <2>1. v.ghost = w.ghost /\ x.ghost.mixed = v.ghost.mixed /\ x.ghost.early = v.ghost.early
      BY <1>2, <1>4 DEF Takes, Alike
    <2> QED BY <2>1 DEF Leads, Whole, Asking
  <1>7. "TRANSPORT" \in Errors /\ "TIMED_OUT" \in Errors
    BY DEF Errors
  <1>8. ASSUME NEW err \in Errors PROVE Base(Fail(x, err), o, {}) /\ Leads(Fail(x, err))
    BY <1>5, <1>6, FailKeeps
  <1>9. ASSUME AV \notin S, ~p PROVE Leads(x)
    <2>0. w \in Work
      BY DEF Base
    <2>1. w.b.out \in Seq(All) /\ w.b.wait \in Seq(All) /\ w.b.retry \in Seq(Reqs)
      BY <2>0, Typed
    <2>2. None \notin S
      <3>1. ToSet(w.b.out) \subseteq All /\ ToSet(w.b.wait) \subseteq All /\ ToSet(w.b.retry) \subseteq Reqs
        BY <2>1, ElemsIs
      <3> QED BY <3>1, BrokerAssumption DEF All
    <2>3. bterm = "no" => w.ghost.wire \notin S
      BY <1>9, <2>2 DEF Leads, Whole
    <2>4. w.b.out # <<>> /\ Head(w.b.out) \notin S => v.b.out # <<>> /\ Head(v.b.out) = Head(w.b.out)
      BY <1>2, <2>1, DropIs
    <2>5. Leaves(w, v, S)
      BY <1>9, <2>3, <2>4 DEF Leaves
    <2> QED BY <1>3, <1>4, <2>5
  <1> QED BY <1>1, <1>4, <1>7, <1>8, <1>9

(* A scan in the broker thread.                                            *)
LEMMA TimeoutScanKeeps ==
    ASSUME Inv, TimeoutScan
    PROVE  Inv'
  <1>1. Base(W, ops, {}) /\ Leads(W) /\ W.b = b
    BY InvIs
  <1>2. PICK S \in SUBSET (ToSet(b.wait) \cup ToSet(b.retry) \cup ToSet(b.out)) : Thread(Scan(W, S))
    BY DEF TimeoutScan
  <1>3. S \subseteq ToSet(W.b.out) \cup ToSet(W.b.wait) \cup ToSet(W.b.retry)
    BY <1>1, <1>2
  <1> DEFINE u == Scan(W, S)
  <1>4. Base(u, ops, {}) /\ Leads(u)
    BY <1>1, <1>3, ScanKeeps
  <1> HIDE DEF u
  <1> QED BY <1>2, <1>4, ThreadTo DEF u

(* The first of the requests to be retried is queued again.                *)
LEMMA RetryMoveKeeps ==
    ASSUME Inv, RetryMove
    PROVE  Inv'
  <1> DEFINE r == Head(b.retry)
             t == Tail(b.retry)
             w == [W EXCEPT !.b.retry = Tail(@)]
             u == BufEnq(w, r)
             c == [b EXCEPT !.retry = t]
             S == {r}
             E == {}
  <1>1. /\ Base(W, ops, {}) /\ Leads(W) /\ W \in Work
        /\ W.b = b /\ W.rq = rq /\ W.mainq = mainq /\ W.net = net /\ W.ghost = ghost
    BY InvIs
  <1>2. Thread(u) /\ b.retry # <<>>
    BY DEF RetryMove
  <1>3. Kept(W, ops, {}) /\ Counted(W, ops)
    BY <1>1 DEF Base
  <1>4. b \in Broker /\ b.retry \in Seq(Reqs) /\ b.out \in Seq(All) /\ b.wait \in Seq(All)
    BY <1>1, Typed
  <1>5. Distinct(b.retry) /\ Distinct(b.out) /\ Distinct(b.wait)
        /\ b.blk = Cardinality(ToSet(b.wait) \cap Blocking)
    BY <1>1, <1>3 DEF Kept, Counted
  <1>6. r \in ToSet(b.retry) /\ r \in Reqs
    BY <1>2, <1>4, ElemsIs
  <1>7. t \in Seq(Reqs) /\ ToSet(t) = ToSet(b.retry) \ {r} /\ Distinct(t)
    BY <1>2, <1>4, <1>5, TailSet
  <1>8. r \notin ToSet(b.out) /\ r \notin ToSet(b.wait)
    <2> HIDE DEF r
    <2> QED BY <1>1, <1>3, <1>6, OnlyThere
  <1>9. w = [W EXCEPT !.b = c]
    BY <1>1
  <1> HIDE DEF t, r, w
  <1>10. /\ c \in Broker /\ c.retry = t /\ c.out = b.out /\ c.wait = b.wait /\ c.blk = b.blk
         /\ c.st = b.st /\ c.trans = b.trans /\ c.conn = b.conn /\ c.corr = b.corr
         /\ c.cf = b.cf /\ c.infl = b.infl
    BY <1>4, <1>7 DEF Broker
  <1> HIDE DEF c
  <1>11. w \in Work /\ w.b = c /\ w.rq = W.rq /\ w.mainq = W.mainq /\ w.net = W.net /\ w.ghost = W.ghost
    BY <1>1, <1>9, <1>10 DEF Work
  <1>12. Takes(W, w, S)
    <2>1. \A i \in 1..Len(w.net) : \E j \in 1..Len(W.net) : w.net[i] = W.net[j]
      BY <1>11
    <2> QED BY <1>1, <1>5, <1>7, <1>8, <1>10, <1>11, <2>1 DEF Takes
  <1>13. S \subseteq ToSet(W.b.out) \cup ToSet(W.b.wait) \cup ToSet(W.b.retry) /\ E \cup S = {r}
         /\ Base(W, ops, E)
    BY <1>1, <1>6
  <1>14. Leaves(W, w, S)
    <2>1. r # AV /\ r # None
      BY <1>6, BrokerAssumption
    <2>2. b.out # <<>> => Head(b.out) \in ToSet(b.out)
      BY <1>4, ElemsIs
    <2>3. bterm = "no" => W.ghost.wire # r
      BY <1>1, <1>8, <2>1, <2>2 DEF Leads, Whole
    <2> QED BY <1>1, <1>10, <1>11, <2>1, <2>3 DEF Leaves
  <1> HIDE DEF S, E
  <1>15. Base(w, ops, E \cup S) /\ Leads(w)
    BY <1>1, <1>11, <1>12, <1>13, <1>14, TakesKeeps
  <1>16. ~w.rq[r].part /\ w.rq[r].corr = 0 /\ Due(w, r)
    BY <1>1, <1>3, <1>6, <1>11 DEF Counted, Due
  <1> DEFINE G == {r}
  <1>17. Base(w, ops, G) /\ r \in G /\ G \ {r} = {} /\ r \in All /\ r # AV /\ u = BufEnq(w, r)
    BY <1>6, <1>13, <1>15, BrokerAssumption DEF All
  <1>20. Thread(u)
    BY <1>2
  <1> HIDE DEF G, u
  <1>18. Base(u, ops, G \ {r}) /\ Leads(u)
    BY <1>6, <1>15, <1>16, <1>17, BufEnqKeeps
  <1> QED BY <1>17, <1>18, <1>20, ThreadTo

(* The request in hand changes.                                            *)
Recorded(w, u, r, f) ==
    /\ u \in Work /\ u.mainq = w.mainq /\ u.net = w.net /\ u.ghost = w.ghost
    /\ u.rq[r] = f /\ \A x \in All \ {r} : u.rq[x] = w.rq[x]

(* A request in hand takes part in nothing.                                *)
LEMMA HeldNumbers ==
    ASSUME NEW w, NEW o, NEW H, Base(w, o, H), NEW r \in Reqs, r \in H, NEW f \in Buf,
           f.corr <= w.b.corr, NEW u, Recorded(w, u, r, f), Alike(w, u)
    PROVE  /\ Linked(u) /\ Numbers(u) /\ (Leads(w) => Leads(u)) /\ ~u.ghost.bad
  <1>0. /\ w \in Work /\ Kept(w, o, H) /\ Linked(w) /\ Numbers(w) /\ Reqs \subseteq All
        /\ ~w.ghost.bad
    BY DEF Base, All
  <1>1. w.b.out \in Seq(All) /\ w.b.wait \in Seq(All)
    BY <1>0, Typed
  <1>2. ToSet(w.b.out) \subseteq All /\ ToSet(w.b.wait) \subseteq All
        /\ (w.b.out # <<>> => Head(w.b.out) \in ToSet(w.b.out))
    BY <1>1, ElemsIs
  <1>3. r \notin ToSet(w.b.out) \cup ToSet(w.b.wait)
    BY <1>0, OnlyThere
  <1>4. \A x \in ToSet(w.b.out) \cup ToSet(w.b.wait) : u.rq[x] = w.rq[x]
    BY <1>2, <1>3 DEF Recorded
  <1>5. \A x \in All : u.rq[x].corr <= w.b.corr
    BY <1>0 DEF Recorded, Numbers
  <1>6. Linked(u)
    BY <1>0 DEF Linked, Alike
  <1>7. Numbers(u)
    BY <1>0, <1>4, <1>5 DEF Numbers, Alike
  <1>8. Whole(w) => Whole(u)
    BY <1>2, <1>4 DEF Whole, Alike
  <1>9. Asking(w) => Asking(u)
    BY <1>4 DEF Asking, Alike
  <1> QED BY <1>0, <1>6, <1>7, <1>8, <1>9 DEF Leads, Alike

(* rd_kafka_broker_buf_retry() of a request another thread sent.           *)
LEMMA BufRetryIs ==
    ASSUME NEW w \in Work, NEW r \in Reqs, NEW u, u = BufRetry(w, r)
    PROVE  /\ Recorded(w, u, r, [w.rq[r] EXCEPT !.part = FALSE, !.corr = 0]) /\ Alike(w, u)
           /\ u.b.retry = Append(w.b.retry, r)
  <1> DEFINE q == Append(w.b.retry, r)
             c == [w.b EXCEPT !.retry = q]
             f == [w.rq[r] EXCEPT !.part = FALSE, !.corr = 0]
             p == [w.rq EXCEPT ![r] = f]
  <1>1. /\ w.b \in Broker /\ w.rq \in [All -> Buf] /\ w.rq[r] \in Buf /\ r \in All /\ w.b.retry \in Seq(Reqs)
    BY Typed DEF All
  <1>2. q \in Seq(Reqs)
    BY <1>1, AppendSet
  <1>3. f \in Buf
    BY <1>1 DEF Buf
  <1>4. u = [w EXCEPT !.b = c, !.rq = p]
    <2>1. u = [w EXCEPT !.rq[r].part = FALSE, !.rq[r].corr = 0, !.b.retry = q]
      BY DEF BufRetry
    <2> HIDE DEF q
    <2>2. [w.rq EXCEPT ![r].part = FALSE, ![r].corr = 0] = p
      BY <1>1 DEF Buf
    <2> HIDE DEF f, p
    <2>3. u = [w EXCEPT !.rq = [w.rq EXCEPT ![r].part = FALSE, ![r].corr = 0], !.b = c]
      BY <2>1 DEF Work
    <2> QED BY <2>2, <2>3 DEF Work
  <1> HIDE DEF q, f
  <1>5. p \in [All -> Buf] /\ p[r] = f /\ \A x \in All \ {r} : p[x] = w.rq[x]
    BY <1>1, <1>3
  <1>6. /\ c \in Broker /\ c.retry = q /\ c.st = w.b.st /\ c.trans = w.b.trans /\ c.out = w.b.out
        /\ c.wait = w.b.wait /\ c.conn = w.b.conn /\ c.corr = w.b.corr /\ c.blk = w.b.blk
        /\ c.cf = w.b.cf /\ c.infl = w.b.infl
    BY <1>1, <1>2 DEF Broker
  <1> HIDE DEF c, p
  <1>7. u \in Work /\ u.b = c /\ u.rq = p /\ u.mainq = w.mainq /\ u.net = w.net /\ u.ghost = w.ghost
    BY <1>4, <1>5, <1>6, ZenonT(60) DEF Work
  <1>8. Alike(w, u)
    BY <1>6, <1>7 DEF Alike
  <1>9. Recorded(w, u, r, f)
    BY <1>5, <1>7 DEF Recorded
  <1> QED BY <1>6, <1>7, <1>8, <1>9 DEF f, q

(* It waits to be retried.                                                 *)
LEMMA BufRetryKeeps ==
    ASSUME NEW w, NEW o, NEW H, Base(w, o, H), NEW r \in Reqs, r \in H, Due(w, r),
           NEW u, u = BufRetry(w, r)
    PROVE  Base(u, o, H \ {r}) /\ (Leads(w) => Leads(u))
  <1> DEFINE f == [w.rq[r] EXCEPT !.part = FALSE, !.corr = 0]
             G == H \ {r}
  <1>0. /\ w \in Work /\ o \in Seq(OpSet) /\ Kept(w, o, H) /\ Counted(w, o) /\ AV \notin Reqs
        /\ Reqs \subseteq All
    BY BrokerAssumption DEF Base, All
  <1>1. Recorded(w, u, r, f) /\ Alike(w, u) /\ u.b.retry = Append(w.b.retry, r)
    BY <1>0, BufRetryIs, ZenonT(60)
  <1>2. /\ w.rq[r] \in Buf /\ w.b.retry \in Seq(Reqs) /\ w.b.corr \in Nat /\ w.b.out \in Seq(All)
        /\ w.ghost.ended \in [Reqs -> Nat]
    BY <1>0, Typed
  <1>3. f \in Buf /\ f.corr = 0 /\ f.part = FALSE /\ f.tries = w.rq[r].tries /\ f.sent = w.rq[r].sent
    BY <1>2 DEF Buf
  <1> HIDE DEF f
  <1>4. f.corr <= w.b.corr
    BY <1>2, <1>3
  <1>5. Linked(u) /\ Numbers(u) /\ (Leads(w) => Leads(u)) /\ ~u.ghost.bad
    BY <1>1, <1>3, <1>4, HeldNumbers
  <1>6. /\ r \notin ToSet(w.b.out) \cup ToSet(w.b.wait) \cup ToSet(w.b.retry)
        /\ r \notin Carried(o) /\ r \in w.ghost.issued
    BY <1>0, OnlyThere
  <1>7. ToSet(u.b.retry) = ToSet(w.b.retry) \cup {r} /\ Distinct(u.b.retry)
    <2>1. Distinct(w.b.retry)
      BY <1>0 DEF Kept
    <2> QED BY <1>1, <1>2, <1>6, <2>1, AppendSet
  <1>8. Kept(u, o, G)
    <2>0. u.mainq = w.mainq /\ u.ghost = w.ghost /\ u.b.out = w.b.out /\ u.b.wait = w.b.wait
      BY <1>1 DEF Recorded, Alike
    <2>1. ASSUME NEW x \in Reqs PROVE Spread(u, o, G, x) = Spread(w, o, H, x)
      <3>1. Num(x \in ToSet(u.b.retry)) + Num(x \in G) = Num(x \in ToSet(w.b.retry)) + Num(x \in H)
        BY <1>6, <1>7 DEF Num
      <3>2. w.ghost.ended[x] \in Nat
        BY <1>2
      <3> HIDE DEF G
      <3> QED BY <2>0, <3>1, <3>2 DEF Spread, Num
    <2>2. AV \in G <=> AV \in H
      BY <1>0
    <2> HIDE DEF G
    <2> QED BY <1>0, <1>7, <2>0, <2>1, <2>2 DEF Kept
  <1>9. Counted(u, o)
    <2>0. u.ghost = w.ghost /\ u.b.out = w.b.out /\ u.b.wait = w.b.wait /\ u.b.blk = w.b.blk
          /\ u.rq[r] = f /\ \A x \in All \ {r} : u.rq[x] = w.rq[x]
      BY <1>1 DEF Recorded, Alike
    <2>1. \A x \in Reqs : u.ghost.got[x] <= u.rq[x].tries + Num(u.rq[x].sent)
      BY <1>0, <1>3, <2>0 DEF Counted
    <2>2. \A x \in Reqs \cap (ToSet(u.b.out) \cup ToSet(u.b.retry)) : Due(u, x)
      BY <1>0, <1>3, <1>7, <2>0 DEF Counted, Due
    <2>3. ASSUME NEW x \in ToSet(u.b.retry) PROVE ~u.rq[x].part /\ u.rq[x].corr = 0
      <3>1. ToSet(w.b.retry) \subseteq Reqs
        BY <1>2, ElemsIs
      <3>2. CASE x = r
        BY <1>3, <2>0, <3>2
      <3>3. CASE x # r
        <4>1. x \in ToSet(w.b.retry) /\ x \in All
          BY <1>0, <1>7, <3>1, <3>3
        <4> QED BY <1>0, <2>0, <3>3, <4>1 DEF Counted
      <3> QED BY <3>2, <3>3
    <2>4. ASSUME NEW i \in Carry(o)
          PROVE  IF o[i].op = "XMIT_BUF" THEN Unused(u, o[i].r) ELSE Due(u, o[i].r)
      <3>1. o[i].r \in Carried(o) /\ o[i].r \in Reqs
        BY <1>0, CarryIs DEF Carried
      <3>2. u.rq[o[i].r] = w.rq[o[i].r]
        BY <1>0, <1>6, <2>0, <3>1
      <3> QED BY <1>0, <2>0, <3>2 DEF Counted, Due, Unused
    <2>5. \A x \in Reqs \ u.ghost.issued : Unused(u, x)
      BY <1>0, <1>6, <2>0 DEF Counted, Unused
    <2> QED BY <1>0, <2>0, <2>1, <2>2, <2>3, <2>4, <2>5 DEF Counted
  <1>10. u \in Work
    BY <1>1 DEF Recorded
  <1> HIDE DEF G
  <1>11. Base(u, o, G)
    BY <1>0, <1>5, <1>8, <1>9, <1>10 DEF Base
  <1> QED BY <1>5, <1>11 DEF G

(* rd_kafka_buf_retry() counts a try.                                      *)
LEMMA CountTryKeeps ==
    ASSUME NEW w, NEW o, NEW H, Base(w, o, H), NEW r \in Reqs, r \in H, Tries(w, r) <= MaxRetries,
           NEW u, u = CountTry(w, r)
    PROVE  Base(u, o, H) /\ (Leads(w) => Leads(u)) /\ Due(u, r)
  <1> DEFINE n == Tries(w, r)
             f == [w.rq[r] EXCEPT !.tries = n]
             p == [w.rq EXCEPT ![r] = f]
  <1>0. /\ w \in Work /\ o \in Seq(OpSet) /\ Kept(w, o, H) /\ Numbers(w) /\ Counted(w, o) /\ MaxRetries \in Nat
        /\ Reqs \subseteq All
    BY BrokerAssumption DEF Base, All
  <1>1. w.rq[r] \in Buf /\ w.rq \in [All -> Buf] /\ w.ghost.got \in [All -> Nat] /\ r \in All
        /\ w.b.retry \in Seq(Reqs)
    BY <1>0, Typed
  <1>2. n \in 0..MaxRetries /\ n = w.rq[r].tries + Num(w.rq[r].sent)
    BY <1>0, <1>1 DEF Tries, Buf, Num
  <1>3. u = [w EXCEPT !.rq = p]
    BY DEF CountTry
  <1> HIDE DEF n
  <1>4. f \in Buf /\ f.corr = w.rq[r].corr /\ f.part = w.rq[r].part /\ f.tries = n /\ f.sent = w.rq[r].sent
    BY <1>1, <1>2 DEF Buf
  <1> HIDE DEF f
  <1>5. p \in [All -> Buf] /\ p[r] = f /\ \A x \in All \ {r} : p[x] = w.rq[x]
    BY <1>1, <1>4
  <1> HIDE DEF p
  <1>6. u \in Work /\ u.b = w.b /\ u.rq = p /\ u.mainq = w.mainq /\ u.net = w.net /\ u.ghost = w.ghost
    BY <1>0, <1>3, <1>5 DEF Work
  <1>7. Recorded(w, u, r, f) /\ Alike(w, u)
    BY <1>5, <1>6 DEF Recorded, Alike
  <1>8. f.corr <= w.b.corr
    BY <1>0, <1>1, <1>4 DEF Numbers
  <1>9. Linked(u) /\ Numbers(u) /\ (Leads(w) => Leads(u)) /\ ~u.ghost.bad
    BY <1>4, <1>7, <1>8, HeldNumbers
  <1>10. Kept(u, o, H)
    BY <1>0, <1>6 DEF Kept, Spread
  <1>11. /\ r \notin ToSet(w.b.out) \cup ToSet(w.b.wait) \cup ToSet(w.b.retry)
         /\ r \notin Carried(o) /\ r \in w.ghost.issued
    BY <1>0, OnlyThere
  <1>12. w.ghost.got[r] <= n /\ n \in Nat /\ w.ghost.got[r] \in Nat
    BY <1>0, <1>1, <1>2 DEF Counted
  <1>13. Counted(u, o)
    <2>1. \A x \in Reqs : u.ghost.got[x] <= u.rq[x].tries + Num(u.rq[x].sent)
      <3>1. u.ghost.got[r] <= u.rq[r].tries + Num(u.rq[r].sent)
        <4>1. Num(u.rq[r].sent) \in {0, 1}
          BY DEF Num
        <4> QED BY <1>4, <1>5, <1>6, <1>12, <4>1
      <3> QED BY <1>0, <1>5, <1>6, <3>1 DEF Counted
    <2>2. \A x \in Reqs \cap (ToSet(u.b.out) \cup ToSet(u.b.retry)) : Due(u, x)
      BY <1>0, <1>5, <1>6, <1>11 DEF Counted, Due
    <2>3. \A x \in ToSet(u.b.retry) : ~u.rq[x].part /\ u.rq[x].corr = 0
      <3>1. ToSet(w.b.retry) \subseteq Reqs
        BY <1>1, ElemsIs
      <3> QED BY <1>0, <1>5, <1>6, <1>11, <3>1 DEF Counted
    <2>4. ASSUME NEW i \in Carry(o)
          PROVE  IF o[i].op = "XMIT_BUF" THEN Unused(u, o[i].r) ELSE Due(u, o[i].r)
      <3>1. o[i].r \in Carried(o) /\ o[i].r \in Reqs
        BY <1>0, CarryIs DEF Carried
      <3>2. u.rq[o[i].r] = w.rq[o[i].r]
        BY <1>0, <1>5, <1>6, <1>11, <3>1
      <3> QED BY <1>0, <1>6, <3>2 DEF Counted, Due, Unused
    <2>5. \A x \in Reqs \ u.ghost.issued : Unused(u, x)
      BY <1>0, <1>5, <1>6, <1>11 DEF Counted, Unused
    <2> QED BY <1>0, <1>6, <2>1, <2>2, <2>3, <2>4, <2>5 DEF Counted
  <1>14. Due(u, r)
    BY <1>4, <1>5, <1>6, <1>12 DEF Due
  <1> QED BY <1>0, <1>6, <1>9, <1>10, <1>13, <1>14 DEF Base

(* The ops change, and the requests they carry do not.                     *)
LEMMA OpsTo ==
    ASSUME NEW w, NEW o, NEW H, Base(w, o, H), NEW p \in Seq(OpSet), CarriedOnce(p),
           Carried(p) = Carried(o), \A i \in Carry(p) : \E j \in Carry(o) : p[i] = o[j]
    PROVE  Base(w, p, H)
  <1>1. Kept(w, p, H)
    BY DEF Base, Kept, Spread
  <1>2. Counted(w, p)
    BY DEF Base, Counted
  <1> QED BY <1>1, <1>2 DEF Base

(* An op without a request is added, at either end, or taken.              *)
LEMMA OpAdded ==
    ASSUME NEW w, NEW o, NEW H, Base(w, o, H), NEW x \in OpSet, x.op \notin Xmit
    PROVE  Base(w, Append(o, x), H) /\ Base(w, <<x>> \o o, H)
  <1>1. o \in Seq(OpSet) /\ CarriedOnce(o)
    BY DEF Base, Kept
  <1>2. Base(w, Append(o, x), H)
    <2> DEFINE p == Append(o, x)
    <2>1. /\ p \in Seq(OpSet) /\ CarriedOnce(p)
          /\ Carried(p) = IF x.op \in Xmit THEN Carried(o) \cup {x.r} ELSE Carried(o)
          /\ \A i \in Carry(p) : (i \in Carry(o) /\ p[i] = o[i]) \/ p[i] = x
      BY <1>1, CarryAppend
    <2> HIDE DEF p
    <2>2. \A i \in Carry(p) : p[i].op \in Xmit
      BY DEF Carry
    <2>3. \A i \in Carry(p) : \E j \in Carry(o) : p[i] = o[j]
      BY <2>1, <2>2
    <2>4. Carried(p) = Carried(o)
      BY <2>1
    <2>5. Base(w, p, H)
      BY <2>1, <2>3, <2>4, OpsTo
    <2> QED BY <2>5 DEF p
  <1>3. Base(w, <<x>> \o o, H)
    <2> DEFINE p == <<x>> \o o
    <2>1. /\ p \in Seq(OpSet) /\ CarriedOnce(p) /\ Carried(p) = Carried(o)
          /\ \A i \in Carry(p) : i - 1 \in Carry(o) /\ p[i] = o[i - 1]
      BY <1>1, CarryFront
    <2> HIDE DEF p
    <2>2. \A i \in Carry(p) : \E j \in Carry(o) : p[i] = o[j]
      BY <2>1
    <2>3. Base(w, p, H)
      BY <2>1, <2>2, OpsTo
    <2> QED BY <2>3 DEF p
  <1> QED BY <1>2, <1>3

(* An op without a request is served.                                      *)
LEMMA OpTaken ==
    ASSUME NEW w, NEW o, NEW H, Base(w, o, H), o # <<>>, Head(o).op \notin Xmit
    PROVE  Base(w, Tail(o), H)
  <1>1. o \in Seq(OpSet) /\ CarriedOnce(o)
    BY DEF Base, Kept
  <1> DEFINE p == Tail(o)
  <1>2. /\ p \in Seq(OpSet) /\ CarriedOnce(p) /\ Carried(p) = Carried(o)
        /\ \A i \in Carry(p) : i + 1 \in Carry(o) /\ p[i] = o[i + 1]
    BY <1>1, CarryTail
  <1> HIDE DEF p
  <1>3. \A i \in Carry(p) : \E j \in Carry(o) : p[i] = o[j]
    BY <1>2
  <1>4. Base(w, p, H)
    BY <1>2, <1>3, OpsTo
  <1> QED BY <1>4 DEF p

(* A request goes from an op to a hand, or from a hand to an op.           *)
Ready(w, x) == IF x.op = "XMIT_BUF" THEN Unused(w, x.r) ELSE Due(w, x.r)

(* The first op is served, and its request is in hand.                     *)
LEMMA OpOpened ==
    ASSUME NEW w, NEW o, Base(w, o, {}), o # <<>>, NEW x, x = Head(o), x.op \in Xmit
    PROVE  Base(w, Tail(o), {x.r}) /\ Ready(w, x) /\ x.r \in Reqs
  <1>0. w \in Work /\ o \in Seq(OpSet) /\ Kept(w, o, {}) /\ Counted(w, o) /\ AV \notin Reqs
    BY BrokerAssumption DEF Base
  <1>1. CarriedOnce(o)
    BY <1>0 DEF Kept
  <1> DEFINE p == Tail(o)
             H == {x.r}
  <1>2. /\ x \in OpSet /\ p \in Seq(OpSet) /\ CarriedOnce(p)
        /\ 1 \in Carry(o) /\ o[1] = x /\ x.r \in Carried(o)
        /\ Carried(p) = Carried(o) \ {x.r}
        /\ \A i \in Carry(p) : i + 1 \in Carry(o) /\ p[i] = o[i + 1]
    BY <1>0, <1>1, CarryTail
  <1>3. x.r \in Reqs
    BY <1>0, <1>2, CarryIs
  <1>4. Ready(w, x)
    BY <1>0, <1>2 DEF Counted, Ready
  <1> HIDE DEF p
  <1>5. Kept(w, p, H)
    <2>1. w.ghost.ended \in [Reqs -> Nat]
      BY <1>0, Typed
    <2>2. ASSUME NEW y \in Reqs PROVE Spread(w, p, H, y) = Spread(w, o, {}, y)
      <3>1. Num(y \in Carried(p)) + Num(y \in H) = Num(y \in Carried(o)) + Num(y \in {})
        BY <1>2 DEF Num
      <3>2. w.ghost.ended[y] \in Nat
        BY <2>1
      <3> HIDE DEF H
      <3> QED BY <3>1, <3>2 DEF Spread, Num
    <2>3. AV \notin H
      BY <1>0, <1>3
    <2>4. Num(AV \in H) = Num(AV \in {})
      BY <2>3 DEF Num
    <2> HIDE DEF H
    <2> QED BY <1>0, <1>2, <2>2, <2>4 DEF Kept
  <1>6. Counted(w, p)
    <2>1. \A i \in Carry(p) : IF p[i].op = "XMIT_BUF" THEN Unused(w, p[i].r) ELSE Due(w, p[i].r)
      BY <1>0, <1>2 DEF Counted
    <2> QED BY <1>0, <2>1 DEF Counted
  <1> HIDE DEF H
  <1>7. Base(w, p, H)
    BY <1>2, <1>5, <1>6 DEF Base
  <1> QED BY <1>3, <1>4, <1>7 DEF p, H

(* The request in hand is sent with an op.                                 *)
LEMMA OpClosed ==
    ASSUME NEW w, NEW o, NEW x \in OpSet, x.op \in Xmit, Base(w, o, {x.r}), Ready(w, x)
    PROVE  Base(w, Append(o, x), {})
  <1> DEFINE p == Append(o, x)
             H == {x.r}
  <1>0. w \in Work /\ o \in Seq(OpSet) /\ Kept(w, o, H) /\ Counted(w, o) /\ AV \notin Reqs
        /\ x.r \in H
    BY BrokerAssumption DEF Base
  <1>1. CarriedOnce(o) /\ x.r \in Reqs
    BY <1>0, OpTypes DEF Kept
  <1>2. x.r \notin Carried(o)
    <2> HIDE DEF H
    <2> QED BY <1>0, <1>1, OnlyThere
  <1>3. /\ p \in Seq(OpSet) /\ CarriedOnce(p) /\ Carried(p) = Carried(o) \cup {x.r}
        /\ \A i \in Carry(p) : (i \in Carry(o) /\ p[i] = o[i]) \/ p[i] = x
    <2>1. /\ p \in Seq(OpSet) /\ CarriedOnce(p)
          /\ Carried(p) = IF x.op \in Xmit THEN Carried(o) \cup {x.r} ELSE Carried(o)
          /\ \A i \in Carry(p) : (i \in Carry(o) /\ p[i] = o[i]) \/ p[i] = x
      BY <1>0, <1>1, <1>2, CarryAppend
    <2> QED BY <2>1
  <1> HIDE DEF p
  <1>5. Kept(w, p, {})
    <2>1. w.ghost.ended \in [Reqs -> Nat]
      BY <1>0, Typed
    <2>2. ASSUME NEW y \in Reqs PROVE Spread(w, p, {}, y) = Spread(w, o, H, y)
      <3>1. Num(y \in Carried(p)) + Num(y \in {}) = Num(y \in Carried(o)) + Num(y \in H)
        BY <1>2, <1>3 DEF Num
      <3>2. w.ghost.ended[y] \in Nat
        BY <2>1
      <3> HIDE DEF H
      <3> QED BY <3>1, <3>2 DEF Spread, Num
    <2>3. AV \notin H
      BY <1>0, <1>1
    <2>4. Num(AV \in H) = Num(AV \in {})
      BY <2>3 DEF Num
    <2> HIDE DEF H
    <2> QED BY <1>0, <1>3, <2>2, <2>4 DEF Kept
  <1>6. Counted(w, p)
    <2>1. \A i \in Carry(p) : IF p[i].op = "XMIT_BUF" THEN Unused(w, p[i].r) ELSE Due(w, p[i].r)
      BY <1>0, <1>3 DEF Counted, Ready
    <2> QED BY <1>0, <2>1 DEF Counted
  <1>7. Base(w, p, {})
    BY <1>3, <1>5, <1>6 DEF Base
  <1> QED BY <1>7 DEF p

(* A request without a past.                                               *)
LEMMA UnusedIs ==
    ASSUME NEW w, NEW r \in Reqs, Unused(w, r)
    PROVE  ~w.rq[r].part /\ w.rq[r].corr = 0 /\ Due(w, r)
  BY DEF Unused, Due, Fresh

(* A request in hand, of the right kind, is queued.                        *)
LEMMA EnqueueKeeps ==
    ASSUME NEW w, NEW o, NEW r \in Reqs, Base(w, o, {r}), Unused(w, r), Leads(w), NEW u, u = BufEnq(w, r)
    PROVE  Base(u, o, {}) /\ Leads(u)
  <1> DEFINE G == {r}
  <1>1. r \in G /\ G \ {r} = {} /\ Base(w, o, G) /\ r \in All /\ r # AV
    BY BrokerAssumption DEF All
  <1>2. ~w.rq[r].part /\ w.rq[r].corr = 0 /\ Due(w, r)
    BY UnusedIs
  <1> HIDE DEF G
  <1>3. Base(u, o, G \ {r}) /\ Leads(u)
    BY <1>1, <1>2, BufEnqKeeps
  <1> QED BY <1>1, <1>3

(* rd_kafka_broker_op_serve(), each kind of op.                            *)
LEMMA OpServeKeeps ==
    ASSUME Inv, OpServe
    PROVE  Inv'
  <1> DEFINE x == Head(ops)
             t == Tail(ops)
  <1>1. /\ Base(W, ops, {}) /\ Leads(W) /\ W \in Work /\ W.b = b
        /\ bterm = "no" => ~W.ghost.mixed /\ ~W.ghost.early
    BY InvIs
  <1>2. ops # <<>> /\ ops' = t /\ bterm' = bterm
    BY DEF OpServe
  <1>3. SUFFICES \E u : Becomes(u) /\ Base(u, t, {}) /\ Leads(u)
    BY <1>2, StepTo
  <1>4. CASE x.op = "XMIT_BUF" /\ Becomes(BufEnq(W, x.r))
    <2>1. x.op \in Xmit
      BY <1>4 DEF Xmit
    <2>2. Base(W, t, {x.r}) /\ Ready(W, x) /\ x.r \in Reqs
      BY <1>1, <1>2, <2>1, OpOpened
    <2>3. Unused(W, x.r)
      BY <1>4, <2>2 DEF Ready
    <2> DEFINE u == BufEnq(W, x.r)
    <2> HIDE DEF t, x
    <2>4. Base(u, t, {}) /\ Leads(u)
      BY <1>1, <2>2, <2>3, EnqueueKeeps
    <2> QED BY <1>4, <2>4
  <1>5. CASE x.op = "XMIT_RETRY" /\ Becomes(BufRetry(W, x.r))
    <2>1. x.op \in Xmit /\ x.op # "XMIT_BUF"
      BY <1>5 DEF Xmit
    <2>2. Base(W, t, {x.r}) /\ Ready(W, x) /\ x.r \in Reqs
      BY <1>1, <1>2, <2>1, OpOpened
    <2>3. Due(W, x.r)
      BY <2>1, <2>2 DEF Ready
    <2> DEFINE r == x.r
               u == BufRetry(W, r)
               G == {r}
    <2>4. r \in G /\ G \ {r} = {} /\ Base(W, t, G) /\ r \in Reqs /\ Due(W, r) /\ Becomes(u)
      BY <1>5, <2>2, <2>3
    <2> HIDE DEF t, x, G, r
    <2>5. Base(u, t, G \ {r}) /\ Leads(u)
      BY <1>1, <2>4, BufRetryKeeps
    <2> QED BY <2>4, <2>5
  <1>6. ASSUME x.op \notin Xmit PROVE Base(W, t, {}) /\ Near(W, t, {})
    <2> DEFINE E == {}
    <2>1. Base(W, ops, E)
      BY <1>1
    <2> HIDE DEF E
    <2>2. Base(W, t, E)
      BY <1>2, <1>6, <2>1, OpTaken
    <2>3. Near(W, t, E)
      BY <2>2, BaseNear
    <2> QED BY <2>2, <2>3 DEF E
  <1>7. ASSUME x.op \notin Xmit, NEW w, Near(w, t, {}), bterm = "no" => ~w.ghost.mixed /\ ~w.ghost.early,
               NEW err \in Errors
        PROVE  Base(Fail(w, err), t, {}) /\ Leads(Fail(w, err))
    BY <1>7, FailKeeps
  <1>8. "TRANSPORT" \in Errors /\ "DESTROY" \in Errors
    BY DEF Errors
  <1>9. ASSUME x.op \notin Xmit, NEW to, Moves(b.st, to)
        PROVE  Base(SetState(W, to), t, {}) /\ Leads(SetState(W, to))
    <2> DEFINE u == SetState(W, to)
    <2>1. Base(W, t, {}) /\ Moves(W.b.st, to)
      BY <1>1, <1>6, <1>9
    <2> HIDE DEF u, t
    <2>2. Base(u, t, {}) /\ Leads(u)
      BY <1>1, <2>1, MoveKeeps DEF u
    <2> QED BY <2>2 DEF u
  <1>10. CASE /\ x.op = "CONNECT"
              /\ Becomes(IF b.st = "INIT" THEN SetState(W, "TRY_CONNECT")
                         ELSE IF b.st # "DOWN" /\ b.epoch # b.nodename
                         THEN Fail(W, "TRANSPORT") ELSE W)
    <2>1. x.op \notin Xmit
      BY <1>10 DEF Xmit
    <2>2. CASE b.st = "INIT"
      <3>1. Moves(b.st, "TRY_CONNECT")
        BY <2>2 DEF Moves
      <3> QED BY <1>9, <1>10, <2>1, <2>2, <3>1
    <2>3. CASE b.st # "INIT" /\ b.st # "DOWN" /\ b.epoch # b.nodename
      <3>1. Base(Fail(W, "TRANSPORT"), t, {}) /\ Leads(Fail(W, "TRANSPORT"))
        BY <1>1, <1>6, <1>7, <1>8, <2>1
      <3> QED BY <1>10, <2>3, <3>1
    <2>4. CASE b.st # "INIT" /\ ~(b.st # "DOWN" /\ b.epoch # b.nodename)
      BY <1>1, <1>6, <1>10, <2>1, <2>4
    <2> QED BY <2>2, <2>3, <2>4
  <1>11. CASE x.op = "NODE_NAME" /\ Becomes(Fail([W EXCEPT !.b.nodename = @ + 1], "TRANSPORT"))
    <2>1. x.op \notin Xmit
      BY <1>11 DEF Xmit
    <2> DEFINE w == [W EXCEPT !.b.nodename = @ + 1]
               n == b.nodename + 1
               c == [b EXCEPT !.nodename = n]
    <2>2. b \in Broker
      BY <1>1, Typed
    <2>3. n \in Nat
      BY <2>2 DEF Broker
    <2>4. w = [W EXCEPT !.b = c]
      BY <1>1
    <2> HIDE DEF n, w
    <2>5. /\ c \in Broker /\ c.out = b.out /\ c.wait = b.wait /\ c.retry = b.retry
          /\ c.corr = b.corr /\ c.blk = b.blk /\ c.cf = b.cf
      BY <2>2, <2>3 DEF Broker
    <2> HIDE DEF c
    <2>6. w \in Work /\ Stays(W, w) /\ w.ghost = W.ghost
      BY <1>1, <2>4, <2>5, PutBroker
    <2>7. Near(w, t, {})
      <3> DEFINE E == {}
      <3>1. Near(W, t, E)
        BY <1>6, <2>1
      <3> HIDE DEF E, t
      <3>2. Near(w, t, E)
        BY <2>6, <3>1, StaysNear
      <3> QED BY <3>2 DEF E
    <2>8. Base(Fail(w, "TRANSPORT"), t, {}) /\ Leads(Fail(w, "TRANSPORT"))
      BY <1>1, <1>7, <1>8, <2>1, <2>6, <2>7
    <2> QED BY <1>11, <2>8 DEF w
  <1>12. CASE /\ x.op = "NODE_ID" /\ Becomes(IF b.st = "UP" THEN SetState(W, "UPDATE") ELSE W)
    <2>1. x.op \notin Xmit
      BY <1>12 DEF Xmit
    <2>2. CASE b.st = "UP"
      <3>1. Moves(b.st, "UPDATE")
        BY <2>2 DEF Moves
      <3> QED BY <1>9, <1>12, <2>1, <2>2, <3>1
    <2>3. CASE b.st # "UP"
      BY <1>1, <1>6, <1>12, <2>1, <2>3
    <2> QED BY <2>2, <2>3
  <1>13. CASE x.op = "TERMINATE" /\ Becomes(Fail(W, "DESTROY"))
    <2>1. x.op \notin Xmit
      BY <1>13 DEF Xmit
    <2>2. Base(Fail(W, "DESTROY"), t, {}) /\ Leads(Fail(W, "DESTROY"))
      BY <1>1, <1>6, <1>7, <1>8, <2>1
    <2> QED BY <1>13, <2>2
  <1> QED BY <1>4, <1>5, <1>10, <1>11, <1>12, <1>13 DEF OpServe

(* When the client terminates, what is not sent ends.                      *)
LEMMA TermPurgeKeeps ==
    ASSUME Inv, TermPurge
    PROVE  Inv'
  <1> DEFINE w == [W EXCEPT !.b.out = <<>>, !.b.retry = <<>>]
             e == <<>>
             c == [b EXCEPT !.out = e, !.retry = e]
             rs == b.out \o b.retry
             u == CallAll(w, rs, "DESTROY")
             S == ToSet(rs)
  <1>1. /\ Base(W, ops, {}) /\ Leads(W) /\ W \in Work
        /\ W.b = b /\ W.rq = rq /\ W.mainq = mainq /\ W.net = net /\ W.ghost = ghost
    BY InvIs
  <1>2. bterm # "no" /\ Thread(u)
    BY DEF TermPurge
  <1>3. Kept(W, ops, {}) /\ Counted(W, ops)
    BY <1>1 DEF Base
  <1>4. b \in Broker /\ b.retry \in Seq(Reqs) /\ b.out \in Seq(All) /\ b.wait \in Seq(All) /\ Reqs \subseteq All
    BY <1>1, Typed DEF All
  <1>5. Distinct(b.retry) /\ Distinct(b.out) /\ Distinct(b.wait)
        /\ b.blk = Cardinality(ToSet(b.wait) \cap Blocking)
    BY <1>1, <1>3 DEF Kept, Counted
  <1>6. /\ ToSet(b.out) \subseteq All /\ ToSet(b.wait) \subseteq All /\ ToSet(b.retry) \subseteq Reqs
    BY <1>4, ElemsIs
  <1>7. ToSet(b.out) \cap ToSet(b.retry) = {} /\ ToSet(b.wait) \cap (ToSet(b.out) \cup ToSet(b.retry)) = {}
    <2>1. ASSUME NEW r \in Reqs
          PROVE  /\ ~(r \in ToSet(W.b.wait) /\ r \in ToSet(W.b.retry))
                 /\ ~(r \in ToSet(W.b.wait) /\ r \in ToSet(W.b.out))
                 /\ ~(r \in ToSet(W.b.retry) /\ r \in ToSet(W.b.out))
      BY <1>1, <1>3, OnlyThere
    <2>2. ~(AV \in ToSet(W.b.wait) /\ AV \in ToSet(W.b.out)) /\ AV \notin Reqs
      BY <1>3, AVThere, BrokerAssumption
    <2> QED BY <1>1, <1>6, <2>1, <2>2 DEF All
  <1>8. rs \in Seq(All) /\ S = ToSet(b.out) \cup ToSet(b.retry) /\ Distinct(rs)
    <2>1. b.retry \in Seq(All)
      BY <1>4
    <2> QED BY <1>4, <1>5, <1>7, <2>1, ConcatSet
  <1>9. e \in Seq(All) /\ e \in Seq(Reqs) /\ ToSet(e) = {} /\ Distinct(e)
    BY NoElems
  <1>10. w = [W EXCEPT !.b = c]
    BY <1>1
  <1> HIDE DEF w, e, rs
  <1>11. /\ c \in Broker /\ c.retry = e /\ c.out = e /\ c.wait = b.wait /\ c.blk = b.blk
         /\ c.st = b.st /\ c.trans = b.trans /\ c.conn = b.conn /\ c.corr = b.corr
         /\ c.cf = b.cf /\ c.infl = b.infl
    BY <1>4, <1>9 DEF Broker
  <1> HIDE DEF c
  <1>12. w \in Work /\ w.b = c /\ w.rq = W.rq /\ w.mainq = W.mainq /\ w.net = W.net /\ w.ghost = W.ghost
    BY <1>1, <1>10, <1>11 DEF Work
  <1> HIDE DEF S
  <1>13. Takes(W, w, S)
    <2>1. \A i \in 1..Len(w.net) : \E j \in 1..Len(W.net) : w.net[i] = W.net[j]
      BY <1>12
    <2>2. ToSet(b.out) \ S = {} /\ ToSet(b.retry) \ S = {} /\ ToSet(b.wait) \ S = ToSet(b.wait)
      BY <1>7, <1>8
    <2> QED BY <1>1, <1>5, <1>9, <1>11, <1>12, <2>1, <2>2 DEF Takes
  <1> DEFINE E == {}
  <1>14. S \subseteq ToSet(W.b.out) \cup ToSet(W.b.wait) \cup ToSet(W.b.retry) /\ E \cup S = S
         /\ Base(W, ops, E)
    BY <1>1, <1>8
  <1> HIDE DEF E
  <1>15. Base(w, ops, S)
    <2>1. Base(w, ops, E \cup S)
      BY <1>12, <1>13, <1>14, TakesKeeps
    <2> QED BY <1>14, <2>1
  <1>16. "DESTROY" \in Errors /\ ToSet(rs) \subseteq S /\ S \ ToSet(rs) = {}
    BY DEF Errors, S
  <1> HIDE DEF u
  <1>17. Base(u, ops, S \ ToSet(rs))
    BY <1>8, <1>15, <1>16, CallAllKeeps DEF u
  <1>18. Leads(u)
    BY <1>2 DEF Leads
  <1> QED BY <1>2, <1>16, <1>17, <1>18, ThreadTo

(* The thread ends when nothing refers to its broker: no request is left.  *)
LEMMA ThreadEndsKeeps ==
    ASSUME Inv, ThreadEnds
    PROVE  Inv'
  <1> DEFINE c == [b EXCEPT !.st = "DOWN", !.trans = FALSE]
             p == b.out \o b.wait \o b.retry # <<>>
             g == [ghost EXCEPT !.thread = "ended", !.bad = @ \/ p]
             u == [b |-> c, rq |-> rq, mainq |-> mainq, net |-> net, ghost |-> g]
             e == <<>>
  <1>1. /\ Base(W, ops, {}) /\ Leads(W) /\ W \in Work /\ Near(W, ops, {})
        /\ W.b = b /\ W.rq = rq /\ W.mainq = mainq /\ W.net = net /\ W.ghost = ghost
    BY InvIs
  <1>2. Refs <= 1 /\ ops' = e /\ b' = c /\ ghost' = g /\ bterm' = bterm /\ Becomes(u)
    BY DEF ThreadEnds, Becomes
  <1>3. /\ b \in Broker /\ b.retry \in Seq(Reqs) /\ b.out \in Seq(All) /\ b.wait \in Seq(All)
        /\ mainq \in Seq(Answers) /\ ghost \in Ghost /\ rq \in [All -> Buf] /\ net \in Seq(Received)
        /\ b.corr \in Nat
    BY <1>1, Typed
  <1>4. ops \in Seq(OpSet) /\ Carriers = Carry(ops) /\ Linked(W) /\ Numbers(W) /\ ~ghost.bad
    BY <1>1 DEF Base, Carriers, Carry, Xmit
  <1>5. /\ Len(b.out) \in Nat /\ Len(b.wait) \in Nat /\ Len(b.retry) \in Nat /\ Len(mainq) \in Nat
        /\ Cardinality(Carry(ops)) \in Nat
    BY <1>3, <1>4, ElemsIs, CarryIs
  <1>6. /\ Len(b.out) = 0 /\ Len(b.wait) = 0 /\ Len(b.retry) = 0 /\ Cardinality(Carry(ops)) = 0
        /\ bterm = "op"
    <2> DEFINE i == Len(b.out)
               j == Len(b.wait)
               k == Len(b.retry)
               l == Len(mainq)
               m == Cardinality(Carry(ops))
               n == IF bterm = "op" THEN 0 ELSE 1
    <2>1. Refs = 1 + n + i + j + k + l + m
      BY <1>4 DEF Refs
    <2>2. i \in Nat /\ j \in Nat /\ k \in Nat /\ l \in Nat /\ m \in Nat /\ n \in Nat
      BY <1>5
    <2> HIDE DEF i, j, k, l, m, n
    <2>3. i = 0 /\ j = 0 /\ k = 0 /\ m = 0 /\ n = 0
      BY <1>2, <2>1, <2>2
    <2> QED BY <2>3 DEF i, j, k, l, m, n
  <1>7. b.out = <<>> /\ b.wait = <<>> /\ b.retry = <<>> /\ Carry(ops) = {} /\ ~p
    <2>1. b.out = <<>> /\ b.wait = <<>> /\ b.retry = <<>>
      BY <1>3, <1>6, ElemsIs
    <2>2. Carry(ops) = {}
      BY <1>4, <1>6, CarryIs
    <2> QED BY <2>1, <2>2
  <1>8. c \in Broker /\ Same(b, c) /\ c.st = "DOWN" /\ c.trans = FALSE
    <2> DEFINE f == FALSE
               s == "DOWN"
    <2>1. f \in BOOLEAN /\ s \in States /\ c = [b EXCEPT !.st = s, !.trans = f]
      BY DEF States
    <2> HIDE DEF f, s, c
    <2>2. c \in Broker /\ Same(b, c) /\ c.st = s /\ c.trans = f
      BY <1>3, <2>1 DEF Broker, Same
    <2> QED BY <2>2 DEF f, s
  <1>9. /\ g \in Ghost /\ g.ended = ghost.ended /\ g.got = ghost.got /\ g.issued = ghost.issued
        /\ g.wire = ghost.wire /\ g.mixed = ghost.mixed /\ g.early = ghost.early /\ g.bad = ghost.bad
    <2> HIDE DEF p
    <2> QED BY <1>3, <1>4, <1>7 DEF Ghost
  <1> HIDE DEF c, g
  <1>10. /\ u \in Work /\ u.b = c /\ u.rq = W.rq /\ u.mainq = W.mainq /\ u.net = W.net /\ u.ghost = g
    BY <1>1, <1>3, <1>8, <1>9 DEF Work
  <1> HIDE DEF u
  <1>11. Stays(W, u)
    BY <1>1, <1>8, <1>9, <1>10 DEF Stays, Same
  <1>12. Near(u, ops, {})
    <2> DEFINE E == {}
    <2>1. Near(W, ops, E)
      BY <1>1
    <2> HIDE DEF E
    <2>2. Near(u, ops, E)
      BY <1>10, <1>11, <2>1, StaysNear
    <2> QED BY <2>2 DEF E
  <1>13. ToSet(u.b.out) = {} /\ ToSet(u.b.wait) = {}
    <2>1. u.b.out = <<>> /\ u.b.wait = <<>>
      BY <1>1, <1>7, <1>11 DEF Stays
    <2> QED BY <2>1, NoElems
  <1>14. Linked(u)
    BY <1>8, <1>10, <1>13 DEF Linked
  <1>15. Numbers(u)
    <2>1. u.rq = W.rq /\ u.b.corr = W.b.corr /\ u.net = W.net
      BY <1>11 DEF Stays
    <2> QED BY <1>4, <1>13, <2>1 DEF Numbers
  <1>16. Base(u, ops, {})
    BY <1>12, <1>14, <1>15 DEF Near, Base
  <1>17. e \in Seq(OpSet) /\ Carry(e) = {} /\ Carried(e) = {} /\ Carried(ops) = {}
    <2>1. e \in Seq(OpSet) /\ Len(e) = 0
      OBVIOUS
    <2>2. Carry(e) = {}
      BY <2>1 DEF Carry
    <2> QED BY <1>7, <2>1, <2>2 DEF Carried
  <1>18. Base(u, e, {})
    <2> DEFINE E == {}
    <2>1. Base(u, ops, E)
      BY <1>16
    <2>2. CarriedOnce(e)
      BY <1>17 DEF CarriedOnce
    <2>3. \A i \in Carry(e) : \E j \in Carry(ops) : e[i] = ops[j]
      BY <1>17
    <2> HIDE DEF e, E
    <2>4. Base(u, e, E)
      BY <1>17, <2>1, <2>2, <2>3, OpsTo
    <2> QED BY <2>4 DEF E
  <1>19. Leads(u)
    BY <1>6 DEF Leads
  <1> QED BY <1>2, <1>18, <1>19, StepTo

(* A request is made.                                                      *)
Issued(w, r) == [w EXCEPT !.ghost.issued = @ \cup {r}]

(* It is in hand, and nothing is known of it.                              *)
LEMMA IssuedKeeps ==
    ASSUME NEW w, NEW o, Base(w, o, {}), Leads(w), NEW r \in Reqs, r \notin w.ghost.issued,
           NEW u, u = Issued(w, r)
    PROVE  Base(u, o, {r}) /\ Leads(u) /\ Unused(u, r) /\ u \in Work
  <1> DEFINE s == w.ghost.issued \cup {r}
             g == [w.ghost EXCEPT !.issued = s]
             H == {r}
  <1>0. /\ w \in Work /\ o \in Seq(OpSet) /\ Kept(w, o, {}) /\ Linked(w) /\ Numbers(w)
        /\ Counted(w, o) /\ ~w.ghost.bad /\ AV \notin Reqs
    BY BrokerAssumption DEF Base
  <1>1. w.ghost \in Ghost /\ w.ghost.issued \subseteq Reqs /\ w.ghost.ended \in [Reqs -> Nat]
    BY <1>0, Typed
  <1>2. s \in SUBSET Reqs
    BY <1>1
  <1>3. u = [w EXCEPT !.ghost = g]
    BY DEF Issued
  <1> HIDE DEF s
  <1>4. /\ g \in Ghost /\ g.issued = s /\ g.ended = w.ghost.ended /\ g.got = w.ghost.got
        /\ g.wire = w.ghost.wire /\ g.mixed = w.ghost.mixed /\ g.early = w.ghost.early
        /\ g.bad = w.ghost.bad /\ g.av = w.ghost.av
    BY <1>1, <1>2 DEF Ghost
  <1> HIDE DEF g
  <1>5. u \in Work /\ u.b = w.b /\ u.rq = w.rq /\ u.mainq = w.mainq /\ u.net = w.net /\ u.ghost = g
    BY <1>0, <1>3, <1>4 DEF Work
  <1>6. Kept(u, o, H)
    <2>1. ASSUME NEW x \in Reqs PROVE Spread(u, o, H, x) = Num(x \in u.ghost.issued)
      <3>1. w.ghost.ended[x] \in Nat
        BY <1>1
      <3>2. Spread(w, o, {}, x) = Num(x \in w.ghost.issued) /\ Num(x \in {}) = 0
        BY <1>0 DEF Kept, Num
      <3>3. Spread(u, o, H, x) = Spread(w, o, {}, x) + Num(x \in H)
        <4>1. /\ Num(x \in ToSet(w.b.out)) \in Nat /\ Num(x \in ToSet(w.b.wait)) \in Nat
              /\ Num(x \in ToSet(w.b.retry)) \in Nat /\ Num(x \in Carried(o)) \in Nat
              /\ Num(x \in Asked(w.mainq)) \in Nat /\ Num(x \in H) \in Nat /\ Num(x \in {}) = 0
          BY DEF Num
        <4>2. u.ghost.ended[x] = w.ghost.ended[x]
          BY <1>4, <1>5
        <4> HIDE DEF H
        <4> QED BY <1>5, <3>1, <4>1, <4>2 DEF Spread
      <3>4. Num(x \in u.ghost.issued) = Num(x \in w.ghost.issued) + Num(x \in H)
        BY <1>4, <1>5 DEF Num, s
      <3> QED BY <3>2, <3>3, <3>4
    <2>2. AV \notin H
      BY <1>0
    <2>3. Num(AV \in H) = Num(AV \in {})
      BY <2>2 DEF Num
    <2> HIDE DEF H
    <2> QED BY <1>0, <1>5, <2>1, <2>3 DEF Kept
  <1>7. Counted(u, o)
    <2>1. \A x \in Reqs \ u.ghost.issued : x \in Reqs \ w.ghost.issued
      BY <1>4, <1>5 DEF s
    <2> QED BY <1>0, <1>4, <1>5, <2>1 DEF Counted, Due, Unused
  <1>8. Linked(u) /\ Numbers(u)
    BY <1>0, <1>5 DEF Linked, Numbers
  <1>9. Leads(u)
    BY <1>4, <1>5 DEF Leads, Whole, Asking
  <1>10. Unused(u, r)
    BY <1>0, <1>4, <1>5 DEF Counted, Unused
  <1> HIDE DEF H
  <1>11. Base(u, o, H)
    BY <1>0, <1>4, <1>5, <1>6, <1>7, <1>8 DEF Base
  <1> QED BY <1>5, <1>9, <1>10, <1>11 DEF H

(* And sent to the broker thread, or queued by it.                         *)
LEMMA IssueKeeps ==
    ASSUME Inv, NEW r \in Reqs, Issue(r)
    PROVE  Inv'
  <1> DEFINE w == Issued(W, r)
  <1>1. /\ Base(W, ops, {}) /\ Leads(W) /\ W \in Work
        /\ W.b = b /\ W.rq = rq /\ W.mainq = mainq /\ W.net = net /\ W.ghost = ghost
    BY InvIs
  <1>2. r \notin W.ghost.issued /\ bterm' = bterm
    BY <1>1 DEF Issue
  <1>3. Base(w, ops, {r}) /\ Leads(w) /\ Unused(w, r) /\ w \in Work
    <2> HIDE DEF w
    <2> QED BY <1>1, <1>2, IssuedKeeps DEF w
  <1>4. CASE r \in Main
    <2> DEFINE x == [op |-> "XMIT_BUF", r |-> r]
    <2>1. /\ ops' = Append(ops, x) /\ ghost' = [ghost EXCEPT !.issued = @ \cup {r}]
          /\ UNCHANGED <<b, rq, mainq, net>>
      BY <1>4 DEF Issue
    <2>2. Becomes(w)
      BY <1>1, <2>1 DEF Becomes, Issued, Work
    <2>3. x \in OpSet /\ x.op \in Xmit /\ x.r = r /\ x.op = "XMIT_BUF"
      BY DEF OpSet, Xmit
    <2> HIDE DEF x, w
    <2>4. Ready(w, x) /\ Base(w, ops, {x.r})
      BY <1>3, <2>3 DEF Ready
    <2>5. Base(w, Append(ops, x), {})
      BY <2>3, <2>4, OpClosed
    <2> QED BY <1>2, <1>3, <2>1, <2>2, <2>5, StepTo
  <1>5. CASE r \notin Main
    <2> DEFINE u == BufEnq(w, r)
    <2>1. Becomes(u) /\ ops' = ops
      BY <1>5 DEF Issue, Issued
    <2> HIDE DEF w
    <2>2. Base(u, ops, {}) /\ Leads(u)
      BY <1>3, EnqueueKeeps
    <2> HIDE DEF u
    <2> QED BY <1>2, <2>1, <2>2, StepTo
  <1> QED BY <1>4, <1>5

(* An answer is handled on the main thread.                                *)
LEMMA MainServeKeeps ==
    ASSUME Inv, MainServe
    PROVE  Inv'
  <1> DEFINE m == Head(mainq)
             t == Tail(mainq)
             w == [W EXCEPT !.mainq = Tail(@)]
             H == {m.r}
             r == m.r
  <1>1. /\ Base(W, ops, {}) /\ Leads(W) /\ W \in Work
        /\ W.b = b /\ W.rq = rq /\ W.mainq = mainq /\ W.net = net /\ W.ghost = ghost
    BY InvIs
  <1>2. mainq # <<>> /\ bterm' = bterm
    BY DEF MainServe
  <1>3. /\ Kept(W, ops, {}) /\ Counted(W, ops) /\ Linked(W) /\ Numbers(W) /\ ops \in Seq(OpSet)
        /\ ~W.ghost.bad /\ AV \notin Reqs
    BY <1>1, BrokerAssumption DEF Base
  <1>4. mainq \in Seq(Answers) /\ ghost.ended \in [Reqs -> Nat] /\ AskedOnce(mainq)
    BY <1>1, <1>3, Typed DEF Kept
  <1>5. /\ m \in Answers /\ t \in Seq(Answers) /\ AskedOnce(t)
        /\ r \in Asked(mainq) /\ Asked(t) = Asked(mainq) \ {r}
    BY <1>2, <1>4, AskTail
  <1>6. r \in Reqs
    BY <1>5 DEF Answers
  <1>7. w = [W EXCEPT !.mainq = t]
    BY <1>1
  <1>20. \/ /\ MayRetry(W, r, m.err) /\ Becomes(CountTry(w, r))
            /\ ops' = Append(ops, [op |-> "XMIT_RETRY", r |-> r])
         \/ Becomes(Ends(w, r)) /\ ops' = ops
    BY DEF MainServe
  <1> HIDE DEF w, t, m
  <1>8. w \in Work /\ w.b = W.b /\ w.rq = W.rq /\ w.mainq = t /\ w.net = W.net /\ w.ghost = W.ghost
    BY <1>1, <1>5, <1>7 DEF Work
  <1>9. Kept(w, ops, H)
    <2>1. ASSUME NEW x \in Reqs PROVE Spread(w, ops, H, x) = Spread(W, ops, {}, x)
      <3>1. Num(x \in Asked(t)) + Num(x \in H) = Num(x \in Asked(mainq)) + Num(x \in {})
        BY <1>5 DEF Num
      <3>2. ghost.ended[x] \in Nat
        BY <1>4
      <3>3. /\ Num(x \in ToSet(b.out)) \in Nat /\ Num(x \in ToSet(b.wait)) \in Nat
            /\ Num(x \in ToSet(b.retry)) \in Nat /\ Num(x \in Carried(ops)) \in Nat
            /\ Num(x \in Asked(mainq)) \in Nat /\ Num(x \in Asked(t)) \in Nat /\ Num(x \in H) \in Nat
            /\ Num(x \in {}) \in Nat
        BY DEF Num
      <3> HIDE DEF H
      <3> QED BY <1>1, <1>8, <3>1, <3>2, <3>3 DEF Spread
    <2>2. AV \notin H
      BY <1>3, <1>6
    <2>3. Num(AV \in H) = Num(AV \in {})
      BY <2>2 DEF Num
    <2> HIDE DEF H
    <2> QED BY <1>3, <1>5, <1>8, <2>1, <2>3 DEF Kept
  <1>10. Counted(w, ops) /\ Linked(w) /\ Numbers(w)
    BY <1>3, <1>8 DEF Counted, Due, Unused, Linked, Numbers
  <1>11. Leads(w)
    BY <1>1, <1>8 DEF Leads, Whole, Asking
  <1>19. r \in H /\ H \ {r} = {} /\ H = {r}
    OBVIOUS
  <1> HIDE DEF H, r
  <1>12. Base(w, ops, H)
    BY <1>3, <1>8, <1>9, <1>10 DEF Base
  <1>13. CASE /\ MayRetry(W, r, m.err) /\ Becomes(CountTry(w, r))
              /\ ops' = Append(ops, [op |-> "XMIT_RETRY", r |-> r])
    <2> DEFINE u == CountTry(w, r)
               x == [op |-> "XMIT_RETRY", r |-> r]
    <2>1. Tries(w, r) <= MaxRetries
      BY <1>8, <1>13 DEF MayRetry, Tries
    <2>2. Base(u, ops, H) /\ Leads(u) /\ Due(u, r)
      BY <1>6, <1>11, <1>12, <1>19, <2>1, CountTryKeeps
    <2>3. x \in OpSet /\ x.op \in Xmit /\ x.r = r /\ x.op # "XMIT_BUF"
      BY <1>6 DEF OpSet, Xmit
    <2>7. ops' = Append(ops, x) /\ Becomes(u)
      BY <1>13
    <2> HIDE DEF u, x
    <2>4. Ready(u, x) /\ Base(u, ops, {x.r})
      BY <1>19, <2>2, <2>3 DEF Ready
    <2>5. Base(u, Append(ops, x), {})
      BY <2>3, <2>4, OpClosed
    <2> QED BY <1>2, <2>2, <2>5, <2>7, StepTo
  <1>14. CASE Becomes(Ends(w, r)) /\ ops' = ops
    <2> DEFINE u == Callback(w, r, "DESTROY")
    <2>1. "DESTROY" \in Errors /\ r \in All /\ r # AV
      BY <1>3, <1>6 DEF Errors, All
    <2>2. Ends(w, r) = u
      BY <2>1 DEF Callback, MayRetry, RetryErrors
    <2> HIDE DEF u
    <2>3. Base(u, ops, H \ {r}) /\ Leads(u)
      BY <1>11, <1>12, <1>19, <2>1, CallbackKeeps DEF u
    <2> QED BY <1>2, <1>14, <1>19, <2>2, <2>3, StepTo
  <1> QED BY <1>13, <1>14, <1>20

(* A coordinator: only the flag changes.                                   *)
LEMMA CoordKeeps ==
    ASSUME Inv, NEW a \in BOOLEAN, b' = [b EXCEPT !.coord = a], UNCHANGED <<rq, mainq, net, bterm, ghost>>,
           Base(W, ops', {})
    PROVE  Inv'
  <1> DEFINE c == [b EXCEPT !.coord = a]
             u == [W EXCEPT !.b = c]
             o == ops'
             E == {}
  <1>1. /\ Base(W, ops, {}) /\ Leads(W) /\ W \in Work
        /\ W.b = b /\ W.rq = rq /\ W.mainq = mainq /\ W.net = net /\ W.ghost = ghost
    BY InvIs
  <1>2. b \in Broker
    BY <1>1, Typed
  <1>3. /\ c \in Broker /\ c.out = b.out /\ c.wait = b.wait /\ c.retry = b.retry
        /\ c.corr = b.corr /\ c.blk = b.blk /\ c.cf = b.cf /\ c.st = b.st /\ c.trans = b.trans
        /\ c.conn = b.conn /\ c.infl = b.infl
    BY <1>2 DEF Broker
  <1>4. b' = c
    OBVIOUS
  <1>5. u = [W EXCEPT !.b = c]
    OBVIOUS
  <1> HIDE DEF c, u
  <1>6. u \in Work /\ Stays(W, u) /\ u.b = c /\ u.ghost = W.ghost /\ u.rq = W.rq
    BY <1>1, <1>3, <1>5, PutBroker
  <1>7. u.mainq = W.mainq /\ u.net = W.net
    BY <1>6 DEF Stays
  <1>8. Becomes(u)
    BY <1>1, <1>4, <1>6, <1>7 DEF Becomes
  <1>9. Linked(W) /\ Base(W, o, E)
    BY <1>1 DEF Base
  <1>10. Linked(u)
    BY <1>1, <1>3, <1>6, <1>9 DEF Linked
  <1>11. IsUp(W.b.st) => IsUp(u.b.st) /\ u.b.conn = W.b.conn
    BY <1>1, <1>3, <1>6
  <1> HIDE DEF o, E
  <1>12. Base(u, o, E) /\ (Whole(W) => Whole(u))
    BY <1>6, <1>9, <1>10, <1>11, StaysKeeps
  <1>13. Asking(W) => Asking(u)
    BY <1>1, <1>3, <1>6 DEF Asking
  <1>14. Leads(u)
    BY <1>1, <1>12, <1>13 DEF Leads
  <1> QED BY <1>8, <1>12, <1>14, StepTo DEF o, E

(* The kinds of op that carry no request.                                  *)
LEMMA PlainOp ==
    ASSUME NEW k \in {"CONNECT", "NODE_NAME", "NODE_ID", "TERMINATE"}
    PROVE  [op |-> k] \in OpSet /\ [op |-> k].op \notin Xmit
  BY DEF OpSet, Xmit

(* rd_kafka_broker_persistent_connection_add() and _del().                 *)
LEMMA PersistKeeps ==
    ASSUME Inv, PersistAdd \/ PersistDel
    PROVE  Inv'
  <1>1. Base(W, ops, {})
    BY InvIs
  <1>2. CASE PersistAdd
    <2> DEFINE x == [op |-> "CONNECT"]
               a == TRUE
    <2>1. b' = [b EXCEPT !.coord = a] /\ ops' = <<x>> \o ops /\ UNCHANGED <<rq, mainq, net, bterm, ghost>>
          /\ a \in BOOLEAN
      BY <1>2 DEF PersistAdd
    <2>2. x \in OpSet /\ x.op \notin Xmit
      BY PlainOp
    <2> HIDE DEF x, a
    <2>3. Base(W, ops', {})
      <3> DEFINE E == {}
      <3>1. Base(W, ops, E)
        BY <1>1
      <3> HIDE DEF E
      <3>2. Base(W, <<x>> \o ops, E)
        BY <2>2, <3>1, OpAdded
      <3> QED BY <2>1, <3>2 DEF E
    <2> QED BY <2>1, <2>3, CoordKeeps
  <1>3. CASE PersistDel
    <2> DEFINE a == FALSE
    <2>1. b' = [b EXCEPT !.coord = a] /\ ops' = ops /\ UNCHANGED <<rq, mainq, net, bterm, ghost>>
          /\ a \in BOOLEAN
      BY <1>3 DEF PersistDel
    <2> HIDE DEF a
    <2> QED BY <1>1, <2>1, CoordKeeps
  <1> QED BY <1>2, <1>3

(* Metadata, and the end: an op is sent.                                   *)
LEMMA UpdateKeeps ==
    ASSUME Inv, NEW k \in {"NODE_NAME", "NODE_ID"}, Update(k)
    PROVE  Inv'
  <1> DEFINE x == [op |-> k]
             E == {}
  <1>1. Base(W, ops, E) /\ Leads(W) /\ W.b = b /\ W.rq = rq /\ W.mainq = mainq /\ W.net = net /\ W.ghost = ghost
    BY InvIs
  <1>2. ops' = Append(ops, x) /\ UNCHANGED <<b, rq, mainq, net, bterm, ghost>>
    BY DEF Update
  <1>3. x \in OpSet /\ x.op \notin Xmit
    BY PlainOp
  <1> HIDE DEF x, E
  <1>4. Base(W, Append(ops, x), E)
    BY <1>1, <1>3, OpAdded
  <1>5. Becomes(W)
    BY <1>1, <1>2 DEF Becomes
  <1> QED BY <1>1, <1>2, <1>4, <1>5, StepTo DEF E

(* The client terminates.                                                  *)
LEMMA DestroyingKeeps ==
    ASSUME Inv, Destroying
    PROVE  Inv'
  <1> DEFINE x == [op |-> "TERMINATE"]
             E == {}
  <1>1. Base(W, ops, E)
    BY InvIs
  <1>2. UNCHANGED <<b, rq, mainq, net, ghost>>
    BY DEF Destroying
  <1>3. /\ bterm' \in {"flag", "op"}
        /\ ops' = ops \/ ops' = Append(ops, x)
    BY DEF Destroying
  <1>4. x \in OpSet /\ x.op \notin Xmit
    BY PlainOp
  <1> HIDE DEF x, E
  <1>5. Base(W, ops', E)
    BY <1>1, <1>3, <1>4, OpAdded
  <1>6. W' = W
    BY <1>2 DEF W
  <1>7. Leads(W)'
    BY <1>3 DEF Leads
  <1> QED BY <1>3, <1>5, <1>6, <1>7 DEF Inv, E

(* Nothing happens.                                                        *)
LEMMA Stutters ==
    ASSUME Inv, UNCHANGED bvars
    PROVE  Inv'
  <1>1. W' = W /\ ops' = ops /\ bterm' = bterm
    BY DEF bvars, W
  <1>2. Leads(W)'
    BY <1>1 DEF Inv, Leads, Whole, Asking
  <1> QED BY <1>1, <1>2 DEF Inv

(* Every step keeps the invariant.                                         *)
LEMMA NextKeeps ==
    ASSUME Inv, [ConnNext]_bvars
    PROVE  Inv'
  <1>1. ASSUME SetupTimeout \/ Disconnect PROVE Inv'
    BY <1>1, FailsKeeps DEF SetupTimeout, Disconnect
  <1>2. ASSUME Over PROVE Inv'
    BY <1>2, Stutters DEF Over
  <1>3. ASSUME \E r \in Reqs : Issue(r) PROVE Inv'
    BY <1>3, IssueKeeps
  <1>4. ASSUME Update("NODE_NAME") \/ Update("NODE_ID") PROVE Inv'
    BY <1>4, UpdateKeeps
  <1> QED BY <1>1, <1>2, <1>3, <1>4, RedoKeeps, ConnectKeeps, ConnectedKeeps, SendKeeps, RecvKeeps,
             TimeoutScanKeeps, RetryMoveKeeps, OpServeKeeps, TermPurgeKeeps, ThreadEndsKeeps,
             MainServeKeeps, PersistKeeps, DestroyingKeeps, Stutters DEF ConnNext

(* The invariant holds at first: nothing is anywhere.                      *)
LEMMA InitKeeps ==
    ASSUME ConnInit
    PROVE  Inv
  <1> DEFINE e == <<>>
             z == 0
             i == 1
             f == FALSE
             t == TRUE
             s == "INIT"
             x == {}
             g == [ended |-> [r \in Reqs |-> z], got |-> [r \in All |-> z], issued |-> x, wire |-> None,
                   mixed |-> f, av |-> f, early |-> f, bad |-> f, thread |-> "runs"]
  <1>1. PICK c \in Configs :
          b = [cf |-> c, st |-> s, trans |-> f, out |-> e, wait |-> e, retry |-> e, conn |-> z,
               corr |-> z, infl |-> i, blk |-> z, apiv |-> t, coord |-> f, nodename |-> i, epoch |-> z]
    BY DEF ConnInit
  <1>2. /\ rq = [r \in All |-> Fresh] /\ ops = e /\ mainq = e /\ net = e /\ bterm = "no" /\ ghost = g
    BY DEF ConnInit
  <1>3. /\ e \in Seq(All) /\ e \in Seq(Reqs) /\ e \in Seq(Answers) /\ e \in Seq(Received)
        /\ e \in Seq(OpSet) /\ ToSet(e) = {} /\ Distinct(e) /\ Len(e) = 0
    BY NoElems
  <1>4. z \in Nat /\ z \in Int /\ i \in Nat /\ f \in BOOLEAN /\ t \in BOOLEAN /\ s \in States /\ x \in SUBSET Reqs
        /\ "runs" \in {"runs", "ended"} /\ None \in All \cup {None}
    BY DEF States
  <1>5. Fresh \in Buf
    BY FreshIs
  <1>6. /\ Asked(e) = {} /\ AskedOnce(e) /\ Carry(e) = {} /\ Carried(e) = {} /\ CarriedOnce(e)
    BY <1>3 DEF Asked, AskedOnce, Carry, Carried, CarriedOnce
  <1> HIDE DEF e, z, i, f, t, s, x
  <1>7. /\ b \in Broker /\ b.st = s /\ b.trans = f /\ b.out = e /\ b.wait = e /\ b.retry = e
        /\ b.corr = z /\ b.blk = z
    BY <1>1, <1>3, <1>4 DEF Broker
  <1>8. /\ g \in Ghost /\ g.ended = [r \in Reqs |-> z] /\ g.got = [r \in All |-> z] /\ g.issued = x
        /\ g.wire = None /\ g.mixed = f /\ g.early = f /\ g.bad = f
    BY <1>4 DEF Ghost
  <1>9. rq \in [All -> Buf] /\ \A r \in All : rq[r] = Fresh
    BY <1>2, <1>5
  <1> HIDE DEF g
  <1>10. /\ W \in Work /\ W.b = b /\ W.rq = rq /\ W.mainq = e /\ W.net = e /\ W.ghost = g
    BY <1>2, <1>3, <1>7, <1>8, <1>9 DEF W, Work
  <1>11. Kept(W, ops, {})
    <2>1. ASSUME NEW r \in Reqs PROVE Spread(W, ops, {}, r) = Num(r \in W.ghost.issued)
      <3>1. /\ Num(r \in ToSet(W.b.out)) = 0 /\ Num(r \in ToSet(W.b.wait)) = 0
            /\ Num(r \in ToSet(W.b.retry)) = 0 /\ Num(r \in Carried(ops)) = 0
            /\ Num(r \in Asked(W.mainq)) = 0 /\ Num(r \in {}) = 0 /\ Num(r \in W.ghost.issued) = 0
        BY <1>2, <1>3, <1>6, <1>7, <1>8, <1>10 DEF Num, x
      <3>2. W.ghost.ended[r] = 0
        BY <1>8, <1>10 DEF z
      <3> QED BY <3>1, <3>2 DEF Spread
    <2>2. Num(AV \in ToSet(W.b.out)) + Num(AV \in ToSet(W.b.wait)) + Num(AV \in {}) <= 1
      BY <1>3, <1>7, <1>10 DEF Num
    <2> QED BY <1>2, <1>3, <1>6, <1>7, <1>10, <2>1, <2>2 DEF Kept
  <1>12. Linked(W)
    BY <1>3, <1>7, <1>10 DEF Linked, f, s
  <1>13. Numbers(W)
    <2>1. \A r \in All : W.rq[r].corr <= W.b.corr
      BY <1>7, <1>9, <1>10, FreshIs DEF z
    <2>2. 1..Len(W.net) = {} /\ ToSet(W.b.out) = {} /\ ToSet(W.b.wait) = {}
      BY <1>3, <1>7, <1>10
    <2> QED BY <2>1, <2>2 DEF Numbers
  <1>14. Counted(W, ops)
    <2>1. ToSet(W.b.out) = {} /\ ToSet(W.b.wait) = {} /\ ToSet(W.b.retry) = {} /\ Carry(ops) = {}
      BY <1>2, <1>3, <1>6, <1>7, <1>10
    <2>2. W.b.blk = Cardinality(ToSet(W.b.wait) \cap Blocking)
      <3>1. ToSet(W.b.wait) \cap Blocking = {}
        BY <2>1
      <3> QED BY <1>7, <1>10, <3>1, FS_EmptySet DEF z
    <2>3. ASSUME NEW r \in Reqs PROVE Unused(W, r)
      <3>1. r \in All
        BY DEF All
      <3> QED BY <1>8, <1>9, <1>10, <3>1 DEF Unused, z
    <2>4. ASSUME NEW r \in Reqs PROVE W.ghost.got[r] <= W.rq[r].tries + Num(W.rq[r].sent)
      <3>1. W.rq[r] = Fresh /\ W.ghost.got[r] = 0
        BY <2>3 DEF Unused
      <3>2. Fresh.tries = 0 /\ Num(Fresh.sent) = 0
        BY DEF Fresh, Num
      <3> QED BY <3>1, <3>2
    <2> QED BY <2>1, <2>2, <2>3, <2>4 DEF Counted
  <1>15. Leads(W)
    BY <1>7, <1>8, <1>10 DEF Leads, Whole, Asking, f, s
  <1>16. ~W.ghost.bad
    BY <1>8, <1>10 DEF f
  <1>17. ops \in Seq(OpSet)
    BY <1>2, <1>3
  <1>18. Base(W, ops, {})
    BY <1>10, <1>11, <1>12, <1>13, <1>14, <1>16, <1>17 DEF Base
  <1> QED BY <1>2, <1>15, <1>18 DEF Inv

(* How often something occurs that occurs at most once.                    *)
LEMMA OnceIs ==
    ASSUME NEW T, \A i, j \in T : i = j
    PROVE  Cardinality(T) = Num(T # {})
  <1>1. CASE T = {}
    BY <1>1, FS_EmptySet DEF Num
  <1>2. CASE T # {}
    <2>1. PICK i \in T : TRUE
      BY <1>2
    <2>2. T = {i}
      BY <2>1
    <2> QED BY <1>2, <2>2, FS_Singleton DEF Num
  <1> QED BY <1>1, <1>2

(* How often a request is in a queue.                                      *)
LEMMA TimesIs ==
    ASSUME NEW q \in Seq(All), Distinct(q), NEW r
    PROVE  Times(q, r) = Num(r \in ToSet(q))
  <1> DEFINE T == {i \in 1..Len(q) : q[i] = r}
  <1>1. \A i, j \in T : i = j
    BY DEF Distinct
  <1>2. T # {} <=> r \in ToSet(q)
    <2>1. ToSet(q) = {q[i] : i \in 1..Len(q)}
      BY ElemsIs
    <2> QED BY <2>1
  <1>3. Times(q, r) = Cardinality(T)
    BY DEF Times
  <1> HIDE DEF T
  <1>4. Cardinality(T) = Num(T # {})
    BY <1>1, OnceIs
  <1> QED BY <1>2, <1>3, <1>4 DEF Num

(* How many of the elements of a sequence are in a set.                    *)
LEMMA CountIs ==
    ASSUME NEW q \in Seq(All), Distinct(q), NEW S
    PROVE  Cardinality({i \in 1..Len(q) : q[i] \in S}) = Cardinality(ToSet(q) \cap S)
  <1> DEFINE T == {i \in 1..Len(q) : q[i] \in S}
             U == ToSet(q) \cap S
             f == [i \in T |-> q[i]]
  <1>1. Len(q) \in Nat /\ ToSet(q) = {q[i] : i \in 1..Len(q)}
    BY ElemsIs
  <1>2. IsFiniteSet(1..Len(q))
    <2>1. 1 \in Int /\ Len(q) \in Int
      BY <1>1
    <2> QED BY <2>1, FS_Interval
  <1>3. IsFiniteSet(T)
    BY <1>2, FS_Subset
  <1>4. f \in [T -> U] /\ (\A i, j \in T : f[i] = f[j] => i = j) /\ \A y \in U : \E i \in T : f[i] = y
    BY <1>1 DEF Distinct
  <1> HIDE DEF f, T, U
  <1>5. f \in Bijection(T, U)
    BY <1>4 DEF Bijection, Injection, Surjection, IsInjective
  <1>6. ExistsBijection(T, U)
    BY <1>5 DEF ExistsBijection
  <1>7. Cardinality(U) = Cardinality(T)
    BY <1>3, <1>6, FS_Bijection
  <1> QED BY <1>7 DEF T, U

(* The invariant implies what the runs check.                              *)
LEMMA InvKept ==
    ASSUME Inv
    PROVE  RequestsKept
  <1>1. /\ Base(W, ops, {}) /\ W \in Work
        /\ W.b = b /\ W.rq = rq /\ W.mainq = mainq /\ W.ghost = ghost
    BY InvIs
  <1>2. Kept(W, ops, {}) /\ Counted(W, ops) /\ ~ghost.bad /\ ops \in Seq(OpSet)
    BY <1>1 DEF Base
  <1>3. /\ b.out \in Seq(All) /\ b.wait \in Seq(All) /\ b.retry \in Seq(All) /\ mainq \in Seq(Answers)
        /\ ghost.ended \in [Reqs -> Nat] /\ ghost.got \in [All -> Nat] /\ rq \in [All -> Buf]
    <2>1. Reqs \subseteq All
      BY DEF All
    <2>2. b.retry \in Seq(Reqs)
      BY <1>1, Typed
    <2>3. b.retry \in Seq(All)
      BY <2>1, <2>2
    <2> QED BY <1>1, <2>3, Typed
  <1>4. Distinct(b.out) /\ Distinct(b.wait) /\ Distinct(b.retry) /\ AskedOnce(mainq) /\ CarriedOnce(ops)
    BY <1>1, <1>2 DEF Kept
  <1>5. AssertsHold
    <2>1. b.blk = Cardinality(ToSet(b.wait) \cap Blocking)
      BY <1>1, <1>2 DEF Counted
    <2>2. Cardinality({i \in 1..Len(b.wait) : b.wait[i] \in Blocking}) = Cardinality(ToSet(b.wait) \cap Blocking)
      BY <1>3, <1>4, CountIs
    <2> QED BY <1>2, <2>1, <2>2 DEF AssertsHold
  <1>6. ASSUME NEW r \in Reqs PROVE Places(r) = IF r \in ghost.issued THEN 1 ELSE 0
    <2>1. /\ Times(b.out, r) = Num(r \in ToSet(b.out)) /\ Times(b.wait, r) = Num(r \in ToSet(b.wait))
          /\ Times(b.retry, r) = Num(r \in ToSet(b.retry))
      BY <1>3, <1>4, TimesIs
    <2> DEFINE T == {i \in Carriers : ops[i].r = r}
               U == {i \in 1..Len(mainq) : mainq[i].r = r}
    <2>2. Carriers = Carry(ops)
      BY DEF Carriers, Carry, Xmit
    <2>3. Cardinality(T) = Num(r \in Carried(ops))
      <3>1. \A i, j \in T : i = j
        BY <1>4, <2>2 DEF CarriedOnce
      <3>2. T # {} <=> r \in Carried(ops)
        BY <2>2 DEF Carried
      <3> HIDE DEF T
      <3>3. Cardinality(T) = Num(T # {})
        BY <3>1, OnceIs
      <3> QED BY <3>2, <3>3 DEF Num
    <2>4. Cardinality(U) = Num(r \in Asked(mainq))
      <3>1. \A i, j \in U : i = j
        BY <1>4 DEF AskedOnce
      <3>2. U # {} <=> r \in Asked(mainq)
        BY DEF Asked
      <3> HIDE DEF U
      <3>3. Cardinality(U) = Num(U # {})
        BY <3>1, OnceIs
      <3> QED BY <3>2, <3>3 DEF Num
    <2>5. Places(r) = Times(b.out, r) + Times(b.wait, r) + Times(b.retry, r) + Cardinality(T)
                      + Cardinality(U) + ghost.ended[r]
      BY DEF Places
    <2> HIDE DEF T, U
    <2>6. /\ Num(r \in ToSet(b.out)) \in Nat /\ Num(r \in ToSet(b.wait)) \in Nat
          /\ Num(r \in ToSet(b.retry)) \in Nat /\ Num(r \in Carried(ops)) \in Nat
          /\ Num(r \in Asked(mainq)) \in Nat /\ Num(r \in {}) = 0 /\ ghost.ended[r] \in Nat
      BY <1>3 DEF Num
    <2>7. Spread(W, ops, {}, r) = Num(r \in ghost.issued)
      BY <1>1, <1>2 DEF Kept
    <2>8. Spread(W, ops, {}, r) = Num(r \in ToSet(b.out)) + Num(r \in ToSet(b.wait)) + Num(r \in ToSet(b.retry))
            + Num(r \in Carried(ops)) + Num(r \in Asked(mainq)) + Num(r \in {}) + ghost.ended[r]
      BY <1>1 DEF Spread
    <2>9. Places(r) = Num(r \in ghost.issued)
      BY <2>1, <2>3, <2>4, <2>5, <2>6, <2>7, <2>8
    <2> QED BY <2>9 DEF Num
  <1>7. ASSUME NEW r \in Reqs PROVE ghost.got[r] <= 1 + MaxRetries
    <2>1. r \in All /\ MaxRetries \in Nat
      BY BrokerAssumption DEF All
    <2>2. rq[r].tries \in 0..MaxRetries /\ ghost.got[r] \in Nat
      BY <1>3, <2>1 DEF Buf
    <2>3. ghost.got[r] <= rq[r].tries + Num(rq[r].sent)
      BY <1>1, <1>2 DEF Counted
    <2>4. Num(rq[r].sent) \in {0, 1}
      BY DEF Num
    <2> QED BY <2>1, <2>2, <2>3, <2>4
  <1> QED BY <1>5, <1>6, <1>7 DEF RequestsKept, OnePlace, BoundedSends

(* No request is ever lost, handled twice, in two places or sent more      *)
(* often than its retries allow, and no assertion of the broker thread     *)
(* fails, however timeouts, disconnects, retries and the end of the client *)
(* follow each other (rd_kafka_broker_fail(),                              *)
(* rd_kafka_broker_bufq_timeout_scan(), rd_kafka_buf_callback()).          *)
THEOREM RequestsSafe == ConnSpec => []RequestsKept
  <1>1. ConnInit => Inv
    BY InitKeeps
  <1>2. Inv /\ [ConnNext]_bvars => Inv'
    BY NextKeeps
  <1>3. Inv => RequestsKept
    BY InvKept
  <1> QED BY <1>1, <1>2, <1>3, PTL DEF ConnSpec

(* Until the client terminates, what goes out on a connection is whole     *)
(* requests, one after the other, and none but the question for the        *)
(* versions before that is answered (rd_kafka_send(),                      *)
(* rd_kafka_broker_buf_enq0(), rd_kafka_broker_connect_done()).            *)
THEOREM StreamWhole == ConnSpec => []StreamSound
  <1>1. ConnInit => Inv
    BY InitKeeps
  <1>2. Inv /\ [ConnNext]_bvars => Inv'
    BY NextKeeps
  <1>3. Inv => StreamSound
    <2>1. ASSUME Inv PROVE StreamSound
      BY <2>1 DEF Inv, Leads, Whole, Asking, W, StreamSound, FramesWhole, VersionsFirst
    <2> QED BY <2>1
  <1> QED BY <1>1, <1>2, <1>3, PTL DEF ConnSpec
=============================================================================
