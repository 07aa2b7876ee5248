--------------------------- MODULE OpQueueProofs ----------------------------
(***************************************************************************)
(* Proofs about OpQueue: that QueuesSound holds for any number of ops and  *)
(* of calls of the controller, and for any choice of ops with a priority.  *)
(***************************************************************************)
EXTENDS OpQueue, SequenceTheorems, FiniteSetTheorems, WellFoundedInduction, TLAPS

(* The types.                                                              *)
Polled == {Src, Dst}
QueueState == [ops : Seq(Ops), ready : BOOLEAN, ref : Int, fwd : {Null, Dst},
               yield : BOOLEAN, io : BOOLEAN, sent : BOOLEAN, fd : BOOLEAN]
State == [q : [Queues -> QueueState], sig : SUBSET Queues, gone : Seq(Ops)]
TypeOK ==
    /\ s \in State
    /\ prod \in [op : 0..Request, at : Polled \cup {Null}, held : BOOLEAN]
    /\ cons \in [pc : {"idle", "look", "wait", "retry", "handle"},
                 mode : {"pop", "serve"}, poll : Polled,
                 at : Polled \cup {Null}, held : BOOLEAN,
                 local : Seq(Ops), more : BOOLEAN]
    /\ req \in {"idle", "wait", "answered", "timedout"}
    /\ ctl \in [n : Nat, dead : BOOLEAN]
    /\ done \in Seq(Ops) /\ mixed \in BOOLEAN

(* Who is where: only Src is forwarded, and is empty then; it is enabled   *)
(* until the controller destroys it, and empty after that; Dst stays.      *)
Shape(m) ==
    /\ m.q[Dst].fwd = Null /\ m.q[Recv].fwd = Null
    /\ m.q[Dst].ready /\ (m.q[Src].ready <=> ~ctl.dead)
    /\ m.q[Recv].ready <=> req \in {"idle", "wait"}
    /\ ~m.q[Recv].io /\ ~m.q[Recv].sent
    /\ m.q[Src].fwd # Null \/ ctl.dead => m.q[Src].ops = <<>>
    /\ \A i \in 1..Len(m.q[Recv].ops) : m.q[Recv].ops[i] = Request
Threads ==
    /\ prod.at # Null => prod.op \in 1..OpCount /\ (prod.held <=> prod.at = Dst)
    /\ cons.pc = "idle" <=> cons.at = Null
    /\ cons.pc = "handle" <=> cons.local # <<>>
    /\ cons.pc = "handle" /\ cons.mode = "pop" => Len(cons.local) = 1
    /\ cons.at # Null => (cons.held <=> cons.at # cons.poll)
    /\ cons.poll = Dst => cons.at # Src
    /\ cons.poll = Src => ~ctl.dead

(* The request that still has to be answered is in one place at most.      *)
Unanswered == Times(s.q[Src].ops, Request) + Times(s.q[Dst].ops, Request)
              + Times(cons.local, Request)
OneRequest == /\ Unanswered \in {0, 1}
              /\ req = "idle" => Unanswered = 0
Refs ==
    /\ s.q[Src].ref = (IF ctl.dead THEN 0 ELSE 1)
                      + (IF prod.op > OpCount THEN 0 ELSE 1)
    /\ s.q[Dst].ref = 1 + (IF s.q[Src].fwd = Dst THEN 1 ELSE 0)
                      + (IF prod.at = Dst THEN 1 ELSE 0)
                      + (IF cons.held /\ cons.at = Dst THEN 1 ELSE 0)
    /\ s.q[Recv].ref = (IF req \in {"idle", "wait"} THEN 1 ELSE 0) + Unanswered

(* An op is in as many places as it should be.                             *)
Places(o) == Times(s.q[Src].ops, o) + Times(s.q[Dst].ops, o)
             + Times(cons.local, o) + Times(s.gone, o) + Times(done, o)
Passed(o) == o < prod.op \/ (o = prod.op /\ prod.at = Null)
Kept == \A o \in 1..OpCount : Places(o) = IF Passed(o) THEN 1 ELSE 0

(* An empty queue has a wakeup sent for a yield only. The consumer counts  *)
(* on the descriptor while it is idle, and also while it is at the queue   *)
(* that its own one is forwarded to.                                       *)
Watches == (cons.pc = "idle" /\ ~cons.more) \/ cons.at \notin {Null, cons.poll}
Wakes ==
    /\ \A x \in Polled : s.q[x].sent /\ s.q[x].ops = <<>> => s.q[x].yield
    /\ s.q[cons.poll].io => cons.pc # "wait"
    /\ Watches /\ s.q[cons.poll].io /\ s.q[cons.poll].ops # <<>>
         => s.q[cons.poll].fd \/ (s.q[cons.poll].sent /\ s.q[cons.poll].yield)
    /\ cons.pc = "wait" /\ (s.q[cons.at].ops # <<>> \/ s.q[cons.at].yield)
         => cons.at \in s.sig

(* The ops without a priority, in the order in which they will be handled. *)
Plains == {o \in 1..OpCount : Low(o)}
Plain(ops) == {o \in Plains : \E i \in 1..Len(ops) : ops[i] = o}
Rising(ops) == \A i, j \in 1..Len(ops) :
                 i < j /\ ops[i] \in Plains /\ ops[j] \in Plains => ops[i] < ops[j]
Below(S, T) == \A x \in S, y \in T : x < y
Ordered ==
    ~mixed =>
      /\ Rising(done) /\ Rising(cons.local) /\ Rising(s.q[Src].ops) /\ Rising(s.q[Dst].ops)
      /\ Below(Plain(done), Plain(cons.local))
      /\ \A x \in Polled : /\ Below(Plain(done), Plain(s.q[x].ops))
                           /\ Below(Plain(cons.local), Plain(s.q[x].ops))
      /\ ~ctl.dead /\ s.q[Src].fwd = Null => Plain(s.q[Dst].ops) = {}
      /\ ~ctl.dead /\ s.q[Src].fwd = Null /\ cons.at = Dst => Plain(cons.local) = {}
      /\ prod.at = Dst => s.q[Src].fwd = Dst
      /\ \A o \in 1..OpCount :
           o \in Plain(done) \cup Plain(cons.local) \cup Plain(s.q[Src].ops)
                   \cup Plain(s.q[Dst].ops)
             => Passed(o)

Inv == /\ TypeOK /\ Shape(s) /\ Threads /\ OneRequest /\ Refs /\ Kept /\ Wakes
       /\ Ordered

(* Whether p is the op o, as a number.                                     *)
Hit(p, o) == IF p = o THEN 1 ELSE 0

-----------------------------------------------------------------------------
(* Sequences. All that is said of a sequence of ops below is how often an  *)
(* op is in it, which plain ops it has, and whether these rise.            *)

(* The elements of a concatenation.                                        *)
LEMMA ConcatIs ==
    ASSUME NEW a \in Seq(Ops), NEW b \in Seq(Ops)
    PROVE  /\ a \o b \in Seq(Ops) /\ Len(a \o b) = Len(a) + Len(b)
           /\ Len(a) \in Nat /\ Len(b) \in Nat
           /\ \A i \in 1..Len(a) : (a \o b)[i] = a[i]
           /\ \A i \in 1..Len(b) : (a \o b)[Len(a) + i] = b[i]
  OBVIOUS

(* An index of a concatenation is one of its first or its second part.     *)
LEMMA ConcatAt ==
    ASSUME NEW a \in Seq(Ops), NEW b \in Seq(Ops), NEW i \in 1..Len(a \o b)
    PROVE  \/ i \in 1..Len(a) /\ (a \o b)[i] = a[i]
           \/ \E j \in 1..Len(b) : i = Len(a) + j /\ (a \o b)[i] = b[j]
  <1>1. /\ Len(a \o b) = Len(a) + Len(b) /\ Len(a) \in Nat /\ Len(b) \in Nat
        /\ \A k \in 1..Len(a) : (a \o b)[k] = a[k]
        /\ \A k \in 1..Len(b) : (a \o b)[Len(a) + k] = b[k]
    BY ConcatIs
  <1>2. CASE i <= Len(a)
    BY <1>1, <1>2
  <1>3. CASE ~(i <= Len(a))
    <2>1. i - Len(a) \in 1..Len(b) /\ i = Len(a) + (i - Len(a))
      BY <1>1, <1>3
    <2> QED BY <1>1, <2>1
  <1> QED BY <1>2, <1>3

LEMMA HitIs ==
    ASSUME NEW p, NEW o
    PROVE  Hit(p, o) \in Nat /\ (p = o => Hit(p, o) = 1) /\ (p # o => Hit(p, o) = 0)
  BY DEF Hit

(* The places of an op.                                                    *)
LEMMA TimesIs ==
    ASSUME NEW a \in Seq(Ops), NEW o
    PROVE  /\ IsFiniteSet({i \in 1..Len(a) : a[i] = o})
           /\ Times(a, o) \in Nat
           /\ Times(a, o) = 0 <=> \A i \in 1..Len(a) : a[i] # o
  <1> DEFINE I == {i \in 1..Len(a) : a[i] = o}
  <1>0. Len(a) \in Nat
    OBVIOUS
  <1>1. IsFiniteSet(1..Len(a)) /\ I \subseteq 1..Len(a)
    BY <1>0, FS_Interval
  <1>2. IsFiniteSet(I)
    BY <1>1, FS_Subset
  <1>3. Cardinality(I) \in Nat /\ (Cardinality(I) = 0 <=> I = {})
    BY <1>2, FS_CardinalityType, FS_EmptySet
  <1>4. I = {} <=> \A i \in 1..Len(a) : a[i] # o
    OBVIOUS
  <1> QED BY <1>2, <1>3, <1>4 DEF Times

(* In a concatenation the places add up.                                   *)
LEMMA TimesConcat ==
    ASSUME NEW a \in Seq(Ops), NEW b \in Seq(Ops), NEW o
    PROVE  Times(a \o b, o) = Times(a, o) + Times(b, o)
  <1> DEFINE I == {i \in 1..Len(a) : a[i] = o}
             J == {j \in 1..Len(b) : b[j] = o}
             K == {k \in 1..Len(a \o b) : (a \o b)[k] = o}
             L == {k \in K : k > Len(a)}
             f == [j \in J |-> Len(a) + j]
  <1>1. /\ Len(a \o b) = Len(a) + Len(b) /\ Len(a) \in Nat /\ Len(b) \in Nat
        /\ \A k \in 1..Len(a) : (a \o b)[k] = a[k]
        /\ \A k \in 1..Len(b) : (a \o b)[Len(a) + k] = b[k]
    BY ConcatIs
  <1>2. IsFiniteSet(I) /\ IsFiniteSet(J)
    BY TimesIs
  <1>3. f \in Bijection(J, L)
    <2>1. f \in [J -> L]
      BY <1>1
    <2>2. \A i, j \in J : f[i] = f[j] => i = j
      BY <1>1
    <2>3. ASSUME NEW k \in L PROVE \E j \in J : f[j] = k
      <3>1. k - Len(a) \in 1..Len(b) /\ k = Len(a) + (k - Len(a))
        BY <1>1
      <3>2. k - Len(a) \in J
        BY <1>1, <3>1
      <3> QED BY <3>1, <3>2
    <2> QED BY <2>1, <2>2, <2>3 DEF Bijection, Injection, Surjection, IsInjective
  <1>4. IsFiniteSet(L) /\ Cardinality(L) = Cardinality(J)
    BY <1>2, <1>3, FS_Bijection DEF ExistsBijection
  <1>5. I \cup L = K /\ I \cap L = {}
    BY <1>1
  <1>6. Cardinality(K) = Cardinality(I) + Cardinality(L) - Cardinality(I \cap L)
    BY <1>2, <1>4, <1>5, FS_Union
  <1>7. Cardinality(I \cap L) = 0
    BY <1>5, FS_EmptySet
  <1>8. Cardinality(I) \in Nat /\ Cardinality(J) \in Nat
    BY <1>2, FS_CardinalityType
  <1> HIDE DEF I, J, K, L
  <1>9. Cardinality(K) = Cardinality(I) + Cardinality(J)
    BY <1>4, <1>6, <1>7, <1>8
  <1> QED BY <1>9 DEF Times, I, J, K

(* Its plain ops are those of the parts.                                   *)
LEMMA PlainConcat ==
    ASSUME NEW a \in Seq(Ops), NEW b \in Seq(Ops)
    PROVE  Plain(a \o b) = Plain(a) \cup Plain(b)
  <1>1. ASSUME NEW x \in Plain(a \o b) PROVE x \in Plain(a) \cup Plain(b)
    <2>1. PICK i \in 1..Len(a \o b) : (a \o b)[i] = x
      BY <1>1 DEF Plain
    <2>2. CASE i \in 1..Len(a) /\ (a \o b)[i] = a[i]
      BY <2>1, <2>2 DEF Plain
    <2>3. CASE \E j \in 1..Len(b) : i = Len(a) + j /\ (a \o b)[i] = b[j]
      BY <2>1, <2>3 DEF Plain
    <2> QED BY <2>2, <2>3, ConcatAt
  <1>2. ASSUME NEW x \in Plain(a) PROVE x \in Plain(a \o b)
    <2>1. PICK i \in 1..Len(a) : a[i] = x
      BY <1>2 DEF Plain
    <2>2. i \in 1..Len(a \o b) /\ (a \o b)[i] = a[i]
      BY ConcatIs
    <2> QED BY <2>1, <2>2 DEF Plain
  <1>3. ASSUME NEW x \in Plain(b) PROVE x \in Plain(a \o b)
    <2>1. PICK i \in 1..Len(b) : b[i] = x
      BY <1>3 DEF Plain
    <2>2. Len(a) + i \in 1..Len(a \o b) /\ (a \o b)[Len(a) + i] = b[i]
      BY ConcatIs
    <2> QED BY <2>1, <2>2 DEF Plain
  <1> QED BY <1>1, <1>2, <1>3

(* It rises when both parts do and the first is below the second.          *)
LEMMA RisingConcat ==
    ASSUME NEW a \in Seq(Ops), NEW b \in Seq(Ops)
    PROVE  Rising(a \o b) <=> Rising(a) /\ Rising(b) /\ Below(Plain(a), Plain(b))
  <1> DEFINE c == a \o b
  <1>1. /\ Len(c) = Len(a) + Len(b) /\ Len(a) \in Nat /\ Len(b) \in Nat
        /\ \A k \in 1..Len(a) : c[k] = a[k]
        /\ \A k \in 1..Len(b) : c[Len(a) + k] = b[k]
    BY ConcatIs
  <1>2. \A i \in 1..Len(c) : i \in 1..Len(a) \/ \E j \in 1..Len(b) : i = Len(a) + j
    BY ConcatAt
  <1> HIDE DEF c
  <1>3. ASSUME Rising(c) PROVE Rising(a) /\ Rising(b) /\ Below(Plain(a), Plain(b))
    <2>1. Rising(a)
      BY <1>1, <1>3 DEF Rising
    <2>2. ASSUME NEW i \in 1..Len(b), NEW j \in 1..Len(b), i < j,
                 b[i] \in Plains, b[j] \in Plains
          PROVE  b[i] < b[j]
      <3>1. Len(a) + i \in 1..Len(c) /\ Len(a) + j \in 1..Len(c) /\ Len(a) + i < Len(a) + j
        BY <1>1, <2>2
      <3> QED BY <1>1, <1>3, <2>2, <3>1 DEF Rising
    <2>3. ASSUME NEW x \in Plain(a), NEW y \in Plain(b) PROVE x < y
      <3>1. PICK i \in 1..Len(a) : a[i] = x
        BY <2>3 DEF Plain
      <3>2. PICK j \in 1..Len(b) : b[j] = y
        BY <2>3 DEF Plain
      <3>3. i \in 1..Len(c) /\ Len(a) + j \in 1..Len(c) /\ i < Len(a) + j
        BY <1>1, <3>1, <3>2
      <3>4. x \in Plains /\ y \in Plains
        BY DEF Plain
      <3> QED BY <1>1, <1>3, <3>1, <3>2, <3>3, <3>4 DEF Rising
    <2> QED BY <2>1, <2>2, <2>3 DEF Rising, Below
  <1>4. ASSUME Rising(a), Rising(b), Below(Plain(a), Plain(b)) PROVE Rising(c)
    <2> SUFFICES ASSUME NEW i \in 1..Len(c), NEW j \in 1..Len(c), i < j,
                        c[i] \in Plains, c[j] \in Plains
                 PROVE  c[i] < c[j]
      BY DEF Rising
    <2>1. CASE i \in 1..Len(a) /\ j \in 1..Len(a)
      BY <1>1, <1>4, <2>1 DEF Rising
    <2>2. CASE i \in 1..Len(a) /\ \E k \in 1..Len(b) : j = Len(a) + k
      <3>1. PICK k \in 1..Len(b) : j = Len(a) + k
        BY <2>2
      <3>2. c[i] = a[i] /\ c[j] = b[k]
        BY <1>1, <2>2, <3>1
      <3>3. c[i] \in Plain(a) /\ c[j] \in Plain(b)
        BY <2>2, <3>1, <3>2 DEF Plain
      <3> QED BY <1>4, <3>3 DEF Below
    <2>3. CASE \E k \in 1..Len(b) : i = Len(a) + k
      <3>1. PICK k \in 1..Len(b) : i = Len(a) + k
        BY <2>3
      <3>2. ~(j \in 1..Len(a))
        BY <1>1, <3>1
      <3>3. PICK l \in 1..Len(b) : j = Len(a) + l
        BY <1>2, <3>2
      <3>4. k < l /\ c[i] = b[k] /\ c[j] = b[l]
        BY <1>1, <3>1, <3>3
      <3> QED BY <1>4, <3>4 DEF Rising
    <2> QED BY <1>2, <2>1, <2>2, <2>3
  <1> QED BY <1>3, <1>4 DEF c

(* A sequence is its two parts, and a head and a tail.                     *)
LEMMA SplitIs ==
    ASSUME NEW a \in Seq(Ops), NEW n \in 0..Len(a)
    PROVE  /\ SubSeq(a, 1, n) \in Seq(Ops) /\ SubSeq(a, n + 1, Len(a)) \in Seq(Ops)
           /\ Len(SubSeq(a, 1, n)) = n /\ Len(SubSeq(a, n + 1, Len(a))) = Len(a) - n
           /\ \A i \in 1..n : SubSeq(a, 1, n)[i] = a[i]
           /\ a = SubSeq(a, 1, n) \o SubSeq(a, n + 1, Len(a))
  <1> DEFINE b == SubSeq(a, 1, n)
             c == SubSeq(a, n + 1, Len(a))
  <1>0. Len(a) \in Nat
    OBVIOUS
  <1>1. b \in Seq(Ops) /\ Len(b) = n /\ \A i \in 1..n : b[i] = a[i]
    BY <1>0
  <1>2. c \in Seq(Ops) /\ Len(c) = Len(a) - n /\ \A i \in 1..(Len(a) - n) : c[i] = a[n + i]
    BY <1>0
  <1> HIDE DEF b, c
  <1>3. /\ b \o c \in Seq(Ops) /\ Len(b \o c) = Len(a)
        /\ \A i \in 1..n : (b \o c)[i] = a[i]
        /\ \A i \in 1..(Len(a) - n) : (b \o c)[n + i] = a[n + i]
    BY <1>0, <1>1, <1>2, ConcatIs
  <1>4. ASSUME NEW i \in 1..Len(a) PROVE (b \o c)[i] = a[i]
    <2>1. CASE i <= n
      BY <1>0, <1>3, <2>1
    <2>2. CASE ~(i <= n)
      <3>1. i - n \in 1..(Len(a) - n) /\ n + (i - n) = i
        BY <1>0, <2>2
      <3> QED BY <1>3, <3>1
    <2> QED BY <2>1, <2>2
  <1>5. a = b \o c
    <2> DEFINE d == b \o c
    <2> HIDE DEF d
    <2>1. d \in Seq(Ops) /\ Len(d) = Len(a) /\ \A i \in 1..Len(a) : d[i] = a[i]
      BY <1>3, <1>4 DEF d
    <2>2. a = d
      BY <2>1, SeqEqual
    <2> QED BY <2>2 DEF d
  <1> QED BY <1>1, <1>2, <1>5 DEF b, c

LEMMA HeadTailIs ==
    ASSUME NEW a \in Seq(Ops), a # <<>>
    PROVE  /\ Head(a) \in Ops /\ Tail(a) \in Seq(Ops) /\ <<Head(a)>> \in Seq(Ops)
           /\ a = <<Head(a)>> \o Tail(a)
  <1>1. Head(a) \in Ops /\ Tail(a) \in Seq(Ops) /\ <<Head(a)>> \in Seq(Ops)
    OBVIOUS
  <1> DEFINE h == <<Head(a)>>
             t == Tail(a)
             d == h \o t
  <1>2. Len(h) = 1 /\ h[1] = a[1] /\ Len(t) = Len(a) - 1 /\ Len(a) \in Nat \ {0}
        /\ \A i \in 1..(Len(a) - 1) : t[i] = a[i + 1]
    OBVIOUS
  <1> HIDE DEF h, t
  <1>3. /\ d \in Seq(Ops) /\ Len(d) = Len(a) /\ d[1] = a[1]
        /\ \A i \in 1..(Len(a) - 1) : d[1 + i] = a[i + 1]
    BY <1>1, <1>2, ConcatIs DEF h, t
  <1> HIDE DEF d
  <1>4. ASSUME NEW i \in 1..Len(a) PROVE d[i] = a[i]
    <2>1. CASE i = 1
      BY <1>3, <2>1
    <2>2. CASE i # 1
      <3>1. i - 1 \in 1..(Len(a) - 1) /\ 1 + (i - 1) = i /\ (i - 1) + 1 = i
        BY <1>2, <2>2
      <3> QED BY <1>3, <3>1
    <2> QED BY <2>1, <2>2
  <1>5. a = d
    BY <1>3, <1>4, SeqEqual
  <1> QED BY <1>1, <1>5 DEF h, t, d

(* The empty sequence and that of one op.                                  *)
LEMMA EmptyIs ==
    /\ <<>> \in Seq(Ops) /\ Len(<<>>) = 0
    /\ \A o : Times(<<>>, o) = 0
    /\ Plain(<<>>) = {} /\ Rising(<<>>)
  <1>1. <<>> \in Seq(Ops) /\ Len(<<>>) = 0
    OBVIOUS
  <1> DEFINE a == <<>>
  <1> HIDE DEF a
  <1>2. a \in Seq(Ops) /\ 1..Len(a) = {}
    BY <1>1 DEF a
  <1>3. \A o : Times(a, o) = 0
    BY <1>2, TimesIs
  <1>4. Plain(a) = {} /\ Rising(a)
    BY <1>2 DEF Plain, Rising
  <1> QED BY <1>1, <1>3, <1>4 DEF a

LEMMA NotEmpty ==
    ASSUME NEW a \in Seq(Ops)
    PROVE  Len(a) \in Nat /\ (a = <<>> <=> Len(a) = 0)
  OBVIOUS

LEMMA OneIs ==
    ASSUME NEW o \in Ops
    PROVE  /\ <<o>> \in Seq(Ops) /\ Len(<<o>>) = 1
           /\ \A p : Times(<<o>>, p) = Hit(p, o)
           /\ Plain(<<o>>) = {o} \cap Plains /\ Rising(<<o>>)
  <1>1. <<o>> \in Seq(Ops) /\ Len(<<o>>) = 1 /\ <<o>>[1] = o
    OBVIOUS
  <1> DEFINE a == <<o>>
  <1> HIDE DEF a
  <1>2. a \in Seq(Ops) /\ Len(a) = 1 /\ a[1] = o
    BY <1>1 DEF a
  <1>3. ASSUME NEW p PROVE Times(a, p) = IF p = o THEN 1 ELSE 0
    <2>1. CASE p = o
      <3>1. {i \in 1..Len(a) : a[i] = p} = {1}
        BY <1>2, <2>1
      <3>2. Cardinality({1}) = 1
        BY FS_Singleton
      <3> QED BY <2>1, <3>1, <3>2 DEF Times
    <2>2. CASE p # o
      <3>1. \A i \in 1..Len(a) : a[i] # p
        BY <1>2, <2>2
      <3> QED BY <1>2, <2>2, <3>1, TimesIs
    <2> QED BY <2>1, <2>2
  <1>4. Plain(a) = {o} \cap Plains
    BY <1>2 DEF Plain
  <1>5. Rising(a)
    BY <1>2 DEF Rising
  <1> QED BY <1>1, <1>3, <1>4, <1>5 DEF a, Hit

(* Append is a concatenation.                                              *)
LEMMA AppendIs ==
    ASSUME NEW a \in Seq(Ops), NEW o \in Ops
    PROVE  Append(a, o) \in Seq(Ops) /\ Append(a, o) = a \o <<o>>
  OBVIOUS

(* The least of a set of natural numbers.                                  *)
LEMMA MinIs ==
    ASSUME NEW I \in SUBSET Nat, I # {}
    PROVE  Min(I) \in I /\ \A i \in I : Min(I) <= i
  <1>1. PICK x \in I : \A y \in I : <<y, x>> \notin OpToRel(<, Nat)
    BY NatLessThanWellFounded, WFMin
  <1>2. ASSUME NEW y \in I PROVE x <= y
    <2>1. y \in Nat /\ x \in Nat /\ <<y, x>> \in Nat \X Nat
      OBVIOUS
    <2>2. ~(y < x)
      BY <1>1, <2>1 DEF OpToRel
    <2> QED BY <2>1, <2>2
  <1> QED BY <1>2 DEF Min

(* Before the first op without a priority all have one.                    *)
LEMMA LeadingIs ==
    ASSUME NEW a \in Seq(Ops)
    PROVE  /\ Leading(a) \in 0..Len(a)
           /\ \A i \in 1..Leading(a) : a[i] \in High
  <1> DEFINE I == {i \in 1..Len(a) : Low(a[i])}
  <1>0. Len(a) \in Nat
    OBVIOUS
  <1>1. CASE I = {}
    <2>1. SelectInSeq(a, Low) = 0
      BY <1>1 DEF SelectInSeq
    <2>2. Leading(a) = Len(a)
      BY <2>1 DEF Leading
    <2> QED BY <1>0, <1>1, <2>2 DEF Low
  <1>2. CASE I # {}
    <2>1. Min(I) \in I /\ \A i \in I : Min(I) <= i
      <3>1. I \in SUBSET Nat
        BY <1>0
      <3> HIDE DEF I
      <3> QED BY <1>2, <3>1, MinIs
    <2>2. SelectInSeq(a, Low) = Min(I)
      BY <1>2 DEF SelectInSeq
    <2>3. Leading(a) = Min(I) - 1 /\ Min(I) \in 1..Len(a)
      BY <2>1, <2>2 DEF Leading
    <2>4. ASSUME NEW i \in 1..Leading(a) PROVE a[i] \in High
      <3>1. i \in 1..Len(a) /\ i \notin I
        BY <1>0, <2>1, <2>3
      <3> QED BY <3>1 DEF Low
    <2> QED BY <1>0, <2>3, <2>4
  <1> QED BY <1>1, <1>2

(* Ops with a priority are inserted: they add up, and the plain ones still *)
(* rise.                                                                   *)
LEMMA InsertSortedIs ==
    ASSUME NEW a \in Seq(Ops), NEW b \in Seq(Ops)
    PROVE  /\ InsertSorted(a, b) \in Seq(Ops)
           /\ Len(InsertSorted(a, b)) = Len(a) + Len(b)
           /\ \A o : Times(InsertSorted(a, b), o) = Times(a, o) + Times(b, o)
           /\ Plain(InsertSorted(a, b)) = Plain(a) \cup Plain(b)
           /\ Rising(a) /\ Plain(b) = {} /\ Rising(b) => Rising(InsertSorted(a, b))
  <1> DEFINE n == Leading(a)
             c == SubSeq(a, 1, n)
             d == SubSeq(a, n + 1, Len(a))
  <1>1. n \in 0..Len(a)
    BY LeadingIs
  <1>2. c \in Seq(Ops) /\ d \in Seq(Ops) /\ a = c \o d /\ Len(a) = Len(c) + Len(d)
        /\ Len(c) \in Nat /\ Len(d) \in Nat /\ Len(b) \in Nat
    <2>1. c \in Seq(Ops) /\ d \in Seq(Ops) /\ a = c \o d
      BY <1>1, SplitIs
    <2> HIDE DEF c, d
    <2> QED BY <2>1, ConcatIs
  <1>3. InsertSorted(a, b) = (c \o b) \o d
    BY DEF InsertSorted
  <1> HIDE DEF c, d, n
  <1>4. c \o b \in Seq(Ops) /\ Len(c \o b) = Len(c) + Len(b)
    BY <1>2, ConcatIs
  <1>5. (c \o b) \o d \in Seq(Ops) /\ Len((c \o b) \o d) = Len(a) + Len(b)
    BY <1>2, <1>4, ConcatIs
  <1>6. ASSUME NEW o PROVE Times((c \o b) \o d, o) = Times(a, o) + Times(b, o)
    <2>1. Times((c \o b) \o d, o) = Times(c \o b, o) + Times(d, o)
      BY <1>2, <1>4, TimesConcat
    <2>2. Times(c \o b, o) = Times(c, o) + Times(b, o)
      BY <1>2, TimesConcat
    <2>3. Times(a, o) = Times(c, o) + Times(d, o)
      BY <1>2, TimesConcat
    <2>4. Times(b, o) \in Nat /\ Times(c, o) \in Nat /\ Times(d, o) \in Nat
      BY <1>2, TimesIs
    <2> QED BY <2>1, <2>2, <2>3, <2>4
  <1>7. Plain(c \o b) = Plain(c) \cup Plain(b)
    BY <1>2, PlainConcat
  <1>8. Plain((c \o b) \o d) = Plain(c \o b) \cup Plain(d)
    BY <1>2, <1>4, PlainConcat
  <1>9. Plain(a) = Plain(c) \cup Plain(d)
    BY <1>2, PlainConcat
  <1>10. ASSUME Rising(a), Plain(b) = {}, Rising(b) PROVE Rising((c \o b) \o d)
    <2>1. Rising(c) /\ Rising(d) /\ Below(Plain(c), Plain(d))
      BY <1>2, <1>10, RisingConcat
    <2>2. Rising(c \o b)
      BY <1>2, <1>10, <2>1, RisingConcat DEF Below
    <2>3. Below(Plain(c \o b), Plain(d))
      BY <1>7, <1>10, <2>1
    <2> QED BY <1>2, <1>4, <2>1, <2>2, <2>3, RisingConcat
  <1> QED BY <1>3, <1>5, <1>6, <1>7, <1>8, <1>9, <1>10

LEMMA InsertIs ==
    ASSUME NEW a \in Seq(Ops), NEW o \in Ops, NEW h \in BOOLEAN
    PROVE  /\ Insert(a, o, h) \in Seq(Ops)
           /\ Len(Insert(a, o, h)) = Len(a) + 1
           /\ Insert(a, o, h) # <<>>
           /\ \A p : Times(Insert(a, o, h), p) = Times(a, p) + Hit(p, o)
           /\ Plain(Insert(a, o, h)) = Plain(a) \cup ({o} \cap Plains)
           /\ Rising(a) /\ Below(Plain(a), {o} \cap Plains) => Rising(Insert(a, o, h))
  <1> DEFINE b == <<o>>
  <1>1. /\ b \in Seq(Ops) /\ Len(b) = 1 /\ Plain(b) = {o} \cap Plains /\ Rising(b)
        /\ \A p : Times(b, p) = Hit(p, o)
    BY OneIs
  <1>2. Append(a, o) = a \o b
    BY AppendIs
  <1>3. Insert(a, o, h) = IF o \notin High THEN a \o b
                          ELSE IF h THEN b \o a ELSE InsertSorted(a, b)
    BY <1>2 DEF Insert
  <1> HIDE DEF b
  <1>4. Len(a) \in Nat /\ \A p : Times(a, p) \in Nat /\ Times(b, p) \in Nat
    <2>1. \A p : Times(a, p) \in Nat
      BY TimesIs
    <2>2. \A p : Times(b, p) \in Nat
      BY <1>1, TimesIs
    <2> QED BY <2>1, <2>2, NotEmpty
  <1>b. b \in Seq(Ops) /\ Len(b) = 1
    BY <1>1
  <1>5. CASE o \notin High
    <2>1. a \o b \in Seq(Ops) /\ Len(a \o b) = Len(a) + 1
      <3>1. Len(a \o b) = Len(a) + Len(b) /\ a \o b \in Seq(Ops)
        BY <1>b, ConcatIs
      <3> QED BY <1>b, <3>1
    <2>2. \A p : Times(a \o b, p) = Times(a, p) + Times(b, p)
      BY <1>1, TimesConcat
    <2>3. Plain(a \o b) = Plain(a) \cup Plain(b)
      BY <1>1, PlainConcat
    <2>4. Rising(a \o b) <=> Rising(a) /\ Rising(b) /\ Below(Plain(a), Plain(b))
      BY <1>1, RisingConcat
    <2>5. Insert(a, o, h) = a \o b
      BY <1>3, <1>5
    <2>6. a \o b # <<>>
      BY <1>4, <2>1, NotEmpty
    <2> QED BY <1>1, <2>1, <2>2, <2>3, <2>4, <2>5, <2>6
  <1>6. CASE o \in High
    <2>0. Plain(b) = {}
      BY <1>1, <1>6 DEF Plains, Low
    <2>1. CASE h
      <3>1. b \o a \in Seq(Ops) /\ Len(b \o a) = Len(a) + 1
        <4>1. Len(b \o a) = Len(b) + Len(a) /\ Len(a) \in Nat /\ b \o a \in Seq(Ops)
          BY <1>b, ConcatIs
        <4> QED BY <1>b, <4>1
      <3>2. \A p : Times(b \o a, p) = Times(a, p) + Times(b, p)
        BY <1>1, <1>4, TimesConcat
      <3>3. Plain(b \o a) = Plain(a) \cup Plain(b)
        BY <1>1, PlainConcat
      <3>4. Rising(b \o a) <=> Rising(b) /\ Rising(a) /\ Below(Plain(b), Plain(a))
        BY <1>1, RisingConcat
      <3>5. Insert(a, o, h) = b \o a
        BY <1>3, <1>6, <2>1
      <3>6. b \o a # <<>>
        BY <1>4, <3>1, NotEmpty
      <3> QED BY <1>1, <2>0, <3>1, <3>2, <3>3, <3>4, <3>5, <3>6 DEF Below
    <2>2. CASE ~h
      <3>1. Insert(a, o, h) = InsertSorted(a, b)
        BY <1>3, <1>6, <2>2
      <3> DEFINE c == InsertSorted(a, b)
      <3>2. /\ c \in Seq(Ops) /\ Len(c) = Len(a) + Len(b)
            /\ \A p : Times(c, p) = Times(a, p) + Times(b, p)
            /\ Plain(c) = Plain(a) \cup Plain(b)
            /\ Rising(a) /\ Plain(b) = {} /\ Rising(b) => Rising(c)
        BY <1>1, InsertSortedIs
      <3> HIDE DEF c
      <3>3. c # <<>>
        BY <1>1, <1>4, <3>2, NotEmpty
      <3>4. Insert(a, o, h) = c
        BY <3>1 DEF c
      <3> QED BY <1>1, <1>4, <2>0, <3>2, <3>3, <3>4
    <2> QED BY <2>1, <2>2
  <1> QED BY <1>5, <1>6

-----------------------------------------------------------------------------
(* What the operations on the queues do to the fields of each queue.       *)

(* All queues but x are the same.                                          *)
Elsewhere(m, n, x) == \A y \in Queues \ {x} : n.q[y] = m.q[y]
(* The fields that neither ops nor events touch.                           *)
Alike(r, t) == /\ t.ready = r.ready /\ t.ref = r.ref /\ t.fwd = r.fwd
               /\ t.yield = r.yield /\ t.io = r.io

LEMMA QueueIs ==
    ASSUME NEW m \in State, NEW x \in Queues
    PROVE  /\ m.q[x] \in QueueState
           /\ m.q[x].ops \in Seq(Ops) /\ m.q[x].ready \in BOOLEAN /\ m.q[x].ref \in Int
           /\ m.q[x].fwd \in {Null, Dst} /\ m.q[x].yield \in BOOLEAN
           /\ m.q[x].io \in BOOLEAN /\ m.q[x].sent \in BOOLEAN /\ m.q[x].fd \in BOOLEAN
           /\ m.gone \in Seq(Ops) /\ m.sig \subseteq Queues
  BY DEF State, QueueState

(* A queue gets a new value.                                               *)
LEMMA SetIs ==
    ASSUME NEW m \in State, NEW x \in Queues, NEW r \in QueueState
    PROVE  LET n == [m EXCEPT !.q[x] = r]
           IN  /\ n \in State /\ n.sig = m.sig /\ n.gone = m.gone
               /\ n.q[x] = r /\ Elsewhere(m, n, x)
  BY DEF State, Elsewhere

(* One more reference, or one less.                                        *)
LEMMA KeepIs ==
    ASSUME NEW m \in State, NEW x \in Queues
    PROVE  LET n == Keep(m, x)
           IN  /\ n \in State /\ n.sig = m.sig /\ n.gone = m.gone /\ Elsewhere(m, n, x)
               /\ n.q[x] = [m.q[x] EXCEPT !.ref = @ + 1]
  <1> DEFINE r == [m.q[x] EXCEPT !.ref = @ + 1]
  <1>1. m.q[x] \in QueueState /\ m.q[x].ref \in Int
    BY QueueIs
  <1>2. r \in QueueState
    BY <1>1 DEF QueueState
  <1>3. Keep(m, x) = [m EXCEPT !.q[x] = r]
    BY DEF Keep, State
  <1> HIDE DEF r
  <1>4. LET n == Keep(m, x)
        IN  /\ n \in State /\ n.sig = m.sig /\ n.gone = m.gone /\ Elsewhere(m, n, x)
            /\ n.q[x] = r
    BY <1>2, <1>3, SetIs
  <1> QED BY <1>4 DEF r

LEMMA UnrefIs ==
    ASSUME NEW m \in State, NEW x \in Queues
    PROVE  LET n == Unref(m, x)
           IN  /\ n \in State /\ n.sig = m.sig /\ n.gone = m.gone /\ Elsewhere(m, n, x)
               /\ n.q[x] = [m.q[x] EXCEPT !.ref = @ - 1]
  <1> DEFINE r == [m.q[x] EXCEPT !.ref = @ - 1]
  <1>1. m.q[x] \in QueueState /\ m.q[x].ref \in Int
    BY QueueIs
  <1>2. r \in QueueState
    BY <1>1 DEF QueueState
  <1>3. Unref(m, x) = [m EXCEPT !.q[x] = r]
    BY DEF Unref, State
  <1> HIDE DEF r
  <1>4. LET n == Unref(m, x)
        IN  /\ n \in State /\ n.sig = m.sig /\ n.gone = m.gone /\ Elsewhere(m, n, x)
            /\ n.q[x] = r
    BY <1>2, <1>3, SetIs
  <1> QED BY <1>4 DEF r

LEMMA IoEventIs ==
    ASSUME NEW m \in State, NEW x \in Queues
    PROVE  LET n == IoEvent(m, x)
           IN  /\ n \in State /\ n.sig = m.sig /\ n.gone = m.gone /\ Elsewhere(m, n, x)
               /\ n.q[x].ops = m.q[x].ops /\ Alike(m.q[x], n.q[x])
               /\ n.q[x].sent <=> m.q[x].sent \/ m.q[x].io
               /\ n.q[x].fd <=> m.q[x].fd \/ (m.q[x].io /\ ~m.q[x].sent)
  <1>1. CASE ~m.q[x].io \/ m.q[x].sent
    BY <1>1 DEF IoEvent, Elsewhere, Alike, State, QueueState
  <1>2. CASE ~(~m.q[x].io \/ m.q[x].sent)
    <2>1. IoEvent(m, x) = [m EXCEPT !.q[x].sent = TRUE, !.q[x].fd = TRUE]
      BY <1>2 DEF IoEvent
    <2>2. m.q[x] \in QueueState
      BY QueueIs
    <2> DEFINE r == [m.q[x] EXCEPT !.sent = TRUE, !.fd = TRUE]
    <2>3. IoEvent(m, x) = [m EXCEPT !.q[x] = r]
      BY <2>1 DEF State
    <2>4. r \in QueueState /\ r.ops = m.q[x].ops /\ Alike(m.q[x], r) /\ r.sent /\ r.fd
      BY <2>2 DEF QueueState, Alike
    <2> HIDE DEF r
    <2>5. LET n == IoEvent(m, x)
          IN  /\ n \in State /\ n.sig = m.sig /\ n.gone = m.gone /\ Elsewhere(m, n, x)
              /\ n.q[x] = r
      BY <2>3, <2>4, SetIs
    <2> QED BY <1>2, <2>4, <2>5
  <1> QED BY <1>1, <1>2

(* An op is inserted in a queue that is not forwarded.                     *)
LEMMA EnqHereIs ==
    ASSUME NEW m \in State, NEW x \in Queues, NEW o \in Ops, NEW h \in BOOLEAN
    PROVE  LET n == EnqHere(m, x, o, h)
           IN  /\ n \in State /\ n.sig = m.sig \cup {x} /\ n.gone = m.gone
               /\ Elsewhere(m, n, x)
               /\ n.q[x].ops = Insert(m.q[x].ops, o, h) /\ Alike(m.q[x], n.q[x])
               /\ n.q[x].sent <=> m.q[x].sent \/ (m.q[x].io /\ m.q[x].ops = <<>>)
               /\ n.q[x].fd <=> \/ m.q[x].fd
                                \/ m.q[x].io /\ ~m.q[x].sent /\ m.q[x].ops = <<>>
  <1> DEFINE ops == Insert(m.q[x].ops, o, h)
             k == [m EXCEPT !.q[x].ops = ops]
             n == Signal(k, x)
  <1>1. m.q[x].ops \in Seq(Ops)
    BY QueueIs
  <1>2. ops \in Seq(Ops) /\ Len(ops) = Len(m.q[x].ops) + 1
    BY <1>1, InsertIs
  <1>3. Len(ops) = 1 <=> m.q[x].ops = <<>>
    BY <1>1, <1>2, NotEmpty
  <1>e. EnqHere(m, x, o, h) = IF Len(n.q[x].ops) = 1 THEN IoEvent(n, x) ELSE n
    BY DEF EnqHere
  <1> HIDE DEF ops
  <1>4. /\ k \in State /\ k.sig = m.sig /\ k.gone = m.gone /\ Elsewhere(m, k, x)
        /\ k.q[x].ops = ops /\ Alike(m.q[x], k.q[x])
        /\ k.q[x].sent = m.q[x].sent /\ k.q[x].fd = m.q[x].fd
    BY <1>2 DEF State, QueueState, Elsewhere, Alike
  <1> HIDE DEF k
  <1>5. n \in State /\ n.q = k.q /\ n.sig = m.sig \cup {x} /\ n.gone = m.gone
    BY <1>4 DEF Signal, State
  <1> HIDE DEF n
  <1>6. CASE Len(ops) = 1
    <2> DEFINE e == IoEvent(n, x)
    <2>1. EnqHere(m, x, o, h) = e
      BY <1>e, <1>4, <1>5, <1>6
    <2>2. /\ e \in State /\ e.sig = n.sig /\ e.gone = n.gone /\ Elsewhere(n, e, x)
          /\ e.q[x].ops = n.q[x].ops /\ Alike(n.q[x], e.q[x])
          /\ e.q[x].sent <=> n.q[x].sent \/ n.q[x].io
          /\ e.q[x].fd <=> n.q[x].fd \/ (n.q[x].io /\ ~n.q[x].sent)
      BY <1>5, IoEventIs
    <2> HIDE DEF e
    <2> QED BY <1>3, <1>4, <1>5, <1>6, <2>1, <2>2 DEF Elsewhere, Alike, ops
  <1>7. CASE Len(ops) # 1
    <2>1. EnqHere(m, x, o, h) = n
      BY <1>e, <1>4, <1>5, <1>7
    <2> QED BY <1>3, <1>4, <1>5, <1>7, <2>1 DEF Elsewhere, Alike, ops
  <1> QED BY <1>6, <1>7

(* The ops of a queue are destroyed.                                       *)
LEMMA DropOpsIs ==
    ASSUME NEW m \in State, NEW x \in Queues
    PROVE  LET n == DropOps(m, x)
           IN  /\ n \in State /\ n.sig = m.sig /\ n.gone = m.gone \o m.q[x].ops
               /\ \A y \in Queues \ {x, Recv} : n.q[y] = m.q[y]
               /\ n.q[x].ops = <<>> /\ ~n.q[x].sent /\ n.q[x].ready = m.q[x].ready
               /\ n.q[x].fwd = m.q[x].fwd /\ n.q[x].yield = m.q[x].yield
               /\ n.q[x].io = m.q[x].io /\ n.q[x].fd = m.q[x].fd
               /\ x # Recv => /\ n.q[x].ref = m.q[x].ref
                              /\ n.q[Recv] = [m.q[Recv] EXCEPT !.ref =
                                    @ - (IF Times(m.q[x].ops, Request) = 0 THEN 0 ELSE 1)]
               /\ x = Recv => n.q[x].ref = m.q[x].ref
  <1> DEFINE a == m.q[x].ops
             r == [m.q[x] EXCEPT !.ops = <<>>, !.sent = FALSE]
             k == [[m EXCEPT !.gone = m.gone \o a] EXCEPT !.q[x] = r]
  <1>1. a \in Seq(Ops) /\ m.gone \in Seq(Ops) /\ m.q[x] \in QueueState
    BY QueueIs
  <1>2. m.gone \o a \in Seq(Ops)
    BY <1>1, ConcatIs
  <1>3. r \in QueueState /\ r.ops = <<>> /\ ~r.sent /\ r.ready = m.q[x].ready
        /\ r.fwd = m.q[x].fwd /\ r.yield = m.q[x].yield /\ r.io = m.q[x].io
        /\ r.fd = m.q[x].fd /\ r.ref = m.q[x].ref
    BY <1>1, EmptyIs DEF QueueState
  <1>4. MarkServed([m EXCEPT !.gone = @ \o m.q[x].ops, !.q[x].ops = <<>>], x) = k
    BY <1>1 DEF MarkServed, State, QueueState
  <1>5. Request \in ToSet(a) <=> Times(a, Request) # 0
    <2>1. ToSet(a) = {a[i] : i \in 1..Len(a)}
      BY <1>1 DEF ToSet
    <2>2. Times(a, Request) = 0 <=> \A i \in 1..Len(a) : a[i] # Request
      BY <1>1, TimesIs
    <2> QED BY <2>1, <2>2
  <1>6. DropOps(m, x) = IF x # Recv /\ Request \in ToSet(a) THEN Unref(k, Recv) ELSE k
    BY <1>4 DEF DropOps
  <1>g. [m EXCEPT !.gone = m.gone \o a] \in State
    BY <1>2 DEF State
  <1> HIDE DEF r
  <1>7. /\ k \in State /\ k.sig = m.sig /\ k.gone = m.gone \o a /\ k.q[x] = r
        /\ Elsewhere(m, k, x)
    BY <1>2, <1>3 DEF State, Elsewhere
  <1> HIDE DEF k, a
  <1>8. CASE x # Recv /\ Request \in ToSet(a)
    <2> DEFINE n == Unref(k, Recv)
    <2>1. Recv \in Queues
      BY DEF Queues
    <2>2. /\ n \in State /\ n.sig = k.sig /\ n.gone = k.gone /\ Elsewhere(k, n, Recv)
          /\ n.q[Recv] = [k.q[Recv] EXCEPT !.ref = @ - 1]
      BY <1>7, <2>1, UnrefIs
    <2> HIDE DEF n
    <2>3. k.q[Recv] = m.q[Recv] /\ n.q[x] = r
      BY <1>7, <1>8, <2>1, <2>2 DEF Elsewhere
    <2>4. DropOps(m, x) = n
      BY <1>6, <1>8 DEF n
    <2>5. Times(a, Request) # 0
      BY <1>5, <1>8
    <2>6. \A y \in Queues \ {x, Recv} : n.q[y] = m.q[y]
      BY <1>7, <2>2 DEF Elsewhere
    <2> QED BY <1>3, <1>7, <1>8, <2>2, <2>3, <2>4, <2>5, <2>6 DEF a
  <1>9. CASE ~(x # Recv /\ Request \in ToSet(a))
    <2>1. DropOps(m, x) = k
      BY <1>6, <1>9
    <2>2. x # Recv => Times(a, Request) = 0 /\ k.q[Recv] = m.q[Recv]
      BY <1>5, <1>7, <1>9 DEF Elsewhere, Queues
    <2>3. m.q[Recv] \in QueueState /\ m.q[Recv].ref \in Int
      BY QueueIs DEF Queues
    <2>4. m.q[Recv] = [m.q[Recv] EXCEPT !.ref = @ - 0]
      BY <2>3 DEF QueueState
    <2> QED BY <1>3, <1>7, <2>1, <2>2, <2>4 DEF a, Elsewhere
  <1> QED BY <1>8, <1>9

(* A reference is released that is not the last one.                       *)
LEMMA ReleaseIs ==
    ASSUME NEW m \in State, NEW x \in Queues, m.q[x].ref # 1
    PROVE  Release(m, x) = Unref(m, x)
  <1>1. Unref(m, x).q[x] = [m.q[x] EXCEPT !.ref = @ - 1]
    BY UnrefIs
  <1>2. m.q[x] \in QueueState /\ m.q[x].ref \in Int
    BY QueueIs
  <1>3. Unref(m, x).q[x].ref # 0
    BY <1>1, <1>2 DEF QueueState
  <1> QED BY <1>3 DEF Release

(* The last reference to a queue that forwards nowhere, or to Src.         *)
LEMMA FinalIs ==
    ASSUME NEW m \in State, NEW x \in {Src, Recv}, m.q[x].ref = 1,
           x = Src => m.q[x].ops = <<>>, x = Recv => m.q[x].fwd = Null
    PROVE  LET n == Release(m, x)
           IN  /\ n \in State /\ n.sig = m.sig /\ n.gone = m.gone \o m.q[x].ops
               /\ n.q[x].ops = <<>> /\ ~n.q[x].ready /\ n.q[x].ref = 0
               /\ n.q[x].fwd = Null /\ ~n.q[x].sent /\ n.q[x].yield = m.q[x].yield
               /\ n.q[x].io = m.q[x].io /\ n.q[x].fd = m.q[x].fd
               /\ n.q[Dst] = IF m.q[x].fwd = Null THEN m.q[Dst]
                             ELSE [m.q[Dst] EXCEPT !.ref = @ - 1]
               /\ \A y \in {Src, Recv} \ {x} : n.q[y] = m.q[y]
  <1>0. /\ Src \in Queues /\ Dst \in Queues /\ Recv \in Queues /\ x \in Queues
        /\ Src # Dst /\ Src # Recv /\ Dst # Recv /\ x # Dst /\ Null # Dst
        /\ Queues = {Src, Dst, Recv}
    BY OpQueueAssumption DEF Queues
  <1>1. m.q[x] \in QueueState /\ m.q[x].ref \in Int /\ m.q[x].fwd \in {Null, Dst}
        /\ m.q[x].ops \in Seq(Ops) /\ m.q[Dst] \in QueueState
        /\ m.q[Recv] \in QueueState /\ m.q[Recv].ref \in Int
    BY <1>0, QueueIs
  <1> DEFINE u == Unref(m, x)
             r == [u.q[x] EXCEPT !.ready = FALSE, !.fwd = Null]
             v == [u EXCEPT !.q[x].ready = FALSE, !.q[x].fwd = Null]
             d == DropOps(v, x)
  <1>2. /\ u \in State /\ u.sig = m.sig /\ u.gone = m.gone /\ Elsewhere(m, u, x)
        /\ u.q[x] = [m.q[x] EXCEPT !.ref = @ - 1]
    BY <1>0, UnrefIs
  <1>3. u.q[x].ref = 0 /\ u.q[x].fwd = m.q[x].fwd
    BY <1>1, <1>2 DEF QueueState
  <1>4. Release(m, x) = IF m.q[x].fwd = Null THEN d ELSE Unref(d, m.q[x].fwd)
    BY <1>3 DEF Release, Final
  <1> HIDE DEF u
  <1>5. /\ r \in QueueState /\ r.ops = m.q[x].ops /\ ~r.ready /\ r.ref = 0
        /\ r.fwd = Null /\ r.yield = m.q[x].yield
        /\ r.io = m.q[x].io /\ r.fd = m.q[x].fd
    <2> DEFINE w == u.q[x]
    <2>1. w \in QueueState
      BY <1>0, <1>2, QueueIs
    <2>2. /\ w.ops = m.q[x].ops /\ w.ref = 0 /\ w.yield = m.q[x].yield
          /\ w.io = m.q[x].io /\ w.fd = m.q[x].fd
      BY <1>1, <1>2, <1>3 DEF QueueState
    <2> HIDE DEF w
    <2> QED BY <2>1, <2>2 DEF QueueState, w
  <1>6. v = [u EXCEPT !.q[x] = r]
    <2>1. v = [[u EXCEPT !.q[x].ready = FALSE] EXCEPT !.q[x].fwd = Null]
      BY <1>0, <1>2 DEF State, QueueState
    <2> QED BY <1>0, <1>2, <2>1 DEF State, QueueState
  <1> HIDE DEF r, v
  <1>7. v \in State /\ v.sig = m.sig /\ v.gone = m.gone /\ v.q[x] = r /\ Elsewhere(u, v, x)
    BY <1>0, <1>2, <1>5, <1>6, SetIs
  <1>8. /\ d \in State /\ d.sig = v.sig /\ d.gone = v.gone \o v.q[x].ops
        /\ \A y \in Queues \ {x, Recv} : d.q[y] = v.q[y]
        /\ d.q[x].ops = <<>> /\ ~d.q[x].sent /\ d.q[x].ready = v.q[x].ready
        /\ d.q[x].fwd = v.q[x].fwd /\ d.q[x].yield = v.q[x].yield
        /\ d.q[x].io = v.q[x].io /\ d.q[x].fd = v.q[x].fd
        /\ x # Recv => /\ d.q[x].ref = v.q[x].ref
                       /\ d.q[Recv] = [v.q[Recv] EXCEPT !.ref =
                             @ - (IF Times(v.q[x].ops, Request) = 0 THEN 0 ELSE 1)]
        /\ x = Recv => d.q[x].ref = v.q[x].ref
    BY <1>0, <1>7, DropOpsIs
  <1> HIDE DEF d
  <1>9. v.q[Dst] = m.q[Dst] /\ (x = Src => v.q[Recv] = m.q[Recv])
        /\ (x = Recv => v.q[Src] = m.q[Src])
    BY <1>0, <1>2, <1>7 DEF Elsewhere
  <1>10. x = Src => d.q[Recv] = m.q[Recv]
    <2> SUFFICES ASSUME x = Src PROVE d.q[Recv] = m.q[Recv]
      OBVIOUS
    <2>1. Times(v.q[x].ops, Request) = 0
      BY <1>5, <1>7, EmptyIs
    <2>2. d.q[Recv] = [m.q[Recv] EXCEPT !.ref = @ - 0]
      BY <1>0, <1>8, <1>9, <2>1
    <2> QED BY <1>1, <2>2 DEF QueueState
  <1>11. d.q[Dst] = m.q[Dst] /\ (x = Recv => d.q[Src] = m.q[Src])
    BY <1>0, <1>8, <1>9
  <1>12. \A y \in {Src, Recv} \ {x} : d.q[y] = m.q[y]
    BY <1>10, <1>11
  <1>13. /\ d.sig = m.sig /\ d.gone = m.gone \o m.q[x].ops
         /\ d.q[x].ops = <<>> /\ ~d.q[x].sent /\ ~d.q[x].ready /\ d.q[x].fwd = Null
         /\ d.q[x].yield = m.q[x].yield /\ d.q[x].io = m.q[x].io
         /\ d.q[x].fd = m.q[x].fd /\ d.q[x].ref = 0
    BY <1>5, <1>7, <1>8
  <1>14. CASE m.q[x].fwd = Null
    <2>1. Release(m, x) = d
      BY <1>4, <1>14
    <2> QED BY <1>8, <1>11, <1>12, <1>13, <1>14, <2>1
  <1>15. CASE m.q[x].fwd = Dst
    <2> DEFINE n == Unref(d, Dst)
    <2>1. Release(m, x) = n
      BY <1>0, <1>4, <1>15
    <2>2. /\ n \in State /\ n.sig = d.sig /\ n.gone = d.gone /\ Elsewhere(d, n, Dst)
          /\ n.q[Dst] = [d.q[Dst] EXCEPT !.ref = @ - 1]
      BY <1>0, <1>8, UnrefIs
    <2> HIDE DEF n
    <2>3. n.q[x] = d.q[x] /\ \A y \in {Src, Recv} \ {x} : n.q[y] = m.q[y]
      BY <1>0, <1>12, <2>2 DEF Elsewhere
    <2>4. n.q[Dst] = [m.q[Dst] EXCEPT !.ref = @ - 1]
      BY <1>11, <2>2
    <2> QED BY <1>0, <1>13, <1>15, <2>1, <2>2, <2>3, <2>4
  <1> QED BY <1>1, <1>14, <1>15

(* Ops go to the front of a queue that is not forwarded.                   *)
LEMMA PrependIs ==
    ASSUME NEW m \in State, NEW x \in Queues, NEW a \in Seq(Ops),
           m.q[x].fwd \in Queues \cup {Null}
    PROVE  LET n == Prepend(m, x, a)
               z == IF m.q[x].fwd = Null THEN x ELSE m.q[x].fwd
           IN  /\ n \in State /\ n.sig = m.sig /\ n.gone = m.gone /\ Elsewhere(m, n, z)
               /\ n.q[z].ops = a \o m.q[z].ops /\ Alike(m.q[z], n.q[z])
               /\ n.q[z].sent <=> m.q[z].sent \/ (m.q[z].io /\ m.q[z].ops = <<>>)
               /\ n.q[z].fd <=> \/ m.q[z].fd
                                \/ m.q[z].io /\ ~m.q[z].sent /\ m.q[z].ops = <<>>
  <1> DEFINE z == IF m.q[x].fwd = Null THEN x ELSE m.q[x].fwd
             e == IoEvent(m, z)
             k == IF m.q[z].ops = <<>> THEN e ELSE m
  <1>0. z \in Queues
    OBVIOUS
  <1>1. Prepend(m, x, a) = [k EXCEPT !.q[z].ops = a \o @]
    BY DEF Prepend
  <1> HIDE DEF z
  <1>2. /\ e \in State /\ e.sig = m.sig /\ e.gone = m.gone /\ Elsewhere(m, e, z)
        /\ e.q[z].ops = m.q[z].ops /\ Alike(m.q[z], e.q[z])
        /\ e.q[z].sent <=> m.q[z].sent \/ m.q[z].io
        /\ e.q[z].fd <=> m.q[z].fd \/ (m.q[z].io /\ ~m.q[z].sent)
    BY <1>0, IoEventIs
  <1> HIDE DEF e
  <1>3. /\ k \in State /\ k.sig = m.sig /\ k.gone = m.gone /\ Elsewhere(m, k, z)
        /\ k.q[z].ops = m.q[z].ops /\ Alike(m.q[z], k.q[z])
        /\ k.q[z].sent <=> m.q[z].sent \/ (m.q[z].io /\ m.q[z].ops = <<>>)
        /\ k.q[z].fd <=> \/ m.q[z].fd
                         \/ m.q[z].io /\ ~m.q[z].sent /\ m.q[z].ops = <<>>
    BY <1>2 DEF Elsewhere, Alike
  <1> HIDE DEF k
  <1>4. k.q[z] \in QueueState /\ m.q[z].ops \in Seq(Ops)
    BY <1>0, <1>3, QueueIs
  <1>5. a \o m.q[z].ops \in Seq(Ops)
    BY <1>4, ConcatIs
  <1> DEFINE b == a \o m.q[z].ops
             r == [k.q[z] EXCEPT !.ops = b]
  <1>6. Prepend(m, x, a) = [k EXCEPT !.q[z] = r]
    BY <1>1, <1>3 DEF State
  <1> HIDE DEF b
  <1>7. r \in QueueState /\ r.ops = b /\ Alike(k.q[z], r) /\ r.sent = k.q[z].sent
        /\ r.fd = k.q[z].fd
    BY <1>4, <1>5 DEF QueueState, Alike, b
  <1> HIDE DEF r
  <1> DEFINE n == Prepend(m, x, a)
  <1>8. n \in State /\ n.sig = k.sig /\ n.gone = k.gone /\ n.q[z] = r /\ Elsewhere(k, n, z)
    BY <1>0, <1>3, <1>6, <1>7, SetIs
  <1> HIDE DEF n
  <1>9. /\ n \in State /\ n.sig = m.sig /\ n.gone = m.gone /\ Elsewhere(m, n, z)
        /\ n.q[z].ops = a \o m.q[z].ops /\ Alike(m.q[z], n.q[z])
        /\ n.q[z].sent <=> m.q[z].sent \/ (m.q[z].io /\ m.q[z].ops = <<>>)
        /\ n.q[z].fd <=> \/ m.q[z].fd
                         \/ m.q[z].io /\ ~m.q[z].sent /\ m.q[z].ops = <<>>
    BY <1>3, <1>7, <1>8 DEF Elsewhere, Alike, b
  <1> QED BY <1>9 DEF n, z

(* The ops of Src go to Dst: they add up, and the plain ones follow.       *)
LEMMA JoinIs ==
    ASSUME NEW a \in Seq(Ops), NEW b \in Seq(Ops)
    PROVE  LET c == InsertSorted(a, SubSeq(b, 1, Leading(b)))
                      \o SubSeq(b, Leading(b) + 1, Len(b))
           IN  /\ c \in Seq(Ops) /\ Len(c) = Len(a) + Len(b)
               /\ \A o : Times(c, o) = Times(a, o) + Times(b, o)
               /\ Plain(c) = Plain(a) \cup Plain(b)
               /\ Rising(a) /\ Rising(b) /\ Below(Plain(a), Plain(b)) => Rising(c)
  <1> DEFINE n == Leading(b)
             d == SubSeq(b, 1, n)
             e == SubSeq(b, n + 1, Len(b))
             f == InsertSorted(a, d)
  <1>1. n \in 0..Len(b) /\ \A i \in 1..n : b[i] \in High
    BY LeadingIs
  <1>2. /\ d \in Seq(Ops) /\ e \in Seq(Ops) /\ b = d \o e
        /\ Len(d) = n /\ \A i \in 1..n : d[i] = b[i]
    BY <1>1, SplitIs
  <1> HIDE DEF n, d, e
  <1>3. Plain(d) = {}
    BY <1>1, <1>2 DEF Plain, Plains, Low
  <1>4. /\ f \in Seq(Ops) /\ Len(f) = Len(a) + Len(d)
        /\ \A o : Times(f, o) = Times(a, o) + Times(d, o)
        /\ Plain(f) = Plain(a) \cup Plain(d)
        /\ Rising(a) /\ Plain(d) = {} /\ Rising(d) => Rising(f)
    BY <1>2, InsertSortedIs
  <1> HIDE DEF f
  <1>5. /\ f \o e \in Seq(Ops) /\ Len(f \o e) = Len(f) + Len(e) /\ Len(e) \in Nat
        /\ Len(b) = Len(d) + Len(e) /\ Len(d) \in Nat
    BY <1>2, <1>4, ConcatIs
  <1>6. Len(f \o e) = Len(a) + Len(b)
    BY <1>4, <1>5, NotEmpty
  <1>7. ASSUME NEW o PROVE Times(f \o e, o) = Times(a, o) + Times(b, o)
    <2>1. Times(f \o e, o) = Times(f, o) + Times(e, o)
      BY <1>2, <1>4, TimesConcat
    <2>2. Times(b, o) = Times(d, o) + Times(e, o)
      BY <1>2, TimesConcat
    <2>3. Times(f, o) = Times(a, o) + Times(d, o)
      BY <1>4
    <2>4. Times(a, o) \in Nat /\ Times(d, o) \in Nat /\ Times(e, o) \in Nat
      BY <1>2, TimesIs
    <2> QED BY <2>1, <2>2, <2>3, <2>4
  <1>8. Plain(f \o e) = Plain(f) \cup Plain(e) /\ Plain(b) = Plain(d) \cup Plain(e)
    BY <1>2, <1>4, PlainConcat
  <1>9. ASSUME Rising(a), Rising(b), Below(Plain(a), Plain(b)) PROVE Rising(f \o e)
    <2>1. Rising(d) /\ Rising(e)
      BY <1>2, <1>9, RisingConcat
    <2>2. Rising(f)
      BY <1>3, <1>4, <1>9, <2>1
    <2>3. Plain(f) = Plain(a) /\ Plain(e) = Plain(b)
      BY <1>3, <1>4, <1>8
    <2> QED BY <1>2, <1>4, <1>9, <2>1, <2>2, <2>3, RisingConcat
  <1> QED BY <1>3, <1>4, <1>5, <1>6, <1>7, <1>8, <1>9 DEF f, e, d, n

LEMMA ConcatQIs ==
    ASSUME NEW m \in State, m.q[Dst].fwd = Null, m.q[Dst].ready
    PROVE  LET n == Concat(m, Dst, Src)
               a == m.q[Dst].ops
               b == m.q[Src].ops
           IN  /\ n \in State /\ n.gone = m.gone /\ n.q[Recv] = m.q[Recv]
               /\ m.sig \subseteq n.sig /\ (b # <<>> => Dst \in n.sig)
               /\ n.q[Src].ops = <<>> /\ Alike(m.q[Src], n.q[Src])
               /\ n.q[Src].fd = m.q[Src].fd
               /\ IF b = <<>> THEN n.q[Src].sent = m.q[Src].sent ELSE ~n.q[Src].sent
               /\ Alike(m.q[Dst], n.q[Dst])
               /\ b = <<>> => n = m
               /\ n.q[Dst].ops = <<>> <=> a = <<>> /\ b = <<>>
               /\ b # <<>> =>
                    /\ n.q[Dst].sent <=> m.q[Dst].sent \/ (m.q[Dst].io /\ a = <<>>)
                    /\ n.q[Dst].fd <=> \/ m.q[Dst].fd
                                       \/ m.q[Dst].io /\ ~m.q[Dst].sent /\ a = <<>>
               /\ \A o : Times(n.q[Dst].ops, o) = Times(a, o) + Times(b, o)
               /\ Plain(n.q[Dst].ops) = Plain(a) \cup Plain(b)
               /\ Rising(a) /\ Rising(b) /\ Below(Plain(a), Plain(b))
                    => Rising(n.q[Dst].ops)
  <1>0. /\ Src \in Queues /\ Dst \in Queues /\ Recv \in Queues
        /\ Src # Dst /\ Src # Recv /\ Dst # Recv
    BY OpQueueAssumption DEF Queues
  <1> DEFINE a == m.q[Dst].ops
             b == m.q[Src].ops
             c == InsertSorted(a, SubSeq(b, 1, Leading(b)))
                    \o SubSeq(b, Leading(b) + 1, Len(b))
             e == IF a = <<>> THEN IoEvent(m, Dst) ELSE m
             f == [e EXCEPT !.q[Dst].ops = c, !.q[Src].ops = <<>>]
             g == MarkServed(Signal(f, Dst), Src)
  <1>1. a \in Seq(Ops) /\ b \in Seq(Ops) /\ m.sig \subseteq Queues
    BY <1>0, QueueIs
  <1>2. /\ e \in State /\ e.sig = m.sig /\ e.gone = m.gone /\ Elsewhere(m, e, Dst)
        /\ e.q[Dst].ops = a /\ Alike(m.q[Dst], e.q[Dst])
        /\ e.q[Dst].sent <=> m.q[Dst].sent \/ (m.q[Dst].io /\ a = <<>>)
        /\ e.q[Dst].fd <=> \/ m.q[Dst].fd
                           \/ m.q[Dst].io /\ ~m.q[Dst].sent /\ a = <<>>
    <2>1. CASE a = <<>>
      BY <1>0, <2>1, IoEventIs
    <2>2. CASE a # <<>>
      BY <2>2 DEF Elsewhere, Alike
    <2> QED BY <2>1, <2>2
  <1>3. Concat(m, Dst, Src) = IF b = <<>> THEN m ELSE g
    <2>1. e.q[Dst].ops = a
      BY <1>2
    <2>2. f = [e EXCEPT !.q[Dst].ops = InsertSorted(@, SubSeq(b, 1, Leading(b)))
                                         \o SubSeq(b, Leading(b) + 1, Len(b)),
                        !.q[Src].ops = <<>>]
      BY <2>1
    <2> QED BY <2>2 DEF Concat
  <1>4. /\ c \in Seq(Ops) /\ Len(c) = Len(a) + Len(b)
        /\ \A o : Times(c, o) = Times(a, o) + Times(b, o)
        /\ Plain(c) = Plain(a) \cup Plain(b)
        /\ Rising(a) /\ Rising(b) /\ Below(Plain(a), Plain(b)) => Rising(c)
    BY <1>1, JoinIs
  <1> HIDE DEF c, e
  <1>5. CASE b = <<>>
    <2>1. \A o : Times(a, o) \in Nat /\ Times(b, o) = 0
      BY <1>1, <1>5, TimesIs, EmptyIs
    <2>2. Plain(b) = {}
      BY <1>5, EmptyIs
    <2>3. Concat(m, Dst, Src) = m
      BY <1>3, <1>5
    <2> HIDE DEF a, b
    <2>4. \A o : Times(a, o) = Times(a, o) + Times(b, o)
      BY <2>1
    <2> QED BY <1>5, <2>2, <2>3, <2>4 DEF Alike, a, b
  <1>6. CASE b # <<>>
    <2>1. Concat(m, Dst, Src) = g
      BY <1>3, <1>6
    <2>2. c # <<>>
      <3>1. c \in Seq(Ops) /\ Len(c) = Len(a) + Len(b)
        BY <1>4
      <3>2. Len(a) \in Nat /\ Len(b) \in Nat /\ Len(b) # 0
        BY <1>1, <1>6, NotEmpty
      <3>3. Len(c) # 0
        <4> HIDE DEF a, b
        <4> QED BY <3>1, <3>2
      <3> QED BY <3>1, <3>3, NotEmpty
    <2> DEFINE r == [e.q[Dst] EXCEPT !.ops = c]
               t == [m.q[Src] EXCEPT !.ops = <<>>, !.sent = FALSE]
    <2>3. e.q[Dst] \in QueueState /\ m.q[Src] \in QueueState /\ e.q[Src] = m.q[Src]
          /\ e.q[Recv] = m.q[Recv]
      BY <1>0, <1>2, QueueIs DEF Elsewhere
    <2>4. /\ r \in QueueState /\ r.ops = c /\ Alike(e.q[Dst], r)
          /\ r.sent = e.q[Dst].sent /\ r.fd = e.q[Dst].fd
      BY <1>4, <2>3 DEF QueueState, Alike
    <2>5. /\ t \in QueueState /\ t.ops = <<>> /\ Alike(m.q[Src], t) /\ ~t.sent
          /\ t.fd = m.q[Src].fd
      BY <2>3, EmptyIs DEF QueueState, Alike
    <2>6. /\ g.q = [[e.q EXCEPT ![Dst] = r] EXCEPT ![Src] = t]
          /\ g.sig = e.sig \cup {Dst} /\ g.gone = e.gone /\ DOMAIN g = {"q", "sig", "gone"}
      BY <1>0, <1>2, <2>3 DEF MarkServed, Signal, State, QueueState
    <2>7. g = [q |-> g.q, sig |-> g.sig, gone |-> g.gone]
      <3>1. e = [q |-> e.q, sig |-> e.sig, gone |-> e.gone]
        BY <1>2 DEF State
      <3> DEFINE fq == [[e.q EXCEPT ![Dst] = r] EXCEPT ![Src] = [m.q[Src] EXCEPT !.ops = <<>>]]
      <3>2. f = [e EXCEPT !.q = fq]
        BY <1>0, <1>2, <2>3 DEF State, QueueState
      <3>3. f = [q |-> fq, sig |-> e.sig, gone |-> e.gone]
        BY <3>1, <3>2
      <3> HIDE DEF f, fq
      <3>4. Signal(f, Dst) = [q |-> fq, sig |-> e.sig \cup {Dst}, gone |-> e.gone]
        BY <3>3 DEF Signal
      <3> DEFINE gq == [fq EXCEPT ![Src].sent = FALSE]
      <3>5. g = [q |-> gq, sig |-> e.sig \cup {Dst}, gone |-> e.gone]
        <4> DEFINE w == Signal(f, Dst)
                   sg == e.sig \cup {Dst}
                   go == e.gone
        <4>1. w = [q |-> fq, sig |-> sg, gone |-> go] /\ g = [w EXCEPT !.q[Src].sent = FALSE]
          BY <3>4 DEF MarkServed
        <4> HIDE DEF w, sg, go, g
        <4>2. g = [q |-> gq, sig |-> sg, gone |-> go]
          BY <4>1
        <4> QED BY <4>2 DEF sg, go
      <3> HIDE DEF g, gq
      <3> QED BY <3>5
    <2> HIDE DEF g, r, t
    <2>8. g.q \in [Queues -> QueueState] /\ g.q[Dst] = r /\ g.q[Src] = t
          /\ g.q[Recv] = m.q[Recv]
      BY <1>0, <1>2, <2>3, <2>4, <2>5, <2>6 DEF State
    <2>9. g.sig \in SUBSET Queues /\ g.gone \in Seq(Ops)
      BY <1>0, <1>2, <2>6 DEF State
    <2>10. g \in State
      BY <2>7, <2>8, <2>9 DEF State
    <2>11. Alike(m.q[Dst], r)
      BY <1>2, <2>4 DEF Alike
    <2> HIDE DEF a, b
    <2> QED BY <1>2, <1>4, <1>6, <2>1, <2>2, <2>4, <2>5, <2>6, <2>8, <2>10, <2>11 DEF a, b
  <1> QED BY <1>5, <1>6

-----------------------------------------------------------------------------
(* The invariant holds at the beginning and is kept by each action.        *)

LEMMA NamesApart ==
    /\ Src \in Queues /\ Dst \in Queues /\ Recv \in Queues /\ Queues = {Src, Dst, Recv}
    /\ Polled = {Src, Dst} /\ Polled \subseteq Queues
    /\ Src # Dst /\ Src # Recv /\ Dst # Recv /\ Null # Src /\ Null # Dst /\ Null # Recv
    /\ OpCount \in Nat /\ Request = OpCount + 1 /\ Request \in Ops /\ Ops = 1..Request
    /\ Request \notin Plains /\ Plains \subseteq 1..OpCount /\ Plains \subseteq Ops
  BY OpQueueAssumption DEF Queues, Polled, Request, Ops, Plains

(* What the types say of each field.                                       *)
LEMMA Typed ==
    ASSUME TypeOK
    PROVE  /\ s \in State /\ s.gone \in Seq(Ops) /\ s.sig \subseteq Queues
           /\ \A x \in Queues :
                /\ s.q[x] \in QueueState
                /\ s.q[x].ops \in Seq(Ops) /\ s.q[x].ready \in BOOLEAN /\ s.q[x].ref \in Int
                /\ s.q[x].fwd \in {Null, Dst} /\ s.q[x].yield \in BOOLEAN
                /\ s.q[x].io \in BOOLEAN /\ s.q[x].sent \in BOOLEAN /\ s.q[x].fd \in BOOLEAN
                /\ \A o : Times(s.q[x].ops, o) \in Nat
           /\ cons.local \in Seq(Ops) /\ done \in Seq(Ops)
           /\ \A o : /\ Times(cons.local, o) \in Nat /\ Times(done, o) \in Nat
                     /\ Times(s.gone, o) \in Nat
  <1>1. s \in State /\ cons.local \in Seq(Ops) /\ done \in Seq(Ops)
    BY DEF TypeOK
  <1>2. \A x \in Queues :
          /\ s.q[x] \in QueueState
          /\ s.q[x].ops \in Seq(Ops) /\ s.q[x].ready \in BOOLEAN /\ s.q[x].ref \in Int
          /\ s.q[x].fwd \in {Null, Dst} /\ s.q[x].yield \in BOOLEAN
          /\ s.q[x].io \in BOOLEAN /\ s.q[x].sent \in BOOLEAN /\ s.q[x].fd \in BOOLEAN
          /\ s.gone \in Seq(Ops) /\ s.sig \subseteq Queues
    BY <1>1, QueueIs
  <1>3. s.gone \in Seq(Ops) /\ s.sig \subseteq Queues
    BY <1>2, NamesApart
  <1>4. \A x \in Queues : \A o : Times(s.q[x].ops, o) \in Nat
    BY <1>2, TimesIs
  <1>5. \A o : Times(cons.local, o) \in Nat
    BY <1>1, TimesIs
  <1>6. \A o : Times(done, o) \in Nat
    BY <1>1, TimesIs
  <1>7. \A o : Times(s.gone, o) \in Nat
    BY <1>3, TimesIs
  <1> QED BY <1>1, <1>2, <1>3, <1>4, <1>5, <1>6, <1>7

LEMMA Counts ==
    ASSUME TypeOK, NEW o
    PROVE  /\ Times(s.q[Src].ops, o) \in Nat /\ Times(s.q[Dst].ops, o) \in Nat
           /\ Times(cons.local, o) \in Nat /\ Times(s.gone, o) \in Nat
           /\ Times(done, o) \in Nat
  BY Typed, NamesApart

LEMMA InitInv == QueuesInit => Inv
  <1> SUFFICES ASSUME QueuesInit PROVE Inv
    OBVIOUS
  <1>1. PICK x \in {Src, Dst}, io \in BOOLEAN :
          /\ s = [q |-> [y \in Queues |->
                           [NewQ EXCEPT !.ref = IF y = Src THEN 2 ELSE 1, !.io = io /\ y = x]],
                  sig |-> {}, gone |-> <<>>]
          /\ cons = [pc |-> "idle", mode |-> "pop", poll |-> x, at |-> Null,
                     held |-> FALSE, local |-> <<>>, more |-> FALSE]
    BY DEF QueuesInit
  <1>2. prod = [op |-> 0, at |-> Null, held |-> FALSE] /\ req = "idle"
        /\ ctl = [n |-> 0, dead |-> FALSE] /\ done = <<>> /\ mixed = FALSE
    BY DEF QueuesInit
  <1>3. ASSUME NEW y \in Queues
        PROVE  /\ s.q[y] \in QueueState /\ s.q[y].ops = <<>> /\ s.q[y].ready
               /\ s.q[y].ref = (IF y = Src THEN 2 ELSE 1) /\ s.q[y].fwd = Null
               /\ ~s.q[y].yield /\ (s.q[y].io <=> io /\ y = x) /\ ~s.q[y].sent
               /\ ~s.q[y].fd
    <2> DEFINE n == IF y = Src THEN 2 ELSE 1
               d == (io /\ y = x)
    <2>1. s.q[y] = [ops |-> <<>>, ready |-> TRUE, ref |-> n, fwd |-> Null,
                    yield |-> FALSE, io |-> d, sent |-> FALSE, fd |-> FALSE]
      BY <1>1 DEF NewQ
    <2>2. n \in Int /\ d \in BOOLEAN /\ <<>> \in Seq(Ops)
      BY EmptyIs
    <2> HIDE DEF n, d
    <2>3. s.q[y] \in QueueState
      BY <2>1, <2>2 DEF QueueState
    <2>4. /\ s.q[y].ops = <<>> /\ s.q[y].ready /\ s.q[y].fwd = Null /\ s.q[y].io = d
          /\ ~s.q[y].yield /\ ~s.q[y].sent /\ ~s.q[y].fd /\ s.q[y].ref = n
      BY <2>1
    <2>5. s.q[y].io <=> d
      BY <2>4
    <2>6. s.q[y].io <=> io /\ y = x
      BY <2>5 DEF d
    <2>7. s.q[y].ref = (IF y = Src THEN 2 ELSE 1)
      BY <2>4 DEF n
    <2> QED BY <2>3, <2>4, <2>6, <2>7
  <1>4. DOMAIN s.q = Queues /\ s.sig = {} /\ s.gone = <<>>
    BY <1>1
  <1>5. TypeOK
    <2>1. s \in State
      <3>1. s = [q |-> s.q, sig |-> s.sig, gone |-> s.gone]
        BY <1>1
      <3>2. s.q = [y \in Queues |-> s.q[y]]
        BY <1>1
      <3>3. s.q \in [Queues -> QueueState]
        BY <1>3, <3>2
      <3>4. s.sig \in SUBSET Queues /\ s.gone \in Seq(Ops)
        BY <1>4, EmptyIs
      <3> QED BY <3>1, <3>3, <3>4 DEF State
    <2>2. prod \in [op : 0..Request, at : Polled \cup {Null}, held : BOOLEAN]
      BY <1>2, NamesApart
    <2>3. cons \in [pc : {"idle", "look", "wait", "retry", "handle"},
                   mode : {"pop", "serve"}, poll : Polled,
                   at : Polled \cup {Null}, held : BOOLEAN,
                   local : Seq(Ops), more : BOOLEAN]
      BY <1>1, EmptyIs DEF Polled
    <2> QED BY <1>2, <2>1, <2>2, <2>3, EmptyIs DEF TypeOK
  <1>6. Shape(s)
    BY <1>2, <1>3, NamesApart, EmptyIs DEF Shape
  <1>7. Threads
    BY <1>1, <1>2, NamesApart DEF Threads
  <1>8. Unanswered = 0
    BY <1>1, <1>3, NamesApart, EmptyIs DEF Unanswered
  <1>9. OneRequest
    BY <1>8 DEF OneRequest
  <1>10. Refs
    BY <1>1, <1>2, <1>3, <1>8, NamesApart DEF Refs
  <1>11. Kept
    BY <1>1, <1>2, <1>3, <1>4, NamesApart, EmptyIs DEF Kept, Places, Passed
  <1>12. Wakes
    BY <1>1, <1>3, NamesApart DEF Wakes
  <1>13. Ordered
    BY <1>1, <1>2, <1>3, NamesApart, EmptyIs DEF Ordered, Below
  <1> QED BY <1>5, <1>6, <1>7, <1>9, <1>10, <1>11, <1>12, <1>13 DEF Inv

(* A thread enters rd_kafka_q_enq1().                                      *)
LEMMA EnqCallKeeps == ASSUME Inv, EnqCall PROVE Inv'
  <1>1. /\ prod.at = Null /\ prod.op < OpCount
        /\ prod' = [op |-> prod.op + 1, at |-> Src, held |-> FALSE]
        /\ s' = s /\ cons' = cons /\ req' = req /\ ctl' = ctl /\ done' = done
        /\ mixed' = mixed
    BY DEF EnqCall
  <1>2. prod.op \in 0..Request
    BY DEF Inv, TypeOK
  <1>3. \A o \in 1..OpCount : Passed(o)' <=> Passed(o)
    BY <1>1, <1>2, NamesApart DEF Passed
  <1>4. TypeOK'
    BY <1>1, <1>2, NamesApart DEF Inv, TypeOK
  <1>5. Shape(s)'
    BY <1>1 DEF Inv, Shape
  <1>6. Threads'
    BY <1>1, <1>2, NamesApart DEF Inv, Threads
  <1>7. OneRequest'
    BY <1>1 DEF Inv, OneRequest, Unanswered
  <1>8. Refs'
    BY <1>1, <1>2, NamesApart DEF Inv, Refs, Unanswered
  <1>9. Kept'
    BY <1>1, <1>3 DEF Inv, Kept, Places
  <1>10. Wakes'
    BY <1>1 DEF Inv, Wakes, Watches
  <1>11. Ordered'
    BY <1>1, <1>3, NamesApart DEF Inv, Ordered
  <1> QED BY <1>4, <1>5, <1>6, <1>7, <1>8, <1>9, <1>10, <1>11 DEF Inv

(* Dst has a reference of its own and one of the thread that releases it.  *)
LEMMA LetGo ==
    ASSUME NEW m \in State, m.q[Dst].ref >= 2
    PROVE  LET n == Release(m, Dst)
           IN  /\ n \in State /\ n.sig = m.sig /\ n.gone = m.gone
               /\ n.q[Src] = m.q[Src] /\ n.q[Recv] = m.q[Recv]
               /\ n.q[Dst].ref = m.q[Dst].ref - 1
               /\ n.q[Dst].ops = m.q[Dst].ops /\ n.q[Dst].ready = m.q[Dst].ready
               /\ n.q[Dst].fwd = m.q[Dst].fwd /\ n.q[Dst].yield = m.q[Dst].yield
               /\ n.q[Dst].io = m.q[Dst].io /\ n.q[Dst].sent = m.q[Dst].sent
               /\ n.q[Dst].fd = m.q[Dst].fd
  <1>1. m.q[Dst] \in QueueState /\ m.q[Dst].ref \in Int
    BY NamesApart, QueueIs
  <1>2. Release(m, Dst) = Unref(m, Dst)
    BY <1>1, NamesApart, ReleaseIs
  <1> DEFINE n == Unref(m, Dst)
  <1>3. /\ n \in State /\ n.sig = m.sig /\ n.gone = m.gone /\ Elsewhere(m, n, Dst)
        /\ n.q[Dst] = [m.q[Dst] EXCEPT !.ref = @ - 1]
    BY NamesApart, UnrefIs
  <1> HIDE DEF n
  <1>4. n.q[Src] = m.q[Src] /\ n.q[Recv] = m.q[Recv]
    BY <1>3, NamesApart DEF Elsewhere
  <1>5. /\ n.q[Dst].ref = m.q[Dst].ref - 1
        /\ n.q[Dst].ops = m.q[Dst].ops /\ n.q[Dst].ready = m.q[Dst].ready
        /\ n.q[Dst].fwd = m.q[Dst].fwd /\ n.q[Dst].yield = m.q[Dst].yield
        /\ n.q[Dst].io = m.q[Dst].io /\ n.q[Dst].sent = m.q[Dst].sent
        /\ n.q[Dst].fd = m.q[Dst].fd
    BY <1>1, <1>3 DEF QueueState
  <1> QED BY <1>2, <1>3, <1>4, <1>5 DEF n

(* The op is destroyed, since the queue was disabled.                      *)
LEMMA EnqRefused ==
    ASSUME Inv, EnqStep, ~s.q[prod.at].ready
    PROVE  Inv'
  <1>0. /\ prod.at # Null
        /\ s' = (IF prod.held THEN Release([s EXCEPT !.gone = Append(@, prod.op)], prod.at)
                 ELSE [s EXCEPT !.gone = Append(@, prod.op)])
        /\ prod' = [prod EXCEPT !.at = Null, !.held = FALSE]
        /\ cons' = cons /\ req' = req /\ ctl' = ctl /\ done' = done /\ mixed' = mixed
    BY DEF EnqStep
  <1>1. /\ prod.op \in 1..OpCount /\ prod.at = Src /\ ~prod.held /\ ctl.dead
        /\ prod \in [op : 0..Request, at : Polled \cup {Null}, held : BOOLEAN]
    BY <1>0, NamesApart DEF Inv, TypeOK, Shape, Threads
  <1>2. prod.op \in Ops /\ prod.op # Request
    BY <1>1, NamesApart
  <1>3. s' = [s EXCEPT !.gone = Append(@, prod.op)] /\ s \in State
    BY <1>0, <1>1 DEF Inv, TypeOK
  <1> DEFINE g == s.gone \o <<prod.op>>
  <1>4. g \in Seq(Ops) /\ \A o : Times(g, o) = Times(s.gone, o) + Hit(o, prod.op)
    <2>1. s.gone \in Seq(Ops) /\ <<prod.op>> \in Seq(Ops)
          /\ \A o : Times(<<prod.op>>, o) = Hit(o, prod.op)
      BY <1>2, Typed, OneIs DEF Inv
    <2>2. g \in Seq(Ops)
      BY <2>1, ConcatIs
    <2>3. \A o : Times(g, o) = Times(s.gone, o) + Times(<<prod.op>>, o)
      BY <2>1, TimesConcat
    <2> QED BY <2>1, <2>2, <2>3
  <1>5. Append(s.gone, prod.op) = g
    BY <1>2, Typed, AppendIs DEF Inv
  <1> HIDE DEF g
  <1>6. s' \in State /\ s'.q = s.q /\ s'.sig = s.sig /\ s'.gone = g
    BY <1>3, <1>4, <1>5 DEF State
  <1>7. prod'.at = Null /\ prod'.op = prod.op
    BY <1>0, <1>1
  <1>8. \A o \in 1..OpCount : Passed(o)' <=> Passed(o) \/ o = prod.op
    BY <1>0, <1>1, <1>7, NamesApart DEF Passed
  <1>9. ~Passed(prod.op)
    BY <1>0, <1>1, NamesApart DEF Passed
  <1>10. TypeOK'
    BY <1>0, <1>1, <1>6, NamesApart DEF Inv, TypeOK
  <1>11. Shape(s)'
    BY <1>0, <1>6 DEF Inv, Shape
  <1>12. Threads'
    BY <1>0, <1>7 DEF Inv, Threads
  <1>13. OneRequest'
    BY <1>0, <1>6 DEF Inv, OneRequest, Unanswered
  <1>14. Refs'
    BY <1>0, <1>1, <1>6, <1>7, NamesApart DEF Inv, Refs, Unanswered
  <1>15. Kept'
    <2> SUFFICES ASSUME NEW o \in 1..OpCount
                 PROVE  Places(o)' = IF Passed(o)' THEN 1 ELSE 0
      BY DEF Kept
    <2>1. Places(o) = IF Passed(o) THEN 1 ELSE 0
      BY DEF Inv, Kept
    <2>2. Places(o)' = Places(o) + Hit(o, prod.op)
      <3>1. /\ Times(s.q[Src].ops, o) \in Nat /\ Times(s.q[Dst].ops, o) \in Nat
            /\ Times(cons.local, o) \in Nat /\ Times(s.gone, o) \in Nat
            /\ Times(done, o) \in Nat /\ Hit(o, prod.op) \in Nat
        BY Counts, HitIs DEF Inv
      <3>2. Times(s'.gone, o) = Times(s.gone, o) + Hit(o, prod.op)
        BY <1>4, <1>6
      <3> QED BY <1>0, <1>6, <3>1, <3>2 DEF Places
    <2> QED BY <1>8, <1>9, <2>1, <2>2, HitIs
  <1>16. Wakes'
    BY <1>0, <1>6 DEF Inv, Wakes, Watches
  <1>17. Ordered'
    BY <1>0, <1>1, <1>6, <1>7, <1>8, NamesApart DEF Inv, Ordered
  <1> QED BY <1>10, <1>11, <1>12, <1>13, <1>14, <1>15, <1>16, <1>17 DEF Inv

(* The op goes on the queue.                                               *)
LEMMA EnqPut ==
    ASSUME Inv, EnqStep, s.q[prod.at].ready, s.q[prod.at].fwd = Null
    PROVE  Inv'
  <1>0. /\ prod.at # Null
        /\ s' = (IF prod.held THEN Release(EnqHere(s, prod.at, prod.op, FALSE), prod.at)
                 ELSE EnqHere(s, prod.at, prod.op, FALSE))
        /\ prod' = [prod EXCEPT !.at = Null, !.held = FALSE]
    BY DEF EnqStep
  <1>v. cons' = cons /\ req' = req /\ ctl' = ctl /\ done' = done /\ mixed' = mixed
    BY DEF EnqStep
  <1> DEFINE x == prod.at
             a == s.q[x].ops
  <1>h. PICK h \in BOOLEAN : h = FALSE
    OBVIOUS
  <1> DEFINE n == EnqHere(s, x, prod.op, h)
             b == Insert(a, prod.op, h)
  <1>1. /\ prod.op \in 1..OpCount /\ x \in Polled /\ (prod.held <=> x = Dst)
        /\ prod \in [op : 0..Request, at : Polled \cup {Null}, held : BOOLEAN]
        /\ s \in State
    BY <1>0, NamesApart DEF Inv, TypeOK, Threads
  <1>2. prod.op \in Ops /\ prod.op # Request /\ x \in Queues
    BY <1>1, NamesApart
  <1>3. /\ n \in State /\ n.sig = s.sig \cup {x} /\ n.gone = s.gone /\ Elsewhere(s, n, x)
        /\ n.q[x].ops = b /\ Alike(s.q[x], n.q[x])
        /\ n.q[x].sent <=> s.q[x].sent \/ (s.q[x].io /\ a = <<>>)
        /\ n.q[x].fd <=> s.q[x].fd \/ (s.q[x].io /\ ~s.q[x].sent /\ a = <<>>)
    BY <1>1, <1>2, EnqHereIs
  <1>4. a \in Seq(Ops)
    BY <1>2, Typed DEF Inv
  <1>5. /\ b \in Seq(Ops) /\ b # <<>>
        /\ \A p : Times(b, p) = Times(a, p) + Hit(p, prod.op)
        /\ Plain(b) = Plain(a) \cup ({prod.op} \cap Plains)
        /\ Rising(a) /\ Below(Plain(a), {prod.op} \cap Plains) => Rising(b)
    BY <1>2, <1>4, InsertIs
  <1>s. s' = IF x = Dst THEN Release(n, Dst) ELSE n
    BY <1>0, <1>1, <1>h
  <1> HIDE DEF x, n, b
  <1>6. /\ s' \in State /\ s'.sig = s.sig \cup {x} /\ s'.gone = s.gone
        /\ \A y \in Queues \ {x} : s'.q[y] = s.q[y]
        /\ s'.q[x].ops = b /\ s'.q[x].ready = s.q[x].ready /\ s'.q[x].fwd = s.q[x].fwd
        /\ s'.q[x].yield = s.q[x].yield /\ s'.q[x].io = s.q[x].io
        /\ s'.q[x].ref = s.q[x].ref - (IF x = Dst THEN 1 ELSE 0)
        /\ s'.q[x].sent <=> s.q[x].sent \/ (s.q[x].io /\ a = <<>>)
        /\ s'.q[x].fd <=> s.q[x].fd \/ (s.q[x].io /\ ~s.q[x].sent /\ a = <<>>)
    <2>1. CASE x = Dst
      <3>1. n.q[Dst].ref >= 2
        BY <1>1, <1>3, <2>1, NamesApart DEF Inv, Refs, Alike, x
      <3>2. s' = Release(n, Dst)
        BY <1>s, <2>1
      <3>3. /\ s' \in State /\ s'.sig = n.sig /\ s'.gone = n.gone
            /\ s'.q[Src] = n.q[Src] /\ s'.q[Recv] = n.q[Recv]
            /\ s'.q[Dst].ref = n.q[Dst].ref - 1
            /\ s'.q[Dst].ops = n.q[Dst].ops /\ s'.q[Dst].ready = n.q[Dst].ready
            /\ s'.q[Dst].fwd = n.q[Dst].fwd /\ s'.q[Dst].yield = n.q[Dst].yield
            /\ s'.q[Dst].io = n.q[Dst].io /\ s'.q[Dst].sent = n.q[Dst].sent
            /\ s'.q[Dst].fd = n.q[Dst].fd
        BY <1>3, <3>1, <3>2, LetGo
      <3>4. \A y \in Queues \ {x} : s'.q[y] = s.q[y]
        BY <1>3, <2>1, <3>3, NamesApart DEF Elsewhere
      <3>5. s'.q[x].ref = s.q[x].ref - (IF x = Dst THEN 1 ELSE 0)
        BY <1>3, <2>1, <3>3 DEF Alike
      <3> QED BY <1>3, <2>1, <3>3, <3>4, <3>5 DEF Alike
    <2>2. CASE x # Dst
      <3>1. s.q[x].ref \in Int
        BY <1>2, Typed DEF Inv
      <3>2. s' = n
        BY <1>s, <2>2
      <3>3. s'.q[x].ref = s.q[x].ref - (IF x = Dst THEN 1 ELSE 0)
        <4>1. s'.q[x].ref = s.q[x].ref
          BY <1>3, <3>2 DEF Alike
        <4> QED BY <2>2, <3>1, <4>1
      <3> QED BY <1>3, <3>2, <3>3 DEF Elsewhere, Alike
    <2> QED BY <2>1, <2>2
  <1>7. prod'.at = Null /\ prod'.op = prod.op
    BY <1>0, <1>1
  <1>8. \A o \in 1..OpCount : Passed(o)' <=> Passed(o) \/ o = prod.op
    BY <1>0, <1>1, <1>7, NamesApart DEF Passed, x
  <1>9. ~Passed(prod.op)
    BY <1>0, <1>1, NamesApart DEF Passed, x
  <1>u. /\ x = Src => s'.q[Dst] = s.q[Dst] /\ s'.q[Recv] = s.q[Recv]
        /\ x = Dst => s'.q[Src] = s.q[Src] /\ s'.q[Recv] = s.q[Recv]
    BY <1>6, NamesApart
  <1>p. prod.at = x /\ (x = Src \/ x = Dst)
    BY <1>1, NamesApart DEF x
  <1>10. TypeOK'
    BY <1>0, <1>v, <1>1, <1>6, NamesApart DEF Inv, TypeOK
  <1>11. Shape(s)'
    <2>1. x = Src => ~ctl.dead /\ s.q[Src].fwd = Null
      BY <1>p DEF Inv, Shape
    <2>2. /\ s'.q[Dst].fwd = s.q[Dst].fwd /\ s'.q[Dst].ready = s.q[Dst].ready
          /\ s'.q[Src].fwd = s.q[Src].fwd /\ s'.q[Src].ready = s.q[Src].ready
          /\ s'.q[Recv] = s.q[Recv]
      BY <1>6, <1>u, <1>p
    <2>3. s'.q[Src].fwd # Null \/ ctl.dead => s'.q[Src].ops = s.q[Src].ops
      BY <1>u, <1>p, <2>1, <2>2
    <2> QED BY <1>v, <2>2, <2>3 DEF Inv, Shape
  <1>12. Threads'
    BY <1>v, <1>7 DEF Inv, Threads
  <1>t. ASSUME NEW o PROVE /\ Times(s'.q[Src].ops, o) + Times(s'.q[Dst].ops, o)
                                = Times(s.q[Src].ops, o) + Times(s.q[Dst].ops, o)
                                    + Hit(o, prod.op)
    <2>1. Times(s.q[Src].ops, o) \in Nat /\ Times(s.q[Dst].ops, o) \in Nat
          /\ Hit(o, prod.op) \in Nat
      BY Counts, HitIs DEF Inv
    <2>2. Times(s'.q[x].ops, o) = Times(s.q[x].ops, o) + Hit(o, prod.op)
      BY <1>5, <1>6
    <2>3. CASE x = Src
      <3>1. Times(s'.q[Src].ops, o) = Times(s.q[Src].ops, o) + Hit(o, prod.op)
            /\ s'.q[Dst] = s.q[Dst]
        BY <1>u, <2>2, <2>3
      <3> QED BY <2>1, <3>1
    <2>4. CASE x = Dst
      <3>1. Times(s'.q[Dst].ops, o) = Times(s.q[Dst].ops, o) + Hit(o, prod.op)
            /\ s'.q[Src] = s.q[Src]
        BY <1>u, <2>2, <2>4
      <3> QED BY <2>1, <3>1
    <2> QED BY <1>p, <2>3, <2>4
  <1>13. Unanswered' = Unanswered
    <2>1. Times(s'.q[Src].ops, Request) + Times(s'.q[Dst].ops, Request)
            = Times(s.q[Src].ops, Request) + Times(s.q[Dst].ops, Request)
      <3>1. Times(s.q[Src].ops, Request) \in Nat /\ Times(s.q[Dst].ops, Request) \in Nat
        BY Counts DEF Inv
      <3>2. Times(s'.q[Src].ops, Request) + Times(s'.q[Dst].ops, Request)
              = Times(s.q[Src].ops, Request) + Times(s.q[Dst].ops, Request) + 0
        BY <1>t, <1>2, HitIs
      <3> QED BY <3>1, <3>2
    <2> QED BY <1>v, <2>1 DEF Unanswered
  <1>14. OneRequest'
    BY <1>v, <1>13 DEF Inv, OneRequest
  <1>15. Refs'
    <2>1. s'.q[Src].fwd = s.q[Src].fwd /\ s'.q[Recv] = s.q[Recv]
      BY <1>6, <1>u, <1>p
    <2>2. s'.q[Src].ref = s.q[Src].ref
          /\ s'.q[Dst].ref = s.q[Dst].ref - (IF prod.at = Dst THEN 1 ELSE 0)
      <3>1. s.q[Src].ref \in Int /\ s.q[Dst].ref \in Int
        BY Typed, NamesApart DEF Inv
      <3>2. CASE x = Src
        <4>1. s'.q[Src].ref = s.q[Src].ref - 0 /\ s'.q[Dst] = s.q[Dst]
          BY <1>6, <1>u, <3>2, NamesApart
        <4> QED BY <1>p, <3>1, <3>2, <4>1, NamesApart
      <3>3. CASE x = Dst
        BY <1>6, <1>u, <1>p, <3>1, <3>3, NamesApart
      <3> QED BY <1>p, <3>2, <3>3
    <2>3. s.q[Dst].ref = 1 + (IF s.q[Src].fwd = Dst THEN 1 ELSE 0)
                         + (IF prod.at = Dst THEN 1 ELSE 0)
                         + (IF cons.held /\ cons.at = Dst THEN 1 ELSE 0)
      BY DEF Inv, Refs
    <2>4. s'.q[Dst].ref = 1 + (IF s'.q[Src].fwd = Dst THEN 1 ELSE 0)
                         + (IF prod'.at = Dst THEN 1 ELSE 0)
                         + (IF cons.held /\ cons.at = Dst THEN 1 ELSE 0)
      BY <1>7, <2>1, <2>2, <2>3, NamesApart
    <2> QED BY <1>v, <1>7, <1>13, <2>1, <2>2, <2>4 DEF Inv, Refs
  <1>16. Kept'
    <2> SUFFICES ASSUME NEW o \in 1..OpCount
                 PROVE  Places(o)' = IF Passed(o)' THEN 1 ELSE 0
      BY DEF Kept
    <2>1. Places(o) = IF Passed(o) THEN 1 ELSE 0
      BY DEF Inv, Kept
    <2>2. Places(o)' = Places(o) + Hit(o, prod.op)
      <3>1. /\ Times(s.q[Src].ops, o) \in Nat /\ Times(s.q[Dst].ops, o) \in Nat
            /\ Times(cons.local, o) \in Nat /\ Times(s.gone, o) \in Nat
            /\ Times(done, o) \in Nat /\ Hit(o, prod.op) \in Nat
        BY Counts, HitIs DEF Inv
      <3>2. Times(s'.q[Src].ops, o) + Times(s'.q[Dst].ops, o)
              = Times(s.q[Src].ops, o) + Times(s.q[Dst].ops, o) + Hit(o, prod.op)
        BY <1>t
      <3>3. s'.gone = s.gone /\ cons' = cons /\ done' = done
        BY <1>6, <1>v
      <3> QED BY <1>v, <3>1, <3>2, <3>3 DEF Places
    <2> QED BY <1>8, <1>9, <2>1, <2>2, HitIs
  <1>17. Wakes'
    <2>1. \A y \in Polled : s'.q[y].sent /\ s'.q[y].ops = <<>> => s'.q[y].yield
      BY <1>5, <1>6, NamesApart DEF Inv, Wakes
    <2>2. cons.poll \in Polled
      BY DEF Inv, TypeOK
    <2>3. s'.q[cons.poll].io = s.q[cons.poll].io
      BY <1>6, <2>2, NamesApart
    <2>4. Watches /\ s'.q[cons.poll].io /\ s'.q[cons.poll].ops # <<>>
            => s'.q[cons.poll].fd \/ (s'.q[cons.poll].sent /\ s'.q[cons.poll].yield)
      <3>1. CASE cons.poll = x
        BY <1>6, <2>2, <3>1 DEF Inv, Wakes
      <3>2. CASE cons.poll # x
        BY <1>6, <2>2, <3>2, NamesApart DEF Inv, Wakes
      <3> QED BY <3>1, <3>2
    <2>5. cons.pc = "wait" /\ (s'.q[cons.at].ops # <<>> \/ s'.q[cons.at].yield)
            => cons.at \in s'.sig
      <3>1. cons.pc = "wait" => cons.at \in Polled
        BY DEF Inv, TypeOK, Threads
      <3> QED BY <1>6, <3>1, NamesApart DEF Inv, Wakes
    <2> QED BY <1>v, <2>1, <2>3, <2>4, <2>5 DEF Inv, Wakes, Watches
  <1>18. Ordered'
    <2> SUFFICES ASSUME ~mixed PROVE Ordered'
      BY <1>v DEF Ordered
    <2>1. /\ Rising(done) /\ Rising(cons.local)
          /\ Rising(s.q[Src].ops) /\ Rising(s.q[Dst].ops)
          /\ Below(Plain(done), Plain(cons.local))
          /\ \A y \in Polled : /\ Below(Plain(done), Plain(s.q[y].ops))
                               /\ Below(Plain(cons.local), Plain(s.q[y].ops))
          /\ ~ctl.dead /\ s.q[Src].fwd = Null => Plain(s.q[Dst].ops) = {}
          /\ ~ctl.dead /\ s.q[Src].fwd = Null /\ cons.at = Dst => Plain(cons.local) = {}
          /\ prod.at = Dst => s.q[Src].fwd = Dst
          /\ \A o \in 1..OpCount :
               o \in Plain(done) \cup Plain(cons.local) \cup Plain(s.q[Src].ops)
                       \cup Plain(s.q[Dst].ops)
                 => Passed(o)
      BY DEF Inv, Ordered
    <2>2. \A c : Plain(c) \subseteq 1..OpCount
      BY NamesApart DEF Plain
    <2>3. \A o \in 1..OpCount : Passed(o) => o < prod.op
      BY <1>0, <1>1, NamesApart DEF Passed, x
    <2>4. Below(Plain(done), {prod.op}) /\ Below(Plain(cons.local), {prod.op})
          /\ Below(Plain(a), {prod.op})
      BY <1>p, <2>1, <2>2, <2>3 DEF Below
    <2>5. Rising(b)
      BY <1>5, <1>p, <2>1, <2>4 DEF Below
    <2>6. Below(Plain(done), Plain(b)) /\ Below(Plain(cons.local), Plain(b))
      BY <1>5, <1>p, <2>1, <2>4, NamesApart DEF Below
    <2>7. Rising(s'.q[Src].ops) /\ Rising(s'.q[Dst].ops)
      BY <1>6, <1>p, <1>u, <2>1, <2>5
    <2>8. \A y \in Polled : /\ Below(Plain(done), Plain(s'.q[y].ops))
                            /\ Below(Plain(cons.local), Plain(s'.q[y].ops))
      BY <1>6, <2>1, <2>6, NamesApart
    <2>9. ~ctl.dead /\ s'.q[Src].fwd = Null => Plain(s'.q[Dst].ops) = {}
      <3>1. s'.q[Src].fwd = s.q[Src].fwd
        BY <1>6, <1>p, <1>u
      <3>2. CASE x = Src
        BY <1>u, <2>1, <3>1, <3>2
      <3>3. CASE x = Dst
        BY <1>p, <2>1, <3>1, <3>3, NamesApart
      <3> QED BY <1>p, <3>2, <3>3
    <2>10. \A o \in 1..OpCount :
             o \in Plain(done) \cup Plain(cons.local) \cup Plain(s'.q[Src].ops)
                     \cup Plain(s'.q[Dst].ops)
               => Passed(o)'
      <3>1. Plain(s'.q[Src].ops) \cup Plain(s'.q[Dst].ops)
              \subseteq Plain(s.q[Src].ops) \cup Plain(s.q[Dst].ops) \cup {prod.op}
        BY <1>5, <1>6, <1>p, <1>u
      <3> QED BY <1>8, <2>1, <3>1
    <2>11. s'.q[Src].fwd = s.q[Src].fwd
      BY <1>6, <1>p, <1>u
    <2> QED BY <1>v, <1>7, <2>1, <2>7, <2>8, <2>9, <2>10, <2>11, NamesApart DEF Ordered
  <1> QED BY <1>10, <1>11, <1>12, <1>14, <1>15, <1>16, <1>17, <1>18 DEF Inv

(* References and forwards change, and nothing else of the queues.         *)
Quiet(m, n) ==
    /\ n \in State /\ n.sig = m.sig /\ n.gone = m.gone
    /\ \A x \in Queues :
         /\ n.q[x].ops = m.q[x].ops /\ n.q[x].ready = m.q[x].ready
         /\ n.q[x].yield = m.q[x].yield /\ n.q[x].io = m.q[x].io
         /\ n.q[x].sent = m.q[x].sent /\ n.q[x].fd = m.q[x].fd

LEMMA QuietKeep ==
    ASSUME NEW m \in State
    PROVE  LET n == Keep(m, Dst)
           IN  /\ Quiet(m, n) /\ n.q[Src] = m.q[Src] /\ n.q[Recv] = m.q[Recv]
               /\ n.q[Dst].ref = m.q[Dst].ref + 1 /\ n.q[Dst].fwd = m.q[Dst].fwd
  <1> DEFINE n == Keep(m, Dst)
  <1>1. m.q[Dst] \in QueueState /\ m.q[Dst].ref \in Int
    BY NamesApart, QueueIs
  <1>2. /\ n \in State /\ n.sig = m.sig /\ n.gone = m.gone /\ Elsewhere(m, n, Dst)
        /\ n.q[Dst] = [m.q[Dst] EXCEPT !.ref = @ + 1]
    BY NamesApart, KeepIs
  <1> HIDE DEF n
  <1>3. n.q[Src] = m.q[Src] /\ n.q[Recv] = m.q[Recv]
    BY <1>2, NamesApart DEF Elsewhere
  <1>4. /\ n.q[Dst].ref = m.q[Dst].ref + 1
        /\ n.q[Dst].ops = m.q[Dst].ops /\ n.q[Dst].ready = m.q[Dst].ready
        /\ n.q[Dst].fwd = m.q[Dst].fwd /\ n.q[Dst].yield = m.q[Dst].yield
        /\ n.q[Dst].io = m.q[Dst].io /\ n.q[Dst].sent = m.q[Dst].sent
        /\ n.q[Dst].fd = m.q[Dst].fd
    BY <1>1, <1>2 DEF QueueState
  <1>5. Quiet(m, n)
    BY <1>2, <1>3, <1>4, NamesApart DEF Quiet
  <1> QED BY <1>3, <1>4, <1>5 DEF n

LEMMA QuietLetGo ==
    ASSUME NEW m \in State, m.q[Dst].ref >= 2
    PROVE  LET n == Release(m, Dst)
           IN  /\ Quiet(m, n) /\ n.q[Src] = m.q[Src] /\ n.q[Recv] = m.q[Recv]
               /\ n.q[Dst].ref = m.q[Dst].ref - 1 /\ n.q[Dst].fwd = m.q[Dst].fwd
  <1> DEFINE n == Release(m, Dst)
  <1>1. /\ n \in State /\ n.sig = m.sig /\ n.gone = m.gone
        /\ n.q[Src] = m.q[Src] /\ n.q[Recv] = m.q[Recv]
        /\ n.q[Dst].ref = m.q[Dst].ref - 1
        /\ n.q[Dst].ops = m.q[Dst].ops /\ n.q[Dst].ready = m.q[Dst].ready
        /\ n.q[Dst].fwd = m.q[Dst].fwd /\ n.q[Dst].yield = m.q[Dst].yield
        /\ n.q[Dst].io = m.q[Dst].io /\ n.q[Dst].sent = m.q[Dst].sent
        /\ n.q[Dst].fd = m.q[Dst].fd
    BY LetGo
  <1> HIDE DEF n
  <1>2. Quiet(m, n)
    BY <1>1, NamesApart DEF Quiet
  <1> QED BY <1>1, <1>2 DEF n

(* The ops stay where they are.                                            *)
Still == /\ s'.gone = s.gone /\ cons'.local = cons.local /\ done' = done
         /\ s'.q[Src].ops = s.q[Src].ops /\ s'.q[Dst].ops = s.q[Dst].ops

LEMMA StillQuiet ==
    ASSUME Quiet(s, s'), cons'.local = cons.local, done' = done PROVE Still
  BY NamesApart DEF Quiet, Still

LEMMA StillIs ==
    ASSUME Still
    PROVE  Unanswered' = Unanswered /\ \A o : Places(o)' = Places(o)
  BY DEF Still, Unanswered, Places

LEMMA StillOne ==
    ASSUME Inv, Still, req' = req PROVE OneRequest'
  BY StillIs DEF Inv, OneRequest

LEMMA StillKept ==
    ASSUME Inv, Still, \A o \in 1..OpCount : Passed(o)' <=> Passed(o) PROVE Kept'
  BY StillIs DEF Inv, Kept

LEMMA StillOrdered ==
    ASSUME Inv, Still, \A o \in 1..OpCount : Passed(o)' <=> Passed(o), mixed' = mixed,
           cons'.at = cons.at \/ cons.local = <<>>,
           ~mixed => /\ ~ctl'.dead /\ s'.q[Src].fwd = Null
                          => ~ctl.dead /\ s.q[Src].fwd = Null
                     /\ prod'.at = Dst => s'.q[Src].fwd = Dst
    PROVE  Ordered'
  BY EmptyIs, NamesApart DEF Inv, Still, Ordered

LEMMA QuietWakes ==
    ASSUME Inv, Quiet(s, s'), cons' = cons PROVE Wakes'
  <1>1. cons.poll \in Queues /\ cons.at \in Queues \cup {Null}
    BY NamesApart DEF Inv, TypeOK
  <1>2. cons.pc = "wait" => cons.at \in Queues
    BY <1>1 DEF Inv, Threads
  <1> QED BY <1>1, <1>2, NamesApart DEF Inv, Wakes, Watches, Quiet

(* The producer keeps Dst and goes on there.                               *)
LEMMA EnqOn ==
    ASSUME Inv, EnqStep, s.q[prod.at].ready, s.q[prod.at].fwd # Null
    PROVE  Inv'
  <1>1. /\ prod.at # Null /\ prod' = [prod EXCEPT !.at = s.q[prod.at].fwd, !.held = TRUE]
        /\ s' = (IF prod.held THEN Release(Keep(s, s.q[prod.at].fwd), prod.at)
                 ELSE Keep(s, s.q[prod.at].fwd))
    BY DEF EnqStep, EnqFwd
  <1>v. cons' = cons /\ req' = req /\ ctl' = ctl /\ done' = done /\ mixed' = mixed
    BY DEF EnqStep
  <1>2. /\ prod \in [op : 0..Request, at : Polled \cup {Null}, held : BOOLEAN]
        /\ prod.op \in 1..OpCount /\ s \in State /\ s.q[Dst].fwd = Null
    BY <1>1 DEF Inv, TypeOK, Threads, Shape
  <1>3. prod.at = Src /\ ~prod.held
    BY <1>1, <1>2, NamesApart DEF Inv, Threads
  <1>4. s.q[Src].fwd = Dst
    BY <1>3, Typed, NamesApart DEF Inv
  <1>5. s' = Keep(s, Dst)
    BY <1>1, <1>3, <1>4
  <1>6. /\ Quiet(s, s') /\ s'.q[Src] = s.q[Src] /\ s'.q[Recv] = s.q[Recv]
        /\ s'.q[Dst].ref = s.q[Dst].ref + 1 /\ s'.q[Dst].fwd = s.q[Dst].fwd
    BY <1>2, <1>5, QuietKeep
  <1>7. prod'.at = Dst /\ prod'.op = prod.op /\ prod'.held
    BY <1>1, <1>2, <1>3, <1>4
  <1>8. \A o \in 1..OpCount : Passed(o)' <=> Passed(o)
    BY <1>1, <1>7, NamesApart DEF Passed
  <1>s. Still
    BY <1>6, <1>v, StillQuiet
  <1>10. TypeOK'
    BY <1>1, <1>2, <1>3, <1>4, <1>6, <1>v, NamesApart DEF Inv, TypeOK, Quiet
  <1>11. Shape(s)'
    BY <1>6, <1>v, NamesApart DEF Inv, Shape, Quiet
  <1>12. Threads'
    BY <1>2, <1>7, <1>v DEF Inv, Threads
  <1>13. OneRequest'
    BY <1>s, <1>v, StillOne
  <1>14. Refs'
    <2>1. s.q[Dst].ref = 1 + (IF s.q[Src].fwd = Dst THEN 1 ELSE 0) + 0
                         + (IF cons.held /\ cons.at = Dst THEN 1 ELSE 0)
      BY <1>3, NamesApart DEF Inv, Refs
    <2>2. s'.q[Dst].ref = 1 + (IF s'.q[Src].fwd = Dst THEN 1 ELSE 0) + 1
                         + (IF cons.held /\ cons.at = Dst THEN 1 ELSE 0)
      BY <1>6, <2>1
    <2>3. Unanswered' = Unanswered
      BY <1>s, StillIs
    <2> QED BY <1>6, <1>7, <1>v, <2>2, <2>3 DEF Inv, Refs
  <1>15. Kept'
    BY <1>s, <1>8, StillKept
  <1>16. Wakes'
    BY <1>6, <1>v, QuietWakes
  <1>17. Ordered'
    BY <1>4, <1>6, <1>8, <1>s, <1>v, StillOrdered
  <1> QED BY <1>10, <1>11, <1>12, <1>13, <1>14, <1>15, <1>16, <1>17 DEF Inv

LEMMA EnqStepKeeps == ASSUME Inv, EnqStep PROVE Inv'
  BY EnqRefused, EnqPut, EnqOn

-----------------------------------------------------------------------------
(* The producer ends. When the controller has destroyed Src before, that   *)
(* was the last reference and the forward goes with it.                    *)
LEMMA ProdEndsKeeps == ASSUME Inv, ProdEnds PROVE Inv'
  <1>1. /\ prod.at = Null /\ prod.op = OpCount /\ prod' = [prod EXCEPT !.op = OpCount + 1]
        /\ s' = Release(s, Src)
    BY DEF ProdEnds
  <1>v. cons' = cons /\ req' = req /\ ctl' = ctl /\ done' = done /\ mixed' = mixed
    BY DEF ProdEnds
  <1>2. /\ prod \in [op : 0..Request, at : Polled \cup {Null}, held : BOOLEAN]
        /\ s \in State /\ s.q[Src].ref \in Int /\ s.q[Dst].ref \in Int
        /\ s.q[Src] \in QueueState /\ s.q[Dst] \in QueueState
    BY Typed, NamesApart DEF Inv, TypeOK
  <1>3. prod'.at = Null /\ prod'.op = Request /\ prod'.held = prod.held
    BY <1>1, <1>2, NamesApart
  <1>4. s.q[Src].ref = (IF ctl.dead THEN 0 ELSE 1) + 1
    BY <1>1, NamesApart DEF Inv, Refs
  <1>5. /\ s' \in State /\ s'.sig = s.sig /\ s'.gone = s.gone /\ s'.q[Recv] = s.q[Recv]
        /\ s'.q[Src].ops = s.q[Src].ops /\ s'.q[Dst].ops = s.q[Dst].ops
        /\ s'.q[Src].ready = s.q[Src].ready /\ s'.q[Src].yield = s.q[Src].yield
        /\ s'.q[Src].io = s.q[Src].io /\ s'.q[Src].fd = s.q[Src].fd
        /\ s'.q[Src].ref = (IF ctl.dead THEN 0 ELSE 1)
        /\ s'.q[Src].sent = s.q[Src].sent \/ (ctl.dead /\ ~s'.q[Src].sent)
        /\ s'.q[Src].fwd = IF ctl.dead THEN Null ELSE s.q[Src].fwd
        /\ s'.q[Dst].ready = s.q[Dst].ready /\ s'.q[Dst].yield = s.q[Dst].yield
        /\ s'.q[Dst].io = s.q[Dst].io /\ s'.q[Dst].fd = s.q[Dst].fd
        /\ s'.q[Dst].sent = s.q[Dst].sent /\ s'.q[Dst].fwd = s.q[Dst].fwd
        /\ s'.q[Dst].ref = IF ctl.dead /\ s.q[Src].fwd # Null THEN s.q[Dst].ref - 1
                           ELSE s.q[Dst].ref
    <2>1. CASE ~ctl.dead
      <3>1. s' = Unref(s, Src)
        BY <1>1, <1>2, <1>4, <2>1, ReleaseIs, NamesApart
      <3>2. /\ s' \in State /\ s'.sig = s.sig /\ s'.gone = s.gone /\ Elsewhere(s, s', Src)
            /\ s'.q[Src] = [s.q[Src] EXCEPT !.ref = @ - 1]
        BY <1>2, <3>1, UnrefIs, NamesApart
      <3>3. s'.q[Dst] = s.q[Dst] /\ s'.q[Recv] = s.q[Recv]
        BY <3>2, NamesApart DEF Elsewhere
      <3>4. /\ s'.q[Src].ops = s.q[Src].ops /\ s'.q[Src].ready = s.q[Src].ready
            /\ s'.q[Src].yield = s.q[Src].yield /\ s'.q[Src].io = s.q[Src].io
            /\ s'.q[Src].fd = s.q[Src].fd /\ s'.q[Src].sent = s.q[Src].sent
            /\ s'.q[Src].fwd = s.q[Src].fwd /\ s'.q[Src].ref = s.q[Src].ref - 1
        BY <1>2, <3>2 DEF QueueState
      <3>5. s'.q[Src].ref = 1
        BY <1>4, <2>1, <3>4
      <3> QED BY <2>1, <3>2, <3>3, <3>4, <3>5
    <2>2. CASE ctl.dead
      <3>1. s.q[Src].ref = 1 /\ s.q[Src].ops = <<>> /\ ~s.q[Src].ready
        BY <1>4, <2>2 DEF Inv, Shape
      <3>2. Src \in {Src, Recv} /\ Recv \in {Src, Recv} \ {Src}
        BY NamesApart
      <3>3. /\ s' \in State /\ s'.sig = s.sig /\ s'.gone = s.gone \o s.q[Src].ops
            /\ s'.q[Src].ops = <<>> /\ ~s'.q[Src].ready /\ s'.q[Src].ref = 0
            /\ s'.q[Src].fwd = Null /\ ~s'.q[Src].sent /\ s'.q[Src].yield = s.q[Src].yield
            /\ s'.q[Src].io = s.q[Src].io /\ s'.q[Src].fd = s.q[Src].fd
            /\ s'.q[Dst] = IF s.q[Src].fwd = Null THEN s.q[Dst]
                           ELSE [s.q[Dst] EXCEPT !.ref = @ - 1]
            /\ \A y \in {Src, Recv} \ {Src} : s'.q[y] = s.q[y]
        BY <1>1, <1>2, <3>1, <3>2, FinalIs, NamesApart
      <3>4. s.gone \in Seq(Ops) /\ s'.gone = s.gone
        BY <1>2, <3>1, <3>3, Typed DEF Inv
      <3>5. s'.q[Recv] = s.q[Recv] /\ s'.q[Src].ready = s.q[Src].ready
        <4>1. s'.q[Src].ready \in BOOLEAN /\ s.q[Src].ready \in BOOLEAN
          BY <1>2, <3>3, QueueIs, NamesApart
        <4> QED BY <3>1, <3>2, <3>3, <4>1
      <3>6. /\ s'.q[Dst].ops = s.q[Dst].ops
            /\ s'.q[Dst].ready = s.q[Dst].ready /\ s'.q[Dst].yield = s.q[Dst].yield
            /\ s'.q[Dst].io = s.q[Dst].io /\ s'.q[Dst].fd = s.q[Dst].fd
            /\ s'.q[Dst].sent = s.q[Dst].sent /\ s'.q[Dst].fwd = s.q[Dst].fwd
            /\ s'.q[Dst].ref = IF s.q[Src].fwd # Null THEN s.q[Dst].ref - 1
                               ELSE s.q[Dst].ref
        BY <1>2, <3>3 DEF QueueState
      <3> QED BY <2>2, <3>1, <3>3, <3>4, <3>5, <3>6
    <2>3. ctl.dead \in BOOLEAN
      BY DEF Inv, TypeOK
    <2> QED BY <2>1, <2>2, <2>3
  <1>s. Still
    BY <1>5, <1>v DEF Still
  <1>8. \A o \in 1..OpCount : Passed(o)' <=> Passed(o)
    BY <1>1, <1>3, NamesApart DEF Passed
  <1>10. TypeOK'
    <2>1. prod' \in [op : 0..Request, at : Polled \cup {Null}, held : BOOLEAN]
      <3>1. OpCount + 1 \in 0..Request
        BY NamesApart
      <3> QED BY <1>1, <1>2, <3>1
    <2> QED BY <1>5, <1>v, <2>1 DEF Inv, TypeOK
  <1>11. Shape(s)'
    BY <1>5, <1>v DEF Inv, Shape
  <1>12. Threads'
    BY <1>3, <1>v DEF Inv, Threads
  <1>13. OneRequest'
    BY <1>s, <1>v, StillOne
  <1>14. Refs'
    <2>1. s.q[Dst].ref = 1 + (IF s.q[Src].fwd = Dst THEN 1 ELSE 0) + 0
                         + (IF cons.held /\ cons.at = Dst THEN 1 ELSE 0)
      BY <1>1, NamesApart DEF Inv, Refs
    <2>2. s.q[Src].fwd \in {Null, Dst}
      BY Typed, NamesApart DEF Inv
    <2>3. s'.q[Dst].ref = 1 + (IF s'.q[Src].fwd = Dst THEN 1 ELSE 0) + 0
                         + (IF cons.held /\ cons.at = Dst THEN 1 ELSE 0)
      BY <1>5, <2>1, <2>2, NamesApart
    <2>4. Unanswered' = Unanswered
      BY <1>s, StillIs
    <2>5. s'.q[Src].ref = (IF ctl.dead THEN 0 ELSE 1) + 0
      BY <1>5
    <2> QED BY <1>3, <1>5, <1>v, <2>3, <2>4, <2>5, NamesApart DEF Inv, Refs
  <1>15. Kept'
    BY <1>s, <1>8, StillKept
  <1>16. Wakes'
    <2>1. cons.poll \in Polled /\ cons.at \in Polled \cup {Null}
          /\ (cons.pc = "wait" => cons.at # Null) /\ (cons.poll = Src => ~ctl.dead)
      BY DEF Inv, TypeOK, Threads
    <2>2. \A x \in Polled : /\ s'.q[x].ops = s.q[x].ops /\ s'.q[x].yield = s.q[x].yield
                            /\ s'.q[x].io = s.q[x].io /\ s'.q[x].fd = s.q[x].fd
      BY <1>5, NamesApart
    <2>3. /\ \A x \in Polled : s'.q[x].sent => s.q[x].sent
          /\ s'.q[cons.poll].sent = s.q[cons.poll].sent
      BY <1>5, <2>1, NamesApart
    <2> QED BY <1>5, <1>v, <2>1, <2>2, <2>3, NamesApart DEF Inv, Wakes, Watches
  <1>17. Ordered'
    BY <1>3, <1>5, <1>8, <1>s, <1>v, StillOrdered, NamesApart
  <1> QED BY <1>10, <1>11, <1>12, <1>13, <1>14, <1>15, <1>16, <1>17 DEF Inv

-----------------------------------------------------------------------------
(* The consumer is called.                                                 *)
LEMMA PollCallKeeps ==
    ASSUME Inv, NEW mode \in {"pop", "serve"}, PollCall(mode) PROVE Inv'
  <1>1. /\ cons.pc = "idle" /\ s' = [s EXCEPT !.q[cons.poll].fd = FALSE]
        /\ cons' = [cons EXCEPT !.pc = "look", !.mode = mode, !.at = cons.poll,
                                !.held = FALSE]
    BY DEF PollCall
  <1>v. prod' = prod /\ req' = req /\ ctl' = ctl /\ done' = done /\ mixed' = mixed
    BY DEF PollCall
  <1>2. /\ cons \in [pc : {"idle", "look", "wait", "retry", "handle"},
                     mode : {"pop", "serve"}, poll : Polled,
                     at : Polled \cup {Null}, held : BOOLEAN,
                     local : Seq(Ops), more : BOOLEAN]
        /\ s \in State /\ cons.at = Null /\ cons.local = <<>>
    BY <1>1 DEF Inv, TypeOK, Threads
  <1>3. /\ cons'.pc = "look" /\ cons'.at = cons.poll /\ ~cons'.held
        /\ cons'.poll = cons.poll /\ cons'.local = cons.local
    BY <1>1, <1>2
  <1>4. /\ s' \in State /\ s'.sig = s.sig /\ s'.gone = s.gone
        /\ \A y \in Queues :
             /\ s'.q[y].ops = s.q[y].ops /\ s'.q[y].ready = s.q[y].ready
             /\ s'.q[y].ref = s.q[y].ref /\ s'.q[y].fwd = s.q[y].fwd
             /\ s'.q[y].yield = s.q[y].yield /\ s'.q[y].io = s.q[y].io
             /\ s'.q[y].sent = s.q[y].sent
    <2> DEFINE r == [s.q[cons.poll] EXCEPT !.fd = FALSE]
    <2>1. cons.poll \in Queues /\ s.q[cons.poll] \in QueueState
      BY <1>2, Typed, NamesApart DEF Inv
    <2>2. /\ r \in QueueState /\ r.ops = s.q[cons.poll].ops
          /\ r.ready = s.q[cons.poll].ready /\ r.ref = s.q[cons.poll].ref
          /\ r.fwd = s.q[cons.poll].fwd /\ r.yield = s.q[cons.poll].yield
          /\ r.io = s.q[cons.poll].io /\ r.sent = s.q[cons.poll].sent
      BY <2>1 DEF QueueState
    <2>3. s' = [s EXCEPT !.q[cons.poll] = r]
      BY <1>1, <1>2, <2>1 DEF State, QueueState
    <2> HIDE DEF r
    <2>4. /\ s' \in State /\ s'.sig = s.sig /\ s'.gone = s.gone
          /\ s'.q[cons.poll] = r /\ Elsewhere(s, s', cons.poll)
      BY <1>2, <2>1, <2>2, <2>3, SetIs
    <2> QED BY <2>2, <2>4 DEF Elsewhere
  <1>s. Still
    BY <1>3, <1>4, <1>v, NamesApart DEF Still
  <1>8. \A o \in 1..OpCount : Passed(o)' <=> Passed(o)
    BY <1>v DEF Passed
  <1>10. TypeOK'
    BY <1>1, <1>2, <1>4, <1>v, NamesApart DEF Inv, TypeOK
  <1>11. Shape(s)'
    BY <1>4, <1>v, NamesApart DEF Inv, Shape
  <1>12. Threads'
    BY <1>2, <1>3, <1>v, NamesApart DEF Inv, Threads
  <1>13. OneRequest'
    BY <1>s, <1>v, StillOne
  <1>14. Refs'
    <2>1. Unanswered' = Unanswered
      BY <1>s, StillIs
    <2>2. cons.at # Dst
      BY <1>2, NamesApart
    <2> QED BY <1>3, <1>4, <1>v, <2>1, <2>2, NamesApart DEF Inv, Refs
  <1>15. Kept'
    BY <1>s, <1>8, StillKept
  <1>16. Wakes'
    BY <1>3, <1>4, NamesApart DEF Inv, Wakes, Watches
  <1>17. Ordered'
    <2>1. s'.q[Src].fwd = s.q[Src].fwd
      BY <1>4, NamesApart
    <2>2. ~mixed => (prod.at = Dst => s.q[Src].fwd = Dst)
      BY DEF Inv, Ordered
    <2> QED BY <1>2, <1>8, <1>s, <1>v, <2>1, <2>2, StillOrdered
  <1> QED BY <1>10, <1>11, <1>12, <1>13, <1>14, <1>15, <1>16, <1>17 DEF Inv

(* It goes on at the queue that its own one is forwarded to.               *)
LEMMA FollowKeeps == ASSUME Inv, Follow PROVE Inv'
  <1>1. /\ cons.pc = "look" /\ s.q[cons.at].fwd # Null
        /\ s' = (IF cons.held THEN Release(Keep(s, s.q[cons.at].fwd), cons.at)
                 ELSE Keep(s, s.q[cons.at].fwd))
        /\ cons' = [cons EXCEPT !.at = s.q[cons.at].fwd, !.held = TRUE]
    BY DEF Follow, Back
  <1>v. prod' = prod /\ req' = req /\ ctl' = ctl /\ done' = done /\ mixed' = mixed
    BY DEF Follow
  <1>2. /\ cons \in [pc : {"idle", "look", "wait", "retry", "handle"},
                     mode : {"pop", "serve"}, poll : Polled,
                     at : Polled \cup {Null}, held : BOOLEAN,
                     local : Seq(Ops), more : BOOLEAN]
        /\ s \in State /\ cons.at # Null
    BY <1>1 DEF Inv, TypeOK, Threads
  <1>3. cons.at = Src /\ cons.poll = Src /\ ~cons.held
    BY <1>1, <1>2, NamesApart DEF Inv, Shape, Threads
  <1>4. s.q[Src].fwd = Dst
    BY <1>1, <1>3, Typed, NamesApart DEF Inv
  <1>5. s' = Keep(s, Dst)
    BY <1>1, <1>3, <1>4
  <1>6. /\ Quiet(s, s') /\ s'.q[Src] = s.q[Src] /\ s'.q[Recv] = s.q[Recv]
        /\ s'.q[Dst].ref = s.q[Dst].ref + 1 /\ s'.q[Dst].fwd = s.q[Dst].fwd
    BY <1>2, <1>5, QuietKeep
  <1>7. /\ cons'.pc = "look" /\ cons'.at = Dst /\ cons'.held
        /\ cons'.poll = Src /\ cons'.local = cons.local
    BY <1>1, <1>2, <1>3, <1>4
  <1>8. \A o \in 1..OpCount : Passed(o)' <=> Passed(o)
    BY <1>v DEF Passed
  <1>s. Still
    BY <1>6, <1>7, <1>v, StillQuiet
  <1>10. TypeOK'
    BY <1>1, <1>2, <1>3, <1>4, <1>6, <1>v, NamesApart DEF Inv, TypeOK, Quiet
  <1>11. Shape(s)'
    BY <1>6, <1>v, NamesApart DEF Inv, Shape, Quiet
  <1>12. Threads'
    BY <1>1, <1>3, <1>7, <1>v, NamesApart DEF Inv, Threads
  <1>13. OneRequest'
    BY <1>s, <1>v, StillOne
  <1>14. Refs'
    <2>1. s.q[Dst].ref = 1 + (IF s.q[Src].fwd = Dst THEN 1 ELSE 0)
                         + (IF prod.at = Dst THEN 1 ELSE 0) + 0
      BY <1>3, NamesApart DEF Inv, Refs
    <2>2. s'.q[Dst].ref = 1 + (IF s'.q[Src].fwd = Dst THEN 1 ELSE 0)
                         + (IF prod.at = Dst THEN 1 ELSE 0) + 1
      BY <1>6, <2>1
    <2>3. Unanswered' = Unanswered
      BY <1>s, StillIs
    <2> QED BY <1>6, <1>7, <1>v, <2>2, <2>3 DEF Inv, Refs
  <1>15. Kept'
    BY <1>s, <1>8, StillKept
  <1>16. Wakes'
    <2>1. s.q[Src].ops = <<>>
      BY <1>1, <1>3 DEF Inv, Shape
    <2> QED BY <1>6, <1>7, <2>1, NamesApart DEF Inv, Wakes, Watches, Quiet
  <1>17. Ordered'
    <2>1. cons.local = <<>>
      BY <1>1 DEF Inv, Threads
    <2> QED BY <1>4, <1>6, <1>8, <1>s, <1>v, <2>1, StillOrdered
  <1> QED BY <1>10, <1>11, <1>12, <1>13, <1>14, <1>15, <1>16, <1>17 DEF Inv

(* A poll returns, and releases Dst if it had followed a forward.          *)
Hold == IF cons.held /\ cons.at = Dst THEN 1 ELSE 0

LEMMA BackIs ==
    ASSUME Inv, cons.at # Null, NEW m \in State, m.q[Dst].ref = s.q[Dst].ref
    PROVE  LET n == Back(m)
           IN  /\ Quiet(m, n) /\ n.q[Src] = m.q[Src] /\ n.q[Recv] = m.q[Recv]
               /\ n.q[Dst].ref = m.q[Dst].ref - Hold /\ n.q[Dst].fwd = m.q[Dst].fwd
  <1>1. m.q[Dst].ref \in Int
    BY QueueIs, NamesApart
  <1>2. cons.held \in BOOLEAN
    BY DEF Inv, TypeOK
  <1>3. CASE cons.held
    <2>1. cons.at = Dst
      BY <1>3, NamesApart DEF Inv, TypeOK, Threads
    <2>2. s.q[Dst].ref = 1 + (IF s.q[Src].fwd = Dst THEN 1 ELSE 0)
                         + (IF prod.at = Dst THEN 1 ELSE 0) + 1
      BY <1>3, <2>1 DEF Inv, Refs
    <2>3. m.q[Dst].ref >= 2
      BY <2>2
    <2>4. Back(m) = Release(m, Dst) /\ Hold = 1
      BY <1>3, <2>1 DEF Back, Hold
    <2> QED BY <2>3, <2>4, QuietLetGo
  <1>4. CASE ~cons.held
    <2>1. Back(m) = m /\ Hold = 0
      BY <1>4 DEF Back, Hold
    <2>2. m.q[Dst].ref = m.q[Dst].ref - 0
      BY <1>1
    <2> QED BY <2>1, <2>2 DEF Quiet
  <1> QED BY <1>2, <1>3, <1>4

(* The references when a poll returns, and when one goes on.               *)
LEMMA RefsBack ==
    ASSUME Inv, cons'.at = Null, prod' = prod, req' = req, ctl' = ctl,
           s'.q[Src].ref = s.q[Src].ref, s'.q[Src].fwd = s.q[Src].fwd,
           s'.q[Dst].ref = s.q[Dst].ref - Hold,
           s'.q[Recv].ref - Unanswered' = s.q[Recv].ref - Unanswered,
           Unanswered' \in Int, s'.q[Recv].ref \in Int
    PROVE  Refs'
  <1>1. s.q[Recv].ref = (IF req \in {"idle", "wait"} THEN 1 ELSE 0) + Unanswered
        /\ Unanswered \in Int
    BY DEF Inv, Refs, OneRequest
  <1>2. s'.q[Recv].ref = (IF req' \in {"idle", "wait"} THEN 1 ELSE 0) + Unanswered'
    BY <1>1
  <1>3. s.q[Dst].ref = 1 + (IF s.q[Src].fwd = Dst THEN 1 ELSE 0)
                       + (IF prod.at = Dst THEN 1 ELSE 0) + Hold /\ Hold \in Int
    BY DEF Inv, Refs, Hold
  <1>4. s'.q[Dst].ref = 1 + (IF s'.q[Src].fwd = Dst THEN 1 ELSE 0)
                       + (IF prod'.at = Dst THEN 1 ELSE 0) + 0
    BY <1>3
  <1>5. ~(cons'.held /\ cons'.at = Dst)
    BY NamesApart
  <1> QED BY <1>2, <1>4, <1>5 DEF Inv, Refs

LEMMA RefsSame ==
    ASSUME Inv, cons'.at = cons.at, cons'.held = cons.held, prod' = prod, req' = req,
           ctl' = ctl, s'.q[Src].ref = s.q[Src].ref, s'.q[Src].fwd = s.q[Src].fwd,
           s'.q[Dst].ref = s.q[Dst].ref,
           s'.q[Recv].ref - Unanswered' = s.q[Recv].ref - Unanswered,
           Unanswered' \in Int, s'.q[Recv].ref \in Int
    PROVE  Refs'
  <1>1. s.q[Recv].ref = (IF req \in {"idle", "wait"} THEN 1 ELSE 0) + Unanswered
        /\ Unanswered \in Int
    BY DEF Inv, Refs, OneRequest
  <1>2. s'.q[Recv].ref = (IF req' \in {"idle", "wait"} THEN 1 ELSE 0) + Unanswered'
    BY <1>1
  <1> QED BY <1>2 DEF Inv, Refs

LEMMA UnansweredIs ==
    ASSUME Inv PROVE Unanswered \in Int /\ s.q[Recv].ref \in Int
  BY Typed, NamesApart DEF Inv, OneRequest

(* The ops are counted the same.                                           *)
LEMMA MovedKept ==
    ASSUME Inv, Unanswered' = Unanswered, \A o : Places(o)' = Places(o), req' = req,
           prod' = prod
    PROVE  OneRequest' /\ Kept'
  <1>1. \A o \in 1..OpCount : Passed(o)' <=> Passed(o)
    BY DEF Passed
  <1> QED BY <1>1 DEF Inv, OneRequest, Kept

LEMMA PollTimeoutKeeps == ASSUME Inv, PollTimeout PROVE Inv'
  <1>1. cons.pc = "wait" /\ s' = Back(s) /\ cons' = Returns(FALSE)
    BY DEF PollTimeout
  <1>v. prod' = prod /\ req' = req /\ ctl' = ctl /\ done' = done /\ mixed' = mixed
    BY DEF PollTimeout
  <1>2. /\ cons \in [pc : {"idle", "look", "wait", "retry", "handle"},
                     mode : {"pop", "serve"}, poll : Polled,
                     at : Polled \cup {Null}, held : BOOLEAN,
                     local : Seq(Ops), more : BOOLEAN]
        /\ s \in State /\ cons.at # Null /\ cons.local = <<>>
    BY <1>1 DEF Inv, TypeOK, Threads
  <1>3. /\ cons'.pc = "idle" /\ cons'.at = Null /\ cons'.poll = cons.poll
        /\ cons'.local = cons.local /\ ~cons'.more
        /\ cons' \in [pc : {"idle", "look", "wait", "retry", "handle"},
                      mode : {"pop", "serve"}, poll : Polled,
                      at : Polled \cup {Null}, held : BOOLEAN,
                      local : Seq(Ops), more : BOOLEAN]
    BY <1>1, <1>2 DEF Returns
  <1>4. /\ Quiet(s, s') /\ s'.q[Src] = s.q[Src] /\ s'.q[Recv] = s.q[Recv]
        /\ s'.q[Dst].ref = s.q[Dst].ref - Hold /\ s'.q[Dst].fwd = s.q[Dst].fwd
    BY <1>1, <1>2, BackIs
  <1>s. Still
    BY <1>3, <1>4, <1>v, StillQuiet
  <1>8. \A o \in 1..OpCount : Passed(o)' <=> Passed(o)
    BY <1>v DEF Passed
  <1>10. TypeOK'
    BY <1>3, <1>4, <1>v DEF Inv, TypeOK, Quiet
  <1>11. Shape(s)'
    BY <1>4, <1>v, NamesApart DEF Inv, Shape, Quiet
  <1>12. Threads'
    BY <1>2, <1>3, <1>v, NamesApart DEF Inv, Threads
  <1>13. OneRequest'
    BY <1>s, <1>v, StillOne
  <1>14. Refs'
    BY <1>3, <1>4, <1>s, <1>v, StillIs, UnansweredIs, RefsBack
  <1>15. Kept'
    BY <1>s, <1>8, StillKept
  <1>16. Wakes'
    <2>1. ~s.q[cons.poll].io
      BY <1>1 DEF Inv, Wakes
    <2> QED BY <1>2, <1>3, <1>4, <2>1, NamesApart DEF Inv, Wakes, Watches, Quiet
  <1>17. Ordered'
    <2>1. ~mixed => (prod.at = Dst => s.q[Src].fwd = Dst)
      BY DEF Inv, Ordered
    <2> QED BY <1>2, <1>4, <1>8, <1>s, <1>v, <2>1, StillOrdered
  <1> QED BY <1>10, <1>11, <1>12, <1>13, <1>14, <1>15, <1>16, <1>17 DEF Inv

(* A thread looks at the queue: it has seen the signal and the event.      *)
LEMMA ServedIs ==
    ASSUME NEW m \in State, NEW x \in Queues
    PROVE  LET n == MarkServed([m EXCEPT !.sig = @ \ {x}], x)
           IN  /\ n \in State /\ n.sig = m.sig \ {x} /\ n.gone = m.gone
               /\ Elsewhere(m, n, x) /\ Alike(m.q[x], n.q[x])
               /\ n.q[x].ops = m.q[x].ops /\ n.q[x].fd = m.q[x].fd /\ n.q[x].sent = FALSE
  <1> DEFINE k == [m EXCEPT !.sig = @ \ {x}]
             r == [m.q[x] EXCEPT !.sent = FALSE]
  <1>1. m.q[x] \in QueueState
    BY QueueIs
  <1>2. /\ r \in QueueState /\ Alike(m.q[x], r) /\ r.ops = m.q[x].ops
        /\ r.fd = m.q[x].fd /\ r.sent = FALSE
    BY <1>1 DEF QueueState, Alike
  <1>3. k \in State /\ k.q = m.q /\ k.sig = m.sig \ {x} /\ k.gone = m.gone
    BY DEF State
  <1>4. MarkServed(k, x) = [k EXCEPT !.q[x] = r]
    BY <1>3 DEF MarkServed, State
  <1> DEFINE n == MarkServed(k, x)
  <1> HIDE DEF r, k
  <1>5. /\ n \in State /\ n.sig = k.sig /\ n.gone = k.gone /\ n.q[x] = r
        /\ Elsewhere(k, n, x)
    BY <1>2, <1>3, <1>4, SetIs
  <1>6. Elsewhere(m, n, x)
    BY <1>3, <1>5 DEF Elsewhere
  <1> HIDE DEF n
  <1>7. /\ n \in State /\ n.sig = m.sig \ {x} /\ n.gone = m.gone
        /\ Elsewhere(m, n, x) /\ Alike(m.q[x], n.q[x])
        /\ n.q[x].ops = m.q[x].ops /\ n.q[x].fd = m.q[x].fd /\ n.q[x].sent = FALSE
    BY <1>2, <1>3, <1>5, <1>6
  <1> QED BY <1>7 DEF n, k

(* There is nothing: the poll returns, or waits for a signal.              *)
LEMMA SleepKeeps == ASSUME Inv, Sleep PROVE Inv'
  <1> DEFINE x == cons.at
             m == MarkServed([s EXCEPT !.sig = @ \ {x}], x)
             k == [m EXCEPT !.q[x].yield = FALSE]
  <1>1. /\ Looks /\ s.q[x].ops = <<>>
        /\ IF m.q[x].yield \/ m.q[cons.poll].io
           THEN s' = Back(k) /\ cons' = Returns(FALSE)
           ELSE s' = m /\ cons' = [cons EXCEPT !.pc = "wait"]
    BY DEF Sleep
  <1>v. prod' = prod /\ req' = req /\ ctl' = ctl /\ done' = done /\ mixed' = mixed
    BY DEF Sleep
  <1>2. /\ cons \in [pc : {"idle", "look", "wait", "retry", "handle"},
                     mode : {"pop", "serve"}, poll : Polled,
                     at : Polled \cup {Null}, held : BOOLEAN,
                     local : Seq(Ops), more : BOOLEAN]
        /\ s \in State /\ x # Null /\ cons.local = <<>>
        /\ cons.pc \in {"look", "wait", "retry"}
    BY <1>1 DEF Inv, TypeOK, Threads, Looks
  <1>3. x \in Polled /\ x \in Queues /\ cons.poll \in Polled /\ cons.poll \in Queues
    BY <1>2, NamesApart
  <1>4. /\ m \in State /\ m.sig = s.sig \ {x} /\ m.gone = s.gone
        /\ Elsewhere(s, m, x) /\ Alike(s.q[x], m.q[x])
        /\ m.q[x].ops = s.q[x].ops /\ m.q[x].fd = s.q[x].fd /\ m.q[x].sent = FALSE
    BY <1>2, <1>3, ServedIs
  <1> HIDE DEF m, x
  <1>5. /\ k \in State /\ k.sig = m.sig /\ k.gone = m.gone /\ Elsewhere(m, k, x)
        /\ k.q[x].ops = m.q[x].ops /\ k.q[x].fd = m.q[x].fd /\ k.q[x].sent = m.q[x].sent
        /\ k.q[x].ready = m.q[x].ready /\ k.q[x].ref = m.q[x].ref
        /\ k.q[x].fwd = m.q[x].fwd /\ k.q[x].io = m.q[x].io /\ ~k.q[x].yield
    <2> DEFINE r == [m.q[x] EXCEPT !.yield = FALSE]
    <2>1. m.q[x] \in QueueState
      BY <1>3, <1>4, QueueIs
    <2>2. /\ r \in QueueState /\ r.ops = m.q[x].ops /\ r.fd = m.q[x].fd
          /\ r.sent = m.q[x].sent /\ r.ready = m.q[x].ready /\ r.ref = m.q[x].ref
          /\ r.fwd = m.q[x].fwd /\ r.io = m.q[x].io /\ ~r.yield
      BY <2>1 DEF QueueState
    <2>3. k = [m EXCEPT !.q[x] = r]
      BY <1>3, <1>4 DEF State
    <2> HIDE DEF r
    <2> QED BY <1>3, <1>4, <2>2, <2>3, SetIs
  <1> HIDE DEF k
  <1>6. \E z \in {m, k} :
          /\ s' \in State /\ Quiet(z, s')
          /\ s'.q[Src] = z.q[Src] /\ s'.q[Recv] = z.q[Recv] /\ s'.q[Dst].fwd = z.q[Dst].fwd
          /\ \/ /\ s'.q[Dst].ref = z.q[Dst].ref - Hold /\ cons' = Returns(FALSE)
             \/ /\ s'.q[Dst].ref = z.q[Dst].ref /\ cons' = [cons EXCEPT !.pc = "wait"]
                /\ z = m /\ ~m.q[x].yield /\ ~m.q[cons.poll].io
    <2>1. CASE m.q[x].yield \/ m.q[cons.poll].io
      <3>1. k.q[Dst].ref = s.q[Dst].ref
        BY <1>3, <1>4, <1>5, NamesApart DEF Elsewhere, Alike
      <3>2. cons.at # Null
        BY <1>2 DEF x
      <3>3. s' = Back(k) /\ cons' = Returns(FALSE)
        BY <1>1, <2>1
      <3>4. /\ Quiet(k, s') /\ s'.q[Src] = k.q[Src] /\ s'.q[Recv] = k.q[Recv]
            /\ s'.q[Dst].ref = k.q[Dst].ref - Hold /\ s'.q[Dst].fwd = k.q[Dst].fwd
        BY <1>5, <3>1, <3>2, <3>3, BackIs
      <3> QED BY <3>3, <3>4 DEF Quiet
    <2>2. CASE ~(m.q[x].yield \/ m.q[cons.poll].io)
      BY <1>1, <1>4, <2>2 DEF Quiet
    <2> QED BY <2>1, <2>2
  <1>7. PICK z \in {m, k} :
          /\ s' \in State /\ Quiet(z, s')
          /\ s'.q[Src] = z.q[Src] /\ s'.q[Recv] = z.q[Recv] /\ s'.q[Dst].fwd = z.q[Dst].fwd
          /\ \/ /\ s'.q[Dst].ref = z.q[Dst].ref - Hold /\ cons' = Returns(FALSE)
             \/ /\ s'.q[Dst].ref = z.q[Dst].ref /\ cons' = [cons EXCEPT !.pc = "wait"]
                /\ z = m /\ ~m.q[x].yield /\ ~m.q[cons.poll].io
    BY <1>6
  <1>8. /\ z.sig = s.sig \ {x} /\ z.gone = s.gone /\ Elsewhere(s, z, x)
        /\ z.q[x].ops = <<>> /\ ~z.q[x].sent /\ z.q[x].ready = s.q[x].ready
        /\ z.q[x].ref = s.q[x].ref /\ z.q[x].fwd = s.q[x].fwd /\ z.q[x].io = s.q[x].io
    <2>1. CASE z = m
      BY <1>1, <1>4, <2>1 DEF Alike
    <2>2. CASE z = k
      BY <1>1, <1>4, <1>5, <2>2 DEF Alike, Elsewhere
    <2> QED BY <1>7, <2>1, <2>2
  <1>9. /\ \A y \in Queues : /\ z.q[y].ops = s.q[y].ops /\ z.q[y].ready = s.q[y].ready
                             /\ z.q[y].ref = s.q[y].ref /\ z.q[y].fwd = s.q[y].fwd
                             /\ z.q[y].io = s.q[y].io
        /\ \A y \in Queues \ {x} : z.q[y] = s.q[y]
    BY <1>1, <1>8 DEF Elsewhere
  <1>10. /\ \A y \in Queues : /\ s'.q[y].ops = s.q[y].ops /\ s'.q[y].ready = s.q[y].ready
                              /\ s'.q[y].fwd = s.q[y].fwd /\ s'.q[y].io = s.q[y].io
         /\ s'.sig = s.sig \ {x} /\ s'.gone = s.gone /\ s'.q[Src].ref = s.q[Src].ref
         /\ s'.q[Recv] = s.q[Recv]
    <2>1. x # Recv
      BY <1>3, NamesApart
    <2> QED BY <1>7, <1>8, <1>9, <2>1, NamesApart DEF Quiet
  <1>11. /\ cons'.poll = cons.poll /\ cons'.local = cons.local
         /\ cons' \in [pc : {"idle", "look", "wait", "retry", "handle"},
                      mode : {"pop", "serve"}, poll : Polled,
                      at : Polled \cup {Null}, held : BOOLEAN,
                      local : Seq(Ops), more : BOOLEAN]
         /\ \/ /\ s'.q[Dst].ref = s.q[Dst].ref - Hold
               /\ cons'.pc = "idle" /\ cons'.at = Null /\ ~cons'.more
            \/ /\ s'.q[Dst].ref = s.q[Dst].ref
               /\ cons'.pc = "wait" /\ cons'.at = cons.at /\ cons'.held = cons.held
               /\ ~s'.q[x].yield /\ ~s'.q[cons.poll].io
    <2>1. z.q[Dst].ref = s.q[Dst].ref
      BY <1>9, NamesApart
    <2>2. CASE s'.q[Dst].ref = z.q[Dst].ref - Hold /\ cons' = Returns(FALSE)
      BY <1>2, <2>1, <2>2 DEF Returns
    <2>3. CASE /\ s'.q[Dst].ref = z.q[Dst].ref /\ cons' = [cons EXCEPT !.pc = "wait"]
               /\ z = m /\ ~m.q[x].yield /\ ~m.q[cons.poll].io
      <3>1. ~s'.q[x].yield /\ ~s'.q[cons.poll].io
        BY <1>3, <1>7, <2>3 DEF Quiet
      <3> QED BY <1>2, <2>1, <2>3, <3>1
    <2> QED BY <1>7, <2>2, <2>3
  <1>s. Still
    BY <1>10, <1>11, <1>v, NamesApart DEF Still
  <1>p. \A o \in 1..OpCount : Passed(o)' <=> Passed(o)
    BY <1>v DEF Passed
  <1>20. TypeOK'
    BY <1>7, <1>11, <1>v DEF Inv, TypeOK
  <1>21. Shape(s)'
    BY <1>10, <1>v, NamesApart DEF Inv, Shape
  <1>22. Threads'
    BY <1>2, <1>11, <1>v, NamesApart DEF Inv, Threads, x
  <1>23. OneRequest'
    BY <1>s, <1>v, StillOne
  <1>24. Refs'
    <2>1. /\ s'.q[Src].ref = s.q[Src].ref /\ s'.q[Src].fwd = s.q[Src].fwd
          /\ s'.q[Recv].ref - Unanswered' = s.q[Recv].ref - Unanswered
          /\ Unanswered' \in Int /\ s'.q[Recv].ref \in Int
      BY <1>10, <1>s, StillIs, UnansweredIs, NamesApart
    <2> QED BY <1>11, <1>v, <2>1, RefsBack, RefsSame
  <1>25. Kept'
    BY <1>s, <1>p, StillKept
  <1>26. Wakes'
    <2>1. /\ ~s'.q[x].sent
          /\ \A y \in Polled \ {x} : /\ s'.q[y].sent = s.q[y].sent
                                     /\ s'.q[y].yield = s.q[y].yield
                                     /\ s'.q[y].fd = s.q[y].fd
      BY <1>3, <1>7, <1>8, <1>9, NamesApart DEF Quiet
    <2>2. \A y \in Polled : s'.q[y].sent /\ s'.q[y].ops = <<>> => s'.q[y].yield
      BY <1>10, <2>1, NamesApart DEF Inv, Wakes
    <2>3. s'.q[cons.poll].io /\ s'.q[cons.poll].ops # <<>>
            => s'.q[cons.poll].fd \/ (s'.q[cons.poll].sent /\ s'.q[cons.poll].yield)
      <3>1. CASE cons.poll = x
        BY <1>1, <1>3, <1>10, <3>1
      <3>2. CASE cons.poll # x
        <4>1. Watches
          BY <1>2, <3>2 DEF Watches, x
        <4> QED BY <1>3, <1>10, <2>1, <3>2, <4>1 DEF Inv, Wakes
      <3> QED BY <3>1, <3>2
    <2>4. s'.q[cons.poll].io => cons'.pc # "wait"
      BY <1>11
    <2>5. cons'.pc = "wait" /\ (s'.q[cons'.at].ops # <<>> \/ s'.q[cons'.at].yield)
            => cons'.at \in s'.sig
      BY <1>1, <1>3, <1>10, <1>11 DEF x
    <2> QED BY <1>11, <2>2, <2>3, <2>4, <2>5 DEF Wakes
  <1>27. Ordered'
    <2>1. s'.q[Src].fwd = s.q[Src].fwd
      BY <1>10, NamesApart
    <2>2. ~mixed => (prod.at = Dst => s.q[Src].fwd = Dst)
      BY DEF Inv, Ordered
    <2> QED BY <1>2, <1>p, <1>s, <1>v, <2>1, <2>2, StillOrdered
  <1> QED BY <1>20, <1>21, <1>22, <1>23, <1>24, <1>25, <1>26, <1>27 DEF Inv

(* One op is taken, or all of them: those without a priority are before    *)
(* what stays, and the other queue has none that could be before them.     *)
LEMMA TakeKeeps == ASSUME Inv, Take PROVE Inv'
  <1> DEFINE x == cons.at
             m == MarkServed([s EXCEPT !.sig = @ \ {x}], x)
             a == s.q[x].ops
             w == IF cons.mode = "pop" THEN 1 ELSE Len(a)
             b == SubSeq(a, 1, w)
             c == SubSeq(a, w + 1, Len(a))
  <1>2. /\ cons \in [pc : {"idle", "look", "wait", "retry", "handle"},
                     mode : {"pop", "serve"}, poll : Polled,
                     at : Polled \cup {Null}, held : BOOLEAN,
                     local : Seq(Ops), more : BOOLEAN]
        /\ s \in State /\ x # Null /\ cons.local = <<>> /\ a # <<>>
        /\ cons.pc \in {"look", "wait", "retry"}
    BY DEF Inv, TypeOK, Threads, Looks, Take
  <1>3. x \in Polled /\ x \in Queues /\ cons.poll \in Polled /\ cons.poll \in Queues
    BY <1>2, NamesApart
  <1>4. /\ m \in State /\ m.sig = s.sig \ {x} /\ m.gone = s.gone
        /\ Elsewhere(s, m, x) /\ Alike(s.q[x], m.q[x])
        /\ m.q[x].ops = a /\ m.q[x].fd = s.q[x].fd /\ m.q[x].sent = FALSE
    BY <1>2, <1>3, ServedIs
  <1>5. /\ s' = [m EXCEPT !.q[x].ops = SubSeq(@, w + 1, Len(@))]
        /\ cons' = [cons EXCEPT !.pc = "handle", !.local = SubSeq(m.q[x].ops, 1, w)]
    BY <1>4 DEF Take
  <1>v. prod' = prod /\ req' = req /\ ctl' = ctl /\ done' = done /\ mixed' = mixed
    BY DEF Take
  <1>6. a \in Seq(Ops)
    BY <1>3, Typed DEF Inv
  <1>7. Len(a) \in Nat /\ Len(a) # 0
    BY <1>2, <1>6, NotEmpty
  <1>8. w \in 0..Len(a) /\ w # 0
    BY <1>7
  <1> HIDE DEF w
  <1>9. /\ b \in Seq(Ops) /\ c \in Seq(Ops) /\ Len(b) = w /\ a = b \o c
    BY <1>6, <1>8, SplitIs
  <1>10. b # <<>>
    BY <1>8, <1>9, NotEmpty
  <1> HIDE DEF m, a, b, c
  <1>11. /\ s' \in State /\ s'.sig = m.sig /\ s'.gone = m.gone /\ Elsewhere(m, s', x)
         /\ s'.q[x].ops = c /\ s'.q[x].fd = m.q[x].fd /\ s'.q[x].sent = m.q[x].sent
         /\ Alike(m.q[x], s'.q[x])
    <2> DEFINE r == [m.q[x] EXCEPT !.ops = c]
    <2>1. m.q[x] \in QueueState
      BY <1>3, <1>4, QueueIs
    <2>2. /\ r \in QueueState /\ r.ops = c /\ r.fd = m.q[x].fd
          /\ r.sent = m.q[x].sent /\ Alike(m.q[x], r)
      BY <1>9, <2>1 DEF QueueState, Alike
    <2>3. s' = [m EXCEPT !.q[x] = r]
      <3>1. c = SubSeq(m.q[x].ops, w + 1, Len(m.q[x].ops))
        BY <1>4 DEF c
      <3> QED BY <1>3, <1>4, <1>5, <3>1 DEF State
    <2> HIDE DEF r, x
    <2>4. /\ s' \in State /\ s'.sig = m.sig /\ s'.gone = m.gone
          /\ s'.q[x] = r /\ Elsewhere(m, s', x)
      BY <1>3, <1>4, <2>2, <2>3, SetIs
    <2> QED BY <2>2, <2>4
  <1>12. /\ cons'.pc = "handle" /\ cons'.local = b /\ cons'.poll = cons.poll
         /\ cons'.at = cons.at /\ cons'.held = cons.held /\ cons'.more = cons.more
         /\ cons' \in [pc : {"idle", "look", "wait", "retry", "handle"},
                      mode : {"pop", "serve"}, poll : Polled,
                      at : Polled \cup {Null}, held : BOOLEAN,
                      local : Seq(Ops), more : BOOLEAN]
    <2>1. SubSeq(m.q[x].ops, 1, w) = b
      BY <1>4 DEF b
    <2> QED BY <1>2, <1>5, <1>9, <2>1
  <1>13. /\ s'.sig = s.sig \ {x} /\ s'.gone = s.gone
         /\ \A y \in Queues \ {x} : s'.q[y] = s.q[y]
         /\ s'.q[x].ready = s.q[x].ready /\ s'.q[x].ref = s.q[x].ref
         /\ s'.q[x].fwd = s.q[x].fwd /\ s'.q[x].yield = s.q[x].yield
         /\ s'.q[x].io = s.q[x].io /\ ~s'.q[x].sent
    BY <1>4, <1>11 DEF Elsewhere, Alike
  <1>14. \/ x = Src /\ s'.q[Dst] = s.q[Dst] /\ s'.q[Recv] = s.q[Recv]
         \/ x = Dst /\ s'.q[Src] = s.q[Src] /\ s'.q[Recv] = s.q[Recv]
    BY <1>3, <1>13, NamesApart
  <1> DEFINE A == s.q[x].ops
  <1>15. A = a
    BY DEF a
  <1> HIDE DEF x, A
  <1>t. \A o : /\ Times(s'.q[Src].ops, o) + Times(s'.q[Dst].ops, o) + Times(cons'.local, o)
                    = Times(s.q[Src].ops, o) + Times(s.q[Dst].ops, o) + Times(cons.local, o)
    <2> TAKE o
    <2>1. Times(a, o) = Times(b, o) + Times(c, o) /\ Times(cons.local, o) = 0
      BY <1>2, <1>9, TimesConcat, EmptyIs
    <2>2. Times(s.q[Src].ops, o) \in Nat /\ Times(s.q[Dst].ops, o) \in Nat
          /\ Times(b, o) \in Nat /\ Times(c, o) \in Nat
      BY <1>9, Counts, TimesIs DEF Inv
    <2>3. CASE x = Src /\ s'.q[Dst] = s.q[Dst]
      <3>1. Times(s'.q[Src].ops, o) = Times(c, o) /\ Times(s.q[Src].ops, o) = Times(a, o)
            /\ Times(cons'.local, o) = Times(b, o)
            /\ Times(s'.q[Dst].ops, o) = Times(s.q[Dst].ops, o)
        BY <1>11, <1>12, <1>15, <2>3 DEF A
      <3> QED BY <2>1, <2>2, <3>1
    <2>4. CASE x = Dst /\ s'.q[Src] = s.q[Src]
      <3>1. Times(s'.q[Dst].ops, o) = Times(c, o) /\ Times(s.q[Dst].ops, o) = Times(a, o)
            /\ Times(cons'.local, o) = Times(b, o)
            /\ Times(s'.q[Src].ops, o) = Times(s.q[Src].ops, o)
        BY <1>11, <1>12, <1>15, <2>4 DEF A
      <3> QED BY <2>1, <2>2, <3>1
    <2> QED BY <1>14, <2>3, <2>4
  <1>16. Unanswered' = Unanswered /\ \A o : Places(o)' = Places(o)
    BY <1>13, <1>v, <1>t DEF Unanswered, Places
  <1>20. TypeOK'
    BY <1>11, <1>12, <1>v DEF Inv, TypeOK
  <1>21. Shape(s)'
    <2>1. x = Src => ~ctl.dead /\ s.q[Src].fwd = Null
      BY <1>2, <1>15 DEF Inv, Shape, A
    <2>2. /\ s'.q[Dst].fwd = s.q[Dst].fwd /\ s'.q[Dst].ready = s.q[Dst].ready
          /\ s'.q[Src].fwd = s.q[Src].fwd /\ s'.q[Src].ready = s.q[Src].ready
          /\ s'.q[Recv] = s.q[Recv]
      BY <1>13, <1>14
    <2>3. s'.q[Src].fwd # Null \/ ctl.dead => s'.q[Src].ops = s.q[Src].ops
      BY <1>14, <2>1, <2>2
    <2> QED BY <1>v, <2>2, <2>3 DEF Inv, Shape
  <1>22. Threads'
    <2>1. cons'.mode = "pop" => Len(cons'.local) = 1
      BY <1>2, <1>5, <1>9, <1>12 DEF w
    <2> QED BY <1>2, <1>10, <1>12, <1>v, <2>1 DEF Inv, Threads
  <1>23. OneRequest' /\ Kept'
    BY <1>16, <1>v, MovedKept
  <1>24. Refs'
    <2>1. /\ s'.q[Src].ref = s.q[Src].ref /\ s'.q[Src].fwd = s.q[Src].fwd
          /\ s'.q[Dst].ref = s.q[Dst].ref /\ s'.q[Recv].ref = s.q[Recv].ref
      BY <1>13, <1>14
    <2> QED BY <1>12, <1>16, <1>v, <2>1, UnansweredIs, RefsSame
  <1>26. Wakes'
    <2>1. \A y \in Polled : s'.q[y].sent /\ s'.q[y].ops = <<>> => s'.q[y].yield
      BY <1>13, NamesApart DEF Inv, Wakes
    <2>2. cons.poll # x => Watches
      BY <1>2 DEF Watches, x
    <2>3. Watches' => cons.poll # x
      BY <1>12 DEF Watches, x
    <2>4. Watches' /\ s'.q[cons.poll].io /\ s'.q[cons.poll].ops # <<>>
            => s'.q[cons.poll].fd \/ (s'.q[cons.poll].sent /\ s'.q[cons.poll].yield)
      BY <1>3, <1>13, <2>2, <2>3 DEF Inv, Wakes
    <2> QED BY <1>12, <2>1, <2>4 DEF Wakes
  <1>27. Ordered'
    <2> SUFFICES ASSUME ~mixed PROVE Ordered'
      BY <1>v DEF Ordered
    <2>1. /\ Rising(done) /\ Rising(s.q[Src].ops) /\ Rising(s.q[Dst].ops)
          /\ \A y \in Polled : Below(Plain(done), Plain(s.q[y].ops))
          /\ ~ctl.dead /\ s.q[Src].fwd = Null => Plain(s.q[Dst].ops) = {}
          /\ prod.at = Dst => s.q[Src].fwd = Dst
          /\ \A o \in 1..OpCount :
               o \in Plain(done) \cup Plain(s.q[Src].ops) \cup Plain(s.q[Dst].ops)
                 => Passed(o)
      BY DEF Inv, Ordered
    <2>2. Rising(a) /\ Below(Plain(done), Plain(a))
      BY <1>3, <1>14, <1>15, <2>1 DEF A
    <2>3. /\ Plain(a) = Plain(b) \cup Plain(c) /\ Rising(b) /\ Rising(c)
          /\ Below(Plain(b), Plain(c))
      BY <1>9, <2>2, PlainConcat, RisingConcat
    <2>4. /\ Below(Plain(done), Plain(b)) /\ Below(Plain(done), Plain(c))
      BY <2>2, <2>3 DEF Below
    <2>5. Plain(a) = {} \/ \A y \in Polled \ {x} : Plain(s.q[y].ops) = {}
      <3>1. CASE x = Src
        <4>1. ~ctl.dead /\ s.q[Src].fwd = Null
          BY <1>2, <1>15, <3>1 DEF Inv, Shape, A
        <4> QED BY <2>1, <3>1, <4>1, NamesApart
      <3>2. CASE x = Dst
        <4>1. CASE ~ctl.dead /\ s.q[Src].fwd = Null
          BY <1>15, <2>1, <3>2, <4>1 DEF A
        <4>2. CASE ctl.dead \/ s.q[Src].fwd # Null
          <5>1. Plain(s.q[Src].ops) = {}
            BY <4>2, EmptyIs DEF Inv, Shape
          <5> QED BY <3>2, <5>1, NamesApart
        <4> QED BY <4>1, <4>2
      <3> QED BY <1>14, <3>1, <3>2
    <2>6. \A y \in Polled : Below(Plain(b), Plain(s'.q[y].ops))
      <3>1. Below(Plain(b), Plain(s'.q[x].ops))
        BY <1>11, <2>3
      <3>2. \A y \in Polled \ {x} : Below(Plain(b), Plain(s'.q[y].ops))
        <4>1. \A y \in Polled \ {x} : s'.q[y].ops = s.q[y].ops
          BY <1>13, NamesApart
        <4>2. Plain(b) = {} \/ \A y \in Polled \ {x} : Plain(s.q[y].ops) = {}
          BY <2>3, <2>5
        <4> QED BY <4>1, <4>2 DEF Below
      <3> QED BY <3>1, <3>2
    <2>7. \A y \in Polled : Below(Plain(done), Plain(s'.q[y].ops))
      BY <1>11, <1>13, <2>1, <2>4, NamesApart
    <2>8. Rising(s'.q[Src].ops) /\ Rising(s'.q[Dst].ops)
      BY <1>11, <1>14, <2>1, <2>3
    <2>9. s'.q[Src].fwd = s.q[Src].fwd
      BY <1>13, <1>14
    <2>10. ~ctl.dead /\ s'.q[Src].fwd = Null => Plain(s'.q[Dst].ops) = {}
      <3>1. Plain(s'.q[Dst].ops) \subseteq Plain(s.q[Dst].ops)
        BY <1>11, <1>14, <1>15, <2>3 DEF A
      <3> QED BY <2>1, <2>9, <3>1
    <2>11. Plain(b) \cup Plain(s'.q[Src].ops) \cup Plain(s'.q[Dst].ops)
             \subseteq Plain(s.q[Src].ops) \cup Plain(s.q[Dst].ops)
      BY <1>11, <1>14, <1>15, <2>3 DEF A
    <2>12. \A o \in 1..OpCount : Passed(o)' <=> Passed(o)
      BY <1>v DEF Passed
    <2>13. \A o \in 1..OpCount :
             o \in Plain(done) \cup Plain(b) \cup Plain(s'.q[Src].ops)
                     \cup Plain(s'.q[Dst].ops)
               => Passed(o)'
      BY <2>1, <2>11, <2>12
    <2>14. ~ctl.dead /\ s.q[Src].fwd = Null /\ cons.at = Dst => Plain(b) = {}
      BY <1>15, <2>1, <2>3 DEF A, x
    <2> QED BY <1>12, <1>v, <2>1, <2>3, <2>4, <2>6, <2>7, <2>8, <2>9, <2>10, <2>13, <2>14
            DEF Ordered
  <1> QED BY <1>20, <1>21, <1>22, <1>23, <1>24, <1>26, <1>27 DEF Inv

-----------------------------------------------------------------------------
(* A request is answered: onto Recv, or when that was disabled the answer  *)
(* is destroyed, and with the last reference so is Recv.                   *)
OnlyRecv(m, n) ==
    /\ n \in State /\ n.q[Src] = m.q[Src] /\ n.q[Dst] = m.q[Dst]
    /\ \A x \in Polled : x \in n.sig <=> x \in m.sig
    /\ n.q[Recv].ready = m.q[Recv].ready /\ n.q[Recv].fwd = m.q[Recv].fwd
    /\ ~n.q[Recv].io /\ ~n.q[Recv].sent
    /\ \A i \in 1..Len(n.q[Recv].ops) : n.q[Recv].ops[i] = Request
    /\ \A o \in 1..OpCount : Times(n.gone, o) = Times(m.gone, o)

LEMMA AllRequest ==
    ASSUME NEW a \in Seq(Ops), \A i \in 1..Len(a) : a[i] = Request, NEW o \in 1..OpCount
    PROVE  Times(a, o) = 0
  <1>1. o # Request
    BY NamesApart
  <1> QED BY <1>1, TimesIs

LEMMA ReplyIs ==
    ASSUME Inv, Unanswered = 1
    PROVE  OnlyRecv(s, Reply(s)) /\ Reply(s).q[Recv].ref = s.q[Recv].ref - 1
  <1>1. /\ s \in State /\ s.q[Recv] \in QueueState /\ s.q[Recv].ops \in Seq(Ops)
        /\ s.gone \in Seq(Ops) /\ s.q[Recv].ready \in BOOLEAN /\ s.q[Recv].ref \in Int
    BY Typed, NamesApart DEF Inv
  <1>2. /\ s.q[Recv].ready <=> req \in {"idle", "wait"}
        /\ ~s.q[Recv].io /\ ~s.q[Recv].sent /\ s.q[Recv].fwd = Null
        /\ \A i \in 1..Len(s.q[Recv].ops) : s.q[Recv].ops[i] = Request
    BY DEF Inv, Shape
  <1>3. s.q[Recv].ref = (IF req \in {"idle", "wait"} THEN 1 ELSE 0) + 1
    BY DEF Inv, Refs
  <1>h. PICK h \in BOOLEAN : h = FALSE
    OBVIOUS
  <1>n. Recv \in Queues /\ Request \in Ops
    BY NamesApart
  <1>4. CASE s.q[Recv].ready
    <2> DEFINE m == EnqHere(s, Recv, Request, h)
               n == Release(m, Recv)
    <2>1. Reply(s) = n
      BY <1>4, <1>h DEF Reply
    <2>2. /\ m \in State /\ m.sig = s.sig \cup {Recv} /\ m.gone = s.gone
          /\ Elsewhere(s, m, Recv)
          /\ m.q[Recv].ops = Insert(s.q[Recv].ops, Request, h) /\ Alike(s.q[Recv], m.q[Recv])
          /\ m.q[Recv].sent <=> s.q[Recv].sent \/ (s.q[Recv].io /\ s.q[Recv].ops = <<>>)
      BY <1>1, <1>h, <1>n, EnqHereIs
    <2> HIDE DEF m
    <2>3. m.q[Recv].ref = 2
      BY <1>2, <1>3, <1>4, <2>2 DEF Alike
    <2>4. n = Unref(m, Recv)
      BY <2>2, <2>3, ReleaseIs, NamesApart
    <2>5. /\ n \in State /\ n.sig = m.sig /\ n.gone = m.gone /\ Elsewhere(m, n, Recv)
          /\ n.q[Recv] = [m.q[Recv] EXCEPT !.ref = @ - 1]
      BY <2>2, <2>4, UnrefIs, NamesApart
    <2> HIDE DEF n
    <2>6. m.q[Recv] \in QueueState
      BY <2>2, QueueIs, NamesApart
    <2>7. /\ n.q[Recv].ops = m.q[Recv].ops /\ n.q[Recv].ready = m.q[Recv].ready
          /\ n.q[Recv].fwd = m.q[Recv].fwd /\ n.q[Recv].io = m.q[Recv].io
          /\ n.q[Recv].sent = m.q[Recv].sent /\ n.q[Recv].ref = m.q[Recv].ref - 1
      BY <2>5, <2>6 DEF QueueState
    <2>8. n.q[Src] = s.q[Src] /\ n.q[Dst] = s.q[Dst]
      BY <2>2, <2>5, NamesApart DEF Elsewhere
    <2>9. \A x \in Polled : x \in n.sig <=> x \in s.sig
      BY <2>2, <2>5, NamesApart
    <2>10. \A i \in 1..Len(n.q[Recv].ops) : n.q[Recv].ops[i] = Request
      <3> DEFINE a == s.q[Recv].ops
                 b == Insert(a, Request, h)
      <3>1. /\ b \in Seq(Ops) /\ \A p : Times(b, p) = Times(a, p) + Hit(p, Request)
        BY <1>1, <1>h, <1>n, InsertIs
      <3>2. n.q[Recv].ops = b
        BY <2>2, <2>7
      <3> HIDE DEF b
      <3> SUFFICES ASSUME NEW i \in 1..Len(b), b[i] # Request PROVE FALSE
        BY <3>2
      <3>3. Times(b, b[i]) # 0
        BY <3>1, TimesIs
      <3>4. Times(a, b[i]) = 0
        BY <1>1, <1>2, TimesIs
      <3>5. Hit(b[i], Request) = 0
        BY HitIs
      <3> QED BY <3>1, <3>3, <3>4, <3>5
    <2>11. n.q[Recv].ref = s.q[Recv].ref - 1 /\ n.q[Recv].ready = s.q[Recv].ready
           /\ n.q[Recv].fwd = s.q[Recv].fwd /\ ~n.q[Recv].io /\ ~n.q[Recv].sent
      BY <1>2, <2>2, <2>7 DEF Alike
    <2>12. OnlyRecv(s, n)
      BY <2>2, <2>5, <2>8, <2>9, <2>10, <2>11 DEF OnlyRecv
    <2> QED BY <2>1, <2>11, <2>12
  <1>5. CASE ~s.q[Recv].ready
    <2> DEFINE g == s.gone \o <<Request>>
               m == [s EXCEPT !.gone = Append(@, Request)]
               n == Release(m, Recv)
    <2>1. Reply(s) = n
      BY <1>5 DEF Reply
    <2>2. g \in Seq(Ops) /\ \A o : Times(g, o) = Times(s.gone, o) + Hit(o, Request)
      <3>1. <<Request>> \in Seq(Ops) /\ \A o : Times(<<Request>>, o) = Hit(o, Request)
        BY OneIs, NamesApart
      <3>2. g \in Seq(Ops) /\ \A o : Times(g, o) = Times(s.gone, o) + Times(<<Request>>, o)
        BY <1>1, <3>1, ConcatIs, TimesConcat
      <3> QED BY <3>1, <3>2
    <2>3. Append(s.gone, Request) = g
      BY <1>1, AppendIs, NamesApart
    <2> HIDE DEF g
    <2>4. m \in State /\ m.q = s.q /\ m.sig = s.sig /\ m.gone = g
      BY <1>1, <2>2, <2>3 DEF State
    <2> HIDE DEF m
    <2>5. m.q[Recv].ref = 1 /\ m.q[Recv].fwd = Null
      BY <1>2, <1>3, <1>5, <2>4
    <2>6. Recv \in {Src, Recv} /\ Src \in {Src, Recv} \ {Recv} /\ Recv # Src
      BY NamesApart
    <2>7. /\ n \in State /\ n.sig = m.sig /\ n.gone = m.gone \o m.q[Recv].ops
          /\ n.q[Recv].ops = <<>> /\ ~n.q[Recv].ready /\ n.q[Recv].ref = 0
          /\ n.q[Recv].fwd = Null /\ ~n.q[Recv].sent
          /\ n.q[Recv].io = m.q[Recv].io
          /\ n.q[Dst] = IF m.q[Recv].fwd = Null THEN m.q[Dst]
                        ELSE [m.q[Dst] EXCEPT !.ref = @ - 1]
          /\ \A y \in {Src, Recv} \ {Recv} : n.q[y] = m.q[y]
      BY <2>4, <2>5, <2>6, FinalIs
    <2> HIDE DEF n
    <2>8. n.q[Src] = s.q[Src] /\ n.q[Dst] = s.q[Dst]
      BY <2>4, <2>5, <2>6, <2>7
    <2>9. \A o \in 1..OpCount : Times(n.gone, o) = Times(s.gone, o)
      <3> TAKE o \in 1..OpCount
      <3>1. n.gone = g \o s.q[Recv].ops
        BY <2>4, <2>7
      <3>2. Times(n.gone, o) = Times(g, o) + Times(s.q[Recv].ops, o)
        BY <1>1, <2>2, <3>1, TimesConcat
      <3>3. Times(s.q[Recv].ops, o) = 0
        BY <1>1, <1>2, AllRequest
      <3>4. Hit(o, Request) = 0
        BY HitIs, NamesApart
      <3>5. Times(s.gone, o) \in Nat
        BY <1>1, TimesIs
      <3> QED BY <2>2, <3>2, <3>3, <3>4, <3>5
    <2>10. n.q[Recv].ready \in BOOLEAN
      BY <2>7, QueueIs, NamesApart
    <2>11. \A i \in 1..Len(n.q[Recv].ops) : n.q[Recv].ops[i] = Request
      BY <2>7, EmptyIs
    <2>12. OnlyRecv(s, n)
      BY <1>1, <1>2, <1>5, <2>4, <2>7, <2>8, <2>9, <2>10, <2>11 DEF OnlyRecv
    <2>13. n.q[Recv].ref = s.q[Recv].ref - 1
      BY <2>4, <2>5, <2>7
    <2> QED BY <2>1, <2>12, <2>13
  <1> QED BY <1>1, <1>4, <1>5

(* A poll returns to the application, which will poll again.               *)
LEMMA HandBack ==
    ASSUME Inv, cons.pc = "handle", NEW k \in State, NEW z \in Polled,
           z = Src => s.q[Src].fwd = Null /\ ~ctl.dead,
           \A y \in Polled \ {z} : k.q[y] = s.q[y], Alike(s.q[z], k.q[z]),
           k.q[z].sent => s.q[z].sent \/ k.q[z].ops # <<>>,
           k.q[z].ops = <<>> => s.q[z].ops = <<>>,
           k.q[Recv].ready = s.q[Recv].ready, k.q[Recv].fwd = s.q[Recv].fwd,
           ~k.q[Recv].io, ~k.q[Recv].sent,
           \A i \in 1..Len(k.q[Recv].ops) : k.q[Recv].ops[i] = Request,
           s' = Back(k), cons' = [Returns(TRUE) EXCEPT !.local = <<>>],
           prod' = prod, req' = req, ctl' = ctl
    PROVE  /\ s' \in State /\ s'.q[Src].ops = k.q[Src].ops /\ s'.q[Dst].ops = k.q[Dst].ops
           /\ s'.gone = k.gone /\ s'.q[Recv].ref = k.q[Recv].ref
           /\ s'.q[Src].ref = s.q[Src].ref /\ s'.q[Src].fwd = s.q[Src].fwd
           /\ s'.q[Dst].ref = s.q[Dst].ref - Hold
           /\ cons'.at = Null /\ cons'.local = <<>>
           /\ cons' \in [pc : {"idle", "look", "wait", "retry", "handle"},
                         mode : {"pop", "serve"}, poll : Polled,
                         at : Polled \cup {Null}, held : BOOLEAN,
                         local : Seq(Ops), more : BOOLEAN]
           /\ Shape(s)' /\ Threads' /\ Wakes'
  <1>1. /\ cons \in [pc : {"idle", "look", "wait", "retry", "handle"},
                     mode : {"pop", "serve"}, poll : Polled,
                     at : Polled \cup {Null}, held : BOOLEAN,
                     local : Seq(Ops), more : BOOLEAN]
        /\ cons.at # Null
    BY DEF Inv, TypeOK, Threads
  <1>2. z = Src \/ z = Dst
    BY NamesApart
  <1>3. \A y \in Polled : Alike(s.q[y], k.q[y])
    BY DEF Alike
  <1>4. k.q[Dst].ref = s.q[Dst].ref
    BY <1>3, NamesApart DEF Alike
  <1>5. /\ Quiet(k, s') /\ s'.q[Src] = k.q[Src] /\ s'.q[Recv] = k.q[Recv]
        /\ s'.q[Dst].ref = k.q[Dst].ref - Hold /\ s'.q[Dst].fwd = k.q[Dst].fwd
    BY <1>1, <1>4, BackIs
  <1>6. /\ cons'.at = Null /\ cons'.local = <<>> /\ cons'.pc = "idle" /\ cons'.more
        /\ cons'.poll = cons.poll
        /\ cons' \in [pc : {"idle", "look", "wait", "retry", "handle"},
                      mode : {"pop", "serve"}, poll : Polled,
                      at : Polled \cup {Null}, held : BOOLEAN,
                      local : Seq(Ops), more : BOOLEAN]
    BY <1>1, EmptyIs DEF Returns
  <1>7. /\ s' \in State /\ s'.gone = k.gone
        /\ \A y \in Polled : /\ s'.q[y].ops = k.q[y].ops /\ s'.q[y].sent = k.q[y].sent
                             /\ s'.q[y].yield = s.q[y].yield /\ s'.q[y].ready = s.q[y].ready
        /\ s'.q[Src].ref = s.q[Src].ref /\ s'.q[Src].fwd = s.q[Src].fwd
        /\ s'.q[Dst].fwd = s.q[Dst].fwd
    BY <1>3, <1>5, NamesApart DEF Quiet, Alike
  <1>8. Shape(s)'
    <2>1. s'.q[Src].fwd # Null \/ ctl.dead => s'.q[Src].ops = s.q[Src].ops
      BY <1>2, <1>7, NamesApart
    <2> QED BY <1>5, <1>7, <2>1, NamesApart DEF Inv, Shape
  <1>9. Threads'
    BY <1>6, NamesApart DEF Inv, Threads
  <1>10. Wakes'
    <2>1. \A y \in Polled : s'.q[y].sent /\ s'.q[y].ops = <<>> => s'.q[y].yield
      BY <1>2, <1>7, NamesApart DEF Inv, Wakes
    <2>2. ~Watches'
      BY <1>6 DEF Watches
    <2> QED BY <1>6, <2>1, <2>2 DEF Wakes
  <1> QED BY <1>4, <1>5, <1>6, <1>7, <1>8, <1>9, <1>10, NamesApart

(* The op that is handled, what is behind it, and the queues after the     *)
(* answer if it is the request.                                            *)
First == Head(cons.local)
Rest == Tail(cons.local)
Answered == IF First = Request THEN Reply(s) ELSE s
Handled == done \o <<First>>

LEMMA FirstIs ==
    ASSUME Inv, cons.pc = "handle"
    PROVE  /\ First \in Ops /\ Rest \in Seq(Ops) /\ <<First>> \in Seq(Ops)
           /\ cons.local = <<First>> \o Rest /\ Handled \in Seq(Ops)
           /\ Append(done, First) = Handled
           /\ Len(cons.local) = 1 + Len(Rest) /\ Len(Rest) \in Nat
           /\ \A o : /\ Times(cons.local, o) = Hit(o, First) + Times(Rest, o)
                     /\ Times(Handled, o) = Times(done, o) + Hit(o, First)
                     /\ Hit(o, First) \in Nat /\ Times(Rest, o) \in Nat
  <1>1. cons.local \in Seq(Ops) /\ cons.local # <<>> /\ done \in Seq(Ops)
    BY DEF Inv, TypeOK, Threads
  <1>2. /\ First \in Ops /\ Rest \in Seq(Ops) /\ <<First>> \in Seq(Ops)
        /\ cons.local = <<First>> \o Rest
    BY <1>1, HeadTailIs DEF First, Rest
  <1>3. /\ \A o : Times(<<First>>, o) = Hit(o, First) /\ Hit(o, First) \in Nat
        /\ Len(<<First>>) = 1
    BY <1>2, OneIs, HitIs
  <1>4. Handled \in Seq(Ops) /\ Append(done, First) = Handled
    BY <1>1, <1>2, ConcatIs, AppendIs DEF Handled
  <1>5. Len(cons.local) = 1 + Len(Rest) /\ Len(Rest) \in Nat
    BY <1>2, <1>3, ConcatIs
  <1>6. \A o : /\ Times(cons.local, o) = Times(<<First>>, o) + Times(Rest, o)
               /\ Times(Handled, o) = Times(done, o) + Times(<<First>>, o)
               /\ Times(Rest, o) \in Nat
    <2>1. \A o : Times(<<First>> \o Rest, o) = Times(<<First>>, o) + Times(Rest, o)
      BY <1>2, TimesConcat
    <2>2. \A o : Times(done \o <<First>>, o) = Times(done, o) + Times(<<First>>, o)
      BY <1>1, <1>2, TimesConcat
    <2> QED BY <1>2, <2>1, <2>2, TimesIs DEF Handled
  <1> QED BY <1>2, <1>3, <1>4, <1>5, <1>6

LEMMA AnsweredIs ==
    ASSUME Inv, cons.pc = "handle"
    PROVE  /\ OnlyRecv(s, Answered)
           /\ Answered.q[Recv].ref = s.q[Recv].ref - Hit(Request, First)
  <1>1. CASE First = Request
    <2>1. /\ Times(cons.local, Request) = Hit(Request, First) + Times(Rest, Request)
          /\ Times(Rest, Request) \in Nat /\ Hit(Request, First) = 1
      BY <1>1, FirstIs, HitIs
    <2>2. Times(s.q[Src].ops, Request) \in Nat /\ Times(s.q[Dst].ops, Request) \in Nat
      BY Counts DEF Inv
    <2>3. Unanswered = 1
      BY <2>1, <2>2 DEF Inv, OneRequest, Unanswered
    <2> QED BY <1>1, <2>1, <2>3, ReplyIs DEF Answered
  <1>2. CASE First # Request
    <2>1. Answered = s /\ Hit(Request, First) = 0
      BY <1>2, HitIs DEF Answered
    <2>2. s.q[Recv].ref = s.q[Recv].ref - 0
      BY UnansweredIs
    <2>3. OnlyRecv(s, s)
      BY DEF Inv, TypeOK, Shape, OnlyRecv
    <2> QED BY <2>1, <2>2, <2>3
  <1> QED BY <1>1, <1>2

(* The op is counted as handled, and no longer as unanswered.              *)
LEMMA HandledCounts ==
    ASSUME Inv, cons.pc = "handle", done' = Handled, prod' = prod, req' = req,
           \A o \in 1..OpCount : Times(s'.gone, o) = Times(s.gone, o),
           \A o : Times(s'.q[Src].ops, o) + Times(s'.q[Dst].ops, o) + Times(cons'.local, o)
                    = Times(s.q[Src].ops, o) + Times(s.q[Dst].ops, o) + Times(Rest, o)
    PROVE  /\ OneRequest' /\ Kept' /\ Unanswered' \in Int
           /\ Unanswered' = Unanswered - Hit(Request, First)
  <1>1. /\ \A o : /\ Times(s.q[Src].ops, o) \in Nat /\ Times(s.q[Dst].ops, o) \in Nat
                  /\ Times(s.gone, o) \in Nat /\ Times(done, o) \in Nat
        /\ \A o : /\ Times(cons.local, o) = Hit(o, First) + Times(Rest, o)
                  /\ Times(Handled, o) = Times(done, o) + Hit(o, First)
                  /\ Hit(o, First) \in Nat /\ Times(Rest, o) \in Nat
    BY FirstIs, Counts DEF Inv
  <1>2. Unanswered' = Times(s.q[Src].ops, Request) + Times(s.q[Dst].ops, Request)
                        + Times(Rest, Request)
    BY DEF Unanswered
  <1>3. Unanswered = Times(s.q[Src].ops, Request) + Times(s.q[Dst].ops, Request)
                        + (Hit(Request, First) + Times(Rest, Request))
    BY <1>1 DEF Unanswered
  <1>4. Unanswered' \in Nat /\ Unanswered' = Unanswered - Hit(Request, First)
    BY <1>1, <1>2, <1>3
  <1>5. OneRequest'
    <2>1. Unanswered \in {0, 1} /\ (req = "idle" => Unanswered = 0)
      BY DEF Inv, OneRequest
    <2> QED BY <1>1, <1>4, <2>1 DEF OneRequest
  <1>6. Kept'
    <2> SUFFICES ASSUME NEW o \in 1..OpCount
                 PROVE  Places(o)' = IF Passed(o)' THEN 1 ELSE 0
      BY DEF Kept
    <2>1. Places(o) = IF Passed(o) THEN 1 ELSE 0
      BY DEF Inv, Kept
    <2>2. Passed(o)' <=> Passed(o)
      BY DEF Passed
    <2>3. Places(o)' = Places(o)
      <3>1. Places(o)' = Times(s'.q[Src].ops, o) + Times(s'.q[Dst].ops, o)
                           + Times(cons'.local, o) + Times(s.gone, o) + Times(Handled, o)
        BY DEF Places
      <3>2. Places(o)' = Times(s.q[Src].ops, o) + Times(s.q[Dst].ops, o) + Times(Rest, o)
                           + Times(s.gone, o) + (Times(done, o) + Hit(o, First))
        BY <1>1, <3>1
      <3>3. Places(o) = Times(s.q[Src].ops, o) + Times(s.q[Dst].ops, o)
                          + (Hit(o, First) + Times(Rest, o))
                          + Times(s.gone, o) + Times(done, o)
        BY <1>1 DEF Places
      <3>4. /\ Times(s.q[Src].ops, o) \in Nat /\ Times(s.q[Dst].ops, o) \in Nat
            /\ Times(s.gone, o) \in Nat /\ Times(done, o) \in Nat
            /\ Hit(o, First) \in Nat /\ Times(Rest, o) \in Nat
        BY <1>1
      <3> QED BY <3>2, <3>3, <3>4
    <2> QED BY <2>1, <2>2, <2>3
  <1> QED BY <1>4, <1>5, <1>6

(* What was handled is before what is still to be.                         *)
LEMMA HandledOrder ==
    ASSUME Inv, cons.pc = "handle", ~mixed
    PROVE  /\ Rising(Handled) /\ Rising(Rest) /\ Below(Plain(Handled), Plain(Rest))
           /\ \A y \in Polled : /\ Below(Plain(Handled), Plain(s.q[y].ops))
                                /\ Below(Plain(Rest), Plain(s.q[y].ops))
           /\ Plain(Rest) \subseteq Plain(cons.local)
           /\ Plain(Handled) \subseteq Plain(done) \cup Plain(cons.local)
  <1>1. /\ <<First>> \in Seq(Ops) /\ Rest \in Seq(Ops) /\ cons.local = <<First>> \o Rest
        /\ done \in Seq(Ops)
    BY FirstIs DEF Inv, TypeOK
  <1>2. /\ Rising(done) /\ Rising(cons.local) /\ Below(Plain(done), Plain(cons.local))
        /\ \A y \in Polled : /\ Below(Plain(done), Plain(s.q[y].ops))
                             /\ Below(Plain(cons.local), Plain(s.q[y].ops))
    BY DEF Inv, Ordered
  <1>3. /\ Plain(cons.local) = Plain(<<First>>) \cup Plain(Rest)
        /\ Rising(<<First>>) /\ Rising(Rest) /\ Below(Plain(<<First>>), Plain(Rest))
    BY <1>1, <1>2, PlainConcat, RisingConcat
  <1>4. Below(Plain(done), Plain(<<First>>))
    BY <1>2, <1>3 DEF Below
  <1>5. /\ Plain(Handled) = Plain(done) \cup Plain(<<First>>) /\ Rising(Handled)
    BY <1>1, <1>2, <1>3, <1>4, PlainConcat, RisingConcat DEF Handled
  <1>6. Below(Plain(Handled), Plain(Rest))
    BY <1>2, <1>3, <1>5 DEF Below
  <1>7. \A y \in Polled : /\ Below(Plain(Handled), Plain(s.q[y].ops))
                          /\ Below(Plain(Rest), Plain(s.q[y].ops))
    BY <1>2, <1>3, <1>5 DEF Below
  <1> QED BY <1>3, <1>5, <1>6, <1>7

(* The op is handled and the poll goes on.                                 *)
LEMMA HandleOn ==
    ASSUME Inv, cons.pc = "handle", s' = Answered, done' = Handled,
           cons' = [cons EXCEPT !.local = Rest,
                                !.pc = IF Rest # <<>> THEN "handle" ELSE "retry"],
           prod' = prod, req' = req, ctl' = ctl, mixed' = mixed
    PROVE  Inv'
  <1>1. /\ cons \in [pc : {"idle", "look", "wait", "retry", "handle"},
                     mode : {"pop", "serve"}, poll : Polled,
                     at : Polled \cup {Null}, held : BOOLEAN,
                     local : Seq(Ops), more : BOOLEAN]
        /\ cons.at # Null
    BY DEF Inv, TypeOK, Threads
  <1>2. /\ Rest \in Seq(Ops) /\ Handled \in Seq(Ops) /\ Len(cons.local) = 1 + Len(Rest)
        /\ Len(Rest) \in Nat
    BY FirstIs
  <1>3. /\ cons'.local = Rest /\ cons'.at = cons.at /\ cons'.held = cons.held
        /\ cons'.poll = cons.poll /\ cons'.mode = cons.mode
        /\ cons'.pc = (IF Rest # <<>> THEN "handle" ELSE "retry")
        /\ cons' \in [pc : {"idle", "look", "wait", "retry", "handle"},
                      mode : {"pop", "serve"}, poll : Polled,
                      at : Polled \cup {Null}, held : BOOLEAN,
                      local : Seq(Ops), more : BOOLEAN]
    BY <1>1, <1>2
  <1>4. OnlyRecv(s, s') /\ s'.q[Recv].ref = s.q[Recv].ref - Hit(Request, First)
    BY AnsweredIs
  <1>5. \A o : Times(s'.q[Src].ops, o) + Times(s'.q[Dst].ops, o) + Times(cons'.local, o)
                 = Times(s.q[Src].ops, o) + Times(s.q[Dst].ops, o) + Times(Rest, o)
    BY <1>3, <1>4 DEF OnlyRecv
  <1>6. \A o \in 1..OpCount : Times(s'.gone, o) = Times(s.gone, o)
    BY <1>4 DEF OnlyRecv
  <1>7. /\ OneRequest' /\ Kept' /\ Unanswered' \in Int
        /\ Unanswered' = Unanswered - Hit(Request, First)
    BY <1>5, <1>6, HandledCounts
  <1>10. TypeOK'
    BY <1>2, <1>3, <1>4 DEF Inv, TypeOK, OnlyRecv
  <1>11. Shape(s)'
    BY <1>4 DEF Inv, Shape, OnlyRecv
  <1>12. Threads'
    <2>1. Rest # <<>> => Len(Rest) # 0
      BY <1>2, NotEmpty
    <2>2. cons.mode = "pop" => Rest = <<>>
      BY <1>2, <2>1 DEF Inv, Threads
    <2> QED BY <1>1, <1>3, <2>2 DEF Inv, Threads
  <1>13. Refs'
    <2>1. s'.q[Src].ref = s.q[Src].ref /\ s'.q[Src].fwd = s.q[Src].fwd
          /\ s'.q[Dst].ref = s.q[Dst].ref
      BY <1>4 DEF OnlyRecv
    <2>2. Hit(Request, First) \in Int /\ s.q[Recv].ref \in Int /\ Unanswered \in Int
      BY HitIs, UnansweredIs
    <2>3. /\ s'.q[Recv].ref - Unanswered' = s.q[Recv].ref - Unanswered
          /\ s'.q[Recv].ref \in Int
      BY <1>4, <1>7, <2>2
    <2> QED BY <1>3, <1>7, <2>1, <2>3, RefsSame
  <1>14. Wakes'
    <2>1. s'.q[Src] = s.q[Src] /\ s'.q[Dst] = s.q[Dst] /\ cons.poll \in {Src, Dst}
      BY <1>1, <1>4, NamesApart DEF OnlyRecv
    <2>2. Watches' => Watches
      BY <1>3 DEF Watches
    <2> QED BY <1>3, <2>1, <2>2, NamesApart DEF Inv, Wakes
  <1>15. Ordered'
    <2> SUFFICES ASSUME ~mixed PROVE Ordered'
      BY DEF Ordered
    <2>1. s'.q[Src] = s.q[Src] /\ s'.q[Dst] = s.q[Dst]
      BY <1>4 DEF OnlyRecv
    <2>2. \A y \in Polled : s'.q[y] = s.q[y]
      BY <2>1, NamesApart
    <2>3. /\ Rising(Handled) /\ Rising(Rest) /\ Below(Plain(Handled), Plain(Rest))
          /\ \A y \in Polled : /\ Below(Plain(Handled), Plain(s.q[y].ops))
                               /\ Below(Plain(Rest), Plain(s.q[y].ops))
          /\ Plain(Rest) \subseteq Plain(cons.local)
          /\ Plain(Handled) \subseteq Plain(done) \cup Plain(cons.local)
      BY HandledOrder
    <2>4. \A o \in 1..OpCount : Passed(o)' <=> Passed(o)
      BY DEF Passed
    <2> QED BY <1>3, <2>1, <2>2, <2>3, <2>4 DEF Inv, Ordered
  <1> QED BY <1>7, <1>10, <1>11, <1>12, <1>13, <1>14, <1>15 DEF Inv

(* Where ops go back to: the queue that the one it is at is forwarded to.  *)
Home == IF s.q[cons.at].fwd = Null THEN cons.at ELSE Dst

LEMMA HomeIs ==
    ASSUME Inv, cons.pc = "handle"
    PROVE  /\ cons.at \in Polled /\ Home \in Polled /\ Home \in Queues
           /\ s.q[cons.at].fwd \in {Null, Dst}
           /\ s.q[cons.at].fwd # Null => s.q[cons.at].fwd = Home
           /\ s.q[cons.at].fwd = Null => cons.at = Home
           /\ Home = Src => s.q[Src].fwd = Null /\ ~ctl.dead
  <1>1. cons.at \in Polled /\ cons.poll \in Polled
    BY DEF Inv, TypeOK, Threads
  <1>2. s.q[cons.at].fwd \in {Null, Dst}
    BY <1>1, Typed, NamesApart DEF Inv
  <1>3. cons.at = Src => ~ctl.dead
    BY <1>1, NamesApart DEF Inv, Threads
  <1> QED BY <1>1, <1>2, <1>3, NamesApart DEF Home

(* The ops a are back in front.                                            *)
PutBack(m, k, a) ==
    /\ k \in State /\ k.q[Recv] = m.q[Recv] /\ k.gone = m.gone
    /\ \A y \in Polled \ {Home} : k.q[y] = s.q[y]
    /\ Alike(s.q[Home], k.q[Home]) /\ k.q[Home].ops = a \o s.q[Home].ops
    /\ k.q[Home].sent => s.q[Home].sent \/ k.q[Home].ops # <<>>
    /\ k.q[Home].ops = <<>> => s.q[Home].ops = <<>>

LEMMA FrontIs ==
    ASSUME Inv, cons.pc = "handle", NEW m \in State, m.q[Src] = s.q[Src],
           m.q[Dst] = s.q[Dst], NEW a \in Seq(Ops)
    PROVE  /\ a # <<>> => PutBack(m, Prepend(m, cons.at, a), a)
           /\ a = <<>> => PutBack(m, m, a)
  <1> DEFINE z == IF m.q[cons.at].fwd = Null THEN cons.at ELSE m.q[cons.at].fwd
             k == Prepend(m, cons.at, a)
  <1>1. /\ cons.at \in Polled /\ Home \in Polled /\ Home \in Queues
        /\ s.q[cons.at].fwd \in {Null, Dst}
        /\ s.q[cons.at].fwd # Null => s.q[cons.at].fwd = Home
        /\ s.q[cons.at].fwd = Null => cons.at = Home
    BY HomeIs
  <1>2. \A y \in Polled : m.q[y] = s.q[y]
    BY NamesApart
  <1>3. z = Home
    BY <1>1, <1>2
  <1>4. cons.at \in Queues /\ m.q[cons.at].fwd \in Queues \cup {Null}
    BY <1>1, <1>2, NamesApart
  <1>5. /\ k \in State /\ k.gone = m.gone /\ Elsewhere(m, k, z)
        /\ k.q[z].ops = a \o m.q[z].ops /\ Alike(m.q[z], k.q[z])
        /\ k.q[z].sent <=> m.q[z].sent \/ (m.q[z].io /\ m.q[z].ops = <<>>)
    <2> DEFINE x == cons.at
    <2>1. x \in Queues /\ m.q[x].fwd \in Queues \cup {Null}
      BY <1>4
    <2>2. z = IF m.q[x].fwd = Null THEN x ELSE m.q[x].fwd
      OBVIOUS
    <2>3. k = Prepend(m, x, a)
      OBVIOUS
    <2> HIDE DEF x, z, k
    <2>4. LET n == Prepend(m, x, a)
              h == IF m.q[x].fwd = Null THEN x ELSE m.q[x].fwd
          IN  /\ n \in State /\ n.sig = m.sig /\ n.gone = m.gone /\ Elsewhere(m, n, h)
              /\ n.q[h].ops = a \o m.q[h].ops /\ Alike(m.q[h], n.q[h])
              /\ n.q[h].sent <=> m.q[h].sent \/ (m.q[h].io /\ m.q[h].ops = <<>>)
              /\ n.q[h].fd <=> \/ m.q[h].fd
                               \/ m.q[h].io /\ ~m.q[h].sent /\ m.q[h].ops = <<>>
      BY <2>1, PrependIs, Zenon
    <2> QED BY <2>2, <2>3, <2>4, Zenon
  <1> HIDE DEF k, z
  <1>6. s.q[Home].ops \in Seq(Ops)
    BY <1>1, Typed DEF Inv
  <1> DEFINE b == s.q[Home].ops
  <1>7. (a \o b \in Seq(Ops)) /\ Len(a \o b) = Len(a) + Len(b) /\ Len(a) \in Nat
        /\ Len(b) \in Nat
    BY <1>6, ConcatIs
  <1>8. a # <<>> => a \o b # <<>>
    <2>1. a # <<>> => Len(a) # 0
      BY NotEmpty
    <2>2. a \o b = <<>> => Len(a \o b) = 0
      BY <1>7, NotEmpty
    <2> QED BY <1>7, <2>1, <2>2
  <1>9. ASSUME a # <<>> PROVE PutBack(m, k, a)
    <2>1. k.q[Home].ops = a \o b /\ k.q[Home].ops # <<>> /\ Alike(s.q[Home], k.q[Home])
      BY <1>1, <1>2, <1>3, <1>5, <1>8, <1>9
    <2>2. k.q[Recv] = m.q[Recv] /\ \A y \in Polled \ {Home} : k.q[y] = s.q[y]
      BY <1>1, <1>2, <1>3, <1>5, NamesApart DEF Elsewhere
    <2> QED BY <1>5, <2>1, <2>2 DEF PutBack
  <1>10. ASSUME a = <<>> PROVE PutBack(m, m, a)
    <2>1. a \o b = b
      BY <1>6, <1>10
    <2> QED BY <1>1, <1>2, <2>1 DEF PutBack, Alike
  <1> QED BY <1>9, <1>10 DEF k

(* The op is handled, and what was moved out with it goes back.            *)
LEMMA HandleBack ==
    ASSUME Inv, cons.pc = "handle", done' = Handled, NEW k,
           k = (IF Rest = <<>> THEN Answered ELSE Prepend(Answered, cons.at, Rest)),
           s' = Back(k), cons' = [Returns(TRUE) EXCEPT !.local = <<>>],
           prod' = prod, req' = req, ctl' = ctl, mixed' = mixed
    PROVE  Inv'
  <1>1. OnlyRecv(s, Answered) /\ Answered.q[Recv].ref = s.q[Recv].ref - Hit(Request, First)
    BY AnsweredIs
  <1>2. Rest \in Seq(Ops) /\ Handled \in Seq(Ops)
    BY FirstIs
  <1>3. PutBack(Answered, k, Rest)
    <2>1. Answered \in State /\ Answered.q[Src] = s.q[Src] /\ Answered.q[Dst] = s.q[Dst]
      BY <1>1 DEF OnlyRecv
    <2> QED BY <1>2, <2>1, FrontIs
  <1>4. /\ k \in State /\ k.q[Recv] = Answered.q[Recv] /\ k.gone = Answered.gone
        /\ \A y \in Polled \ {Home} : k.q[y] = s.q[y]
        /\ Alike(s.q[Home], k.q[Home]) /\ k.q[Home].ops = Rest \o s.q[Home].ops
        /\ k.q[Home].sent => s.q[Home].sent \/ k.q[Home].ops # <<>>
        /\ k.q[Home].ops = <<>> => s.q[Home].ops = <<>>
    BY <1>3 DEF PutBack
  <1>5. /\ Home \in Polled /\ (Home = Src => s.q[Src].fwd = Null /\ ~ctl.dead)
        /\ Home \in Queues
    BY HomeIs
  <1>6. /\ k.q[Recv].ready = s.q[Recv].ready /\ k.q[Recv].fwd = s.q[Recv].fwd
        /\ ~k.q[Recv].io /\ ~k.q[Recv].sent
        /\ \A i \in 1..Len(k.q[Recv].ops) : k.q[Recv].ops[i] = Request
        /\ \A o \in 1..OpCount : Times(k.gone, o) = Times(s.gone, o)
        /\ k.q[Recv].ref = s.q[Recv].ref - Hit(Request, First)
    BY <1>1, <1>4 DEF OnlyRecv
  <1>7. /\ s' \in State /\ s'.q[Src].ops = k.q[Src].ops /\ s'.q[Dst].ops = k.q[Dst].ops
        /\ s'.gone = k.gone /\ s'.q[Recv].ref = k.q[Recv].ref
        /\ s'.q[Src].ref = s.q[Src].ref /\ s'.q[Src].fwd = s.q[Src].fwd
        /\ s'.q[Dst].ref = s.q[Dst].ref - Hold
        /\ cons'.at = Null /\ cons'.local = <<>>
        /\ cons' \in [pc : {"idle", "look", "wait", "retry", "handle"},
                      mode : {"pop", "serve"}, poll : Polled,
                      at : Polled \cup {Null}, held : BOOLEAN,
                      local : Seq(Ops), more : BOOLEAN]
        /\ Shape(s)' /\ Threads' /\ Wakes'
    BY <1>4, <1>5, <1>6, HandBack
  <1>8. \/ Home = Src /\ s'.q[Src].ops = Rest \o s.q[Src].ops /\ s'.q[Dst].ops = s.q[Dst].ops
        \/ Home = Dst /\ s'.q[Dst].ops = Rest \o s.q[Dst].ops /\ s'.q[Src].ops = s.q[Src].ops
    <2>1. CASE Home = Src
      <3>1. k.q[Src].ops = Rest \o s.q[Src].ops /\ k.q[Dst] = s.q[Dst]
        BY <1>4, <2>1, NamesApart
      <3> QED BY <1>7, <2>1, <3>1
    <2>2. CASE Home = Dst
      <3>1. k.q[Dst].ops = Rest \o s.q[Dst].ops /\ k.q[Src] = s.q[Src]
        BY <1>4, <2>2, NamesApart
      <3> QED BY <1>7, <2>2, <3>1
    <2> QED BY <1>5, <2>1, <2>2, NamesApart
  <1>9. s.q[Src].ops \in Seq(Ops) /\ s.q[Dst].ops \in Seq(Ops)
    BY Typed, NamesApart DEF Inv
  <1>10. \A o : Times(s'.q[Src].ops, o) + Times(s'.q[Dst].ops, o) + Times(cons'.local, o)
                  = Times(s.q[Src].ops, o) + Times(s.q[Dst].ops, o) + Times(Rest, o)
    <2> TAKE o
    <2>1. /\ Times(s.q[Src].ops, o) \in Nat /\ Times(s.q[Dst].ops, o) \in Nat
          /\ Times(Rest, o) \in Nat /\ Times(cons'.local, o) = 0
      BY <1>2, <1>7, Counts, TimesIs, EmptyIs DEF Inv
    <2>2. /\ Times(Rest \o s.q[Src].ops, o) = Times(Rest, o) + Times(s.q[Src].ops, o)
          /\ Times(Rest \o s.q[Dst].ops, o) = Times(Rest, o) + Times(s.q[Dst].ops, o)
      BY <1>2, <1>9, TimesConcat
    <2>3. \/ /\ Times(s'.q[Src].ops, o) = Times(Rest, o) + Times(s.q[Src].ops, o)
             /\ Times(s'.q[Dst].ops, o) = Times(s.q[Dst].ops, o)
          \/ /\ Times(s'.q[Dst].ops, o) = Times(Rest, o) + Times(s.q[Dst].ops, o)
             /\ Times(s'.q[Src].ops, o) = Times(s.q[Src].ops, o)
      BY <1>8, <2>2
    <2> QED BY <2>1, <2>3
  <1>11. \A o \in 1..OpCount : Times(s'.gone, o) = Times(s.gone, o)
    BY <1>6, <1>7
  <1>12. /\ OneRequest' /\ Kept' /\ Unanswered' \in Int
         /\ Unanswered' = Unanswered - Hit(Request, First)
    BY <1>10, <1>11, HandledCounts
  <1>13. TypeOK'
    BY <1>2, <1>7 DEF Inv, TypeOK
  <1>14. Refs'
    <2>1. Hit(Request, First) \in Int /\ s.q[Recv].ref \in Int /\ Unanswered \in Int
      BY HitIs, UnansweredIs
    <2>2. /\ s'.q[Recv].ref - Unanswered' = s.q[Recv].ref - Unanswered
          /\ s'.q[Recv].ref \in Int
      BY <1>6, <1>7, <1>12, <2>1
    <2> QED BY <1>7, <1>12, <2>2, RefsBack
  <1>15. Ordered'
    <2> SUFFICES ASSUME ~mixed PROVE Ordered'
      BY DEF Ordered
    <2>1. /\ Rising(Handled) /\ Rising(Rest) /\ Below(Plain(Handled), Plain(Rest))
          /\ \A y \in Polled : /\ Below(Plain(Handled), Plain(s.q[y].ops))
                               /\ Below(Plain(Rest), Plain(s.q[y].ops))
          /\ Plain(Rest) \subseteq Plain(cons.local)
          /\ Plain(Handled) \subseteq Plain(done) \cup Plain(cons.local)
      BY HandledOrder
    <2>2. /\ Rising(s.q[Src].ops) /\ Rising(s.q[Dst].ops)
          /\ ~ctl.dead /\ s.q[Src].fwd = Null => Plain(s.q[Dst].ops) = {}
          /\ ~ctl.dead /\ s.q[Src].fwd = Null /\ cons.at = Dst => Plain(cons.local) = {}
          /\ prod.at = Dst => s.q[Src].fwd = Dst
          /\ \A o \in 1..OpCount :
               o \in Plain(done) \cup Plain(cons.local) \cup Plain(s.q[Src].ops)
                       \cup Plain(s.q[Dst].ops)
                 => Passed(o)
      BY DEF Inv, Ordered
    <2>3. /\ Rising(Rest \o s.q[Src].ops) /\ Rising(Rest \o s.q[Dst].ops)
          /\ Plain(Rest \o s.q[Src].ops) = Plain(Rest) \cup Plain(s.q[Src].ops)
          /\ Plain(Rest \o s.q[Dst].ops) = Plain(Rest) \cup Plain(s.q[Dst].ops)
      BY <1>2, <1>9, <2>1, <2>2, PlainConcat, RisingConcat, NamesApart
    <2>4. Rising(s'.q[Src].ops) /\ Rising(s'.q[Dst].ops)
      BY <1>8, <2>2, <2>3
    <2>5. /\ Plain(s'.q[Src].ops) \subseteq Plain(Rest) \cup Plain(s.q[Src].ops)
          /\ Plain(s'.q[Dst].ops) \subseteq Plain(Rest) \cup Plain(s.q[Dst].ops)
      BY <1>8, <2>3
    <2>6. \A y \in Polled : Below(Plain(Handled), Plain(s'.q[y].ops))
      <3>1. /\ Below(Plain(Handled), Plain(s.q[Src].ops))
            /\ Below(Plain(Handled), Plain(s.q[Dst].ops))
        BY <2>1, NamesApart
      <3>2. /\ Below(Plain(Handled), Plain(s'.q[Src].ops))
            /\ Below(Plain(Handled), Plain(s'.q[Dst].ops))
        BY <2>1, <2>5, <3>1 DEF Below
      <3> QED BY <3>2, NamesApart
    <2>7. ~ctl.dead /\ s'.q[Src].fwd = Null => Plain(s'.q[Dst].ops) = {}
      <3> SUFFICES ASSUME ~ctl.dead, s.q[Src].fwd = Null PROVE Plain(s'.q[Dst].ops) = {}
        BY <1>7
      <3>1. CASE Home = Src
        <4>1. s'.q[Dst].ops = s.q[Dst].ops
          BY <1>8, <3>1, NamesApart
        <4> QED BY <2>2, <4>1
      <3>2. CASE Home = Dst
        <4>1. cons.at = Dst
          BY <3>2, HomeIs, NamesApart
        <4>2. Plain(Rest) = {} /\ Plain(s.q[Dst].ops) = {}
          BY <2>1, <2>2, <4>1
        <4> QED BY <2>5, <4>2
      <3> QED BY <1>5, <3>1, <3>2, NamesApart
    <2>8. \A o \in 1..OpCount :
            o \in Plain(Handled) \cup Plain(s'.q[Src].ops) \cup Plain(s'.q[Dst].ops)
              => Passed(o)'
      <3>1. \A o \in 1..OpCount : Passed(o)' <=> Passed(o)
        BY DEF Passed
      <3> QED BY <2>1, <2>2, <2>5, <3>1
    <2>9. /\ Plain(cons'.local) = {} /\ Rising(cons'.local)
          /\ \A T : Below(Plain(Handled), Plain(cons'.local)) /\ Below(Plain(cons'.local), T)
      BY <1>7, EmptyIs DEF Below
    <2> QED BY <1>7, <2>1, <2>2, <2>4, <2>6, <2>7, <2>8, <2>9 DEF Ordered
  <1> QED BY <1>7, <1>12, <1>13, <1>14, <1>15 DEF Inv

LEMMA HandleKeeps == ASSUME Inv, Handle PROVE Inv'
  <1>1. cons.pc = "handle" /\ done' = Append(done, First)
        /\ prod' = prod /\ req' = req /\ ctl' = ctl /\ mixed' = mixed
    BY DEF Handle, First
  <1>2. done' = Handled
    BY <1>1, FirstIs
  <1> DEFINE k == IF Rest = <<>> THEN Answered ELSE Prepend(Answered, cons.at, Rest)
  <1>3. \/ /\ s' = IF Rest = <<>> /\ cons.mode = "serve" THEN Back(Answered) ELSE Answered
           /\ cons' = [(IF Rest = <<>> /\ cons.mode = "serve"
                        THEN Returns(TRUE) ELSE cons) EXCEPT
                         !.local = Rest,
                         !.pc = IF Rest # <<>> THEN "handle"
                                ELSE IF cons.mode = "pop" THEN "retry"
                                ELSE "idle"]
        \/ /\ s' = Back(k)
           /\ cons' = [Returns(TRUE) EXCEPT !.local = <<>>]
    BY DEF Handle, First, Rest, Answered
  <1>4. cons \in [pc : {"idle", "look", "wait", "retry", "handle"},
                  mode : {"pop", "serve"}, poll : Polled,
                  at : Polled \cup {Null}, held : BOOLEAN,
                  local : Seq(Ops), more : BOOLEAN]
    BY DEF Inv, TypeOK
  <1>5. \/ /\ s' = Answered
           /\ cons' = [cons EXCEPT !.local = Rest,
                                   !.pc = IF Rest # <<>> THEN "handle" ELSE "retry"]
        \/ /\ s' = Back(k)
           /\ cons' = [Returns(TRUE) EXCEPT !.local = <<>>]
    <2>1. CASE /\ s' = IF Rest = <<>> /\ cons.mode = "serve" THEN Back(Answered) ELSE Answered
               /\ cons' = [(IF Rest = <<>> /\ cons.mode = "serve"
                            THEN Returns(TRUE) ELSE cons) EXCEPT
                             !.local = Rest,
                             !.pc = IF Rest # <<>> THEN "handle"
                                    ELSE IF cons.mode = "pop" THEN "retry"
                                    ELSE "idle"]
      <3>1. CASE Rest = <<>> /\ cons.mode = "serve"
        <4>1. s' = Back(k)
          BY <2>1, <3>1
        <4>2. cons' = [Returns(TRUE) EXCEPT !.local = Rest, !.pc = "idle"]
          BY <2>1, <3>1
        <4>3. cons' = [Returns(TRUE) EXCEPT !.local = <<>>]
          BY <1>4, <3>1, <4>2 DEF Returns
        <4> QED BY <4>1, <4>3
      <3>2. CASE ~(Rest = <<>> /\ cons.mode = "serve")
        BY <1>4, <2>1, <3>2
      <3> QED BY <3>1, <3>2
    <2> QED BY <1>3, <2>1
  <1> HIDE DEF k
  <1>6. CASE /\ s' = Answered
             /\ cons' = [cons EXCEPT !.local = Rest,
                                     !.pc = IF Rest # <<>> THEN "handle" ELSE "retry"]
    BY <1>1, <1>2, <1>6, HandleOn
  <1>7. CASE s' = Back(k) /\ cons' = [Returns(TRUE) EXCEPT !.local = <<>>]
    BY <1>1, <1>2, <1>7, HandleBack DEF k
  <1> QED BY <1>5, <1>6, <1>7

(* The rest of a delivery report op is enqueued again, with what had been  *)
(* moved out.                                                              *)
Again(k) ==
    /\ k \in State /\ k.q[Recv] = s.q[Recv] /\ k.gone = s.gone
    /\ \A y \in Polled \ {Home} : k.q[y] = s.q[y]
    /\ Alike(s.q[Home], k.q[Home]) /\ k.q[Home].ops # <<>>
    /\ \A o : Times(k.q[Home].ops, o) = Times(s.q[Home].ops, o) + Times(cons.local, o)

LEMMA ReenqIs ==
    ASSUME Inv, cons.pc = "handle" PROVE Again(Reenq(s, First, Rest))
  <1>h. PICK h \in BOOLEAN : h = TRUE
    OBVIOUS
  <1> DEFINE b == s.q[Home].ops
  <1>1. /\ First \in Ops /\ Rest \in Seq(Ops) /\ Len(cons.local) = 1 + Len(Rest)
        /\ Len(Rest) \in Nat
        /\ \A o : /\ Times(cons.local, o) = Hit(o, First) + Times(Rest, o)
                  /\ Hit(o, First) \in Nat /\ Times(Rest, o) \in Nat
    BY FirstIs
  <1>2. /\ cons.at \in Polled /\ Home \in Polled /\ Home \in Queues
        /\ s.q[cons.at].fwd # Null => s.q[cons.at].fwd = Home
        /\ s.q[cons.at].fwd = Null => cons.at = Home
    BY HomeIs
  <1>3. s \in State /\ b \in Seq(Ops) /\ \A o : Times(b, o) \in Nat
    BY <1>2, Typed DEF Inv
  <1>4. cons.mode \in {"pop", "serve"}
    BY DEF Inv, TypeOK
  <1>5. CASE cons.mode = "serve"
    <2> DEFINE c == Insert(Rest, First, h)
               k == Prepend(s, cons.at, c)
    <2>1. Reenq(s, First, Rest) = k
      BY <1>5, <1>h DEF Reenq
    <2>2. /\ c \in Seq(Ops) /\ c # <<>>
          /\ \A p : Times(c, p) = Times(Rest, p) + Hit(p, First)
      BY <1>1, <1>h, InsertIs
    <2> HIDE DEF c
    <2>3. PutBack(s, k, c)
      BY <1>3, <2>2, FrontIs
    <2> HIDE DEF k
    <2>4. /\ k \in State /\ k.q[Recv] = s.q[Recv] /\ k.gone = s.gone
          /\ \A y \in Polled \ {Home} : k.q[y] = s.q[y]
          /\ Alike(s.q[Home], k.q[Home]) /\ k.q[Home].ops = c \o b
      BY <2>3 DEF PutBack
    <2>5. \A o : Times(c \o b, o) = Times(c, o) + Times(b, o)
      BY <1>3, <2>2, TimesConcat
    <2>6. \A o : Times(k.q[Home].ops, o) = Times(b, o) + Times(cons.local, o)
      <3> TAKE o
      <3>1. /\ Times(k.q[Home].ops, o) = Times(Rest, o) + Hit(o, First) + Times(b, o)
            /\ Times(cons.local, o) = Hit(o, First) + Times(Rest, o)
            /\ Hit(o, First) \in Nat /\ Times(Rest, o) \in Nat /\ Times(b, o) \in Nat
        BY <1>1, <1>3, <2>2, <2>4, <2>5
      <3> QED BY <3>1
    <2>7. c \o b # <<>>
      <3>1. Len(c) # 0 /\ Len(c) \in Nat /\ Len(b) \in Nat
        BY <1>3, <2>2, NotEmpty
      <3>2. Len(c \o b) = Len(c) + Len(b)
        BY <1>3, <2>2, ConcatIs
      <3> QED BY <3>1, <3>2, EmptyIs
    <2> QED BY <2>1, <2>4, <2>6, <2>7 DEF Again
  <1>6. CASE cons.mode = "pop"
    <2> DEFINE k == EnqHere(s, Home, First, h)
    <2>1. Reenq(s, First, Rest) = k
      BY <1>2, <1>6, <1>h DEF Reenq
    <2>2. /\ k \in State /\ k.gone = s.gone /\ Elsewhere(s, k, Home)
          /\ k.q[Home].ops = Insert(b, First, h) /\ Alike(s.q[Home], k.q[Home])
      <3> DEFINE x == Home
                 f == First
      <3>1. s \in State /\ x \in Queues /\ f \in Ops
        BY <1>1, <1>2, <1>3
      <3> DEFINE n == EnqHere(s, x, f, h)
      <3> HIDE DEF x, f, k
      <3>2. /\ n \in State /\ n.gone = s.gone /\ Elsewhere(s, n, x)
            /\ n.q[x].ops = Insert(s.q[x].ops, f, h) /\ Alike(s.q[x], n.q[x])
        BY <3>1, EnqHereIs
      <3> QED BY <3>2 DEF x, f, k
    <2> HIDE DEF k
    <2>3. /\ Insert(b, First, h) # <<>>
          /\ \A p : Times(Insert(b, First, h), p) = Times(b, p) + Hit(p, First)
      BY <1>1, <1>3, <1>h, InsertIs
    <2>4. Rest = <<>>
      <3>1. Len(cons.local) = 1
        BY <1>6 DEF Inv, Threads
      <3>2. Len(Rest) \in Nat /\ 1 = 1 + Len(Rest) /\ Rest \in Seq(Ops)
        BY <1>1, <3>1
      <3>3. \A u \in Nat : 1 = 1 + u => u = 0
        OBVIOUS
      <3> QED BY <3>2, <3>3, NotEmpty
    <2>5. \A o : Times(k.q[Home].ops, o) = Times(b, o) + Times(cons.local, o)
      <3> TAKE o
      <3>1. /\ Times(k.q[Home].ops, o) = Times(b, o) + Hit(o, First)
            /\ Times(cons.local, o) = Hit(o, First) + 0
            /\ Hit(o, First) \in Nat /\ Times(b, o) \in Nat
        BY <1>1, <1>3, <2>2, <2>3, <2>4, EmptyIs
      <3> QED BY <3>1
    <2>6. k.q[Recv] = s.q[Recv] /\ \A y \in Polled \ {Home} : k.q[y] = s.q[y]
      BY <1>2, <2>2, NamesApart DEF Elsewhere
    <2> QED BY <2>1, <2>2, <2>3, <2>5, <2>6 DEF Again
  <1> QED BY <1>4, <1>5, <1>6

LEMMA HandleAgainKeeps == ASSUME Inv, HandleAgain PROVE Inv'
  <1> DEFINE k == Reenq(s, First, Rest)
  <1>1. /\ cons.pc = "handle" /\ s' = Back(k) /\ mixed' = TRUE
        /\ cons' = [Returns(TRUE) EXCEPT !.local = <<>>]
        /\ prod' = prod /\ req' = req /\ ctl' = ctl /\ done' = done
    BY DEF HandleAgain, First, Rest
  <1>2. /\ k \in State /\ k.q[Recv] = s.q[Recv] /\ k.gone = s.gone
        /\ \A y \in Polled \ {Home} : k.q[y] = s.q[y]
        /\ Alike(s.q[Home], k.q[Home]) /\ k.q[Home].ops # <<>>
        /\ \A o : Times(k.q[Home].ops, o) = Times(s.q[Home].ops, o) + Times(cons.local, o)
    BY <1>1, ReenqIs DEF Again
  <1> HIDE DEF k
  <1>3. Home \in Polled /\ (Home = Src => s.q[Src].fwd = Null /\ ~ctl.dead)
    BY <1>1, HomeIs
  <1>4. /\ ~s.q[Recv].io /\ ~s.q[Recv].sent
        /\ \A i \in 1..Len(s.q[Recv].ops) : s.q[Recv].ops[i] = Request
    BY DEF Inv, Shape
  <1>5. /\ k.q[Recv].ready = s.q[Recv].ready /\ k.q[Recv].fwd = s.q[Recv].fwd
        /\ ~k.q[Recv].io /\ ~k.q[Recv].sent
        /\ \A i \in 1..Len(k.q[Recv].ops) : k.q[Recv].ops[i] = Request
    BY <1>2, <1>4
  <1>7. /\ s' \in State /\ s'.q[Src].ops = k.q[Src].ops /\ s'.q[Dst].ops = k.q[Dst].ops
        /\ s'.gone = k.gone /\ s'.q[Recv].ref = k.q[Recv].ref
        /\ s'.q[Src].ref = s.q[Src].ref /\ s'.q[Src].fwd = s.q[Src].fwd
        /\ s'.q[Dst].ref = s.q[Dst].ref - Hold
        /\ cons'.at = Null /\ cons'.local = <<>>
        /\ cons' \in [pc : {"idle", "look", "wait", "retry", "handle"},
                      mode : {"pop", "serve"}, poll : Polled,
                      at : Polled \cup {Null}, held : BOOLEAN,
                      local : Seq(Ops), more : BOOLEAN]
        /\ Shape(s)' /\ Threads' /\ Wakes'
    BY <1>1, <1>2, <1>3, <1>5, HandBack
  <1>8. \A o : Times(s'.q[Src].ops, o) + Times(s'.q[Dst].ops, o) + Times(cons'.local, o)
                 = Times(s.q[Src].ops, o) + Times(s.q[Dst].ops, o) + Times(cons.local, o)
    <2> TAKE o
    <2>1. /\ Times(s.q[Src].ops, o) \in Nat /\ Times(s.q[Dst].ops, o) \in Nat
          /\ Times(cons.local, o) \in Nat /\ Times(cons'.local, o) = 0
      BY <1>7, Counts, EmptyIs DEF Inv
    <2>2. CASE Home = Src
      <3>1. /\ Times(s'.q[Src].ops, o) = Times(s.q[Src].ops, o) + Times(cons.local, o)
            /\ s'.q[Dst].ops = s.q[Dst].ops
        BY <1>2, <1>7, <2>2, NamesApart
      <3> QED BY <2>1, <3>1
    <2>3. CASE Home = Dst
      <3>1. /\ Times(s'.q[Dst].ops, o) = Times(s.q[Dst].ops, o) + Times(cons.local, o)
            /\ s'.q[Src].ops = s.q[Src].ops
        BY <1>2, <1>7, <2>3, NamesApart
      <3> QED BY <2>1, <3>1
    <2> QED BY <1>3, <2>2, <2>3, NamesApart
  <1>9. Unanswered' = Unanswered /\ \A o : Places(o)' = Places(o)
    BY <1>1, <1>2, <1>7, <1>8 DEF Unanswered, Places
  <1>10. OneRequest' /\ Kept'
    BY <1>1, <1>9, MovedKept
  <1>11. TypeOK'
    BY <1>1, <1>7 DEF Inv, TypeOK
  <1>12. Refs'
    <2>1. s'.q[Recv].ref = s.q[Recv].ref
      BY <1>2, <1>7
    <2> QED BY <1>1, <1>7, <1>9, <2>1, UnansweredIs, RefsBack
  <1>13. Ordered'
    BY <1>1 DEF Ordered
  <1> QED BY <1>7, <1>10, <1>11, <1>12, <1>13 DEF Inv

-----------------------------------------------------------------------------
(* Src is forwarded: its ops go to Dst, which has no op without a priority *)
(* while nothing was enqueued again.                                       *)
Forwarded(n) ==
    LET a == s.q[Dst].ops
        b == s.q[Src].ops
    IN  /\ n \in State /\ n.gone = s.gone /\ n.q[Recv] = s.q[Recv]
        /\ s.sig \subseteq n.sig /\ (b # <<>> => Dst \in n.sig)
        /\ n.q[Src].ops = <<>> /\ n.q[Src].fwd = Dst
        /\ n.q[Src].ready = s.q[Src].ready /\ n.q[Src].ref = s.q[Src].ref
        /\ n.q[Src].yield = s.q[Src].yield /\ n.q[Src].io = s.q[Src].io
        /\ n.q[Src].sent => s.q[Src].sent /\ b = <<>>
        /\ n.q[Dst].ready = s.q[Dst].ready /\ n.q[Dst].fwd = s.q[Dst].fwd
        /\ n.q[Dst].yield = s.q[Dst].yield /\ n.q[Dst].io = s.q[Dst].io
        /\ n.q[Dst].ref = s.q[Dst].ref + 1
        /\ n.q[Dst].ops = <<>> <=> a = <<>> /\ b = <<>>
        /\ b = <<>> => /\ n.q[Dst].ops = a /\ n.q[Dst].sent = s.q[Dst].sent
                       /\ n.q[Dst].fd = s.q[Dst].fd
        /\ b # <<>> =>
             /\ n.q[Dst].sent <=> s.q[Dst].sent \/ (s.q[Dst].io /\ a = <<>>)
             /\ n.q[Dst].fd <=> \/ s.q[Dst].fd
                                \/ s.q[Dst].io /\ ~s.q[Dst].sent /\ a = <<>>
        /\ \A o : Times(n.q[Dst].ops, o) = Times(a, o) + Times(b, o)
        /\ Plain(n.q[Dst].ops) = Plain(a) \cup Plain(b)
        /\ Rising(a) /\ Rising(b) /\ Below(Plain(a), Plain(b))
             => Rising(n.q[Dst].ops)

LEMMA ForwardIs ==
    ASSUME Inv, s.q[Src].fwd = Null PROVE Forwarded(FwdSet(s, Src, Dst))
  <1> DEFINE m == Keep(s, Dst)
             k == Concat(m, Dst, Src)
             n == FwdSet(s, Src, Dst)
             a == s.q[Dst].ops
             b == s.q[Src].ops
  <1>1. s \in State /\ s.q[Dst].fwd = Null /\ s.q[Dst].ready
    BY DEF Inv, TypeOK, Shape
  <1>2. n = [k EXCEPT !.q[Src].fwd = Dst]
    BY NamesApart DEF FwdSet
  <1>3. /\ Quiet(s, m) /\ m.q[Src] = s.q[Src] /\ m.q[Recv] = s.q[Recv]
        /\ m.q[Dst].ref = s.q[Dst].ref + 1 /\ m.q[Dst].fwd = s.q[Dst].fwd
    BY <1>1, QuietKeep
  <1> HIDE DEF m
  <1>4. /\ m \in State /\ m.sig = s.sig /\ m.gone = s.gone
        /\ m.q[Dst].ops = a /\ m.q[Dst].ready = s.q[Dst].ready
        /\ m.q[Dst].yield = s.q[Dst].yield /\ m.q[Dst].io = s.q[Dst].io
        /\ m.q[Dst].sent = s.q[Dst].sent /\ m.q[Dst].fd = s.q[Dst].fd
        /\ m.q[Src].ops = b
    BY <1>3, NamesApart DEF Quiet
  <1>5. m.q[Dst].fwd = Null /\ m.q[Dst].ready
    BY <1>1, <1>3, <1>4
  <1> DEFINE c == m.q[Dst].ops
             d == m.q[Src].ops
  <1>6. /\ k \in State /\ k.gone = m.gone /\ k.q[Recv] = m.q[Recv]
        /\ m.sig \subseteq k.sig /\ (d # <<>> => Dst \in k.sig)
        /\ k.q[Src].ops = <<>> /\ Alike(m.q[Src], k.q[Src])
        /\ IF d = <<>> THEN k.q[Src].sent = m.q[Src].sent ELSE ~k.q[Src].sent
        /\ Alike(m.q[Dst], k.q[Dst])
        /\ d = <<>> => k = m
        /\ k.q[Dst].ops = <<>> <=> c = <<>> /\ d = <<>>
        /\ d # <<>> =>
             /\ k.q[Dst].sent <=> m.q[Dst].sent \/ (m.q[Dst].io /\ c = <<>>)
             /\ k.q[Dst].fd <=> \/ m.q[Dst].fd
                                \/ m.q[Dst].io /\ ~m.q[Dst].sent /\ c = <<>>
        /\ \A o : Times(k.q[Dst].ops, o) = Times(c, o) + Times(d, o)
        /\ Plain(k.q[Dst].ops) = Plain(c) \cup Plain(d)
        /\ Rising(c) /\ Rising(d) /\ Below(Plain(c), Plain(d)) => Rising(k.q[Dst].ops)
    BY <1>4, <1>5, ConcatQIs
  <1> HIDE DEF k
  <1>7. c = a /\ d = b
    BY <1>4
  <1> HIDE DEF c, d, a, b
  <1>8. /\ n \in State /\ n.gone = k.gone /\ n.sig = k.sig /\ n.q[Recv] = k.q[Recv]
        /\ n.q[Dst] = k.q[Dst] /\ n.q[Src].fwd = Dst /\ n.q[Src].ops = k.q[Src].ops
        /\ n.q[Src].ready = k.q[Src].ready /\ n.q[Src].ref = k.q[Src].ref
        /\ n.q[Src].yield = k.q[Src].yield /\ n.q[Src].io = k.q[Src].io
        /\ n.q[Src].sent = k.q[Src].sent
    <2> DEFINE r == [k.q[Src] EXCEPT !.fwd = Dst]
    <2>1. k.q[Src] \in QueueState
      BY <1>6, QueueIs, NamesApart
    <2>2. /\ r \in QueueState /\ r.fwd = Dst /\ r.ops = k.q[Src].ops
          /\ r.ready = k.q[Src].ready /\ r.ref = k.q[Src].ref
          /\ r.yield = k.q[Src].yield /\ r.io = k.q[Src].io /\ r.sent = k.q[Src].sent
      BY <2>1 DEF QueueState
    <2>3. n = [k EXCEPT !.q[Src] = r]
      BY <1>2, <1>6, NamesApart DEF State
    <2> HIDE DEF r, n
    <2>4. /\ n \in State /\ n.sig = k.sig /\ n.gone = k.gone
          /\ n.q[Src] = r /\ Elsewhere(k, n, Src)
      BY <1>6, <2>2, <2>3, SetIs, NamesApart
    <2>5. n.q[Dst] = k.q[Dst] /\ n.q[Recv] = k.q[Recv]
      BY <2>4, NamesApart DEF Elsewhere
    <2> QED BY <2>2, <2>4, <2>5
  <1> HIDE DEF n
  <1>9. /\ n \in State /\ n.gone = s.gone /\ n.q[Recv] = s.q[Recv]
        /\ s.sig \subseteq n.sig /\ (b # <<>> => Dst \in n.sig)
        /\ n.q[Src].ops = <<>> /\ n.q[Src].fwd = Dst
    BY <1>3, <1>4, <1>6, <1>7, <1>8
  <1>10. /\ n.q[Src].ready = s.q[Src].ready /\ n.q[Src].ref = s.q[Src].ref
         /\ n.q[Src].yield = s.q[Src].yield /\ n.q[Src].io = s.q[Src].io
         /\ n.q[Src].sent => s.q[Src].sent /\ b = <<>>
    BY <1>3, <1>6, <1>7, <1>8 DEF Alike
  <1>11. /\ n.q[Dst].ready = s.q[Dst].ready /\ n.q[Dst].fwd = s.q[Dst].fwd
         /\ n.q[Dst].yield = s.q[Dst].yield /\ n.q[Dst].io = s.q[Dst].io
         /\ n.q[Dst].ref = s.q[Dst].ref + 1
    BY <1>3, <1>4, <1>6, <1>8 DEF Alike
  <1>12. /\ n.q[Dst].ops = <<>> <=> a = <<>> /\ b = <<>>
         /\ b = <<>> => /\ n.q[Dst].ops = a /\ n.q[Dst].sent = s.q[Dst].sent
                        /\ n.q[Dst].fd = s.q[Dst].fd
         /\ b # <<>> =>
              /\ n.q[Dst].sent <=> s.q[Dst].sent \/ (s.q[Dst].io /\ a = <<>>)
              /\ n.q[Dst].fd <=> \/ s.q[Dst].fd
                                 \/ s.q[Dst].io /\ ~s.q[Dst].sent /\ a = <<>>
    BY <1>4, <1>6, <1>7, <1>8
  <1>13. /\ \A o : Times(n.q[Dst].ops, o) = Times(a, o) + Times(b, o)
         /\ Plain(n.q[Dst].ops) = Plain(a) \cup Plain(b)
         /\ Rising(a) /\ Rising(b) /\ Below(Plain(a), Plain(b)) => Rising(n.q[Dst].ops)
    BY <1>6, <1>7, <1>8
  <1> QED BY <1>9, <1>10, <1>11, <1>12, <1>13, Zenon DEF Forwarded, n, a, b

LEMMA ForwardKeeps == ASSUME Inv, Forward PROVE Inv'
  <1>1. /\ ~ctl.dead /\ ctl' = [ctl EXCEPT !.n = @ + 1] /\ s.q[Src].fwd = Null
        /\ s' = FwdSet(s, Src, Dst)
    BY DEF Forward, May
  <1>v. prod' = prod /\ cons' = cons /\ req' = req /\ done' = done /\ mixed' = mixed
    BY DEF Forward, May
  <1>2. ctl' \in [n : Nat, dead : BOOLEAN] /\ ctl'.dead = ctl.dead
    BY <1>1 DEF Inv, TypeOK
  <1> DEFINE a == s.q[Dst].ops
             b == s.q[Src].ops
  <1>f. Forwarded(s')
    BY <1>1, ForwardIs
  <1>3a. /\ s' \in State /\ s'.gone = s.gone /\ s'.q[Recv] = s.q[Recv]
         /\ s.sig \subseteq s'.sig /\ (b # <<>> => Dst \in s'.sig)
         /\ s'.q[Src].ops = <<>> /\ s'.q[Src].fwd = Dst
         /\ s'.q[Src].ready = s.q[Src].ready /\ s'.q[Src].ref = s.q[Src].ref
         /\ s'.q[Src].yield = s.q[Src].yield /\ s'.q[Src].io = s.q[Src].io
         /\ s'.q[Src].sent => s.q[Src].sent /\ b = <<>>
    BY <1>f DEF Forwarded
  <1>3b. /\ s'.q[Dst].ready = s.q[Dst].ready /\ s'.q[Dst].fwd = s.q[Dst].fwd
         /\ s'.q[Dst].yield = s.q[Dst].yield /\ s'.q[Dst].io = s.q[Dst].io
         /\ s'.q[Dst].ref = s.q[Dst].ref + 1
         /\ s'.q[Dst].ops = <<>> <=> a = <<>> /\ b = <<>>
         /\ b = <<>> => /\ s'.q[Dst].ops = a /\ s'.q[Dst].sent = s.q[Dst].sent
                        /\ s'.q[Dst].fd = s.q[Dst].fd
    BY <1>f DEF Forwarded
  <1>3c. b # <<>> => (s'.q[Dst].sent <=> s.q[Dst].sent \/ (s.q[Dst].io /\ a = <<>>))
    BY <1>f DEF Forwarded
  <1>3d. b # <<>> => (s'.q[Dst].fd <=>
                         s.q[Dst].fd \/ (s.q[Dst].io /\ ~s.q[Dst].sent /\ a = <<>>))
    BY <1>f DEF Forwarded
  <1>3e. /\ \A o : Times(s'.q[Dst].ops, o) = Times(a, o) + Times(b, o)
         /\ Plain(s'.q[Dst].ops) = Plain(a) \cup Plain(b)
         /\ Rising(a) /\ Rising(b) /\ Below(Plain(a), Plain(b)) => Rising(s'.q[Dst].ops)
    BY <1>f DEF Forwarded
  <1>4. \A o : Times(s'.q[Src].ops, o) + Times(s'.q[Dst].ops, o)
                 = Times(s.q[Src].ops, o) + Times(s.q[Dst].ops, o)
    <2> TAKE o
    <2>1. /\ Times(s.q[Src].ops, o) \in Nat /\ Times(s.q[Dst].ops, o) \in Nat
          /\ Times(s'.q[Src].ops, o) = 0
          /\ Times(s'.q[Dst].ops, o) = Times(s.q[Dst].ops, o) + Times(s.q[Src].ops, o)
      BY <1>3a, <1>3e, Counts, EmptyIs DEF Inv
    <2> QED BY <2>1
  <1>5. Unanswered' = Unanswered /\ \A o : Places(o)' = Places(o)
    BY <1>3a, <1>4, <1>v DEF Unanswered, Places
  <1>10. TypeOK'
    BY <1>2, <1>3a, <1>v DEF Inv, TypeOK
  <1>11. Shape(s)'
    BY <1>2, <1>3a, <1>3b, <1>v DEF Inv, Shape
  <1>12. Threads'
    BY <1>2, <1>v DEF Inv, Threads
  <1>13. OneRequest' /\ Kept'
    BY <1>5, <1>v, MovedKept
  <1>14. Refs'
    <2>1. s.q[Dst].ref = 1 + 0 + (IF prod.at = Dst THEN 1 ELSE 0)
                         + (IF cons.held /\ cons.at = Dst THEN 1 ELSE 0)
      BY <1>1, NamesApart DEF Inv, Refs
    <2>2. s'.q[Dst].ref = 1 + 1 + (IF prod.at = Dst THEN 1 ELSE 0)
                         + (IF cons.held /\ cons.at = Dst THEN 1 ELSE 0)
      BY <1>3b, <2>1
    <2> QED BY <1>2, <1>3a, <1>5, <1>v, <2>2 DEF Inv, Refs
  <1>16. Wakes'
    <2>1. cons.poll \in {Src, Dst} /\ cons.at \in {Src, Dst, Null}
          /\ (cons.pc = "wait" => cons.at \in {Src, Dst})
      BY NamesApart DEF Inv, TypeOK, Threads
    <2>2. /\ s.q[Src].sent /\ b = <<>> => s.q[Src].yield
          /\ s.q[Dst].sent /\ a = <<>> => s.q[Dst].yield
      BY NamesApart DEF Inv, Wakes
    <2>3. \A x \in Polled : s'.q[x].sent /\ s'.q[x].ops = <<>> => s'.q[x].yield
      BY <1>3a, <1>3b, <1>3c, <2>2, NamesApart
    <2>4. s'.q[cons.poll].io => cons.pc # "wait"
      BY <1>3a, <1>3b, <2>1 DEF Inv, Wakes
    <2>5. Watches /\ s'.q[cons.poll].io /\ s'.q[cons.poll].ops # <<>>
            => s'.q[cons.poll].fd \/ (s'.q[cons.poll].sent /\ s'.q[cons.poll].yield)
      <3>1. CASE cons.poll = Src
        BY <1>3a, <3>1
      <3>2. CASE cons.poll = Dst
        <4>1. Watches /\ s.q[Dst].io /\ a # <<>>
                => s.q[Dst].fd \/ (s.q[Dst].sent /\ s.q[Dst].yield)
          BY <3>2 DEF Inv, Wakes
        <4>2. CASE b = <<>>
          <5>1. /\ s'.q[Dst].ops = a /\ s'.q[Dst].sent = s.q[Dst].sent
                /\ s'.q[Dst].fd = s.q[Dst].fd /\ s'.q[Dst].yield = s.q[Dst].yield
                /\ s'.q[Dst].io = s.q[Dst].io
            BY <1>3b, <4>2
          <5> QED BY <3>2, <4>1, <5>1
        <4>3. CASE b # <<>>
          <5>1. /\ s'.q[Dst].sent <=> s.q[Dst].sent \/ (s.q[Dst].io /\ a = <<>>)
                /\ s'.q[Dst].fd <=>
                     s.q[Dst].fd \/ (s.q[Dst].io /\ ~s.q[Dst].sent /\ a = <<>>)
                /\ s'.q[Dst].yield = s.q[Dst].yield /\ s'.q[Dst].io = s.q[Dst].io
            BY <1>3b, <1>3c, <1>3d, <4>3
          <5> QED BY <2>2, <3>2, <4>1, <5>1
        <4> QED BY <4>2, <4>3
      <3> QED BY <2>1, <3>1, <3>2
    <2>6. cons.pc = "wait" /\ (s'.q[cons.at].ops # <<>> \/ s'.q[cons.at].yield)
            => cons.at \in s'.sig
      BY <1>3a, <1>3b, <2>1 DEF Inv, Wakes
    <2> QED BY <1>v, <2>3, <2>4, <2>5, <2>6 DEF Wakes, Watches
  <1>17. Ordered'
    <2> SUFFICES ASSUME ~mixed PROVE Ordered'
      BY <1>v DEF Ordered
    <2>1. /\ Rising(done) /\ Rising(cons.local) /\ Rising(b) /\ Rising(a)
          /\ Below(Plain(done), Plain(cons.local))
          /\ Below(Plain(done), Plain(b)) /\ Below(Plain(cons.local), Plain(b))
          /\ Plain(a) = {}
          /\ \A o \in 1..OpCount :
               o \in Plain(done) \cup Plain(cons.local) \cup Plain(b) => Passed(o)
      BY <1>1, NamesApart DEF Inv, Ordered
    <2>2. Below(Plain(a), Plain(b))
      BY <2>1 DEF Below
    <2>3. Plain(s'.q[Dst].ops) = Plain(b) /\ Rising(s'.q[Dst].ops)
      BY <1>3e, <2>1, <2>2
    <2>4. Plain(s'.q[Src].ops) = {} /\ Rising(s'.q[Src].ops)
      BY <1>3a, EmptyIs
    <2>5. \A x \in Polled : /\ Below(Plain(done), Plain(s'.q[x].ops))
                            /\ Below(Plain(cons.local), Plain(s'.q[x].ops))
      BY <2>1, <2>3, <2>4, NamesApart DEF Below
    <2>6. \A o \in 1..OpCount : Passed(o)' <=> Passed(o)
      BY <1>v DEF Passed
    <2> QED BY <1>3a, <1>v, <2>1, <2>3, <2>4, <2>5, <2>6, NamesApart DEF Ordered
  <1> QED BY <1>10, <1>11, <1>12, <1>13, <1>14, <1>16, <1>17 DEF Inv

(* The forward is taken off.                                               *)
LEMMA UnforwardKeeps == ASSUME Inv, Unforward PROVE Inv'
  <1>1. /\ ~ctl.dead /\ ctl' = [ctl EXCEPT !.n = @ + 1] /\ s.q[Src].fwd # Null
        /\ s' = FwdSet(s, Src, Null) /\ mixed' = TRUE
    BY DEF Unforward, May
  <1>v. prod' = prod /\ cons' = cons /\ req' = req /\ done' = done
    BY DEF Unforward, May
  <1>2. ctl' \in [n : Nat, dead : BOOLEAN] /\ ctl'.dead = ctl.dead
    BY <1>1 DEF Inv, TypeOK
  <1>3. s.q[Src].fwd = Dst /\ s \in State
    BY <1>1, Typed, NamesApart DEF Inv
  <1> DEFINE m == Release(s, Dst)
  <1>4. s' = [m EXCEPT !.q[Src].fwd = Null]
    BY <1>1, <1>3 DEF FwdSet
  <1>5. s.q[Dst].ref = 1 + 1 + (IF prod.at = Dst THEN 1 ELSE 0)
                       + (IF cons.held /\ cons.at = Dst THEN 1 ELSE 0)
    BY <1>3 DEF Inv, Refs
  <1>6. s.q[Dst].ref >= 2
    BY <1>5
  <1>7. /\ Quiet(s, m) /\ m.q[Src] = s.q[Src] /\ m.q[Recv] = s.q[Recv]
        /\ m.q[Dst].ref = s.q[Dst].ref - 1 /\ m.q[Dst].fwd = s.q[Dst].fwd
    BY <1>3, <1>6, QuietLetGo
  <1> HIDE DEF m
  <1>8. /\ Quiet(s, s') /\ s'.q[Src].fwd = Null /\ s'.q[Src].ref = s.q[Src].ref
        /\ s'.q[Recv] = s.q[Recv] /\ s'.q[Dst] = m.q[Dst]
    <2> DEFINE r == [m.q[Src] EXCEPT !.fwd = Null]
    <2>0. m \in State
      BY <1>7 DEF Quiet
    <2>1. m.q[Src] \in QueueState
      BY <2>0, QueueIs, NamesApart
    <2>2. /\ r \in QueueState /\ r.fwd = Null /\ r.ops = m.q[Src].ops
          /\ r.ready = m.q[Src].ready /\ r.ref = m.q[Src].ref
          /\ r.yield = m.q[Src].yield /\ r.io = m.q[Src].io /\ r.sent = m.q[Src].sent
          /\ r.fd = m.q[Src].fd
      BY <2>1 DEF QueueState
    <2>3. s' = [m EXCEPT !.q[Src] = r]
      BY <1>4, <2>0, NamesApart DEF State
    <2> HIDE DEF r
    <2>4. /\ s' \in State /\ s'.sig = m.sig /\ s'.gone = m.gone
          /\ s'.q[Src] = r /\ Elsewhere(m, s', Src)
      BY <2>0, <2>2, <2>3, SetIs, NamesApart
    <2>5. s'.q[Dst] = m.q[Dst] /\ s'.q[Recv] = m.q[Recv]
      BY <2>4, NamesApart DEF Elsewhere
    <2> QED BY <1>7, <2>2, <2>4, <2>5, NamesApart DEF Quiet
  <1>s. Still
    BY <1>8, <1>v, StillQuiet
  <1>9. \A o \in 1..OpCount : Passed(o)' <=> Passed(o)
    BY <1>v DEF Passed
  <1>10. TypeOK'
    BY <1>1, <1>2, <1>8, <1>v DEF Inv, TypeOK, Quiet
  <1>11. Shape(s)'
    BY <1>1, <1>2, <1>7, <1>8, <1>v, NamesApart DEF Inv, Shape, Quiet
  <1>12. Threads'
    BY <1>2, <1>v DEF Inv, Threads
  <1>13. OneRequest' /\ Kept'
    BY <1>9, <1>s, <1>v, StillOne, StillKept
  <1>14. Refs'
    <2>1. s'.q[Dst].ref = 1 + 0 + (IF prod.at = Dst THEN 1 ELSE 0)
                         + (IF cons.held /\ cons.at = Dst THEN 1 ELSE 0)
      BY <1>5, <1>7, <1>8
    <2>2. Unanswered' = Unanswered
      BY <1>s, StillIs
    <2> QED BY <1>2, <1>8, <1>v, <2>1, <2>2, NamesApart DEF Inv, Refs
  <1>16. Wakes'
    BY <1>8, <1>v, QuietWakes
  <1>17. Ordered'
    BY <1>1 DEF Ordered
  <1> QED BY <1>10, <1>11, <1>12, <1>13, <1>14, <1>16, <1>17 DEF Inv

(* A yield: the queue that is polled is signalled, with an event if it is  *)
(* empty.                                                                  *)
LEMMA YieldKeeps == ASSUME Inv, Yield PROVE Inv'
  <1> DEFINE x == IF s.q[Src].fwd = Null THEN Src ELSE s.q[Src].fwd
             m == Signal([s EXCEPT !.q[x].yield = TRUE], x)
  <1>1. /\ ~ctl.dead /\ ctl' = [ctl EXCEPT !.n = @ + 1]
        /\ s' = (IF ~s.q[Src].ready THEN s
                 ELSE IF s.q[x].ops = <<>> THEN IoEvent(m, x) ELSE m)
    BY DEF Yield, May
  <1>v. prod' = prod /\ cons' = cons /\ req' = req /\ done' = done /\ mixed' = mixed
    BY DEF Yield, May
  <1>2. ctl' \in [n : Nat, dead : BOOLEAN] /\ ctl'.dead = ctl.dead
    BY <1>1 DEF Inv, TypeOK
  <1>3. s \in State /\ s.q[Src].fwd \in {Null, Dst} /\ s.q[Src].ready
    BY <1>1, Typed, NamesApart DEF Inv, Shape
  <1>4. x \in Polled /\ x \in Queues
    BY <1>3, NamesApart
  <1>5. s' = IF s.q[x].ops = <<>> THEN IoEvent(m, x) ELSE m
    BY <1>1, <1>3
  <1> HIDE DEF x
  <1>6. /\ m \in State /\ m.sig = s.sig \cup {x} /\ m.gone = s.gone /\ Elsewhere(s, m, x)
        /\ m.q[x].ops = s.q[x].ops /\ m.q[x].ready = s.q[x].ready
        /\ m.q[x].ref = s.q[x].ref /\ m.q[x].fwd = s.q[x].fwd /\ m.q[x].io = s.q[x].io
        /\ m.q[x].sent = s.q[x].sent /\ m.q[x].fd = s.q[x].fd /\ m.q[x].yield = TRUE
    <2> DEFINE r == [s.q[x] EXCEPT !.yield = TRUE]
               k == [s EXCEPT !.q[x].yield = TRUE]
    <2>1. s.q[x] \in QueueState
      BY <1>3, <1>4, QueueIs
    <2>2. /\ r \in QueueState /\ r.ops = s.q[x].ops /\ r.ready = s.q[x].ready
          /\ r.ref = s.q[x].ref /\ r.fwd = s.q[x].fwd /\ r.io = s.q[x].io
          /\ r.sent = s.q[x].sent /\ r.fd = s.q[x].fd /\ r.yield = TRUE
      BY <2>1 DEF QueueState
    <2>3. k = [s EXCEPT !.q[x] = r]
      BY <1>3, <1>4 DEF State
    <2> HIDE DEF r, k
    <2>4. /\ k \in State /\ k.sig = s.sig /\ k.gone = s.gone
          /\ k.q[x] = r /\ Elsewhere(s, k, x)
      BY <1>3, <1>4, <2>2, <2>3, SetIs
    <2>5. m = [k EXCEPT !.sig = @ \cup {x}]
      BY DEF Signal, k
    <2> HIDE DEF m
    <2>6. m \in State /\ m.q = k.q /\ m.sig = s.sig \cup {x} /\ m.gone = s.gone
      BY <1>4, <2>4, <2>5 DEF State
    <2> QED BY <2>2, <2>4, <2>6 DEF Elsewhere
  <1> HIDE DEF m
  <1>7. /\ s' \in State /\ s'.sig = s.sig \cup {x} /\ s'.gone = s.gone /\ Elsewhere(s, s', x)
        /\ s'.q[x].ops = s.q[x].ops /\ s'.q[x].ready = s.q[x].ready
        /\ s'.q[x].ref = s.q[x].ref /\ s'.q[x].fwd = s.q[x].fwd /\ s'.q[x].io = s.q[x].io
        /\ s'.q[x].yield
        /\ s.q[x].ops # <<>> => s'.q[x].sent = s.q[x].sent /\ s'.q[x].fd = s.q[x].fd
    <2>1. CASE s.q[x].ops = <<>>
      <3>1. /\ s' \in State /\ s'.sig = m.sig /\ s'.gone = m.gone /\ Elsewhere(m, s', x)
            /\ s'.q[x].ops = m.q[x].ops /\ Alike(m.q[x], s'.q[x])
        BY <1>4, <1>5, <1>6, <2>1, IoEventIs
      <3> QED BY <1>6, <2>1, <3>1 DEF Alike, Elsewhere
    <2>2. CASE s.q[x].ops # <<>>
      BY <1>5, <1>6, <2>2
    <2> QED BY <2>1, <2>2
  <1>8. /\ \A y \in Queues : /\ s'.q[y].ops = s.q[y].ops /\ s'.q[y].ready = s.q[y].ready
                             /\ s'.q[y].ref = s.q[y].ref /\ s'.q[y].fwd = s.q[y].fwd
                             /\ s'.q[y].io = s.q[y].io
        /\ \A y \in Queues \ {x} : s'.q[y] = s.q[y]
    BY <1>7 DEF Elsewhere
  <1>s. Still
    BY <1>7, <1>8, <1>v, NamesApart DEF Still
  <1>9. \A o \in 1..OpCount : Passed(o)' <=> Passed(o)
    BY <1>v DEF Passed
  <1>10. TypeOK'
    BY <1>2, <1>7, <1>v DEF Inv, TypeOK
  <1>11. Shape(s)'
    <2>1. s'.q[Recv] = s.q[Recv]
      BY <1>4, <1>8, NamesApart
    <2> QED BY <1>2, <1>8, <1>v, <2>1, NamesApart DEF Inv, Shape
  <1>12. Threads'
    BY <1>2, <1>v DEF Inv, Threads
  <1>13. OneRequest' /\ Kept'
    BY <1>9, <1>s, <1>v, StillOne, StillKept
  <1>14. Refs'
    <2>1. Unanswered' = Unanswered
      BY <1>s, StillIs
    <2> QED BY <1>2, <1>8, <1>v, <2>1, NamesApart DEF Inv, Refs
  <1>16. Wakes'
    <2>1. cons.poll \in Polled /\ (cons.pc = "wait" => cons.at \in Polled)
      BY NamesApart DEF Inv, TypeOK, Threads
    <2>2. \A y \in Polled : s'.q[y].sent /\ s'.q[y].ops = <<>> => s'.q[y].yield
      BY <1>7, <1>8, NamesApart DEF Inv, Wakes
    <2>3. s'.q[cons.poll].io => cons.pc # "wait"
      BY <1>8, <2>1, NamesApart DEF Inv, Wakes
    <2>4. Watches /\ s'.q[cons.poll].io /\ s'.q[cons.poll].ops # <<>>
            => s'.q[cons.poll].fd \/ (s'.q[cons.poll].sent /\ s'.q[cons.poll].yield)
      <3>1. CASE cons.poll = x
        BY <1>7, <3>1 DEF Inv, Wakes
      <3>2. CASE cons.poll # x
        BY <1>8, <2>1, <3>2, NamesApart DEF Inv, Wakes
      <3> QED BY <3>1, <3>2
    <2>5. cons.pc = "wait" /\ (s'.q[cons.at].ops # <<>> \/ s'.q[cons.at].yield)
            => cons.at \in s'.sig
      BY <1>7, <1>8, <2>1, NamesApart DEF Inv, Wakes
    <2> QED BY <1>v, <2>2, <2>3, <2>4, <2>5 DEF Wakes, Watches
  <1>17. Ordered'
    <2>1. s'.q[Src].fwd = s.q[Src].fwd
      BY <1>8, NamesApart
    <2>2. ~mixed => (prod.at = Dst => s.q[Src].fwd = Dst)
      BY DEF Inv, Ordered
    <2> QED BY <1>2, <1>9, <1>s, <1>v, <2>1, <2>2, StillOrdered
  <1> QED BY <1>10, <1>11, <1>12, <1>13, <1>14, <1>16, <1>17 DEF Inv

(* The controller destroys Src: the ops are purged where it is forwarded   *)
(* to, and if the producer has ended the forward goes too.                 *)
Purged(n, f) ==
    /\ n \in State /\ n.sig = s.sig /\ n.gone = s.gone \o s.q[f].ops
    /\ n.q[Src].ops = <<>> /\ n.q[Src].ready = FALSE
    /\ n.q[Src].ref = s.q[Src].ref /\ n.q[Src].fwd = s.q[Src].fwd
    /\ n.q[Src].yield = s.q[Src].yield
    /\ n.q[Src].io = s.q[Src].io /\ (n.q[Src].sent => s.q[Src].sent /\ s.q[Src].ops = <<>>)
    /\ n.q[Dst].ops = (IF f = Dst THEN <<>> ELSE s.q[Dst].ops)
    /\ n.q[Dst].ready = s.q[Dst].ready /\ n.q[Dst].ref = s.q[Dst].ref
    /\ n.q[Dst].fwd = s.q[Dst].fwd /\ n.q[Dst].yield = s.q[Dst].yield
    /\ n.q[Dst].io = s.q[Dst].io /\ n.q[Dst].fd = s.q[Dst].fd
    /\ IF f = Dst THEN ~n.q[Dst].sent ELSE n.q[Dst].sent = s.q[Dst].sent
    /\ n.q[Recv] = [s.q[Recv] EXCEPT !.ref =
         @ - (IF Times(s.q[f].ops, Request) = 0 THEN 0 ELSE 1)]

LEMMA PurgedIs ==
    ASSUME Inv, NEW f, f = (IF s.q[Src].fwd = Null THEN Src ELSE Dst)
    PROVE  Purged(DropOps([s EXCEPT !.q[Src].ready = FALSE], f), f)
  <1> DEFINE m == [s EXCEPT !.q[Src].ready = FALSE]
             n == DropOps(m, f)
  <1>1. /\ s \in State /\ s.q[Src] \in QueueState /\ s.q[Src].fwd \in {Null, Dst}
        /\ (s.q[Src].fwd # Null => s.q[Src].ops = <<>>)
    BY Typed, NamesApart DEF Inv, Shape
  <1>2. f \in Queues /\ (f = Src \/ f = Dst)
    BY NamesApart
  <1>3. /\ m \in State /\ m.sig = s.sig /\ m.gone = s.gone
        /\ m.q[Dst] = s.q[Dst] /\ m.q[Recv] = s.q[Recv] /\ m.q[Src].ready = FALSE
        /\ m.q[Src].ops = s.q[Src].ops /\ m.q[Src].ref = s.q[Src].ref
        /\ m.q[Src].fwd = s.q[Src].fwd /\ m.q[Src].yield = s.q[Src].yield
        /\ m.q[Src].io = s.q[Src].io /\ m.q[Src].sent = s.q[Src].sent
    <2> DEFINE r == [s.q[Src] EXCEPT !.ready = FALSE]
    <2>1. /\ r \in QueueState /\ r.ready = FALSE /\ r.ops = s.q[Src].ops
          /\ r.ref = s.q[Src].ref /\ r.fwd = s.q[Src].fwd /\ r.yield = s.q[Src].yield
          /\ r.io = s.q[Src].io /\ r.sent = s.q[Src].sent
      BY <1>1 DEF QueueState
    <2>2. m = [s EXCEPT !.q[Src] = r]
      BY <1>1, NamesApart DEF State
    <2> HIDE DEF r, m
    <2>3. /\ m \in State /\ m.sig = s.sig /\ m.gone = s.gone
          /\ m.q[Src] = r /\ Elsewhere(s, m, Src)
      BY <1>1, <2>1, <2>2, SetIs, NamesApart
    <2>4. m.q[Dst] = s.q[Dst] /\ m.q[Recv] = s.q[Recv]
      BY <2>3, NamesApart DEF Elsewhere
    <2> QED BY <2>1, <2>3, <2>4
  <1> HIDE DEF m
  <1>4. /\ n \in State /\ n.sig = m.sig /\ n.gone = m.gone \o m.q[f].ops
        /\ \A y \in Queues \ {f, Recv} : n.q[y] = m.q[y]
        /\ n.q[f].ops = <<>> /\ ~n.q[f].sent /\ n.q[f].ready = m.q[f].ready
        /\ n.q[f].fwd = m.q[f].fwd /\ n.q[f].yield = m.q[f].yield
        /\ n.q[f].io = m.q[f].io /\ n.q[f].fd = m.q[f].fd
        /\ f # Recv => /\ n.q[f].ref = m.q[f].ref
                       /\ n.q[Recv] = [m.q[Recv] EXCEPT !.ref =
                             @ - (IF Times(m.q[f].ops, Request) = 0 THEN 0 ELSE 1)]
    BY <1>2, <1>3, DropOpsIs
  <1> HIDE DEF n
  <1>5. m.q[f].ops = s.q[f].ops /\ f # Recv
    BY <1>2, <1>3, NamesApart
  <1>6. /\ n.gone = s.gone \o s.q[f].ops /\ n.sig = s.sig
        /\ n.q[Recv] = [s.q[Recv] EXCEPT !.ref =
             @ - (IF Times(s.q[f].ops, Request) = 0 THEN 0 ELSE 1)]
    BY <1>3, <1>4, <1>5
  <1>7. /\ n.q[Src].ops = <<>> /\ n.q[Src].ready = FALSE
        /\ n.q[Src].ref = s.q[Src].ref /\ n.q[Src].fwd = s.q[Src].fwd
        /\ n.q[Src].yield = s.q[Src].yield
        /\ n.q[Src].io = s.q[Src].io /\ (n.q[Src].sent => s.q[Src].sent /\ s.q[Src].ops = <<>>)
    <2>1. CASE f = Src
      BY <1>3, <1>4, <1>5, <2>1
    <2>2. CASE f = Dst
      <3>1. n.q[Src] = m.q[Src]
        BY <1>4, <2>2, NamesApart
      <3>2. s.q[Src].ops = <<>>
        BY <1>1, <2>2, NamesApart
      <3> QED BY <1>3, <3>1, <3>2
    <2> QED BY <1>2, <2>1, <2>2
  <1>8. /\ n.q[Dst].ops = (IF f = Dst THEN <<>> ELSE s.q[Dst].ops)
        /\ n.q[Dst].ready = s.q[Dst].ready /\ n.q[Dst].ref = s.q[Dst].ref
        /\ n.q[Dst].fwd = s.q[Dst].fwd /\ n.q[Dst].yield = s.q[Dst].yield
        /\ n.q[Dst].io = s.q[Dst].io /\ n.q[Dst].fd = s.q[Dst].fd
        /\ IF f = Dst THEN ~n.q[Dst].sent ELSE n.q[Dst].sent = s.q[Dst].sent
    <2>1. CASE f = Dst
      BY <1>3, <1>4, <1>5, <2>1
    <2>2. CASE f = Src
      <3>1. n.q[Dst] = s.q[Dst] /\ f # Dst
        BY <1>3, <1>4, <2>2, NamesApart
      <3> QED BY <3>1
    <2> QED BY <1>2, <2>1, <2>2
  <1>9. Purged(n, f)
    BY <1>4, <1>6, <1>7, <1>8 DEF Purged
  <1> QED BY <1>9 DEF n, m

Destroyed(n, f) ==
    /\ n \in State /\ n.sig = s.sig /\ n.gone = s.gone \o s.q[f].ops
    /\ n.q[Src].ops = <<>> /\ ~n.q[Src].ready
    /\ n.q[Src].ref = s.q[Src].ref - 1
    /\ n.q[Src].fwd = (IF prod.op > OpCount THEN Null ELSE s.q[Src].fwd)
    /\ n.q[Src].yield = s.q[Src].yield /\ (n.q[Src].sent => s.q[Src].sent /\ s.q[Src].ops = <<>>)
    /\ n.q[Dst].ops = (IF f = Dst THEN <<>> ELSE s.q[Dst].ops)
    /\ n.q[Dst].ready = s.q[Dst].ready
    /\ n.q[Dst].ref = (IF prod.op > OpCount /\ s.q[Src].fwd # Null
                       THEN s.q[Dst].ref - 1 ELSE s.q[Dst].ref)
    /\ n.q[Dst].fwd = s.q[Dst].fwd /\ n.q[Dst].yield = s.q[Dst].yield
    /\ n.q[Dst].io = s.q[Dst].io /\ n.q[Dst].fd = s.q[Dst].fd
    /\ IF f = Dst THEN ~n.q[Dst].sent ELSE n.q[Dst].sent = s.q[Dst].sent
    /\ n.q[Recv] = [s.q[Recv] EXCEPT !.ref =
         @ - (IF Times(s.q[f].ops, Request) = 0 THEN 0 ELSE 1)]

LEMMA DestroyedIs ==
    ASSUME Inv, ~ctl.dead, NEW f, f = (IF s.q[Src].fwd = Null THEN Src ELSE Dst)
    PROVE  Destroyed(DestroyOwner(s, Src), f)
  <1> DEFINE d == DropOps([s EXCEPT !.q[Src].ready = FALSE], f)
             n == DestroyOwner(s, Src)
  <1>1. /\ d \in State /\ d.sig = s.sig /\ d.gone = s.gone \o s.q[f].ops
        /\ d.q[Src].ops = <<>> /\ d.q[Src].ready = FALSE
        /\ d.q[Src].ref = s.q[Src].ref /\ d.q[Src].fwd = s.q[Src].fwd
        /\ d.q[Src].yield = s.q[Src].yield /\ (d.q[Src].sent => s.q[Src].sent /\ s.q[Src].ops = <<>>)
        /\ d.q[Dst].ops = (IF f = Dst THEN <<>> ELSE s.q[Dst].ops)
        /\ d.q[Dst].ready = s.q[Dst].ready /\ d.q[Dst].ref = s.q[Dst].ref
        /\ d.q[Dst].fwd = s.q[Dst].fwd /\ d.q[Dst].yield = s.q[Dst].yield
        /\ d.q[Dst].io = s.q[Dst].io /\ d.q[Dst].fd = s.q[Dst].fd
        /\ IF f = Dst THEN ~d.q[Dst].sent ELSE d.q[Dst].sent = s.q[Dst].sent
        /\ d.q[Recv] = [s.q[Recv] EXCEPT !.ref =
             @ - (IF Times(s.q[f].ops, Request) = 0 THEN 0 ELSE 1)]
    <2>1. Purged(d, f)
      BY PurgedIs
    <2> HIDE DEF d
    <2> QED BY <2>1 DEF Purged
  <1>2. n = Release(d, Src)
    <2>1. s.q[Src].fwd \in {Null, Dst}
      BY Typed, NamesApart DEF Inv
    <2> QED BY <2>1 DEF DestroyOwner
  <1> HIDE DEF d, n
  <1>3. s.q[Src].ref = 1 + (IF prod.op > OpCount THEN 0 ELSE 1)
    BY DEF Inv, Refs
  <1>4. d.q[Src] \in QueueState /\ d.q[Dst] \in QueueState /\ d.gone \in Seq(Ops)
        /\ d.q[Dst].ref \in Int /\ s.q[Src].ref \in Int
    BY <1>1, <1>3, QueueIs, NamesApart
  <1>5. ASSUME prod.op > OpCount PROVE Destroyed(n, f)
    <2>1. d.q[Src].ref = 1
      BY <1>1, <1>3, <1>5
    <2>2. Src \in {Src, Recv} /\ Recv \in {Src, Recv} \ {Src} /\ Src # Recv
      BY NamesApart
    <2>3. /\ n \in State /\ n.sig = d.sig /\ n.gone = d.gone \o d.q[Src].ops
          /\ n.q[Src].ops = <<>> /\ ~n.q[Src].ready /\ n.q[Src].ref = 0
          /\ n.q[Src].fwd = Null /\ ~n.q[Src].sent /\ n.q[Src].yield = d.q[Src].yield
          /\ n.q[Dst] = IF d.q[Src].fwd = Null THEN d.q[Dst]
                        ELSE [d.q[Dst] EXCEPT !.ref = @ - 1]
          /\ \A y \in {Src, Recv} \ {Src} : n.q[y] = d.q[y]
      BY <1>1, <1>2, <2>1, <2>2, FinalIs
    <2>4. n.gone = d.gone
      <3>1. n.gone = d.gone \o <<>>
        BY <1>1, <2>3
      <3> QED BY <1>4, <3>1
    <2>5. n.q[Recv] = d.q[Recv]
      BY <2>2, <2>3
    <2>6. /\ n.q[Dst].ops = d.q[Dst].ops /\ n.q[Dst].ready = d.q[Dst].ready
          /\ n.q[Dst].fwd = d.q[Dst].fwd /\ n.q[Dst].yield = d.q[Dst].yield
          /\ n.q[Dst].io = d.q[Dst].io /\ n.q[Dst].fd = d.q[Dst].fd
          /\ n.q[Dst].sent = d.q[Dst].sent
          /\ n.q[Dst].ref = (IF s.q[Src].fwd # Null THEN d.q[Dst].ref - 1
                             ELSE d.q[Dst].ref)
      BY <1>1, <1>4, <2>3 DEF QueueState
    <2>7. n.q[Src].ref = s.q[Src].ref - 1
      <3>1. n.q[Src].ref = 0 /\ s.q[Src].ref = 1
        BY <1>1, <2>1, <2>3
      <3> QED BY <3>1
    <2> QED BY <1>1, <1>5, <2>3, <2>4, <2>5, <2>6, <2>7 DEF Destroyed
  <1>6. ASSUME ~(prod.op > OpCount) PROVE Destroyed(n, f)
    <2>1. d.q[Src].ref # 1
      BY <1>1, <1>3, <1>6
    <2>2. n = Unref(d, Src)
      BY <1>1, <1>2, <2>1, ReleaseIs, NamesApart
    <2>3. /\ n \in State /\ n.sig = d.sig /\ n.gone = d.gone /\ Elsewhere(d, n, Src)
          /\ n.q[Src] = [d.q[Src] EXCEPT !.ref = @ - 1]
      BY <1>1, <2>2, UnrefIs, NamesApart
    <2>4. n.q[Dst] = d.q[Dst] /\ n.q[Recv] = d.q[Recv]
      BY <2>3, NamesApart DEF Elsewhere
    <2>5. /\ n.q[Src].ops = d.q[Src].ops /\ n.q[Src].ready = d.q[Src].ready
          /\ n.q[Src].ref = d.q[Src].ref - 1 /\ n.q[Src].fwd = d.q[Src].fwd
          /\ n.q[Src].yield = d.q[Src].yield /\ n.q[Src].sent = d.q[Src].sent
      BY <1>4, <2>3 DEF QueueState
    <2> QED BY <1>1, <1>6, <2>3, <2>4, <2>5 DEF Destroyed
  <1>7. Destroyed(n, f)
    BY <1>5, <1>6
  <1> QED BY <1>7 DEF n

LEMMA DestroySrcKeeps == ASSUME Inv, DestroySrc PROVE Inv'
  <1>1. /\ ~ctl.dead /\ ctl' = [ctl EXCEPT !.dead = TRUE] /\ cons.poll # Src
        /\ s' = DestroyOwner(s, Src)
    BY DEF DestroySrc
  <1>v. prod' = prod /\ cons' = cons /\ req' = req /\ done' = done /\ mixed' = mixed
    BY DEF DestroySrc
  <1>2. ctl' \in [n : Nat, dead : BOOLEAN] /\ ctl'.dead
    BY <1>1 DEF Inv, TypeOK
  <1> DEFINE f == IF s.q[Src].fwd = Null THEN Src ELSE Dst
             a == s.q[f].ops
  <1>f. Destroyed(s', f)
    BY <1>1, DestroyedIs
  <1>3. f = Src \/ f = Dst
    OBVIOUS
  <1>4. /\ s' \in State /\ s'.sig = s.sig /\ s'.gone = s.gone \o a
        /\ s'.q[Src].ops = <<>> /\ ~s'.q[Src].ready
        /\ s'.q[Src].ref = s.q[Src].ref - 1
        /\ s'.q[Src].fwd = (IF prod.op > OpCount THEN Null ELSE s.q[Src].fwd)
        /\ s'.q[Src].yield = s.q[Src].yield /\ (s'.q[Src].sent => s.q[Src].sent /\ s.q[Src].ops = <<>>)
    BY <1>f DEF Destroyed
  <1>5. /\ s'.q[Dst].ops = (IF f = Dst THEN <<>> ELSE s.q[Dst].ops)
        /\ s'.q[Dst].ready = s.q[Dst].ready
        /\ s'.q[Dst].ref = (IF prod.op > OpCount /\ s.q[Src].fwd # Null
                            THEN s.q[Dst].ref - 1 ELSE s.q[Dst].ref)
        /\ s'.q[Dst].fwd = s.q[Dst].fwd /\ s'.q[Dst].yield = s.q[Dst].yield
        /\ s'.q[Dst].io = s.q[Dst].io /\ s'.q[Dst].fd = s.q[Dst].fd
        /\ IF f = Dst THEN ~s'.q[Dst].sent ELSE s'.q[Dst].sent = s.q[Dst].sent
    BY <1>f DEF Destroyed
  <1>6. s'.q[Recv] = [s.q[Recv] EXCEPT !.ref =
          @ - (IF Times(a, Request) = 0 THEN 0 ELSE 1)]
    BY <1>f DEF Destroyed
  <1>7. /\ s.q[Recv] \in QueueState /\ s.q[Src].fwd \in {Null, Dst} /\ a \in Seq(Ops)
        /\ s.gone \in Seq(Ops) /\ s.q[Src].ref \in Int
        /\ (s.q[Src].fwd # Null => s.q[Src].ops = <<>>)
        /\ cons.poll = Dst /\ cons.at \in {Dst, Null}
    BY <1>1, Typed, NamesApart DEF Inv, TypeOK, Threads, Shape
  <1>8. /\ s'.q[Recv].ready = s.q[Recv].ready /\ s'.q[Recv].fwd = s.q[Recv].fwd
        /\ s'.q[Recv].io = s.q[Recv].io /\ s'.q[Recv].sent = s.q[Recv].sent
        /\ s'.q[Recv].ops = s.q[Recv].ops
        /\ s'.q[Recv].ref = s.q[Recv].ref - (IF Times(a, Request) = 0 THEN 0 ELSE 1)
    BY <1>6, <1>7 DEF QueueState
  <1>9. \A o : /\ Times(s'.q[Src].ops, o) + Times(s'.q[Dst].ops, o) + Times(a, o)
                    = Times(s.q[Src].ops, o) + Times(s.q[Dst].ops, o)
               /\ Times(s'.gone, o) = Times(s.gone, o) + Times(a, o)
               /\ Times(a, o) \in Nat
    <2> TAKE o
    <2>1. /\ Times(s.q[Src].ops, o) \in Nat /\ Times(s.q[Dst].ops, o) \in Nat
          /\ Times(a, o) \in Nat /\ Times(s'.q[Src].ops, o) = 0 /\ Times(<<>>, o) = 0
      BY <1>4, <1>7, Counts, TimesIs, EmptyIs DEF Inv
    <2>2. Times(s.gone \o a, o) = Times(s.gone, o) + Times(a, o)
      BY <1>7, TimesConcat
    <2>3. CASE f = Src
      <3>1. s'.q[Dst].ops = s.q[Dst].ops /\ a = s.q[Src].ops
        BY <1>5, <2>3, NamesApart
      <3> HIDE DEF a, f
      <3>2. Times(s'.q[Src].ops, o) + Times(s'.q[Dst].ops, o) + Times(a, o)
              = Times(s.q[Src].ops, o) + Times(s.q[Dst].ops, o)
        BY <2>1, <3>1
      <3> QED BY <1>4, <2>1, <2>2, <3>2
    <2>4. CASE f = Dst
      <3>1. s'.q[Dst].ops = <<>> /\ a = s.q[Dst].ops /\ s.q[Src].ops = <<>>
        BY <1>5, <1>7, <2>4, NamesApart
      <3> HIDE DEF a, f
      <3>2. Times(s'.q[Src].ops, o) + Times(s'.q[Dst].ops, o) + Times(a, o)
              = Times(s.q[Src].ops, o) + Times(s.q[Dst].ops, o)
        BY <2>1, <3>1
      <3> QED BY <1>4, <2>1, <2>2, <3>2
    <2> QED BY <1>3, <2>3, <2>4
  <1> HIDE DEF a
  <1>10. TypeOK'
    BY <1>2, <1>4, <1>v DEF Inv, TypeOK
  <1>11. Shape(s)'
    BY <1>2, <1>4, <1>5, <1>8, <1>v DEF Inv, Shape
  <1>12. Threads'
    <2>1. cons.poll # Src
      BY <1>1
    <2> QED BY <1>v, <2>1 DEF Inv, Threads
  <1>t. /\ Unanswered' = Unanswered - Times(a, Request) /\ Unanswered' \in Nat
        /\ Times(a, Request) \in {0, 1}
    <2>1. /\ Times(s'.q[Src].ops, Request) + Times(s'.q[Dst].ops, Request)
               + Times(a, Request)
             = Times(s.q[Src].ops, Request) + Times(s.q[Dst].ops, Request)
          /\ Times(a, Request) \in Nat
      BY <1>9
    <2>2. Times(s'.q[Src].ops, Request) \in Nat /\ Times(s'.q[Dst].ops, Request) \in Nat
      <3>1. s'.q[Src].ops \in Seq(Ops) /\ s'.q[Dst].ops \in Seq(Ops)
        BY <1>4, QueueIs, NamesApart
      <3> QED BY <3>1, TimesIs
    <2>3. Times(cons.local, Request) \in Nat /\ Times(s.q[Src].ops, Request) \in Nat
          /\ Times(s.q[Dst].ops, Request) \in Nat
      BY Counts DEF Inv
    <2>4. Unanswered' = Times(s'.q[Src].ops, Request) + Times(s'.q[Dst].ops, Request)
                          + Times(cons.local, Request)
      BY <1>v DEF Unanswered
    <2>5. Unanswered = Times(s.q[Src].ops, Request) + Times(s.q[Dst].ops, Request)
                          + Times(cons.local, Request) /\ Unanswered \in {0, 1}
      BY DEF Unanswered, Inv, OneRequest
    <2> QED BY <2>1, <2>2, <2>3, <2>4, <2>5
  <1>13. OneRequest'
    <2>1. Unanswered \in {0, 1} /\ (req = "idle" => Unanswered = 0)
      BY DEF Inv, OneRequest
    <2> QED BY <1>t, <1>v, <2>1 DEF OneRequest
  <1>14. Refs'
    <2>1. /\ s.q[Recv].ref = (IF req \in {"idle", "wait"} THEN 1 ELSE 0) + Unanswered
          /\ Unanswered \in {0, 1}
      BY DEF Inv, Refs, OneRequest
    <2>2. s'.q[Recv].ref = s.q[Recv].ref - Times(a, Request)
      BY <1>8, <1>t
    <2>3. s'.q[Recv].ref = (IF req \in {"idle", "wait"} THEN 1 ELSE 0) + Unanswered'
      BY <1>t, <2>1, <2>2
    <2>4. s.q[Dst].ref = 1 + (IF s.q[Src].fwd = Dst THEN 1 ELSE 0)
                         + (IF prod.at = Dst THEN 1 ELSE 0)
                         + (IF cons.held /\ cons.at = Dst THEN 1 ELSE 0)
      BY DEF Inv, Refs
    <2>5. s'.q[Dst].ref = 1 + (IF s'.q[Src].fwd = Dst THEN 1 ELSE 0)
                         + (IF prod.at = Dst THEN 1 ELSE 0)
                         + (IF cons.held /\ cons.at = Dst THEN 1 ELSE 0)
      <3>1. CASE prod.op > OpCount
        <4>1. s'.q[Src].fwd = Null
              /\ s'.q[Dst].ref = (IF s.q[Src].fwd # Null THEN s.q[Dst].ref - 1
                                  ELSE s.q[Dst].ref)
          BY <1>4, <1>5, <3>1
        <4> QED BY <1>7, <2>4, <4>1, NamesApart
      <3>2. CASE ~(prod.op > OpCount)
        <4>1. s'.q[Src].fwd = s.q[Src].fwd /\ s'.q[Dst].ref = s.q[Dst].ref
          BY <1>4, <1>5, <3>2
        <4> QED BY <2>4, <4>1
      <3> QED BY <3>1, <3>2
    <2>6. s'.q[Src].ref = 0 + (IF prod.op > OpCount THEN 0 ELSE 1)
      <3>1. s.q[Src].ref = 1 + (IF prod.op > OpCount THEN 0 ELSE 1)
        BY <1>1 DEF Inv, Refs
      <3> QED BY <1>4, <3>1
    <2> QED BY <1>2, <1>v, <2>3, <2>5, <2>6 DEF Refs
  <1>15. Kept'
    <2> SUFFICES ASSUME NEW o \in 1..OpCount
                 PROVE  Places(o)' = IF Passed(o)' THEN 1 ELSE 0
      BY DEF Kept
    <2>1. Places(o) = IF Passed(o) THEN 1 ELSE 0
      BY DEF Inv, Kept
    <2>2. Passed(o)' <=> Passed(o)
      BY <1>v DEF Passed
    <2>3. Places(o)' = Places(o)
      <3>1. Places(o)' = Times(s'.q[Src].ops, o) + Times(s'.q[Dst].ops, o)
                           + Times(cons.local, o) + Times(s'.gone, o) + Times(done, o)
        BY <1>v DEF Places
      <3>2. /\ Times(s'.q[Src].ops, o) + Times(s'.q[Dst].ops, o) + Times(a, o)
               = Times(s.q[Src].ops, o) + Times(s.q[Dst].ops, o)
            /\ Times(s'.gone, o) = Times(s.gone, o) + Times(a, o)
            /\ Times(a, o) \in Nat
        BY <1>9
      <3>3. /\ Times(s.q[Src].ops, o) \in Nat /\ Times(s.q[Dst].ops, o) \in Nat
            /\ Times(cons.local, o) \in Nat /\ Times(s.gone, o) \in Nat
            /\ Times(done, o) \in Nat
        BY Counts DEF Inv
      <3>4. s'.q[Src].ops \in Seq(Ops) /\ s'.q[Dst].ops \in Seq(Ops)
        BY <1>4, QueueIs, NamesApart
      <3>5. Times(s'.q[Src].ops, o) \in Nat /\ Times(s'.q[Dst].ops, o) \in Nat
        BY <3>4, TimesIs
      <3> QED BY <3>1, <3>2, <3>3, <3>5 DEF Places
    <2> QED BY <2>1, <2>2, <2>3
  <1>16. Wakes'
    <2>1. \A x \in Polled : s'.q[x].sent /\ s'.q[x].ops = <<>> => s'.q[x].yield
      <3>1. s'.q[Src].sent => s'.q[Src].yield
        <4>1. s.q[Src].sent /\ s.q[Src].ops = <<>> => s.q[Src].yield
          BY NamesApart DEF Inv, Wakes
        <4> QED BY <1>4, <4>1
      <3>2. s'.q[Dst].sent /\ s'.q[Dst].ops = <<>> => s'.q[Dst].yield
        BY <1>5, NamesApart DEF Inv, Wakes
      <3> QED BY <3>1, <3>2, NamesApart
    <2>2. s'.q[Dst].io => cons.pc # "wait"
      BY <1>5, <1>7 DEF Inv, Wakes
    <2>3. Watches /\ s'.q[Dst].io /\ s'.q[Dst].ops # <<>>
            => s'.q[Dst].fd \/ (s'.q[Dst].sent /\ s'.q[Dst].yield)
      BY <1>5, <1>7 DEF Inv, Wakes
    <2>4. cons.pc = "wait" => cons.at = Dst
      BY <1>7 DEF Inv, Threads
    <2>5. cons.pc = "wait" /\ (s'.q[Dst].ops # <<>> \/ s'.q[Dst].yield) => Dst \in s'.sig
      BY <1>4, <1>5, <2>4 DEF Inv, Wakes
    <2> QED BY <1>7, <1>v, <2>1, <2>2, <2>3, <2>4, <2>5 DEF Wakes, Watches
  <1>17. Ordered'
    <2> SUFFICES ASSUME ~mixed PROVE Ordered'
      BY <1>v DEF Ordered
    <2>1. /\ Rising(done) /\ Rising(cons.local) /\ Rising(s.q[Dst].ops)
          /\ Below(Plain(done), Plain(cons.local))
          /\ Below(Plain(done), Plain(s.q[Dst].ops))
          /\ Below(Plain(cons.local), Plain(s.q[Dst].ops))
          /\ prod.at = Dst => s.q[Src].fwd = Dst
          /\ \A o \in 1..OpCount :
               o \in Plain(done) \cup Plain(cons.local) \cup Plain(s.q[Dst].ops)
                 => Passed(o)
      BY NamesApart DEF Inv, Ordered
    <2>2. Plain(s'.q[Src].ops) = {} /\ Rising(s'.q[Src].ops)
      BY <1>4, EmptyIs
    <2>3. /\ Plain(s'.q[Dst].ops) \subseteq Plain(s.q[Dst].ops) /\ Rising(s'.q[Dst].ops)
      BY <1>5, <2>1, EmptyIs
    <2>4. \A x \in Polled : /\ Below(Plain(done), Plain(s'.q[x].ops))
                            /\ Below(Plain(cons.local), Plain(s'.q[x].ops))
      <3>1. /\ Below(Plain(done), Plain(s'.q[Src].ops))
            /\ Below(Plain(cons.local), Plain(s'.q[Src].ops))
            /\ Below(Plain(done), Plain(s'.q[Dst].ops))
            /\ Below(Plain(cons.local), Plain(s'.q[Dst].ops))
        BY <2>1, <2>2, <2>3 DEF Below
      <3> QED BY <3>1, NamesApart
    <2>5. prod.at = Dst => s'.q[Src].fwd = Dst
      <3>1. prod.at = Dst => prod.op \in 1..OpCount
        BY NamesApart DEF Inv, Threads
      <3> QED BY <1>4, <2>1, <3>1, NamesApart
    <2>6. \A o \in 1..OpCount : Passed(o)' <=> Passed(o)
      BY <1>v DEF Passed
    <2>7. \A o \in 1..OpCount :
            o \in Plain(done) \cup Plain(cons.local) \cup Plain(s'.q[Src].ops)
                    \cup Plain(s'.q[Dst].ops)
              => Passed(o)'
      BY <2>1, <2>2, <2>3, <2>6
    <2> QED BY <1>2, <1>v, <2>1, <2>2, <2>3, <2>4, <2>5, <2>7 DEF Ordered
  <1> QED BY <1>10, <1>11, <1>12, <1>13, <1>14, <1>15, <1>16, <1>17 DEF Inv

(* The request goes to Dst, with a reference to Recv for the answer.       *)
LEMMA ReqSendKeeps == ASSUME Inv, ReqSend PROVE Inv'
  <1>h. PICK h \in BOOLEAN : h = FALSE
    OBVIOUS
  <1> DEFINE m == Keep(s, Recv)
             a == s.q[Dst].ops
             b == Insert(a, Request, h)
             n == EnqHere(m, Dst, Request, h)
  <1>1. req = "idle" /\ req' = "wait" /\ s' = n
    BY <1>h DEF ReqSend
  <1>v. prod' = prod /\ cons' = cons /\ ctl' = ctl /\ done' = done /\ mixed' = mixed
    BY DEF ReqSend
  <1>2. /\ s \in State /\ s.q[Recv] \in QueueState /\ a \in Seq(Ops)
        /\ s.q[Recv].ref \in Int /\ Request \in Ops
    BY Typed, NamesApart DEF Inv
  <1>3. /\ m \in State /\ m.sig = s.sig /\ m.gone = s.gone /\ Elsewhere(s, m, Recv)
        /\ m.q[Recv] = [s.q[Recv] EXCEPT !.ref = @ + 1]
    BY <1>2, KeepIs, NamesApart
  <1>4. /\ b \in Seq(Ops) /\ b # <<>>
        /\ \A p : Times(b, p) = Times(a, p) + Hit(p, Request)
        /\ Plain(b) = Plain(a) \cup ({Request} \cap Plains)
        /\ Rising(a) /\ Below(Plain(a), {Request} \cap Plains) => Rising(b)
    BY <1>2, InsertIs
  <1> HIDE DEF m
  <1>5. /\ n \in State /\ n.sig = m.sig \cup {Dst} /\ n.gone = m.gone
        /\ Elsewhere(m, n, Dst)
        /\ n.q[Dst].ops = Insert(m.q[Dst].ops, Request, h) /\ Alike(m.q[Dst], n.q[Dst])
        /\ n.q[Dst].sent <=> m.q[Dst].sent \/ (m.q[Dst].io /\ m.q[Dst].ops = <<>>)
        /\ n.q[Dst].fd <=> \/ m.q[Dst].fd
                           \/ m.q[Dst].io /\ ~m.q[Dst].sent /\ m.q[Dst].ops = <<>>
    BY <1>3, EnqHereIs, NamesApart
  <1> HIDE DEF n
  <1>6. m.q[Dst] = s.q[Dst] /\ m.q[Src] = s.q[Src]
    BY <1>3, NamesApart DEF Elsewhere
  <1>7. n.q[Src] = m.q[Src] /\ n.q[Recv] = m.q[Recv]
    BY <1>5, NamesApart DEF Elsewhere
  <1>8. /\ s' \in State /\ s'.sig = s.sig \cup {Dst} /\ s'.gone = s.gone
        /\ s'.q[Src] = s.q[Src] /\ s'.q[Dst].ops = b
        /\ s'.q[Dst].ready = s.q[Dst].ready /\ s'.q[Dst].ref = s.q[Dst].ref
        /\ s'.q[Dst].fwd = s.q[Dst].fwd /\ s'.q[Dst].yield = s.q[Dst].yield
        /\ s'.q[Dst].io = s.q[Dst].io
        /\ s'.q[Dst].sent <=> s.q[Dst].sent \/ (s.q[Dst].io /\ a = <<>>)
        /\ s'.q[Dst].fd <=> \/ s.q[Dst].fd
                            \/ s.q[Dst].io /\ ~s.q[Dst].sent /\ a = <<>>
    BY <1>1, <1>3, <1>5, <1>6, <1>7 DEF Alike
  <1>9. /\ s'.q[Recv].ready = s.q[Recv].ready /\ s'.q[Recv].fwd = s.q[Recv].fwd
        /\ s'.q[Recv].io = s.q[Recv].io /\ s'.q[Recv].sent = s.q[Recv].sent
        /\ s'.q[Recv].ops = s.q[Recv].ops /\ s'.q[Recv].ref = s.q[Recv].ref + 1
    BY <1>1, <1>2, <1>3, <1>7 DEF QueueState
  <1> HIDE DEF a, b
  <1>10. TypeOK'
    BY <1>1, <1>8, <1>v DEF Inv, TypeOK
  <1>11. Shape(s)'
    BY <1>1, <1>8, <1>9, <1>v DEF Inv, Shape
  <1>12. Threads'
    BY <1>v DEF Inv, Threads
  <1>u. Unanswered = 0 /\ Unanswered' = 1
    <2>1. /\ Unanswered = 0
          /\ Unanswered = Times(s.q[Src].ops, Request) + Times(a, Request)
                            + Times(cons.local, Request)
      BY <1>1 DEF Inv, OneRequest, Unanswered, a
    <2>2. Unanswered' = Times(s.q[Src].ops, Request) + Times(b, Request)
                          + Times(cons.local, Request)
      BY <1>8, <1>v DEF Unanswered
    <2>3. Times(b, Request) = Times(a, Request) + 1
      BY <1>4, HitIs
    <2>4. /\ Times(s.q[Src].ops, Request) \in Nat /\ Times(a, Request) \in Nat
          /\ Times(cons.local, Request) \in Nat
      BY Counts DEF Inv, a
    <2> QED BY <2>1, <2>2, <2>3, <2>4
  <1>13. OneRequest'
    BY <1>1, <1>u DEF OneRequest
  <1>14. Refs'
    <2>1. s.q[Recv].ref = 1
      BY <1>1, <1>u DEF Inv, Refs
    <2>2. s'.q[Recv].ref = (IF req' \in {"idle", "wait"} THEN 1 ELSE 0) + Unanswered'
      BY <1>1, <1>9, <1>u, <2>1
    <2> QED BY <1>8, <1>v, <2>2 DEF Inv, Refs
  <1>15. Kept'
    <2> SUFFICES ASSUME NEW o \in 1..OpCount
                 PROVE  Places(o)' = IF Passed(o)' THEN 1 ELSE 0
      BY DEF Kept
    <2>1. Times(b, o) = Times(a, o)
      <3>1. o # Request /\ Times(a, o) \in Nat
        BY Counts, NamesApart DEF Inv, a
      <3> QED BY <1>4, <3>1, HitIs
    <2>2. Places(o)' = Places(o)
      BY <1>8, <1>v, <2>1 DEF Places, a
    <2>3. Passed(o)' <=> Passed(o)
      BY <1>v DEF Passed
    <2> QED BY <2>2, <2>3 DEF Inv, Kept
  <1>16. Wakes'
    <2>1. \A y \in Polled : s'.q[y].sent /\ s'.q[y].ops = <<>> => s'.q[y].yield
      BY <1>4, <1>8, NamesApart DEF Inv, Wakes
    <2>2. cons.poll \in Polled
      BY DEF Inv, TypeOK
    <2>3. s'.q[cons.poll].io = s.q[cons.poll].io
      BY <1>8, <2>2, NamesApart
    <2>4. Watches /\ s'.q[cons.poll].io /\ s'.q[cons.poll].ops # <<>>
            => s'.q[cons.poll].fd \/ (s'.q[cons.poll].sent /\ s'.q[cons.poll].yield)
      <3>1. CASE cons.poll = Dst
        BY <1>8, <2>2, <3>1, NamesApart DEF Inv, Wakes, a
      <3>2. CASE cons.poll = Src
        BY <1>8, <2>2, <3>2, NamesApart DEF Inv, Wakes
      <3> QED BY <2>2, <3>1, <3>2, NamesApart
    <2>5. cons.pc = "wait" /\ (s'.q[cons.at].ops # <<>> \/ s'.q[cons.at].yield)
            => cons.at \in s'.sig
      <3>1. cons.pc = "wait" => cons.at \in Polled
        BY DEF Inv, TypeOK, Threads
      <3> QED BY <1>8, <3>1, NamesApart DEF Inv, Wakes
    <2> QED BY <1>v, <2>1, <2>3, <2>4, <2>5 DEF Inv, Wakes, Watches
  <1>17. Ordered'
    <2>1. {Request} \cap Plains = {}
      BY NamesApart
    <2>2. Plain(s'.q[Dst].ops) = Plain(s.q[Dst].ops)
      BY <1>4, <1>8, <2>1 DEF a
    <2>3. Rising(s.q[Dst].ops) => Rising(s'.q[Dst].ops)
      BY <1>4, <1>8, <2>1 DEF a, Below
    <2>4. \A x \in Polled : Plain(s'.q[x].ops) = Plain(s.q[x].ops)
      BY <1>8, <2>2, NamesApart
    <2>5. \A o \in 1..OpCount : Passed(o)' <=> Passed(o)
      BY <1>v DEF Passed
    <2> QED BY <1>8, <1>v, <2>2, <2>3, <2>4, <2>5, NamesApart DEF Inv, Ordered
  <1> QED BY <1>10, <1>11, <1>12, <1>13, <1>14, <1>15, <1>16, <1>17 DEF Inv

(* The requester has its answer or does not wait for it any longer: Recv   *)
(* is disabled, and stays while the request may still be answered.         *)
OffRecv(n) ==
    /\ n \in State /\ n.sig = s.sig /\ n.q[Src] = s.q[Src] /\ n.q[Dst] = s.q[Dst]
    /\ ~n.q[Recv].ready /\ n.q[Recv].fwd = Null /\ ~n.q[Recv].io /\ ~n.q[Recv].sent
    /\ n.q[Recv].ops = <<>> /\ n.q[Recv].ref = s.q[Recv].ref - 1
    /\ \A o \in 1..OpCount : Times(n.gone, o) = Times(s.gone, o)

LEMMA OffRecvIs ==
    ASSUME Inv, req = "wait", NEW r \in QueueState, r.fwd = Null, ~r.io,
           r.ref = s.q[Recv].ref, \A i \in 1..Len(r.ops) : r.ops[i] = Request
    PROVE  OffRecv(DestroyOwner([s EXCEPT !.q[Recv] = r], Recv))
  <1> DEFINE m == [s EXCEPT !.q[Recv] = r]
             k == [m EXCEPT !.q[Recv].ready = FALSE]
             t == [r EXCEPT !.ready = FALSE]
             d == DropOps(k, Recv)
             n == DestroyOwner(m, Recv)
  <1>1. s \in State /\ s.gone \in Seq(Ops) /\ s.q[Recv].ref \in {1, 2}
    BY Typed DEF Inv, Refs, OneRequest
  <1>2. /\ m \in State /\ m.sig = s.sig /\ m.gone = s.gone
        /\ m.q[Recv] = r /\ Elsewhere(s, m, Recv)
    BY <1>1, SetIs, NamesApart
  <1>3. /\ t \in QueueState /\ t.ready = FALSE /\ t.fwd = Null /\ ~t.io /\ t.ops = r.ops
        /\ t.ref = r.ref
    BY DEF QueueState
  <1>4. k = [m EXCEPT !.q[Recv] = t]
    BY <1>2, NamesApart DEF State
  <1>5. n = Release(d, Recv)
    BY <1>2 DEF DestroyOwner
  <1> HIDE DEF m, t, k, n
  <1>6. /\ k \in State /\ k.sig = s.sig /\ k.gone = s.gone
        /\ k.q[Recv] = t /\ Elsewhere(m, k, Recv)
    BY <1>2, <1>3, <1>4, SetIs, NamesApart
  <1>7. k.q[Src] = s.q[Src] /\ k.q[Dst] = s.q[Dst]
    BY <1>2, <1>6, NamesApart DEF Elsewhere
  <1>8. /\ d \in State /\ d.sig = k.sig /\ d.gone = k.gone \o k.q[Recv].ops
        /\ \A y \in Queues \ {Recv, Recv} : d.q[y] = k.q[y]
        /\ d.q[Recv].ops = <<>> /\ ~d.q[Recv].sent /\ d.q[Recv].ready = k.q[Recv].ready
        /\ d.q[Recv].fwd = k.q[Recv].fwd /\ d.q[Recv].io = k.q[Recv].io
        /\ d.q[Recv].ref = k.q[Recv].ref
    BY <1>6, DropOpsIs, NamesApart
  <1> HIDE DEF d
  <1>9. /\ d.sig = s.sig /\ d.gone = s.gone \o r.ops /\ d.q[Src] = s.q[Src]
        /\ d.q[Dst] = s.q[Dst] /\ ~d.q[Recv].ready /\ d.q[Recv].fwd = Null
        /\ ~d.q[Recv].io /\ d.q[Recv].ref = s.q[Recv].ref
    BY <1>3, <1>6, <1>7, <1>8, NamesApart
  <1>10. \A o \in 1..OpCount : Times(d.gone, o) = Times(s.gone, o)
    <2> TAKE o \in 1..OpCount
    <2>1. r.ops \in Seq(Ops)
      BY DEF QueueState
    <2>2. Times(r.ops, o) = 0
      BY <2>1, AllRequest
    <2>3. Times(s.gone, o) \in Nat
      BY <1>1, TimesIs
    <2>4. Times(s.gone \o r.ops, o) = Times(s.gone, o) + Times(r.ops, o)
      BY <1>1, <2>1, TimesConcat
    <2> QED BY <1>9, <2>2, <2>3, <2>4
  <1>11. ASSUME s.q[Recv].ref = 1 PROVE OffRecv(n)
    <2>1. d.q[Recv].ref = 1 /\ Recv \in {Src, Recv} /\ Src \in {Src, Recv} \ {Recv}
          /\ Recv # Src
      BY <1>9, <1>11, NamesApart
    <2>2. /\ n \in State /\ n.sig = d.sig /\ n.gone = d.gone \o d.q[Recv].ops
          /\ n.q[Recv].ops = <<>> /\ ~n.q[Recv].ready /\ n.q[Recv].ref = 0
          /\ n.q[Recv].fwd = Null /\ ~n.q[Recv].sent /\ n.q[Recv].io = d.q[Recv].io
          /\ n.q[Dst] = IF d.q[Recv].fwd = Null THEN d.q[Dst]
                        ELSE [d.q[Dst] EXCEPT !.ref = @ - 1]
          /\ \A y \in {Src, Recv} \ {Recv} : n.q[y] = d.q[y]
      BY <1>5, <1>8, <1>9, <2>1, FinalIs
    <2>3. n.q[Src] = d.q[Src] /\ n.q[Dst] = d.q[Dst]
      BY <1>9, <2>1, <2>2
    <2>4. n.gone = d.gone
      <3>1. n.gone = d.gone \o <<>> /\ d.gone \in Seq(Ops)
        BY <1>8, <2>2, QueueIs, NamesApart
      <3> QED BY <3>1
    <2> QED BY <1>9, <1>10, <1>11, <2>2, <2>3, <2>4 DEF OffRecv
  <1>12. ASSUME s.q[Recv].ref = 2 PROVE OffRecv(n)
    <2>1. d.q[Recv].ref # 1 /\ d.q[Recv] \in QueueState
      BY <1>8, <1>9, <1>12, QueueIs, NamesApart
    <2>2. n = Unref(d, Recv)
      BY <1>5, <1>8, <2>1, ReleaseIs, NamesApart
    <2>3. /\ n \in State /\ n.sig = d.sig /\ n.gone = d.gone /\ Elsewhere(d, n, Recv)
          /\ n.q[Recv] = [d.q[Recv] EXCEPT !.ref = @ - 1]
      BY <1>8, <2>2, UnrefIs, NamesApart
    <2>4. n.q[Src] = d.q[Src] /\ n.q[Dst] = d.q[Dst]
      BY <2>3, NamesApart DEF Elsewhere
    <2>5. /\ n.q[Recv].ops = d.q[Recv].ops /\ n.q[Recv].ready = d.q[Recv].ready
          /\ n.q[Recv].fwd = d.q[Recv].fwd /\ n.q[Recv].io = d.q[Recv].io
          /\ n.q[Recv].sent = d.q[Recv].sent /\ n.q[Recv].ref = d.q[Recv].ref - 1
      BY <2>1, <2>3 DEF QueueState
    <2> QED BY <1>8, <1>9, <1>10, <2>3, <2>4, <2>5 DEF OffRecv
  <1>13. OffRecv(n)
    BY <1>1, <1>11, <1>12
  <1> QED BY <1>13 DEF n, m

LEMMA OffRecvKeeps ==
    ASSUME Inv, req = "wait", OffRecv(s'), req' \in {"answered", "timedout"},
           prod' = prod, cons' = cons, ctl' = ctl, done' = done, mixed' = mixed
    PROVE  Inv'
  <1>1. /\ s' \in State /\ s'.sig = s.sig /\ s'.q[Src] = s.q[Src] /\ s'.q[Dst] = s.q[Dst]
        /\ ~s'.q[Recv].ready /\ s'.q[Recv].fwd = Null /\ ~s'.q[Recv].io
        /\ ~s'.q[Recv].sent /\ s'.q[Recv].ops = <<>>
        /\ s'.q[Recv].ref = s.q[Recv].ref - 1
        /\ \A o \in 1..OpCount : Times(s'.gone, o) = Times(s.gone, o)
    BY DEF OffRecv
  <1>2. TypeOK'
    BY <1>1 DEF Inv, TypeOK
  <1>3. Shape(s)'
    <2>1. Len(<<>>) = 0
      OBVIOUS
    <2>2. \A i \in 1..Len(s'.q[Recv].ops) : s'.q[Recv].ops[i] = Request
      BY <1>1, <2>1
    <2> QED BY <1>1, <2>2 DEF Inv, Shape
  <1>4. Threads'
    BY DEF Inv, Threads
  <1>5. Unanswered' = Unanswered
    BY <1>1 DEF Unanswered
  <1>6. OneRequest'
    BY <1>5 DEF Inv, OneRequest
  <1>7. Refs'
    <2>1. s.q[Recv].ref = 1 + Unanswered /\ Unanswered \in {0, 1}
      BY DEF Inv, Refs, OneRequest
    <2>2. s'.q[Recv].ref = (IF req' \in {"idle", "wait"} THEN 1 ELSE 0) + Unanswered'
      BY <1>1, <1>5, <2>1
    <2> QED BY <1>1, <2>2 DEF Inv, Refs
  <1>8. Kept'
    <2>1. \A o \in 1..OpCount : Passed(o)' <=> Passed(o)
      BY DEF Passed
    <2>2. \A o \in 1..OpCount : Places(o)' = Places(o)
      BY <1>1 DEF Places
    <2> QED BY <2>1, <2>2 DEF Inv, Kept
  <1>9. Wakes'
    <2>1. cons.poll \in Polled /\ (cons.pc = "wait" => cons.at \in Polled)
      BY DEF Inv, TypeOK, Threads
    <2>2. \A x \in Polled : s'.q[x] = s.q[x]
      BY <1>1, NamesApart
    <2> QED BY <1>1, <2>1, <2>2 DEF Inv, Wakes, Watches
  <1>10. Ordered'
    <2>1. \A x \in Polled : s'.q[x] = s.q[x]
      BY <1>1, NamesApart
    <2>2. \A o \in 1..OpCount : Passed(o)' <=> Passed(o)
      BY DEF Passed
    <2> QED BY <1>1, <2>1, <2>2, NamesApart DEF Inv, Ordered
  <1> QED BY <1>2, <1>3, <1>4, <1>6, <1>7, <1>8, <1>9, <1>10 DEF Inv

LEMMA ReqAnswerKeeps == ASSUME Inv, ReqAnswer PROVE Inv'
  <1>1. /\ req = "wait" /\ req' = "answered"
        /\ s' = DestroyOwner([s EXCEPT !.q[Recv].ops = <<>>], Recv)
    BY DEF ReqAnswer
  <1>v. prod' = prod /\ cons' = cons /\ ctl' = ctl /\ done' = done /\ mixed' = mixed
    BY DEF ReqAnswer
  <1> DEFINE r == [s.q[Recv] EXCEPT !.ops = <<>>]
  <1>2. s \in State /\ s.q[Recv] \in QueueState
    BY Typed, NamesApart DEF Inv
  <1>3. s.q[Recv].fwd = Null /\ ~s.q[Recv].io
    BY DEF Inv, Shape
  <1>4. [s EXCEPT !.q[Recv].ops = <<>>] = [s EXCEPT !.q[Recv] = r]
    BY <1>2, NamesApart DEF State
  <1>5. /\ r \in QueueState /\ r.fwd = Null /\ ~r.io /\ r.ref = s.q[Recv].ref
        /\ r.ops = <<>>
    BY <1>2, <1>3, EmptyIs DEF QueueState
  <1> HIDE DEF r
  <1>6. \A i \in 1..Len(r.ops) : r.ops[i] = Request
    <2>1. Len(r.ops) = 0
      BY <1>5, EmptyIs
    <2> QED BY <2>1
  <1>7. OffRecv(DestroyOwner([s EXCEPT !.q[Recv] = r], Recv))
    BY <1>1, <1>5, <1>6, OffRecvIs
  <1> QED BY <1>1, <1>4, <1>7, <1>v, OffRecvKeeps

LEMMA ReqTimeoutKeeps == ASSUME Inv, ReqTimeout PROVE Inv'
  <1>1. req = "wait" /\ req' = "timedout" /\ s' = DestroyOwner(s, Recv)
    BY DEF ReqTimeout
  <1>v. prod' = prod /\ cons' = cons /\ ctl' = ctl /\ done' = done /\ mixed' = mixed
    BY DEF ReqTimeout
  <1>2. s \in State /\ s.q[Recv] \in QueueState
    BY Typed, NamesApart DEF Inv
  <1>3. /\ s.q[Recv].fwd = Null /\ ~s.q[Recv].io
        /\ \A i \in 1..Len(s.q[Recv].ops) : s.q[Recv].ops[i] = Request
    BY DEF Inv, Shape
  <1>4. s = [s EXCEPT !.q[Recv] = s.q[Recv]]
    BY <1>2, NamesApart DEF State
  <1>5. OffRecv(DestroyOwner([s EXCEPT !.q[Recv] = s.q[Recv]], Recv))
    BY <1>1, <1>2, <1>3, OffRecvIs
  <1> QED BY <1>1, <1>4, <1>5, <1>v, OffRecvKeeps

(* Nothing happens.                                                        *)
LEMMA StutterKeeps == ASSUME Inv, UNCHANGED qvars PROVE Inv'
  <1>1. /\ s' = s /\ prod' = prod /\ cons' = cons /\ req' = req /\ ctl' = ctl
        /\ done' = done /\ mixed' = mixed
    BY DEF qvars
  <1>2. TypeOK' /\ Shape(s)' /\ Threads'
    BY <1>1 DEF Inv, TypeOK, Shape, Threads
  <1>3. OneRequest' /\ Refs'
    BY <1>1 DEF Inv, OneRequest, Refs, Unanswered
  <1>4. Kept' /\ Wakes'
    BY <1>1 DEF Inv, Kept, Places, Passed, Wakes, Watches
  <1>5. Ordered'
    BY <1>1 DEF Inv, Ordered, Passed
  <1> QED BY <1>2, <1>3, <1>4, <1>5 DEF Inv

(* Every step of every thread keeps the invariant.                         *)
LEMMA NextKeeps == Inv /\ [QueuesNext]_qvars => Inv'
  <1> SUFFICES ASSUME Inv, [QueuesNext]_qvars PROVE Inv'
    OBVIOUS
  <1>1. CASE EnqCall
    BY <1>1, EnqCallKeeps
  <1>2. CASE EnqStep
    BY <1>2, EnqStepKeeps
  <1>3. CASE ProdEnds
    BY <1>3, ProdEndsKeeps
  <1>4. CASE PollCall("pop") \/ PollCall("serve")
    <2>1. PICK mode \in {"pop", "serve"} : PollCall(mode)
      BY <1>4
    <2> QED BY <2>1, PollCallKeeps
  <1>5. CASE Follow
    BY <1>5, FollowKeeps
  <1>6. CASE Take
    BY <1>6, TakeKeeps
  <1>7. CASE Sleep
    BY <1>7, SleepKeeps
  <1>8. CASE PollTimeout
    BY <1>8, PollTimeoutKeeps
  <1>9. CASE Handle
    BY <1>9, HandleKeeps
  <1>10. CASE HandleAgain
    BY <1>10, HandleAgainKeeps
  <1>11. CASE Forward
    BY <1>11, ForwardKeeps
  <1>12. CASE Unforward
    BY <1>12, UnforwardKeeps
  <1>13. CASE Yield
    BY <1>13, YieldKeeps
  <1>14. CASE DestroySrc
    BY <1>14, DestroySrcKeeps
  <1>15. CASE ReqSend
    BY <1>15, ReqSendKeeps
  <1>16. CASE ReqAnswer
    BY <1>16, ReqAnswerKeeps
  <1>17. CASE ReqTimeout
    BY <1>17, ReqTimeoutKeeps
  <1>18. CASE UNCHANGED qvars
    BY <1>18, StutterKeeps
  <1> QED BY <1>1, <1>2, <1>3, <1>4, <1>5, <1>6, <1>7, <1>8, <1>9, <1>10, <1>11,
             <1>12, <1>13, <1>14, <1>15, <1>16, <1>17, <1>18 DEF QueuesNext

-----------------------------------------------------------------------------
(* What the invariant says of the queues.                                  *)

LEMMA RefsAre == ASSUME Inv PROVE RefsExact
  <1> DEFINE all == s.q[Src].ops \o s.q[Dst].ops \o cons.local
  <1>1. /\ s.q[Src].ops \in Seq(Ops) /\ s.q[Dst].ops \in Seq(Ops)
        /\ cons.local \in Seq(Ops)
    BY Typed, NamesApart DEF Inv
  <1>2. s.q[Src].ops \o s.q[Dst].ops \in Seq(Ops)
    BY <1>1, ConcatIs
  <1>3. all \in Seq(Ops)
    BY <1>1, <1>2, ConcatIs
  <1>4. Times(all, Request) = Unanswered
    <2>1. Times(all, Request) = Times(s.q[Src].ops \o s.q[Dst].ops, Request)
                                  + Times(cons.local, Request)
      BY <1>1, <1>2, TimesConcat
    <2>2. Times(s.q[Src].ops \o s.q[Dst].ops, Request)
            = Times(s.q[Src].ops, Request) + Times(s.q[Dst].ops, Request)
      BY <1>1, TimesConcat
    <2> QED BY <2>1, <2>2 DEF Unanswered
  <1> HIDE DEF all
  <1>5. Times(all, Request) = 0 <=> \A i \in 1..Len(all) : all[i] # Request
    BY <1>3, TimesIs
  <1>6. Request \in ToSet(all) <=> \E i \in 1..Len(all) : all[i] = Request
    BY <1>3 DEF ToSet
  <1>7. Unanswered = (IF Request \in ToSet(all) THEN 1 ELSE 0)
    BY <1>4, <1>5, <1>6 DEF Inv, OneRequest
  <1>8. s.q[Recv].ref = (IF req \in {"idle", "wait"} THEN 1 ELSE 0)
                        + (IF Request \in ToSet(all) THEN 1 ELSE 0)
    BY <1>7 DEF Inv, Refs
  <1>9. s.q[Recv].ref = Holders(Recv)
    BY <1>8, NamesApart DEF Holders, all
  <1>10. s.q[Src].ref = Holders(Src)
    BY NamesApart DEF Inv, Refs, Holders
  <1>11. s.q[Dst].ref = Holders(Dst)
    BY NamesApart DEF Inv, Refs, Holders
  <1> QED BY <1>9, <1>10, <1>11 DEF RefsExact, Queues

LEMMA OpsAre == ASSUME Inv PROVE Conserved
  <1> DEFINE a == s.q[Src].ops \o s.q[Dst].ops
             b == a \o cons.local
             c == b \o s.gone
  <1>1. /\ s.q[Src].ops \in Seq(Ops) /\ s.q[Dst].ops \in Seq(Ops)
        /\ cons.local \in Seq(Ops) /\ s.gone \in Seq(Ops) /\ done \in Seq(Ops)
    BY Typed, NamesApart DEF Inv
  <1>2. a \in Seq(Ops)
    BY <1>1, ConcatIs
  <1>3. \A o : Times(a, o) = Times(s.q[Src].ops, o) + Times(s.q[Dst].ops, o)
    BY <1>1, TimesConcat
  <1> HIDE DEF a
  <1>4. b \in Seq(Ops)
    BY <1>1, <1>2, ConcatIs
  <1>5. \A o : Times(b, o) = Times(a, o) + Times(cons.local, o)
    BY <1>1, <1>2, TimesConcat
  <1> HIDE DEF b
  <1>6. c \in Seq(Ops)
    BY <1>1, <1>4, ConcatIs
  <1>7. \A o : Times(c, o) = Times(b, o) + Times(s.gone, o)
    BY <1>1, <1>4, TimesConcat
  <1> HIDE DEF c
  <1>8. \A o : Times(c \o done, o) = Times(c, o) + Times(done, o)
    BY <1>1, <1>6, TimesConcat
  <1>9. \A o : Times(c \o done, o) = Places(o)
    BY <1>3, <1>5, <1>7, <1>8 DEF Places
  <1>10. \A o \in 1..OpCount : Times(c \o done, o) = IF Passed(o) THEN 1 ELSE 0
    BY <1>9 DEF Inv, Kept
  <1> QED BY <1>10 DEF Conserved, Passed, a, b, c

LEMMA WakeupsAre == ASSUME Inv PROVE NoLostWakeup
  BY DEF Inv, Wakes, Watches, NoLostWakeup

LEMMA OrderIs == ASSUME Inv PROVE OrderKept
  <1> SUFFICES ASSUME ~mixed, NEW i \in 1..Len(done), NEW j \in 1..Len(done), i < j,
                      Low(done[i]), Low(done[j]),
                      {done[i], done[j]} \subseteq 1..OpCount
               PROVE  done[i] < done[j]
    BY DEF OrderKept
  <1>1. Rising(done)
    BY DEF Inv, Ordered
  <1>2. done[i] \in Plains /\ done[j] \in Plains
    BY DEF Plains
  <1> QED BY <1>1, <1>2 DEF Rising

(* The queues the threads share keep their promises, whatever the number   *)
(* of ops, the ops with a priority, and the calls of the controller: the   *)
(* references that rd_kafka_q_keep() and rd_kafka_q_destroy0() count are   *)
(* exact, rd_kafka_q_enq1(), rd_kafka_q_serve(), forwards and the          *)
(* destruction of a queue lose no op and handle none twice, no wakeup that *)
(* is needed is suppressed, and the order is kept.                         *)
THEOREM QueuesExact == QueuesSpec => []QueuesSound
  <1>1. QueuesInit => Inv
    BY InitInv
  <1>2. Inv /\ [QueuesNext]_qvars => Inv'
    BY NextKeeps
  <1>3. Inv => QueuesSound
    BY RefsAre, OpsAre, WakeupsAre, OrderIs DEF QueuesSound
  <1> QED BY <1>1, <1>2, <1>3, PTL DEF QueuesSpec
=============================================================================
