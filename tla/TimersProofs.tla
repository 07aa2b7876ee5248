---------------------------- MODULE TimersProofs ----------------------------
(***************************************************************************)
(* Timers, for any number of timers, any intervals and any sleep of the    *)
(* main thread: the list of scheduled timers is exact and ordered, and the *)
(* main thread never sleeps past its first one. Every call under the lock  *)
(* is a function of w = [tmr, list, wake], so the argument is a lemma per  *)
(* call: it keeps the list sound and the sleep safe.                       *)
(***************************************************************************)
EXTENDS Timers, SequenceTheorems, WellFoundedInduction, TLAPS

-----------------------------------------------------------------------------
(* Sequences and numbers.                                                  *)

(* A set of natural numbers that is not empty has a least one.             *)
LEMMA LeastExists ==
    ASSUME NEW I \in SUBSET Nat, I # {}
    PROVE  Min(I) \in I /\ \A i \in I : Min(I) <= i
<1>1. PICK x \in I : \A y \in I : <<y, x>> \notin OpToRel(<, Nat)
  BY NatLessThanWellFounded, WFMin
<1>2. ASSUME NEW y \in I PROVE x <= y
  <2>1. y \in Nat /\ x \in Nat /\ <<y, x>> \in Nat \X Nat
    OBVIOUS
  <2>2. ~(y < x)
    BY <1>1, <2>1 DEF OpToRel
  <2> QED BY <2>1, <2>2
<1> QED BY <1>2 DEF Min

(* What RemoveAt does, element by element.                                 *)
LEMMA RemoveAtElements ==
    ASSUME NEW S, NEW s \in Seq(S), NEW n \in 1..Len(s)
    PROVE  /\ RemoveAt(s, n) \in Seq(S)
           /\ Len(RemoveAt(s, n)) = Len(s) - 1
           /\ \A i \in 1..(Len(s) - 1) :
                RemoveAt(s, n)[i] = IF i < n THEN s[i] ELSE s[i + 1]
<1> DEFINE p == SubSeq(s, 1, n - 1)
           q == SubSeq(s, n + 1, Len(s))
<1>1. p \in Seq(S) /\ Len(p) = n - 1 /\ \A i \in 1..(n - 1) : p[i] = s[i]
  OBVIOUS
<1>2. /\ q \in Seq(S) /\ Len(q) = Len(s) - n
      /\ \A i \in 1..(Len(s) - n) : q[i] = s[i + n]
  OBVIOUS
<1>3. RemoveAt(s, n) = p \o q
  BY DEF RemoveAt
<1> HIDE DEF p, q
<1>4. \A i \in 1..(Len(p) + Len(q)) :
        (p \o q)[i] = IF i <= Len(p) THEN p[i] ELSE q[i - Len(p)]
  BY <1>1, <1>2, ConcatProperties
<1>5. p \o q \in Seq(S) /\ Len(p \o q) = Len(s) - 1
  <2>1. p \o q \in Seq(S) /\ Len(p \o q) = Len(p) + Len(q)
    BY <1>1, <1>2, ConcatProperties
  <2>2. Len(s) \in Nat
    OBVIOUS
  <2> QED BY <1>1, <1>2, <2>1, <2>2
<1>6. ASSUME NEW i \in 1..(Len(s) - 1)
      PROVE  (p \o q)[i] = IF i < n THEN s[i] ELSE s[i + 1]
  <2>1. CASE i < n
    BY <2>1, <1>1, <1>2, <1>4
  <2>2. CASE ~(i < n)
    <3>1. i - Len(p) \in 1..(Len(s) - n) /\ (i - Len(p)) + n = i + 1
      BY <2>2, <1>1
    <3>2. (p \o q)[i] = q[i - Len(p)]
      BY <2>2, <1>1, <1>2, <1>4
    <3>3. q[i - Len(p)] = s[(i - Len(p)) + n]
      BY <3>1, <1>2
    <3> QED BY <2>2, <3>1, <3>2, <3>3
  <2> QED BY <2>1, <2>2
<1> QED BY <1>3, <1>5, <1>6

(* What InsertAt does, element by element.                                 *)
LEMMA InsertAtElements ==
    ASSUME NEW S, NEW s \in Seq(S), NEW n \in 1..(Len(s) + 1), NEW e \in S
    PROVE  /\ InsertAt(s, n, e) \in Seq(S)
           /\ Len(InsertAt(s, n, e)) = Len(s) + 1
           /\ \A i \in 1..(Len(s) + 1) :
                InsertAt(s, n, e)[i] = IF i < n THEN s[i]
                                       ELSE IF i = n THEN e ELSE s[i - 1]
<1> DEFINE p == SubSeq(s, 1, n - 1)
           r == p \o <<e>>
           q == SubSeq(s, n, Len(s))
<1>1. p \in Seq(S) /\ Len(p) = n - 1 /\ \A i \in 1..(n - 1) : p[i] = s[i]
  OBVIOUS
<1>2. /\ q \in Seq(S) /\ Len(q) = Len(s) + 1 - n
      /\ \A i \in 1..(Len(s) + 1 - n) : q[i] = s[i + n - 1]
  OBVIOUS
<1>3. InsertAt(s, n, e) = r \o q
  BY DEF InsertAt
<1> HIDE DEF p, q
<1>4. /\ r \in Seq(S) /\ Len(r) = n
      /\ \A i \in 1..n : r[i] = IF i < n THEN s[i] ELSE e
  BY <1>1
<1> HIDE DEF r
<1>5. \A i \in 1..(Len(r) + Len(q)) :
        (r \o q)[i] = IF i <= Len(r) THEN r[i] ELSE q[i - Len(r)]
  BY <1>2, <1>4, ConcatProperties
<1>6. r \o q \in Seq(S) /\ Len(r \o q) = Len(s) + 1
  BY <1>2, <1>4
<1>7. ASSUME NEW i \in 1..(Len(s) + 1)
      PROVE  (r \o q)[i] = IF i < n THEN s[i]
                            ELSE IF i = n THEN e ELSE s[i - 1]
  <2>1. CASE i <= n
    BY <2>1, <1>2, <1>4, <1>5
  <2>2. CASE ~(i <= n)
    <3>1. /\ i - Len(r) \in 1..(Len(s) + 1 - n)
          /\ (i - Len(r)) + n - 1 = i - 1
      BY <2>2, <1>4
    <3>2. (r \o q)[i] = q[i - Len(r)]
      BY <2>2, <1>2, <1>4, <1>5
    <3>3. q[i - Len(r)] = s[(i - Len(r)) + n - 1]
      BY <3>1, <1>2
    <3> QED BY <2>2, <3>1, <3>2, <3>3
  <2> QED BY <2>1, <2>2
<1> QED BY <1>3, <1>6, <1>7

-----------------------------------------------------------------------------
(* The calls under the lock.                                               *)

Main == [pc : {"top", "sleep", "run", "cb", "end"}, until : Nat, now : Int,
         cur : TimerIds \cup {NoTimer}]
Timer == [interval : Nat, sched : BOOLEAN, next : Int, oneshot : BOOLEAN]
Worlds == [tmr : [TimerIds -> Timer], list : Seq(TimerIds), wake : BOOLEAN]

(* The main thread at another place of its loop.                           *)
LEMMA MainExcept ==
    ASSUME NEW m \in Main, NEW n \in Int,
           NEW p \in {"top", "sleep", "run", "cb", "end"}
    PROVE  LET c == [m EXCEPT !.pc = p, !.now = n]
           IN  c \in Main /\ c.pc = p
BY DEF Main

(* A timer that is taken off the list, or put on it.                       *)
LEMMA TimerExcept ==
    ASSUME NEW r \in Timer, NEW b \in BOOLEAN, NEW n \in Int
    PROVE  LET c == [r EXCEPT !.sched = b, !.next = n]
           IN  /\ c \in Timer /\ c.interval = r.interval
               /\ c.sched = b /\ c.next = n
BY DEF Timer

(* Listed, of w.                                                           *)
Sound(w) ==
    /\ \A t \in TimerIds :
         w.tmr[t].sched <=> \E i \in 1..Len(w.list) : w.list[i] = t
    /\ \A i, j \in 1..Len(w.list) :
         i < j => /\ w.list[i] # w.list[j]
                  /\ w.tmr[w.list[i]].next <= w.tmr[w.list[j]].next
    /\ \A t \in TimerIds : w.tmr[t].sched => w.tmr[t].interval # 0

(* A thread that sleeps for u does not oversleep, in w.                    *)
Rested(w, u) ==
    ~w.wake => \A t \in TimerIds :
                 w.tmr[t].sched => w.tmr[t].next >= u \/ u = 0

(* Taking a timer off the list (rd_kafka_timer_unschedule()).              *)
LEMMA UnscheduleSound ==
    ASSUME NEW w \in Worlds, Sound(w), NEW t \in TimerIds, w.tmr[t].sched,
           NEW u \in Nat, Rested(w, u)
    PROVE  LET v == Unschedule(w, t)
           IN  /\ v \in Worlds /\ Sound(v) /\ Rested(v, u)
               /\ ~v.tmr[t].sched /\ v.tmr[t].interval = w.tmr[t].interval
<1> DEFINE i == CHOOSE i \in 1..Len(w.list) : w.list[i] = t
           l == RemoveAt(w.list, i)
           v == Unschedule(w, t)
<1>1. i \in 1..Len(w.list) /\ w.list[i] = t
  BY DEF Sound
<1>2. w.list \in Seq(TimerIds) /\ w.tmr \in [TimerIds -> Timer]
  BY DEF Worlds
<1>3. v = [w EXCEPT !.list = l, !.tmr[t].sched = FALSE, !.tmr[t].next = 0]
  BY DEF Unschedule
<1> HIDE DEF i
<1>4. /\ l \in Seq(TimerIds) /\ Len(l) = Len(w.list) - 1
      /\ \A k \in 1..(Len(w.list) - 1) :
           l[k] = IF k < i THEN w.list[k] ELSE w.list[k + 1]
  BY <1>1, <1>2, RemoveAtElements
<1> HIDE DEF l, v
<1>5. /\ v.list = l /\ v.wake = w.wake /\ v \in Worlds
      /\ v.tmr[t].interval = w.tmr[t].interval /\ ~v.tmr[t].sched
      /\ \A x \in TimerIds \ {t} : v.tmr[x] = w.tmr[x]
  <2> DEFINE c == [w.tmr[t] EXCEPT !.sched = FALSE, !.next = 0]
  <2>1. w.tmr[t] \in Timer
    BY <1>2
  <2>2. c \in Timer /\ c.interval = w.tmr[t].interval /\ ~c.sched
    <3>1. c \in Timer /\ c.interval = w.tmr[t].interval /\ c.sched = FALSE
      BY <2>1, 0 \in Int, FALSE \in BOOLEAN, TimerExcept, Zenon
    <3> QED BY <3>1
  <2>3. v = [w EXCEPT !.list = l, !.tmr = [w.tmr EXCEPT ![t] = c]]
    BY <1>2, <1>3 DEF Worlds
  <2> HIDE DEF c
  <2>4. [w.tmr EXCEPT ![t] = c] \in [TimerIds -> Timer]
    BY <1>2, <2>2
  <2>5. /\ v.list = l /\ v.wake = w.wake /\ v \in Worlds
        /\ v.tmr = [w.tmr EXCEPT ![t] = c]
    BY <2>3, <2>4, <1>4 DEF Worlds
  <2> QED BY <1>2, <2>2, <2>5
<1>6. ASSUME NEW k \in 1..Len(l) PROVE l[k] \in TimerIds \ {t}
  <2>1. l[k] \in TimerIds
    BY <1>4
  <2>2. l[k] # t
    BY <1>1, <1>2, <1>4 DEF Sound
  <2> QED BY <2>1, <2>2
<1>7. ASSUME NEW x \in TimerIds
      PROVE  v.tmr[x].sched <=> \E k \in 1..Len(l) : l[k] = x
  <2>1. CASE x = t
    BY <2>1, <1>5, <1>6
  <2>2. CASE x # t
    <3>1. ASSUME v.tmr[x].sched PROVE \E k \in 1..Len(l) : l[k] = x
      <4>1. PICK k \in 1..Len(w.list) : w.list[k] = x
        BY <2>2, <3>1, <1>5 DEF Sound
      <4>2. k # i
        BY <4>1, <2>2, <1>1
      <4>3. CASE k < i
        BY <4>1, <4>3, <1>1, <1>2, <1>4
      <4>4. CASE k > i
        <5>1. k - 1 \in 1..Len(l) /\ l[k - 1] = w.list[k]
          BY <4>4, <1>1, <1>2, <1>4
        <5> QED BY <4>1, <5>1
      <4> QED BY <1>1, <1>2, <4>2, <4>3, <4>4
    <3>2. ASSUME NEW k \in 1..Len(l), l[k] = x PROVE v.tmr[x].sched
      <4>1. \E h \in 1..Len(w.list) : w.list[h] = x
        BY <3>2, <1>1, <1>2, <1>4
      <4> QED BY <2>2, <4>1, <1>5 DEF Sound
    <3>3. v.tmr[x].sched \in BOOLEAN
      BY <1>5 DEF Worlds, Timer
    <3> QED BY <3>1, <3>2, <3>3
  <2> QED BY <2>1, <2>2
<1>8. ASSUME NEW j \in 1..Len(l), NEW k \in 1..Len(l), j < k
      PROVE  l[j] # l[k] /\ v.tmr[l[j]].next <= v.tmr[l[k]].next
  <2>1. PICK a \in 1..Len(w.list), b \in 1..Len(w.list) :
          a < b /\ l[j] = w.list[a] /\ l[k] = w.list[b]
    <3> DEFINE a == IF j < i THEN j ELSE j + 1
               b == IF k < i THEN k ELSE k + 1
    <3>1. a \in 1..Len(w.list) /\ b \in 1..Len(w.list) /\ a < b
      BY <1>1, <1>2, <1>4, <1>8
    <3>2. l[j] = w.list[a] /\ l[k] = w.list[b]
      BY <1>1, <1>2, <1>4, <1>8
    <3> QED BY <3>1, <3>2
  <2>2. v.tmr[l[j]] = w.tmr[l[j]] /\ v.tmr[l[k]] = w.tmr[l[k]]
    BY <1>5, <1>6
  <2> QED BY <2>1, <2>2 DEF Sound
<1>9. Sound(v)
  <2>1. \A x \in TimerIds : v.tmr[x].sched => v.tmr[x].interval # 0
    BY <1>5 DEF Sound
  <2> QED BY <2>1, <1>5, <1>7, <1>8 DEF Sound
<1>10. Rested(v, u)
  BY <1>5 DEF Rested
<1> QED BY <1>5, <1>9, <1>10 DEF v

(* The place of a timer: what is before it is due no later, what is after  *)
(* it is due later.                                                        *)
LEMMA PlaceSorted ==
    ASSUME NEW w \in Worlds, Sound(w), NEW t \in TimerIds
    PROVE  /\ Place(w, t) \in 1..(Len(w.list) + 1)
           /\ \A i \in 1..Len(w.list) :
                IF i < Place(w, t)
                THEN w.tmr[w.list[i]].next <= w.tmr[t].interval
                ELSE w.tmr[w.list[i]].next > w.tmr[t].interval
<1> DEFINE I == Later(w, w.tmr[t].interval)
           n == Place(w, t)
<1>1. w.list \in Seq(TimerIds) /\ Len(w.list) \in Nat
  BY DEF Worlds
<1>2. w.tmr[t].interval \in Nat /\ \A x \in TimerIds : w.tmr[x].next \in Int
  BY DEF Worlds, Timer
<1>3. \A i \in 1..Len(w.list) : w.list[i] \in TimerIds
  BY <1>1
<1>4. \A i \in 1..Len(w.list) :
        i \in I <=> w.tmr[w.list[i]].next > w.tmr[t].interval
  BY DEF Later
<1>5. I \in SUBSET Nat /\ I \subseteq 1..Len(w.list)
  BY DEF Later
<1>6. n = IF I = {} THEN Len(w.list) + 1 ELSE Min(I)
  BY DEF Place
<1> HIDE DEF I, n
<1>7. CASE I = {}
  BY <1>1, <1>2, <1>3, <1>4, <1>6, <1>7 DEF n
<1>8. CASE I # {}
  <2>1. n \in I /\ \A i \in I : n <= i
    BY <1>5, <1>6, <1>8, LeastExists
  <2>2. n \in 1..Len(w.list) /\ w.tmr[w.list[n]].next > w.tmr[t].interval
    BY <1>4, <1>5, <2>1
  <2>3. ASSUME NEW i \in 1..Len(w.list), i < n
        PROVE  w.tmr[w.list[i]].next <= w.tmr[t].interval
    BY <1>1, <1>2, <1>3, <1>4, <2>1, <2>2, <2>3
  <2>4. ASSUME NEW i \in 1..Len(w.list), ~(i < n)
        PROVE  w.tmr[w.list[i]].next > w.tmr[t].interval
    <3>1. i = n \/ n < i
      BY <1>1, <2>2, <2>4
    <3>2. w.tmr[w.list[n]].next <= w.tmr[w.list[i]].next
      BY <1>2, <1>3, <2>2, <3>1 DEF Sound
    <3> QED BY <1>2, <1>3, <2>2, <3>2
  <2> QED BY <1>1, <2>2, <2>3, <2>4 DEF n
<1> QED BY <1>7, <1>8

(* Putting a timer at its place (rd_kafka_timer_schedule()).               *)
LEMMA ScheduleSound ==
    ASSUME NEW w \in Worlds, Sound(w), NEW t \in TimerIds, ~w.tmr[t].sched,
           NEW u \in Nat, Rested(w, u), on \in BOOLEAN
    PROVE  LET v == Schedule(w, t)
           IN  v \in Worlds /\ Sound(v) /\ Rested(v, u)
<1>1. CASE w.tmr[t].interval = 0 \/ ~on
  BY <1>1 DEF Schedule
<1>2. CASE ~(w.tmr[t].interval = 0 \/ ~on)
  <2> DEFINE n == Place(w, t)
             l == InsertAt(w.list, n, t)
             d == w.tmr[t].interval
             c == [w.tmr[t] EXCEPT !.sched = TRUE, !.next = d]
             v == Schedule(w, t)
  <2>1. w.list \in Seq(TimerIds) /\ w.tmr \in [TimerIds -> Timer]
    BY DEF Worlds
  <2>2. /\ n \in 1..(Len(w.list) + 1)
        /\ \A i \in 1..Len(w.list) :
             IF i < n THEN w.tmr[w.list[i]].next <= d
             ELSE w.tmr[w.list[i]].next > d
    BY PlaceSorted
  <2>3. w.tmr[t] \in Timer /\ d \in Int /\ d # 0
    BY <1>2, <2>1 DEF Timer
  <2>5. c \in Timer /\ c.interval = d /\ c.sched = TRUE /\ c.next = d
    BY <2>3, TRUE \in BOOLEAN, TimerExcept, Zenon
  <2>6. v = [w EXCEPT !.list = l, !.tmr = [w.tmr EXCEPT ![t] = c],
                      !.wake = w.wake \/ n = 1]
    BY <1>2, <2>1 DEF Schedule, Worlds
  <2> HIDE DEF n, d, c, v
  <2>7. /\ l \in Seq(TimerIds) /\ Len(l) = Len(w.list) + 1
        /\ \A k \in 1..(Len(w.list) + 1) :
             l[k] = IF k < n THEN w.list[k]
                    ELSE IF k = n THEN t ELSE w.list[k - 1]
    BY <2>1, <2>2, InsertAtElements
  <2> HIDE DEF l
  <2>8. [w.tmr EXCEPT ![t] = c] \in [TimerIds -> Timer]
    BY <2>1, <2>5
  <2>9. (w.wake \/ n = 1) \in BOOLEAN
    OBVIOUS
  <2>10. /\ v \in Worlds /\ v.list = l /\ v.wake = (w.wake \/ n = 1)
         /\ v.tmr = [w.tmr EXCEPT ![t] = c]
    BY <2>6, <2>7, <2>8, <2>9 DEF Worlds
  <2>11. v.tmr[t] = c /\ \A x \in TimerIds \ {t} : v.tmr[x] = w.tmr[x]
    BY <2>1, <2>10
  <2>12. \A i \in 1..Len(w.list) : w.list[i] \in TimerIds \ {t}
    BY <2>1 DEF Sound
  <2>13. ASSUME NEW x \in TimerIds
         PROVE  v.tmr[x].sched <=> \E k \in 1..Len(l) : l[k] = x
    <3>1. CASE x = t
      <4>1. n \in 1..Len(l) /\ l[n] = t
        BY <2>1, <2>2, <2>7
      <4>2. v.tmr[t].sched = TRUE
        BY <2>5, <2>11
      <4> QED BY <3>1, <4>1, <4>2
    <3>2. CASE x # t
      <4>1. ASSUME NEW i \in 1..Len(w.list), w.list[i] = x
            PROVE  \E k \in 1..Len(l) : l[k] = x
        <5>1. CASE i < n
          <6>1. Len(w.list) \in Nat
            BY <2>1
          <6>2. i \in 1..Len(l) /\ l[i] = w.list[i]
            BY <5>1, <6>1, <2>7
          <6> QED BY <4>1, <6>2
        <5>2. CASE ~(i < n)
          <6>1. i + 1 \in 1..Len(l) /\ l[i + 1] = w.list[(i + 1) - 1]
            BY <5>2, <2>1, <2>2, <2>7
          <6> QED BY <4>1, <6>1
        <5> QED BY <5>1, <5>2
      <4>2. ASSUME NEW k \in 1..Len(l), l[k] = x
            PROVE  \E i \in 1..Len(w.list) : w.list[i] = x
        <5>1. k # n
          BY <3>2, <4>2, <2>2, <2>7
        <5> DEFINE i == IF k < n THEN k ELSE k - 1
        <5>2. i \in 1..Len(w.list) /\ l[k] = w.list[i]
          BY <5>1, <2>1, <2>2, <2>7
        <5> QED BY <4>2, <5>2
      <4>3. v.tmr[x].sched <=> \E i \in 1..Len(w.list) : w.list[i] = x
        BY <3>2, <2>11 DEF Sound
      <4> QED BY <4>1, <4>2, <4>3
    <3> QED BY <3>1, <3>2
  <2>14. \A x \in TimerIds : v.tmr[x].next \in Int
    BY <2>10 DEF Worlds, Timer
  <2>15. ASSUME NEW j \in 1..Len(l), NEW k \in 1..Len(l), j < k
         PROVE  l[j] # l[k] /\ v.tmr[l[j]].next <= v.tmr[l[k]].next
    <3> DEFINE a == IF j < n THEN j ELSE j - 1
               b == IF k < n THEN k ELSE k - 1
    <3>0. j \in Nat /\ k \in Nat /\ n \in Nat /\ Len(w.list) \in Nat
      BY <2>1, <2>2, <2>7
    <3>1. ASSUME j # n
          PROVE  /\ a \in 1..Len(w.list) /\ l[j] = w.list[a]
                 /\ v.tmr[l[j]] = w.tmr[w.list[a]]
      <4>1. a \in 1..Len(w.list) /\ l[j] = w.list[a]
        BY <3>0, <3>1, <2>2, <2>7
      <4> QED BY <4>1, <2>11, <2>12
    <3>2. ASSUME k # n
          PROVE  /\ b \in 1..Len(w.list) /\ l[k] = w.list[b]
                 /\ v.tmr[l[k]] = w.tmr[w.list[b]]
      <4>1. b \in 1..Len(w.list) /\ l[k] = w.list[b]
        BY <3>0, <3>2, <2>2, <2>7
      <4> QED BY <4>1, <2>11, <2>12
    <3>3. CASE j = n
      <4>1. k # n /\ ~(b < n)
        BY <3>3, <2>15, <2>1, <2>2, <2>7
      <4>2. l[j] = t /\ v.tmr[l[j]].next = d
        BY <3>3, <2>2, <2>5, <2>7, <2>11
      <4>3. l[k] # t /\ v.tmr[l[k]].next > d
        BY <3>2, <4>1, <2>2, <2>12
      <4>4. l[k] \in TimerIds
        BY <2>7
      <4> QED BY <4>2, <4>3, <4>4, <2>3, <2>14
    <3>4. CASE k = n
      <4>1. j # n /\ a < n
        BY <3>4, <2>15, <2>1, <2>2, <2>7
      <4>2. l[k] = t /\ v.tmr[l[k]].next = d
        BY <3>4, <2>2, <2>5, <2>7, <2>11
      <4>3. l[j] # t /\ v.tmr[l[j]].next <= d
        BY <3>1, <4>1, <2>2, <2>12
      <4> QED BY <4>2, <4>3
    <3>5. CASE j # n /\ k # n
      <4>1. a < b
        BY <3>5, <2>15, <2>1, <2>2, <2>7
      <4>2. /\ w.list[a] # w.list[b]
            /\ w.tmr[w.list[a]].next <= w.tmr[w.list[b]].next
        BY <3>1, <3>2, <3>5, <4>1 DEF Sound
      <4> QED BY <3>1, <3>2, <3>5, <4>2
    <3> QED BY <3>3, <3>4, <3>5
  <2>16. Sound(v)
    <3>1. \A x \in TimerIds : v.tmr[x].sched => v.tmr[x].interval # 0
      BY <2>3, <2>5, <2>11 DEF Sound
    <3>2. \A j, k \in 1..Len(v.list) :
            j < k => /\ v.list[j] # v.list[k]
                     /\ v.tmr[v.list[j]].next <= v.tmr[v.list[k]].next
      BY <2>10, <2>15
    <3>3. \A x \in TimerIds :
            v.tmr[x].sched <=> \E k \in 1..Len(v.list) : v.list[k] = x
      BY <2>10, <2>13
    <3> QED BY <3>1, <3>2, <3>3 DEF Sound
  <2>17. Rested(v, u)
    <3> SUFFICES ASSUME ~v.wake, NEW x \in TimerIds, v.tmr[x].sched
                 PROVE  v.tmr[x].next >= u \/ u = 0
      BY DEF Rested
    <3>1. ~w.wake /\ n # 1
      BY <2>10
    <3>2. CASE x # t
      BY <3>1, <3>2, <2>11 DEF Rested
    <3>3. CASE x = t
      <4>1. 1 \in 1..Len(w.list) /\ 1 < n
        BY <3>1, <2>1, <2>2
      <4>2. w.tmr[w.list[1]].next <= d /\ w.list[1] \in TimerIds
        BY <4>1, <2>1, <2>2
      <4>3. w.tmr[w.list[1]].sched
        BY <4>1, <4>2 DEF Sound
      <4>4. w.tmr[w.list[1]].next >= u \/ u = 0
        BY <3>1, <4>2, <4>3 DEF Rested
      <4>5. w.tmr[w.list[1]].next \in Int
        BY <4>2, <2>1 DEF Timer
      <4> QED BY <3>3, <4>2, <4>4, <4>5, <2>3, <2>5, <2>11
    <3> QED BY <3>2, <3>3
  <2> QED BY <2>10, <2>16, <2>17 DEF v
<1> QED BY <1>1, <1>2

(* A timer that is neither put on the list nor taken off it.               *)
LEMMA SameList ==
    ASSUME NEW w \in Worlds, Sound(w), NEW u \in Nat, Rested(w, u),
           NEW t \in TimerIds, NEW c \in Timer,
           c.sched = w.tmr[t].sched, c.next = w.tmr[t].next,
           c.sched => c.interval # 0
    PROVE  LET v == [w EXCEPT !.tmr = [w.tmr EXCEPT ![t] = c]]
           IN  /\ v \in Worlds /\ Sound(v) /\ Rested(v, u)
               /\ v.tmr[t].sched = w.tmr[t].sched
<1> DEFINE v == [w EXCEPT !.tmr = [w.tmr EXCEPT ![t] = c]]
<1>1. w.list \in Seq(TimerIds) /\ w.tmr \in [TimerIds -> Timer]
  BY DEF Worlds
<1>2. /\ v \in Worlds /\ v.list = w.list /\ v.wake = w.wake
      /\ v.tmr = [w.tmr EXCEPT ![t] = c]
  BY <1>1 DEF Worlds
<1> HIDE DEF v
<1>3. \A x \in TimerIds : v.tmr[x].next = w.tmr[x].next
  BY <1>1, <1>2
<1>4. \A x \in TimerIds : v.tmr[x].sched = w.tmr[x].sched
  BY <1>1, <1>2
<1>5. \A i \in 1..Len(w.list) : w.list[i] \in TimerIds
  BY <1>1
<1>6. \A x \in TimerIds : v.tmr[x].sched => v.tmr[x].interval # 0
  BY <1>1, <1>2 DEF Sound
<1>7. \A x \in TimerIds :
        v.tmr[x].sched <=> \E i \in 1..Len(v.list) : v.list[i] = x
  BY <1>2, <1>4 DEF Sound
<1>8. \A i, j \in 1..Len(v.list) :
        i < j => /\ v.list[i] # v.list[j]
                 /\ v.tmr[v.list[i]].next <= v.tmr[v.list[j]].next
  BY <1>2, <1>3, <1>5 DEF Sound
<1>9. Sound(v)
  BY <1>6, <1>7, <1>8 DEF Sound
<1>10. Rested(v, u)
  BY <1>2, <1>3, <1>4 DEF Rested
<1> QED BY <1>2, <1>4, <1>9, <1>10 DEF v

(* rd_kafka_timer_stop(): afterwards the timer is not scheduled.           *)
LEMMA StopSound ==
    ASSUME NEW w \in Worlds, Sound(w), NEW t \in TimerIds,
           NEW u \in Nat, Rested(w, u)
    PROVE  LET v == Stop(w, t)
           IN  v \in Worlds /\ Sound(v) /\ Rested(v, u) /\ ~v.tmr[t].sched
<1>1. CASE w.tmr[t].interval = 0
  BY <1>1 DEF Stop, Sound
<1>2. CASE w.tmr[t].interval # 0
  <2> DEFINE x == IF w.tmr[t].sched THEN Unschedule(w, t) ELSE w
             v == Stop(w, t)
  <2>1. /\ x \in Worlds /\ Sound(x) /\ Rested(x, u) /\ ~x.tmr[t].sched
    BY UnscheduleSound
  <2>2. v = [x EXCEPT !.tmr[t].interval = 0]
    BY <1>2 DEF Stop
  <2> HIDE DEF x, v
  <2> DEFINE c == [x.tmr[t] EXCEPT !.interval = 0]
  <2>3. x.tmr \in [TimerIds -> Timer]
    BY <2>1 DEF Worlds
  <2>4. c \in Timer /\ c.sched = x.tmr[t].sched /\ c.next = x.tmr[t].next
    BY <2>3 DEF Timer
  <2>5. v = [x EXCEPT !.tmr = [x.tmr EXCEPT ![t] = c]]
    BY <2>1, <2>2 DEF Worlds
  <2> HIDE DEF c
  <2>6. v \in Worlds /\ Sound(v) /\ Rested(v, u)
        /\ v.tmr[t].sched = x.tmr[t].sched
    BY <2>1, <2>4, <2>5, SameList
  <2> QED BY <2>1, <2>6 DEF v
<1> QED BY <1>1, <1>2

(* rd_kafka_timer_start0(), whether or not it restarts the timer.          *)
LEMMA StartSound ==
    ASSUME NEW w \in Worlds, Sound(w), NEW t \in TimerIds,
           NEW i \in Nat, NEW oneshot \in BOOLEAN, NEW restart \in BOOLEAN,
           NEW u \in Nat, Rested(w, u), on \in BOOLEAN
    PROVE  LET v == Start(w, t, i, oneshot, restart)
           IN  v \in Worlds /\ Sound(v) /\ Rested(v, u)
<1>1. CASE ~restart /\ w.tmr[t].sched
  BY <1>1 DEF Start
<1>2. CASE ~(~restart /\ w.tmr[t].sched)
  <2> DEFINE x == Stop(w, t)
             y == [x EXCEPT !.tmr[t].interval = i, !.tmr[t].oneshot = oneshot]
  <2>1. x \in Worlds /\ Sound(x) /\ Rested(x, u) /\ ~x.tmr[t].sched
    BY StopSound
  <2>2. Start(w, t, i, oneshot, restart) = Schedule(y, t)
    BY <1>2 DEF Start
  <2> HIDE DEF x
  <2> DEFINE c == [x.tmr[t] EXCEPT !.interval = i, !.oneshot = oneshot]
  <2>3. x.tmr \in [TimerIds -> Timer]
    BY <2>1 DEF Worlds
  <2>4. c \in Timer /\ c.sched = x.tmr[t].sched /\ c.next = x.tmr[t].next
    BY <2>3 DEF Timer
  <2>5. y = [x EXCEPT !.tmr = [x.tmr EXCEPT ![t] = c]]
    BY <2>1, <2>3 DEF Worlds
  <2> HIDE DEF c, y
  <2>6. /\ y \in Worlds /\ Sound(y) /\ Rested(y, u)
        /\ y.tmr[t].sched = x.tmr[t].sched
    BY <2>1, <2>4, <2>5, SameList
  <2> QED BY <2>1, <2>2, <2>6, ScheduleSound
<1> QED BY <1>1, <1>2

(* rd_kafka_timer_exp_backoff().                                           *)
LEMMA ExpBackoffSound ==
    ASSUME NEW w \in Worlds, Sound(w), NEW t \in TimerIds,
           NEW u \in Nat, Rested(w, u), on \in BOOLEAN
    PROVE  LET v == ExpBackoff(w, t)
           IN  v \in Worlds /\ Sound(v) /\ Rested(v, u)
<1>1. CASE ~w.tmr[t].sched
  BY <1>1, ScheduleSound DEF ExpBackoff
<1>2. CASE w.tmr[t].sched
  <2> DEFINE y == [w EXCEPT !.tmr[t].interval = 2 * @]
             z == Unschedule(y, t)
             c == [w.tmr[t] EXCEPT !.interval = 2 * @]
  <2>1. w.tmr \in [TimerIds -> Timer] /\ w.tmr[t] \in Timer
    BY DEF Worlds
  <2>2. ExpBackoff(w, t) = Schedule(z, t)
    BY <1>2 DEF ExpBackoff
  <2>3. c \in Timer /\ c.sched = w.tmr[t].sched /\ c.next = w.tmr[t].next
    BY <2>1 DEF Timer
  <2>4. c.interval # 0
    BY <1>2, <2>1 DEF Sound, Timer
  <2>5. y = [w EXCEPT !.tmr = [w.tmr EXCEPT ![t] = c]]
    BY <2>1 DEF Worlds
  <2> HIDE DEF c, y
  <2>6. y \in Worlds /\ Sound(y) /\ Rested(y, u)
        /\ y.tmr[t].sched = w.tmr[t].sched
    BY <2>3, <2>4, <2>5, SameList
  <2>7. z \in Worlds /\ Sound(z) /\ Rested(z, u) /\ ~z.tmr[t].sched
    BY <1>2, <2>6, UnscheduleSound
  <2> HIDE DEF z
  <2> QED BY <2>2, <2>7, ScheduleSound
<1> QED BY <1>1, <1>2

-----------------------------------------------------------------------------
(* The inductive invariant: what TimersSound says and the types.           *)
Inv == TypeOK /\ Listed /\ NoOversleep

(* How long the main thread sleeps: not at all when it does not.           *)
Rest == IF main.pc = "sleep" THEN main.until ELSE 0

(* What the invariant says of the timers as they are.                      *)
LEMMA NowSound ==
    ASSUME Inv
    PROVE  Now \in Worlds /\ Sound(Now) /\ Rest \in Nat /\ Rested(Now, Rest)
<1>1. Now \in Worlds /\ Rest \in Nat
  BY DEF Inv, TypeOK, Now, Worlds, Timer, Rest
<1>2. Now.tmr = tmr /\ Now.list = list /\ Now.wake = wake
  BY DEF Now
<1>3. list \in Seq(TimerIds) /\ DOMAIN list = 1..Len(list)
  BY DEF Inv, TypeOK
<1>4. \A t \in TimerIds : t \in ToSet(list) <=> \E i \in 1..Len(list) : list[i] = t
  BY <1>3 DEF ToSet
<1>5. Sound(Now)
  BY <1>2, <1>4 DEF Inv, Listed, Sound, Started
<1>6. Rested(Now, Rest)
  BY <1>2 DEF Inv, NoOversleep, Rested, Rest
<1> QED BY <1>1, <1>5, <1>6

(* A step that sets the timers to v keeps the invariant when v is sound.   *)
LEMMA SetSound ==
    ASSUME Inv, NEW v \in Worlds, Set(v), Sound(v),
           on' \in BOOLEAN, UNCHANGED main, Rested(v, Rest)
    PROVE  Inv'
<1>1. tmr' = v.tmr /\ list' = v.list /\ wake' = v.wake
  BY DEF Set
<1>2. list' \in Seq(TimerIds) /\ DOMAIN list' = 1..Len(list')
  BY <1>1 DEF Worlds
<1>3. \A t \in TimerIds :
        t \in ToSet(list') <=> \E i \in 1..Len(list') : list'[i] = t
  BY <1>2 DEF ToSet
<1>4. TypeOK'
  BY <1>1 DEF Inv, TypeOK, Worlds, Timer, Main
<1>5. Listed'
  BY <1>1, <1>3 DEF Listed, Sound, Started
<1>6. NoOversleep'
  BY <1>1 DEF NoOversleep, Rested, Rest
<1> QED BY <1>4, <1>5, <1>6 DEF Inv

(* The same when the main thread moves on and does not sleep.              *)
LEMMA SetAwake ==
    ASSUME Inv, NEW v \in Worlds, Set(v), Sound(v),
           on' \in BOOLEAN, main'.pc # "sleep",
           main' \in Main,
           main'.pc = "cb" => main'.cur \in TimerIds
    PROVE  Inv'
<1>1. tmr' = v.tmr /\ list' = v.list /\ wake' = v.wake
  BY DEF Set
<1>2. list' \in Seq(TimerIds) /\ DOMAIN list' = 1..Len(list')
  BY <1>1 DEF Worlds
<1>3. \A t \in TimerIds :
        t \in ToSet(list') <=> \E i \in 1..Len(list') : list'[i] = t
  BY <1>2 DEF ToSet
<1>4. TypeOK'
  BY <1>1 DEF Inv, TypeOK, Worlds, Timer, Main
<1>5. Listed'
  BY <1>1, <1>3 DEF Listed, Sound, Started
<1>6. NoOversleep'
  BY DEF NoOversleep
<1> QED BY <1>4, <1>5, <1>6 DEF Inv

(* A step of the main thread that leaves the timers alone.                 *)
LEMMA MainAwake ==
    ASSUME Inv, UNCHANGED <<tmr, list, on>>, wake' \in BOOLEAN,
           main'.pc # "sleep",
           main' \in Main,
           main'.pc = "cb" => main'.cur \in TimerIds
    PROVE  Inv'
BY DEF Inv, TypeOK, Listed, NoOversleep, Started, Main

(* rd_kafka_timers_init().                                                 *)
LEMMA InitInv == Init => Inv
<1> SUFFICES ASSUME Init PROVE Inv
  OBVIOUS
<1>1. list \in Seq(TimerIds) /\ Len(list) = 0 /\ ToSet(list) = {}
  BY DEF Init, ToSet
<1>2. TypeOK
  <2>1. tmr \in [TimerIds -> Timer]
    BY DEF Init, Timer
  <2>2. main \in Main /\ main.pc = "top"
    BY DEF Init, Main
  <2> QED BY <1>1, <2>1, <2>2 DEF Init, TypeOK, Timer, Main
<1>3. Listed
  BY <1>1 DEF Init, Listed, Started
<1>4. NoOversleep
  BY DEF Init, NoOversleep
<1> QED BY <1>2, <1>3, <1>4 DEF Inv

(* Every step of any thread keeps the invariant.                           *)
LEMMA NextInv ==
    ASSUME Inv, [Next]_vars
    PROVE  Inv'
<1>0. Now \in Worlds /\ Sound(Now) /\ Rest \in Nat /\ Rested(Now, Rest)
  BY NowSound
<1>t. /\ on \in BOOLEAN /\ wake \in BOOLEAN /\ list \in Seq(TimerIds)
      /\ main \in Main
      /\ main.pc = "cb" => main.cur \in TimerIds
      /\ tmr \in [TimerIds -> Timer]
  BY DEF Inv, TypeOK, Timer, Main
<1>n. Now.tmr = tmr /\ Now.list = list /\ Now.wake = wake
  BY DEF Now
<1>1. ASSUME NEW t \in TimerIds, NEW i \in Intervals, NEW o \in BOOLEAN,
             NEW r \in BOOLEAN, StartCall(t, i, o, r)
      PROVE  Inv'
  <2> DEFINE v == Start(Now, t, i, o, r)
  <2>1. v \in Worlds /\ Sound(v) /\ Rested(v, Rest)
    BY <1>0, <1>t, StartSound, TimersAssumption
  <2>2. Set(v) /\ UNCHANGED main /\ on' \in BOOLEAN
    BY <1>1, <1>t DEF StartCall, May
  <2> QED BY <2>1, <2>2, SetSound
<1>2. ASSUME NEW t \in TimerIds, StopCall(t) PROVE Inv'
  <2> DEFINE v == Stop(Now, t)
  <2>1. v \in Worlds /\ Sound(v) /\ Rested(v, Rest)
    BY <1>0, StopSound
  <2>2. Set(v) /\ UNCHANGED main /\ on' \in BOOLEAN
    BY <1>2, <1>t DEF StopCall, May
  <2> QED BY <2>1, <2>2, SetSound
<1>3. ASSUME NEW t \in TimerIds, BackoffCall(t) PROVE Inv'
  <2> DEFINE v == ExpBackoff(Now, t)
  <2>1. v \in Worlds /\ Sound(v) /\ Rested(v, Rest)
    BY <1>0, <1>t, ExpBackoffSound
  <2>2. Set(v) /\ UNCHANGED main /\ on' \in BOOLEAN
    BY <1>3, <1>t DEF BackoffCall, May
  <2> QED BY <2>1, <2>2, SetSound
<1>4. CASE TimersNext
  <2> DEFINE d == IF list = <<>> THEN Nap ELSE tmr[list[1]].next
             u == IF d < 0 THEN 0 ELSE IF d > Nap THEN Nap ELSE d
  <2>1. main' = [main EXCEPT !.pc = "sleep", !.until = u]
        /\ UNCHANGED <<tmr, list, on, wake>>
    BY <1>4 DEF TimersNext
  <2>2. list # <<>> => /\ 1 \in 1..Len(list) /\ list[1] \in TimerIds
                       /\ tmr[list[1]].next \in Int
    BY <1>t DEF Timer
  <2>3. u \in Nat /\ (u <= d \/ u = 0) /\ d \in Int
    BY <2>2, TimersAssumption
  <2>4. ASSUME NEW t \in TimerIds, tmr[t].sched
        PROVE  tmr[t].next >= d
    <3>1. PICK k \in 1..Len(list) : list[k] = t
      BY <1>0, <1>n, <2>4 DEF Sound
    <3>2. list # <<>> /\ (k = 1 \/ 1 < k)
      BY <1>t
    <3>3. tmr[list[1]].next <= tmr[list[k]].next
      BY <1>0, <1>n, <2>2, <3>2 DEF Sound
    <3> QED BY <2>2, <3>1, <3>2, <3>3
  <2>5. \A t \in TimerIds : tmr[t].next \in Int
    BY <1>t DEF Timer
  <2> HIDE DEF d, u
  <2>6. TypeOK'
    BY <2>1, <2>3, <1>t DEF TypeOK, Timer, Main
  <2>7. Listed'
    BY <2>1 DEF Inv, Listed, Started
  <2>8. main'.until = u
    BY <2>1, <1>t DEF Main
  <2>9. NoOversleep'
    BY <2>1, <2>3, <2>4, <2>5, <2>8 DEF NoOversleep
  <2> QED BY <2>6, <2>7, <2>9 DEF Inv
<1>5. CASE Serve
  <2>1. /\ main'.pc \in {"top", "run"} /\ UNCHANGED <<tmr, list, on>>
        /\ wake' = FALSE
        /\ main' \in Main
    BY <1>5, <1>t DEF Serve, Main
  <2> QED BY <2>1, MainAwake
<1>6. CASE Fire
  <2> DEFINE t == list[1]
             w == Unschedule(Now, t)
             v == IF tmr[t].oneshot THEN [w EXCEPT !.tmr[t].interval = 0] ELSE w
  <2>1. Set(v) /\ main' = [main EXCEPT !.pc = "cb", !.cur = t] /\ list # <<>>
    BY <1>6 DEF Fire, Main
  <2>2. t \in TimerIds /\ 1 \in 1..Len(list)
    BY <1>t, <2>1
  <2>3. Now.tmr[t].sched
    BY <1>0, <1>n, <2>2 DEF Sound
  <2> HIDE DEF t
  <2>4. w \in Worlds /\ Sound(w) /\ Rested(w, Rest) /\ ~w.tmr[t].sched
    BY <1>0, <2>2, <2>3, UnscheduleSound
  <2>5. v \in Worlds /\ Sound(v)
    <3> HIDE DEF w
    <3> DEFINE c == [w.tmr[t] EXCEPT !.interval = 0]
    <3>1. w.tmr \in [TimerIds -> Timer]
      BY <2>4 DEF Worlds
    <3>2. c \in Timer /\ c.sched = w.tmr[t].sched /\ c.next = w.tmr[t].next
      BY <2>2, <3>1 DEF Timer
    <3>3. [w EXCEPT !.tmr[t].interval = 0]
            = [w EXCEPT !.tmr = [w.tmr EXCEPT ![t] = c]]
      BY <2>2, <2>4, <3>1 DEF Worlds
    <3> HIDE DEF c
    <3>4. /\ [w EXCEPT !.tmr[t].interval = 0] \in Worlds
          /\ Sound([w EXCEPT !.tmr[t].interval = 0])
      BY <1>0, <2>2, <2>4, <3>2, <3>3, SameList
    <3> QED BY <2>4, <3>4
  <2>6. /\ on' \in BOOLEAN /\ main'.pc = "cb" /\ main'.cur = t
        /\ main' \in Main
    BY <1>6, <1>t, <2>1, <2>2 DEF Fire, Main
  <2> HIDE DEF v
  <2> QED BY <2>1, <2>2, <2>5, <2>6, SetAwake
<1>7. CASE CbReturns
  <2> DEFINE t == main.cur
             v == IF Started(t) /\ ~tmr[t].sched THEN Schedule(Now, t) ELSE Now
  <2>1. t \in TimerIds /\ main' = [main EXCEPT !.pc = "run", !.cur = NoTimer]
    BY <1>7, <1>t DEF CbReturns
  <2>2. Set(v)
    BY <1>7, <1>n DEF CbReturns, Set
  <2>3. v \in Worlds /\ Sound(v)
    BY <1>0, <1>t, <1>n, <2>1, ScheduleSound
  <2>4. /\ on' \in BOOLEAN /\ main'.pc = "run"
        /\ main' \in Main
    BY <1>7, <1>t, <2>1 DEF CbReturns, Main
  <2> HIDE DEF v
  <2> QED BY <2>2, <2>3, <2>4, SetAwake
<1>8. CASE RunEnds
  <2>1. /\ main'.pc = "top" /\ UNCHANGED <<tmr, list, on>> /\ wake' \in BOOLEAN
        /\ main' \in Main
    BY <1>8, <1>t, 0 \in Int, MainExcept DEF RunEnds
  <2> QED BY <2>1, MainAwake
<1>9. CASE Terminate
  BY <1>9 DEF Terminate, Inv, TypeOK, Listed, NoOversleep, Started
<1>10. CASE Destroy
  <2>1. /\ list' = <<>> /\ main'.pc = "end" /\ on' \in BOOLEAN /\ wake' = wake
        /\ main' \in Main
    BY <1>10, <1>t DEF Destroy, Main
  <2>2. ASSUME NEW t \in TimerIds
        PROVE  tmr'[t] \in Timer /\ tmr'[t].sched = FALSE
    <3> DEFINE c == [tmr[t] EXCEPT !.sched = FALSE, !.next = 0, !.interval = 0]
    <3>1. tmr'[t] = IF t \in ToSet(list) THEN c ELSE tmr[t]
      BY <1>10 DEF Destroy, Main
    <3>2. c \in Timer /\ c.sched = FALSE
      <4> DEFINE e == [tmr[t] EXCEPT !.sched = FALSE, !.next = 0]
      <4>1. e \in Timer /\ e.sched = FALSE
        <5>1. tmr[t] \in Timer
          BY <1>t
        <5> QED BY <5>1, 0 \in Int, FALSE \in BOOLEAN, TimerExcept, Zenon
      <4>2. c = [e EXCEPT !.interval = 0]
        BY <1>t DEF Timer
      <4> HIDE DEF e, c
      <4> QED BY <4>1, <4>2 DEF Timer
    <3>3. t \notin ToSet(list) => tmr[t].sched = FALSE
      BY <1>t DEF Inv, Listed, Timer
    <3>4. tmr[t] \in Timer
      BY <1>t
    <3> HIDE DEF c
    <3> QED BY <3>1, <3>2, <3>3, <3>4
  <2>3. tmr' \in [TimerIds -> Timer]
    <3>1. tmr' = [t \in TimerIds |-> tmr'[t]]
      BY <1>10 DEF Destroy, Main
    <3> QED BY <2>2, <3>1
  <2>4. TypeOK'
    BY <1>t, <2>1, <2>3 DEF TypeOK, Timer, Main
  <2>5. ToSet(list') = {} /\ Len(list') = 0
    BY <2>1 DEF ToSet
  <2>6. Listed'
    <3>1. \A t \in TimerIds : ~tmr'[t].sched
      BY <2>2
    <3>2. 1..Len(list') = {}
      BY <2>5
    <3> QED BY <2>5, <3>1, <3>2 DEF Listed
  <2>7. NoOversleep'
    BY <2>1 DEF NoOversleep
  <2> QED BY <2>4, <2>6, <2>7 DEF Inv
<1>11. CASE Tick
  <2>1. UNCHANGED <<list, on, wake>> /\ main'.pc = main.pc
        /\ main' \in Main
        /\ main'.cur = main.cur
        /\ main'.until = IF main.until > 0 THEN main.until - 1 ELSE 0
    <3> DEFINE u == IF main.until > 0 THEN main.until - 1 ELSE 0
               n == IF main.pc \in {"run", "cb"} THEN main.now - 1 ELSE 0
    <3>1. /\ main' = [main EXCEPT !.until = u, !.now = n]
          /\ UNCHANGED <<list, on, wake>>
      BY <1>11, <1>t DEF Tick, Main
    <3>2. u \in Nat /\ n \in Int
      BY <1>t DEF Main
    <3> HIDE DEF n
    <3> QED BY <1>t, <3>1, <3>2 DEF Main
  <2>2. ASSUME NEW t \in TimerIds
        PROVE  /\ tmr'[t] \in Timer /\ tmr'[t].sched = tmr[t].sched
               /\ tmr'[t].interval = tmr[t].interval
               /\ tmr[t].sched => tmr'[t].next = tmr[t].next - 1
    <3> DEFINE c == [tmr[t] EXCEPT !.next = @ - 1]
    <3>1. tmr[t] \in Timer
      BY <1>t
    <3>2. /\ c \in Timer /\ c.sched = tmr[t].sched
          /\ c.interval = tmr[t].interval /\ c.next = tmr[t].next - 1
      BY <3>1 DEF Timer
    <3>3. tmr'[t] = IF tmr[t].sched THEN c ELSE tmr[t]
      BY <1>11 DEF Tick
    <3> HIDE DEF c
    <3> QED BY <3>1, <3>2, <3>3
  <2>3. tmr' \in [TimerIds -> Timer]
    <3>1. tmr' = [t \in TimerIds |-> tmr'[t]]
      BY <1>11 DEF Tick
    <3> QED BY <2>2, <3>1
  <2>4. TypeOK'
    BY <1>t, <2>1, <2>3 DEF TypeOK, Timer, Main
  <2>5. \A t \in TimerIds : tmr[t].next \in Int
    BY <1>t DEF Timer
  <2>6. ASSUME NEW i \in 1..Len(list)
        PROVE  list[i] \in TimerIds /\ tmr[list[i]].sched
    BY <1>0, <1>n, <1>t DEF Sound
  <2>7. Listed'
    <3>1. \A t \in TimerIds : tmr'[t].sched <=> t \in ToSet(list')
      BY <2>1, <2>2 DEF Inv, Listed
    <3>2. \A t \in TimerIds : tmr'[t].sched => tmr'[t].interval # 0
      BY <2>2 DEF Inv, Listed, Started
    <3>3. ASSUME NEW i \in 1..Len(list), NEW j \in 1..Len(list), i < j
          PROVE  list[i] # list[j] /\ tmr'[list[i]].next <= tmr'[list[j]].next
      <4>1. list[i] # list[j] /\ tmr[list[i]].next <= tmr[list[j]].next
        BY <3>3 DEF Inv, Listed
      <4> QED BY <4>1, <2>2, <2>5, <2>6
    <3> QED BY <3>1, <3>2, <3>3, <2>1 DEF Listed, Started
  <2>8. NoOversleep'
    <3> SUFFICES ASSUME main'.pc = "sleep", ~wake', NEW t \in TimerIds,
                        tmr'[t].sched
                 PROVE  tmr'[t].next >= main'.until \/ main'.until = 0
      BY DEF NoOversleep
    <3>1. tmr[t].sched /\ tmr'[t].next = tmr[t].next - 1
      BY <2>2
    <3>2. tmr[t].next >= main.until \/ main.until = 0
      BY <2>1, <3>1 DEF Inv, NoOversleep
    <3> QED BY <1>t, <2>1, <2>5, <3>1, <3>2 DEF Main
  <2> QED BY <2>4, <2>7, <2>8 DEF Inv
<1>12. CASE UNCHANGED vars
  BY <1>12 DEF vars, Inv, TypeOK, Listed, NoOversleep, Started
<1> QED BY <1>1, <1>2, <1>3, <1>4, <1>5, <1>6, <1>7, <1>8, <1>9, <1>10, <1>11,
           <1>12 DEF Next, Done

(* Whoever starts, restarts, stops and backs off timers, and whatever      *)
(* happens while a callback runs without the lock: the list holds exactly  *)
(* the scheduled timers, once and in order, and the main thread, which     *)
(* looked at the list before it slept, never sleeps past a timer           *)
(* (rd_kafka_timer_schedule(), rd_kafka_timers_next()).                    *)
THEOREM TimersInOrder == Spec => []TimersSound
<1>1. Init => Inv
  BY InitInv
<1>2. Inv /\ [Next]_vars => Inv'
  BY NextInv
<1>3. Inv => TimersSound
  BY DEF Inv, TimersSound
<1> QED BY <1>1, <1>2, <1>3, PTL DEF Spec
=============================================================================
