------------------------------- MODULE Timers -------------------------------
(***************************************************************************)
(* The timers of a client (hs_rdkafka_timer.c) and the main thread that    *)
(* runs them (rd_kafka_thread_main). Any thread starts and stops a timer   *)
(* under the timers' lock; the main thread sleeps on its op queue until    *)
(* the first timer is due, and calls a timer's callback without the lock.  *)
(*                                                                         *)
(* Times are relative to now: Tick takes one from all of them.             *)
(***************************************************************************)
EXTENDS Integers, Sequences, FiniteSets, SequencesExt

CONSTANTS
    TimerIds,   \* the timers
    NoTimer,       \* no timer
    Intervals,  \* the intervals timers are started with
    Nap,        \* the longest sleep of the main thread (1 s)
    MaxLate,    \* bound on how late the main thread is
    MaxInterval,\* bound on the interval after rd_kafka_timer_exp_backoff()
    MaxCalls    \* bound on the calls to the timers

(* What the code passes: intervals in microseconds, a sleep of a second.   *)
ASSUME TimersAssumption == Intervals \subseteq Nat /\ Nap \in Nat

VARIABLES
    tmr,    \* the timers: interval (0: stopped), scheduled or not, next, oneshot
    list,   \* rkts_timers
    on,     \* rkts_enabled
    wake,   \* the yield flag of rkts_wakeq, the main thread's op queue
    main,   \* the main thread
    term,   \* the client is terminating
    owed,   \* the timers that are to fire (ghost)
    calls

vars == <<tmr, list, on, wake, main, term, owed, calls>>

Started(t) == tmr[t].interval # 0

-----------------------------------------------------------------------------
(* Under the lock, on w = [tmr, list, wake].                               *)

Unschedule(w, t) ==
    LET i == CHOOSE i \in 1..Len(w.list) : w.list[i] = t
    IN  [w EXCEPT !.list = RemoveAt(@, i),
                  !.tmr[t].sched = FALSE, !.tmr[t].next = 0]

(* The timers in the list that are due after a time.                       *)
Later(w, time) == {i \in 1..Len(w.list) : w.tmr[w.list[i]].next > time}

(* After the timers that are due before or with it.                        *)
Place(w, t) == LET I == Later(w, w.tmr[t].interval)
               IN  IF I = {} THEN Len(w.list) + 1 ELSE Min(I)

(* Mutant: a timer that is put first does not wake the main thread. *)
ScheduleSilent(w, t) ==
    IF w.tmr[t].interval = 0 \/ ~on THEN w
    ELSE [w EXCEPT !.tmr[t].sched = TRUE,
                   !.tmr[t].next = w.tmr[t].interval,
                   !.list = InsertAt(@, Place(w, t), t)]

(* The timer that comes first wakes the main thread. Nothing is scheduled  *)
(* when the timer is stopped or the timers are being destroyed.            *)
Schedule(w, t) ==
    IF w.tmr[t].interval = 0 \/ ~on THEN w
    ELSE [w EXCEPT !.tmr[t].sched = TRUE,
                   !.tmr[t].next = w.tmr[t].interval,
                   !.list = InsertAt(@, Place(w, t), t),
                   !.wake = @ \/ Place(w, t) = 1]

Stop(w, t) ==
    LET v == IF w.tmr[t].sched THEN Unschedule(w, t) ELSE w
    IN  IF w.tmr[t].interval = 0 THEN w
        ELSE [v EXCEPT !.tmr[t].interval = 0]

Start(w, t, i, oneshot, restart) ==
    IF ~restart /\ w.tmr[t].sched THEN w
    ELSE Schedule([Stop(w, t) EXCEPT !.tmr[t].interval = i,
                                     !.tmr[t].oneshot = oneshot], t)

ExpBackoff(w, t) ==
    Schedule(IF w.tmr[t].sched
             THEN Unschedule([w EXCEPT !.tmr[t].interval = 2 * @], t)
             ELSE w, t)

-----------------------------------------------------------------------------
(* The calls, of any thread, a callback's among them. A timer is backed    *)
(* off only in its own callback (hs_rdkafka_metadata.c:1227), when it is   *)
(* not scheduled: unless another thread has started it meanwhile, its      *)
(* interval stays what it is.                                              *)

Set(w) == tmr' = w.tmr /\ list' = w.list /\ wake' = w.wake
Now == [tmr |-> tmr, list |-> list, wake |-> wake]

May == /\ calls < MaxCalls /\ calls' = calls + 1 /\ main.pc # "end"
       /\ UNCHANGED <<on, main, term>>

StartCall(t, i, oneshot, restart) ==
    /\ May /\ Set(Start(Now, t, i, oneshot, restart))
    /\ owed' = IF tmr'[t].sched THEN owed \cup {t} ELSE owed

StopCall(t) == /\ May /\ Set(Stop(Now, t)) /\ owed' = owed \ {t}

BackoffCall(t) ==
    /\ main.pc = "cb" /\ main.cur = t /\ 2 * tmr[t].interval <= MaxInterval
    /\ May /\ Set(ExpBackoff(Now, t))
    /\ owed' = IF tmr'[t].sched THEN owed \cup {t} ELSE owed

-----------------------------------------------------------------------------
(* rd_kafka_thread_main(): how long to sleep, serve the op queue, run the  *)
(* timers.                                                                 *)

TimersNext ==
    /\ main.pc = "top"
    /\ LET d == IF list = <<>> THEN Nap ELSE tmr[list[1]].next
       IN  main' = [main EXCEPT !.pc = "sleep",
                                !.until = IF d < 0 THEN 0
                                          ELSE IF d > Nap THEN Nap ELSE d]
    /\ UNCHANGED <<tmr, list, on, wake, term, owed, calls>>

(* rd_kafka_q_serve() returns: a yield, the timeout, or an op (any time).  *)
Serve ==
    /\ main.pc = "sleep"
    /\ wake' = FALSE
    /\ main' = [main EXCEPT !.pc = IF term THEN "top" ELSE "run",
                            !.until = 0]
    /\ UNCHANGED <<tmr, list, on, term, owed, calls>>

(* rd_kafka_timers_run(): the first timer that is due when it began. The   *)
(* lock is released for the callback.                                      *)
Fire ==
    /\ main.pc = "run" /\ list # <<>>
    /\ LET t == list[1]
           w == Unschedule(Now, t)
       IN  /\ tmr[t].next <= main.now
           /\ Set(IF tmr[t].oneshot THEN [w EXCEPT !.tmr[t].interval = 0]
                  ELSE w)
           /\ main' = [main EXCEPT !.pc = "cb", !.cur = t]
           /\ owed' = owed \ {t}
    /\ UNCHANGED <<on, term, calls>>

(* A started timer is owed, whether the callback's caller puts it back or  *)
(* another start has.                                                      *)
CbReturns ==
    /\ main.pc = "cb"
    /\ LET t == main.cur
       IN  /\ IF Started(t) /\ ~tmr[t].sched THEN Set(Schedule(Now, t))
              ELSE UNCHANGED <<tmr, list, wake>>
           /\ owed' = IF Started(t) /\ on THEN owed \cup {t} ELSE owed
    /\ main' = [main EXCEPT !.pc = "run", !.cur = NoTimer]
    /\ UNCHANGED <<on, term, calls>>

RunEnds ==
    /\ main.pc = "run"
    /\ list # <<>> => tmr[list[1]].next > main.now
    /\ main' = [main EXCEPT !.pc = "top", !.now = 0]
    /\ UNCHANGED <<tmr, list, on, wake, term, owed, calls>>

Terminate ==
    /\ ~term /\ term' = TRUE
    /\ UNCHANGED <<tmr, list, on, wake, main, owed, calls>>

(* rd_kafka_timers_destroy(), once the main thread leaves its loop.        *)
Destroy ==
    /\ term /\ main.pc = "top"
    /\ main' = [main EXCEPT !.pc = "end"] /\ on' = FALSE
    /\ list' = <<>> /\ owed' = {}
    /\ tmr' = [t \in TimerIds |->
                 IF t \in ToSet(list)
                 THEN [tmr[t] EXCEPT !.sched = FALSE, !.next = 0,
                                     !.interval = 0]
                 ELSE tmr[t]]
    /\ UNCHANGED <<wake, term, calls>>

(* Time passes; the main thread is late by a bounded time.                 *)
Late == \/ \E t \in TimerIds : tmr[t].sched /\ tmr[t].next <= -MaxLate
        \/ main.now <= -MaxLate
Tick ==
    /\ ~Late /\ main.pc # "end"
    /\ tmr' = [t \in TimerIds |->
                 IF tmr[t].sched THEN [tmr[t] EXCEPT !.next = @ - 1]
                 ELSE tmr[t]]
    /\ main' = [main EXCEPT !.until = IF @ > 0 THEN @ - 1 ELSE 0,
                            !.now = IF main.pc \in {"run", "cb"}
                                    THEN @ - 1 ELSE 0]
    /\ UNCHANGED <<list, on, wake, term, owed, calls>>

Done == main.pc = "end" /\ UNCHANGED vars

-----------------------------------------------------------------------------
Init ==
    /\ tmr = [t \in TimerIds |-> [interval |-> 0, sched |-> FALSE,
                                  next |-> 0, oneshot |-> FALSE]]
    /\ list = <<>> /\ on = TRUE /\ wake = FALSE
    /\ main = [pc |-> "top", until |-> 0, now |-> 0, cur |-> NoTimer]
    /\ term = FALSE /\ owed = {} /\ calls = 0

MainStep == TimersNext \/ Fire \/ CbReturns \/ RunEnds \/ Destroy

(* The main thread may be woken at any time, but is only sure to be so by  *)
(* a yield and by its timeout.                                             *)
Woken == main.until = 0 \/ wake

Next ==
    \/ \E t \in TimerIds :
         \/ \E i \in Intervals, o, r \in BOOLEAN : StartCall(t, i, o, r)
         \/ StopCall(t) \/ BackoffCall(t)
    \/ TimersNext \/ Serve \/ Fire \/ CbReturns \/ RunEnds
    \/ Terminate \/ Destroy \/ Tick \/ Done

Spec == Init /\ [][Next]_vars

Fairness == WF_vars(MainStep) /\ WF_vars(Woken /\ Serve) /\ WF_vars(Tick)

LiveSpec == Spec /\ Fairness

-----------------------------------------------------------------------------
(* Properties.                                                             *)

TypeOK ==
    /\ tmr \in [TimerIds -> [interval : Nat, sched : BOOLEAN, next : Int,
                             oneshot : BOOLEAN]]
    /\ list \in Seq(TimerIds) /\ on \in BOOLEAN /\ wake \in BOOLEAN
    /\ main \in [pc : {"top", "sleep", "run", "cb", "end"}, until : Nat,
                 now : Int, cur : TimerIds \cup {NoTimer}]
    /\ main.pc = "cb" => main.cur \in TimerIds

(* The list holds exactly the scheduled timers, each once, in the order in *)
(* which they are due, whoever starts and stops a timer while its callback *)
(* runs without the lock; and a scheduled timer is a started one.          *)
Listed ==
    /\ \A t \in TimerIds : tmr[t].sched <=> t \in ToSet(list)
    /\ \A i, j \in 1..Len(list) :
         i < j => /\ list[i] # list[j]
                  /\ tmr[list[i]].next <= tmr[list[j]].next
    /\ \A t \in TimerIds : tmr[t].sched => Started(t)

(* The main thread does not sleep past a timer, one that was started after *)
(* it had looked how long to sleep included: it is woken for that one.     *)
NoOversleep ==
    main.pc = "sleep" /\ ~wake =>
        \A t \in TimerIds : tmr[t].sched => tmr[t].next >= main.until
                                            \/ main.until = 0

(* A timer that was started fires, unless it is stopped or the client      *)
(* terminates; a periodic one does so again and again.                     *)
Fires == \A t \in TimerIds : t \in owed ~> (t \notin owed \/ term)

(* The list of timers is exact and in order, and nobody sleeps past its    *)
(* first one (rd_kafka_timer_schedule(), rd_kafka_timers_run()).           *)
TimersSound == Listed /\ NoOversleep
=============================================================================
