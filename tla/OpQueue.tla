------------------------------ MODULE OpQueue -------------------------------
(***************************************************************************)
(* The op queues that join the threads of a client (hs_rdkafka_queue.h,    *)
(* hs_rdkafka_queue.c) and requests on them (hs_rdkafka_op.c). A queue has *)
(* a lock, a condition, references, perhaps a queue it forwards to, and a  *)
(* file descriptor that tells an application's own loop of its ops.        *)
(*                                                                         *)
(* Four threads: a producer of ops that holds Src, a consumer that polls   *)
(* Src or Dst, a controller that owns Src and forwards, yields and         *)
(* destroys it, and a requester that sends an op to Dst and waits for the  *)
(* answer on a queue Recv of its own. A step is what is done under a lock. *)
(***************************************************************************)
EXTENDS Integers, Sequences, FiniteSets, SequencesExt

CONSTANTS Src, Dst, Recv, Null, \* the queues, and none: model values
    OpCount,    \* the producer's ops are 1..OpCount
    High,       \* the ops with a priority
    MaxCtl      \* bound on the controller's calls

ASSUME OpQueueAssumption ==
    /\ Src # Dst /\ Recv \notin {Src, Dst} /\ Null \notin {Src, Dst, Recv}
    /\ OpCount \in Nat /\ MaxCtl \in Nat

VARIABLES
    s,      \* the queues; who was signalled; the ops destroyed
    prod,   \* the producer: its op, where it is and whether it holds that
    cons,   \* the consumer, with the ops rd_kafka_q_serve() has moved out
    req,    \* the requester
    ctl,    \* the controller: its calls, whether it has destroyed Src
    done,   \* ops handled, in order (ghost)
    mixed   \* ops were enqueued again or left behind a forward (ghost)

qvars == <<s, prod, cons, req, ctl, done, mixed>>

Queues == {Src, Dst, Recv}
Request == OpCount + 1
Ops == 1..Request

-----------------------------------------------------------------------------
(* Operations on the queues m of a state, under the lock of x.             *)

NewQ == [ops |-> <<>>, ready |-> TRUE, ref |-> 1, fwd |-> Null,
         yield |-> FALSE, io |-> FALSE, sent |-> FALSE, fd |-> FALSE]

Keep(m, x) == [m EXCEPT !.q[x].ref = @ + 1]

IoEvent(m, x) ==
    IF ~m.q[x].io \/ m.q[x].sent THEN m
    ELSE [m EXCEPT !.q[x].sent = TRUE, !.q[x].fd = TRUE]

MarkServed(m, x) == [m EXCEPT !.q[x].sent = FALSE]

Signal(m, x) == [m EXCEPT !.sig = @ \cup {x}]

(* Ops with a priority go before the first one without.                    *)
Low(o) == o \notin High
Leading(ops) == IF SelectInSeq(ops, Low) = 0 THEN Len(ops)
                ELSE SelectInSeq(ops, Low) - 1
InsertSorted(ops, new) ==
    SubSeq(ops, 1, Leading(ops)) \o new
      \o SubSeq(ops, Leading(ops) + 1, Len(ops))
Insert(ops, o, atHead) ==
    IF o \notin High THEN Append(ops, o)
    ELSE IF atHead THEN <<o>> \o ops ELSE InsertSorted(ops, <<o>>)

EnqHere(m, x, o, atHead) ==
    LET n == Signal([m EXCEPT !.q[x].ops = Insert(@, o, atHead)], x)
    IN  IF Len(n.q[x].ops) = 1 THEN IoEvent(n, x) ELSE n

(* The ops of y, which is not forwarded, go to x: those with a priority    *)
(* one after the other to their place, the others to the end.              *)
Concat(m, x, y) ==
    LET z == IF m.q[x].fwd # Null THEN m.q[x].fwd ELSE x
        ops == m.q[y].ops
        hi == Leading(ops)
        n == IF m.q[z].ops = <<>> THEN IoEvent(m, z) ELSE m
        k == [n EXCEPT !.q[z].ops = InsertSorted(@, SubSeq(ops, 1, hi))
                                      \o SubSeq(ops, hi + 1, Len(ops)),
                       !.q[y].ops = <<>>]
    IN  IF m.q[y].ops = <<>> \/ ~m.q[z].ready THEN m
        ELSE MarkServed(Signal(k, z), y)

(* Ops are destroyed; a request without an answer, but its reference to    *)
(* Recv is dropped.                                                        *)
Unref(m, x) == [m EXCEPT !.q[x].ref = @ - 1]
DropOps(m, x) ==
    LET n == MarkServed([m EXCEPT !.gone = @ \o m.q[x].ops,
                                  !.q[x].ops = <<>>], x)
    IN  IF x # Recv /\ Request \in ToSet(m.q[x].ops) THEN Unref(n, Recv)
        ELSE n

(* rd_kafka_q_destroy0() of a reference. With the last one the forward is  *)
(* dropped too, and so are the ops.                                        *)
Final(m, x) ==
    LET f == m.q[x].fwd
        n == DropOps([m EXCEPT !.q[x].ready = FALSE, !.q[x].fwd = Null], x)
    IN  IF f = Null THEN n ELSE Unref(n, f)
Release(m, x) ==
    LET n == Unref(m, x) IN IF n.q[x].ref = 0 THEN Final(n, x) ELSE n

FwdSet(m, x, y) ==
    LET f == m.q[x].fwd
        n == IF f = Null THEN m ELSE [Release(m, f) EXCEPT !.q[x].fwd = Null]
    IN  IF y = Null THEN n
        ELSE [Concat(Keep(n, y), y, x) EXCEPT !.q[x].fwd = y]

(* rd_kafka_q_destroy_owner(): disable, purge (where it forwards to),      *)
(* release.                                                                *)
DestroyOwner(m, x) ==
    LET n == [m EXCEPT !.q[x].ready = FALSE]
        f == IF m.q[x].fwd = Null THEN x ELSE m.q[x].fwd
    IN  Release(DropOps(n, f), x)

(* Prepend the ops in front of x.                                          *)
Prepend(m, x, ops) ==
    LET z == IF m.q[x].fwd # Null THEN m.q[x].fwd ELSE x
        n == IF m.q[z].ops = <<>> THEN IoEvent(m, z) ELSE m
    IN  [n EXCEPT !.q[z].ops = ops \o @]

-----------------------------------------------------------------------------
(* rd_kafka_q_enq1(): the whole of it, or through the forwarding queue,    *)
(* which is kept while no lock is held.                                    *)

EnqCall ==
    /\ prod.at = Null /\ prod.op < OpCount
    /\ prod' = [op |-> prod.op + 1, at |-> Src, held |-> FALSE]
    /\ UNCHANGED <<s, cons, req, ctl, done, mixed>>

(* Mutant: the forwarding queue is not kept. *)
EnqFwdUnkept(m, x) == m

EnqFwd(m, x) == Keep(m, m.q[x].fwd)

EnqStep ==
    /\ prod.at # Null
    /\ LET x == prod.at
           f == s.q[x].fwd
           Let(m) == IF prod.held THEN Release(m, x) ELSE m
       IN  \/ /\ ~s.q[x].ready
              /\ s' = Let([s EXCEPT !.gone = Append(@, prod.op)])
              /\ prod' = [prod EXCEPT !.at = Null, !.held = FALSE]
           \/ /\ s.q[x].ready /\ f = Null
              /\ s' = Let(EnqHere(s, x, prod.op, FALSE))
              /\ prod' = [prod EXCEPT !.at = Null, !.held = FALSE]
           \/ /\ s.q[x].ready /\ f # Null
              /\ s' = Let(EnqFwd(s, x))
              /\ prod' = [prod EXCEPT !.at = f, !.held = TRUE]
    /\ UNCHANGED <<cons, req, ctl, done, mixed>>

(* The producer ends and releases Src.                                     *)
ProdEnds ==
    /\ prod.at = Null /\ prod.op = OpCount
    /\ prod' = [prod EXCEPT !.op = OpCount + 1]
    /\ s' = Release(s, Src)
    /\ UNCHANGED <<cons, req, ctl, done, mixed>>

-----------------------------------------------------------------------------
(* The consumer: rd_kafka_q_pop_serve() ("pop") or rd_kafka_q_serve()      *)
(* ("serve") on its queue, blocking, or not and only when the descriptor   *)
(* of the queue is readable.                                               *)

PollCall(mode) ==
    /\ cons.pc = "idle"
    /\ s.q[cons.poll].io => s.q[cons.poll].fd \/ cons.more
    /\ s' = [s EXCEPT !.q[cons.poll].fd = FALSE]
    /\ cons' = [cons EXCEPT !.pc = "look", !.mode = mode, !.at = cons.poll,
                            !.held = FALSE]
    /\ UNCHANGED <<prod, req, ctl, done, mixed>>

(* Return: the reference to a forwarding queue is released. An event loop  *)
(* polls again until there is nothing more.                                *)
Back(m) == IF cons.held THEN Release(m, cons.at) ELSE m
Returns(more) == [cons EXCEPT !.pc = "idle", !.at = Null, !.more = more,
                              !.mode = "pop", !.held = FALSE]

Follow ==
    /\ cons.pc = "look" /\ s.q[cons.at].fwd # Null
    /\ s' = Back(Keep(s, s.q[cons.at].fwd))
    /\ cons' = [cons EXCEPT !.at = s.q[cons.at].fwd, !.held = TRUE]
    /\ UNCHANGED <<prod, req, ctl, done, mixed>>

(* Whether it looks for the first time or was woken: the forward is only   *)
(* looked at before the wait.                                              *)
Looks == \/ cons.pc = "look" /\ s.q[cons.at].fwd = Null
         \/ cons.pc = "wait" /\ cons.at \in s.sig
         \/ cons.pc = "retry"

Take ==
    /\ Looks /\ s.q[cons.at].ops # <<>>
    /\ LET x == cons.at
           m == MarkServed([s EXCEPT !.sig = @ \ {x}], x)
           n == IF cons.mode = "pop" THEN 1 ELSE Len(m.q[x].ops)
       IN  /\ s' = [m EXCEPT !.q[x].ops = SubSeq(@, n + 1, Len(@))]
           /\ cons' = [cons EXCEPT !.pc = "handle",
                                   !.local = SubSeq(m.q[x].ops, 1, n)]
    /\ UNCHANGED <<prod, req, ctl, done, mixed>>

(* Nothing: a yield ends the call, otherwise it waits; an event loop does  *)
(* not.                                                                    *)
Sleep ==
    /\ Looks /\ s.q[cons.at].ops = <<>>
    /\ LET x == cons.at
           m == MarkServed([s EXCEPT !.sig = @ \ {x}], x)
       IN  IF m.q[x].yield \/ m.q[cons.poll].io
           THEN /\ s' = Back([m EXCEPT !.q[x].yield = FALSE])
                /\ cons' = Returns(FALSE)
           ELSE s' = m /\ cons' = [cons EXCEPT !.pc = "wait"]
    /\ UNCHANGED <<prod, req, ctl, done, mixed>>

PollTimeout ==
    /\ cons.pc = "wait" /\ cons.at \notin s.sig
    /\ s' = Back(s) /\ cons' = Returns(FALSE)
    /\ UNCHANGED <<prod, req, ctl, done, mixed>>

(* rd_kafka_op_reply(): onto Recv unless that is disabled.                 *)
Reply(m) ==
    Release(IF m.q[Recv].ready THEN EnqHere(m, Recv, Request, FALSE)
            ELSE [m EXCEPT !.gone = Append(@, Request)], Recv)

(* Without the lock: the op is handled (a request is answered), and the    *)
(* call goes on, or it returns it (pop), or the application's callback     *)
(* yields. What it had moved out goes back to the front. The rest of a     *)
(* delivery report op is enqueued again, at the end unless it has a        *)
(* priority (here at most once).                                           *)
Reenq(m, o, rest) ==
    IF cons.mode = "serve" THEN Prepend(m, cons.at, Insert(rest, o, TRUE))
    ELSE LET x == cons.at
             z == IF m.q[x].fwd # Null THEN m.q[x].fwd ELSE x
         IN  EnqHere(m, z, o, TRUE)

HandleAgain ==
    /\ cons.pc = "handle" /\ ~mixed /\ mixed' = TRUE
    /\ Head(cons.local) # Request
    /\ s' = Back(Reenq(s, Head(cons.local), Tail(cons.local)))
    /\ cons' = [Returns(TRUE) EXCEPT !.local = <<>>]
    /\ UNCHANGED <<prod, req, ctl, done>>

Handle ==
    /\ cons.pc = "handle"
    /\ LET o == Head(cons.local)
           rest == Tail(cons.local)
           m == IF o = Request THEN Reply(s) ELSE s
           put == IF rest = <<>> THEN m ELSE Prepend(m, cons.at, rest)
       IN  /\ done' = Append(done, o)
           /\ \/ /\ s' = IF rest = <<>> /\ cons.mode = "serve" THEN Back(m)
                         ELSE m
                 /\ cons' = [(IF rest = <<>> /\ cons.mode = "serve"
                              THEN Returns(TRUE) ELSE cons) EXCEPT
                               !.local = rest,
                               !.pc = IF rest # <<>> THEN "handle"
                                      ELSE IF cons.mode = "pop" THEN "retry"
                                      ELSE "idle"]
              \/ /\ s' = Back(put)
                 /\ cons' = [Returns(TRUE) EXCEPT !.local = <<>>]
    /\ UNCHANGED <<prod, req, ctl, mixed>>

-----------------------------------------------------------------------------
(* The controller.                                                         *)

May == /\ ~ctl.dead /\ ctl.n < MaxCtl /\ ctl' = [ctl EXCEPT !.n = @ + 1]
       /\ UNCHANGED <<prod, cons, req, done>>

Forward == /\ May /\ s.q[Src].fwd = Null /\ s' = FwdSet(s, Src, Dst)
           /\ UNCHANGED mixed
Unforward == /\ May /\ s.q[Src].fwd # Null /\ s' = FwdSet(s, Src, Null)
             /\ mixed' = TRUE

(* rd_kafka_q_yield().                                                     *)
Yield ==
    /\ May
    /\ LET x == IF s.q[Src].fwd = Null THEN Src ELSE s.q[Src].fwd
           m == Signal([s EXCEPT !.q[x].yield = TRUE], x)
       IN  s' = IF ~s.q[Src].ready THEN s
                ELSE IF s.q[x].ops = <<>> THEN IoEvent(m, x) ELSE m
    /\ UNCHANGED mixed

DestroySrc ==
    /\ ~ctl.dead /\ ctl' = [ctl EXCEPT !.dead = TRUE] /\ cons.poll # Src
    /\ s' = DestroyOwner(s, Src)
    /\ UNCHANGED <<prod, cons, req, done, mixed>>

-----------------------------------------------------------------------------
(* rd_kafka_op_req(): the answer comes, or a timeout; Recv is destroyed.   *)

ReqSend ==
    /\ req = "idle" /\ s.q[Dst].ready
    /\ s' = EnqHere(Keep(s, Recv), Dst, Request, FALSE)
    /\ req' = "wait"
    /\ UNCHANGED <<prod, cons, ctl, done, mixed>>

ReqAnswer ==
    /\ req = "wait" /\ s.q[Recv].ops # <<>>
    /\ s' = DestroyOwner([s EXCEPT !.q[Recv].ops = <<>>], Recv)
    /\ req' = "answered"
    /\ UNCHANGED <<prod, cons, ctl, done, mixed>>

ReqTimeout ==
    /\ req = "wait"
    /\ s' = DestroyOwner(s, Recv)
    /\ req' = "timedout"
    /\ UNCHANGED <<prod, cons, ctl, done, mixed>>

-----------------------------------------------------------------------------
QueuesInit ==
    /\ \E x \in {Src, Dst}, io \in BOOLEAN :
         /\ s = [q |-> [y \in Queues |->
                          [NewQ EXCEPT !.ref = IF y = Src THEN 2 ELSE 1,
                                       !.io = io /\ y = x]],
                 sig |-> {}, gone |-> <<>>]
         /\ cons = [pc |-> "idle", mode |-> "pop", poll |-> x, at |-> Null,
                    held |-> FALSE, local |-> <<>>, more |-> FALSE]
    /\ prod = [op |-> 0, at |-> Null, held |-> FALSE]
    /\ req = "idle" /\ ctl = [n |-> 0, dead |-> FALSE]
    /\ done = <<>> /\ mixed = FALSE

QueuesNext ==
    \/ EnqCall \/ EnqStep \/ ProdEnds
    \/ PollCall("pop") \/ PollCall("serve") \/ Follow \/ Take \/ Sleep
    \/ PollTimeout \/ Handle \/ HandleAgain
    \/ Forward \/ Unforward \/ Yield \/ DestroySrc
    \/ ReqSend \/ ReqAnswer \/ ReqTimeout

QueuesSpec == QueuesInit /\ [][QueuesNext]_qvars

-----------------------------------------------------------------------------
(* Properties.                                                             *)

Times(ops, o) == Cardinality({i \in 1..Len(ops) : ops[i] = o})
Holders(x) ==
    CASE x = Src -> (IF ctl.dead THEN 0 ELSE 1)
                    + (IF prod.op > OpCount THEN 0 ELSE 1)
      [] x = Dst -> 1 + (IF s.q[Src].fwd = Dst THEN 1 ELSE 0)
                    + (IF prod.at = Dst THEN 1 ELSE 0)
                    + (IF cons.held /\ cons.at = Dst THEN 1 ELSE 0)
      [] x = Recv -> (IF req \in {"idle", "wait"} THEN 1 ELSE 0)
                     + (IF Request \in ToSet(s.q[Src].ops \o s.q[Dst].ops
                                                \o cons.local)
                        THEN 1 ELSE 0)

(* References are exact: a queue is not freed while a thread works on it,  *)
(* while another one forwards to it or a request is to be answered on it,  *)
(* and it is freed after that.                                             *)
RefsExact == \A x \in Queues : s.q[x].ref = Holders(x)

(* An op is in one place: in a queue, moved out by rd_kafka_q_serve(),     *)
(* handled or destroyed; never lost, never handled twice, across forwards, *)
(* yields and the destruction of the queue.                                *)
Conserved ==
    LET all == s.q[Src].ops \o s.q[Dst].ops \o cons.local \o s.gone \o done
    IN  \A o \in 1..OpCount :
          Times(all, o) = IF o < prod.op \/ (o = prod.op /\ prod.at = Null)
                          THEN 1 ELSE 0

(* A thread never sleeps on the condition of a queue that has an op or a   *)
(* yield for it, and an event loop never waits for a descriptor of such a  *)
(* queue that is not readable: rkq_qlen == 1 and the `sent` flag suppress  *)
(* no event that is needed. Except that a yield on an empty queue sets the *)
(* flag, and a poll of the queue while it is forwarded reads the event but *)
(* does not clear the flag: once the forward is taken off, the flag stays  *)
(* until the queue is polled for another reason.                           *)
NoLostWakeup ==
    /\ cons.pc = "wait" /\ (s.q[cons.at].ops # <<>> \/ s.q[cons.at].yield)
         => cons.at \in s.sig
    /\ cons.pc = "idle" /\ ~cons.more /\ s.q[cons.poll].io
         /\ s.q[cons.poll].ops # <<>>
         => s.q[cons.poll].fd \/ (s.q[cons.poll].sent /\ s.q[cons.poll].yield)

(* Ops without a priority are handled in the order in which they were      *)
(* enqueued, across a forward and what rd_kafka_q_serve() puts back;       *)
(* except those enqueued again and those left when a forward is taken off. *)
OrderKept ==
    ~mixed => \A i, j \in 1..Len(done) :
                i < j /\ Low(done[i]) /\ Low(done[j])
                  /\ {done[i], done[j]} \subseteq 1..OpCount
                => done[i] < done[j]

(* What the threads may rely on of the queues they share, as above         *)
(* (rd_kafka_q_enq1(), rd_kafka_q_serve(), rd_kafka_q_destroy0()).         *)
QueuesSound == RefsExact /\ Conserved /\ NoLostWakeup /\ OrderKept
=============================================================================
