------------------------------- MODULE Coord -------------------------------
(***************************************************************************)
(* Requests to coordinators (hs_rdkafka_coord.c).  A caller asks for the   *)
(* coordinator of a key and gives a callback that sends its request; the   *)
(* main thread looks the coordinator up in a cache, or with                *)
(* FindCoordinator, waits for a connection to it and calls the callback,   *)
(* or answers the caller with an error.  Nothing but a broker's going up,  *)
(* going down or failing to connect makes a waiting request try again.     *)
(***************************************************************************)
EXTENDS Integers, Sequences, FiniteSets, SequencesExt

CONSTANTS
    Brokers,     \* brokers, positive integers
    Keys,        \* coordinator keys
    Reqs,        \* the requests the application will make, as identities
    CacheRoom,   \* entries the cache holds before it drops one (11)
    Retries,     \* times a FindCoordinator request is retried
    CoordCases,  \* bounds: [reqs, flaps, moves, faults], how many requests,
                 \* lost connections, changes of coordinators and the cache,
                 \* and errors there may be
    MaxQueries   \* bound: FindCoordinator requests in flight

VARIABLES
    c,       \* the client: cache, creqs, FindCoordinator requests, counts
    net,     \* brokers that are up, brokers gone for good, monitor calls to serve
    coords,  \* the coordinator the cluster has for each key
    budget   \* what is left of the bounds

vars == <<c, net, coords, budget>>

NoBroker == 0
Free == [st |-> "new", key |-> "", ref |-> 0, done |-> FALSE, rkb |-> NoBroker,
         queried |-> FALSE, sent |-> 0, failed |-> 0, leaked |-> 0]

-----------------------------------------------------------------------------
(* The cache: most recently used first. *)
IndexOf(cache, k) == {i \in 1..Len(cache) : cache[i].key = k}
Lookup(cache, k) ==
    IF IndexOf(cache, k) = {} THEN NoBroker
    ELSE cache[CHOOSE i \in IndexOf(cache, k) : TRUE].rkb
CacheFind(cache, k) ==
    LET others == SelectSeq(cache, LAMBDA e : e.key # k)
    IN IF IndexOf(cache, k) = {} THEN cache
       ELSE <<[key |-> k, rkb |-> Lookup(cache, k), old |-> FALSE]>> \o others
CacheAdd(cache, k, b) ==
    LET kept == IF IndexOf(cache, k) = {} /\ Len(cache) >= CacheRoom
                THEN Front(cache) ELSE CacheFind(cache, k)
        others == SelectSeq(kept, LAMBDA e : e.key # k)
    IN <<[key |-> k, rkb |-> b, old |-> FALSE]>> \o others
(* Entries not used for cc_expire_thres are a tail of the list. *)
CacheExpire(cache) == SelectSeq(cache, LAMBDA e : ~e.old)
CacheEvict(cache, b) == SelectSeq(cache, LAMBDA e : e.rkb # b)

-----------------------------------------------------------------------------
(* Persistent connections: each waiting creq asks for one. *)
Wait(s, r, b) == [s EXCEPT !.req[r].rkb = b, !.persist[b] = @ + 1]
(* Mutant: the count of persistent connections is not given back. *)
UnwaitBare(s, r) == [s EXCEPT !.req[r].rkb = NoBroker]
Unwait(s, r) ==
    LET b == s.req[r].rkb
    IN IF b = NoBroker THEN s
       ELSE [s EXCEPT !.req[r].rkb = NoBroker, !.persist[b] = @ - 1]

(* rd_kafka_coord_req_destroy: done takes the creq off the list; the last  *)
(* reference releases the broker it waits for and frees it.                *)
Destroy(s, r, done) ==
    LET listed == IF done THEN [s EXCEPT !.req[r].done = TRUE] ELSE s
        less == [listed EXCEPT !.req[r].ref = @ - 1]
        bad == s.req[r].ref = 0 \/ (done /\ s.req[r].done)
    IN IF bad THEN [s EXCEPT !.bad = TRUE]
       ELSE IF less.req[r].ref > 0 THEN less
       ELSE [Unwait(less, r) EXCEPT !.req[r].st = "freed",
                                    !.bad = @ \/ ~less.req[r].done]
Keep(s, r) == [s EXCEPT !.req[r].ref = @ + 1]
Fail(s, r) == Destroy([s EXCEPT !.req[r].failed = @ + 1], r, TRUE)

(* rd_kafka_broker_any_usable and rd_kafka_FindCoordinatorRequest, which   *)
(* fails when the broker supports no version of it.  env is what the step  *)
(* meets: the brokers up, the one asked (via), whether send_req_cb or the  *)
(* query is refused, and whether a second has passed since the last query. *)
Query(s, r, env) ==
    CASE env.up = {} -> s
      [] env.up # {} /\ env.refused -> Destroy(Fail(Keep(s, r), r), r, FALSE)
      [] OTHER -> [Keep(s, r) EXCEPT !.finds =
            Append(@, [r |-> r, tries |-> Retries, ans |-> "none", at |-> NoBroker,
                       via |-> env.via])]

Ready(s, r, env) == Lookup(s.cache, s.req[r].key) \in env.up
Awaited(s, r) == s.req[r].rkb = Lookup(s.cache, s.req[r].key)

(* rd_kafka_coord_req_fsm *)
Send(s, r, env) ==
    LET free == Unwait(s, r)
    IN IF env.refused THEN Fail(free, r)
       ELSE Destroy([free EXCEPT !.req[r].sent = @ + 1], r, TRUE)
Fsm(s, r, env) ==
    LET q == s.req[r]
        b == Lookup(s.cache, q.key)
        found == [s EXCEPT !.cache = CacheFind(@, q.key)]
    IN CASE q.done -> s
         [] ~q.done /\ s.term -> Fail(s, r)
         [] OTHER ->
              IF b = NoBroker THEN Query(Unwait(s, r), r, env)
              ELSE IF Ready(s, r, env) THEN Send(found, r, env)
              ELSE IF ~Awaited(s, r) THEN Wait(Unwait(found, r), r, b)
              ELSE IF env.second \/ ~q.queried
              THEN Query([found EXCEPT !.req[r].queried = TRUE], r, env)
              ELSE found

(* The list is walked in the order the requests were made. *)
FsmAll(s, env) ==
    FoldLeft(LAMBDA x, r : IF x.req[r].st = "live" THEN Fsm(x, r, env) ELSE x,
             s, s.order)

Env(refused, second) ==
    [up : {net.up}, via : IF net.up = {} THEN {NoBroker} ELSE net.up,
     refused : {refused}, second : {second}]
Spend(refused) == /\ refused => budget.faults > 0
                  /\ budget' = [budget EXCEPT !.faults = @ - (IF refused THEN 1 ELSE 0)]

-----------------------------------------------------------------------------
(* rd_kafka_coord_req: a caller's request. *)
CoordReq ==
    /\ ~c.term
    /\ \E r \in Reqs, k \in Keys, refused \in BOOLEAN :
        /\ c.req[r].st = "new" /\ r <= budget.reqs /\ \A x \in Reqs : x < r => c.req[x].st # "new"
        /\ Spend(refused)
        /\ \E env \in Env(refused, TRUE) :
             c' = Fsm([c EXCEPT !.req[r] = [Free EXCEPT !.st = "live", !.key = k, !.ref = 1],
                                !.order = Append(@, r)], r, env)
    /\ UNCHANGED <<net, coords>>

(* The monitor callback, on the main thread, for one state change. *)
MonitorCbAt(second) ==
    /\ net.cbs > 0 /\ ~c.over
    /\ \E env \in Env(FALSE, second) : c' = FsmAll(c, env)
    /\ Len(c'.finds) <= MaxQueries
    /\ net' = [net EXCEPT !.cbs = @ - 1]
    /\ UNCHANGED <<coords, budget>>
MonitorCb == \E second \in BOOLEAN : MonitorCbAt(second)

(* A FindCoordinator request is answered by the cluster, or fails. *)
Answer(i) ==
    /\ c.finds[i].ans = "none"
    /\ \/ /\ c' = [c EXCEPT !.finds[i].ans = "ok", !.finds[i].at = coords[c.req[c.finds[i].r].key]]
          /\ UNCHANGED budget
       \/ /\ budget.faults > 0
          /\ \E e \in {"permanent", "retry"} :
                c' = [c EXCEPT !.finds[i].ans = e]
          /\ budget' = [budget EXCEPT !.faults = @ - 1]
    /\ UNCHANGED <<net, coords>>

Without(s, i) == [s EXCEPT !.finds = RemoveAt(@, i)]

(* rd_kafka_coord_req_handle_FindCoordinator.  A creq that is done drops   *)
(* its reference; a permanent error, and a retry that buf_retry refuses,   *)
(* return without dropping it.                                             *)
Handle(i) ==
    LET f == c.finds[i]  r == f.r
        s == Without(c, i)
        again == [c EXCEPT !.finds[i].ans = "none", !.finds[i].tries = @ - 1]
        leak == [s EXCEPT !.req[r].leaked = @ + 1]
        learned == [s EXCEPT !.cache = CacheAdd(@, s.req[r].key, f.at)]
    IN /\ f.ans # "none"
       /\ \E second, refused \in BOOLEAN : \E env \in Env(refused, second) :
            /\ refused => f.ans = "ok"
            /\ Spend(refused)
            /\ c' = CASE s.req[r].done \/ f.ans = "transport" -> Destroy(s, r, FALSE)
                      [] ~s.req[r].done /\ f.ans = "ok" ->
                           Destroy(Fsm(learned, r, env), r, FALSE)
                      [] ~s.req[r].done /\ f.ans = "permanent" -> Fail(leak, r)
                      [] ~s.req[r].done /\ f.ans = "retry" ->
                           IF f.tries > 0 /\ f.via \in net.up THEN again ELSE leak
       /\ UNCHANGED <<net, coords>>

-----------------------------------------------------------------------------
(* The 1 s timer expires entries; the transaction manager evicts a broker. *)
Ages == /\ \E i \in 1..Len(c.cache) : ~c.cache[i].old
        /\ c' = [c EXCEPT !.cache = [i \in DOMAIN @ |-> [@[i] EXCEPT !.old = TRUE]]]
        /\ budget.moves > 0 /\ budget' = [budget EXCEPT !.moves = @ - 1]
        /\ UNCHANGED <<net, coords>>
Expire == /\ \E i \in 1..Len(c.cache) : c.cache[i].old
          /\ c' = [c EXCEPT !.cache = CacheExpire(@)]
          /\ UNCHANGED <<net, coords, budget>>
Evict == /\ \E b \in Brokers :
              /\ \E i \in 1..Len(c.cache) : c.cache[i].rkb = b
              /\ c' = [c EXCEPT !.cache = CacheEvict(@, b)]
         /\ budget.moves > 0 /\ budget' = [budget EXCEPT !.moves = @ - 1]
         /\ UNCHANGED <<net, coords>>

(* Connections and the cluster: losing a connection fails what it carried. *)
BrokerUp(b) == /\ b \notin net.up \cup net.dead
               /\ net' = [net EXCEPT !.up = @ \cup {b}, !.cbs = @ + 1]
               /\ UNCHANGED <<c, coords, budget>>
BrokerDown(b) ==
    /\ b \in net.up /\ budget.flaps > 0
    /\ net' = [net EXCEPT !.up = @ \ {b}, !.cbs = @ + 1]
    /\ budget' = [budget EXCEPT !.flaps = @ - 1]
    /\ c' = [c EXCEPT !.finds = [i \in DOMAIN @ |->
                IF @[i].via = b /\ @[i].ans = "none" THEN [@[i] EXCEPT !.ans = "transport"]
                ELSE @[i]]]
    /\ UNCHANGED coords
(* An attempt to connect to a broker that a request waits for fails. *)
ConnectFails(b) == /\ b \notin net.up /\ c.persist[b] > 0 /\ net.cbs = 0
                   /\ net' = [net EXCEPT !.cbs = 1]
                   /\ UNCHANGED <<c, coords, budget>>
(* A broker that is down stays down, and the cluster replaces it. *)
Dies == /\ budget.flaps > 0 /\ net.dead = {}
        /\ \E b \in Brokers \ net.up : net' = [net EXCEPT !.dead = {b}]
        /\ budget' = [budget EXCEPT !.flaps = @ - 1]
        /\ UNCHANGED <<c, coords>>
Failover == /\ \E k \in Keys, b \in Brokers \ net.dead :
                 coords[k] \in net.dead /\ coords' = [coords EXCEPT ![k] = b]
            /\ UNCHANGED <<c, net, budget>>
Move == /\ budget.moves > 0
        /\ \E k \in Keys, b \in Brokers : coords' = [coords EXCEPT ![k] = b]
        /\ coords' # coords
        /\ budget' = [budget EXCEPT !.moves = @ - 1]
        /\ UNCHANGED <<c, net>>

(* rd_kafka_destroy marks the handle; its main thread leaves its loop,     *)
(* purges its queue and fails the requests that are left.                  *)
Terminate == /\ ~c.term /\ c' = [c EXCEPT !.term = TRUE]
             /\ UNCHANGED <<net, coords, budget>>
ReqsTerm ==
    /\ c.term /\ ~c.over
    /\ c' = [FoldLeft(LAMBDA s, r : IF s.req[r].st = "live" /\ ~s.req[r].done
                                    THEN Fail(s, r) ELSE s, c, c.order)
              EXCEPT !.over = TRUE, !.cache = <<>>]
    /\ net' = [net EXCEPT !.cbs = 0]
    /\ UNCHANGED <<coords, budget>>

-----------------------------------------------------------------------------
Init == /\ c = [req |-> [r \in Reqs |-> Free], order |-> <<>>, finds |-> <<>>,
                cache |-> <<>>, persist |-> [b \in Brokers |-> 0],
                term |-> FALSE, over |-> FALSE, bad |-> FALSE]
        /\ net \in [up : {{}, Brokers}, dead : {{}}, cbs : {0}]
        /\ coords \in [Keys -> Brokers]
        /\ budget \in CoordCases
Finds == 1..Len(c.finds)
Next == \/ CoordReq \/ MonitorCb \/ Ages \/ Expire \/ Evict \/ Move
        \/ \E i \in Finds : Answer(i) \/ Handle(i)
        \/ \E b \in Brokers : BrokerUp(b) \/ BrokerDown(b) \/ ConnectFails(b)
        \/ Dies \/ Failover
        \/ Terminate \/ ReqsTerm

(* The main thread serves its queue, brokers answer, and their threads go  *)
(* on connecting where a connection is asked for, one attempt a while      *)
(* after the other, so that a second passes again and again.               *)
Needed(b) == b \notin net.up /\ (c.persist[b] > 0 \/ net.up = {})
Fairness ==
    /\ []<>(net.cbs = 0 \/ c.over) \/ []<><<net'.cbs < net.cbs>>_vars
    /\ []<>(~c.term \/ c.over) \/ []<><<c'.over>>_vars
    /\ []<>(\A i \in Finds : c.finds[i].ans # "none")
         \/ []<><<\E i \in Finds : Answer(i)>>_vars
    /\ []<>(\A i \in Finds : c.finds[i].ans = "none")
         \/ []<><<\E i \in Finds : Handle(i)>>_vars
    /\ \A b \in Brokers :
         /\ []<>(~Needed(b) \/ b \in net.dead) \/ []<><<b \in net'.up>>_vars
         /\ []<>(~Needed(b) \/ b \notin net.dead \/ net.cbs > 0)
              \/ []<><<ConnectFails(b)>>_vars
    /\ <>[][net'.cbs >= net.cbs]_vars \/ []<><<MonitorCbAt(TRUE)>>_vars
    /\ WF_vars(Failover)
Spec == Init /\ [][Next]_vars /\ Fairness

-----------------------------------------------------------------------------
Live(r) == c.req[r].st = "live"

(* A creq's references are the list's and one for each FindCoordinator     *)
(* request in flight, no response reaches a freed creq, no assertion of    *)
(* rd_kafka_coord_req_destroy fails.                                       *)
RefsExact ==
    /\ ~c.bad
    /\ \A r \in Reqs : Live(r) =>
         c.req[r].ref = (IF c.req[r].done THEN 0 ELSE 1) + c.req[r].leaked
                        + Cardinality({i \in Finds : c.finds[i].r = r})
    /\ \A i \in Finds : Live(c.finds[i].r)

(* A caller's request is sent or failed, never both and never twice, by    *)
(* the time its creq leaves the list, whatever broadcasts and late         *)
(* FindCoordinator responses run the state machine again.                  *)
OneOutcome == \A r \in Reqs :
    c.req[r].sent + c.req[r].failed = IF c.req[r].done THEN 1 ELSE 0

(* The count of persistent connections that a broker keeps for             *)
(* coordinator requests is the number of creqs that wait for it.           *)
PersistExact == \A b \in Brokers :
    c.persist[b] = Cardinality({r \in Reqs : c.req[r].rkb = b})

(* Once the main thread is gone and the last response is handled nothing   *)
(* holds a broker, except for a reference that was never dropped.          *)
Released == c.over /\ c.finds = <<>> =>
    \A r \in Reqs : Live(r) => c.req[r].leaked > 0

(* Every request is sent or failed, though its coordinator be gone for     *)
(* good, unless its FindCoordinator request ran out of retries and so left *)
(* nothing to wait for.                                                    *)
Finishes == \A r \in Reqs :
    (Live(r) /\ ~c.req[r].done) ~> (c.req[r].done \/ c.req[r].leaked > 0)

(* A request to a coordinator has one outcome, and what was taken for it   *)
(* is given back (rd_kafka_coord_req_fsm(), rd_kafka_coord_req_destroy()). *)
RequestsExact == OneOutcome /\ RefsExact /\ PersistExact /\ Released
============================================================================
