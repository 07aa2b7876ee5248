--------------------------- MODULE ProducerProofs ---------------------------
(***************************************************************************)
(* Proofs about Producer, for every set of threads, pollers and messages,  *)
(* every size and every limit.                                             *)
(*                                                                         *)
(* The invariant is built in layers.  Ownership says who holds a message;  *)
(* the others (counting, anchors, headers, reports, flush) are invariant   *)
(* relative to it.                                                         *)
(***************************************************************************)
EXTENDS Producer, FiniteSetTheorems, TLAPS

(* The places are distinct, and one owner's are not another's.             *)
LEMMA PlacesDistinct ==
    /\ Msgq \in Places /\ Xmit \in Places /\ Inflight \in Places /\ Rep \in Places
    /\ Msgq # Xmit /\ Msgq # Inflight /\ Msgq # Rep
    /\ Xmit # Inflight /\ Xmit # Rep /\ Inflight # Rep
    /\ \A t \in Threads :
          /\ New(t) \in Places
          /\ New(t) \notin {Msgq, Xmit, Inflight, Rep}
          /\ \A u \in Threads : u # t => New(u) # New(t)
          /\ \A p \in Pollers : New(t) # Local(p) /\ New(t) # Called(p)
    /\ \A p \in Pollers :
          /\ Local(p) \in Places /\ Called(p) \in Places
          /\ Local(p) \notin {Msgq, Xmit, Inflight, Rep}
          /\ Called(p) \notin {Msgq, Xmit, Inflight, Rep}
          /\ \A q \in Pollers : /\ Local(p) # Called(q)
                                /\ p # q => Local(p) # Local(q) /\ Called(p) # Called(q)
  BY DEF Places, Msgq, Xmit, Inflight, Rep, New, Local, Called

(* What a move does to the places: it keeps them disjoint and keeps the    *)
(* set of live messages.                                                   *)
LEMMA MoveEffect ==
    ASSUME Shapes, Exclusive, NEW m, NEW x \in Places, NEW y \in Places,
           x # y, Move(m, x, y)
    PROVE  /\ m \in Msgs /\ m \in at[x]
           /\ at' \in [Places -> SUBSET Msgs]
           /\ \A z \in Places : at'[z] = IF z = x THEN at[x] \ {m}
                                         ELSE IF z = y THEN at[y] \cup {m} ELSE at[z]
           /\ Exclusive'
           /\ Live' = Live
  <1>1. m \in Msgs /\ m \in at[x]
    BY DEF Shapes, Move
  <1>2. at' \in [Places -> SUBSET Msgs]
    BY <1>1 DEF Shapes, Move
  <1>3. \A z \in Places : at'[z] = IF z = x THEN at[x] \ {m}
                                   ELSE IF z = y THEN at[y] \cup {m} ELSE at[z]
    BY <1>1 DEF Shapes, Move
  <1>4. Exclusive'
    BY <1>1, <1>3 DEF Exclusive
  <1>5. Live' = Live
    BY <1>1, <1>3 DEF Live
  <1> QED BY <1>1, <1>2, <1>3, <1>4, <1>5

(* What destroying a message does to them.                                 *)
LEMMA RemoveEffect ==
    ASSUME Shapes, Exclusive, NEW x \in Places, NEW m \in at[x],
           at' = [at EXCEPT ![x] = @ \ {m}]
    PROVE  /\ m \in Msgs
           /\ at' \in [Places -> SUBSET Msgs]
           /\ \A z \in Places : at'[z] = IF z = x THEN at[x] \ {m} ELSE at[z]
           /\ Exclusive'
           /\ m \in Live /\ Live' = Live \ {m}
  <1>1. m \in Msgs
    BY DEF Shapes
  <1>2. at' \in [Places -> SUBSET Msgs]
    BY DEF Shapes
  <1>3. \A z \in Places : at'[z] = IF z = x THEN at[x] \ {m} ELSE at[z]
    BY DEF Shapes
  <1>4. Exclusive'
    BY <1>3 DEF Exclusive
  <1>5. m \in Live /\ Live' = Live \ {m}
    BY <1>3 DEF Live, Exclusive
  <1> QED BY <1>1, <1>2, <1>3, <1>4, <1>5

(* What the move of all of rk_rep to a poller's local queue does to them.  *)
LEMMA ServeEffect ==
    ASSUME Shapes, Exclusive, NEW p \in Pollers, QServe(p)
    PROVE  /\ at' \in [Places -> SUBSET Msgs]
           /\ \A z \in Places : at'[z] = IF z = Rep THEN {}
                                         ELSE IF z = Local(p) THEN at[z] \cup at[Rep]
                                         ELSE at[z]
           /\ Exclusive'
           /\ Live' = Live
  <1> USE PlacesDistinct
  <1>2. at' \in [Places -> SUBSET Msgs]
    BY DEF Shapes, QServe
  <1>3. \A z \in Places : at'[z] = IF z = Rep THEN {}
                                   ELSE IF z = Local(p) THEN at[z] \cup at[Rep]
                                   ELSE at[z]
    BY DEF Shapes, QServe
  <1>4. Exclusive'
    BY <1>3 DEF Exclusive
  <1>5. Live' = Live
    BY <1>3 DEF Live
  <1> QED BY <1>2, <1>3, <1>4, <1>5

-----------------------------------------------------------------------------
(* Ownership.  A thread inside `bytes' has a message of its own, which is  *)
(* in librdkafka only between rd_kafka_msg_new0 and the partitioner, on    *)
(* that thread's hands, or after a successful partitioner, anywhere.       *)
Held ==
    /\ \A t \in Threads : pc[t] = "idle" <=> cur[t] = Nobody
    /\ \A t \in Threads : cur[t] \notin todo
    /\ \A t, u \in Threads : t # u /\ cur[t] = cur[u] => cur[t] = Nobody
    /\ \A t \in Threads : pc[t] = "partition" => cur[t] \in at[New(t)]
    /\ \A t \in Threads : \A m \in at[New(t)] : pc[t] = "partition" /\ m = cur[t]
    /\ \A t \in Threads, x \in Places :
          cur[t] \in at[x] => pc[t] = "ok" \/ x = New(t)
    /\ \A x \in Places : at[x] \cap todo = {}

Own == Shapes /\ Exclusive /\ Held

(* The places a message is in once a partition has it.                     *)
Shared == Places \ {New(t) : t \in Threads}

(* The places a message can be freed from are not a producing thread's.    *)
LEMMA SharedPlaces ==
    /\ Msgq \in Shared /\ Xmit \in Shared /\ Inflight \in Shared /\ Rep \in Shared
    /\ \A p \in Pollers : Local(p) \in Shared /\ Called(p) \in Shared
  BY PlacesDistinct DEF Shared

PCs == {"idle", "check", "add", "wait", "partition", "ok", "full", "error"}

(* A broadcast only moves threads from `wait' to `add'.                    *)
LEMMA WokenEffect ==
    ASSUME NEW f \in [Threads -> PCs], NEW m
    PROVE  /\ Woken(f, m) \in [Threads -> PCs]
           /\ \A t \in Threads : \/ Woken(f, m)[t] = f[t]
                                \/ (f[t] = "wait" /\ Woken(f, m)[t] = "add")
  BY DEF Woken, PCs

(* Moving a message between two shared places keeps ownership.             *)
LEMMA RelocateOwn ==
    ASSUME Own, NEW m, NEW x \in Shared, NEW y \in Shared, x # y, Move(m, x, y),
           UNCHANGED <<pc, cur, todo>>
    PROVE  at' \in [Places -> SUBSET Msgs] /\ Exclusive' /\ Held'
  <1>1. x \in Places /\ y \in Places /\ Shapes /\ Exclusive
    BY DEF Shared, Own
  <1>2. /\ m \in at[x]
        /\ at' \in [Places -> SUBSET Msgs]
        /\ \A z \in Places : at'[z] = IF z = x THEN at[x] \ {m}
                                      ELSE IF z = y THEN at[y] \cup {m} ELSE at[z]
        /\ Exclusive'
    BY <1>1, MoveEffect DEF Move
  <1>3. \A t \in Threads : at'[New(t)] = at[New(t)] /\ New(t) # x /\ New(t) # y
    BY <1>2, PlacesDistinct DEF Shared
  <1>4. Held'
    BY <1>1, <1>2, <1>3 DEF Own, Held
  <1> QED BY <1>2, <1>4

(* rd_kafka_msg_destroy from a shared place keeps ownership.               *)
LEMMA DestroyOwn ==
    ASSUME Own, NEW x \in Shared, NEW m, MsgDestroy(m, x), UNCHANGED <<cur, todo>>
    PROVE  /\ at' \in [Places -> SUBSET Msgs] /\ Exclusive' /\ Held'
           /\ m \in Msgs /\ m \in at[x] /\ Live' = Live \ {m}
           /\ cnt' \in Int /\ size' \in Int /\ pc' \in [Threads -> PCs]
           /\ hdrs' \in [Msgs -> {"null", "live", "freed"}]
           /\ bad' \subseteq {"null_headers", "headers_freed_twice", "stale_stableptr"}
  <1>1. x \in Places
    BY DEF Shared
  <1>2. m \in at[x] /\ at' = [at EXCEPT ![x] = @ \ {m}]
    BY DEF MsgDestroy
  <1>3. /\ m \in Msgs
        /\ at' \in [Places -> SUBSET Msgs]
        /\ \A z \in Places : at'[z] = IF z = x THEN at[x] \ {m} ELSE at[z]
        /\ Exclusive'
        /\ Live' = Live \ {m}
    BY <1>1, <1>2, RemoveEffect DEF Own
  <1>4. pc \in [Threads -> PCs]
    BY DEF Own, Shapes, PCs
  <1>5. /\ pc' \in [Threads -> PCs]
        /\ \A t \in Threads : pc'[t] = pc[t] \/ (pc[t] = "wait" /\ pc'[t] = "add")
    BY <1>4, WokenEffect DEF MsgDestroy
  <1>6. \A t \in Threads : at'[New(t)] = at[New(t)] /\ New(t) # x
    BY <1>3, PlacesDistinct DEF Shared
  <1>7. Held'
    BY <1>1, <1>3, <1>5, <1>6 DEF Own, Held
  <1>8. cnt' \in Int /\ size' \in Int
    BY <1>3, ProducerAssumption DEF MsgDestroy, CurrMsgsSub, Own, Shapes
  <1>9. /\ hdrs' \in [Msgs -> {"null", "live", "freed"}]
        /\ bad' \subseteq {"null_headers", "headers_freed_twice", "stale_stableptr"}
    BY <1>3 DEF MsgDestroy, HeadersDestroy, Own, Shapes
  <1> QED BY <1>2, <1>3, <1>5, <1>7, <1>8, <1>9

(* rd_kafka_dr_msgq, whether it reports or destroys, keeps ownership.      *)
LEMMA DrMsgqOwn ==
    ASSUME Own, NEW x \in {Msgq, Xmit, Inflight}, NEW m, NEW err \in BOOLEAN,
           DrMsgq(m, x, err), UNCHANGED <<cur, todo>>
    PROVE  /\ at' \in [Places -> SUBSET Msgs] /\ Exclusive' /\ Held'
           /\ cnt' \in Int /\ size' \in Int /\ pc' \in [Threads -> PCs]
           /\ hdrs' \in [Msgs -> {"null", "live", "freed"}]
           /\ bad' \subseteq {"null_headers", "headers_freed_twice", "stale_stableptr"}
  <1>1. x \in Shared /\ Rep \in Shared /\ x # Rep
    BY SharedPlaces, PlacesDistinct
  <1>2. CASE Move(m, x, Rep) /\ UNCHANGED <<curr, pc, hdrs, bad>>
    BY <1>1, <1>2, RelocateOwn DEF curr, Own, Shapes, PCs
  <1>3. CASE MsgDestroy(m, x)
    BY <1>1, <1>3, DestroyOwn
  <1> QED BY <1>2, <1>3 DEF DrMsgq
(* Nobody owns anything when the client is created.                        *)
LEMMA OwnInit == Init => Own
  <1> SUFFICES ASSUME Init PROVE Own
    OBVIOUS
  <1>1. Shapes
    <2>1. flush \in [at : {"idle", "poll", "serve", "cnt", "ok", "timed_out"},
                    qlen : BOOLEAN, pending : SUBSET Msgs, by : Pollers \cup {Nobody}]
      BY DEF Init, FlushIdle
    <2>2. hdrs \in [Msgs -> {"null", "live", "freed"}]
      BY DEF Init
    <2>3. /\ at \in [Places -> SUBSET Msgs]
          /\ pc \in [Threads -> PCs] /\ cur \in [Threads -> Msgs \cup {Nobody}]
          /\ again \in [Threads -> BOOLEAN]
      BY DEF Init, PCs
    <2>4. cnt \in Int /\ size \in Int
      BY DEF Init
    <2>6. /\ fatal \in BOOLEAN /\ repOpen \in BOOLEAN
          /\ term \in {"up", "remove_topics", "purge_rep", "join_brokers", "closed"}
      BY Zenon DEF Init
    <2>5. /\ anchored \subseteq Msgs /\ opaque \subseteq Msgs
          /\ noncopy \subseteq Msgs /\ rkmHdrs \subseteq Msgs
          /\ bad \subseteq {"null_headers", "headers_freed_twice", "stale_stableptr"}
          /\ todo \subseteq Msgs /\ accepted \subseteq Msgs /\ reported \subseteq Msgs
      BY DEF Init
    <2> QED BY <2>1, <2>2, <2>3, <2>4, <2>5, <2>6 DEF Shapes, PCs
  <1>2. Exclusive
    BY DEF Init, Exclusive
  <1>3. Held
    BY PlacesDistinct, ProducerAssumption DEF Init, Held
  <1> QED BY <1>1, <1>2, <1>3 DEF Own

(* Ownership is inductive.                                                 *)
LEMMA OwnStep == Own /\ [Next]_vars => Own'
  <1> SUFFICES ASSUME Own, [Next]_vars PROVE Own'
    OBVIOUS
  <1>0. Shapes /\ Exclusive /\ Held
    BY DEF Own
  <1> USE ProducerAssumption
  <1>1. ASSUME NEW t \in Threads, NEW m \in Msgs, Bytes(t, m) PROVE Own'
    <2>1. Shapes'
      BY <1>0, <1>1 DEF Bytes, Shapes, curr, rkmVars
    <2>2. Exclusive' /\ Held'
      BY <1>0, <1>1 DEF Bytes, Shapes, Exclusive, Held
    <2> QED BY <2>1, <2>2 DEF Own
  <1>2. ASSUME NEW t \in Threads, CheckProduce(t) PROVE Own'
    <2>1. Shapes'
      BY <1>0, <1>2 DEF CheckProduce, Shapes, Held, curr, rkmVars
    <2>2. Exclusive' /\ Held'
      BY <1>0, <1>2 DEF CheckProduce, Shapes, Exclusive, Held
    <2> QED BY <2>1, <2>2 DEF Own
  <1>3. ASSUME NEW t \in Threads, CurrMsgsFull(t) PROVE Own'
    <2>1. Shapes'
      BY <1>0, <1>3 DEF CurrMsgsFull, Shapes, Held, curr, rkmVars
    <2>2. Exclusive' /\ Held'
      BY <1>0, <1>3 DEF CurrMsgsFull, Shapes, Exclusive, Held
    <2> QED BY <2>1, <2>2 DEF Own
  <1>4. ASSUME NEW t \in Threads, SpuriousWakeup(t) PROVE Own'
    <2>1. Shapes'
      BY <1>0, <1>4 DEF SpuriousWakeup, Shapes, Held, curr, rkmVars
    <2>2. Exclusive' /\ Held'
      BY <1>0, <1>4 DEF SpuriousWakeup, Shapes, Exclusive, Held
    <2> QED BY <2>1, <2>2 DEF Own
  <1>5. ASSUME NEW t \in Threads, ReturnOk(t) PROVE Own'
    <2>1. Shapes'
      BY <1>0, <1>5 DEF ReturnOk, Shapes, Held, curr, rkmVars
    <2>2. Exclusive' /\ Held'
      BY <1>0, <1>5 DEF ReturnOk, Shapes, Exclusive, Held
    <2> QED BY <2>1, <2>2 DEF Own
  <1>6. ASSUME NEW t \in Threads, ProduceBytesBlocking(t) PROVE Own'
    <2>1. Shapes'
      BY <1>0, <1>6 DEF ProduceBytesBlocking, Shapes, Held, curr, rkmVars
    <2>2. Exclusive' /\ Held'
      BY <1>0, <1>6 DEF ProduceBytesBlocking, Shapes, Exclusive, Held
    <2> QED BY <2>1, <2>2 DEF Own
  <1>7. ASSUME NEW t \in Threads, FinishWithError(t) PROVE Own'
    <2>1. Shapes'
      BY <1>0, <1>7 DEF FinishWithError, Shapes, Held, curr, rkmVars, HeadersDestroy
    <2>2. Exclusive' /\ Held'
      BY <1>0, <1>7 DEF FinishWithError, Shapes, Exclusive, Held
    <2> QED BY <2>1, <2>2 DEF Own
  <1>8. ASSUME NEW t \in Threads, MsgNew(t) PROVE Own'
    <2>0. PICK m \in Msgs : m = cur[t]
      BY <1>0, <1>8 DEF MsgNew, Shapes, Held
    <2>1. /\ m = cur[t] /\ pc[t] = "add" /\ pc' = [pc EXCEPT ![t] = "partition"]
          /\ at' = [at EXCEPT ![New(t)] = @ \cup {m}]
          /\ UNCHANGED <<cur, todo>>
      BY <2>0, <1>8 DEF MsgNew
    <2>2. /\ at' \in [Places -> SUBSET Msgs]
          /\ \A z \in Places : at'[z] = IF z = New(t) THEN at[z] \cup {m} ELSE at[z]
          /\ \A z \in Places : m \notin at[z]
      <3>1. New(t) \in Places
        BY PlacesDistinct
      <3>2. /\ at' \in [Places -> SUBSET Msgs]
            /\ \A z \in Places : at'[z] = IF z = New(t) THEN at[z] \cup {m} ELSE at[z]
        BY <1>0, <2>1, <3>1 DEF Shapes
      <3>3. \A z \in Places : m \notin at[z]
        BY <1>0, <2>1, <3>1 DEF Held
      <3> QED BY <3>2, <3>3
    <2>3. Shapes'
      BY <1>0, <2>0, <2>1, <2>2, <1>8 DEF MsgNew, Shapes
    <2>4. Exclusive'
      BY <1>0, <2>2 DEF Exclusive
    <2>5. Held'
      BY <1>0, <2>1, <2>2, PlacesDistinct DEF Shapes, Held
    <2> QED BY <2>3, <2>4, <2>5 DEF Own
  <1>9. ASSUME NEW t \in Threads, Partition(t) PROVE Own'
    <2>0. PICK m \in Msgs : m = cur[t]
      BY <1>0, <1>9 DEF Partition, Shapes, Held
    <2>1. /\ m = cur[t] /\ pc[t] = "partition" /\ pc' = [pc EXCEPT ![t] = "ok"]
          /\ Move(m, New(t), Msgq)
          /\ UNCHANGED <<cur, todo>>
      BY <2>0, <1>9 DEF Partition
    <2>2. /\ at' \in [Places -> SUBSET Msgs]
          /\ \A z \in Places : at'[z] = IF z = New(t) THEN at[New(t)] \ {m}
                                ELSE IF z = Msgq THEN at[Msgq] \cup {m} ELSE at[z]
          /\ Exclusive'
      <3>1. New(t) \in Places /\ Msgq \in Places /\ New(t) # Msgq
        BY PlacesDistinct
      <3> QED BY <1>0, <2>1, <3>1, MoveEffect DEF Move
    <2>3. Shapes'
      BY <1>0, <2>1, <2>2, <1>9 DEF Partition, Shapes, curr, rkmVars
    <2>5. Held'
      BY <1>0, <2>1, <2>2, PlacesDistinct DEF Shapes, Held
    <2> QED BY <2>2, <2>3, <2>5 DEF Own
  <1>10. ASSUME NEW t \in Threads, PartitionFails(t) PROVE Own'
    <2>0. PICK m \in Msgs : m = cur[t]
      BY <1>0, <1>10 DEF PartitionFails, Shapes, Held
    <2>1. /\ m = cur[t] /\ m \in at[New(t)] /\ pc[t] = "partition"
          /\ at' = [at EXCEPT ![New(t)] = @ \ {m}]
          /\ UNCHANGED <<cur, todo>>
      BY <2>0, <1>10 DEF PartitionFails
    <2>3. pc' = Woken([pc EXCEPT ![t] = "error"], m)
      BY <2>0, <1>10 DEF PartitionFails
    <2>2. /\ m \in Msgs
          /\ at' \in [Places -> SUBSET Msgs]
          /\ \A z \in Places : at'[z] = IF z = New(t) THEN at[New(t)] \ {m} ELSE at[z]
          /\ Exclusive'
      BY <1>0, <2>1, RemoveEffect, PlacesDistinct
    <2>4. /\ pc' \in [Threads -> PCs] /\ pc'[t] = "error"
          /\ \A u \in Threads : u # t => \/ pc'[u] = pc[u]
                                         \/ (pc[u] = "wait" /\ pc'[u] = "add")
      BY <1>0, <2>3 DEF Woken, Shapes, PCs
    <2>5. Shapes'
      <3>1. cnt' \in Int /\ size' \in Int
        BY <1>0, <2>1, <2>2, <1>10 DEF PartitionFails, CurrMsgsSub, Shapes
      <3>2. rkmHdrs' \subseteq Msgs /\ opaque' \subseteq Msgs /\ noncopy' \subseteq Msgs
        BY <1>0, <1>10 DEF PartitionFails, Shapes
      <3> QED BY <1>0, <2>2, <2>4, <3>1, <3>2, <1>10 DEF PartitionFails, Shapes, PCs
    <2>6. \A z \in Places : cur[t] \notin at'[z]
      BY <1>0, <2>1, <2>2, PlacesDistinct DEF Held
    <2>7. \A u \in Threads : u # t => at'[New(u)] = at[New(u)]
      BY <2>2, PlacesDistinct
    <2>8. Held'
      <3>1. \A u \in Threads : pc'[u] = "idle" <=> cur'[u] = Nobody
        BY <1>0, <2>1, <2>2, <2>4 DEF Held
      <3>2. /\ \A u \in Threads : pc'[u] = "partition" => cur'[u] \in at'[New(u)]
            /\ \A u \in Threads : \A k \in at'[New(u)] :
                  pc'[u] = "partition" /\ k = cur'[u]
        <4>1. \A k \in at'[New(t)] : FALSE
          BY <1>0, <2>1, <2>2, PlacesDistinct DEF Held
        <4> QED BY <1>0, <2>1, <2>4, <2>7, <4>1 DEF Held
      <3>3. \A u \in Threads, z \in Places :
               cur'[u] \in at'[z] => pc'[u] = "ok" \/ z = New(u)
        BY <1>0, <2>1, <2>2, <2>4, <2>6 DEF Held
      <3>4. /\ \A u \in Threads : cur'[u] \notin todo'
            /\ \A u, v \in Threads : u # v /\ cur'[u] = cur'[v] => cur'[u] = Nobody
            /\ \A z \in Places : at'[z] \cap todo' = {}
        BY <1>0, <2>1, <2>2 DEF Held
      <3> QED BY <3>1, <3>2, <3>3, <3>4 DEF Held
    <2> QED BY <2>2, <2>5, <2>8 DEF Own
  <1>11. ASSUME NEW m \in Msgs, Serve(m) PROVE Own'
    <2>1. Move(m, Msgq, Xmit) /\ UNCHANGED <<pc, cur, todo>>
      BY <1>11 DEF Serve, hsUnchanged
    <2>2. at' \in [Places -> SUBSET Msgs] /\ Exclusive' /\ Held'
      BY <2>1, RelocateOwn, SharedPlaces, PlacesDistinct DEF Move
    <2>3. Shapes'
      BY <1>0, <2>2, <1>11 DEF Serve, Shapes, hsUnchanged, curr, rkmVars
    <2> QED BY <2>2, <2>3 DEF Own
  <1>12. ASSUME NEW m \in Msgs, ProduceRequest(m) PROVE Own'
    <2>1. Move(m, Xmit, Inflight) /\ UNCHANGED <<pc, cur, todo>>
      BY <1>12 DEF ProduceRequest, hsUnchanged
    <2>2. at' \in [Places -> SUBSET Msgs] /\ Exclusive' /\ Held'
      BY <2>1, RelocateOwn, SharedPlaces, PlacesDistinct DEF Move
    <2>3. Shapes'
      BY <1>0, <2>2, <1>12 DEF ProduceRequest, Shapes, hsUnchanged, curr, rkmVars
    <2> QED BY <2>2, <2>3 DEF Own
  <1>13. ASSUME NEW m \in Msgs, Retry(m) PROVE Own'
    <2>1. Move(m, Inflight, Msgq) /\ UNCHANGED <<pc, cur, todo>>
      BY <1>13 DEF Retry, hsUnchanged
    <2>2. at' \in [Places -> SUBSET Msgs] /\ Exclusive' /\ Held'
      BY <2>1, RelocateOwn, SharedPlaces, PlacesDistinct DEF Move
    <2>3. Shapes'
      BY <1>0, <2>2, <1>13 DEF Retry, Shapes, hsUnchanged, curr, rkmVars
    <2> QED BY <2>2, <2>3 DEF Own
  <1>14. ASSUME NEW p \in Pollers, NEW m \in Msgs, DrMsgCb(p, m) PROVE Own'
    <2>1. Move(m, Local(p), Called(p)) /\ UNCHANGED <<pc, cur, todo>>
      BY <1>14 DEF DrMsgCb, hsUnchanged
    <2>2. at' \in [Places -> SUBSET Msgs] /\ Exclusive' /\ Held'
      BY <2>1, RelocateOwn, SharedPlaces, PlacesDistinct DEF Move
    <2>3. Shapes'
      BY <1>0, <2>2, <1>14 DEF DrMsgCb, Shapes, hsUnchanged, curr, rkmVars
    <2> QED BY <2>2, <2>3 DEF Own
  <1>15. ASSUME NEW m \in Msgs, NEW err \in BOOLEAN, HandleProduce(m, err) PROVE Own'
    <2>1. /\ at' \in [Places -> SUBSET Msgs] /\ Exclusive' /\ Held'
          /\ cnt' \in Int /\ size' \in Int /\ pc' \in [Threads -> PCs]
          /\ hdrs' \in [Msgs -> {"null", "live", "freed"}]
          /\ bad' \subseteq {"null_headers", "headers_freed_twice", "stale_stableptr"}
      <3>1. DrMsgq(m, Inflight, err) /\ UNCHANGED <<cur, todo>>
        BY <1>15 DEF HandleProduce, hsUnchanged
      <3> QED BY <3>1, DrMsgqOwn
    <2>2. Shapes'
      BY <1>0, <2>1, <1>15 DEF HandleProduce, Shapes, PCs, hsUnchanged, rkmVars
    <2> QED BY <2>1, <2>2 DEF Own
  <1>16. ASSUME NEW m \in Msgs, MsgqScan(m) PROVE Own'
    <2>1. /\ at' \in [Places -> SUBSET Msgs] /\ Exclusive' /\ Held'
          /\ cnt' \in Int /\ size' \in Int /\ pc' \in [Threads -> PCs]
          /\ hdrs' \in [Msgs -> {"null", "live", "freed"}]
          /\ bad' \subseteq {"null_headers", "headers_freed_twice", "stale_stableptr"}
      <3>1. PICK x \in {Msgq, Xmit} : DrMsgq(m, x, TRUE)
        BY <1>16 DEF MsgqScan
      <3>2. UNCHANGED <<cur, todo>>
        BY <1>16 DEF MsgqScan, hsUnchanged
      <3> QED BY <3>1, <3>2, DrMsgqOwn
    <2>2. Shapes'
      BY <1>0, <2>1, <1>16 DEF MsgqScan, Shapes, PCs, hsUnchanged, rkmVars
    <2> QED BY <2>1, <2>2 DEF Own
  <1>17. ASSUME NEW m \in Msgs, PartitionLeave(m) PROVE Own'
    <2>1. /\ at' \in [Places -> SUBSET Msgs] /\ Exclusive' /\ Held'
          /\ cnt' \in Int /\ size' \in Int /\ pc' \in [Threads -> PCs]
          /\ hdrs' \in [Msgs -> {"null", "live", "freed"}]
          /\ bad' \subseteq {"null_headers", "headers_freed_twice", "stale_stableptr"}
      <3>1. PICK x \in {Msgq, Xmit} : DrMsgq(m, x, TRUE)
        BY <1>17 DEF PartitionLeave
      <3>2. UNCHANGED <<cur, todo>>
        BY <1>17 DEF PartitionLeave, hsUnchanged
      <3> QED BY <3>1, <3>2, DrMsgqOwn
    <2>2. Shapes'
      BY <1>0, <2>1, <1>17 DEF PartitionLeave, Shapes, PCs, hsUnchanged, rkmVars
    <2> QED BY <2>1, <2>2 DEF Own
  <1>17b. ASSUME NEW m \in Msgs, Purge(m) PROVE Own'
    <2>1. /\ at' \in [Places -> SUBSET Msgs] /\ Exclusive' /\ Held'
          /\ cnt' \in Int /\ size' \in Int /\ pc' \in [Threads -> PCs]
          /\ hdrs' \in [Msgs -> {"null", "live", "freed"}]
          /\ bad' \subseteq {"null_headers", "headers_freed_twice", "stale_stableptr"}
      <3>1. PICK x \in {Msgq, Xmit} : DrMsgq(m, x, TRUE)
        BY <1>17b DEF Purge
      <3>2. UNCHANGED <<cur, todo>>
        BY <1>17b DEF Purge, hsUnchanged
      <3> QED BY <3>1, <3>2, DrMsgqOwn
    <2>2. Shapes'
      BY <1>0, <2>1, <1>17b DEF Purge, Shapes, PCs, hsUnchanged, rkmVars
    <2> QED BY <2>1, <2>2 DEF Own
  <1>18. ASSUME NEW p \in Pollers, NEW m \in Msgs, DrDestroy(p, m) PROVE Own'
    <2>1. MsgDestroy(m, Called(p)) /\ UNCHANGED <<cur, todo>>
      BY <1>18 DEF DrDestroy, hsUnchanged
    <2>2. /\ at' \in [Places -> SUBSET Msgs] /\ Exclusive' /\ Held'
          /\ cnt' \in Int /\ size' \in Int /\ pc' \in [Threads -> PCs]
          /\ hdrs' \in [Msgs -> {"null", "live", "freed"}]
          /\ bad' \subseteq {"null_headers", "headers_freed_twice", "stale_stableptr"}
      BY <2>1, DestroyOwn, SharedPlaces
    <2>3. Shapes'
      BY <1>0, <2>2, <1>18 DEF DrDestroy, Shapes, PCs, hsUnchanged, rkmVars
    <2> QED BY <2>2, <2>3 DEF Own
  <1>19. ASSUME NEW m \in Msgs, PartitionsRemove(m) PROVE Own'
    <2>1. MsgDestroy(m, Msgq) /\ UNCHANGED <<cur, todo>>
      BY <1>19 DEF PartitionsRemove, hsUnchanged
    <2>2. /\ at' \in [Places -> SUBSET Msgs] /\ Exclusive' /\ Held'
          /\ cnt' \in Int /\ size' \in Int /\ pc' \in [Threads -> PCs]
          /\ hdrs' \in [Msgs -> {"null", "live", "freed"}]
          /\ bad' \subseteq {"null_headers", "headers_freed_twice", "stale_stableptr"}
      BY <2>1, DestroyOwn, SharedPlaces
    <2>3. Shapes'
      BY <1>0, <2>2, <1>19 DEF PartitionsRemove, Shapes, PCs, hsUnchanged, rkmVars
    <2> QED BY <2>2, <2>3 DEF Own
  <1>20. ASSUME NEW m \in Msgs, PurgeRep(m) PROVE Own'
    <2>1. MsgDestroy(m, Rep) /\ UNCHANGED <<cur, todo>>
      BY <1>20 DEF PurgeRep, hsUnchanged
    <2>2. /\ at' \in [Places -> SUBSET Msgs] /\ Exclusive' /\ Held'
          /\ cnt' \in Int /\ size' \in Int /\ pc' \in [Threads -> PCs]
          /\ hdrs' \in [Msgs -> {"null", "live", "freed"}]
          /\ bad' \subseteq {"null_headers", "headers_freed_twice", "stale_stableptr"}
      BY <2>1, DestroyOwn, SharedPlaces
    <2>3. Shapes'
      BY <1>0, <2>2, <1>20 DEF PurgeRep, Shapes, PCs, hsUnchanged, rkmVars
    <2> QED BY <2>2, <2>3 DEF Own
  <1>21. ASSUME NEW p \in Pollers, Poll(p) PROVE Own'
    <2>1. QServe(p) /\ UNCHANGED <<pc, cur, todo>>
      BY <1>0, <1>21 DEF Poll, hsUnchanged
    <2>2. /\ at' \in [Places -> SUBSET Msgs] /\ Exclusive'
          /\ \A z \in Places : at'[z] = IF z = Rep THEN {}
                                        ELSE IF z = Local(p) THEN at[z] \cup at[Rep]
                                        ELSE at[z]
      BY <1>0, <2>1, ServeEffect DEF QServe
    <2>3. Held'
      BY <1>0, <2>1, <2>2, PlacesDistinct DEF Held
    <2>4. Shapes'
      BY <1>0, <2>2, <1>21 DEF Poll, Shapes, hsUnchanged, curr, rkmVars
    <2> QED BY <2>2, <2>3, <2>4 DEF Own
  <1>22. ASSUME NEW p \in Pollers, FlushPoll(p) PROVE Own'
    <2>1. QServe(p) /\ UNCHANGED <<pc, cur, todo>>
      BY <1>0, <1>22 DEF FlushPoll, hsUnchanged
    <2>2. /\ at' \in [Places -> SUBSET Msgs] /\ Exclusive'
          /\ \A z \in Places : at'[z] = IF z = Rep THEN {}
                                        ELSE IF z = Local(p) THEN at[z] \cup at[Rep]
                                        ELSE at[z]
      BY <1>0, <2>1, ServeEffect DEF QServe
    <2>3. Held'
      BY <1>0, <2>1, <2>2, PlacesDistinct DEF Held
    <2>4. Shapes'
      BY <1>0, <2>2, <1>22 DEF FlushPoll, Shapes, hsUnchanged, curr, rkmVars
    <2> QED BY <2>2, <2>3, <2>4 DEF Own
  <1>23. ASSUME NEW p \in Pollers, FlushCall(p) PROVE Own'
    <2>1. Shapes'
      BY <1>0, <1>23 DEF FlushCall, Shapes, hsUnchanged, curr, rkmVars
    <2>2. Exclusive' /\ Held'
      BY <1>0, <1>23 DEF FlushCall, Exclusive, Held, hsUnchanged
    <2> QED BY <2>1, <2>2 DEF Own
  <1>24. CASE FlushQlen
    <2>1. Shapes'
      BY <1>0, <1>24 DEF FlushQlen, Shapes, hsUnchanged, curr, rkmVars
    <2>2. Exclusive' /\ Held'
      BY <1>0, <1>24 DEF FlushQlen, Exclusive, Held, hsUnchanged
    <2> QED BY <2>1, <2>2 DEF Own
  <1>25. CASE FlushCnt
    <2>1. Shapes'
      BY <1>0, <1>25 DEF FlushCnt, Shapes, hsUnchanged, curr, rkmVars
    <2>2. Exclusive' /\ Held'
      BY <1>0, <1>25 DEF FlushCnt, Exclusive, Held, hsUnchanged
    <2> QED BY <2>1, <2>2 DEF Own
  <1>26. CASE FlushReturn
    <2>1. Shapes'
      BY <1>0, <1>26 DEF FlushReturn, Shapes, hsUnchanged, curr, rkmVars, FlushIdle
    <2>2. Exclusive' /\ Held'
      BY <1>0, <1>26 DEF FlushReturn, Exclusive, Held, hsUnchanged
    <2> QED BY <2>1, <2>2 DEF Own
  <1>27. CASE Close
    <2>1. Shapes'
      BY <1>0, <1>27 DEF Close, Shapes, hsUnchanged, curr, rkmVars
    <2>2. Exclusive' /\ Held'
      BY <1>0, <1>27 DEF Close, Exclusive, Held, hsUnchanged
    <2> QED BY <2>1, <2>2 DEF Own
  <1>28. CASE DisableRep
    <2>1. Shapes'
      BY <1>0, <1>28 DEF DisableRep, Shapes, hsUnchanged, curr, rkmVars
    <2>2. Exclusive' /\ Held'
      BY <1>0, <1>28 DEF DisableRep, Exclusive, Held, hsUnchanged
    <2> QED BY <2>1, <2>2 DEF Own
  <1>29. CASE JoinBrokers
    <2>1. Shapes'
      BY <1>0, <1>29 DEF JoinBrokers, Shapes, hsUnchanged, curr, rkmVars
    <2>2. Exclusive' /\ Held'
      BY <1>0, <1>29 DEF JoinBrokers, Exclusive, Held, hsUnchanged
    <2> QED BY <2>1, <2>2 DEF Own
  <1>30. CASE Destroyed
    <2>1. Shapes'
      BY <1>0, <1>30 DEF Destroyed, Shapes, hsUnchanged, curr, rkmVars
    <2>2. Exclusive' /\ Held'
      BY <1>0, <1>30 DEF Destroyed, Exclusive, Held, hsUnchanged
    <2> QED BY <2>1, <2>2 DEF Own
  <1>31. CASE SetFatal
    <2>1. Shapes'
      BY <1>0, <1>31 DEF SetFatal, Shapes, hsUnchanged, curr, rkmVars
    <2>2. Exclusive' /\ Held'
      BY <1>0, <1>31 DEF SetFatal, Exclusive, Held, hsUnchanged
    <2> QED BY <2>1, <2>2 DEF Own
  <1>32. CASE UNCHANGED vars
    BY <1>0, <1>32 DEF vars, curr, hsVars, rkmVars, Own, Shapes, Exclusive, Held
  <1> QED BY <1>1, <1>2, <1>3, <1>4, <1>5, <1>6, <1>7, <1>8, <1>9, <1>10,
             <1>11, <1>12, <1>13, <1>14, <1>15, <1>16, <1>17, <1>17b, <1>18, <1>19,
             <1>20, <1>21, <1>22, <1>23, <1>24, <1>25, <1>26, <1>27, <1>28,
             <1>29, <1>30, <1>31, <1>32
          DEF Next, BytesStep, BrokerStep, PollStep, FlushStep, CloseStep
-----------------------------------------------------------------------------
(* The kinds of step.  Outside `bytes' and the delivery callback, a step   *)
(* passes a message on, destroys one, moves rk_rep to a poller, or leaves  *)
(* messages alone.                                                         *)
Passes(m, x, y) ==
    /\ Move(m, x, y)
    /\ UNCHANGED <<curr, hsVars, rkmVars, hdrs, bad, todo, accepted, reported>>

Destroys(m, x) ==
    /\ MsgDestroy(m, x)
    /\ UNCHANGED <<cur, again, anchored, rkmVars, todo, accepted, reported>>

Serves(p) ==
    /\ QServe(p)
    /\ UNCHANGED <<curr, hsVars, rkmVars, hdrs, bad, todo, accepted, reported>>

Rests == UNCHANGED <<at, curr, hsVars, rkmVars, hdrs, bad, todo, accepted, reported>>

Queues == {Msgq, Xmit, Inflight, Rep}

(* What a report for a message on a partition's queue or in a request is.  *)
LEMMA DrMsgqKind ==
    ASSUME NEW m \in Msgs, NEW x \in {Msgq, Xmit, Inflight}, NEW err \in BOOLEAN,
           DrMsgq(m, x, err), hsUnchanged, UNCHANGED reported
    PROVE  Passes(m, x, Rep) \/ Destroys(m, x)
  <1>1. CASE Move(m, x, Rep) /\ UNCHANGED <<curr, pc, hdrs, bad>>
    BY <1>1 DEF Passes, hsUnchanged, hsVars
  <1>2. CASE MsgDestroy(m, x)
    BY <1>2 DEF Destroys, hsUnchanged
  <1> QED BY <1>1, <1>2 DEF DrMsgq

Kind ==
    \/ \E t \in Threads : BytesStep(t)
    \/ \E m \in Msgs, x, y \in Queues : x # y /\ Passes(m, x, y)
    \/ \E m \in Msgs, x \in Shared : Destroys(m, x)
    \/ \E p \in Pollers : Serves(p)
    \/ \E p \in Pollers, m \in Msgs : DrMsgCb(p, m)
    \/ Rests

(* Every step is of one of the kinds below.                                *)
LEMMA Kinds == [Next]_vars => Kind
  <1> SUFFICES ASSUME [Next]_vars PROVE Kind
    OBVIOUS
  <1>1. CASE \E t \in Threads : BytesStep(t)
    BY <1>1 DEF Kind
  <1>2. ASSUME NEW m \in Msgs, BrokerStep(m) PROVE Kind
    <2>1. CASE Serve(m)
      <3>1. Passes(m, Msgq, Xmit)
        BY <2>1 DEF Serve, Passes, hsUnchanged, hsVars
      <3> QED BY <3>1, PlacesDistinct DEF Kind, Queues
    <2>2. CASE ProduceRequest(m)
      <3>1. Passes(m, Xmit, Inflight)
        BY <2>2 DEF ProduceRequest, Passes, hsUnchanged, hsVars
      <3> QED BY <3>1, PlacesDistinct DEF Kind, Queues
    <2>3. CASE Retry(m)
      <3>1. Passes(m, Inflight, Msgq)
        BY <2>3 DEF Retry, Passes, hsUnchanged, hsVars
      <3> QED BY <3>1, PlacesDistinct DEF Kind, Queues
    <2>4. ASSUME NEW x \in {Msgq, Xmit, Inflight}, NEW err \in BOOLEAN,
                 DrMsgq(m, x, err), hsUnchanged, UNCHANGED reported
          PROVE  Kind
      <3>1. Passes(m, x, Rep) \/ Destroys(m, x)
        BY <2>4, DrMsgqKind
      <3>2. x \in Queues /\ Rep \in Queues /\ x # Rep /\ x \in Shared
        BY PlacesDistinct, SharedPlaces DEF Queues
      <3> QED BY <3>1, <3>2 DEF Kind
    <2>5. ASSUME NEW err \in BOOLEAN, HandleProduce(m, err) PROVE Kind
      BY <2>4, <2>5 DEF HandleProduce
    <2>6. CASE MsgqScan(m) \/ PartitionLeave(m) \/ Purge(m)
      <3>1. PICK x \in {Msgq, Xmit} : DrMsgq(m, x, TRUE)
        BY <2>6 DEF MsgqScan, PartitionLeave, Purge
      <3>2. hsUnchanged /\ UNCHANGED reported
        BY <2>6 DEF MsgqScan, PartitionLeave, Purge
      <3> QED BY <2>4, <3>1, <3>2
    <2> QED BY <1>2, <2>1, <2>2, <2>3, <2>5, <2>6 DEF BrokerStep
  <1>3. ASSUME NEW p \in Pollers, PollStep(p) PROVE Kind
    <2>1. CASE Poll(p)
      <3>1. Serves(p)
        BY <2>1 DEF Poll, Serves, hsUnchanged, hsVars
      <3> QED BY <3>1 DEF Kind
    <2>2. ASSUME NEW m \in Msgs, DrMsgCb(p, m) PROVE Kind
      BY <2>2 DEF Kind
    <2>3. ASSUME NEW m \in Msgs, DrDestroy(p, m) PROVE Kind
      <3>1. Destroys(m, Called(p))
        BY <2>3 DEF DrDestroy, Destroys, hsUnchanged
      <3> QED BY <3>1, SharedPlaces DEF Kind
    <2> QED BY <1>3, <2>1, <2>2, <2>3 DEF PollStep
  <1>4. ASSUME NEW p \in Pollers, FlushPoll(p) PROVE Kind
    <2>1. Serves(p)
      BY <1>4 DEF FlushPoll, Serves, hsUnchanged, hsVars
    <2> QED BY <2>1 DEF Kind
  <1>5. ASSUME NEW m \in Msgs, PartitionsRemove(m) \/ PurgeRep(m) PROVE Kind
    <2>1. Destroys(m, Msgq) \/ Destroys(m, Rep)
      BY <1>5 DEF PartitionsRemove, PurgeRep, Destroys, hsUnchanged
    <2> QED BY <2>1, SharedPlaces DEF Kind
  <1>6. ASSUME \/ \E p \in Pollers : FlushCall(p)
               \/ FlushQlen \/ FlushCnt \/ FlushReturn
               \/ Close \/ DisableRep \/ JoinBrokers \/ Destroyed
               \/ SetFatal \/ UNCHANGED vars
        PROVE  Kind
    <2>1. Rests
      BY <1>6 DEF FlushCall, FlushQlen, FlushCnt, FlushReturn, Close, DisableRep,
                  JoinBrokers, Destroyed, SetFatal, vars, Rests, hsUnchanged, hsVars
    <2> QED BY <2>1 DEF Kind
  <1> QED BY <1>1, <1>2, <1>3, <1>4, <1>5, <1>6 DEF Next, FlushStep, CloseStep

-----------------------------------------------------------------------------
(* Counting.                                                               *)

(* Finitely many messages exist, so they can be counted.                   *)
LEMMA LiveFinite == Shapes => IsFiniteSet(Live) /\ Live \subseteq Msgs
  <1> SUFFICES ASSUME Shapes PROVE IsFiniteSet(Live) /\ Live \subseteq Msgs
    OBVIOUS
  <1>1. Live \subseteq Msgs
    BY DEF Shapes, Live
  <1> QED BY <1>1, FS_Subset, ProducerAssumption

(* Every step keeps the set of messages and their count, or removes one    *)
(* message and counts one less, or adds one and counts one more if the     *)
(* limit allows it.                                                        *)
LEMMA CountedStep ==
    ASSUME Own, Kind
    PROVE  \/ Live' = Live /\ cnt' = cnt
           \/ \E m \in Live : Live' = Live \ {m} /\ cnt' = cnt - 1
           \/ \E m \in Msgs \ Live : Live' = Live \cup {m} /\ cnt' = cnt + 1
                                       /\ cnt + 1 <= MaxCnt
  <1>0. Shapes /\ Exclusive /\ Held
    BY DEF Own
  <1> DEFINE Goal == \/ Live' = Live /\ cnt' = cnt
                     \/ \E m \in Live : Live' = Live \ {m} /\ cnt' = cnt - 1
                     \/ \E m \in Msgs \ Live : Live' = Live \cup {m} /\ cnt' = cnt + 1
                                                 /\ cnt + 1 <= MaxCnt
  <1>1. ASSUME NEW t \in Threads, BytesStep(t) PROVE Goal
    <2>1. CASE MsgNew(t)
      <3>1. PICK m \in Msgs : m = cur[t]
        BY <1>0, <2>1 DEF MsgNew, Shapes, Held
      <3>2. /\ at' = [at EXCEPT ![New(t)] = @ \cup {m}] /\ New(t) \in Places
            /\ pc[t] = "add" /\ cnt' = cnt + 1 /\ cnt + 1 <= MaxCnt
        BY <2>1, <3>1, PlacesDistinct DEF MsgNew, Fits
      <3>3. \A z \in Places : m \notin at[z]
        BY <1>0, <3>1, <3>2 DEF Held
      <3>4. m \notin Live /\ Live' = Live \cup {m}
        <4>1. \A z \in Places : at'[z] = IF z = New(t) THEN at[z] \cup {m} ELSE at[z]
          BY <1>0, <3>2 DEF Shapes
        <4> QED BY <3>2, <3>3, <4>1 DEF Live
      <3> QED BY <3>2, <3>4
    <2>2. CASE Partition(t)
      <3>1. PICK m \in Msgs : m = cur[t]
        BY <1>0, <2>2 DEF Partition, Shapes, Held
      <3>2. Move(m, New(t), Msgq) /\ cnt' = cnt
        BY <2>2, <3>1 DEF Partition, curr
      <3>3. New(t) \in Places /\ Msgq \in Places /\ New(t) # Msgq
        BY PlacesDistinct
      <3> QED BY <1>0, <3>2, <3>3, MoveEffect DEF Move
    <2>3. CASE PartitionFails(t)
      <3>1. PICK m \in Msgs : m = cur[t]
        BY <1>0, <2>3 DEF PartitionFails, Shapes, Held
      <3>2. /\ m \in at[New(t)] /\ at' = [at EXCEPT ![New(t)] = @ \ {m}]
            /\ New(t) \in Places /\ cnt' = cnt - 1
        BY <2>3, <3>1, PlacesDistinct DEF PartitionFails, CurrMsgsSub
      <3> QED BY <1>0, <3>2, RemoveEffect
    <2>4. ASSUME UNCHANGED <<at, curr>> PROVE Goal
      BY <2>4 DEF curr, Live
    <2> QED BY <1>1, <2>1, <2>2, <2>3, <2>4 DEF BytesStep, Bytes, CheckProduce,
             CurrMsgsFull, SpuriousWakeup, ReturnOk, ProduceBytesBlocking,
             FinishWithError
  <1>2. ASSUME NEW m \in Msgs, NEW x \in Queues, NEW y \in Queues, x # y,
               Passes(m, x, y)
        PROVE  Goal
    <2>1. Move(m, x, y) /\ cnt' = cnt
      BY <1>2 DEF Passes, curr
    <2>2. x \in Places /\ y \in Places
      BY PlacesDistinct DEF Queues
    <2> QED BY <1>0, <1>2, <2>1, <2>2, MoveEffect DEF Move
  <1>3. ASSUME NEW m \in Msgs, NEW x \in Shared, Destroys(m, x) PROVE Goal
    <2>1. /\ m \in at[x] /\ at' = [at EXCEPT ![x] = @ \ {m}] /\ cnt' = cnt - 1
          /\ x \in Places
      BY <1>3 DEF Destroys, MsgDestroy, CurrMsgsSub, Shared
    <2> QED BY <1>0, <2>1, RemoveEffect
  <1>4. ASSUME NEW p \in Pollers, Serves(p) PROVE Goal
    BY <1>0, <1>4, ServeEffect DEF Serves, QServe, curr
  <1>5. ASSUME NEW p \in Pollers, NEW m \in Msgs, DrMsgCb(p, m) PROVE Goal
    <2>1. Move(m, Local(p), Called(p)) /\ cnt' = cnt
      BY <1>5 DEF DrMsgCb, curr
    <2>2. Local(p) \in Places /\ Called(p) \in Places /\ Local(p) # Called(p)
      BY PlacesDistinct
    <2> QED BY <1>0, <2>1, <2>2, MoveEffect DEF Move
  <1>6. CASE Rests
    BY <1>6 DEF Rests, curr, Live
  <1> QED BY <1>1, <1>2, <1>3, <1>4, <1>5, <1>6 DEF Kind

(* The count is exact: an inductive consequence of ownership.              *)
LEMMA CountStep == Own /\ CountExact /\ [Next]_vars => CountExact'
  <1> SUFFICES ASSUME Own, CountExact, [Next]_vars PROVE CountExact'
    OBVIOUS
  <1>1. IsFiniteSet(Live) /\ Cardinality(Live) \in Nat /\ cnt \in Int /\ MaxCnt \in Nat
    BY LiveFinite, FS_CardinalityType, ProducerAssumption DEF Own, Shapes
  <1>2. Kind
    BY Kinds
  <1>3. CASE Live' = Live /\ cnt' = cnt
    BY <1>3 DEF CountExact
  <1>4. ASSUME NEW m \in Live, Live' = Live \ {m}, cnt' = cnt - 1 PROVE CountExact'
    <2>1. Cardinality(Live \ {m}) = Cardinality(Live) - 1
      BY <1>1, FS_RemoveElement
    <2> QED BY <1>1, <1>4, <2>1 DEF CountExact
  <1>5. ASSUME NEW m \in Msgs \ Live, Live' = Live \cup {m}, cnt' = cnt + 1,
               cnt + 1 <= MaxCnt
        PROVE  CountExact'
    <2>1. Cardinality(Live \cup {m}) = Cardinality(Live) + 1
      BY <1>1, FS_AddElement
    <2> QED BY <1>1, <1>5, <2>1 DEF CountExact
  <1> QED BY <1>2, <1>3, <1>4, <1>5, CountedStep

(* Messages are never shared or freed twice, the count of the messages in  *)
(* the client is exact and within queue.buffering.max.messages, and it is  *)
(* never negative: rd_kafka_curr_msgs_sub cannot fail its assertion.       *)
THEOREM Accounting == Spec => [](TypeOK /\ Exclusive /\ CountExact)
  <1>1. Init => Own /\ CountExact
    <2> SUFFICES ASSUME Init PROVE CountExact
      BY OwnInit
    <2>1. Live = {} /\ cnt = 0
      BY DEF Init, Live
    <2> QED BY <2>1, FS_EmptySet, ProducerAssumption DEF CountExact
  <1>2. Own /\ CountExact /\ [Next]_vars => (Own /\ CountExact)'
    BY OwnStep, CountStep
  <1>3. Own /\ CountExact => TypeOK /\ Exclusive /\ CountExact
    BY LiveFinite, FS_CardinalityType DEF Own, CountExact, TypeOK
  <1> QED BY <1>1, <1>2, <1>3, PTL DEF Spec
-----------------------------------------------------------------------------
(* Anchors.  PayloadAnchored is inductive once one knows, of the thread    *)
(* inside `bytes', that an attempt that will not copy has its StablePtr    *)
(* already, and that no message exists for it before rd_kafka_msg_new0.    *)
Anchors ==
    /\ opaque = noncopy
    /\ todo \cap noncopy = {}
    /\ \A t \in Threads :
          (pc[t] \in {"check", "add", "wait", "partition"}
             /\ (cur[t] \in Pinned \/ again[t])) => cur[t] \in anchored
    /\ \A t \in Threads :
          pc[t] \in {"check", "add", "wait", "full", "error"} => cur[t] \notin noncopy
    /\ PayloadAnchored
    /\ "stale_stableptr" \notin bad

(* The places from which librdkafka may still read a payload.              *)
Readable == Places \ {Called(p) : p \in Pollers}

(* PayloadAnchored, over the places librdkafka reads a payload from.       *)
LEMMA PayloadAnchoredDef ==
    PayloadAnchored <=> \A m \in noncopy, x \in Readable : m \in at[x] => m \in anchored
  BY DEF PayloadAnchored, Readable

(* Destroying headers touches only the headers and what is bad.            *)
LEMMA HeadersDestroyEffect ==
    ASSUME Shapes, NEW m \in Msgs, HeadersDestroy(m)
    PROVE  /\ hdrs' = [hdrs EXCEPT ![m] = IF @ = "live" THEN "freed" ELSE @]
           /\ bad' = bad \/ bad' = bad \cup {"null_headers"}
                \/ bad' = bad \cup {"headers_freed_twice"}
           /\ hdrs[m] = "live" => bad' = bad
           /\ hdrs[m] # "freed" => ("headers_freed_twice" \in bad'
                                      => "headers_freed_twice" \in bad)
  <1>1. hdrs[m] \in {"live", "null", "freed"}
    BY DEF Shapes
  <1> QED BY <1>1 DEF HeadersDestroy

(* Every step keeps the payloads librdkafka reads anchored.                *)
LEMMA AnchorStep == Own /\ Anchors /\ [Next]_vars => Anchors'
  <1> SUFFICES ASSUME Own, Anchors, Kind PROVE Anchors'
    BY Kinds
  <1>0. Shapes /\ Exclusive /\ Held
    BY DEF Own
  <1>a. /\ opaque = noncopy
        /\ todo \cap noncopy = {}
        /\ \A t \in Threads :
              (pc[t] \in {"check", "add", "wait", "partition"}
                 /\ (cur[t] \in Pinned \/ again[t])) => cur[t] \in anchored
        /\ \A t \in Threads :
              pc[t] \in {"check", "add", "wait", "full", "error"} => cur[t] \notin noncopy
        /\ \A m \in noncopy, x \in Readable : m \in at[x] => m \in anchored
        /\ "stale_stableptr" \notin bad
    BY PayloadAnchoredDef DEF Anchors
  <1> DEFINE Payload == \A m \in noncopy, x \in Readable : m \in at[x] => m \in anchored
             Rest == /\ opaque = noncopy
                     /\ todo \cap noncopy = {}
                     /\ \A t \in Threads :
                           (pc[t] \in {"check", "add", "wait", "partition"}
                              /\ (cur[t] \in Pinned \/ again[t])) => cur[t] \in anchored
                     /\ \A t \in Threads :
                           pc[t] \in {"check", "add", "wait", "full", "error"}
                             => cur[t] \notin noncopy
                     /\ "stale_stableptr" \notin bad
  <1>b. Readable \subseteq Places
    BY DEF Readable
  <1>c. ASSUME Payload', Rest' PROVE Anchors'
    <2>1. PayloadAnchored'
      BY <1>c DEF PayloadAnchored, Readable
    <2> QED BY <1>c, <2>1 DEF Anchors
  <1> HIDE DEF Payload, Rest
  <1>1. ASSUME NEW t \in Threads, NEW m \in Msgs, Bytes(t, m) PROVE Anchors'
    <2>1. Payload'
      BY <1>a, <1>1 DEF Bytes, Payload, rkmVars
    <2>2. Rest'
      BY <1>0, <1>a, <1>1 DEF Bytes, Rest, rkmVars, Shapes, Held
    <2> QED BY <1>c, <2>1, <2>2
  <1>2. ASSUME NEW t \in Threads, CheckProduce(t) \/ CurrMsgsFull(t) \/ SpuriousWakeup(t)
        PROVE  Anchors'
    <2>1. Payload'
      BY <1>a, <1>2 DEF CheckProduce, CurrMsgsFull, SpuriousWakeup, Payload, rkmVars
    <2>2. Rest'
      BY <1>0, <1>a, <1>2 DEF CheckProduce, CurrMsgsFull, SpuriousWakeup, Rest, rkmVars,
         Shapes
    <2> QED BY <1>c, <2>1, <2>2
  <1>3. ASSUME NEW t \in Threads, MsgNew(t) PROVE Anchors'
    <2>1. PICK m \in Msgs : m = cur[t]
      BY <1>0, <1>3 DEF MsgNew, Shapes, Held
    <2>2. /\ pc[t] = "add" /\ pc' = [pc EXCEPT ![t] = "partition"]
          /\ at' = [at EXCEPT ![New(t)] = @ \cup {m}] /\ New(t) \in Places
          /\ noncopy' = IF m \in Pinned \/ again[t] THEN noncopy \cup {m} ELSE noncopy
          /\ opaque' = IF m \in Pinned \/ again[t] THEN opaque \cup {m} ELSE opaque
          /\ UNCHANGED <<cur, again, anchored, bad, todo>>
      BY <1>3, <2>1, PlacesDistinct DEF MsgNew
    <2>3. \A z \in Places : at'[z] = IF z = New(t) THEN at[z] \cup {m} ELSE at[z]
      BY <1>0, <2>2 DEF Shapes
    <2>4. m \in Pinned \/ again[t] => m \in anchored
      BY <1>a, <2>1, <2>2
    <2>5. m \notin noncopy /\ m \notin todo
      BY <1>0, <1>a, <2>1, <2>2 DEF Held
    <2>6. Payload'
      BY <1>a, <1>b, <2>2, <2>3, <2>4, <2>5 DEF Payload
    <2>7. \A u \in Threads : u # t => cur[u] # m
      BY <1>0, <2>1, ProducerAssumption DEF Held
    <2>8. Rest'
      BY <1>0, <1>a, <2>1, <2>2, <2>4, <2>5, <2>7 DEF Rest, Shapes
    <2> QED BY <1>c, <2>6, <2>8
  <1>4. ASSUME NEW t \in Threads, Partition(t) PROVE Anchors'
    <2>1. PICK m \in Msgs : m = cur[t]
      BY <1>0, <1>4 DEF Partition, Shapes, Held
    <2>2. /\ pc[t] = "partition" /\ pc' = [pc EXCEPT ![t] = "ok"]
          /\ Move(m, New(t), Msgq)
          /\ UNCHANGED <<cur, again, anchored, bad, todo, noncopy, opaque>>
      BY <1>4, <2>1 DEF Partition, rkmVars
    <2>3. New(t) \in Places /\ Msgq \in Places /\ New(t) # Msgq /\ New(t) \in Readable
      BY PlacesDistinct DEF Readable
    <2>4. /\ m \in at[New(t)]
          /\ \A z \in Places : at'[z] = IF z = New(t) THEN at[New(t)] \ {m}
                                ELSE IF z = Msgq THEN at[Msgq] \cup {m} ELSE at[z]
      BY <1>0, <2>2, <2>3, MoveEffect DEF Move
    <2>5. Payload'
      BY <1>a, <1>b, <2>2, <2>3, <2>4 DEF Payload
    <2>6. Rest'
      BY <1>0, <1>a, <2>2 DEF Rest, Shapes
    <2> QED BY <1>c, <2>5, <2>6
  <1>5. ASSUME NEW t \in Threads, PartitionFails(t) PROVE Anchors'
    <2>1. PICK m \in Msgs : m = cur[t]
      BY <1>0, <1>5 DEF PartitionFails, Shapes, Held
    <2>2. /\ m \in at[New(t)] /\ New(t) \in Places
          /\ at' = [at EXCEPT ![New(t)] = @ \ {m}]
          /\ opaque' = opaque \ {m} /\ noncopy' = noncopy \ {m}
          /\ UNCHANGED <<cur, again, anchored, bad, todo>>
      BY <1>5, <2>1, PlacesDistinct DEF PartitionFails
    <2>3. pc' = Woken([pc EXCEPT ![t] = "error"], m)
      BY <1>5, <2>1 DEF PartitionFails
    <2>4. /\ pc'[t] = "error"
          /\ \A u \in Threads : u # t => \/ pc'[u] = pc[u]
                                         \/ (pc[u] = "wait" /\ pc'[u] = "add")
      BY <1>0, <2>3 DEF Woken, Shapes
    <2>5. \A z \in Places : at'[z] \subseteq at[z]
      BY <1>0, <2>2 DEF Shapes
    <2>6. Payload'
      BY <1>a, <1>b, <2>2, <2>5 DEF Payload
    <2>7. Rest'
      BY <1>0, <1>a, <2>1, <2>2, <2>4 DEF Rest
    <2> QED BY <1>c, <2>6, <2>7
  <1>6. ASSUME NEW t \in Threads, ReturnOk(t) \/ ProduceBytesBlocking(t) PROVE Anchors'
    <2>1. Payload'
      BY <1>a, <1>6 DEF ReturnOk, ProduceBytesBlocking, Payload, rkmVars
    <2>2. Rest'
      BY <1>0, <1>a, <1>6 DEF ReturnOk, ProduceBytesBlocking, Rest, rkmVars, Shapes, Held
    <2> QED BY <1>c, <2>1, <2>2
  <1>7. ASSUME NEW t \in Threads, FinishWithError(t) PROVE Anchors'
    <2>1. /\ pc[t] = "error" /\ pc' = [pc EXCEPT ![t] = "idle"]
          /\ cur' = [cur EXCEPT ![t] = Nobody]
          /\ anchored' = anchored \ {cur[t]}
          /\ UNCHANGED <<at, again, todo, noncopy, opaque>>
      BY <1>7 DEF FinishWithError, rkmVars
    <2>6. "stale_stableptr" \notin bad'
      <3>1. PICK m \in Msgs : m = cur[t]
        BY <1>0, <2>1 DEF Shapes, Held
      <3>2. HeadersDestroy(m)
        BY <1>7, <3>1 DEF FinishWithError
      <3> QED BY <1>0, <1>a, <3>2, HeadersDestroyEffect DEF HeadersDestroy
    <2>2. cur[t] \notin noncopy /\ cur[t] # Nobody
      BY <1>0, <1>a, <2>1 DEF Held
    <2>3. \A u \in Threads : u # t => cur[u] # cur[t]
      BY <1>0, <2>2 DEF Held
    <2>4. Payload'
      BY <1>a, <2>1, <2>2 DEF Payload
    <2>5. Rest'
      BY <1>0, <1>a, <2>1, <2>2, <2>3, <2>6 DEF Rest, Shapes
    <2> QED BY <1>c, <2>4, <2>5
  <1>8. ASSUME NEW m \in Msgs, NEW x \in Queues, NEW y \in Queues, x # y,
               Passes(m, x, y)
        PROVE  Anchors'
    <2>1. Move(m, x, y) /\ UNCHANGED <<pc, cur, again, anchored, bad, todo, noncopy, opaque>>
      BY <1>8 DEF Passes, hsVars, rkmVars
    <2>2. x \in Places /\ y \in Places /\ x \in Readable
      BY PlacesDistinct DEF Queues, Readable
    <2>3. m \in at[x] /\ \A z \in Places : at'[z] = IF z = x THEN at[x] \ {m}
                                   ELSE IF z = y THEN at[y] \cup {m} ELSE at[z]
      BY <1>0, <1>8, <2>1, <2>2, MoveEffect DEF Move
    <2>4. Payload'
      BY <1>a, <1>b, <2>1, <2>2, <2>3 DEF Payload
    <2>5. Rest'
      BY <1>a, <2>1 DEF Rest
    <2> QED BY <1>c, <2>4, <2>5
  <1>9. ASSUME NEW m \in Msgs, NEW x \in Shared, Destroys(m, x) PROVE Anchors'
    <2>1. /\ m \in at[x] /\ at' = [at EXCEPT ![x] = @ \ {m}] /\ pc' = Woken(pc, m)
          /\ UNCHANGED <<cur, again, anchored, todo, noncopy, opaque>>
      BY <1>9 DEF Destroys, MsgDestroy, rkmVars
    <2>7. "stale_stableptr" \notin bad'
      <3>1. HeadersDestroy(m) \/ UNCHANGED bad
        BY <1>9 DEF Destroys, MsgDestroy
      <3>2. CASE HeadersDestroy(m)
        BY <1>0, <1>a, <3>2, HeadersDestroyEffect DEF HeadersDestroy
      <3>3. CASE UNCHANGED bad
        BY <1>a, <3>3
      <3> QED BY <3>1, <3>2, <3>3
    <2>2. \A z \in Places : at'[z] \subseteq at[z]
      BY <1>0, <2>1 DEF Shapes
    <2>3. \A u \in Threads : \/ pc'[u] = pc[u]
                             \/ (pc[u] = "wait" /\ pc'[u] = "add")
      BY <2>1 DEF Woken
    <2>4. Payload'
      BY <1>a, <1>b, <2>1, <2>2 DEF Payload
    <2>5. UNCHANGED <<cur, again, anchored, todo, noncopy, opaque>>
      BY <2>1
    <2>6. Rest'
      BY <1>a, <2>3, <2>5, <2>7 DEF Rest
    <2> QED BY <1>c, <2>4, <2>6
  <1>10. ASSUME NEW p \in Pollers, Serves(p) PROVE Anchors'
    <2>1. UNCHANGED <<pc, cur, again, anchored, bad, todo, noncopy, opaque>>
      BY <1>10 DEF Serves, hsVars, rkmVars
    <2>2. \A z \in Places : at'[z] = IF z = Rep THEN {}
                                     ELSE IF z = Local(p) THEN at[z] \cup at[Rep]
                                     ELSE at[z]
      BY <1>0, <1>10, ServeEffect DEF Serves, QServe
    <2>3. Rep \in Readable
      BY PlacesDistinct DEF Readable
    <2>4. Payload'
      BY <1>a, <1>b, <2>1, <2>2, <2>3 DEF Payload
    <2>5. Rest'
      BY <1>a, <2>1 DEF Rest
    <2> QED BY <1>c, <2>4, <2>5
  <1>11. ASSUME NEW p \in Pollers, NEW m \in Msgs, DrMsgCb(p, m) PROVE Anchors'
    <2>1. /\ Move(m, Local(p), Called(p))
          /\ UNCHANGED <<pc, cur, again, todo, noncopy, opaque>>
          /\ anchored' \in {anchored, anchored \ {m}}
      BY <1>11 DEF DrMsgCb, rkmVars
    <2>2. Local(p) \in Places /\ Called(p) \in Places /\ Local(p) # Called(p)
            /\ Local(p) \in Readable /\ Called(p) \notin Readable
      BY PlacesDistinct DEF Readable
    <2>3. /\ m \in at[Local(p)]
          /\ \A z \in Places : at'[z] = IF z = Local(p) THEN at[Local(p)] \ {m}
                                ELSE IF z = Called(p) THEN at[Called(p)] \cup {m} ELSE at[z]
      BY <1>0, <2>1, <2>2, MoveEffect DEF Move
    <2>4. bad' = bad
      BY <1>a, <1>11, <2>2, <2>3 DEF DrMsgCb
    <2>5. \A z \in Readable : m \notin at'[z]
      BY <1>0, <1>b, <2>2, <2>3 DEF Exclusive
    <2>6. Payload'
      BY <1>a, <1>b, <2>1, <2>2, <2>3, <2>5 DEF Payload
    <2>7. \A t \in Threads : cur[t] = m => pc[t] = "ok"
      BY <1>0, <2>2, <2>3, PlacesDistinct DEF Held
    <2>8. Rest'
      BY <1>a, <2>1, <2>4, <2>7 DEF Rest
    <2> QED BY <1>c, <2>6, <2>8
  <1>12. CASE Rests
    <2>1. Payload' /\ Rest'
      BY <1>a, <1>12 DEF Rests, Payload, Rest, hsVars, rkmVars
    <2> QED BY <1>c, <2>1
  <1> QED BY <1>1, <1>2, <1>3, <1>4, <1>5, <1>6, <1>7, <1>8, <1>9, <1>10, <1>11,
             <1>12 DEF Kind, BytesStep

(* No payload that librdkafka did not copy can be collected while it may   *)
(* still be read, and no StablePtr is used after it was freed, however the *)
(* threads that produce, retry, fail, report and flush interleave.         *)
THEOREM PayloadSafe == Spec => [](PayloadAnchored /\ "stale_stableptr" \notin bad)
  <1>1. Init => Own /\ Anchors
    <2> SUFFICES ASSUME Init PROVE Anchors
      BY OwnInit
    <2>1. PayloadAnchored
      BY DEF Init, PayloadAnchored
    <2> QED BY <2>1 DEF Init, Anchors
  <1>2. Own /\ Anchors /\ [Next]_vars => (Own /\ Anchors)'
    BY OwnStep, AnchorStep
  <1>3. Anchors => PayloadAnchored /\ "stale_stableptr" \notin bad
    BY DEF Anchors
  <1> QED BY <1>1, <1>2, <1>3, PTL DEF Spec
=============================================================================
