------------------------- MODULE ProducerLifeProofs -------------------------
(***************************************************************************)
(* The life of a message, of its headers and of its StablePtr, from the    *)
(* call of `bytes' to the report, the flush or the close, proved on top of *)
(* the ownership that ProducerProofs establishes.                          *)
(***************************************************************************)
EXTENDS ProducerProofs, WellFoundedInduction

(* Messages whose headers have not been destroyed: not produced yet, in    *)
(* librdkafka, or with a thread whose call has not succeeded.              *)
Ours == todo \cup Live \cup {m \in Msgs : \E t \in Threads : cur[t] = m /\ pc[t] # "ok"}

(* A message is live when some place has it.                               *)
LEMMA LiveOf == \A m : m \in Live <=> \E x \in Places : m \in at[x]
  BY DEF Live

(* A thread that has no message in librdkafka yet, or that failed.         *)
LEMMA NotLive ==
    ASSUME Own, NEW t \in Threads, pc[t] \in {"check", "add", "wait", "full", "error"}
    PROVE  cur[t] \in Msgs /\ cur[t] \notin Live
  <1>1. cur[t] # Nobody /\ cur[t] \in Msgs \cup {Nobody}
    BY DEF Own, Held, Shapes
  <1>2. \A x \in Places : cur[t] \notin at[x]
    BY PlacesDistinct DEF Own, Held
  <1> QED BY <1>1, <1>2, LiveOf

(* A message that a step destroys was in librdkafka, and the thread that   *)
(* produced it, if it is still in `bytes', is on its way out with success. *)
LEMMA DestroyedWas ==
    ASSUME Own, NEW x \in Shared, NEW m \in Msgs, Destroys(m, x)
    PROVE  /\ m \in Live /\ Live' = Live \ {m} /\ m \notin todo
           /\ \A t \in Threads : cur[t] = m => pc[t] = "ok"
           /\ \A t \in Threads : (pc'[t] = "ok" <=> pc[t] = "ok") /\ (pc'[t] = "idle" <=> pc[t] = "idle")
           /\ \A t \in Threads : pc'[t] = pc[t] \/ (pc[t] = "wait" /\ pc'[t] = "add")
           /\ UNCHANGED <<cur, todo, accepted, reported, rkmHdrs, anchored, opaque, again>>
  <1>1. MsgDestroy(m, x) /\ UNCHANGED <<cur, todo>>
    BY DEF Destroys
  <1>2. m \in at[x] /\ x \in Places /\ \A t \in Threads : x # New(t)
    BY <1>1 DEF MsgDestroy, Shared
  <1>3. Live' = Live \ {m}
    BY <1>1, DestroyOwn
  <1>4. m \in Live
    BY <1>2, LiveOf
  <1>5. m \notin todo /\ \A t \in Threads : cur[t] = m => pc[t] = "ok"
    BY <1>2 DEF Own, Held
  <1>6. pc \in [Threads -> PCs] /\ pc' = Woken(pc, m)
    BY <1>1 DEF Own, Shapes, PCs, MsgDestroy
  <1>7. \A t \in Threads : pc'[t] = pc[t] \/ (pc[t] = "wait" /\ pc'[t] = "add")
    BY <1>6, WokenEffect
  <1>8. UNCHANGED <<cur, todo, accepted, reported, rkmHdrs, anchored, opaque, again>>
    BY DEF Destroys, rkmVars
  <1> QED BY <1>3, <1>4, <1>5, <1>7, <1>8

-----------------------------------------------------------------------------
(* Headers.  A message's headers are live exactly as long as it is Ours,   *)
(* and librdkafka has them while it has the message.                       *)
Headers ==
    /\ rkmHdrs \subseteq WithHdrs
    /\ Live \cap WithHdrs \subseteq rkmHdrs
    /\ \A m \in WithHdrs : hdrs[m] = IF m \in Ours THEN "live" ELSE "freed"
    /\ \A m \in Msgs \ WithHdrs : hdrs[m] = "null"
    /\ "headers_freed_twice" \notin bad

(* A step that leaves the headers alone keeps the invariant if it keeps    *)
(* Ours and gives new messages their headers.                              *)
LEMMA HeadersKept ==
    ASSUME Headers, Ours' = Ours, hdrs' = hdrs,
           "headers_freed_twice" \in bad' => "headers_freed_twice" \in bad,
           rkmHdrs' \subseteq WithHdrs, Live' \cap WithHdrs \subseteq rkmHdrs'
    PROVE  Headers'
  BY DEF Headers

(* A step that destroys the headers of one message of Ours, and takes it   *)
(* from there, keeps it.                                                   *)
LEMMA HeadersGone ==
    ASSUME Own, Headers, NEW m \in Ours \cap Msgs, Ours' = Ours \ {m},
           IF m \in rkmHdrs THEN HeadersDestroy(m) ELSE
             \/ HeadersDestroy(m)
             \/ m \notin WithHdrs /\ UNCHANGED <<hdrs, bad>>,
           rkmHdrs' = rkmHdrs, Live' \subseteq Live
    PROVE  Headers'
  <1>1. Shapes
    BY DEF Own
  <1>2. m \in WithHdrs => hdrs[m] = "live"
    BY DEF Headers
  <1>3. CASE HeadersDestroy(m)
    <2>1. /\ hdrs' = [hdrs EXCEPT ![m] = IF @ = "live" THEN "freed" ELSE @]
          /\ hdrs[m] # "freed" => ("headers_freed_twice" \in bad'
                                     => "headers_freed_twice" \in bad)
      BY <1>1, <1>3, HeadersDestroyEffect
    <2>2. hdrs[m] # "freed"
      BY <1>2 DEF Headers
    <2>3. \A k \in Msgs : hdrs'[k] = IF k = m /\ hdrs[m] = "live" THEN "freed" ELSE hdrs[k]
      BY <1>1, <2>1 DEF Shapes
    <2>4. \A k \in WithHdrs : hdrs'[k] = IF k \in Ours' THEN "live" ELSE "freed"
      BY <1>2, <2>3, ProducerAssumption DEF Headers
    <2>5. \A k \in Msgs \ WithHdrs : hdrs'[k] = "null"
      BY <2>3 DEF Headers
    <2> QED BY <2>1, <2>2, <2>4, <2>5 DEF Headers
  <1>4. CASE m \notin WithHdrs /\ UNCHANGED <<hdrs, bad>>
    BY <1>4 DEF Headers
  <1> QED BY <1>3, <1>4

(* The headers' invariant is inductive.                                    *)
LEMMA HeadersStep == Own /\ Headers /\ [Next]_vars => Headers'
  <1> SUFFICES ASSUME Own, Headers, Kind PROVE Headers'
    BY Kinds
  <1>0. Shapes /\ Exclusive /\ Held
    BY DEF Own
  <1> USE ProducerAssumption
  <1>1. ASSUME NEW t \in Threads, NEW m \in Msgs, Bytes(t, m) PROVE Headers'
    <2>1. /\ pc[t] = "idle" /\ m \in todo /\ cur[t] = Nobody
          /\ pc' = [pc EXCEPT ![t] = "check"] /\ cur' = [cur EXCEPT ![t] = m]
          /\ todo' = todo \ {m} /\ UNCHANGED <<at, hdrs, bad, rkmHdrs>>
      BY <1>0, <1>1 DEF Bytes, rkmVars, Held
    <2>2. Live' = Live
      BY <2>1 DEF Live
    <2>3. Ours' = Ours
      BY <1>0, <2>1, <2>2 DEF Ours, Shapes
    <2> QED BY <2>1, <2>2, <2>3, HeadersKept DEF Headers
  <1>2. ASSUME NEW t \in Threads, CheckProduce(t) \/ CurrMsgsFull(t) \/ SpuriousWakeup(t)
                                    \/ ProduceBytesBlocking(t)
        PROVE  Headers'
    <2>1. /\ pc[t] \notin {"idle", "ok"} /\ UNCHANGED <<at, hdrs, bad, rkmHdrs, cur, todo>>
          /\ \E s \in PCs \ {"idle", "ok"} : pc' = [pc EXCEPT ![t] = s]
      BY <1>2 DEF CheckProduce, CurrMsgsFull, SpuriousWakeup, ProduceBytesBlocking, rkmVars, PCs
    <2>2. Live' = Live
      BY <2>1 DEF Live
    <2>3. Ours' = Ours
      BY <1>0, <2>1, <2>2 DEF Ours, Shapes
    <2> QED BY <2>1, <2>2, <2>3, HeadersKept DEF Headers
  <1>3. ASSUME NEW t \in Threads, MsgNew(t) PROVE Headers'
    <2>1. PICK m \in Msgs : m = cur[t]
      BY <1>0, <1>3 DEF MsgNew, Shapes, Held
    <2>2. /\ pc[t] = "add" /\ pc' = [pc EXCEPT ![t] = "partition"]
          /\ at' = [at EXCEPT ![New(t)] = @ \cup {m}] /\ New(t) \in Places
          /\ rkmHdrs' = IF m \in WithHdrs THEN rkmHdrs \cup {m} ELSE rkmHdrs
          /\ UNCHANGED <<cur, hdrs, bad, todo>>
      BY <1>3, <2>1, PlacesDistinct DEF MsgNew
    <2>3. \A z \in Places : at'[z] = IF z = New(t) THEN at[z] \cup {m} ELSE at[z]
      BY <1>0, <2>2 DEF Shapes
    <2>4. Live' = Live \cup {m}
      BY <2>2, <2>3 DEF Live
    <2>5. Ours' = Ours
      BY <1>0, <2>1, <2>2, <2>4 DEF Ours, Shapes
    <2> QED BY <2>2, <2>4, <2>5, HeadersKept DEF Headers
  <1>4. ASSUME NEW t \in Threads, Partition(t) PROVE Headers'
    <2>1. PICK m \in Msgs : m = cur[t]
      BY <1>0, <1>4 DEF Partition, Shapes, Held
    <2>2. /\ pc[t] = "partition" /\ pc' = [pc EXCEPT ![t] = "ok"]
          /\ Move(m, New(t), Msgq)
          /\ UNCHANGED <<cur, hdrs, bad, todo, rkmHdrs>>
      BY <1>4, <2>1 DEF Partition, rkmVars
    <2>3. New(t) \in Places /\ Msgq \in Places /\ New(t) # Msgq
      BY PlacesDistinct
    <2>4. m \in at[New(t)] /\ Live' = Live
      BY <1>0, <2>2, <2>3, MoveEffect
    <2>5. m \in Live
      BY <2>3, <2>4, LiveOf
    <2>6. Ours' = Ours
      BY <1>0, <2>1, <2>2, <2>4, <2>5 DEF Ours, Shapes
    <2> QED BY <2>2, <2>4, <2>6, HeadersKept DEF Headers
  <1>5. ASSUME NEW t \in Threads, PartitionFails(t) PROVE Headers'
    <2>1. PICK m \in Msgs : m = cur[t]
      BY <1>0, <1>5 DEF PartitionFails, Shapes, Held
    <2>2. /\ pc[t] = "partition" /\ m \in at[New(t)] /\ New(t) \in Places
          /\ at' = [at EXCEPT ![New(t)] = @ \ {m}]
          /\ rkmHdrs' = rkmHdrs \ {m} /\ UNCHANGED <<cur, hdrs, bad, todo>>
          /\ pc' = Woken([pc EXCEPT ![t] = "error"], m)
      BY <1>5, <2>1, PlacesDistinct DEF PartitionFails
    <2>3. /\ pc'[t] = "error"
          /\ \A u \in Threads : u # t => \/ pc'[u] = pc[u]
                                         \/ (pc[u] = "wait" /\ pc'[u] = "add")
      BY <1>0, <2>2 DEF Woken, Shapes
    <2>4. Live' = Live \ {m} /\ m \in Live
      BY <1>0, <2>2, RemoveEffect
    <2>5. \A u \in Threads : pc'[u] = "ok" <=> pc[u] = "ok"
      BY <2>2, <2>3
    <2>6. Ours' = Ours
      <3>1. m \in Ours /\ m \in Ours'
        BY <2>1, <2>2, <2>3 DEF Ours
      <3>2. \A k : k # m => (k \in Ours' <=> k \in Ours)
        BY <2>2, <2>4, <2>5 DEF Ours
      <3> QED BY <3>1, <3>2
    <2> QED BY <2>2, <2>4, <2>6, HeadersKept DEF Headers
  <1>6. ASSUME NEW t \in Threads, ReturnOk(t) PROVE Headers'
    <2>1. /\ pc[t] = "ok" /\ pc' = [pc EXCEPT ![t] = "idle"]
          /\ cur' = [cur EXCEPT ![t] = Nobody] /\ UNCHANGED <<at, hdrs, bad, rkmHdrs, todo>>
      BY <1>6 DEF ReturnOk, rkmVars
    <2>2. Live' = Live
      BY <2>1 DEF Live
    <2>3. Ours' = Ours
      BY <1>0, <2>1, <2>2 DEF Ours, Shapes
    <2> QED BY <2>1, <2>2, <2>3, HeadersKept DEF Headers
  <1>7. ASSUME NEW t \in Threads, FinishWithError(t) PROVE Headers'
    <2>1. PICK m \in Msgs : m = cur[t]
      BY <1>0, <1>7 DEF FinishWithError, Shapes, Held
    <2>2. /\ pc[t] = "error" /\ pc' = [pc EXCEPT ![t] = "idle"]
          /\ cur' = [cur EXCEPT ![t] = Nobody]
          /\ HeadersDestroy(m) /\ UNCHANGED <<at, rkmHdrs, todo>>
      BY <1>7, <2>1 DEF FinishWithError, rkmVars
    <2>3. Live' = Live
      BY <2>2 DEF Live
    <2>4. m \notin Live /\ m \notin todo /\ \A u \in Threads : u # t => cur[u] # m
      BY <1>0, <2>1, <2>2, NotLive DEF Held
    <2>5. m \in Ours /\ Ours' = Ours \ {m}
      BY <1>0, <2>1, <2>2, <2>3, <2>4 DEF Ours, Shapes
    <2> QED BY <2>2, <2>3, <2>5, HeadersGone
  <1>8. ASSUME NEW m \in Msgs, NEW x \in Queues, NEW y \in Queues, x # y,
               Passes(m, x, y)
        PROVE  Headers'
    <2>1. Move(m, x, y) /\ UNCHANGED <<pc, cur, todo, hdrs, bad, rkmHdrs>>
      BY <1>8 DEF Passes, hsVars, rkmVars
    <2>2. x \in Places /\ y \in Places
      BY PlacesDistinct DEF Queues
    <2>3. Live' = Live
      BY <1>0, <1>8, <2>1, <2>2, MoveEffect
    <2>4. Ours' = Ours
      BY <2>1, <2>3 DEF Ours
    <2> QED BY <2>1, <2>3, <2>4, HeadersKept DEF Headers
  <1>9. ASSUME NEW m \in Msgs, NEW x \in Shared, Destroys(m, x) PROVE Headers'
    <2>1. /\ m \in Live /\ Live' = Live \ {m} /\ m \notin todo
          /\ \A t \in Threads : cur[t] = m => pc[t] = "ok"
          /\ \A t \in Threads : pc'[t] = "ok" <=> pc[t] = "ok"
          /\ UNCHANGED <<cur, todo, rkmHdrs>>
      BY <1>9, DestroyedWas
    <2>2. m \in Ours /\ Ours' = Ours \ {m}
      BY <2>1 DEF Ours
    <2>3. IF m \in rkmHdrs THEN HeadersDestroy(m) ELSE UNCHANGED <<hdrs, bad>>
      BY <1>9 DEF Destroys, MsgDestroy
    <2>4. m \in WithHdrs => m \in rkmHdrs
      BY <2>1 DEF Headers
    <2> QED BY <2>1, <2>2, <2>3, <2>4, HeadersGone
  <1>10. ASSUME NEW p \in Pollers, Serves(p) PROVE Headers'
    <2>1. UNCHANGED <<pc, cur, todo, hdrs, bad, rkmHdrs>>
      BY <1>10 DEF Serves, hsVars, rkmVars
    <2>2. Live' = Live
      BY <1>0, <1>10, ServeEffect DEF Serves
    <2>3. Ours' = Ours
      BY <2>1, <2>2 DEF Ours
    <2> QED BY <2>1, <2>2, <2>3, HeadersKept DEF Headers
  <1>11. ASSUME NEW p \in Pollers, NEW m \in Msgs, DrMsgCb(p, m) PROVE Headers'
    <2>1. /\ Move(m, Local(p), Called(p)) /\ UNCHANGED <<pc, cur, todo, hdrs, rkmHdrs>>
          /\ "headers_freed_twice" \in bad' => "headers_freed_twice" \in bad
      BY <1>11 DEF DrMsgCb, rkmVars
    <2>2. Local(p) \in Places /\ Called(p) \in Places /\ Local(p) # Called(p)
      BY PlacesDistinct
    <2>3. Live' = Live
      BY <1>0, <2>1, <2>2, MoveEffect
    <2>4. Ours' = Ours
      BY <2>1, <2>3 DEF Ours
    <2> QED BY <2>1, <2>3, <2>4, HeadersKept DEF Headers
  <1>12. CASE Rests
    <2>1. UNCHANGED <<at, pc, cur, todo, hdrs, bad, rkmHdrs>>
      BY <1>12 DEF Rests, hsVars, rkmVars
    <2>2. Live' = Live /\ Ours' = Ours
      BY <2>1 DEF Live, Ours
    <2> QED BY <2>1, <2>2, HeadersKept DEF Headers
  <1> QED BY <1>1, <1>2, <1>3, <1>4, <1>5, <1>6, <1>7, <1>8, <1>9, <1>10, <1>11,
             <1>12 DEF Kind, BytesStep

(* Headers are destroyed by exactly one of `bytes' and librdkafka: never   *)
(* twice, and not later than the end of the message, whether its produce   *)
(* call failed, it was reported, timed out, or was purged at close; and no *)
(* StablePtr is used after it was freed.                                   *)
THEOREM HeadersOnce == Spec => [](HeadersFreed /\ NoDoubleFree)
  <1>1. Init => Own /\ Anchors /\ Headers
    <2> SUFFICES ASSUME Init PROVE Anchors /\ Headers
      BY OwnInit
    <2>1. Live = {} /\ Ours = Msgs
      BY DEF Init, Live, Ours
    <2>2. Headers
      BY <2>1, ProducerAssumption DEF Init, Headers
    <2>3. PayloadAnchored
      BY DEF Init, PayloadAnchored
    <2> QED BY <2>2, <2>3 DEF Init, Anchors
  <1>2. Own /\ Anchors /\ Headers /\ [Next]_vars => (Own /\ Anchors /\ Headers)'
    BY OwnStep, AnchorStep, HeadersStep
  <1>3. Own /\ Anchors /\ Headers => HeadersFreed /\ NoDoubleFree
    <2> SUFFICES ASSUME Own, Anchors, Headers PROVE HeadersFreed /\ NoDoubleFree
      OBVIOUS
    <2>1. \A m \in Msgs : Finished(m) => m \notin Ours
      BY DEF Finished, Ours
    <2>2. HeadersFreed
      BY <2>1, ProducerAssumption DEF HeadersFreed, Headers
    <2> QED BY <2>2 DEF NoDoubleFree, Headers, Anchors
  <1> QED BY <1>1, <1>2, <1>3, PTL DEF Spec

-----------------------------------------------------------------------------
(* Reports.  What has left its producing thread belongs to a call that has *)
(* returned or will return NoError, and such a message is not produced     *)
(* again.                                                                  *)
Succeeds(m) == m \in accepted \/ \E t \in Threads : cur[t] = m /\ pc[t] = "ok"

Reports ==
    /\ \A m \in reported : \A x \in Readable : m \notin at[x]
    /\ \A m \in reported : Succeeds(m)
    /\ \A x \in Shared : \A m \in at[x] : Succeeds(m)
    /\ \A t \in Threads : cur[t] \notin accepted
    /\ todo \cap accepted = {}

(* Own and Reports keep a message that is in `bytes' from having been      *)
(* reported, unless its call is about to succeed.                          *)
LEMMA NotReported ==
    ASSUME Own, Reports, NEW t \in Threads, pc[t] \notin {"idle", "ok"}
    PROVE  cur[t] \in Msgs /\ ~Succeeds(cur[t]) /\ cur[t] \notin reported
  <1>1. cur[t] \in Msgs /\ \A u \in Threads : u # t => cur[u] # cur[t]
    BY DEF Own, Shapes, Held
  <1>2. ~Succeeds(cur[t])
    BY <1>1 DEF Reports, Succeeds
  <1> QED BY <1>1, <1>2 DEF Reports

(* The reports' invariant is inductive.                                    *)
LEMMA ReportsStep == Own /\ Reports /\ [Next]_vars => Reports'
  <1> SUFFICES ASSUME Own, Reports, Kind PROVE Reports'
    BY Kinds
  <1>0. Shapes /\ Exclusive /\ Held
    BY DEF Own
  <1>s. Readable \subseteq Places /\ Shared \subseteq Places
    BY DEF Readable, Shared
  <1> USE ProducerAssumption
  <1>1. ASSUME NEW t \in Threads, NEW m \in Msgs, Bytes(t, m) PROVE Reports'
    <2>1. /\ pc[t] = "idle" /\ m \in todo
          /\ pc' = [pc EXCEPT ![t] = "check"] /\ cur' = [cur EXCEPT ![t] = m]
          /\ todo' = todo \ {m} /\ UNCHANGED <<at, accepted, reported>>
      BY <1>1 DEF Bytes
    <2>2. \A k : Succeeds(k) => Succeeds(k)'
      BY <1>0, <2>1 DEF Succeeds, Shapes
    <2>3. \A u \in Threads : cur'[u] \notin accepted'
      BY <1>0, <2>1 DEF Reports, Shapes
    <2> QED BY <2>1, <2>2, <2>3 DEF Reports
  <1>2. ASSUME NEW t \in Threads, CheckProduce(t) \/ CurrMsgsFull(t) \/ SpuriousWakeup(t)
                                    \/ ProduceBytesBlocking(t)
        PROVE  Reports'
    <2>1. /\ pc[t] \notin {"idle", "ok"} /\ UNCHANGED <<at, cur, todo, accepted, reported>>
          /\ \E s \in PCs \ {"idle", "ok"} : pc' = [pc EXCEPT ![t] = s]
      BY <1>2 DEF CheckProduce, CurrMsgsFull, SpuriousWakeup, ProduceBytesBlocking, PCs
    <2>2. \A k : Succeeds(k) => Succeeds(k)'
      BY <1>0, <2>1 DEF Succeeds, Shapes
    <2> QED BY <2>1, <2>2 DEF Reports
  <1>3. ASSUME NEW t \in Threads, MsgNew(t) PROVE Reports'
    <2>1. PICK m \in Msgs : m = cur[t]
      BY <1>0, <1>3 DEF MsgNew, Shapes, Held
    <2>2. /\ pc[t] = "add" /\ pc' = [pc EXCEPT ![t] = "partition"]
          /\ at' = [at EXCEPT ![New(t)] = @ \cup {m}] /\ New(t) \in Places
          /\ UNCHANGED <<cur, todo, accepted, reported>>
      BY <1>3, <2>1, PlacesDistinct DEF MsgNew
    <2>3. \A z \in Places : at'[z] = IF z = New(t) THEN at[z] \cup {m} ELSE at[z]
      BY <1>0, <2>2 DEF Shapes
    <2>4. m \notin reported
      BY <2>1, <2>2, NotReported
    <2>5. \A k : Succeeds(k) => Succeeds(k)'
      BY <1>0, <2>2 DEF Succeeds, Shapes
    <2>6. \A k \in reported' : \A x \in Readable : k \notin at'[x]
      BY <1>s, <2>2, <2>3, <2>4 DEF Reports
    <2>7. \A x \in Shared : \A k \in at'[x] : Succeeds(k)'
      BY <1>s, <2>3, <2>5 DEF Reports, Shared
    <2> QED BY <2>2, <2>5, <2>6, <2>7 DEF Reports
  <1>4. ASSUME NEW t \in Threads, Partition(t) PROVE Reports'
    <2>1. PICK m \in Msgs : m = cur[t]
      BY <1>0, <1>4 DEF Partition, Shapes, Held
    <2>2. /\ pc[t] = "partition" /\ pc' = [pc EXCEPT ![t] = "ok"]
          /\ Move(m, New(t), Msgq)
          /\ UNCHANGED <<cur, todo, accepted, reported>>
      BY <1>4, <2>1 DEF Partition, rkmVars
    <2>3. New(t) \in Places /\ Msgq \in Places /\ New(t) # Msgq /\ New(t) \in Readable
      BY PlacesDistinct DEF Readable
    <2>4. /\ m \in at[New(t)]
          /\ \A z \in Places : at'[z] = IF z = New(t) THEN at[New(t)] \ {m}
                                ELSE IF z = Msgq THEN at[Msgq] \cup {m} ELSE at[z]
      BY <1>0, <2>2, <2>3, MoveEffect DEF Move
    <2>5. m \notin reported
      BY <2>3, <2>4 DEF Reports
    <2>6. (\A k : Succeeds(k) => Succeeds(k)') /\ Succeeds(m)'
      BY <1>0, <2>1, <2>2 DEF Succeeds, Shapes
    <2>7. \A k \in reported' : \A x \in Readable : k \notin at'[x]
      BY <1>s, <2>2, <2>4, <2>5 DEF Reports
    <2>8. \A x \in Shared : \A k \in at'[x] : Succeeds(k)'
      BY <1>s, <2>4, <2>6 DEF Reports, Shared
    <2> QED BY <2>2, <2>6, <2>7, <2>8 DEF Reports
  <1>5. ASSUME NEW t \in Threads, PartitionFails(t) PROVE Reports'
    <2>1. PICK m \in Msgs : m = cur[t]
      BY <1>0, <1>5 DEF PartitionFails, Shapes, Held
    <2>2. /\ pc[t] = "partition" /\ m \in at[New(t)] /\ New(t) \in Places
          /\ at' = [at EXCEPT ![New(t)] = @ \ {m}]
          /\ UNCHANGED <<cur, todo, accepted, reported>>
          /\ pc' = Woken([pc EXCEPT ![t] = "error"], m)
      BY <1>5, <2>1, PlacesDistinct DEF PartitionFails
    <2>3. \A u \in Threads : pc[u] = "ok" => pc'[u] = "ok"
      BY <1>0, <2>2 DEF Woken, Shapes
    <2>4. \A z \in Places : at'[z] \subseteq at[z]
      BY <1>0, <2>2 DEF Shapes
    <2>5. \A k : Succeeds(k) => Succeeds(k)'
      BY <2>2, <2>3 DEF Succeeds
    <2> QED BY <1>s, <2>2, <2>4, <2>5 DEF Reports
  <1>6. ASSUME NEW t \in Threads, ReturnOk(t) PROVE Reports'
    <2>1. /\ pc[t] = "ok" /\ pc' = [pc EXCEPT ![t] = "idle"]
          /\ cur' = [cur EXCEPT ![t] = Nobody]
          /\ accepted' = accepted \cup {cur[t]} /\ UNCHANGED <<at, todo, reported>>
      BY <1>6 DEF ReturnOk
    <2>2. cur[t] \in Msgs /\ cur[t] # Nobody /\ Nobody \notin accepted /\ cur[t] \notin todo
            /\ \A u \in Threads : u # t => cur[u] # cur[t]
      BY <1>0, <2>1 DEF Shapes, Held
    <2>3. \A k : Succeeds(k) => Succeeds(k)'
      BY <1>0, <2>1 DEF Succeeds, Shapes
    <2>4. \A u \in Threads : cur'[u] \notin accepted'
      BY <1>0, <2>1, <2>2 DEF Reports, Shapes
    <2> QED BY <2>1, <2>2, <2>3, <2>4 DEF Reports
  <1>7. ASSUME NEW t \in Threads, FinishWithError(t) PROVE Reports'
    <2>1. /\ pc[t] = "error" /\ pc' = [pc EXCEPT ![t] = "idle"]
          /\ cur' = [cur EXCEPT ![t] = Nobody]
          /\ UNCHANGED <<at, todo, accepted, reported>>
      BY <1>7 DEF FinishWithError
    <2>2. \A k : Succeeds(k) => Succeeds(k)'
      BY <1>0, <2>1 DEF Succeeds, Shapes
    <2>3. \A u \in Threads : cur'[u] \notin accepted'
      BY <1>0, <2>1 DEF Reports, Shapes
    <2> QED BY <2>1, <2>2, <2>3 DEF Reports
  <1>8. ASSUME NEW m \in Msgs, NEW x \in Queues, NEW y \in Queues, x # y,
               Passes(m, x, y)
        PROVE  Reports'
    <2>1. Move(m, x, y) /\ UNCHANGED <<pc, cur, todo, accepted, reported>>
      BY <1>8 DEF Passes, hsVars
    <2>2. x \in Places /\ y \in Places /\ x \in Readable /\ x \in Shared
      BY PlacesDistinct, SharedPlaces DEF Queues, Readable
    <2>3. m \in at[x] /\ \A z \in Places : at'[z] = IF z = x THEN at[x] \ {m}
                                   ELSE IF z = y THEN at[y] \cup {m} ELSE at[z]
      BY <1>0, <1>8, <2>1, <2>2, MoveEffect DEF Move
    <2>4. m \notin reported /\ Succeeds(m)
      BY <2>2, <2>3 DEF Reports
    <2>5. \A k : Succeeds(k) => Succeeds(k)'
      BY <2>1 DEF Succeeds
    <2>6. \A k \in reported' : \A z \in Readable : k \notin at'[z]
      BY <1>s, <2>1, <2>3, <2>4 DEF Reports
    <2>7. \A z \in Shared : \A k \in at'[z] : Succeeds(k)'
      BY <1>s, <2>3, <2>4, <2>5 DEF Reports
    <2> QED BY <2>1, <2>5, <2>6, <2>7 DEF Reports
  <1>9. ASSUME NEW m \in Msgs, NEW x \in Shared, Destroys(m, x) PROVE Reports'
    <2>1. /\ \A t \in Threads : pc'[t] = "ok" <=> pc[t] = "ok"
          /\ UNCHANGED <<cur, todo, accepted, reported>>
      BY <1>9, DestroyedWas
    <2>2. m \in at[x] /\ at' = [at EXCEPT ![x] = @ \ {m}]
      BY <1>9 DEF Destroys, MsgDestroy
    <2>3. \A z \in Places : at'[z] \subseteq at[z]
      BY <1>0, <2>2 DEF Shapes
    <2>4. \A k : Succeeds(k) => Succeeds(k)'
      BY <2>1 DEF Succeeds
    <2> QED BY <1>s, <2>1, <2>3, <2>4 DEF Reports
  <1>10. ASSUME NEW p \in Pollers, Serves(p) PROVE Reports'
    <2>1. UNCHANGED <<pc, cur, todo, accepted, reported>>
      BY <1>10 DEF Serves, hsVars
    <2>2. \A z \in Places : at'[z] = IF z = Rep THEN {}
                                     ELSE IF z = Local(p) THEN at[z] \cup at[Rep]
                                     ELSE at[z]
      BY <1>0, <1>10, ServeEffect DEF Serves, QServe
    <2>3. Rep \in Readable /\ Rep \in Shared
      BY PlacesDistinct, SharedPlaces DEF Readable
    <2>4. \A k : Succeeds(k) => Succeeds(k)'
      BY <2>1 DEF Succeeds
    <2> QED BY <1>s, <2>1, <2>2, <2>3, <2>4 DEF Reports
  <1>11. ASSUME NEW p \in Pollers, NEW m \in Msgs, DrMsgCb(p, m) PROVE Reports'
    <2>1. /\ Move(m, Local(p), Called(p)) /\ UNCHANGED <<pc, cur, todo, accepted>>
          /\ reported' = reported \cup {m}
      BY <1>11 DEF DrMsgCb
    <2>2. Local(p) \in Places /\ Called(p) \in Places /\ Local(p) # Called(p)
            /\ Local(p) \in Shared /\ Called(p) \notin Readable
      BY PlacesDistinct, SharedPlaces DEF Readable
    <2>3. /\ m \in at[Local(p)]
          /\ \A z \in Places : at'[z] = IF z = Local(p) THEN at[Local(p)] \ {m}
                                ELSE IF z = Called(p) THEN at[Called(p)] \cup {m} ELSE at[z]
      BY <1>0, <2>1, <2>2, MoveEffect DEF Move
    <2>4. Succeeds(m)
      BY <2>2, <2>3 DEF Reports
    <2>5. \A z \in Readable : m \notin at'[z]
      BY <1>0, <1>s, <2>2, <2>3 DEF Exclusive
    <2>6. \A k : Succeeds(k) => Succeeds(k)'
      BY <2>1 DEF Succeeds
    <2>7. \A k \in reported' : \A z \in Readable : k \notin at'[z]
      BY <1>s, <2>1, <2>2, <2>3, <2>5 DEF Reports
    <2>8. \A z \in Shared : \A k \in at'[z] : Succeeds(k)'
      BY <1>s, <2>3, <2>4, <2>6 DEF Reports
    <2> QED BY <2>1, <2>4, <2>6, <2>7, <2>8 DEF Reports
  <1>12. CASE Rests
    <2>1. UNCHANGED <<at, pc, cur, todo, accepted, reported>>
      BY <1>12 DEF Rests, hsVars
    <2> QED BY <2>1 DEF Reports, Succeeds
  <1> QED BY <1>1, <1>2, <1>3, <1>4, <1>5, <1>6, <1>7, <1>8, <1>9, <1>10, <1>11,
             <1>12 DEF Kind, BytesStep

(* Reports are what ReportOnce says.                                       *)
LEMMA ReportsSay == Reports => ReportOnce
  BY DEF Reports, ReportOnce, Succeeds, Readable

(* A delivery report is made at most once for a message, only for one      *)
(* whose produce call succeeds, and ends its life in librdkafka.           *)
THEOREM ReportedOnce == Spec => []ReportOnce
  <1>1. Init => Own /\ Reports
    <2> SUFFICES ASSUME Init PROVE Reports
      BY OwnInit
    <2> QED BY ProducerAssumption DEF Init, Reports, Shared
  <1>2. Own /\ Reports /\ [Next]_vars => (Own /\ Reports)'
    BY OwnStep, ReportsStep
  <1> QED BY <1>1, <1>2, ReportsSay, PTL DEF Spec

-----------------------------------------------------------------------------
(* The steps once more, with what they do to the termination, to rk_rep    *)
(* and to a flush.                                                         *)
Frame == UNCHANGED <<term, repOpen, flush>>

CalledPlaces == {Called(p) : p \in Pollers}

Reporting == Queues \ {Rep}

(* A message is destroyed without a report only when it was reported, when *)
(* the client is being destroyed, or when only errors are to be reported.  *)
Control ==
    \/ (\E t \in Threads : BytesStep(t)) /\ Frame
    \/ \E m \in Msgs, x \in Reporting, y \in Queues :
          x # y /\ Passes(m, x, y) /\ (y = Rep => repOpen) /\ Frame
    \/ \E m \in Msgs, x \in Shared :
          /\ Destroys(m, x) /\ Frame
          /\ x \in CalledPlaces \/ term # "up" \/ ~repOpen \/ DrErrOnly
    \/ \E p \in Pollers : Serves(p) /\ term = "up" /\ Frame
    \/ \E p \in Pollers : Serves(p) /\ FlushPoll(p)
    \/ (\E p \in Pollers, m \in Msgs : DrMsgCb(p, m)) /\ Frame
    \/ Rests /\ Frame
    \/ Rests /\ ((\E p \in Pollers : FlushCall(p)) \/ FlushQlen \/ FlushCnt \/ FlushReturn)
    \/ Rests /\ (Close \/ DisableRep \/ JoinBrokers \/ Destroyed)

(* A report on a queue or in a request, as one of those.                   *)
LEMMA DrMsgqControl ==
    ASSUME NEW m \in Msgs, NEW x \in Reporting, NEW err \in BOOLEAN,
           DrMsgq(m, x, err), hsUnchanged, UNCHANGED <<term, repOpen, reported, flush>>
    PROVE  Control
  <1>0. x \in Queues /\ Rep \in Queues /\ x # Rep /\ x \in Shared
    BY SharedPlaces DEF Queues, Reporting
  <1>1. CASE repOpen /\ Move(m, x, Rep) /\ UNCHANGED <<curr, pc, hdrs, bad>>
    <2>1. Passes(m, x, Rep)
      BY <1>1 DEF Passes, hsUnchanged, hsVars
    <2> QED BY <1>0, <1>1, <2>1 DEF Control, Frame
  <1>2. CASE MsgDestroy(m, x) /\ (~repOpen \/ DrErrOnly)
    <2>1. Destroys(m, x)
      BY <1>2 DEF Destroys, hsUnchanged
    <2> QED BY <1>0, <1>2, <2>1 DEF Control, Frame
  <1> QED BY <1>1, <1>2 DEF DrMsgq

(* Every step is one of those.                                             *)
LEMMA Controls == [Next]_vars => Control
  <1> SUFFICES ASSUME [Next]_vars PROVE Control
    OBVIOUS
  <1>1. ASSUME NEW t \in Threads, BytesStep(t) PROVE Control
    <2>1. Frame
      BY <1>1 DEF BytesStep, Bytes, CheckProduce, MsgNew, CurrMsgsFull, SpuriousWakeup,
         Partition, PartitionFails, ReturnOk, ProduceBytesBlocking, FinishWithError, Frame
    <2> QED BY <1>1, <2>1 DEF Control
  <1>2. ASSUME NEW m \in Msgs, BrokerStep(m) PROVE Control
    <2>0. Msgq \in Reporting /\ Xmit \in Reporting /\ Inflight \in Reporting
            /\ Reporting \subseteq Queues
      BY PlacesDistinct DEF Reporting, Queues
    <2>1. CASE Serve(m)
      <3>1. Passes(m, Msgq, Xmit) /\ Frame
        BY <2>1 DEF Serve, Passes, hsUnchanged, hsVars, Frame
      <3> QED BY <2>0, <3>1, PlacesDistinct DEF Control
    <2>2. CASE ProduceRequest(m)
      <3>1. Passes(m, Xmit, Inflight) /\ Frame
        BY <2>2 DEF ProduceRequest, Passes, hsUnchanged, hsVars, Frame
      <3> QED BY <2>0, <3>1, PlacesDistinct DEF Control
    <2>3. CASE Retry(m)
      <3>1. Passes(m, Inflight, Msgq) /\ Frame
        BY <2>3 DEF Retry, Passes, hsUnchanged, hsVars, Frame
      <3> QED BY <2>0, <3>1, PlacesDistinct DEF Control
    <2>4. ASSUME NEW err \in BOOLEAN, HandleProduce(m, err) PROVE Control
      BY <2>0, <2>4, DrMsgqControl DEF HandleProduce
    <2>5. CASE MsgqScan(m) \/ PartitionLeave(m) \/ Purge(m)
      <3>1. PICK x \in {Msgq, Xmit} : DrMsgq(m, x, TRUE)
        BY <2>5 DEF MsgqScan, PartitionLeave, Purge
      <3>2. hsUnchanged /\ UNCHANGED <<term, repOpen, reported, flush>>
        BY <2>5 DEF MsgqScan, PartitionLeave, Purge
      <3> QED BY <2>0, <3>1, <3>2, DrMsgqControl
    <2> QED BY <1>2, <2>1, <2>2, <2>3, <2>4, <2>5 DEF BrokerStep
  <1>3. ASSUME NEW p \in Pollers, Poll(p) PROVE Control
    <2>1. Serves(p) /\ term = "up" /\ Frame
      BY <1>3 DEF Poll, Serves, hsUnchanged, hsVars, Frame
    <2> QED BY <2>1 DEF Control
  <1>4. ASSUME NEW p \in Pollers, NEW m \in Msgs, DrMsgCb(p, m) PROVE Control
    <2>1. Frame
      BY <1>4 DEF DrMsgCb, Frame
    <2> QED BY <1>4, <2>1 DEF Control
  <1>5. ASSUME NEW p \in Pollers, NEW m \in Msgs, DrDestroy(p, m) PROVE Control
    <2>1. Destroys(m, Called(p)) /\ Frame /\ Called(p) \in CalledPlaces /\ Called(p) \in Shared
      BY <1>5, SharedPlaces DEF DrDestroy, Destroys, hsUnchanged, Frame, CalledPlaces
    <2> QED BY <2>1 DEF Control
  <1>6. ASSUME NEW p \in Pollers, FlushCall(p) PROVE Control
    <2>1. Rests
      BY <1>6 DEF FlushCall, Rests, hsUnchanged, hsVars
    <2> QED BY <1>6, <2>1 DEF Control
  <1>7. ASSUME NEW p \in Pollers, FlushPoll(p) PROVE Control
    <2>1. Serves(p)
      BY <1>7 DEF FlushPoll, Serves, hsUnchanged, hsVars
    <2> QED BY <1>7, <2>1 DEF Control
  <1>8. CASE FlushQlen \/ FlushCnt \/ FlushReturn
    <2>1. Rests
      BY <1>8 DEF FlushQlen, FlushCnt, FlushReturn, Rests, hsUnchanged, hsVars
    <2> QED BY <1>8, <2>1 DEF Control
  <1>9. CASE Close \/ DisableRep \/ JoinBrokers \/ Destroyed
    <2>1. Rests
      BY <1>9 DEF Close, DisableRep, JoinBrokers, Destroyed, Rests, hsUnchanged, hsVars
    <2> QED BY <1>9, <2>1 DEF Control
  <1>10. ASSUME NEW m \in Msgs, PartitionsRemove(m) PROVE Control
    <2>1. Destroys(m, Msgq) /\ Frame /\ term # "up" /\ Msgq \in Shared
      BY <1>10, SharedPlaces DEF PartitionsRemove, Destroys, hsUnchanged, Frame
    <2> QED BY <2>1 DEF Control
  <1>11. ASSUME NEW m \in Msgs, PurgeRep(m) PROVE Control
    <2>1. Destroys(m, Rep) /\ Frame /\ term # "up" /\ Rep \in Shared
      BY <1>11, SharedPlaces DEF PurgeRep, Destroys, hsUnchanged, Frame
    <2> QED BY <2>1 DEF Control
  <1>12. CASE SetFatal
    <2>1. Rests /\ Frame
      BY <1>12 DEF SetFatal, Rests, hsUnchanged, hsVars, Frame
    <2> QED BY <2>1 DEF Control
  <1>13. CASE UNCHANGED vars
    <2>1. Rests /\ Frame
      BY <1>13 DEF vars, Rests, Frame
    <2> QED BY <2>1 DEF Control
  <1> QED BY <1>1, <1>2, <1>3, <1>4, <1>5, <1>6, <1>7, <1>8, <1>9, <1>10, <1>11, <1>12,
             <1>13 DEF Next, PollStep, FlushStep, CloseStep

-----------------------------------------------------------------------------
(* Termination.  rd_kafka_destroy finds no thread in `bytes', in poll or   *)
(* in flush, and nobody enters afterwards; rk_rep is empty once it has     *)
(* been disabled and purged, and what the brokers hold is gone when they   *)
(* have been joined.                                                       *)
Closing ==
    /\ flush.at = "idle" <=> flush.by = Nobody
    /\ term # "up" =>
          /\ flush.at = "idle"
          /\ \A t \in Threads : pc[t] = "idle"
          /\ \A p \in Pollers : at[Local(p)] = {} /\ at[Called(p)] = {}
    /\ repOpen <=> term \in {"up", "remove_topics"}
    /\ term \in {"join_brokers", "closed"} => at[Rep] = {}
    /\ term = "closed" => at[Inflight] = {} /\ at[Msgq] = {} /\ at[Xmit] = {}

(* Termination's invariant is inductive.                                   *)
LEMMA ClosingStep == Own /\ Closing /\ [Next]_vars => Closing'
  <1> SUFFICES ASSUME Own, Closing, Control PROVE Closing'
    BY Controls
  <1>0. Shapes /\ Exclusive /\ Held
    BY DEF Own
  <1>d. /\ \A p \in Pollers : Local(p) \in Places /\ Called(p) \in Places
        /\ Queues \subseteq Places
        /\ \A p \in Pollers : Local(p) \notin Queues /\ Called(p) \notin Queues
        /\ Rep \in Queues /\ Msgq \in Queues /\ Xmit \in Queues /\ Inflight \in Queues
    BY PlacesDistinct DEF Queues
  <1> USE ProducerAssumption
  <1>1. ASSUME NEW t \in Threads, BytesStep(t), Frame PROVE Closing'
    <2>1. term = "up"
      BY <1>1 DEF BytesStep, Bytes, CheckProduce, MsgNew, CurrMsgsFull, SpuriousWakeup,
         Partition, PartitionFails, ReturnOk, ProduceBytesBlocking, FinishWithError, Closing
    <2> QED BY <1>1, <2>1 DEF Closing, Frame
  <1>2. ASSUME NEW m \in Msgs, NEW x \in Reporting, NEW y \in Queues,
               x # y, Passes(m, x, y), y = Rep => repOpen, Frame
        PROVE  Closing'
    <2>1. Move(m, x, y) /\ UNCHANGED pc
      BY <1>2 DEF Passes, hsVars
    <2>2. x \in Places /\ y \in Places /\ x \in Queues /\ x # Rep
      BY <1>d DEF Reporting
    <2>3. m \in at[x] /\ \A z \in Places : at'[z] = IF z = x THEN at[x] \ {m}
                                   ELSE IF z = y THEN at[y] \cup {m} ELSE at[z]
      BY <1>0, <1>2, <2>1, <2>2, MoveEffect DEF Move
    <2>4. term # "closed"
      BY <2>2, <2>3 DEF Closing, Queues
    <2>5. \A p \in Pollers : at'[Local(p)] = at[Local(p)] /\ at'[Called(p)] = at[Called(p)]
      BY <1>d, <2>2, <2>3
    <2>6. ~repOpen => at'[Rep] \subseteq at[Rep]
      BY <1>2, <1>d, <2>3
    <2> QED BY <1>2, <2>1, <2>4, <2>5, <2>6 DEF Closing, Frame
  <1>3. ASSUME NEW m \in Msgs, NEW x \in Shared, Destroys(m, x), Frame PROVE Closing'
    <2>1. \A t \in Threads : pc'[t] = "idle" <=> pc[t] = "idle"
      BY <1>3, DestroyedWas
    <2>2. m \in at[x] /\ at' = [at EXCEPT ![x] = @ \ {m}]
      BY <1>3 DEF Destroys, MsgDestroy
    <2>3. \A z \in Places : at'[z] \subseteq at[z]
      BY <1>0, <2>2 DEF Shapes
    <2>4. \A p \in Pollers : at'[Local(p)] \subseteq at[Local(p)]
                             /\ at'[Called(p)] \subseteq at[Called(p)]
      BY <1>d, <2>3
    <2>5. \A z \in Queues : at'[z] \subseteq at[z]
      BY <1>d, <2>3
    <2>6. term # "up" => \A p \in Pollers : at'[Local(p)] = {} /\ at'[Called(p)] = {}
      BY <2>4 DEF Closing
    <2> QED BY <1>3, <1>d, <2>1, <2>5, <2>6 DEF Closing, Frame
  <1>4. ASSUME NEW p \in Pollers, Serves(p), term = "up", Frame PROVE Closing'
    BY <1>4 DEF Closing, Frame
  <1>5. ASSUME NEW p \in Pollers, FlushPoll(p) PROVE Closing'
    <2>1. /\ flush.at = "poll" /\ flush.by = p /\ flush' = [flush EXCEPT !.at = "serve"]
          /\ UNCHANGED <<term, repOpen>>
      BY <1>5 DEF FlushPoll
    <2>2. term = "up" /\ flush'.at = "serve" /\ flush'.by = p /\ p # Nobody
      BY <1>0, <2>1 DEF Closing, Shapes
    <2> QED BY <2>1, <2>2 DEF Closing
  <1>6. ASSUME NEW p \in Pollers, NEW m \in Msgs, DrMsgCb(p, m), Frame PROVE Closing'
    <2>1. m \in at[Local(p)]
      BY <1>6 DEF DrMsgCb, Move
    <2>2. term = "up"
      BY <2>1 DEF Closing
    <2> QED BY <1>6, <2>2 DEF Closing, Frame
  <1>7. CASE Rests /\ Frame
    BY <1>7 DEF Rests, Frame, Closing, hsVars
  <1>8. ASSUME NEW p \in Pollers, FlushCall(p) PROVE Closing'
    <2>1. /\ term = "up" /\ UNCHANGED <<term, repOpen>>
          /\ flush'.at = "poll" /\ flush'.by = p /\ p # Nobody
      BY <1>8 DEF FlushCall
    <2> QED BY <2>1 DEF Closing
  <1>9. CASE FlushQlen \/ FlushCnt
    <2>1. flush.at # "idle" /\ UNCHANGED <<term, repOpen>>
      BY <1>9 DEF FlushQlen, FlushCnt
    <2>2. flush'.at # "idle" /\ flush'.by = flush.by
      BY <1>0, <1>9 DEF FlushQlen, FlushCnt, Shapes
    <2> QED BY <2>1, <2>2 DEF Closing
  <1>10. CASE FlushReturn
    <2>1. flush.at # "idle" /\ UNCHANGED <<term, repOpen>>
            /\ flush'.at = "idle" /\ flush'.by = Nobody
      BY <1>10 DEF FlushReturn, FlushIdle
    <2> QED BY <2>1 DEF Closing
  <1>11. CASE Close
    <2>1. /\ term = "up" /\ term' = "remove_topics" /\ UNCHANGED <<at, pc, repOpen, flush>>
          /\ \A t \in Threads : pc[t] = "idle"
          /\ \A p \in Pollers : at[Local(p)] = {} /\ at[Called(p)] = {} /\ flush.by # p
      BY <1>11 DEF Close, PollerIdle
    <2>2. flush.by = Nobody
      BY <1>0, <2>1 DEF Shapes
    <2> QED BY <2>1, <2>2 DEF Closing
  <1>12. CASE DisableRep \/ JoinBrokers \/ Destroyed
    <2>1. UNCHANGED <<at, pc, flush>>
      BY <1>12 DEF DisableRep, JoinBrokers, Destroyed
    <2> QED BY <1>12, <2>1 DEF DisableRep, JoinBrokers, Destroyed, Closing
  <1> QED BY <1>1, <1>2, <1>3, <1>4, <1>5, <1>6, <1>7, <1>8, <1>9, <1>10, <1>11,
             <1>12 DEF Control

-----------------------------------------------------------------------------
(* How a step changes the set of live messages: rd_kafka_msg_new0() makes  *)
(* one, a failing partitioner or rd_kafka_msg_destroy() ends one.          *)
LEMMA LiveChange ==
    ASSUME Own, Kind
    PROVE  \/ \E t \in Threads : MsgNew(t) /\ Live' = Live \cup {cur[t]}
           \/ \E t \in Threads : /\ PartitionFails(t) /\ cur[t] \in Live
                                /\ Live' = Live \ {cur[t]}
           \/ \E m \in Msgs, x \in Shared : Destroys(m, x) /\ Live' = Live \ {m}
           \/ Live' = Live
  <1>0. Shapes /\ Exclusive /\ Held
    BY DEF Own
  <1>1. ASSUME NEW t \in Threads, MsgNew(t) PROVE Live' = Live \cup {cur[t]}
    <2>1. at' = [at EXCEPT ![New(t)] = @ \cup {cur[t]}] /\ New(t) \in Places
      BY <1>1, PlacesDistinct DEF MsgNew
    <2>2. \A z \in Places : at'[z] = IF z = New(t) THEN at[z] \cup {cur[t]} ELSE at[z]
      BY <1>0, <2>1 DEF Shapes
    <2> QED BY <2>1, <2>2 DEF Live
  <1>2. ASSUME NEW t \in Threads, PartitionFails(t)
        PROVE  cur[t] \in Live /\ Live' = Live \ {cur[t]}
    <2>1. /\ cur[t] \in at[New(t)] /\ New(t) \in Places
          /\ at' = [at EXCEPT ![New(t)] = @ \ {cur[t]}]
      BY <1>2, PlacesDistinct DEF PartitionFails
    <2> QED BY <1>0, <2>1, RemoveEffect
  <1>3. ASSUME NEW t \in Threads, Partition(t) PROVE Live' = Live
    <2>1. Move(cur[t], New(t), Msgq) /\ New(t) \in Places /\ Msgq \in Places /\ New(t) # Msgq
      BY <1>3, PlacesDistinct DEF Partition
    <2> QED BY <1>0, <2>1, MoveEffect
  <1>4. ASSUME NEW t \in Threads, BytesStep(t), ~MsgNew(t), ~PartitionFails(t), ~Partition(t)
        PROVE  Live' = Live
    <2>1. at' = at
      BY <1>4 DEF BytesStep, Bytes, CheckProduce, CurrMsgsFull, SpuriousWakeup,
         ReturnOk, ProduceBytesBlocking, FinishWithError
    <2> QED BY <2>1 DEF Live
  <1>5. ASSUME NEW m \in Msgs, NEW x \in Queues, NEW y \in Queues, x # y, Passes(m, x, y)
        PROVE  Live' = Live
    <2>1. Move(m, x, y) /\ x \in Places /\ y \in Places
      BY <1>5, PlacesDistinct DEF Passes, Queues
    <2> QED BY <1>0, <1>5, <2>1, MoveEffect
  <1>6. ASSUME NEW m \in Msgs, NEW x \in Shared, Destroys(m, x) PROVE Live' = Live \ {m}
    BY <1>6, DestroyedWas
  <1>7. ASSUME NEW p \in Pollers, Serves(p) PROVE Live' = Live
    BY <1>0, <1>7, ServeEffect DEF Serves
  <1>8. ASSUME NEW p \in Pollers, NEW m \in Msgs, DrMsgCb(p, m) PROVE Live' = Live
    <2>1. Move(m, Local(p), Called(p)) /\ Local(p) \in Places /\ Called(p) \in Places
            /\ Local(p) # Called(p)
      BY <1>8, PlacesDistinct DEF DrMsgCb
    <2> QED BY <1>0, <2>1, MoveEffect
  <1>9. CASE Rests
    BY <1>9 DEF Rests, Live
  <1> QED BY <1>1, <1>2, <1>3, <1>4, <1>5, <1>6, <1>7, <1>8, <1>9 DEF Kind

-----------------------------------------------------------------------------
(* Nothing is lost while the client is up and every outcome is reported: a *)
(* message whose call succeeds is in librdkafka or has been reported, and  *)
(* what a poller is about to free has been.                                *)
Kept ==
    /\ \A p \in Pollers : at[Called(p)] \subseteq reported
    /\ term = "up" => \A m \in Msgs : Succeeds(m) => m \in Live \/ m \in reported

(* A step reports more, accepts more, and brings back nothing accepted.    *)
LEMMA Onward ==
    ASSUME Own, Reports, Kind
    PROVE  /\ reported \subseteq reported' /\ accepted \subseteq accepted'
           /\ Live' \cap accepted \subseteq Live
  <1>1. reported \subseteq reported' /\ accepted \subseteq accepted'
    BY DEF Kind, BytesStep, Bytes, CheckProduce, CurrMsgsFull, SpuriousWakeup, MsgNew, Partition,
       PartitionFails, ReturnOk, ProduceBytesBlocking, FinishWithError, Passes, Destroys, Serves,
       DrMsgCb, Rests
  <1>2. Live' \cap accepted \subseteq Live
    BY LiveChange DEF Reports
  <1> QED BY <1>1, <1>2

(* Kept is inductive when delivery.report.only.error is off.               *)
LEMMA KeptStep ==
    ASSUME ~DrErrOnly, Own, Reports, Closing, Kept, [Next]_vars
    PROVE  Kept'
  <1>0. Shapes /\ Exclusive /\ Held /\ Kind /\ Control
    BY Kinds, Controls DEF Own
  <1>o. reported \subseteq reported'
    BY <1>0, Onward
  <1> DEFINE Goal == term' = "up" => \A m \in Msgs : Succeeds(m)' => m \in Live' \/ m \in reported'
             Keeps == \A m \in Msgs : Succeeds(m)' => Succeeds(m)
  <1> USE ProducerAssumption
  <1>1. \A p \in Pollers : at'[Called(p)] \subseteq reported'
    <2>1. ASSUME NEW t \in Threads, BytesStep(t), NEW p \in Pollers
          PROVE  at'[Called(p)] = at[Called(p)]
      BY <1>0, <2>1, PlacesDistinct DEF BytesStep, Bytes, CheckProduce, MsgNew, CurrMsgsFull,
         SpuriousWakeup, Partition, PartitionFails, ReturnOk, ProduceBytesBlocking,
         FinishWithError, Move, Shapes
    <2>2. ASSUME NEW m \in Msgs, NEW x \in Queues, NEW y \in Queues, Passes(m, x, y),
                 NEW p \in Pollers
          PROVE  at'[Called(p)] = at[Called(p)]
      BY <1>0, <2>2, PlacesDistinct DEF Passes, Move, Queues, Shapes
    <2>3. ASSUME NEW m \in Msgs, NEW x \in Shared, Destroys(m, x), NEW p \in Pollers
          PROVE  at'[Called(p)] \subseteq at[Called(p)]
      BY <1>0, <2>3, PlacesDistinct DEF Destroys, MsgDestroy, Shapes
    <2>4. ASSUME NEW q \in Pollers, Serves(q), NEW p \in Pollers
          PROVE  at'[Called(p)] = at[Called(p)]
      BY <1>0, <2>4, PlacesDistinct DEF Serves, QServe, Shapes
    <2>5. ASSUME NEW q \in Pollers, NEW m \in Msgs, DrMsgCb(q, m), NEW p \in Pollers
          PROVE  at'[Called(p)] \subseteq at[Called(p)] \cup {m} /\ m \in reported'
      BY <1>0, <2>5, PlacesDistinct DEF DrMsgCb, Move, Shapes
    <2>6. ASSUME Rests, NEW p \in Pollers PROVE at'[Called(p)] = at[Called(p)]
      BY <2>6 DEF Rests
    <2> QED BY <1>0, <1>o, <2>1, <2>2, <2>3, <2>4, <2>5, <2>6 DEF Kind, Kept
  <1>t. term' = "up" => term = "up"
    BY <1>0 DEF Control, Frame, FlushPoll, FlushCall, FlushQlen, FlushCnt, FlushReturn, Close,
       DisableRep, JoinBrokers, Destroyed
  <1>a. ASSUME Live \subseteq Live', Keeps PROVE Goal
    BY <1>a, <1>o, <1>t DEF Kept
  <1> HIDE DEF Goal, Keeps
  <1>2. ASSUME NEW t \in Threads, BytesStep(t) PROVE Goal
    <2>1. CASE \E m \in Msgs : Bytes(t, m)
      <3>1. Keeps
        BY <1>0, <2>1 DEF Keeps, Bytes, Succeeds, Shapes
      <3>2. Live' = Live
        BY <2>1 DEF Bytes, Live
      <3> QED BY <1>a, <3>1, <3>2
    <2>2. CASE CheckProduce(t) \/ CurrMsgsFull(t) \/ SpuriousWakeup(t)
                 \/ ProduceBytesBlocking(t) \/ FinishWithError(t)
      <3>1. Keeps
        BY <1>0, <2>2 DEF Keeps, CheckProduce, CurrMsgsFull, SpuriousWakeup, ProduceBytesBlocking,
           FinishWithError, Succeeds, Shapes
      <3>2. Live' = Live
        BY <2>2 DEF CheckProduce, CurrMsgsFull, SpuriousWakeup, ProduceBytesBlocking,
           FinishWithError, Live
      <3> QED BY <1>a, <3>1, <3>2
    <2>3. CASE MsgNew(t)
      <3>1. Keeps
        BY <1>0, <2>3 DEF Keeps, MsgNew, Succeeds, Shapes
      <3>2. at' = [at EXCEPT ![New(t)] = @ \cup {cur[t]}] /\ New(t) \in Places
        BY <2>3, PlacesDistinct DEF MsgNew
      <3>3. \A z \in Places : at[z] \subseteq at'[z]
        BY <1>0, <3>2 DEF Shapes
      <3>4. Live \subseteq Live'
        BY <3>3 DEF Live
      <3> QED BY <1>a, <3>1, <3>4
    <2>4. CASE Partition(t)
      <3>1. Move(cur[t], New(t), Msgq) /\ New(t) \in Places /\ Msgq \in Places /\ New(t) # Msgq
        BY <2>4, PlacesDistinct DEF Partition
      <3>2. Live' = Live /\ cur[t] \in at[New(t)]
        BY <1>0, <3>1, MoveEffect
      <3>3. cur[t] \in Live'
        BY <3>1, <3>2, LiveOf
      <3>4. \A m \in Msgs : Succeeds(m)' => Succeeds(m) \/ m = cur[t]
        BY <1>0, <2>4 DEF Partition, Succeeds, Shapes
      <3> QED BY <1>o, <1>t, <3>2, <3>3, <3>4 DEF Kept, Goal
    <2>5. CASE PartitionFails(t)
      <3>1. /\ cur[t] \in at[New(t)] /\ New(t) \in Places /\ pc[t] = "partition"
            /\ at' = [at EXCEPT ![New(t)] = @ \ {cur[t]}]
            /\ pc' = Woken([pc EXCEPT ![t] = "error"], cur[t]) /\ UNCHANGED <<cur, accepted>>
        BY <2>5, PlacesDistinct DEF PartitionFails
      <3>2. Live' = Live \ {cur[t]}
        BY <1>0, <3>1, RemoveEffect
      <3>3. ~Succeeds(cur[t])
        BY <3>1, NotReported
      <3>4. \A u \in Threads : pc'[u] = "ok" => pc[u] = "ok"
        BY <1>0, <3>1 DEF Woken, Shapes
      <3>5. Keeps
        BY <3>1, <3>4 DEF Keeps, Succeeds
      <3> QED BY <1>o, <1>t, <3>2, <3>3, <3>5 DEF Kept, Goal, Keeps
    <2>6. CASE ReturnOk(t)
      <3>1. Keeps
        BY <1>0, <2>6 DEF Keeps, ReturnOk, Succeeds, Shapes
      <3>2. Live' = Live
        BY <2>6 DEF ReturnOk, Live
      <3> QED BY <1>a, <3>1, <3>2
    <2> QED BY <1>2, <2>1, <2>2, <2>3, <2>4, <2>5, <2>6 DEF BytesStep
  <1>3. ASSUME NEW m \in Msgs, NEW x \in Queues, NEW y \in Queues, x # y, Passes(m, x, y)
        PROVE  Goal
    <2>1. Move(m, x, y) /\ x \in Places /\ y \in Places /\ UNCHANGED <<pc, cur, accepted>>
      BY <1>3, PlacesDistinct DEF Passes, Queues, hsVars
    <2>2. Live' = Live
      BY <1>0, <1>3, <2>1, MoveEffect
    <2>3. Keeps
      BY <2>1 DEF Keeps, Succeeds
    <2> QED BY <1>a, <2>2, <2>3
  <1>4. ASSUME NEW m \in Msgs, NEW x \in Shared, Destroys(m, x), Frame,
               x \in CalledPlaces \/ term # "up" \/ ~repOpen \/ DrErrOnly
        PROVE  Goal
    <2>1. /\ Live' = Live \ {m}
          /\ \A t \in Threads : pc'[t] = "ok" <=> pc[t] = "ok"
          /\ UNCHANGED <<cur, accepted>>
      BY <1>4, DestroyedWas
    <2>2. Keeps
      BY <2>1 DEF Keeps, Succeeds
    <2>3. term = "up" => m \in reported
      <3>1. m \in at[x]
        BY <1>4 DEF Destroys, MsgDestroy
      <3> QED BY <1>4, <3>1 DEF Closing, Kept, CalledPlaces
    <2> QED BY <1>o, <1>t, <2>1, <2>2, <2>3 DEF Kept, Goal, Keeps
  <1>5. ASSUME NEW p \in Pollers, Serves(p) PROVE Goal
    <2>1. Live' = Live
      BY <1>0, <1>5, ServeEffect DEF Serves
    <2>2. Keeps
      BY <1>5 DEF Keeps, Serves, Succeeds, hsVars
    <2> QED BY <1>a, <2>1, <2>2
  <1>6. ASSUME NEW p \in Pollers, NEW m \in Msgs, DrMsgCb(p, m) PROVE Goal
    <2>1. Move(m, Local(p), Called(p)) /\ Local(p) \in Places /\ Called(p) \in Places
            /\ Local(p) # Called(p) /\ UNCHANGED <<pc, cur, accepted>>
      BY <1>6, PlacesDistinct DEF DrMsgCb
    <2>2. Live' = Live
      BY <1>0, <2>1, MoveEffect
    <2>3. Keeps
      BY <2>1 DEF Keeps, Succeeds
    <2> QED BY <1>a, <2>2, <2>3
  <1>7. ASSUME Rests PROVE Goal
    <2>1. Live' = Live
      BY <1>7 DEF Rests, Live
    <2>2. Keeps
      BY <1>7 DEF Keeps, Rests, Succeeds, hsVars
    <2> QED BY <1>a, <2>1, <2>2
  <1>8. Goal
    <2>1. Reporting \subseteq Queues
      BY DEF Reporting
    <2>2. CASE \E t \in Threads : BytesStep(t)
      BY <2>2, <1>2
    <2>3. CASE \E m \in Msgs, x \in Reporting, y \in Queues : x # y /\ Passes(m, x, y)
      BY <2>1, <2>3, <1>3
    <2>4. CASE \E p \in Pollers, m \in Msgs : DrMsgCb(p, m)
      BY <2>4, <1>6
    <2>5. CASE \E p \in Pollers : Serves(p)
      BY <2>5, <1>5
    <2> QED BY <1>0, <1>4, <1>7, <2>2, <2>3, <2>4, <2>5 DEF Control
  <1> QED BY <1>1, <1>8 DEF Kept, Goal

-----------------------------------------------------------------------------
(* rd_kafka_flush waits for messages whose produce call had returned.      *)
Flushing == flush.pending \subseteq accepted /\ FlushDelivers

(* It is inductive: a count of zero means that none of them is left, and   *)
(* none comes back before flush returns.                                   *)
LEMMA FlushingStep ==
    ASSUME Own, CountExact, Reports, Closing, Kept, Flushing, [Next]_vars
    PROVE  Flushing'
  <1>0. Shapes /\ Kind /\ Control
    BY Kinds, Controls DEF Own
  <1>1. /\ reported \subseteq reported' /\ accepted \subseteq accepted'
        /\ Live' \cap accepted \subseteq Live
    BY <1>0, Onward
  <1>2. CASE flush' = flush
    BY <1>1, <1>2 DEF Flushing, FlushDelivers
  <1>3. CASE \E p \in Pollers : FlushPoll(p) \/ FlushCall(p)
    BY <1>0, <1>1, <1>3 DEF FlushPoll, FlushCall, Flushing, FlushDelivers, Shapes, hsUnchanged
  <1>4. CASE FlushQlen \/ FlushReturn
    <2>1. flush'.at \in {"cnt", "idle"} /\ flush'.pending \in {flush.pending, {}}
      <3>1. CASE FlushQlen
        BY <1>0, <3>1 DEF FlushQlen, Shapes
      <3>2. CASE FlushReturn
        BY <3>2 DEF FlushReturn, FlushIdle
      <3> QED BY <1>4, <3>1, <3>2
    <2> QED BY <1>1, <2>1 DEF Flushing, FlushDelivers
  <1>5. CASE FlushCnt
    <2>1. /\ flush.at = "cnt" /\ UNCHANGED <<at, accepted, reported>>
          /\ flush'.pending = flush.pending
          /\ flush'.at = "ok" => cnt = 0
      BY <1>0, <1>5 DEF FlushCnt, Shapes, hsUnchanged
    <2>2. flush.pending \subseteq accepted /\ accepted \subseteq Msgs /\ term = "up"
      BY <1>0, <2>1 DEF Flushing, Shapes, Closing
    <2>3. cnt = 0 => Live = {}
      BY LiveFinite, FS_EmptySet DEF CountExact, Own
    <2>4. cnt = 0 => flush.pending \subseteq reported
      BY <2>2, <2>3 DEF Kept, Succeeds
    <2>5. Live' = Live
      BY <2>1 DEF Live
    <2> QED BY <2>1, <2>2, <2>3, <2>4, <2>5 DEF Flushing, FlushDelivers
  <1>6. CASE Close \/ DisableRep \/ JoinBrokers \/ Destroyed
    BY <1>2, <1>6 DEF Close, DisableRep, JoinBrokers, Destroyed
  <1> QED BY <1>0, <1>2, <1>3, <1>4, <1>5, <1>6 DEF Control, Frame

(* What every part of the invariant is initially.                          *)
LEMMA LifeInit == Init => Own /\ CountExact /\ Reports /\ Closing /\ Kept /\ Flushing
  <1> SUFFICES ASSUME Init PROVE CountExact /\ Reports /\ Closing /\ Kept /\ Flushing
    BY OwnInit
  <1>1. Live = {} /\ cnt = 0
    BY DEF Init, Live
  <1>2. CountExact
    BY <1>1, FS_EmptySet, ProducerAssumption DEF CountExact
  <1>3. Reports
    BY ProducerAssumption DEF Init, Reports, Shared
  <1>4. Closing
    BY DEF Init, Closing, FlushIdle
  <1>5. Kept
    BY PlacesDistinct DEF Init, Kept, Succeeds
  <1>6. Flushing
    BY DEF Init, Flushing, FlushDelivers, FlushIdle
  <1> QED BY <1>2, <1>3, <1>4, <1>5, <1>6

(* When rd_kafka_flush returns NO_ERROR, every message whose call returned *)
(* before the flush has been reported and freed, although flush reads the  *)
(* length of rk_rep and the count under different locks, and whatever the  *)
(* other pollers, producers and broker threads do meanwhile: unless the    *)
(* application asked for errors only.                                      *)
THEOREM FlushComplete ==
    ASSUME ~DrErrOnly
    PROVE  Spec => []FlushDelivers
  <1> DEFINE Inv == Own /\ CountExact /\ Reports /\ Closing /\ Kept /\ Flushing
  <1>1. Init => Inv
    BY LifeInit
  <1>2. Inv /\ [Next]_vars => Inv'
    BY OwnStep, CountStep, ReportsStep, ClosingStep, KeptStep, FlushingStep
  <1>3. Inv => FlushDelivers
    BY DEF Flushing
  <1> QED BY <1>1, <1>2, <1>3, PTL DEF Spec

-----------------------------------------------------------------------------
(* The sum of the payload lengths of a set of messages, as a function that *)
(* each message adds to.                                                   *)
Sums(W, S) ==
    /\ W \in [SUBSET S -> Int]
    /\ W[{}] = 0
    /\ \A U \in SUBSET S : \A m \in U : W[U] = W[U \ {m}] + Size[m]

(* A set of natural numbers has a least element.                           *)
LEMMA Least ==
    ASSUME NEW T, T \subseteq Nat, T # {}
    PROVE  \E n \in T : \A k \in T : n <= k
  <1>1. PICK n \in T : \A k \in T : ~(<<k, n>> \in OpToRel(<, Nat))
    BY WFMin, NatLessThanWellFounded
  <1>2. ASSUME NEW k \in T PROVE n <= k
    <2>1. k \in Nat /\ n \in Nat /\ <<k, n>> \in Nat \X Nat
      OBVIOUS
    <2>2. ~(k < n)
      BY <1>1, <2>1 DEF OpToRel
    <2> QED BY <2>1, <2>2
  <1> QED BY <1>2

(* One more message: the sum over a set with m from the sum without.       *)
LEMMA SumsExtend ==
    ASSUME NEW S, S \subseteq Msgs, NEW m \in S, NEW V, Sums(V, S \ {m})
    PROVE  \E W : Sums(W, S)
  <1> DEFINE W == [U \in SUBSET S |-> IF m \in U THEN V[U \ {m}] + Size[m] ELSE V[U]]
  <1>0. Size[m] \in Int /\ \A k \in S : Size[k] \in Int
    BY ProducerAssumption
  <1>1. \A U \in SUBSET S : U \ {m} \in SUBSET (S \ {m}) /\ (m \notin U => U \in SUBSET (S \ {m}))
    OBVIOUS
  <1>2. \A U \in SUBSET S : /\ V[U \ {m}] \in Int
                            /\ m \notin U => V[U] \in Int /\ W[U] = V[U]
                            /\ m \in U => W[U] = V[U \ {m}] + Size[m]
    BY <1>1 DEF Sums
  <1>3. W \in [SUBSET S -> Int] /\ W[{}] = 0
    BY <1>0, <1>1 DEF Sums
  <1> HIDE DEF W
  <1>4. ASSUME NEW U \in SUBSET S, NEW k \in U PROVE W[U] = W[U \ {k}] + Size[k]
    <2>0. U \ {k} \in SUBSET S /\ Size[k] \in Int
      BY <1>0
    <2>1. CASE k = m
      <3>1. W[U] = V[U \ {m}] + Size[m]
        BY <1>2, <2>1
      <3>2. m \notin U \ {m} /\ U \ {m} \in SUBSET S
        OBVIOUS
      <3>3. W[U \ {m}] = V[U \ {m}]
        BY <1>2, <3>2
      <3> QED BY <2>1, <3>1, <3>3
    <2>2. CASE k # m /\ m \in U
      <3>1. W[U] = V[U \ {m}] + Size[m] /\ W[U \ {k}] = V[(U \ {k}) \ {m}] + Size[m]
        BY <1>2, <2>0, <2>2
      <3>2. (U \ {k}) \ {m} = (U \ {m}) \ {k} /\ U \ {m} \in SUBSET (S \ {m}) /\ k \in U \ {m}
        BY <1>1, <2>2
      <3>3. V[U \ {m}] = V[(U \ {m}) \ {k}] + Size[k]
        BY <3>2 DEF Sums
      <3>4. V[(U \ {m}) \ {k}] \in Int
        BY <1>2, <2>0, <3>2
      <3>5. W[U \ {k}] = V[(U \ {m}) \ {k}] + Size[m]
        BY <3>1, <3>2
      <3> QED BY <1>0, <2>0, <3>1, <3>3, <3>4, <3>5
    <2>3. CASE k # m /\ m \notin U
      <3>1. W[U] = V[U] /\ W[U \ {k}] = V[U \ {k}]
        BY <1>2, <2>0, <2>3
      <3>2. U \in SUBSET (S \ {m})
        BY <2>3
      <3> QED BY <3>1, <3>2 DEF Sums
    <2> QED BY <2>1, <2>2, <2>3
  <1>5. Sums(W, S)
    BY <1>3, <1>4 DEF Sums
  <1> QED BY <1>5

(* Sums of sets of messages exist.                                         *)
LEMMA SumsExist == \E W : Sums(W, Msgs)
  <1> DEFINE None(S) == \A W : ~Sums(W, S)
             T == {n \in Nat : \E S \in SUBSET Msgs : Cardinality(S) = n /\ None(S)}
  <1>1. SUFFICES ASSUME None(Msgs) PROVE FALSE
    OBVIOUS
  <1>2. Cardinality(Msgs) \in T
    BY <1>1, FS_CardinalityType, ProducerAssumption
  <1>3. PICK n \in T : \A k \in T : n <= k
    BY <1>2, Least
  <1>4. PICK S \in SUBSET Msgs : Cardinality(S) = n /\ None(S)
    BY <1>3
  <1>5. IsFiniteSet(S)
    BY <1>4, FS_Subset, ProducerAssumption
  <1>6. CASE S = {}
    <2> DEFINE W == [U \in SUBSET {} |-> 0]
    <2>1. Sums(W, {})
      BY DEF Sums
    <2> QED BY <1>4, <1>6, <2>1
  <1>7. CASE S # {}
    <2>1. PICK m \in S : TRUE
      BY <1>7
    <2>2. Cardinality(S \ {m}) = n - 1 /\ n \in Nat /\ Cardinality(S \ {m}) \in Nat
      BY <1>3, <1>4, <1>5, <2>1, FS_RemoveElement, FS_CardinalityType
    <2>3. ~None(S \ {m})
      <3>1. SUFFICES ASSUME None(S \ {m}) PROVE FALSE
        OBVIOUS
      <3>2. Cardinality(S \ {m}) \in T
        BY <2>2, <3>1
      <3> QED BY <1>3, <2>2, <3>2
    <2>4. PICK V : Sums(V, S \ {m})
      BY <2>3
    <2>5. \E W : Sums(W, S)
      BY <2>1, <2>4, SumsExtend
    <2> QED BY <1>4, <2>5
  <1> QED BY <1>6, <1>7

Total == CHOOSE W : Sums(W, Msgs)

(* Total is such a sum.                                                    *)
LEMMA TotalSums == Sums(Total, Msgs)
  BY SumsExist DEF Total

(* rk_curr_msgs.size is the total of the messages that exist.              *)
SizeExact == size = Total[Live]

(* The size is exact: it follows the live messages step by step.           *)
LEMMA SizeStep == Own /\ SizeExact /\ [Next]_vars => SizeExact'
  <1> SUFFICES ASSUME Own, SizeExact, Kind PROVE SizeExact'
    BY Kinds
  <1>0. Shapes /\ Exclusive /\ Held /\ Live \in SUBSET Msgs /\ size \in Int
    BY DEF Own, Shapes, Live
  <1>s. /\ \A U \in SUBSET Msgs : Total[U] \in Int
        /\ \A U \in SUBSET Msgs : \A m \in U : Total[U] = Total[U \ {m}] + Size[m]
    BY TotalSums DEF Sums
  <1>1. ASSUME NEW t \in Threads, MsgNew(t), Live' = Live \cup {cur[t]} PROVE SizeExact'
    <2>1. cur[t] \in Msgs /\ cur[t] \notin Live /\ size' = size + Size[cur[t]]
      BY <1>1, NotLive DEF MsgNew
    <2>2. Live \cup {cur[t]} \in SUBSET Msgs /\ (Live \cup {cur[t]}) \ {cur[t]} = Live
      BY <1>0, <2>1
    <2>3. Total[Live \cup {cur[t]}] = Total[Live] + Size[cur[t]]
      BY <1>s, <2>2
    <2> QED BY <1>1, <2>1, <2>3 DEF SizeExact
  <1>2. ASSUME NEW m \in Live, Live' = Live \ {m}, size' = size - Size[m] PROVE SizeExact'
    <2>1. Total[Live] = Total[Live \ {m}] + Size[m] /\ Total[Live \ {m}] \in Int
            /\ Size[m] \in Int
      <3>1. m \in Msgs /\ Live \ {m} \in SUBSET Msgs
        BY <1>0
      <3>2. Total[Live \ {m}] \in Int
        BY <1>s, <3>1
      <3>3. \A k \in Live : Total[Live] = Total[Live \ {k}] + Size[k]
        BY <1>0, <1>s, Zenon
      <3>4. Total[Live] = Total[Live \ {m}] + Size[m]
        BY <3>3
      <3>5. Size[m] \in Int
        BY <3>1, ProducerAssumption
      <3> QED BY <3>2, <3>4, <3>5
    <2> QED BY <1>2, <2>1 DEF SizeExact
  <1>3. ASSUME NEW t \in Threads, PartitionFails(t), cur[t] \in Live, Live' = Live \ {cur[t]}
        PROVE  SizeExact'
    <2>1. size' = size - Size[cur[t]]
      BY <1>3 DEF PartitionFails, CurrMsgsSub
    <2> QED BY <1>2, <1>3, <2>1
  <1>4. ASSUME NEW m \in Msgs, NEW x \in Shared, Destroys(m, x) PROVE SizeExact'
    <2>1. size' = size - Size[m]
      BY <1>4 DEF Destroys, MsgDestroy, CurrMsgsSub
    <2>2. m \in Live /\ Live' = Live \ {m}
      BY <1>4, DestroyedWas
    <2> QED BY <1>2, <2>1, <2>2
  <1>5. ASSUME Live' = Live, size' = size PROVE SizeExact'
    BY <1>5 DEF SizeExact
  <1>7. ASSUME ~(\E t \in Threads : MsgNew(t) \/ PartitionFails(t)),
               ~(\E m \in Msgs, x \in Shared : Destroys(m, x))
        PROVE  size' = size /\ Live' = Live
    <2>1. size' = size
      BY <1>7 DEF Kind, BytesStep, Bytes, CheckProduce, CurrMsgsFull, SpuriousWakeup, Partition,
         ReturnOk, ProduceBytesBlocking, FinishWithError, Passes, Serves, DrMsgCb, Rests, curr
    <2> QED BY <1>7, <2>1, LiveChange
  <1>8. ASSUME NEW t \in Threads, MsgNew(t) PROVE SizeExact'
    <2>1. at' = [at EXCEPT ![New(t)] = @ \cup {cur[t]}] /\ New(t) \in Places
      BY <1>8, PlacesDistinct DEF MsgNew
    <2>2. \A z \in Places : at'[z] = IF z = New(t) THEN at[z] \cup {cur[t]} ELSE at[z]
      BY <1>0, <2>1 DEF Shapes
    <2>3. Live' = Live \cup {cur[t]}
      BY <2>1, <2>2 DEF Live
    <2> QED BY <1>1, <1>8, <2>3
  <1>9. ASSUME NEW t \in Threads, PartitionFails(t) PROVE SizeExact'
    <2>1. /\ cur[t] \in at[New(t)] /\ New(t) \in Places
          /\ at' = [at EXCEPT ![New(t)] = @ \ {cur[t]}]
      BY <1>9, PlacesDistinct DEF PartitionFails
    <2>2. cur[t] \in Live /\ Live' = Live \ {cur[t]}
      BY <1>0, <2>1, RemoveEffect
    <2> QED BY <1>3, <1>9, <2>2
  <1> QED BY <1>4, <1>5, <1>7, <1>8, <1>9

(* When rd_kafka_destroy returns no message is left in any queue, request, *)
(* report or thread, and rk_curr_msgs is back to zero in both counters, in *)
(* whatever order brokers, purges and retries ended.                       *)
THEOREM CloseClean == Spec => []ClosedClean
  <1> DEFINE Inv == Own /\ CountExact /\ SizeExact /\ Closing
  <1>1. Init => Inv
    <2> SUFFICES ASSUME Init PROVE SizeExact
      BY LifeInit
    <2>1. Live = {} /\ size = 0
      BY DEF Init, Live
    <2> QED BY <2>1, TotalSums DEF SizeExact, Sums
  <1>2. Inv /\ [Next]_vars => Inv'
    BY OwnStep, CountStep, SizeStep, ClosingStep
  <1>3. Inv => ClosedClean
    <2> SUFFICES ASSUME Inv, term = "closed" PROVE Live = {} /\ cnt = 0 /\ size = 0
      BY DEF ClosedClean
    <2>1. \A t \in Threads : at[New(t)] = {}
      BY DEF Own, Held, Closing
    <2>2. \A x \in Places : at[x] = {}
      BY <2>1 DEF Closing, Places
    <2>3. Live = {}
      BY <2>2 DEF Live
    <2>4. cnt = 0 /\ size = 0
      BY <2>3, FS_EmptySet, TotalSums DEF CountExact, SizeExact, Sums
    <2> QED BY <2>3, <2>4
  <1> QED BY <1>1, <1>2, <1>3, PTL DEF Spec

-----------------------------------------------------------------------------
(* StablePtrs are not leaked.  As long as the client is up, one that is    *)
(* live belongs to a call that has not succeeded, or to a message that     *)
(* carries it as its opaque on its way to the delivery callback.           *)
Leak ==
    /\ todo \cap anchored = {}
    /\ \A t \in Threads : pc[t] \in {"check", "add", "wait"} /\ cur[t] \in anchored
                            => cur[t] \in Pinned \/ again[t]
    /\ \A t \in Threads : pc[t] = "partition" /\ cur[t] \in anchored => cur[t] \in opaque
    /\ term = "up" =>
          \A m \in anchored :
             \/ \E t \in Threads : cur[t] = m /\ pc[t] \notin {"idle", "ok"}
             \/ m \in opaque /\ \E x \in Shared \ CalledPlaces : m \in at[x]

(* Leak is inductive when every message is reported and the callback calls *)
(* destroyMessageOpaque_.                                                  *)
LEMMA LeakStep ==
    ASSUME ~DrErrOnly, Dissolve = "destroyMessageOpaque_",
           Own, Closing, Leak, [Next]_vars
    PROVE  Leak'
  <1>0. Shapes /\ Exclusive /\ Held /\ Control
    BY Controls DEF Own
  <1>s. Shared \subseteq Places
    BY DEF Shared
  <1> DEFINE Way == Shared \ CalledPlaces
             In(m) == \E t \in Threads : cur[t] = m /\ pc[t] \notin {"idle", "ok"}
             On(m) == m \in opaque /\ \E x \in Way : m \in at[x]
  <1> USE ProducerAssumption
  <1>l. /\ todo \cap anchored = {}
        /\ \A t \in Threads : pc[t] \in {"check", "add", "wait"} /\ cur[t] \in anchored
                                => cur[t] \in Pinned \/ again[t]
        /\ \A t \in Threads : pc[t] = "partition" /\ cur[t] \in anchored => cur[t] \in opaque
        /\ term = "up" => \A m \in anchored : In(m) \/ On(m)
    BY DEF Leak
  <1>g. ASSUME /\ todo' \cap anchored' = {}
               /\ \A t \in Threads : pc'[t] \in {"check", "add", "wait"} /\ cur'[t] \in anchored'
                                       => cur'[t] \in Pinned \/ again'[t]
               /\ \A t \in Threads : pc'[t] = "partition" /\ cur'[t] \in anchored'
                                       => cur'[t] \in opaque'
               /\ term' = "up" => \A m \in anchored' : In(m)' \/ On(m)'
        PROVE  Leak'
    BY <1>g DEF Leak
  <1>1. ASSUME NEW t \in Threads, NEW m \in Msgs, Bytes(t, m) PROVE Leak'
    <2>1. /\ pc[t] = "idle" /\ m \in todo
          /\ pc' = [pc EXCEPT ![t] = "check"] /\ cur' = [cur EXCEPT ![t] = m]
          /\ todo' = todo \ {m}
          /\ anchored' = IF m \in Pinned THEN anchored \cup {m} ELSE anchored
          /\ again' = [again EXCEPT ![t] = FALSE]
          /\ UNCHANGED <<at, term, opaque>>
      BY <1>1 DEF Bytes, rkmVars
    <2>2. pc'[t] = "check" /\ cur'[t] = m
            /\ \A u \in Threads : u # t => pc'[u] = pc[u] /\ cur'[u] = cur[u] /\ again'[u] = again[u]
                                            /\ cur[u] # m
      BY <1>0, <2>1 DEF Shapes, Held
    <2>3. \A k : (In(k) => In(k)') /\ (On(k) => On(k)')
      BY <1>0, <2>1, <2>2
    <2>4. In(m)'
      BY <2>2
    <2> QED BY <1>g, <1>l, <2>1, <2>2, <2>3, <2>4
  <1>2. ASSUME NEW t \in Threads, CheckProduce(t) \/ CurrMsgsFull(t) \/ SpuriousWakeup(t)
        PROVE  Leak'
    <2>1. /\ pc[t] \in {"check", "add", "wait"}
          /\ UNCHANGED <<at, cur, todo, again, anchored, opaque, term>>
          /\ \E s \in {"add", "wait", "error", "full"} : pc' = [pc EXCEPT ![t] = s]
      BY <1>2 DEF CheckProduce, CurrMsgsFull, SpuriousWakeup, rkmVars
    <2>2. pc'[t] \in {"add", "wait", "error", "full"} /\ \A u \in Threads : u # t => pc'[u] = pc[u]
      BY <1>0, <2>1 DEF Shapes
    <2>3. \A k : (In(k) => In(k)') /\ (On(k) => On(k)')
      BY <2>1, <2>2
    <2> QED BY <1>g, <1>l, <2>1, <2>2, <2>3
  <1>3. ASSUME NEW t \in Threads, MsgNew(t) PROVE Leak'
    <2>1. /\ pc[t] = "add" /\ pc' = [pc EXCEPT ![t] = "partition"]
          /\ at' = [at EXCEPT ![New(t)] = @ \cup {cur[t]}] /\ New(t) \in Places
          /\ opaque' = IF cur[t] \in Pinned \/ again[t] THEN opaque \cup {cur[t]} ELSE opaque
          /\ UNCHANGED <<cur, todo, again, anchored, term>>
      BY <1>3, PlacesDistinct DEF MsgNew
    <2>2. pc'[t] = "partition" /\ \A u \in Threads : u # t => pc'[u] = pc[u]
      BY <1>0, <2>1 DEF Shapes
    <2>3. \A z \in Places : at[z] \subseteq at'[z]
      BY <1>0, <2>1 DEF Shapes
    <2>4. \A k : (In(k) => In(k)') /\ (On(k) => On(k)')
      BY <1>s, <2>1, <2>2, <2>3
    <2> QED BY <1>g, <1>l, <2>1, <2>2, <2>4
  <1>4. ASSUME NEW t \in Threads, Partition(t) PROVE Leak'
    <2>1. /\ pc[t] = "partition" /\ pc' = [pc EXCEPT ![t] = "ok"]
          /\ Move(cur[t], New(t), Msgq)
          /\ UNCHANGED <<cur, todo, again, anchored, opaque, term>>
      BY <1>4 DEF Partition, rkmVars
    <2>2. New(t) \in Places /\ Msgq \in Places /\ New(t) # Msgq /\ New(t) \notin Shared
            /\ Msgq \in Way
      BY PlacesDistinct, SharedPlaces DEF Shared, CalledPlaces
    <2>3. \A z \in Places : at'[z] = IF z = New(t) THEN at[New(t)] \ {cur[t]}
                                ELSE IF z = Msgq THEN at[Msgq] \cup {cur[t]} ELSE at[z]
      BY <1>0, <2>1, <2>2, MoveEffect DEF Move
    <2>4. pc'[t] = "ok" /\ \A u \in Threads : u # t => pc'[u] = pc[u]
      BY <1>0, <2>1 DEF Shapes
    <2>5. \A k : On(k) => On(k)'
      BY <1>s, <2>1, <2>2, <2>3
    <2>6. \A k : In(k) => In(k)' \/ k = cur[t]
      BY <2>1, <2>4
    <2>7. cur[t] \in anchored => On(cur[t])'
      <3>1. cur[t] \in at'[Msgq]
        BY <2>2, <2>3
      <3>2. cur[t] \in anchored => cur[t] \in opaque'
        BY <1>l, <2>1
      <3> QED BY <2>1, <2>2, <3>1, <3>2
    <2> QED BY <1>g, <1>l, <2>1, <2>4, <2>5, <2>6, <2>7
  <1>5. ASSUME NEW t \in Threads, PartitionFails(t) PROVE Leak'
    <2>1. /\ pc[t] = "partition" /\ cur[t] \in at[New(t)] /\ New(t) \in Places
          /\ at' = [at EXCEPT ![New(t)] = @ \ {cur[t]}]
          /\ pc' = Woken([pc EXCEPT ![t] = "error"], cur[t])
          /\ opaque' = opaque \ {cur[t]}
          /\ UNCHANGED <<cur, todo, again, anchored, term>>
      BY <1>5, PlacesDistinct DEF PartitionFails
    <2>2. /\ pc'[t] = "error"
          /\ \A u \in Threads : u # t => \/ pc'[u] = pc[u]
                                         \/ (pc[u] = "wait" /\ pc'[u] = "add")
      BY <1>0, <2>1 DEF Woken, Shapes
    <2>3. \A z \in Shared : at'[z] = at[z]
      BY <1>0, <1>s, <2>1 DEF Shapes, Shared
    <2>4. \A k : In(k) => In(k)'
      BY <2>1, <2>2
    <2>5. \A k : On(k) => On(k)' \/ k = cur[t]
      BY <2>1, <2>3
    <2>6. In(cur[t])'
      BY <2>1, <2>2
    <2>7. \A u \in Threads : u # t => cur[u] # cur[t]
      BY <1>0, <2>1 DEF Held
    <2> QED BY <1>g, <1>l, <2>1, <2>2, <2>4, <2>5, <2>6, <2>7
  <1>6. ASSUME NEW t \in Threads, ReturnOk(t) PROVE Leak'
    <2>1. /\ pc[t] = "ok" /\ pc' = [pc EXCEPT ![t] = "idle"]
          /\ cur' = [cur EXCEPT ![t] = Nobody]
          /\ UNCHANGED <<at, todo, again, anchored, opaque, term>>
      BY <1>6 DEF ReturnOk, rkmVars
    <2>2. pc'[t] = "idle" /\ \A u \in Threads : u # t => pc'[u] = pc[u] /\ cur'[u] = cur[u]
      BY <1>0, <2>1 DEF Shapes
    <2>3. \A k : (In(k) => In(k)') /\ (On(k) => On(k)')
      BY <2>1, <2>2
    <2> QED BY <1>g, <1>l, <2>1, <2>2, <2>3
  <1>7. ASSUME NEW t \in Threads, ProduceBytesBlocking(t) PROVE Leak'
    <2>1. /\ pc[t] = "full" /\ pc' = [pc EXCEPT ![t] = "check"]
          /\ again' = [again EXCEPT ![t] = TRUE]
          /\ anchored' = anchored \cup {cur[t]}
          /\ UNCHANGED <<at, cur, todo, opaque, term>>
      BY <1>7 DEF ProduceBytesBlocking, rkmVars
    <2>2. /\ pc'[t] = "check" /\ again'[t]
          /\ \A u \in Threads : u # t => pc'[u] = pc[u] /\ again'[u] = again[u] /\ cur[u] # cur[t]
      BY <1>0, <2>1 DEF Shapes, Held
    <2>3. \A k : (In(k) => In(k)') /\ (On(k) => On(k)')
      BY <2>1, <2>2
    <2>4. In(cur[t])'
      BY <2>1, <2>2
    <2>5. cur[t] \notin todo
      BY <1>0 DEF Held
    <2> QED BY <1>g, <1>l, <2>1, <2>2, <2>3, <2>4, <2>5
  <1>8. ASSUME NEW t \in Threads, FinishWithError(t) PROVE Leak'
    <2>1. /\ pc[t] = "error" /\ pc' = [pc EXCEPT ![t] = "idle"]
          /\ cur' = [cur EXCEPT ![t] = Nobody]
          /\ anchored' = anchored \ {cur[t]}
          /\ UNCHANGED <<at, todo, again, opaque, term>>
      BY <1>8 DEF FinishWithError, rkmVars
    <2>2. pc'[t] = "idle" /\ \A u \in Threads : u # t => pc'[u] = pc[u] /\ cur'[u] = cur[u]
      BY <1>0, <2>1 DEF Shapes
    <2>3. \A k : k # cur[t] => (In(k) => In(k)') /\ (On(k) => On(k)')
      BY <2>1, <2>2
    <2> QED BY <1>g, <1>l, <2>1, <2>2, <2>3
  <1>9. ASSUME NEW m \in Msgs, NEW x \in Reporting, NEW y \in Queues, x # y,
               Passes(m, x, y), Frame
        PROVE  Leak'
    <2>1. Move(m, x, y) /\ UNCHANGED <<pc, cur, again, anchored, todo, opaque, term>>
      BY <1>9 DEF Passes, hsVars, rkmVars, Frame
    <2>2. x \in Places /\ y \in Places /\ y \in Way
      BY PlacesDistinct, SharedPlaces DEF Queues, Reporting, CalledPlaces
    <2>3. \A z \in Places : at'[z] = IF z = x THEN at[x] \ {m}
                                     ELSE IF z = y THEN at[y] \cup {m} ELSE at[z]
      BY <1>0, <1>9, <2>1, <2>2, MoveEffect DEF Move
    <2>4. \A k : In(k) => In(k)'
      BY <2>1
    <2>5. ASSUME NEW k, On(k) PROVE On(k)'
      <3>1. PICK z \in Way : k \in at[z]
        BY <2>5
      <3>2. z \in Places /\ k \in opaque'
        BY <1>s, <2>1, <2>5
      <3>3. CASE k = m
        <4>1. k \in at'[y]
          BY <1>9, <2>2, <2>3, <3>3
        <4> QED BY <2>2, <3>2, <4>1
      <3>4. CASE k # m
        <4>1. k \in at'[z]
          BY <2>3, <3>1, <3>2, <3>4
        <4> QED BY <3>2, <4>1
      <3> QED BY <3>3, <3>4
    <2> QED BY <1>g, <1>l, <2>1, <2>4, <2>5
  <1>10. ASSUME NEW m \in Msgs, NEW x \in Shared, Destroys(m, x), Frame,
                x \in CalledPlaces \/ term # "up" \/ ~repOpen \/ DrErrOnly
        PROVE  Leak'
    <2>1. /\ \A t \in Threads : cur[t] = m => pc[t] = "ok"
          /\ \A t \in Threads : pc'[t] = pc[t] \/ (pc[t] = "wait" /\ pc'[t] = "add")
          /\ UNCHANGED <<cur, todo, anchored, opaque, again, term>>
      BY <1>10, DestroyedWas DEF Frame
    <2>2. m \in at[x] /\ at' = [at EXCEPT ![x] = @ \ {m}]
      BY <1>10 DEF Destroys, MsgDestroy
    <2>3. \A z \in Places : at'[z] = IF z = x THEN at[z] \ {m} ELSE at[z]
      BY <1>0, <2>2 DEF Shapes
    <2>4. \A k : In(k) => In(k)'
      BY <2>1
    <2>5. \A k : On(k) => On(k)' \/ k = m
      BY <1>s, <2>1, <2>3
    <2>6. term = "up" => ~In(m) /\ ~On(m)
      <3>1. term = "up" => x \in CalledPlaces
        BY <1>10 DEF Closing
      <3>2. \A z \in Places : m \in at[z] => z = x
        BY <1>0, <1>s, <2>2 DEF Exclusive
      <3> QED BY <1>s, <2>1, <3>1, <3>2
    <2> QED BY <1>g, <1>l, <2>1, <2>4, <2>5, <2>6
  <1>11. ASSUME NEW p \in Pollers, Serves(p), UNCHANGED term PROVE Leak'
    <2>1. UNCHANGED <<pc, cur, again, anchored, todo, opaque, term>>
      BY <1>11 DEF Serves, hsVars, rkmVars
    <2>2. \A z \in Places : at'[z] = IF z = Rep THEN {}
                                     ELSE IF z = Local(p) THEN at[z] \cup at[Rep]
                                     ELSE at[z]
      BY <1>0, <1>11, ServeEffect DEF Serves
    <2>3. Local(p) \in Way /\ Local(p) # Rep
      BY PlacesDistinct, SharedPlaces DEF CalledPlaces
    <2>4. \A k : (In(k) => In(k)') /\ (On(k) => On(k)')
      BY <1>s, <2>1, <2>2, <2>3
    <2> QED BY <1>g, <1>l, <2>1, <2>4
  <1>12. ASSUME NEW p \in Pollers, NEW m \in Msgs, DrMsgCb(p, m), Frame PROVE Leak'
    <2>1. /\ Move(m, Local(p), Called(p))
          /\ UNCHANGED <<pc, cur, again, todo, opaque, term>>
          /\ anchored' = IF m \in opaque THEN anchored \ {m} ELSE anchored
      BY <1>12 DEF DrMsgCb, rkmVars
    <2>2. Local(p) \in Places /\ Called(p) \in Places /\ Local(p) # Called(p)
      BY PlacesDistinct
    <2>3. /\ m \in at[Local(p)]
          /\ \A z \in Places : at'[z] = IF z = Local(p) THEN at[Local(p)] \ {m}
                                ELSE IF z = Called(p) THEN at[Called(p)] \cup {m} ELSE at[z]
      BY <1>0, <2>1, <2>2, MoveEffect DEF Move
    <2>4. \A t \in Threads : cur[t] = m => pc[t] = "ok"
      BY <1>0, <2>2, <2>3, PlacesDistinct DEF Held
    <2>5. term = "up" => m \notin anchored'
      BY <1>l, <2>1, <2>4
    <2>6. \A k : k # m => (In(k) => In(k)') /\ (On(k) => On(k)')
      BY <1>s, <2>1, <2>2, <2>3
    <2>7. anchored' \subseteq anchored
      BY <2>1
    <2> QED BY <1>g, <1>l, <2>1, <2>5, <2>6, <2>7
  <1>13. CASE Rests /\ (term' = "up" => term = "up")
    <2>1. UNCHANGED <<at, pc, cur, again, anchored, todo, opaque>>
      BY <1>13 DEF Rests, hsVars, rkmVars
    <2>2. \A k : (In(k) => In(k)') /\ (On(k) => On(k)')
      BY <2>1
    <2> QED BY <1>g, <1>l, <1>13, <2>1, <2>2
  <1>14. (\E p \in Pollers : FlushPoll(p)) => UNCHANGED term
    BY DEF FlushPoll
  <1>15. ((\E p \in Pollers : FlushCall(p)) \/ FlushQlen \/ FlushCnt \/ FlushReturn
             \/ Close \/ DisableRep \/ JoinBrokers \/ Destroyed \/ Frame)
           => (term' = "up" => term = "up")
    BY DEF FlushCall, FlushQlen, FlushCnt, FlushReturn, Close, DisableRep, JoinBrokers,
       Destroyed, Frame
  <1>16. CASE (\E t \in Threads : BytesStep(t)) /\ Frame
    BY <1>16, <1>1, <1>2, <1>3, <1>4, <1>5, <1>6, <1>7, <1>8 DEF BytesStep
  <1>17. CASE \E p \in Pollers : Serves(p) /\ (Frame \/ FlushPoll(p))
    BY <1>11, <1>14, <1>17 DEF Frame
  <1> QED BY <1>0, <1>9, <1>10, <1>12, <1>13, <1>15, <1>16, <1>17 DEF Control

(* As long as the client is up, a message that is finished with has left   *)
(* no StablePtr behind, if the application's callback calls                *)
(* destroyMessageOpaque_ and is called for every message.                  *)
THEOREM AnchorsFreed ==
    ASSUME ~DrErrOnly, Dissolve = "destroyMessageOpaque_"
    PROVE  Spec => []NoAnchorLeak
  <1> DEFINE Inv == Own /\ Closing /\ Leak
  <1>1. Init => Inv
    <2> SUFFICES ASSUME Init PROVE Leak
      BY LifeInit
    <2> QED BY DEF Init, Leak
  <1>2. Inv /\ [Next]_vars => Inv'
    BY OwnStep, ClosingStep, LeakStep
  <1>3. Inv => NoAnchorLeak
    <2> SUFFICES ASSUME Inv, term = "up", NEW m \in Msgs, Finished(m), m \in anchored
                 PROVE  FALSE
      BY DEF NoAnchorLeak
    <2>1. m \notin Live /\ \A t \in Threads : cur[t] # m
      BY DEF Finished
    <2> QED BY <2>1, LiveOf DEF Leak, Shared
  <1> QED BY <1>1, <1>2, <1>3, PTL DEF Spec
=============================================================================
