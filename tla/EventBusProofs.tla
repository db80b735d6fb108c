---------------------------- MODULE EventBusProofs ----------------------------
(***************************************************************************)
(* Theorems about EventBus, for any number of publishers, worker threads    *)
(* and clients and any queue depth: it is type correct, a queue is bounded  *)
(* by the depth and the number of threads that publish, what clients are    *)
(* sent are LossyStreams, and, while only the loop publishes, a queue keeps *)
(* the newest messages and every message a queue has lost is counted:       *)
(* NewestAreKept and LossesAreCounted.                                      *)
(***************************************************************************)
EXTENDS EventBus, FiniteSetTheorems, WellFoundedInduction, TLAPS

USE DEF vars, busVars, clientVars, publishVars, Midway

-----------------------------------------------------------------------------
\* A function of sequences whose value for c, if it has one, becomes s.
LEMMA SeqUpdate ==
    ASSUME NEW f \in [Clients -> Seq(Publishers)], NEW c, NEW s,
           c \in Clients => s \in Seq(Publishers)
    PROVE  [f EXCEPT ![c] = s] \in [Clients -> Seq(Publishers)]
OBVIOUS

\* Every action leaves every variable in its set.
LEMMA TypeStep == TypeOK /\ [Next]_vars => TypeOK'
<1> SUFFICES ASSUME TypeOK, [Next]_vars PROVE TypeOK'
  OBVIOUS
<1> USE EventBusAssumption DEF TypeOK
<1>1. ASSUME NEW p \in Publishers, Publish(p) PROVE TypeOK'
  <2>1. Cardinality(queues) \in 0..Cardinality(Clients)
    BY FS_CardinalityType, FS_Subset
  <2>2. QED
    BY <1>1, <2>1 DEF Publish
<1>2. ASSUME NEW p \in Publishers, NEW c \in Clients, NextQueue(p, c) PROVE TypeOK'
  BY <1>2 DEF NextQueue
<1>3. ASSUME NEW p \in Publishers, Published(p) \/ SetChanged(p) PROVE TypeOK'
  BY <1>3 DEF Published, SetChanged
<1>4. ASSUME NEW p \in Publishers, Offer(p) PROVE TypeOK'
  BY <1>4 DEF Offer
<1>5. ASSUME NEW p \in Publishers, DropOldest(p) PROVE TypeOK'
  <2>1. queue' \in [Clients -> Seq(Publishers)]
    <3>1. queue' = [queue EXCEPT ![target[p]] =
             IF queue[target[p]] = <<>> THEN queue[target[p]] ELSE Tail(queue[target[p]])]
      BY <1>5 DEF DropOldest
    <3>2. CASE queue[target[p]] = <<>>
      BY <3>1, <3>2, SeqUpdate
    <3>3. CASE queue[target[p]] # <<>>
      <4>1. target[p] \in Clients => Tail(queue[target[p]]) \in Seq(Publishers)
        BY <3>3
      <4>2. QED
        BY <3>1, <3>3, <4>1, SeqUpdate
    <3>4. QED
      BY <3>2, <3>3
  <2>2. QED
    BY <1>5, <2>1 DEF DropOldest
<1>6. ASSUME NEW p \in Publishers, Put(p) PROVE TypeOK'
  <2>1. queue' \in [Clients -> Seq(Publishers)]
    <3>1. queue' = [queue EXCEPT ![target[p]] = Append(queue[target[p]], p)]
      BY <1>6 DEF Put
    <3>2. target[p] \in Clients => Append(queue[target[p]], p) \in Seq(Publishers)
      OBVIOUS
    <3>3. QED
      BY <3>1, <3>2, SeqUpdate
  <2>2. offered' \in [Clients -> Seq(Publishers)]
    BY <1>6, SeqUpdate DEF Put, WasOffered
  <2>3. QED
    BY <1>6, <2>1, <2>2 DEF Put
<1>7. ASSUME NEW p \in Publishers, Retry(p) PROVE TypeOK'
  <2>1. offered' \in [Clients -> Seq(Publishers)]
    <3>1. \/ UNCHANGED offered
          \/ offered' = [offered EXCEPT ![target[p]] = Append(offered[target[p]], p)]
      BY <1>7 DEF Retry, WasOffered
    <3>2. target[p] \in Clients => Append(offered[target[p]], p) \in Seq(Publishers)
      OBVIOUS
    <3>3. CASE UNCHANGED offered
      BY <3>3
    <3>4. CASE offered' = [offered EXCEPT ![target[p]] = Append(offered[target[p]], p)]
      BY <3>2, <3>4, SeqUpdate
    <3>5. QED
      BY <3>1, <3>3, <3>4
  <2>2. QED
    BY <1>7, <2>1 DEF Retry
<1>8. ASSUME NEW c \in Clients, Subscribe(c) \/ Leave(c) PROVE TypeOK'
  BY <1>8 DEF Subscribe, Leave
<1>9. ASSUME NEW c \in Clients, Get(c) PROVE TypeOK'
  BY <1>9 DEF Get
<1>10. ASSUME NEW p \in Publishers, CountDrop(p) PROVE TypeOK'
  BY <1>10 DEF CountDrop
<1>11. CASE UNCHANGED vars
  BY <1>11
<1>12. QED
  BY <1>1, <1>2, <1>3, <1>4, <1>5, <1>6, <1>7, <1>8, <1>9, <1>10, <1>11
  DEF Next, PublishStep

(* The types of all variables. *)
THEOREM TypeCorrect == Spec => []TypeOK
<1>1. Init => TypeOK
  BY EventBusAssumption, FS_CardinalityType DEF Init, TypeOK
<1>2. QED
  BY <1>1, TypeStep, PTL DEF Spec

-----------------------------------------------------------------------------
(***************************************************************************)
(* A call of publish() that is putting has seen room, and may be one of     *)
(* several that saw the same room: all but one of them from a thread, since *)
(* the event loop runs one call at a time.  So a queue and the calls about  *)
(* to append to it are bounded together.                                    *)
(***************************************************************************)
Putters(c) == {p \in Publishers : pc[p] = "putting" /\ target[p] = c}

OneOnLoop ==
    \A p, q \in Publishers \ Threads : pc[p] \in Midway /\ pc[q] \in Midway => p = q

TargetInv ==
    \A p \in Publishers :
        pc[p] \in Midway \ {"iterating"} => target[p] \in Clients

RoomInv ==
    \A c \in Clients :
        Len(queue[c]) + Cardinality(Putters(c)) <= QUEUE_DEPTH + Cardinality(Threads)

BoundInv == OneOnLoop /\ TargetInv /\ RoomInv

\* Calls of which at most one is on the event loop.
LEMMA FewCalls ==
    ASSUME NEW S, \A p, q \in S \ Threads : p = q
    PROVE  /\ IsFiniteSet(S)
           /\ Cardinality(S) \in Nat
           /\ Cardinality(S) <= Cardinality(Threads) + 1
<1> USE EventBusAssumption
<1>1. Cardinality(Threads) \in Nat
  BY FS_CardinalityType
<1>2. CASE S \subseteq Threads
  BY <1>1, <1>2, FS_Subset, FS_CardinalityType
<1>3. CASE \E p \in S : p \notin Threads
  <2>1. PICK p \in S : p \notin Threads
    BY <1>3
  <2>2. S \subseteq Threads \cup {p}
    BY <2>1
  <2>3. /\ IsFiniteSet(Threads \cup {p})
        /\ Cardinality(Threads \cup {p}) = Cardinality(Threads) + 1
    BY <2>1, FS_AddElement
  <2>4. QED
    BY <1>1, <2>2, <2>3, FS_Subset, FS_CardinalityType
<1>4. QED
  BY <1>2, <1>3

\* Steps after which no more calls are about to append, and no queue is longer.
LEMMA RoomFrame ==
    ASSUME TypeOK, TypeOK', RoomInv, OneOnLoop,
           \A c \in Clients : Putters(c)' = Putters(c),
           \A c \in Clients : Len(queue'[c]) <= Len(queue[c])
    PROVE  RoomInv'
<1> USE EventBusAssumption
<1>1. ASSUME NEW c \in Clients
      PROVE  Len(queue'[c]) + Cardinality(Putters(c)') <= QUEUE_DEPTH + Cardinality(Threads)
  <2>1. Len(queue[c]) \in Nat /\ Len(queue'[c]) \in Nat
    BY DEF TypeOK
  <2>2. Cardinality(Putters(c)) \in Nat
    BY FewCalls DEF Putters, OneOnLoop
  <2>3. Cardinality(Threads) \in Nat
    BY FS_CardinalityType
  <2>4. QED
    BY <2>1, <2>2, <2>3 DEF RoomInv
<1>2. QED
  BY <1>1 DEF RoomInv

\* Offer and Retry are the steps that make a call one about to append.
LEMMA RoomFound ==
    ASSUME TypeOK, RoomInv, OneOnLoop', UNCHANGED queue,
           NEW d \in Clients, ~Full(d),
           \A c \in Clients : c # d => Putters(c)' = Putters(c)
    PROVE  RoomInv'
<1> USE EventBusAssumption
<1>1. /\ Cardinality(Putters(d)') <= Cardinality(Threads) + 1
      /\ Cardinality(Putters(d)') \in Nat
  <2>1. \A q, r \in Putters(d)' \ Threads : q = r
    BY DEF Putters, OneOnLoop
  <2>2. QED
    BY <2>1, FewCalls
<1>2. /\ Len(queue[d]) + 1 <= QUEUE_DEPTH
      /\ Len(queue[d]) \in Nat
  BY DEF TypeOK, Full
<1>3. Cardinality(Threads) \in Nat
  BY FS_CardinalityType
<1>4. ASSUME NEW c \in Clients
      PROVE  Len(queue'[c]) + Cardinality(Putters(c)') <= QUEUE_DEPTH + Cardinality(Threads)
  <2>1. CASE c = d
    BY <1>1, <1>2, <1>3, <2>1
  <2>2. CASE c # d
    BY <2>2 DEF RoomInv
  <2>3. QED
    BY <2>1, <2>2
<1>5. QED
  BY <1>4 DEF RoomInv

LEMMA BoundStep == ASSUME TypeOK, TypeOK', BoundInv, [Next]_vars PROVE BoundInv'
<1> USE EventBusAssumption DEF BoundInv
<1>1. ASSUME NEW p \in Publishers, Publish(p) PROVE BoundInv'
  <2>1. OneOnLoop' /\ TargetInv'
    BY <1>1 DEF Publish, LoopFree, OneOnLoop, TargetInv, TypeOK
  <2>2. \A c \in Clients : Putters(c)' = Putters(c)
    BY <1>1 DEF Publish, Putters, TypeOK
  <2>3. QED
    BY <1>1, <2>1, <2>2, RoomFrame DEF Publish
<1>2. ASSUME NEW p \in Publishers, NEW c \in Clients, NextQueue(p, c) PROVE BoundInv'
  <2>1. OneOnLoop' /\ TargetInv'
    BY <1>2 DEF NextQueue, OneOnLoop, TargetInv, TypeOK
  <2>2. \A d \in Clients : Putters(d)' = Putters(d)
    BY <1>2 DEF NextQueue, Putters, TypeOK
  <2>3. QED
    BY <1>2, <2>1, <2>2, RoomFrame DEF NextQueue
<1>3. ASSUME NEW p \in Publishers, Published(p) \/ SetChanged(p) PROVE BoundInv'
  <2>1. OneOnLoop' /\ TargetInv'
    <3>1. pc' = [pc EXCEPT ![p] = "done"] \/ pc' = [pc EXCEPT ![p] = "raised"]
      BY <1>3 DEF Published, SetChanged
    <3>2. pc[p] = "iterating" /\ UNCHANGED target
      BY <1>3 DEF Published, SetChanged
    <3>3. \A q \in Publishers :
             /\ pc'[q] \in Midway => pc[q] \in Midway
             /\ pc'[q] \in Midway \ {"iterating"} => pc[q] \in Midway \ {"iterating"}
      BY <3>1, <3>2 DEF TypeOK
    <3>4. QED
      BY <3>2, <3>3 DEF OneOnLoop, TargetInv
  <2>2. \A c \in Clients : Putters(c)' = Putters(c)
    BY <1>3 DEF Published, SetChanged, Putters, TypeOK
  <2>3. QED
    BY <1>3, <2>1, <2>2, RoomFrame DEF Published, SetChanged
<1>4. ASSUME NEW p \in Publishers, Offer(p) PROVE BoundInv'
  <2>1. OneOnLoop' /\ TargetInv'
    BY <1>4 DEF Offer, OneOnLoop, TargetInv, TypeOK
  <2>2. PICK d \in Clients : d = target[p]
    BY <1>4 DEF Offer, TargetInv
  <2>3. CASE Full(target[p])
    <3>1. \A c \in Clients : Putters(c)' = Putters(c)
      BY <1>4, <2>3 DEF Offer, Putters, TypeOK
    <3>2. QED
      BY <1>4, <2>1, <3>1, RoomFrame DEF Offer
  <2>4. CASE ~Full(target[p])
    <3>1. \A c \in Clients : c # d => Putters(c)' = Putters(c)
      BY <2>2, <1>4 DEF Offer, Putters, TypeOK
    <3>2. QED
      BY <1>4, <2>1, <2>2, <2>4, <3>1, RoomFound DEF Offer
  <2>5. QED
    BY <2>3, <2>4
<1>5. ASSUME NEW p \in Publishers, DropOldest(p) PROVE BoundInv'
  <2>1. OneOnLoop' /\ TargetInv'
    BY <1>5 DEF DropOldest, OneOnLoop, TargetInv, TypeOK
  <2>2. \A c \in Clients : Putters(c)' = Putters(c)
    BY <1>5 DEF DropOldest, Putters, TypeOK
  <2>3. \A c \in Clients : Len(queue'[c]) <= Len(queue[c])
    BY <1>5 DEF DropOldest, TypeOK
  <2>4. QED
    BY <2>1, <2>2, <2>3, RoomFrame
<1>6. ASSUME NEW p \in Publishers, Put(p) PROVE BoundInv'
  <2>1. OneOnLoop' /\ TargetInv'
    BY <1>6 DEF Put, OneOnLoop, TargetInv, TypeOK
  <2>2. PICK d \in Clients : d = target[p]
    BY <1>6 DEF Put, TargetInv
  <2>3. \A c \in Clients : c # d => queue'[c] = queue[c] /\ Putters(c)' = Putters(c)
    BY <1>6, <2>2 DEF Put, Putters, TypeOK
  <2>4. Len(queue'[d]) = Len(queue[d]) + 1 /\ Len(queue[d]) \in Nat
    BY <1>6, <2>2 DEF Put, TypeOK
  <2>5. Putters(d)' = Putters(d) \ {p} /\ p \in Putters(d)
    BY <1>6, <2>2 DEF Put, Putters, TypeOK
  <2>6. /\ Cardinality(Putters(d)) \in Nat
        /\ Cardinality(Putters(d)') = Cardinality(Putters(d)) - 1
    <3>1. IsFiniteSet(Putters(d)) /\ Cardinality(Putters(d)) \in Nat
      BY FewCalls DEF Putters, OneOnLoop
    <3>2. QED
      BY <3>1, <2>5, FS_RemoveElement, ZenonT(60)
  <2>7. Cardinality(Threads) \in Nat
    BY FS_CardinalityType
  <2>8. ASSUME NEW c \in Clients
        PROVE  Len(queue'[c]) + Cardinality(Putters(c)') <= QUEUE_DEPTH + Cardinality(Threads)
    <3>1. CASE c = d
      BY <2>4, <2>6, <2>7, <3>1 DEF RoomInv
    <3>2. CASE c # d
      BY <2>3, <3>2 DEF RoomInv
    <3>3. QED
      BY <3>1, <3>2
  <2>9. QED
    BY <2>1, <2>8 DEF RoomInv
<1>7. ASSUME NEW p \in Publishers, Retry(p) PROVE BoundInv'
  <2>1. OneOnLoop' /\ TargetInv'
    <3>1. pc' = [pc EXCEPT ![p] = "iterating"] \/ pc' = [pc EXCEPT ![p] = "putting"]
      BY <1>7 DEF Retry
    <3>2. pc[p] = "retrying" /\ UNCHANGED target
      BY <1>7 DEF Retry
    <3>3. \A q \in Publishers :
             /\ pc'[q] \in Midway => pc[q] \in Midway
             /\ pc'[q] \in Midway \ {"iterating"} => pc[q] \in Midway \ {"iterating"}
      BY <3>1, <3>2 DEF TypeOK
    <3>4. QED
      BY <3>2, <3>3 DEF OneOnLoop, TargetInv
  <2>2. PICK d \in Clients : d = target[p]
    BY <1>7 DEF Retry, TargetInv
  <2>3. CASE Full(target[p])
    <3>1. \A c \in Clients : Putters(c)' = Putters(c)
      BY <1>7, <2>3 DEF Retry, Putters, TypeOK
    <3>2. QED
      BY <1>7, <2>1, <3>1, RoomFrame DEF Retry
  <2>4. CASE ~Full(target[p])
    <3>1. \A c \in Clients : c # d => Putters(c)' = Putters(c)
      BY <2>2, <1>7 DEF Retry, Putters, TypeOK
    <3>2. QED
      BY <1>7, <2>1, <2>2, <2>4, <3>1, RoomFound DEF Retry
  <2>5. QED
    BY <2>3, <2>4
<1>8. ASSUME NEW c \in Clients, Subscribe(c) \/ Leave(c) PROVE BoundInv'
  BY <1>8 DEF Subscribe, Leave, OneOnLoop, TargetInv, RoomInv, Putters
<1>9. ASSUME NEW c \in Clients, Get(c) PROVE BoundInv'
  <2>1. \A d \in Clients : Len(queue'[d]) <= Len(queue[d])
    BY <1>9 DEF Get, TypeOK
  <2>2. QED
    BY <1>9, <2>1, RoomFrame DEF Get, OneOnLoop, TargetInv, Putters
<1>10. ASSUME NEW p \in Publishers, CountDrop(p) PROVE BoundInv'
  <2>1. OneOnLoop' /\ TargetInv'
    BY <1>10 DEF CountDrop, OneOnLoop, TargetInv, TypeOK
  <2>2. \A c \in Clients : Putters(c)' = Putters(c)
    BY <1>10 DEF CountDrop, Putters, TypeOK
  <2>3. QED
    BY <1>10, <2>1, <2>2, RoomFrame DEF CountDrop
<1>11. CASE UNCHANGED vars
  BY <1>11 DEF OneOnLoop, TargetInv, RoomInv, Putters
<1>12. QED
  BY <1>1, <1>2, <1>3, <1>4, <1>5, <1>6, <1>7, <1>8, <1>9, <1>10, <1>11
  DEF Next, PublishStep

LEMMA BoundInvariant == Spec => [](TypeOK /\ BoundInv)
<1> USE EventBusAssumption
<1>1. Cardinality(Threads) \in Nat
  BY FS_CardinalityType
<1>2. Init => BoundInv
  <2> SUFFICES ASSUME Init PROVE BoundInv
    OBVIOUS
  <2>1. OneOnLoop /\ TargetInv
    BY DEF Init, OneOnLoop, TargetInv
  <2>2. \A c \in Clients : Len(queue[c]) = 0
    BY DEF Init
  <2>3. \A c \in Clients : Cardinality(Putters(c)) = 0
    <3>1. \A c \in Clients : Putters(c) = {}
      BY DEF Init, Putters
    <3>2. QED
      BY <3>1, FS_EmptySet
  <2>4. QED
    BY <1>1, <2>1, <2>2, <2>3 DEF BoundInv, RoomInv
<1>3. TypeOK /\ TypeOK' /\ BoundInv /\ [Next]_vars => BoundInv'
  BY BoundStep
<1>4. QED
  BY <1>2, <1>3, TypeCorrect, PTL DEF Spec

(* A queue holds at most QUEUE_DEPTH events, and one more for each worker    *)
(* thread that publishes: events.py:11 and 40-52.                            *)
THEOREM QueuesBounded == Spec => []Bounded
<1>1. TypeOK /\ BoundInv => Bounded
  <2> SUFFICES ASSUME TypeOK, BoundInv, NEW c \in Clients
               PROVE  Len(queue[c]) <= QUEUE_DEPTH + Cardinality(Threads)
    BY DEF Bounded
  <2>1. Len(queue[c]) \in Nat
    BY DEF TypeOK
  <2>2. Cardinality(Putters(c)) \in Nat /\ Cardinality(Threads) \in Nat
    BY FewCalls, EventBusAssumption, FS_CardinalityType DEF BoundInv, OneOnLoop, Putters
  <2>3. QED
    BY <2>1, <2>2, EventBusAssumption DEF BoundInv, RoomInv
<1>2. QED
  BY <1>1, BoundInvariant, PTL

-----------------------------------------------------------------------------
(***************************************************************************)
(* While publish() is called from the loop only, nothing comes between its  *)
(* steps: the room a call has seen, or made, is there when it appends, and  *)
(* what it gives up to make it is there to be given up.                     *)
(***************************************************************************)
RoomSeen(p) ==
    /\ pc[p] = "dropping" => Len(queue[target[p]]) = QUEUE_DEPTH
    /\ pc[p] \in {"putting", "counting", "retrying"} => Len(queue[target[p]]) < QUEUE_DEPTH

AloneInv ==
    OnTheLoop => /\ \A c \in Clients : Len(queue[c]) <= QUEUE_DEPTH
                 /\ \A p \in Publishers : RoomSeen(p)

\* What has been given up and is still to be counted.
Uncounted == IF \E p \in Publishers : pc[p] = "counting" THEN 1 ELSE 0

\* The three things that can happen to queues, and the count of the first.
GivesUp(c) ==
    /\ queue[c] # <<>>
    /\ queue' = [queue EXCEPT ![c] = Tail(@)]
    /\ Uncounted = 0 /\ Uncounted' = 1
    /\ UNCHANGED <<dropped, sent, offered>>
Counts ==
    /\ Uncounted = 1 /\ Uncounted' = 0
    /\ dropped' = dropped + 1
    /\ UNCHANGED <<queue, sent, offered>>
Takes(c, p) ==
    /\ queue' = [queue EXCEPT ![c] = Append(@, p)]
    /\ offered' = [offered EXCEPT ![c] = Append(@, p)]
    /\ UNCHANGED <<dropped, sent, Uncounted>>
Gives(c) ==
    /\ queue[c] # <<>>
    /\ queue' = [queue EXCEPT ![c] = Tail(@)]
    /\ sent' = [sent EXCEPT ![c] = Append(@, Head(queue[c]))]
    /\ UNCHANGED <<dropped, offered, Uncounted>>

LEMMA OnTheLoopBefore == ASSUME TypeOK, [Next]_vars, OnTheLoop' PROVE OnTheLoop
BY EventBusAssumption
DEF TypeOK, OnTheLoop, Next, PublishStep, Publish, NextQueue, Published, SetChanged, Offer,
    DropOldest, CountDrop, Put, Retry, Subscribe, Get, Leave

LEMMA OnTheLoopSteps ==
    ASSUME TypeOK, BoundInv, AloneInv, OnTheLoop, [Next]_vars
    PROVE  \/ UNCHANGED <<queue, dropped, sent, offered, Uncounted>>
           \/ Counts
           \/ \E c \in Clients : GivesUp(c) \/ Gives(c) \/ \E p \in Publishers : Takes(c, p)
<1> USE EventBusAssumption
\* No other call is midway.
<1>0. ASSUME NEW p \in Publishers, pc[p] \in Midway, NEW at \in Midway,
             pc' = [pc EXCEPT ![p] = at]
      PROVE  /\ Uncounted = IF pc[p] = "counting" THEN 1 ELSE 0
             /\ Uncounted' = IF at = "counting" THEN 1 ELSE 0
  <2>1. \A q \in Publishers \ {p} : pc[q] \notin Midway /\ pc'[q] = pc[q]
    BY <1>0 DEF OnTheLoop, BoundInv, OneOnLoop, TypeOK
  <2>2. pc'[p] = at
    BY <1>0 DEF TypeOK
  <2>3. QED
    BY <2>1, <2>2 DEF Uncounted
<1>1. ASSUME NEW p \in Publishers, DropOldest(p) PROVE target[p] \in Clients /\ GivesUp(target[p])
  <2>1. target[p] \in Clients /\ Len(queue[target[p]]) = QUEUE_DEPTH
    BY <1>1 DEF DropOldest, BoundInv, TargetInv, AloneInv, RoomSeen
  <2>2. queue[target[p]] # <<>>
    BY <2>1
  <2>3. Uncounted = 0 /\ Uncounted' = 1
    BY <1>0, <1>1 DEF DropOldest
  <2>4. QED
    BY <1>1, <2>1, <2>2, <2>3 DEF DropOldest, GivesUp
<1>2. ASSUME NEW p \in Publishers, Put(p) PROVE target[p] \in Clients /\ Takes(target[p], p)
  <2>1. UNCHANGED Uncounted
    BY <1>0, <1>2 DEF Put
  <2>2. QED
    BY <1>2, <2>1 DEF Put, WasOffered, BoundInv, TargetInv, Takes
<1>3. ASSUME NEW p \in Publishers, Retry(p)
      PROVE  UNCHANGED <<queue, dropped, sent, offered, Uncounted>>
  <2>1. target[p] \in Clients /\ Len(queue[target[p]]) < QUEUE_DEPTH
    BY <1>3 DEF Retry, BoundInv, TargetInv, AloneInv, RoomSeen
  <2>2. ~Full(target[p])
    BY <2>1 DEF Full, TypeOK
  <2>3. UNCHANGED Uncounted
    BY <1>0, <1>3, <2>2 DEF Retry
  <2>4. QED
    BY <1>3, <2>2, <2>3 DEF Retry
<1>4. ASSUME NEW c \in Clients, Get(c) PROVE Gives(c)
  BY <1>4 DEF Get, Gives, Uncounted
<1>5. ASSUME NEW p \in Publishers, CountDrop(p) PROVE Counts
  <2>1. Uncounted = 1 /\ Uncounted' = 0
    BY <1>0, <1>5 DEF CountDrop
  <2>2. QED
    BY <1>5, <2>1 DEF CountDrop, Counts
<1>6. ASSUME NEW p \in Publishers,
             Publish(p) \/ (\E c \in Clients : NextQueue(p, c)) \/ Published(p)
             \/ SetChanged(p) \/ Offer(p)
      PROVE  UNCHANGED <<queue, dropped, sent, offered, Uncounted>>
  <2>1. /\ pc[p] # "counting" /\ pc'[p] # "counting"
        /\ \A q \in Publishers \ {p} : pc'[q] = pc[q]
    BY <1>6 DEF Publish, NextQueue, Published, SetChanged, Offer, TypeOK
  <2>2. UNCHANGED Uncounted
    BY <2>1 DEF Uncounted
  <2>3. QED
    BY <1>6, <2>2 DEF Publish, NextQueue, Published, SetChanged, Offer
<1>7. ASSUME UNCHANGED vars \/ \E c \in Clients : Subscribe(c) \/ Leave(c)
      PROVE  UNCHANGED <<queue, dropped, sent, offered, Uncounted>>
  BY <1>7 DEF Subscribe, Leave, Uncounted
<1>8. QED
  BY <1>1, <1>2, <1>3, <1>4, <1>5, <1>6, <1>7 DEF Next, PublishStep

LEMMA AloneStep ==
    ASSUME TypeOK, TypeOK', BoundInv, AloneInv, [Next]_vars
    PROVE  AloneInv'
<1> SUFFICES ASSUME OnTheLoop'
             PROVE  /\ \A c \in Clients : Len(queue'[c]) <= QUEUE_DEPTH
                    /\ \A p \in Publishers : RoomSeen(p)'
  BY DEF AloneInv
<1> USE EventBusAssumption
<1>0. /\ OnTheLoop
      /\ \A c \in Clients : Len(queue[c]) \in Nat /\ Len(queue[c]) <= QUEUE_DEPTH
      /\ \A p \in Publishers : RoomSeen(p)
  BY OnTheLoopBefore DEF AloneInv, TypeOK
\* No other call is midway.
<1>1. \A p, q \in Publishers : pc[p] \in Midway /\ pc[q] \in Midway => p = q
  BY <1>0 DEF OnTheLoop, BoundInv, OneOnLoop
<1>2. ASSUME NEW p \in Publishers, \A q \in Publishers \ {p} : pc'[q] = pc[q],
             \A q \in Publishers \ {p} : target'[q] = target[q],
             pc[p] \in Midway, RoomSeen(p)',
             \A c \in Clients : Len(queue'[c]) <= QUEUE_DEPTH
      PROVE  \A q \in Publishers : RoomSeen(q)'
  BY <1>1, <1>2 DEF RoomSeen
<1>3. ASSUME NEW p \in Publishers, Publish(p) \/ Published(p) \/ SetChanged(p)
      PROVE  \A q \in Publishers : RoomSeen(q)'
  BY <1>0, <1>3 DEF Publish, Published, SetChanged, RoomSeen, TypeOK
<1>4. ASSUME NEW p \in Publishers, NEW c \in Clients, NextQueue(p, c)
      PROVE  \A q \in Publishers : RoomSeen(q)'
  BY <1>0, <1>4 DEF NextQueue, RoomSeen, TypeOK
<1>5. ASSUME NEW p \in Publishers, Offer(p) PROVE \A q \in Publishers : RoomSeen(q)'
  <2>1. target[p] \in Clients /\ pc[p] \in Midway
    BY <1>5 DEF Offer, BoundInv, TargetInv
  <2>2. RoomSeen(p)'
    BY <1>0, <1>5, <2>1 DEF Offer, RoomSeen, Full, TypeOK
  <2>3. QED
    BY <1>0, <1>2, <1>5, <2>1, <2>2 DEF Offer, TypeOK
<1>6. ASSUME NEW p \in Publishers, DropOldest(p)
      PROVE  /\ \A c \in Clients : Len(queue'[c]) <= QUEUE_DEPTH
             /\ \A q \in Publishers : RoomSeen(q)'
  <2>1. target[p] \in Clients /\ pc[p] \in Midway /\ Len(queue[target[p]]) = QUEUE_DEPTH
    BY <1>0, <1>6 DEF DropOldest, BoundInv, TargetInv, RoomSeen
  <2>2. /\ Len(queue'[target[p]]) = QUEUE_DEPTH - 1
        /\ \A c \in Clients \ {target[p]} : queue'[c] = queue[c]
    BY <1>6, <2>1 DEF DropOldest, TypeOK
  <2>3. \A c \in Clients : Len(queue'[c]) <= QUEUE_DEPTH
    BY <1>0, <2>1, <2>2
  <2>4. RoomSeen(p)'
    BY <1>6, <2>1, <2>2 DEF DropOldest, RoomSeen, TypeOK
  <2>5. QED
    BY <1>2, <1>6, <2>1, <2>3, <2>4 DEF DropOldest, TypeOK
<1>7. ASSUME NEW p \in Publishers, Put(p)
      PROVE  /\ \A c \in Clients : Len(queue'[c]) <= QUEUE_DEPTH
             /\ \A q \in Publishers : RoomSeen(q)'
  <2>1. target[p] \in Clients /\ pc[p] \in Midway /\ Len(queue[target[p]]) < QUEUE_DEPTH
    BY <1>0, <1>7 DEF Put, BoundInv, TargetInv, RoomSeen
  <2>2. /\ Len(queue'[target[p]]) = Len(queue[target[p]]) + 1
        /\ \A c \in Clients \ {target[p]} : queue'[c] = queue[c]
    BY <1>7, <2>1 DEF Put, TypeOK
  <2>3. \A c \in Clients : Len(queue'[c]) <= QUEUE_DEPTH
    BY <1>0, <2>1, <2>2
  <2>4. RoomSeen(p)'
    BY <1>7 DEF Put, RoomSeen, TypeOK
  <2>5. QED
    BY <1>2, <1>7, <2>1, <2>3, <2>4 DEF Put, TypeOK
<1>8. ASSUME NEW p \in Publishers, Retry(p) PROVE \A q \in Publishers : RoomSeen(q)'
  <2>1. pc[p] \in Midway
    BY <1>8 DEF Retry
  <2>2. RoomSeen(p)'
    BY <1>0, <1>8 DEF Retry, RoomSeen, TypeOK
  <2>3. QED
    BY <1>0, <1>2, <1>8, <2>1, <2>2 DEF Retry, TypeOK
<1>9. ASSUME NEW c \in Clients, Subscribe(c) \/ Leave(c) PROVE \A q \in Publishers : RoomSeen(q)'
  BY <1>0, <1>9 DEF Subscribe, Leave, RoomSeen
<1>10. ASSUME NEW c \in Clients, Get(c)
       PROVE  /\ \A d \in Clients : Len(queue'[d]) <= QUEUE_DEPTH
              /\ \A q \in Publishers : RoomSeen(q)'
  <2>1. \A d \in Clients : Len(queue'[d]) <= Len(queue[d])
    BY <1>10 DEF Get, TypeOK
  <2>2. \A q \in Publishers : pc'[q] \notin Midway
    BY <1>0, <1>10 DEF Get, LoopFree, OnTheLoop
  <2>3. \A d \in Clients : Len(queue'[d]) <= QUEUE_DEPTH
    <3>1. \A d \in Clients : Len(queue'[d]) \in Nat
      BY DEF TypeOK
    <3>2. QED
      BY <1>0, <2>1, <3>1
  <2>4. QED
    BY <2>2, <2>3 DEF RoomSeen
<1>11. CASE UNCHANGED vars
  BY <1>0, <1>11 DEF RoomSeen
<1>12. ASSUME NEW p \in Publishers, CountDrop(p) PROVE \A q \in Publishers : RoomSeen(q)'
  <2>1. RoomSeen(p)' /\ pc[p] \in Midway
    BY <1>0, <1>12 DEF CountDrop, RoomSeen, TypeOK
  <2>2. QED
    BY <1>0, <1>2, <1>12, <2>1 DEF CountDrop, TypeOK
<1>13. UNCHANGED queue => \A c \in Clients : Len(queue'[c]) <= QUEUE_DEPTH
  BY <1>0
<1>14. QED
  BY <1>3, <1>4, <1>5, <1>6, <1>7, <1>8, <1>9, <1>10, <1>11, <1>12, <1>13
  DEF Next, PublishStep, Publish, NextQueue, Published, SetChanged, Offer, CountDrop, Retry,
      Subscribe, Leave

LEMMA AloneInvariant == Spec => [](TypeOK /\ BoundInv /\ AloneInv)
<1>1. Init => AloneInv
  <2>1. ASSUME Init PROVE AloneInv
    <3>1. (\A c \in Clients : Len(queue[c]) = 0) /\ \A p \in Publishers : pc[p] = "idle"
      BY <2>1 DEF Init
    <3>2. QED
      BY <3>1, EventBusAssumption DEF AloneInv, RoomSeen
  <2>2. QED
    BY <2>1
<1>2. TypeOK /\ TypeOK' /\ BoundInv /\ AloneInv /\ [Next]_vars => AloneInv'
  BY AloneStep
<1>3. QED
  BY <1>1, <1>2, TypeCorrect, BoundInvariant, PTL DEF Spec

\* The events of s are the last of those of o.
EndOf(s, o) ==
    Len(s) <= Len(o) /\ \A i \in 1..Len(s) : s[i] = o[Len(o) - Len(s) + i]

LEMMA EndOfTail ==
    ASSUME NEW S, NEW s \in Seq(S), NEW o \in Seq(S), s # <<>>, EndOf(s, o)
    PROVE  EndOf(Tail(s), o)
<1>1. /\ Len(s) \in Nat /\ Len(o) \in Nat /\ Len(s) <= Len(o)
      /\ Len(Tail(s)) = Len(s) - 1
  BY DEF EndOf
<1>2. ASSUME NEW i \in 1..Len(s) - 1 PROVE Tail(s)[i] = o[Len(o) - (Len(s) - 1) + i]
  <2>1. Tail(s)[i] = s[i + 1] /\ i + 1 \in 1..Len(s)
    BY <1>1
  <2>2. Len(o) - Len(s) + (i + 1) = Len(o) - (Len(s) - 1) + i
    BY <1>1
  <2>3. s[i + 1] = o[Len(o) - Len(s) + (i + 1)]
    BY <2>1 DEF EndOf
  <2>4. QED
    BY <2>1, <2>2, <2>3
<1>3. QED
  BY <1>1, <1>2 DEF EndOf

LEMMA EndOfAppend ==
    ASSUME NEW S, NEW s \in Seq(S), NEW o \in Seq(S), NEW e \in S, EndOf(s, o)
    PROVE  EndOf(Append(s, e), Append(o, e))
<1>1. /\ Len(s) \in Nat /\ Len(o) \in Nat /\ Len(s) <= Len(o)
      /\ Len(Append(s, e)) = Len(s) + 1 /\ Len(Append(o, e)) = Len(o) + 1
  BY DEF EndOf
<1>2. ASSUME NEW i \in 1..Len(s) PROVE Append(s, e)[i] = Append(o, e)[Len(o) - Len(s) + i]
  <2>1. s[i] = o[Len(o) - Len(s) + i] /\ Len(o) - Len(s) + i \in 1..Len(o)
    BY <1>1 DEF EndOf
  <2>2. QED
    BY <1>1, <2>1
<1>3. Append(s, e)[Len(s) + 1] = Append(o, e)[Len(o) + 1]
  OBVIOUS
<1>4. QED
  BY <1>1, <1>2, <1>3 DEF EndOf

LEMMA EndOfIs ==
    ASSUME NEW S, NEW s \in Seq(S), NEW o \in Seq(S), EndOf(s, o)
    PROVE  \E n \in 0..Len(o) : s = SubSeq(o, n + 1, Len(o))
<1> DEFINE n == Len(o) - Len(s)
           last == SubSeq(o, n + 1, Len(o))
<1>1. /\ Len(s) \in Nat /\ Len(o) \in Nat /\ n \in 0..Len(o)
      /\ s = [i \in 1..Len(s) |-> s[i]]
  BY DEF EndOf
<1>2. last = [i \in 1..Len(s) |-> o[n + i]]
  BY <1>1
<1>3. \A i \in 1..Len(s) : s[i] = o[n + i]
  BY DEF EndOf
<1>4. QED
  BY <1>1, <1>2, <1>3

NewestInv == OnTheLoop => \A c \in Clients : EndOf(queue[c], offered[c])

(* While publish() is called from the event loop only, what waits in a queue *)
(* is the newest of what it was offered, whatever the depth: events.py:40-52. *)
THEOREM NewestAreKept == Spec => []NewestKept
<1>1. Init => NewestInv
  BY DEF Init, NewestInv, EndOf
<1>2. ASSUME TypeOK, BoundInv, AloneInv, NewestInv, [Next]_vars, OnTheLoop', NEW c \in Clients
      PROVE  EndOf(queue'[c], offered'[c])
  <2>1. EndOf(queue[c], offered[c]) /\ queue[c] \in Seq(Publishers) /\ offered[c] \in Seq(Publishers)
    BY <1>2, OnTheLoopBefore DEF NewestInv, TypeOK
  <2>2. CASE UNCHANGED <<queue, offered>>
    BY <2>1, <2>2
  <2>3. ASSUME NEW d \in Clients, GivesUp(d) \/ Gives(d) PROVE EndOf(queue'[c], offered'[c])
    <3>1. \/ queue'[c] = queue[c]
          \/ queue[c] # <<>> /\ queue'[c] = Tail(queue[c])
      BY <1>2, <2>3 DEF GivesUp, Gives, TypeOK
    <3>2. UNCHANGED offered
      BY <2>3 DEF GivesUp, Gives
    <3>3. QED
      BY <2>1, <3>1, <3>2, EndOfTail
  <2>4. ASSUME NEW d \in Clients, NEW p \in Publishers, Takes(d, p)
        PROVE  EndOf(queue'[c], offered'[c])
    <3>1. \/ queue'[c] = queue[c] /\ offered'[c] = offered[c]
          \/ queue'[c] = Append(queue[c], p) /\ offered'[c] = Append(offered[c], p)
      BY <1>2, <2>4 DEF Takes, TypeOK
    <3>2. QED
      BY <2>1, <3>1, EndOfAppend
  <2>5. QED
    BY <1>2, <2>2, <2>3, <2>4, OnTheLoopBefore, OnTheLoopSteps DEF Counts
<1>3. TypeOK /\ BoundInv /\ AloneInv /\ NewestInv /\ [Next]_vars => NewestInv'
  BY <1>2 DEF NewestInv
<1>4. TypeOK /\ NewestInv => NewestKept
  BY EndOfIs DEF TypeOK, NewestInv, NewestKept
<1>5. QED
  BY <1>1, <1>3, <1>4, AloneInvariant, PTL DEF Spec

-----------------------------------------------------------------------------
(***************************************************************************)
(* Totals.  Total is a sum over the clients, one by one; that it changes by *)
(* what one of them changes by takes an induction over sets of clients.     *)
(***************************************************************************)
First(S) == CHOOSE c \in S : TRUE

LEMMA FewerClients ==
    ASSUME NEW S \in SUBSET Clients, S # {}
    PROVE  /\ First(S) \in S /\ S \ {First(S)} \in SUBSET Clients
           /\ Cardinality(S) \in Nat /\ Cardinality(S \ {First(S)}) = Cardinality(S) - 1
<1>1. IsFiniteSet(S) /\ First(S) \in S
  BY EventBusAssumption, FS_Subset DEF First
<1>2. QED
  BY <1>1, FS_CardinalityType, FS_RemoveElement

\* A set of naturals with a member has a least one.
LEMMA Least == ASSUME NEW T, T \subseteq Nat, T # {}
               PROVE  \E n \in T : \A m \in T : n <= m
<1>1. PICK n \in T : \A m \in T : ~(<<m, n>> \in OpToRel(<, Nat))
  BY WFMin, NatLessThanWellFounded, Zenon
<1>2. \A m \in T : ~(m < n)
  BY <1>1 DEF OpToRel
<1>3. QED
  BY <1>2

\* Induction, over the set of the sets for which something holds.
LEMMA ClientByClient ==
    ASSUME NEW T, {} \in T,
           \A S \in SUBSET Clients : S # {} /\ S \ {First(S)} \in T => S \in T
    PROVE  \A S \in SUBSET Clients : S \in T
<1> DEFINE Bad == {k \in Nat : \E S \in SUBSET Clients : Cardinality(S) = k /\ S \notin T}
<1>1. Bad = {}
  <2>1. SUFFICES ASSUME Bad # {} PROVE FALSE
    OBVIOUS
  <2>2. PICK k \in Bad : \A m \in Bad : k <= m
    BY <2>1, Least
  <2>3. PICK S \in SUBSET Clients : Cardinality(S) = k /\ S \notin T
    BY <2>2
  <2>4. S # {} /\ S \ {First(S)} \notin T
    BY <2>3
  <2>5. /\ S \ {First(S)} \in SUBSET Clients /\ k \in Nat
        /\ k - 1 \in Nat /\ Cardinality(S \ {First(S)}) = k - 1
    <3>1. /\ S \ {First(S)} \in SUBSET Clients /\ k \in Nat
          /\ Cardinality(S \ {First(S)}) = k - 1
      BY <2>3, <2>4, FewerClients
    <3>2. IsFiniteSet(S \ {First(S)})
      BY <3>1, EventBusAssumption, FS_Subset
    <3>3. Cardinality(S \ {First(S)}) \in Nat
      BY <3>2, FS_CardinalityType
    <3>4. QED
      BY <3>1, <3>3
  <2>6. k - 1 \in Bad
    BY <2>4, <2>5
  <2>7. QED
    BY <2>2, <2>5, <2>6
<1>2. ASSUME NEW S \in SUBSET Clients PROVE Cardinality(S) \in Nat
  BY EventBusAssumption, FS_Subset, FS_CardinalityType
<1>3. QED
  BY <1>1, <1>2

\* One step of the recursion that Total is.
Added(f, t, S) == IF S = {} THEN 0 ELSE Len(f[First(S)]) + t[S \ {First(S)}]

\* There is a function that satisfies it.
LEMMA TotalExists ==
    ASSUME NEW f PROVE \E t : t = [S \in SUBSET Clients |-> Added(f, t, S)]
<1> DEFINE Small(k) == {S \in SUBSET Clients : Cardinality(S) <= k}
           Defined(k) == \E t : t = [S \in Small(k) |-> Added(f, t, S)]
           Undefined == {k \in Nat : ~Defined(k)}
<1>0. \A S \in SUBSET Clients : IsFiniteSet(S) /\ Cardinality(S) \in Nat
  BY EventBusAssumption, FS_Subset, FS_CardinalityType
<1>1. Undefined = {}
  <2>1. SUFFICES ASSUME Undefined # {} PROVE FALSE
    OBVIOUS
  <2>2. PICK k \in Undefined : \A m \in Undefined : k <= m
    BY <2>1, Least
  <2>3. CASE k = 0
    <3> DEFINE t == [S \in Small(0) |-> 0]
    <3>1. \A S \in Small(0) : S = {}
      BY <1>0, FS_EmptySet
    <3>2. t = [S \in Small(0) |-> Added(f, t, S)]
      BY <3>1 DEF Added
    <3>3. QED
      BY <2>2, <2>3, <3>2, Zenon
  <2>4. CASE k # 0
    <3>0. k \in Nat
      BY <2>2
    <3>1. k - 1 \in Nat /\ Defined(k - 1)
      <4> HIDE DEF Defined
      <4>1. k - 1 \in Nat /\ ~(k <= k - 1)
        BY <3>0, <2>4
      <4>2. QED
        BY <2>2, <4>1
    <3>2. PICK t : t = [S \in Small(k - 1) |-> Added(f, t, S)]
      BY <3>1
    <3> DEFINE longer == [S \in Small(k) |-> IF Cardinality(S) = k THEN Added(f, t, S) ELSE t[S]]
    <3>3. \A S \in Small(k) : longer[S] = Added(f, longer, S)
      <4>1. TAKE S \in Small(k)
      <4>2. longer[S] = Added(f, t, S)
        BY <1>0, <3>0, <3>1, <3>2
      <4>3. CASE S = {}
        BY <4>2, <4>3 DEF Added
      <4>4. CASE S # {}
        <5>1. S \ {First(S)} \in Small(k - 1) /\ Cardinality(S \ {First(S)}) # k
          BY <1>0, <3>0, <3>1, <4>4, FewerClients
        <5>2. longer[S \ {First(S)}] = t[S \ {First(S)}]
          BY <1>0, <3>0, <3>1, <5>1
        <5>3. QED
          BY <4>2, <5>2 DEF Added
      <4>5. QED
        BY <4>3, <4>4
    <3>4. longer = [S \in Small(k) |-> longer[S]]
      BY Zenon
    <3> HIDE DEF longer
    <3>5. longer = [S \in Small(k) |-> Added(f, longer, S)]
      BY <3>3, <3>4
    <3>6. QED
      BY <2>2, <3>5, Zenon
  <2>5. QED
    BY <2>3, <2>4
<1>2. Defined(Cardinality(Clients))
  BY <1>0, <1>1
<1>3. Small(Cardinality(Clients)) = SUBSET Clients
  BY EventBusAssumption, FS_Subset
<1>4. QED
  BY <1>2, <1>3

LEMMA TotalIs ==
    ASSUME NEW f
    PROVE  \E t : Total(f) = t[Clients] /\ \A S \in SUBSET Clients : t[S] = Added(f, t, S)
<1> DEFINE t == CHOOSE g : g = [S \in SUBSET Clients |->
               IF S = {} THEN 0
               ELSE Len(f[CHOOSE c \in S : TRUE]) + g[S \ {CHOOSE c \in S : TRUE}]]
<1>1. Total(f) = t[Clients]
  BY Zenon DEF Total, MapThenSumSet, MapThenFoldSet
<1>2. t = [S \in SUBSET Clients |->
           IF S = {} THEN 0
           ELSE Len(f[CHOOSE c \in S : TRUE]) + t[S \ {CHOOSE c \in S : TRUE}]]
  <2>1. \E g : g = [S \in SUBSET Clients |-> Added(f, g, S)]
    BY TotalExists, Zenon
  <2>2. \E g : g = [S \in SUBSET Clients |->
                 IF S = {} THEN 0
                 ELSE Len(f[CHOOSE c \in S : TRUE]) + g[S \ {CHOOSE c \in S : TRUE}]]
    BY <2>1, Zenon DEF Added, First
  <2>3. QED
    BY <2>2, Zenon
<1>3. \A S \in SUBSET Clients : t[S] = Added(f, t, S)
  BY <1>2, Zenon DEF Added, First
<1>4. QED
  BY <1>1, <1>3, Zenon

Lengths(f) == \A c \in Clients : Len(f[c]) \in Nat

\* It changes by what one client's sequence changes by.
LEMMA TotalChanges ==
    ASSUME NEW f, NEW g, Lengths(f), Lengths(g), NEW c \in Clients,
           \A d \in Clients \ {c} : g[d] = f[d]
    PROVE  /\ Total(f) \in Nat /\ Total(g) \in Nat
           /\ Total(g) = Total(f) + (Len(g[c]) - Len(f[c]))
<1>1. PICK t : Total(f) = t[Clients] /\ \A S \in SUBSET Clients : t[S] = Added(f, t, S)
  BY TotalIs
<1>2. PICK u : Total(g) = u[Clients] /\ \A S \in SUBSET Clients : u[S] = Added(g, u, S)
  BY TotalIs
<1> DEFINE More(S) == IF c \in S THEN Len(g[c]) - Len(f[c]) ELSE 0
           Good == {S \in SUBSET Clients :
                       t[S] \in Nat /\ u[S] \in Nat /\ u[S] = t[S] + More(S)}
<1>3. {} \in Good
  <2>1. t[{}] = 0 /\ u[{}] = 0
    BY <1>1, <1>2 DEF Added
  <2>2. QED
    BY <2>1
<1>4. ASSUME NEW S \in SUBSET Clients, S # {}, S \ {First(S)} \in Good PROVE S \in Good
  <2> DEFINE rest == S \ {First(S)}
  <2>1. t[S] = Len(f[First(S)]) + t[rest] /\ u[S] = Len(g[First(S)]) + u[rest]
    BY <1>1, <1>2, <1>4 DEF Added
  <2>2. First(S) \in S /\ First(S) \in Clients
    BY <1>4, FewerClients
  <2>3. /\ Len(f[First(S)]) \in Nat /\ Len(g[First(S)]) \in Nat
        /\ t[rest] \in Nat /\ u[rest] \in Nat /\ u[rest] = t[rest] + More(rest)
    BY <1>4, <2>2 DEF Lengths
  <2>4. /\ More(rest) \in Int
        /\ Len(g[First(S)]) + More(rest) = Len(f[First(S)]) + More(S)
    <3>1. Len(f[c]) \in Nat /\ Len(g[c]) \in Nat
      BY DEF Lengths
    <3>2. CASE First(S) = c
      <4>1. More(rest) = 0 /\ More(S) = Len(g[c]) - Len(f[c])
        BY <2>2, <3>2
      <4> HIDE DEF More
      <4>2. QED
        BY <3>1, <3>2, <4>1
    <3>3. CASE First(S) # c
      <4>1. c \in rest <=> c \in S
        BY <3>3
      <4>2. More(rest) = More(S)
        BY <4>1
      <4>3. g[First(S)] = f[First(S)]
        BY <2>2, <3>3
      <4>4. More(S) \in Int
        BY <3>1
      <4> HIDE DEF More
      <4>5. QED
        BY <2>3, <4>2, <4>3, <4>4
    <3>4. QED
      BY <3>2, <3>3
  <2>5. More(S) \in Int
    BY DEF Lengths
  <2>6. t[S] \in Nat /\ u[S] \in Nat /\ u[S] = t[S] + More(S)
    <3>1. PICK m \in Int, n \in Int, a \in Nat, b \in Nat, x \in Nat, y \in Nat :
              /\ m = More(rest) /\ n = More(S)
              /\ a = Len(f[First(S)]) /\ b = Len(g[First(S)]) /\ x = t[rest] /\ y = u[rest]
      BY <2>3, <2>4, <2>5, Zenon
    <3>2. y = x + m /\ b + m = a + n /\ t[S] = a + x /\ u[S] = b + y
      BY <2>1, <2>3, <2>4, <3>1, Zenon
    <3>3. a + x \in Nat /\ b + y \in Nat /\ b + y = (a + x) + n
      <4>1. y = x + m /\ b + m = a + n
        BY <3>2
      <4>2. QED
        BY <4>1
    <3>4. QED
      BY <3>1, <3>2, <3>3, Zenon
  <2>7. QED
    BY <2>6
<1> HIDE DEF Good
<1>5. Clients \in Good
  BY <1>3, <1>4, ClientByClient
<1>6. QED
  BY <1>1, <1>2, <1>5 DEF Good

LEMMA TotalOfNothing == ASSUME NEW f, \A c \in Clients : Len(f[c]) = 0 PROVE Total(f) = 0
<1>1. PICK t : Total(f) = t[Clients] /\ \A S \in SUBSET Clients : t[S] = Added(f, t, S)
  BY TotalIs
<1> DEFINE Good == {S \in SUBSET Clients : t[S] = 0}
<1>2. {} \in Good
  BY <1>1 DEF Added
<1>3. ASSUME NEW S \in SUBSET Clients, S # {}, S \ {First(S)} \in Good PROVE S \in Good
  <2>1. t[S] = Len(f[First(S)]) + t[S \ {First(S)}]
    BY <1>1, <1>3 DEF Added
  <2>2. Len(f[First(S)]) = 0
    BY <1>3, FewerClients
  <2>3. QED
    BY <1>3, <2>1, <2>2
<1> HIDE DEF Good
<1>4. Clients \in Good
  BY <1>2, <1>3, ClientByClient
<1>5. QED
  BY <1>1, <1>4 DEF Good

LEMMA TotalIsNat == ASSUME TypeOK PROVE Total(queue) + Total(sent) \in Nat
<1>1. Lengths(queue) /\ Lengths(sent)
  BY DEF TypeOK, Lengths
<1>2. ASSUME NEW c \in Clients PROVE Total(queue) \in Nat /\ Total(sent) \in Nat
  BY <1>1, TotalChanges
<1>3. CASE Clients = {}
  BY <1>3, TotalOfNothing
<1>4. QED
  BY <1>2, <1>3

\* Between the steps of a call, an event that is lost and not counted is about to be.
CountInv ==
    OnTheLoop => Total(offered) = Total(queue) + Total(sent) + dropped + Uncounted

(* While publish() is called from the event loop only, `dropped` is the      *)
(* number of events that queues have lost, whatever the depth and however    *)
(* many clients come and go: events.py:12 and 40-52.                         *)
THEOREM LossesAreCounted == Spec => []EveryLossRecorded
<1>1. Init => CountInv
  <2>1. ASSUME Init PROVE CountInv
    <3>1. \A c \in Clients : Len(queue[c]) = 0 /\ Len(sent[c]) = 0 /\ Len(offered[c]) = 0
      BY <2>1 DEF Init
    <3>2. dropped = 0
      BY <2>1 DEF Init
    <3>3. Uncounted = 0
      BY <2>1 DEF Init, Uncounted
    <3>4. QED
      BY <3>1, <3>2, <3>3, TotalOfNothing DEF CountInv
  <2>2. QED
    BY <2>1
<1>2. ASSUME TypeOK, TypeOK', BoundInv, AloneInv, CountInv, [Next]_vars, OnTheLoop'
      PROVE  Total(offered') = Total(queue') + Total(sent') + dropped' + Uncounted'
  <2>1. /\ Lengths(queue) /\ Lengths(sent) /\ Lengths(offered) /\ dropped \in Nat
        /\ Lengths(queue') /\ Lengths(sent') /\ Lengths(offered')
    <3>1. \A h \in [Clients -> Seq(Publishers)] : Lengths(h)
      BY DEF Lengths
    <3>2. QED
      BY <1>2, <3>1 DEF TypeOK
  <2>2. /\ OnTheLoop /\ Uncounted \in Nat
        /\ Total(offered) = Total(queue) + Total(sent) + dropped + Uncounted
    BY <1>2, OnTheLoopBefore DEF CountInv, Uncounted
  <2>3. CASE UNCHANGED <<queue, dropped, sent, offered, Uncounted>>
    BY <2>2, <2>3
  <2>4. CASE Counts
    <3>1. /\ UNCHANGED <<queue, sent, offered>> /\ dropped' = dropped + 1
          /\ Uncounted = 1 /\ Uncounted' = 0
      BY <2>4 DEF Counts
    <3>2. Total(queue) + Total(sent) \in Nat
      BY <1>2, TotalIsNat
    <3>3. QED
      BY <2>1, <2>2, <3>1, <3>2
  <2>5. ASSUME NEW c \in Clients, GivesUp(c)
        PROVE  Total(offered') = Total(queue') + Total(sent') + dropped' + Uncounted'
    <3>1. Len(queue'[c]) = Len(queue[c]) - 1 /\ \A d \in Clients \ {c} : queue'[d] = queue[d]
      BY <1>2, <2>5 DEF GivesUp, TypeOK
    <3>2. /\ Total(queue) \in Nat /\ Total(queue') \in Nat
          /\ Total(queue') = Total(queue) + (Len(queue'[c]) - Len(queue[c]))
      BY <2>1, <3>1, TotalChanges
    <3>3. Total(sent) \in Nat /\ Len(queue[c]) \in Nat
      BY <2>1, TotalChanges DEF Lengths
    <3>4. Uncounted = 0 /\ Uncounted' = 1 /\ UNCHANGED <<dropped, sent, offered>>
      BY <2>5 DEF GivesUp
    <3>5. QED
      BY <2>1, <2>2, <3>1, <3>2, <3>3, <3>4
  <2>6. ASSUME NEW c \in Clients, NEW p \in Publishers, Takes(c, p)
        PROVE  Total(offered') = Total(queue') + Total(sent') + dropped' + Uncounted'
    <3>1. /\ Len(queue'[c]) = Len(queue[c]) + 1 /\ \A d \in Clients \ {c} : queue'[d] = queue[d]
          /\ Len(offered'[c]) = Len(offered[c]) + 1
          /\ \A d \in Clients \ {c} : offered'[d] = offered[d]
      BY <1>2, <2>6 DEF Takes, TypeOK
    <3>2. /\ Total(queue) \in Nat /\ Total(queue') \in Nat
          /\ Total(queue') = Total(queue) + (Len(queue'[c]) - Len(queue[c]))
      BY <2>1, <3>1, TotalChanges
    <3>3. /\ Total(offered) \in Nat /\ Total(offered') \in Nat
          /\ Total(offered') = Total(offered) + (Len(offered'[c]) - Len(offered[c]))
      BY <2>1, <3>1, TotalChanges
    <3>4. Total(sent) \in Nat /\ Len(queue[c]) \in Nat /\ Len(offered[c]) \in Nat
      BY <2>1, TotalChanges DEF Lengths
    <3>5. UNCHANGED <<dropped, sent, Uncounted>>
      BY <2>6 DEF Takes
    <3>6. QED
      BY <2>1, <2>2, <3>1, <3>2, <3>3, <3>4, <3>5
  <2>7. ASSUME NEW c \in Clients, Gives(c)
        PROVE  Total(offered') = Total(queue') + Total(sent') + dropped' + Uncounted'
    <3>1. /\ Len(queue'[c]) = Len(queue[c]) - 1 /\ \A d \in Clients \ {c} : queue'[d] = queue[d]
          /\ Len(sent'[c]) = Len(sent[c]) + 1 /\ \A d \in Clients \ {c} : sent'[d] = sent[d]
      BY <1>2, <2>7 DEF Gives, TypeOK
    <3>2. /\ Total(queue) \in Nat /\ Total(queue') \in Nat
          /\ Total(queue') = Total(queue) + (Len(queue'[c]) - Len(queue[c]))
      BY <2>1, <3>1, TotalChanges
    <3>3. /\ Total(sent) \in Nat /\ Total(sent') \in Nat
          /\ Total(sent') = Total(sent) + (Len(sent'[c]) - Len(sent[c]))
      BY <2>1, <3>1, TotalChanges
    <3>4. Len(queue[c]) \in Nat /\ Len(sent[c]) \in Nat
      BY <2>1 DEF Lengths
    <3>5. UNCHANGED <<dropped, offered, Uncounted>>
      BY <2>7 DEF Gives
    <3>6. QED
      BY <2>1, <2>2, <3>1, <3>2, <3>3, <3>4, <3>5
  <2>8. QED
    BY <1>2, <2>2, <2>3, <2>4, <2>5, <2>6, <2>7, OnTheLoopSteps
<1>3. TypeOK /\ TypeOK' /\ BoundInv /\ AloneInv /\ CountInv /\ [Next]_vars => CountInv'
  BY <1>2 DEF CountInv
<1>4. TypeOK /\ CountInv => EveryLossRecorded
  <2>1. SUFFICES ASSUME TypeOK, CountInv, OnTheLoop, Quiet
                 PROVE  Total(offered) = Total(queue) + Total(sent) + dropped
    BY DEF EveryLossRecorded
  <2>2. Uncounted = 0
    BY <2>1 DEF Quiet, Uncounted
  <2>3. Total(offered) = Total(queue) + Total(sent) + dropped + 0
    BY <2>1, <2>2 DEF CountInv
  <2>4. Total(queue) + Total(sent) \in Nat
    BY <2>1, TotalIsNat
  <2>5. QED
    BY <2>1, <2>3, <2>4 DEF TypeOK
<1>5. QED
  BY <1>1, <1>3, <1>4, AloneInvariant, PTL DEF Spec

-----------------------------------------------------------------------------
(***************************************************************************)
(* EventBus implements LossyStreams.  A queue is offered an event once,     *)
(* because a call that has offered it is through with that queue.           *)
(***************************************************************************)
WasOfferedTo(p, c) == \E i \in DOMAIN offered[c] : offered[c][i] = p

AtQueue(p) == pc[p] \in {"offering", "putting", "dropping", "counting", "retrying"}

OnceInv ==
    \A p \in Publishers :
        /\ AtQueue(p) => target[p] \in Clients /\ target[p] \in visited[p]
        /\ \A c \in Clients : WasOfferedTo(p, c) =>
              pc[p] # "idle" /\ c \in visited[p] /\ (AtQueue(p) => target[p] # c)

\* What is in a sequence to which an element has been appended.
LEMMA InAppended ==
    ASSUME NEW S, NEW s \in Seq(S), NEW e \in S, NEW q,
           \E i \in DOMAIN Append(s, e) : Append(s, e)[i] = q
    PROVE  q = e \/ \E i \in DOMAIN s : s[i] = q
<1>1. PICK i \in DOMAIN Append(s, e) : Append(s, e)[i] = q
  OBVIOUS
<1>2. /\ DOMAIN Append(s, e) = 1..(Len(s) + 1)
      /\ Len(s) \in Nat
      /\ DOMAIN s = 1..Len(s)
  OBVIOUS
<1>3. CASE i = Len(s) + 1
  BY <1>1, <1>3
<1>4. CASE i \in 1..Len(s)
  BY <1>1, <1>2, <1>4
<1>5. QED
  BY <1>1, <1>2, <1>3, <1>4

\* The steps that end a call's turn at a queue.
LEMMA OfferedOnce ==
    ASSUME TypeOK, OnceInv, NEW p \in Publishers, AtQueue(p), WasOffered(p),
           pc' = [pc EXCEPT ![p] = "iterating"], UNCHANGED <<visited, target>>
    PROVE  OnceInv'
<1>1. \A q \in Publishers : q # p => pc'[q] = pc[q]
  BY DEF TypeOK
<1>2. pc'[p] = "iterating"
  BY DEF TypeOK
<1>3. ASSUME NEW q \in Publishers, NEW c \in Clients, WasOfferedTo(q, c)'
      PROVE  WasOfferedTo(q, c) \/ (q = p /\ c = target[p])
  <2>1. CASE c = target[p]
    <3>1. offered'[c] = Append(offered[c], p) /\ offered[c] \in Seq(Publishers)
      BY <2>1 DEF TypeOK, WasOffered
    <3>2. QED
      BY <1>3, <2>1, <3>1, InAppended DEF WasOfferedTo
  <2>2. CASE c # target[p]
    <3>1. offered'[c] = offered[c]
      BY <2>2 DEF TypeOK, WasOffered
    <3>2. QED
      BY <1>3, <3>1 DEF WasOfferedTo
  <2>3. QED
    BY <2>1, <2>2
<1>4. QED
  BY <1>1, <1>2, <1>3 DEF OnceInv, AtQueue

LEMMA OnceStep == ASSUME TypeOK, OnceInv, [Next]_vars PROVE OnceInv'
<1>1. ASSUME NEW p \in Publishers, Publish(p) PROVE OnceInv'
  BY <1>1 DEF Publish, TypeOK, OnceInv, AtQueue, WasOfferedTo
<1>2. ASSUME NEW p \in Publishers, NEW c \in Clients, NextQueue(p, c) PROVE OnceInv'
  BY <1>2 DEF NextQueue, TypeOK, OnceInv, AtQueue, WasOfferedTo
<1>3. ASSUME NEW p \in Publishers,
             Published(p) \/ SetChanged(p) \/ Offer(p) \/ DropOldest(p) \/ CountDrop(p)
      PROVE  OnceInv'
  <2>1. \A q \in Publishers : AtQueue(q)' => AtQueue(q)
    <3>1. \/ pc[p] = "iterating" /\ pc' = [pc EXCEPT ![p] = "done"]
          \/ pc[p] = "iterating" /\ pc' = [pc EXCEPT ![p] = "raised"]
          \/ pc[p] = "offering" /\ pc' = [pc EXCEPT ![p] = "dropping"]
          \/ pc[p] = "offering" /\ pc' = [pc EXCEPT ![p] = "putting"]
          \/ pc[p] = "dropping" /\ pc' = [pc EXCEPT ![p] = "counting"]
          \/ pc[p] = "counting" /\ pc' = [pc EXCEPT ![p] = "retrying"]
      BY <1>3 DEF Published, SetChanged, Offer, DropOldest, CountDrop
    <3>2. QED
      BY <3>1 DEF TypeOK, AtQueue
  <2>2. \A q \in Publishers : pc'[q] = "idle" => pc[q] = "idle"
    BY <1>3 DEF Published, SetChanged, Offer, DropOldest, CountDrop, TypeOK
  <2>3. UNCHANGED <<offered, visited, target>>
    BY <1>3 DEF Published, SetChanged, Offer, DropOldest, CountDrop
  <2>4. QED
    BY <2>1, <2>2, <2>3 DEF OnceInv, WasOfferedTo
<1>4. ASSUME NEW p \in Publishers, Put(p) PROVE OnceInv'
  BY <1>4, OfferedOnce DEF Put, AtQueue
<1>5. ASSUME NEW p \in Publishers, Retry(p) PROVE OnceInv'
  <2>1. CASE Full(target[p])
    BY <1>5, <2>1, OfferedOnce DEF Retry, AtQueue
  <2>2. CASE ~Full(target[p])
    BY <1>5, <2>2 DEF Retry, TypeOK, OnceInv, AtQueue, WasOfferedTo
  <2>3. QED
    BY <2>1, <2>2
<1>6. ASSUME NEW c \in Clients, Subscribe(c) \/ Get(c) \/ Leave(c) PROVE OnceInv'
  BY <1>6 DEF Subscribe, Get, Leave, OnceInv, AtQueue, WasOfferedTo
<1>7. CASE UNCHANGED vars
  BY <1>7 DEF OnceInv, AtQueue, WasOfferedTo
<1>8. QED
  BY <1>1, <1>2, <1>3, <1>4, <1>5, <1>6, <1>7 DEF Next, PublishStep

LEMMA StreamStep == ASSUME TypeOK, OnceInv, [Next]_vars
                    PROVE  Streams!Next \/ UNCHANGED Streams!vars
<1> USE DEF Streams!vars, Streams!Next
<1>1. ASSUME NEW p \in Publishers, DropOldest(p)
      PROVE  Streams!GiveUp(target[p]) \/ UNCHANGED Streams!vars
  <2>1. CASE queue[target[p]] = <<>>
    BY <1>1, <2>1 DEF DropOldest, TypeOK
  <2>2. CASE queue[target[p]] # <<>>
    BY <1>1, <2>2 DEF DropOldest, Streams!GiveUp
  <2>3. QED
    BY <2>1, <2>2
<1>2. ASSUME NEW p \in Publishers, Put(p)
      PROVE  target[p] \in Clients /\ Streams!Come(target[p], p)
  BY <1>2 DEF Put, WasOffered, OnceInv, AtQueue, WasOfferedTo, Streams!Come
<1>3. ASSUME NEW p \in Publishers, Retry(p)
      PROVE  \/ UNCHANGED Streams!vars
             \/ target[p] \in Clients /\ Streams!Come(target[p], p)
  BY <1>3 DEF Retry, WasOffered, OnceInv, AtQueue, WasOfferedTo, Streams!Come
<1>4. ASSUME NEW c \in Clients, Get(c) PROVE Streams!Send(c)
  BY <1>4 DEF Get, Streams!Send
<1>5. ASSUME NEW p \in Publishers, DropOldest(p) PROVE target[p] \in Clients
  BY <1>5 DEF DropOldest, OnceInv, AtQueue
<1>6. CASE UNCHANGED <<offered, queue, sent>>
  BY <1>6
<1>7. QED
  BY <1>1, <1>2, <1>3, <1>4, <1>5, <1>6
  DEF Next, PublishStep, Publish, NextQueue, Published, SetChanged, Offer, CountDrop,
      Subscribe, Leave

(* Clients are sent a part of what their queues were offered, in that order, *)
(* whatever threads publish: events.py:40-52.                                *)
THEOREM StreamsAreOrdered == Spec => ImplementsStreams
<1>1. Init => OnceInv
  BY DEF Init, OnceInv, AtQueue, WasOfferedTo
<1>2. Init => Streams!Init
  BY DEF Init, Streams!Init
<1>3. TypeOK /\ OnceInv /\ [Next]_vars => OnceInv'
  BY OnceStep
<1>4. TypeOK /\ OnceInv /\ [Next]_vars => [Streams!Next]_Streams!vars
  BY StreamStep
<1>5. QED
  BY <1>1, <1>2, <1>3, <1>4, TypeCorrect, PTL
  DEF Spec, ImplementsStreams, Streams!Spec

-----------------------------------------------------------------------------
(***************************************************************************)
(* So clients are sent things once and in order: what was sent and what     *)
(* waits, together, are a part of what was offered, which is offered once.  *)
(***************************************************************************)
Follows(a, o) ==
    /\ \A m, n \in 1..Len(o) : o[m] = o[n] => m = n
    /\ \A i \in 1..Len(a) : \E m \in 1..Len(o) : o[m] = a[i]
    /\ \A i, j \in 1..Len(a) : i < j =>
           \E m, n \in 1..Len(o) : m < n /\ o[m] = a[i] /\ o[n] = a[j]

OrderInv == \A c \in Clients : Follows(sent[c] \o queue[c], offered[c])

\* An event that is lost, or comes to the end.
LEMMA FollowsMore ==
    ASSUME NEW S, NEW a \in Seq(S), NEW o \in Seq(S), NEW e \in S, Follows(a, o),
           \A i \in 1..Len(o) : o[i] # e
    PROVE  Follows(a, Append(o, e)) /\ Follows(Append(a, e), Append(o, e))
<1> DEFINE b == Append(a, e)
           p == Append(o, e)
<1>1. /\ Len(a) \in Nat /\ Len(o) \in Nat
      /\ Len(b) = Len(a) + 1 /\ b[Len(a) + 1] = e
      /\ Len(p) = Len(o) + 1 /\ p[Len(o) + 1] = e
      /\ \A i \in 1..Len(a) : b[i] = a[i]
      /\ \A i \in 1..Len(o) : p[i] = o[i] /\ i \in 1..Len(p) /\ i < Len(o) + 1
      /\ Len(o) + 1 \in 1..Len(p)
      /\ \A i : i \in 1..Len(b) <=> i \in 1..Len(a) \/ i = Len(a) + 1
      /\ \A i : i \in 1..Len(p) <=> i \in 1..Len(o) \/ i = Len(o) + 1
      /\ \A i \in 1..Len(a) : i < Len(a) + 1 /\ ~(Len(a) + 1 < i)
      /\ ~(Len(a) + 1 < Len(a) + 1)
  OBVIOUS
<1> HIDE DEF b, p
<1>2. \A m, n \in 1..Len(p) : p[m] = p[n] => m = n
  BY <1>1 DEF Follows
<1>3. \A i \in 1..Len(a) : \E m \in 1..Len(o) : p[m] = a[i]
  BY <1>1 DEF Follows
<1>4. ASSUME NEW i \in 1..Len(a), NEW j \in 1..Len(a), i < j
      PROVE  \E m, n \in 1..Len(p) : m < n /\ p[m] = a[i] /\ p[n] = a[j]
  BY <1>1, <1>4 DEF Follows
<1>5. Follows(a, p)
  BY <1>1, <1>2, <1>3, <1>4 DEF Follows
<1>6. ASSUME NEW i \in 1..Len(b) PROVE \E m \in 1..Len(p) : p[m] = b[i]
  BY <1>1, <1>3
<1>7. ASSUME NEW i \in 1..Len(b), NEW j \in 1..Len(b), i < j
      PROVE  \E m, n \in 1..Len(p) : m < n /\ p[m] = b[i] /\ p[n] = b[j]
  <2>1. i \in 1..Len(a)
    BY <1>1, <1>7
  <2>2. CASE j \in 1..Len(a)
    BY <1>1, <1>4, <1>7, <2>1, <2>2
  <2>3. CASE j = Len(a) + 1
    BY <1>1, <1>3, <2>1, <2>3
  <2>4. QED
    BY <1>1, <2>2, <2>3
<1>8. Follows(b, p)
  BY <1>2, <1>6, <1>7 DEF Follows
<1>9. QED
  BY <1>5, <1>8 DEF b, p

\* One that is given up.
LEMMA FollowsLess ==
    ASSUME NEW S, NEW s \in Seq(S), NEW q \in Seq(S), q # <<>>, NEW o, Follows(s \o q, o)
    PROVE  Follows(s \o Tail(q), o)
<1> DEFINE a == s \o q
           b == s \o Tail(q)
           At(i) == IF i <= Len(s) THEN i ELSE i + 1
<1>1. \A i \in 1..Len(b) : At(i) \in 1..Len(a) /\ b[i] = a[At(i)]
  OBVIOUS
<1>2. \A i, j \in 1..Len(b) : i < j => At(i) < At(j)
  OBVIOUS
<1> HIDE DEF a, b, At
<1>3. Follows(a, o)
  BY DEF a
<1>4. ASSUME NEW i \in 1..Len(b) PROVE \E m \in 1..Len(o) : o[m] = b[i]
  <2>1. At(i) \in 1..Len(a) /\ b[i] = a[At(i)]
    BY <1>1, <1>4
  <2>2. \E m \in 1..Len(o) : o[m] = a[At(i)]
    BY <1>3, <2>1, Zenon DEF Follows
  <2>3. QED
    BY <2>1, <2>2, Zenon
<1>5. ASSUME NEW i \in 1..Len(b), NEW j \in 1..Len(b), i < j
      PROVE  \E m, n \in 1..Len(o) : m < n /\ o[m] = b[i] /\ o[n] = b[j]
  <2>1. /\ At(i) \in 1..Len(a) /\ b[i] = a[At(i)] /\ At(j) \in 1..Len(a) /\ b[j] = a[At(j)]
        /\ At(i) < At(j)
    BY <1>1, <1>2, <1>5
  <2>2. PICK m, n \in 1..Len(o) : m < n /\ o[m] = a[At(i)] /\ o[n] = a[At(j)]
    BY <1>3, <2>1 DEF Follows
  <2>3. QED
    BY <2>1, <2>2
<1>6. Follows(b, o)
  BY <1>3, <1>4, <1>5, Zenon DEF Follows
<1>7. QED
  BY <1>6 DEF b

\* What moves from one sequence to the other stays where it is in both.
LEMMA Joined ==
    ASSUME NEW S, NEW s \in Seq(S), NEW q \in Seq(S)
    PROVE  /\ s \o q \in Seq(S)
           /\ q # <<>> => Append(s, Head(q)) \o Tail(q) = s \o q
           /\ \A i \in 1..Len(s) : i \in 1..Len(s \o q) /\ (s \o q)[i] = s[i]
<1>1. s \o q \in Seq(S)
  OBVIOUS
<1>2. q # <<>> => Append(s, Head(q)) \o Tail(q) = s \o q
  OBVIOUS
<1>3. \A i \in 1..Len(s) : i \in 1..Len(s \o q) /\ (s \o q)[i] = s[i]
  OBVIOUS
<1>4. QED
  BY <1>1, <1>2, <1>3, Zenon

LEMMA FollowsJoined ==
    ASSUME NEW S, NEW s \in Seq(S), NEW q \in Seq(S), NEW o \in Seq(S), NEW e \in S,
           Follows(s \o q, o), \A i \in 1..Len(o) : o[i] # e
    PROVE  Follows(s \o q, Append(o, e)) /\ Follows(s \o Append(q, e), Append(o, e))
<1>1. s \o q \in Seq(S) /\ s \o Append(q, e) = Append(s \o q, e)
  OBVIOUS
<1>2. QED
  BY <1>1, FollowsMore

LEMMA OrderStep == ASSUME TypeOK, OnceInv, OrderInv, [Next]_vars PROVE OrderInv'
<1>1. CASE UNCHANGED Streams!vars
  BY <1>1 DEF Streams!vars, OrderInv
<1>2. ASSUME NEW c \in Clients, Streams!GiveUp(c) PROVE OrderInv'
  <2>1. /\ sent[c] \in Seq(Publishers) /\ queue[c] \in Seq(Publishers) /\ queue[c] # <<>>
        /\ queue'[c] = Tail(queue[c]) /\ UNCHANGED <<offered, sent>>
        /\ \A d \in Clients \ {c} : queue'[d] = queue[d]
    BY <1>2 DEF Streams!GiveUp, TypeOK
  <2>2. Follows(sent[c] \o queue[c], offered[c])
    BY DEF OrderInv
  <2>3. Follows(sent[c] \o Tail(queue[c]), offered[c])
    BY <2>1, <2>2, FollowsLess
  <2>4. QED
    BY <2>1, <2>3 DEF OrderInv
<1>3. ASSUME NEW c \in Clients, Streams!Send(c) PROVE OrderInv'
  <2>1. sent'[c] \o queue'[c] = sent[c] \o queue[c]
    <3>1. /\ sent[c] \in Seq(Publishers) /\ queue[c] \in Seq(Publishers) /\ queue[c] # <<>>
          /\ sent'[c] = Append(sent[c], Head(queue[c])) /\ queue'[c] = Tail(queue[c])
      BY <1>3 DEF Streams!Send, TypeOK
    <3>2. Append(sent[c], Head(queue[c])) \o Tail(queue[c]) = sent[c] \o queue[c]
      BY <3>1, Joined, Zenon
    <3>3. QED
      BY <3>1, <3>2, Zenon
  <2>2. \A d \in Clients \ {c} : sent'[d] = sent[d] /\ queue'[d] = queue[d]
    BY <1>3 DEF Streams!Send, TypeOK
  <2>3. UNCHANGED offered
    BY <1>3 DEF Streams!Send
  <2>4. QED
    BY <2>1, <2>2, <2>3 DEF OrderInv
<1>4. ASSUME NEW c \in Clients, NEW e \in Publishers, Streams!Come(c, e) PROVE OrderInv'
  <2>1. /\ sent[c] \in Seq(Publishers) /\ queue[c] \in Seq(Publishers)
        /\ offered[c] \in Seq(Publishers) /\ offered'[c] = Append(offered[c], e)
        /\ \A i \in 1..Len(offered[c]) : offered[c][i] # e
        /\ UNCHANGED sent /\ (queue'[c] = queue[c] \/ queue'[c] = Append(queue[c], e))
        /\ \A d \in Clients \ {c} : offered'[d] = offered[d] /\ queue'[d] = queue[d]
    BY <1>4 DEF Streams!Come, TypeOK
  <2>2. Follows(sent[c] \o queue[c], offered[c])
    BY DEF OrderInv
  <2>3. /\ Follows(sent[c] \o queue[c], Append(offered[c], e))
        /\ Follows(sent[c] \o Append(queue[c], e), Append(offered[c], e))
    BY <2>1, <2>2, FollowsJoined
  <2>4. Follows(sent'[c] \o queue'[c], offered'[c])
    BY <2>1, <2>3
  <2>5. QED
    BY <2>1, <2>4 DEF OrderInv
<1>5. QED
  BY <1>1, <1>2, <1>3, <1>4, StreamStep DEF Streams!Next

\* What a client is sent, it is sent once, and in the order in which its queue was
\* offered it, whichever threads publish and whatever the queue has given up
\* (events.py:8-13).
SentInOrder ==
    \A c \in Clients : \A i, j \in DOMAIN sent[c] : i < j =>
        /\ sent[c][i] # sent[c][j]
        /\ \E m, n \in DOMAIN offered[c] : /\ m < n
                                           /\ offered[c][m] = sent[c][i]
                                           /\ offered[c][n] = sent[c][j]

\* Nothing is sent to a client twice, or out of the order in which it was offered,
\* whatever threads publish and however much is lost (events.py:8-13).
THEOREM ClientsSeeItOnce == Spec => []SentInOrder
<1>1. Init => OnceInv /\ OrderInv
  <2>1. SUFFICES ASSUME Init PROVE OnceInv /\ OrderInv
    OBVIOUS
  <2>2. OnceInv
    BY <2>1 DEF Init, OnceInv, AtQueue, WasOfferedTo
  <2>3. \A c \in Clients : sent[c] \o queue[c] = <<>> /\ offered[c] = <<>>
    BY <2>1 DEF Init
  <2>4. Follows(<<>>, <<>>)
    BY DEF Follows
  <2>5. QED
    BY <2>2, <2>3, <2>4 DEF OrderInv
<1>2. TypeOK /\ OnceInv /\ OrderInv /\ [Next]_vars => OnceInv' /\ OrderInv'
  BY OnceStep, OrderStep
<1>3. TypeOK /\ OrderInv => SentInOrder
  <2>1. SUFFICES ASSUME TypeOK, OrderInv, NEW c \in Clients,
                        NEW i \in DOMAIN sent[c], NEW j \in DOMAIN sent[c], i < j
                 PROVE  /\ sent[c][i] # sent[c][j]
                        /\ \E m, n \in DOMAIN offered[c] : /\ m < n
                                                           /\ offered[c][m] = sent[c][i]
                                                           /\ offered[c][n] = sent[c][j]
    BY DEF SentInOrder
  <2> DEFINE a == sent[c] \o queue[c]
             o == offered[c]
  <2>2. /\ i \in 1..Len(a) /\ a[i] = sent[c][i]
        /\ j \in 1..Len(a) /\ a[j] = sent[c][j]
    <3>1. sent[c] \in Seq(Publishers) /\ queue[c] \in Seq(Publishers)
      BY <2>1 DEF TypeOK
    <3>2. i \in 1..Len(sent[c]) /\ j \in 1..Len(sent[c])
      BY <2>1, <3>1
    <3>3. QED
      BY <3>1, <3>2, Joined
  <2>3. Follows(a, o) /\ DOMAIN o = 1..Len(o)
    BY <2>1 DEF OrderInv, TypeOK
  <2> HIDE DEF a, o
  <2>4. PICK m, n \in 1..Len(o) : m < n /\ o[m] = a[i] /\ o[n] = a[j]
    BY <2>1, <2>2, <2>3 DEF Follows
  <2>5. o[m] # o[n]
    BY <2>3, <2>4 DEF Follows
  <2>6. QED
    BY <2>2, <2>3, <2>4, <2>5 DEF o
<1>4. QED
  BY <1>1, <1>2, <1>3, TypeCorrect, PTL DEF Spec

=============================================================================
