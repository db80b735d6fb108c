------------------------------ MODULE EventBus ------------------------------
(***************************************************************************)
(* EventBus of vllm_untwisted/api/events.py and the /api/events stream of   *)
(* api/app.py that reads from it: publishers offer each event to the queue  *)
(* of every subscriber; a full queue gives up its oldest event.             *)
(*                                                                         *)
(* publish() is synchronous, so on the event loop nothing but a thread can  *)
(* come between its steps.  Handlers declared with plain `def` (the         *)
(* configuration endpoints) run in a thread pool and call publish() there:  *)
(* those in Threads.  A step here is what a thread switch cannot divide: a  *)
(* put_nowait is two of them, the test for room and the append, and so is a *)
(* loss, the event given up and the event counted.                          *)
(***************************************************************************)
EXTENDS Integers, Sequences, FiniteSetsExt

CONSTANTS Publishers,   \* calls of publish(); each stands for its event
          Threads,      \* those made from a worker thread
          Clients,      \* requests for the stream
          QUEUE_DEPTH,
          None

ASSUME EventBusAssumption ==
    /\ Threads \subseteq Publishers
    /\ IsFiniteSet(Threads) /\ IsFiniteSet(Clients)
    /\ QUEUE_DEPTH \in Nat \ {0}
    /\ None \notin Clients

VARIABLES
    queues,     \* self._queues: the clients whose queue is subscribed
    dropped,    \* self.dropped
    queue,      \* the asyncio.Queue of each client
    client,     \* "new", "streaming" or "gone"
    sent,       \* the events each client has been sent
    offered,    \* the events each client's queue was offered, lost ones too
    pc,         \* where call p of publish() is
    visited,    \* the queues its loop has been through
    size,       \* how many queues there were when the loop began
    target      \* the client whose queue it is offering to

busVars == <<queues, dropped, queue>>
clientVars == <<client, sent>>
publishVars == <<pc, visited, size, target>>
vars == <<busVars, clientVars, offered, publishVars>>

Midway == {"iterating", "offering", "putting", "dropping", "counting", "retrying"}

TypeOK ==
    /\ queues \subseteq Clients
    /\ dropped \in Nat
    /\ queue \in [Clients -> Seq(Publishers)]
    /\ client \in [Clients -> {"new", "streaming", "gone"}]
    /\ sent \in [Clients -> Seq(Publishers)]
    /\ offered \in [Clients -> Seq(Publishers)]
    /\ pc \in [Publishers -> {"idle", "done", "raised"} \cup Midway]
    /\ visited \in [Publishers -> SUBSET Clients]
    /\ size \in [Publishers -> 0..Cardinality(Clients)]
    /\ target \in [Publishers -> Clients \cup {None}]

Init ==
    /\ queues = {}
    /\ dropped = 0
    /\ queue = [c \in Clients |-> <<>>]
    /\ client = [c \in Clients |-> "new"]
    /\ sent = [c \in Clients |-> <<>>]
    /\ offered = [c \in Clients |-> <<>>]
    /\ pc = [p \in Publishers |-> "idle"]
    /\ visited = [p \in Publishers |-> {}]
    /\ size = [p \in Publishers |-> 0]
    /\ target = [p \in Publishers |-> None]

\* The event loop does nothing else while a publish() on it is midway.
LoopFree == \A p \in Publishers \ Threads : pc[p] \notin Midway

\* Mutant: off by one.
OverFull(c) == Len(queue[c]) > QUEUE_DEPTH
Full(c) == Len(queue[c]) >= QUEUE_DEPTH

-----------------------------------------------------------------------------
(* publish() *)

Publish(p) ==
    /\ pc[p] = "idle"
    /\ p \in Threads \/ LoopFree
    /\ pc' = [pc EXCEPT ![p] = "iterating"]
    /\ visited' = [visited EXCEPT ![p] = {}]
    /\ size' = [size EXCEPT ![p] = Cardinality(queues)]
    /\ UNCHANGED <<busVars, clientVars, offered, target>>

NextQueue(p, c) ==
    /\ pc[p] = "iterating"
    /\ Cardinality(queues) = size[p]
    /\ c \in queues \ visited[p]
    /\ pc' = [pc EXCEPT ![p] = "offering"]
    /\ target' = [target EXCEPT ![p] = c]
    /\ visited' = [visited EXCEPT ![p] = @ \cup {c}]
    /\ UNCHANGED <<busVars, clientVars, offered, size>>

Published(p) ==
    /\ pc[p] = "iterating"
    /\ Cardinality(queues) = size[p]
    /\ queues \subseteq visited[p]
    /\ pc' = [pc EXCEPT ![p] = "done"]
    /\ UNCHANGED <<busVars, clientVars, offered, visited, size, target>>

\* RuntimeError: Set changed size during iteration.
SetChanged(p) ==
    /\ pc[p] = "iterating"
    /\ Cardinality(queues) # size[p]
    /\ pc' = [pc EXCEPT ![p] = "raised"]
    /\ UNCHANGED <<busVars, clientVars, offered, visited, size, target>>

Offer(p) ==
    /\ pc[p] = "offering"
    /\ pc' = [pc EXCEPT ![p] = IF Full(target[p]) THEN "dropping" ELSE "putting"]
    /\ UNCHANGED <<busVars, clientVars, offered, visited, size, target>>

\* Mutant: the newest of the queue is dropped.
DropNewest(p) ==
    /\ pc[p] = "dropping"
    /\ queue' = [queue EXCEPT ![target[p]] =
                   IF @ = <<>> THEN @ ELSE SubSeq(@, 1, Len(@) - 1)]
    /\ pc' = [pc EXCEPT ![p] = "counting"]
    /\ UNCHANGED <<queues, dropped, clientVars, offered, visited, size, target>>
DropOldest(p) ==
    /\ pc[p] = "dropping"
    /\ queue' = [queue EXCEPT ![target[p]] = IF @ = <<>> THEN @ ELSE Tail(@)]
    /\ pc' = [pc EXCEPT ![p] = "counting"]
    /\ UNCHANGED <<queues, dropped, clientVars, offered, visited, size, target>>

\* QueueEmpty is suppressed: what a thread has found gone already counts too.
\* Mutant: the loss is not counted.
DropUncounted(p) ==
    /\ pc[p] = "counting"
    /\ pc' = [pc EXCEPT ![p] = "retrying"]
    /\ UNCHANGED <<busVars, clientVars, offered, visited, size, target>>
CountDrop(p) ==
    /\ pc[p] = "counting"
    /\ dropped' = dropped + 1
    /\ pc' = [pc EXCEPT ![p] = "retrying"]
    /\ UNCHANGED <<queues, queue, clientVars, offered, visited, size, target>>

WasOffered(p) == offered' = [offered EXCEPT ![target[p]] = Append(@, p)]

Put(p) ==
    /\ pc[p] = "putting"
    /\ queue' = [queue EXCEPT ![target[p]] = Append(@, p)]
    /\ WasOffered(p)
    /\ pc' = [pc EXCEPT ![p] = "iterating"]
    /\ UNCHANGED <<queues, dropped, clientVars, visited, size, target>>

\* The second QueueFull is suppressed.
Retry(p) ==
    /\ pc[p] = "retrying"
    /\ IF Full(target[p])
       THEN WasOffered(p) /\ pc' = [pc EXCEPT ![p] = "iterating"]
       ELSE UNCHANGED offered /\ pc' = [pc EXCEPT ![p] = "putting"]
    /\ UNCHANGED <<busVars, clientVars, visited, size, target>>

-----------------------------------------------------------------------------
(* The stream: subscribe, get events one by one, leave at any time.  (A get  *)
(* that times out sends a keepalive and asks again: nothing changes.)        *)

Subscribe(c) ==
    /\ LoopFree
    /\ client[c] = "new"
    /\ client' = [client EXCEPT ![c] = "streaming"]
    /\ queues' = queues \cup {c}
    /\ UNCHANGED <<dropped, queue, sent, offered, publishVars>>

\* Mutant: last in, first out.
GetNewest(c) ==
    /\ LoopFree
    /\ client[c] = "streaming"
    /\ queue[c] # <<>>
    /\ queue' = [queue EXCEPT ![c] = SubSeq(@, 1, Len(@) - 1)]
    /\ sent' = [sent EXCEPT ![c] = Append(@, queue[c][Len(queue[c])])]
    /\ UNCHANGED <<queues, dropped, client, offered, publishVars>>
Get(c) ==
    /\ LoopFree
    /\ client[c] = "streaming"
    /\ queue[c] # <<>>
    /\ queue' = [queue EXCEPT ![c] = Tail(@)]
    /\ sent' = [sent EXCEPT ![c] = Append(@, Head(queue[c]))]
    /\ UNCHANGED <<queues, dropped, client, offered, publishVars>>

Leave(c) ==
    /\ LoopFree
    /\ client[c] = "streaming"
    /\ client' = [client EXCEPT ![c] = "gone"]
    /\ queues' = queues \ {c}
    /\ UNCHANGED <<dropped, queue, sent, offered, publishVars>>

PublishStep(p) ==
    \/ \E c \in Clients : NextQueue(p, c)
    \/ Published(p) \/ SetChanged(p)
    \/ Offer(p) \/ DropOldest(p) \/ CountDrop(p) \/ Put(p) \/ Retry(p)

Next ==
    \/ \E p \in Publishers : Publish(p) \/ PublishStep(p)
    \/ \E c \in Clients : Subscribe(c) \/ Get(c) \/ Leave(c)

Spec == Init /\ [][Next]_vars

-----------------------------------------------------------------------------
\* "Subscribers are bounded" (events.py:11): a queue holds at most QUEUE_DEPTH
\* events, and one more for each worker thread that is publishing.
Bounded == \A c \in Clients : Len(queue[c]) <= QUEUE_DEPTH + Cardinality(Threads)

\* How many events the clients' queues f hold together.
Total(f) == MapThenSumSet(LAMBDA c : Len(f[c]), Clients)

Quiet == \A p \in Publishers : pc[p] \notin Midway

\* No worker thread has published so far: only handlers that are coroutines have.
OnTheLoop == \A p \in Threads : pc[p] = "idle"

\* "a full queue drops the oldest event and records that it did" (events.py:12):
\* while publish() is called from the loop only, every event a queue was offered
\* is, between calls, in it, was sent, or was counted in `dropped`, once.
EveryLossRecorded ==
    OnTheLoop /\ Quiet => Total(offered) = Total(queue) + Total(sent) + dropped

\* What waits in a queue is then the most recent part of what it was offered:
\* "drop the oldest, keep the newest" (events.py:49).
NewestKept ==
    OnTheLoop => \A c \in Clients : \E n \in 0..Len(offered[c]) :
        queue[c] = SubSeq(offered[c], n + 1, Len(offered[c]))

(***************************************************************************)
(* Whatever threads publish, clients have LossyStreams: nothing is sent to  *)
(* one twice, or after what it was offered later, or unless it was offered  *)
(* (events.py:40-52, app.py:232-239).                                       *)
(***************************************************************************)
Streams == INSTANCE LossyStreams WITH Events <- Publishers, came <- offered, waiting <- queue

ImplementsStreams == Streams!Spec

=============================================================================
