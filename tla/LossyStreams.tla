---------------------------- MODULE LossyStreams ----------------------------
(***************************************************************************)
(* What subscribers are promised (api/events.py:8-13): each event comes to   *)
(* a client at most once, and is lost or waits behind those that came       *)
(* before it; what waits is sent, or given up, from the front.              *)
(***************************************************************************)
EXTENDS Sequences

CONSTANTS Events, Clients

VARIABLES came,     \* to each client: the events so far, lost ones too
          waiting,
          sent

vars == <<came, waiting, sent>>

Init ==
    /\ came = [c \in Clients |-> <<>>]
    /\ waiting = [c \in Clients |-> <<>>]
    /\ sent = [c \in Clients |-> <<>>]

Come(c, e) ==
    /\ \A i \in DOMAIN came[c] : came[c][i] # e
    /\ came' = [came EXCEPT ![c] = Append(@, e)]
    /\ waiting' \in {waiting, [waiting EXCEPT ![c] = Append(@, e)]}
    /\ UNCHANGED sent

GiveUp(c) ==
    /\ waiting[c] # <<>>
    /\ waiting' = [waiting EXCEPT ![c] = Tail(@)]
    /\ UNCHANGED <<came, sent>>

Send(c) ==
    /\ waiting[c] # <<>>
    /\ waiting' = [waiting EXCEPT ![c] = Tail(@)]
    /\ sent' = [sent EXCEPT ![c] = Append(@, Head(waiting[c]))]
    /\ UNCHANGED came

Next == \E c \in Clients : GiveUp(c) \/ Send(c) \/ \E e \in Events : Come(c, e)

Spec == Init /\ [][Next]_vars

=============================================================================
