----------------------------- MODULE MailChannel -----------------------------
(***************************************************************************)
(* What the post office promises (network/post.h, machine/network.h):      *)
(* mail reaches a mailbox in the order it was sent, may be lost, and is    *)
(* received at most once.                                                  *)
(***************************************************************************)
EXTENDS Naturals, Sequences

CONSTANTS Clients, Boxes, None

VARIABLES
    posted,   \* how many mails each client has sent
    channel,  \* the mail on its way to, or in, each mailbox
    got       \* the last mail each client received

vars == <<posted, channel, got>>

Mail(t, b) == [from |-> t, n |-> posted[t], to |-> b]

Init ==
    /\ posted = [t \in Clients |-> 0]
    /\ channel = [b \in Boxes |-> <<>>]
    /\ got = [t \in Clients |-> None]

(* Mail t sends to b gets on its way or is lost. *)
Post(t, b) ==
    /\ posted' = [posted EXCEPT ![t] = @ + 1]
    /\ \/ channel' = [channel EXCEPT ![b] = Append(@, Mail(t, b))]
       \/ UNCHANGED channel
    /\ UNCHANGED got

Take(t, b) ==
    /\ channel[b] # <<>>
    /\ got' = [got EXCEPT ![t] = Head(channel[b])]
    /\ channel' = [channel EXCEPT ![b] = Tail(@)]
    /\ UNCHANGED posted

Next == \E t \in Clients, b \in Boxes : Post(t, b) \/ Take(t, b)

Spec == Init /\ [][Next]_vars
=============================================================================
