-------------------------------- MODULE Post --------------------------------
(***************************************************************************)
(* What the post office of network/post.h promises: "unreliable, ordered,  *)
(* fixed-size message delivery to mailboxes on other machines.  Messages   *)
(* can be dropped by the network, but they are never corrupted."           *)
(***************************************************************************)
EXTENDS Sequences

CONSTANTS
    Machine,
    Box,        \* the mailboxes of each machine
    Client,     \* the threads that send and receive
    At,         \* the machine of each
    Mail,       \* messages, each with a machine and a box it goes to
    None

VARIABLES
    transit,    \* the mail on its way to each machine
    boxes,      \* the mail in each box of each machine
    got         \* the mail that Receive is about to return to a thread

postVars == <<transit, boxes, got>>

Init ==
    /\ transit = [m \in Machine |-> <<>>]
    /\ boxes = [m \in Machine |-> [b \in Box |-> <<>>]]
    /\ got = [c \in Client |-> None]

\* Mail that is lost never gets here.
Post(mail) ==
    /\ transit' = [transit EXCEPT ![mail.to] = Append(@, mail)]
    /\ UNCHANGED <<boxes, got>>

Deliver(m) ==
    /\ transit[m] # <<>>
    /\ transit' = [transit EXCEPT ![m] = Tail(@)]
    /\ boxes' = [boxes EXCEPT ![m][Head(transit[m]).box] = Append(@, Head(transit[m]))]
    /\ UNCHANGED got

Take(c, b) ==
    /\ boxes[At[c]][b] # <<>>
    /\ boxes' = [boxes EXCEPT ![At[c]][b] = Tail(@)]
    /\ got' = [got EXCEPT ![c] = Head(boxes[At[c]][b])]
    /\ UNCHANGED transit

Return(c) ==
    /\ got' = [got EXCEPT ![c] = None]
    /\ UNCHANGED <<transit, boxes>>

Next ==
    \/ \E mail \in Mail : Post(mail)
    \/ \E m \in Machine : Deliver(m)
    \/ \E c \in Client : Return(c) \/ \E b \in Box : Take(c, b)

Spec == Init /\ [][Next]_postVars
=============================================================================
