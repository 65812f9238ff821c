----------------------------- MODULE PostOffice -----------------------------
(***************************************************************************)
(* The post offices of network/post.cc on the emulated network of          *)
(* machine/network.cc, one on each machine.  A thread sends under          *)
(* sendLock and waits for the interrupt that lets it go; the network polls *)
(* its socket for one packet at a time; the postal worker moves the packet *)
(* to a mailbox, a synchronized list (threads/synchlist.cc), where threads *)
(* wait for mail.                                                          *)
(*                                                                         *)
(* Locks, conditions and semaphores do what Monitor says.  A step is the   *)
(* code between two points where interrupts may be enabled.                *)
(***************************************************************************)
EXTENDS Naturals, Sequences, FiniteSets

CONSTANTS
    Machine,
    Box,        \* the mailboxes of each machine
    Client,     \* the threads that send and receive
    At,         \* the machine of each
    MaxMail,    \* bound: messages sent
    None,       \* no message, no box
    Worker,     \* the postal worker, as a holder of a lock
    Free        \* no holder

ASSUME PostAssumption ==
    /\ At \in [Client -> Machine]
    /\ MaxMail \in Nat
    /\ Worker \notin Client /\ Free \notin Client \cup {Worker}

Mail == [to : Machine, box : Box, id : 1..MaxMail]

ASSUME NoneAssumption == None \notin Mail

VARIABLES
    posted,     \* history: how many messages were sent
    (* the network of each machine *)
    sock,       \* the socket's queue
    inHdr,      \* the packet that is buffered, or None
    sendDue,    \* how many SendDone interrupts are pending
    (* the post office of each machine *)
    available,  \* the value of messageAvailable
    sent,       \* the value of messageSent
    sendLock,   \* its holder
    worker,     \* where the postal worker is: "P", "awake", "put", "putting"
    held,       \* the packet in its buffer, or None
    (* the mailboxes of each machine *)
    messages,   \* the list
    listLock,   \* the holder of its lock
    listEmpty,  \* the threads that wait on its condition
    (* the clients *)
    at,         \* where the client is
    boxOf,      \* the box it receives from, or None
    mail        \* the message it sends or has received, or None

networkVars == <<sock, inHdr, sendDue>>
sendVars    == <<posted, sent, sendLock>>
boxVars     == <<messages, listLock, listEmpty>>
workerVars  == <<available, worker, held>>
clientVars  == <<at, boxOf, mail>>
postOfficeVars == <<networkVars, sendVars, boxVars, workerVars, clientVars>>

PostOfficeInit ==
    /\ posted = 0
    /\ sock = [m \in Machine |-> <<>>]
    /\ inHdr = [m \in Machine |-> None]
    /\ sendDue = [m \in Machine |-> 0]
    /\ available = [m \in Machine |-> 0]
    /\ sent = [m \in Machine |-> 0]
    /\ sendLock = [m \in Machine |-> Free]
    /\ worker = [m \in Machine |-> "P"]
    /\ held = [m \in Machine |-> None]
    /\ messages = [m \in Machine |-> [b \in Box |-> <<>>]]
    /\ listLock = [m \in Machine |-> [b \in Box |-> Free]]
    /\ listEmpty = [m \in Machine |-> [b \in Box |-> <<>>]]
    /\ at = [c \in Client |-> "out"]
    /\ boxOf = [c \in Client |-> None]
    /\ mail = [c \in Client |-> None]

Step(c, before, after) ==
    /\ at[c] = before
    /\ at' = [at EXCEPT ![c] = after]

-----------------------------------------------------------------------------
(* PostOffice::Send *)

\* A variant that starts to send without the lock.
SendCall_Unlocked(c) ==
    /\ posted < MaxMail
    /\ Step(c, "out", "sending")
    /\ UNCHANGED <<networkVars, sendVars, boxVars, workerVars, boxOf, mail>>

SendCall(c) ==
    /\ posted < MaxMail
    /\ sendLock[At[c]] = Free
    /\ Step(c, "out", "sending")
    /\ sendLock' = [sendLock EXCEPT ![At[c]] = c]
    /\ UNCHANGED <<networkVars, posted, sent, boxVars, workerVars, boxOf, mail>>

\* P, to its end or its Sleep().
PSent(c, before) ==
    LET m == At[c]
    IN  \/ sent[m] > 0 /\ Step(c, before, "sent") /\ sent' = [sent EXCEPT ![m] = @ - 1]
        \/ sent[m] = 0 /\ Step(c, before, "asleep") /\ UNCHANGED sent

\* network->Send, which may lose the packet, and messageSent->P().
Send(c) ==
    /\ posted < MaxMail
    /\ posted' = posted + 1
    /\ \E m \in Machine, b \in Box :
          \/ sock' = [sock EXCEPT ![m] = Append(@, [to |-> m, box |-> b, id |-> posted'])]
          \/ UNCHANGED sock
    /\ sendDue' = [sendDue EXCEPT ![At[c]] = @ + 1]
    /\ PSent(c, "sending")
    /\ UNCHANGED <<inHdr, sendLock, boxVars, workerVars, boxOf, mail>>

SendResume(c) ==
    /\ sent[At[c]] > 0
    /\ PSent(c, "asleep")
    /\ UNCHANGED <<networkVars, posted, sendLock, boxVars, workerVars, boxOf, mail>>

SendReturn(c) ==
    /\ Step(c, "sent", "out")
    /\ sendLock' = [sendLock EXCEPT ![At[c]] = Free]
    /\ UNCHANGED <<networkVars, posted, sent, boxVars, workerVars, boxOf, mail>>

-----------------------------------------------------------------------------
(* The interrupts of the network *)

\* Network::SendDone and PostOffice::PacketSent.
SendDone(m) ==
    /\ sendDue[m] > 0
    /\ sendDue' = [sendDue EXCEPT ![m] = @ - 1]
    /\ sent' = [sent EXCEPT ![m] = @ + 1]
    /\ UNCHANGED <<sock, inHdr, posted, sendLock, boxVars, workerVars, clientVars>>

\* A variant that reads the next packet over one that is still buffered.
CheckPktAvail_Overwrites(m) ==
    /\ sock[m] # <<>>
    /\ sock' = [sock EXCEPT ![m] = Tail(@)]
    /\ inHdr' = [inHdr EXCEPT ![m] = Head(sock[m])]
    /\ available' = [available EXCEPT ![m] = @ + 1]
    /\ UNCHANGED <<sendDue, sendVars, boxVars, worker, held, clientVars>>

\* Network::CheckPktAvail and PostOffice::IncomingPacket; a poll that finds
\* nothing, or a packet still buffered, changes nothing.
CheckPktAvail(m) ==
    /\ inHdr[m] = None /\ sock[m] # <<>>
    /\ sock' = [sock EXCEPT ![m] = Tail(@)]
    /\ inHdr' = [inHdr EXCEPT ![m] = Head(sock[m])]
    /\ available' = [available EXCEPT ![m] = @ + 1]
    /\ UNCHANGED <<sendDue, sendVars, boxVars, worker, held, clientVars>>

-----------------------------------------------------------------------------
(* PostOffice::PostalDelivery *)

Works(m, before, after) ==
    /\ worker[m] = before
    /\ worker' = [worker EXCEPT ![m] = after]

WorkerP(m) ==
    /\ available[m] > 0
    /\ Works(m, "P", "awake")
    /\ available' = [available EXCEPT ![m] = @ - 1]
    /\ UNCHANGED <<networkVars, sendVars, boxVars, held, clientVars>>

\* network->Receive
WorkerReceive(m) ==
    /\ Works(m, "awake", "put")
    /\ held' = [held EXCEPT ![m] = inHdr[m]]
    /\ inHdr' = [inHdr EXCEPT ![m] = None]
    /\ UNCHANGED <<sock, sendDue, sendVars, boxVars, available, clientVars>>

\* MailBox::Put, SynchList::Append
PutAcquire(m) ==
    /\ Works(m, "put", "putting")
    /\ listLock[m][held[m].box] = Free
    /\ listLock' = [listLock EXCEPT ![m][held[m].box] = Worker]
    /\ UNCHANGED <<networkVars, sendVars, messages, listEmpty, available, held, clientVars>>

\* A variant that signals only when the list was empty.
Put_SignalsFirst(m) ==
    LET b == held[m].box
    IN  /\ Works(m, "putting", "P")
        /\ messages' = [messages EXCEPT ![m][b] = Append(@, held[m])]
        /\ IF messages[m][b] # <<>> \/ listEmpty[m][b] = <<>> THEN UNCHANGED <<listEmpty, at>>
           ELSE /\ listEmpty' = [listEmpty EXCEPT ![m][b] = Tail(@)]
                /\ at' = [at EXCEPT ![Head(listEmpty[m][b])] = "woken"]
        /\ listLock' = [listLock EXCEPT ![m][b] = Free]
        /\ held' = [held EXCEPT ![m] = None]
        /\ UNCHANGED <<networkVars, sendVars, available, boxOf, mail>>

\* The message is appended and a thread that waits for it woken.
Put(m) ==
    LET b == held[m].box
    IN  /\ Works(m, "putting", "P")
        /\ messages' = [messages EXCEPT ![m][b] = Append(@, held[m])]
        /\ IF listEmpty[m][b] = <<>> THEN UNCHANGED <<listEmpty, at>>
           ELSE /\ listEmpty' = [listEmpty EXCEPT ![m][b] = Tail(@)]
                /\ at' = [at EXCEPT ![Head(listEmpty[m][b])] = "woken"]
        /\ listLock' = [listLock EXCEPT ![m][b] = Free]
        /\ held' = [held EXCEPT ![m] = None]
        /\ UNCHANGED <<networkVars, sendVars, available, boxOf, mail>>

-----------------------------------------------------------------------------
(* PostOffice::Receive, MailBox::Get, SynchList::Remove *)

ReceiveCall(c) ==
    \E b \in Box :
        /\ listLock[At[c]][b] = Free
        /\ Step(c, "out", "removing")
        /\ boxOf' = [boxOf EXCEPT ![c] = b]
        /\ listLock' = [listLock EXCEPT ![At[c]][b] = c]
        /\ UNCHANGED <<networkVars, sendVars, messages, listEmpty, workerVars, mail>>

\* Condition::Wait
RemoveWait(c) ==
    LET m == At[c]  b == boxOf[c]
    IN  /\ Step(c, "removing", "waiting")
        /\ messages[m][b] = <<>>
        /\ listEmpty' = [listEmpty EXCEPT ![m][b] = Append(@, c)]
        /\ listLock' = [listLock EXCEPT ![m][b] = Free]
        /\ UNCHANGED <<networkVars, sendVars, messages, workerVars, boxOf, mail>>

RemoveResume(c) ==
    LET m == At[c]  b == boxOf[c]
    IN  /\ Step(c, "woken", "removing")
        /\ listLock[m][b] = Free
        /\ listLock' = [listLock EXCEPT ![m][b] = c]
        /\ UNCHANGED <<networkVars, sendVars, messages, listEmpty, workerVars, boxOf, mail>>

Remove(c) ==
    LET m == At[c]  b == boxOf[c]
    IN  /\ Step(c, "removing", "received")
        /\ messages[m][b] # <<>>
        /\ messages' = [messages EXCEPT ![m][b] = Tail(@)]
        /\ mail' = [mail EXCEPT ![c] = Head(messages[m][b])]
        /\ listLock' = [listLock EXCEPT ![m][b] = Free]
        /\ UNCHANGED <<networkVars, sendVars, listEmpty, workerVars, boxOf>>

ReceiveReturn(c) ==
    /\ Step(c, "received", "out")
    /\ mail' = [mail EXCEPT ![c] = None]
    /\ boxOf' = [boxOf EXCEPT ![c] = None]
    /\ UNCHANGED <<networkVars, sendVars, boxVars, workerVars>>

-----------------------------------------------------------------------------
PostalDelivery(m) == WorkerP(m) \/ WorkerReceive(m) \/ PutAcquire(m) \/ Put(m)

Continue(c) ==
    \/ Send(c) \/ SendResume(c) \/ SendReturn(c)
    \/ RemoveWait(c) \/ RemoveResume(c) \/ Remove(c) \/ ReceiveReturn(c)

PostOfficeNext ==
    \/ \E m \in Machine : SendDone(m) \/ CheckPktAvail(m) \/ PostalDelivery(m)
    \/ \E c \in Client : SendCall(c) \/ ReceiveCall(c) \/ Continue(c)

\* Interrupts come, and the postal worker and a thread that is ready run.  A
\* thread that comes back to a mailbox again and again could keep the others
\* from its lock: that it does not is the scheduler's doing, first come, first served.
PostOfficeFairness ==
    /\ \A m \in Machine :
         /\ WF_postOfficeVars(SendDone(m)) /\ WF_postOfficeVars(CheckPktAvail(m))
         /\ SF_postOfficeVars(PostalDelivery(m))
    /\ \A c \in Client : SF_postOfficeVars(Continue(c))

-----------------------------------------------------------------------------
(***************************************************************************)
(* "only one message can be sent to the network at any one time"           *)
(* (post.cc:282): of a machine's clients only one is between Send and its  *)
(* interrupt, which is then pending or counted, and the worker comes to    *)
(* the network exactly when a packet is there: sendBusy is never set and   *)
(* Receive returns no message if there is none, so nothing else guards.    *)
(***************************************************************************)
OnePacket ==
    \A m \in Machine :
        /\ sent[m] + sendDue[m] = Cardinality({c \in Client : At[c] = m /\ at[c] = "asleep"})
        /\ sendDue[m] <= 1
        /\ available[m] + (IF worker[m] = "awake" THEN 1 ELSE 0) = IF inHdr[m] = None THEN 0 ELSE 1

(***************************************************************************)
(* Mail that the network has not lost reaches its box, and while there is  *)
(* mail in a box, threads do not wait there for ever.                      *)
(***************************************************************************)
Delivered == \A m \in Machine : sock[m] # <<>> ~> sock[m] = <<>> /\ inHdr[m] = None /\ held[m] = None

NobodyWaitsInVain ==
    \A m \in Machine, b \in Box :
        messages[m][b] # <<>> /\ listEmpty[m][b] # <<>> ~> messages[m][b] = <<>> \/ listEmpty[m][b] = <<>>

MailArrives == Delivered /\ NobodyWaitsInVain

(***************************************************************************)
(* The post offices and the network implement Post.                        *)
(***************************************************************************)
Maybe(m) == IF m = None THEN <<>> ELSE <<m>>

PO == INSTANCE Post WITH
          transit <- [m \in Machine |-> Maybe(held[m]) \o Maybe(inHdr[m]) \o sock[m]],
          boxes <- messages,
          got <- mail

ImplementsPost == PO!Spec
=============================================================================
