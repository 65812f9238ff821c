------------------------------ MODULE Console ------------------------------
(***************************************************************************)
(* The console of machine/console.cc and its user, ConsoleTest of          *)
(* userprog/progtest.cc, which echoes what is typed.  The console polls    *)
(* the keyboard and holds one character; its two handlers V the semaphores *)
(* that ConsoleTest waits on (they do what Monitor says).  Which of the    *)
(* two pending interrupts comes first depends on when PutChar was called,  *)
(* and is left open.                                                       *)
(***************************************************************************)
EXTENDS Naturals, Sequences, FiniteSets

CONSTANTS
    Char,       \* the characters somebody may type
    EOF,        \* no character; also the char with the value 0xFF
    q,          \* the character that ends ConsoleTest
    MaxTyped    \* bound: how many characters are typed

VARIABLES
    typed,      \* everything typed so far
    unread,     \* what of it the console has not read yet
    incoming, putBusy,
    readAvail, writeDone,   \* the values of the two semaphores
    ch,         \* ConsoleTest's ch
    point,      \* where ConsoleTest is
    echoed      \* what was written on the display

consoleVars == <<typed, unread, incoming, putBusy, readAvail, writeDone, ch, point, echoed>>

\* reading   in readAvail->P()
\* got       back from it
\* writing   in writeDone->P()
\* stopped   back from ConsoleTest
Point == {"reading", "got", "writing", "stopped"}

ConsoleInit ==
    /\ typed = <<>> /\ unread = <<>>
    /\ incoming = EOF /\ putBusy = FALSE
    /\ readAvail = 0 /\ writeDone = 0
    /\ ch = EOF /\ point = "reading" /\ echoed = <<>>

Type ==
    /\ Len(typed) < MaxTyped
    /\ \E c \in Char : typed' = Append(typed, c) /\ unread' = Append(unread, c)
    /\ UNCHANGED <<incoming, putBusy, readAvail, writeDone, ch, point, echoed>>

\* A variant that does not look whether the last character has been taken.
CheckCharAvail_Overwrites ==
    /\ unread # <<>>
    /\ incoming' = Head(unread)
    /\ unread' = Tail(unread)
    /\ readAvail' = readAvail + 1
    /\ UNCHANGED <<typed, putBusy, writeDone, ch, point, echoed>>

\* The poll that finds a character and room for it, with the handler ReadAvail.
CheckCharAvail ==
    /\ incoming = EOF /\ unread # <<>>
    /\ incoming' = Head(unread)
    /\ unread' = Tail(unread)
    /\ readAvail' = readAvail + 1
    /\ UNCHANGED <<typed, putBusy, writeDone, ch, point, echoed>>

\* A variant that does not tell anybody.
WriteDone_Silent ==
    /\ putBusy
    /\ putBusy' = FALSE
    /\ UNCHANGED <<typed, unread, incoming, readAvail, writeDone, ch, point, echoed>>

\* Console::WriteDone, which is pending while putBusy, with the handler.
WriteDone ==
    /\ putBusy
    /\ putBusy' = FALSE
    /\ writeDone' = writeDone + 1
    /\ UNCHANGED <<typed, unread, incoming, readAvail, ch, point, echoed>>

AwaitChar ==
    /\ point = "reading" /\ readAvail > 0
    /\ readAvail' = readAvail - 1
    /\ point' = "got"
    /\ UNCHANGED <<typed, unread, incoming, putBusy, writeDone, ch, echoed>>

\* GetChar and PutChar, whose assertion fails if the last PutChar is not done.
Echo ==
    /\ point = "got" /\ ~putBusy
    /\ ch' = incoming
    /\ incoming' = EOF
    /\ echoed' = Append(echoed, incoming)
    /\ putBusy' = TRUE
    /\ point' = "writing"
    /\ UNCHANGED <<typed, unread, readAvail, writeDone>>

AwaitWritten ==
    /\ point = "writing" /\ writeDone > 0
    /\ writeDone' = writeDone - 1
    /\ point' = IF ch = q THEN "stopped" ELSE "reading"
    /\ UNCHANGED <<typed, unread, incoming, putBusy, readAvail, ch, echoed>>

ConsoleTest == AwaitChar \/ Echo \/ AwaitWritten

ConsoleNext == Type \/ CheckCharAvail \/ WriteDone \/ ConsoleTest

\* Polls go on for ever, a pending interrupt comes, and a ready thread runs.
ConsoleFairness ==
    WF_consoleVars(CheckCharAvail) /\ WF_consoleVars(WriteDone) /\ WF_consoleVars(ConsoleTest)

-----------------------------------------------------------------------------
Occurs(c, n) == \E k \in 1..n : typed[k] = c
Due == Cardinality({n \in DOMAIN typed : ~Occurs(q, n - 1)})

(***************************************************************************)
(* Unless somebody types the character that looks like EOF, the display    *)
(* shows what was typed, in order, nothing lost or doubled, although the   *)
(* console holds a single character and only polls; and PutChar's          *)
(* assertion that the display is free holds.  With that character, which   *)
(* the next poll overwrites, still nothing is written that was not read.   *)
(***************************************************************************)
EchoInOrder ==
    /\ point = "got" => ~putBusy
    /\ Len(echoed) + Len(unread) <= Len(typed)
    /\ ~Occurs(EOF, Len(typed)) => echoed = SubSeq(typed, 1, Len(echoed))

(***************************************************************************)
(* Everything typed up to the first q is echoed, unless the character that *)
(* looks like EOF is typed: the console stops polling into its buffer, but *)
(* never for good, and no wake-up of either semaphore is lost.             *)
(***************************************************************************)
Echoed == Len(echoed) < Due ~> Len(echoed) = Due \/ Occurs(EOF, Len(typed))
=============================================================================
