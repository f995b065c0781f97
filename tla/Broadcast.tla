------------------------------ MODULE Broadcast ------------------------------
(***************************************************************************)
(* What a watcher promises its clients, whatever its tables, buffers and   *)
(* goroutines: a client is owed every message published from its joining   *)
(* on, and is given what it is owed once each, oldest first.  Only the     *)
(* message being published may be lost for a client, and only if more than *)
(* Room messages then wait for it.  WatcherLoop and GoWatcher implement    *)
(* this.                                                                   *)
(***************************************************************************)
EXTENDS Naturals, FiniteSets

CONSTANTS
    Clients,
    Room           \* messages that wait for a client before one is lost for it

VARIABLES
    published,     \* how many messages have been published
    members,       \* the clients that have joined and not left
    owed,          \* of each client, what it has still to get
    given,         \* of each client, the last message given to it, or an earlier mark
    inbox          \* of each client, how many messages it has been given and not read

vars == <<published, members, owed, given, inbox>>

Init ==
    /\ published = 0
    /\ members = {}
    /\ owed = [c \in Clients |-> {}]
    /\ given = [c \in Clients |-> 0]
    /\ inbox = [c \in Clients |-> 0]

\* The next message, for all members at once.
Publish ==
    /\ published' = published + 1
    /\ owed' = [c \in Clients |-> IF c \in members THEN owed[c] \cup {published'} ELSE {}]
    /\ UNCHANGED <<members, given, inbox>>

\* A client that joins is owed nothing yet; its mark is before the next message.
Join(c) ==
    /\ c \notin members
    /\ members' = members \cup {c}
    /\ \E mark \in 0..published : given' = [given EXCEPT ![c] = mark]
    /\ inbox' = [inbox EXCEPT ![c] = 0]
    /\ UNCHANGED <<published, owed>>

\* The oldest message that the client has not got.
Give(c) ==
    \E m \in owed[c] :
        /\ \A n \in owed[c] : m <= n
        /\ owed' = [owed EXCEPT ![c] = @ \ {m}]
        /\ given' = [given EXCEPT ![c] = m]
        /\ inbox' = [inbox EXCEPT ![c] = @ + 1]
        /\ UNCHANGED <<published, members>>

Read(c) ==
    /\ inbox[c] > 0
    /\ inbox' = [inbox EXCEPT ![c] = @ - 1]
    /\ UNCHANGED <<published, members, owed, given>>

Lose(c) ==
    /\ published \in owed[c]
    /\ Cardinality(owed[c]) > Room
    /\ owed' = [owed EXCEPT ![c] = @ \ {published}]
    /\ UNCHANGED <<published, members, given, inbox>>

Leave(c) ==
    /\ members' = members \ {c}
    /\ owed' = [owed EXCEPT ![c] = {}]
    /\ UNCHANGED <<published, given, inbox>>

\* The watcher ends: what it has not published, nobody will get.
Close ==
    /\ members' = {}
    /\ owed' = [c \in Clients |-> {}]
    /\ published' \in Nat /\ published' >= published
    /\ UNCHANGED <<given, inbox>>

Next ==
    \/ Publish
    \/ \E c \in Clients : Join(c) \/ Give(c) \/ Read(c) \/ Lose(c) \/ Leave(c)
    \/ Close

Spec == Init /\ [][Next]_vars

=============================================================================
