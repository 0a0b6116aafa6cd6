------------------------------ MODULE Mailbox ------------------------------
(***************************************************************************)
(* What the relay promises about a message, without files: every copy of a *)
(* message is in one inbox and has one life there.  Only its own reader,   *)
(* who must be live, changes it; only unread mail of an inbox nobody reads *)
(* changes hands, and only to an heir; what is to be kept never expires.   *)
(* An heir may be shown a copy again that it saw or acknowledged while the *)
(* copy was on its way to it.                                              *)
(***************************************************************************)
CONSTANTS
    Copies,
    Inboxes,
    Readers,   \* inboxes that a process may come to read
    Home,      \* the inbox a copy is sent to
    Heirs,     \* pairs of an inbox and a reader who may inherit from it
    Keep       \* copies that never expire

VARIABLES
    live,      \* readers at work
    where,     \* the inboxes a copy is in
    life,      \* what has become of it
    moving     \* copies a reader has inherited and not settled yet

vars == <<live, where, life, moving>>

Init ==
    /\ live = {}
    /\ where = [c \in Copies |-> {}]
    /\ life = [c \in Copies |-> "unsent"]
    /\ moving = [s \in Readers |-> {}]

Start(s) ==
    /\ live' = live \cup {s}
    /\ UNCHANGED <<where, life, moving>>

\* A reader goes, with whatever it was doing.
End(s) ==
    /\ live' = live \ {s}
    /\ moving' = [moving EXCEPT ![s] = {}]
    /\ UNCHANGED <<where, life>>

Send(c) ==
    /\ life[c] = "unsent"
    /\ life' = [life EXCEPT ![c] = "unread"]
    /\ where' = [where EXCEPT ![c] = {Home[c]}]
    /\ UNCHANGED <<live, moving>>

\* What a reader can make of a copy: unread mail that expires is buried first.
Turns(c, old, new) ==
    \/ old = "unread" /\ new \in {"seen", "acked"}
    \/ old = "unread" /\ new = "buried" /\ c \notin Keep
    \/ old = "seen" /\ new = "acked"
    \/ old = "seen" /\ new = "expired" /\ c \notin Keep
    \/ old = "buried" /\ new \in {"acked", "expired"}

\* A reader goes through its inbox.
Attend(s) ==
    /\ s \in live
    /\ \A c \in Copies :
        \/ life'[c] = life[c] /\ where'[c] = where[c]
        \/ /\ where[c] = {s}
           /\ Turns(c, life[c], life'[c])
           /\ where'[c] = IF life'[c] \in {"acked", "expired"} THEN {} ELSE {s}
    /\ DOMAIN life' = Copies /\ DOMAIN where' = Copies
    /\ UNCHANGED <<live, moving>>

Inherit(s, c) ==
    /\ s \in live /\ life[c] = "unread"
    /\ \E d \in Inboxes \ live : where[c] = {d} /\ <<d, s>> \in Heirs
    /\ where' = [where EXCEPT ![c] = {s}]
    /\ moving' = [moving EXCEPT ![s] = {c}]
    /\ UNCHANGED <<live, life>>

\* The heir's copy is marked as inherited, which makes it unread once more.
Settle(s, c) ==
    /\ s \in live /\ c \in moving[s]
    /\ moving' = [moving EXCEPT ![s] = {}]
    /\ \/ /\ life' = [life EXCEPT ![c] = "unread"]
          /\ where' = [where EXCEPT ![c] = {s}]
       \/ UNCHANGED <<life, where>>
    /\ UNCHANGED live

Next ==
    \/ \E s \in Readers :
        \/ Start(s) \/ End(s) \/ Attend(s)
        \/ \E c \in Copies : Inherit(s, c) \/ Settle(s, c)
    \/ \E c \in Copies : Send(c)

Spec == Init /\ [][Next]_vars

=============================================================================
