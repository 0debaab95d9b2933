------------------------- MODULE TransactionalFile --------------------------
(* What the NAND library promises of one file of the save data: the writes  *)
(* of a session become the file's content together or not at all, whatever  *)
(* the host does and whenever the power goes. A session that could not be   *)
(* made so writes through, and says so in the log.                          *)
EXTENDS Naturals

CONSTANTS
    Client,
    Write,     \* the things written; a content is the set of those in it
    NoFile     \* what is there when the file does not exist

VARIABLES
    content,   \* what a reader finds
    maybe,     \* what a reader may find after a loss of power
    session    \* per client: "closed", "direct", or the content it prepares

vars == <<content, maybe, session>>

Content == SUBSET Write
Closed  == [kind |-> "closed"]
Direct  == [kind |-> "direct"]
Prepared(c) == [kind |-> "prepared", content |-> c]

Init ==
    /\ content \in Content \cup {NoFile}
    /\ maybe = {content}
    /\ session = [f \in Client |-> Closed]

Exists == content # NoFile

\* The content changes at once; a loss of power may leave it, or what it could
\* have left before, as far as the disk has not caught up.
Becomes(c, more) ==
    /\ content' = c
    /\ c \in maybe' /\ maybe' \subseteq maybe \cup {c} \cup more

Begin(f) ==
    /\ Exists
    /\ session' = [session EXCEPT ![f] = Prepared(content)]
    /\ UNCHANGED <<content, maybe>>

\* In place: the host may clear the file when it cannot open it as it is.
BeginDirect(f) ==
    /\ session' = [session EXCEPT ![f] = Direct]
    /\ Becomes(content, {}) \/ Becomes({}, {})

Put(f, w) ==
    \/ /\ session[f].kind = "prepared"
       /\ session' = [session EXCEPT ![f] = Prepared(session[f].content \cup {w})]
       /\ UNCHANGED <<content, maybe>>
    \/ /\ session[f] = Direct /\ Exists
       /\ Becomes(content \cup {w}, {c \cup {w} : c \in maybe \ {NoFile}})
       /\ UNCHANGED session

Publish(f) ==
    /\ session[f].kind = "prepared"
    /\ Becomes(session[f].content, {})
    /\ session' = [session EXCEPT ![f] = Closed]

\* Given up, or written through; what is on the disk may become certain.
End(f) ==
    /\ Becomes(content, {})
    /\ session' = [session EXCEPT ![f] = Closed]

Settle ==
    /\ Becomes(content, {})
    /\ UNCHANGED session

Create ==
    /\ ~Exists
    /\ Becomes({}, {})
    /\ UNCHANGED session

Delete ==
    /\ Exists
    /\ Becomes(NoFile, {})
    /\ UNCHANGED session

PowerLoss ==
    /\ content' \in maybe
    /\ maybe' = {content'}
    /\ session' = [f \in Client |-> Closed]

Next ==
    \/ \E f \in Client : Begin(f) \/ BeginDirect(f) \/ Publish(f) \/ End(f)
    \/ \E f \in Client, w \in Write : Put(f, w)
    \/ Settle \/ Create \/ Delete \/ PowerLoss

Spec == Init /\ [][Next]_vars
=============================================================================
