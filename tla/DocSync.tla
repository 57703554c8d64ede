------------------------------- MODULE DocSync ------------------------------
(***************************************************************************)
(* What the agent promises to the subscribers of db: channels, without its *)
(* workers, queues and leases (README.md:3-9): a doc is the result of a    *)
(* query over rows that change; whoever subscribes sees results the query  *)
(* really had, never an older one after a newer one, and in the end the    *)
(* current one.  due is the obligation that makes this possible: the docs  *)
(* for which a recompute is on its way.                                    *)
(***************************************************************************)
EXTENDS Naturals

CONSTANTS
  Channels,     \* the docs
  MaxVersion    \* bound: versions of a doc

VARIABLES
  db,           \* db[c]: version of c's query result now
  published,    \* published[c]: version subscribers see
  live,         \* docs with subscribers
  due           \* docs with a recompute on its way

vars == <<db, published, live, due>>

Version == 0 .. MaxVersion

Init ==
  /\ db = [c \in Channels |-> 1]
  /\ published \in [Channels -> 0 .. 1]
  /\ live = {}
  /\ due = {}

Stale(c) == published[c] # db[c]

(* Rows change: every doc whose result changes becomes due, and others may.*)
Change(changed) ==
  /\ UNCHANGED <<published, live>>
  /\ db' = [c \in Channels |-> IF c \in changed THEN db[c] + 1 ELSE db[c]]
  /\ db' \in [Channels -> Version]
  /\ due \cup changed \subseteq due'
  /\ due' \subseteq Channels

(* Subscribers arrive and leave.  A doc that had none may have missed      *)
(* changes: it becomes due.  One that has none left need not stay so.      *)
Interest ==
  /\ UNCHANGED <<db, published>>
  /\ live' \subseteq Channels
  /\ live' \ live \subseteq due'
  /\ due \cap live' \subseteq due'
  /\ due' \subseteq Channels

(* An obligation may be taken on at any time, and dropped when the doc is  *)
(* current or has no subscriber.                                           *)
Plan ==
  /\ UNCHANGED <<db, published, live>>
  /\ due' \subseteq Channels
  /\ \A c \in due \ due' : c \notin live \/ ~Stale(c)

(* A result the query had since the last publish; unless it is the current *)
(* one, a doc with subscribers stays due.                                  *)
Publish(c) ==
  /\ UNCHANGED <<db, live>>
  /\ \E v \in published[c] .. db[c] :
       published' = [published EXCEPT ![c] = v]
  /\ due \ {c} \subseteq due'
  /\ due' \subseteq due \cup {c}
  /\ c \in due' \/ c \notin live \/ published'[c] = db[c]

Next ==
  \/ Plan
  \/ Interest
  \/ \E c \in Channels : Publish(c)
  \/ \E changed \in SUBSET Channels : Change(changed)

Safety == Init /\ [][Next]_vars

(* A doc that is due and stale does not stay so while it has subscribers.  *)
Progress ==
  \A c \in Channels :
    c \in live /\ c \in due /\ Stale(c) ~> c \notin live \/ ~Stale(c)

Spec == Safety /\ Progress
=============================================================================
