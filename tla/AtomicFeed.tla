----------------------------- MODULE AtomicFeed -----------------------------
(***************************************************************************)
(* The live feed as its dashboards may think of it: an update is made,     *)
(* remembered, and published to everybody it is for in one step, at most   *)
(* once.  Who is connected and who is subscribed to what changes between   *)
(* publications only; there is no mutex, no loop and no channel.           *)
(***************************************************************************)
EXTENDS Integers, Sequences

CONSTANTS Post, Client, RecentCap, QueueCap

VARIABLES
    stage,     \* how far each update has come
    audience,  \* whom an update under way is for, as subscriptions now stand
    recent,    \* the newest updates remembered, newest first
    total,     \* how many were remembered since the last clear
    members,   \* clients connected
    left,      \* clients disconnected: they never come back
    feed       \* the updates published to each client, in order

vars == <<stage, audience, recent, total, members, left, feed>>

Init ==
    /\ stage = [p \in Post |-> "waiting"]
    /\ audience = [p \in Post |-> {}]
    /\ recent = <<>> /\ total = 0
    /\ members = {} /\ left = {}
    /\ feed = [c \in Client |-> <<>>]

Advance(p, from, to) ==
    /\ stage[p] = from
    /\ stage' = [stage EXCEPT ![p] = to]

Make(p) ==
    /\ Advance(p, "waiting", "made")
    /\ \E A \in SUBSET Client : audience' = [audience EXCEPT ![p] = A]
    /\ UNCHANGED <<recent, total, members, left, feed>>

Remember(p) ==
    /\ Advance(p, "made", "remembered")
    /\ LET all == <<p>> \o recent IN
          recent' = IF Len(all) > RecentCap THEN SubSeq(all, 1, RecentCap) ELSE all
    /\ total' = total + 1
    /\ UNCHANGED <<audience, members, left, feed>>

\* All of S at once.  Only a client with more updates than fit into its channel
\* may be left out of those the update is for.
Publish(p, S) ==
    /\ Advance(p, "remembered", "published")
    /\ S \subseteq audience[p] \cap members
    /\ \A c \in (audience[p] \cap members) \ S : Len(feed[c]) >= QueueCap
    /\ feed' = [c \in Client |-> IF c \in S THEN Append(feed[c], p) ELSE feed[c]]
    /\ audience' = [audience EXCEPT ![p] = {}]
    /\ UNCHANGED <<recent, total, members, left>>

\* c may see other updates than before; nobody else is concerned.
Resubscribe(c) ==
    /\ \A p \in Post : audience'[p] \ {c} = audience[p] \ {c}
    /\ \A p \in Post : stage[p] \in {"waiting", "published"} => audience'[p] = {}
    /\ UNCHANGED <<stage, recent, total, members, left, feed>>

Clear ==
    /\ recent' = <<>> /\ total' = 0
    /\ UNCHANGED <<stage, audience, members, left, feed>>

Connect(c) ==
    /\ c \notin members \cup left
    /\ members' = members \cup {c}
    /\ UNCHANGED <<stage, audience, recent, total, left, feed>>

Disconnect(c) ==
    /\ c \in members
    /\ members' = members \ {c}
    /\ left' = left \cup {c}
    /\ UNCHANGED <<stage, audience, recent, total, feed>>

Next ==
    \/ \E p \in Post : Make(p) \/ Remember(p) \/ \E S \in SUBSET Client : Publish(p, S)
    \/ \E c \in Client : Resubscribe(c) \/ Connect(c) \/ Disconnect(c)
    \/ Clear

Spec == Init /\ [][Next]_vars
=============================================================================
