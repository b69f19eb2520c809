----------------------------- MODULE ReviewFeed -----------------------------
(***************************************************************************)
(* What the user may rely on in the feed of review cards: an event is on   *)
(* one card at most; cards are only ever folded into wider ones; a card    *)
(* goes when none of its events is there any more; and once the feed has   *)
(* been rebuilt for good, an event that got on it stays on it until the    *)
(* user deletes it.  ReviewSegments implements it.                         *)
(***************************************************************************)
EXTENDS Integers

CONSTANT Events

VARIABLES
    life,       \* absent, there, gone
    feed,       \* the cards: lane, window and events
    settled     \* the feed is never emptied again

vars == <<life, feed, settled>>

Init ==
    /\ life = [e \in Events |-> "absent"]
    /\ feed = {}
    /\ settled \in BOOLEAN

Begin(e) ==
    /\ life[e] = "absent"
    /\ life' = [life EXCEPT ![e] = "there"] /\ UNCHANGED <<feed, settled>>

Delete(ids) ==
    /\ \A e \in ids: life[e] = "there"
    /\ life' = [e \in Events |-> IF e \in ids THEN "gone" ELSE life[e]]
    /\ UNCHANGED <<feed, settled>>

There(members) == {m \in members : life[m] = "there"}

\* Every second that was shown is shown, and the card is of the same lane.
Widens(new, c) == new.lane = c.lane /\ new.start <= c.start /\ c.end <= new.end

\* An event gets on the feed, by a card of its own or one that takes in others: the
\* events that are still there move to it.
Group(e, merged) ==
    /\ life[e] # "absent"
    /\ \A c \in feed \ merged: e \notin c.members
    /\ \E new \in feed':
          /\ feed' = (feed \ merged) \cup {new}
          /\ \A c \in merged: Widens(new, c)
          /\ new.members = IF merged = {} THEN {e}
                           ELSE There({e} \cup UNION {c.members : c \in merged})
          /\ new.members # {}
    /\ UNCHANGED <<life, settled>>

Withdraw(lost) ==
    /\ \A c \in lost: There(c.members) = {}
    /\ feed' = feed \ lost /\ UNCHANGED <<life, settled>>

Empty  == ~settled /\ feed' = {} /\ UNCHANGED <<life, settled>>
Settle == settled' = TRUE /\ UNCHANGED <<life, feed>>

Next ==
    \/ \E e \in Events: Begin(e)
    \/ \E ids \in SUBSET Events: Delete(ids)
    \/ \E e \in Events, merged \in SUBSET feed: Group(e, merged)
    \/ \E lost \in SUBSET feed: Withdraw(lost)
    \/ Empty \/ Settle

Spec == Init /\ [][Next]_vars
=============================================================================
