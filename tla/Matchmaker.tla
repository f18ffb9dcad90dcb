------------------------------ MODULE Matchmaker ------------------------------
(***************************************************************************)
(* server/matchmaker.py: the queue behind the Play button.  A seeker is    *)
(* matched with the earliest seeker whose rating is close enough, or waits;*)
(* one who has waited too long is reported as expired by a tick.           *)
(*                                                                         *)
(* Time is counted in ticks of the server loop.                            *)
(***************************************************************************)
EXTENDS Lists

CONSTANTS
    Conns,          \* connections; each carries one Participant for its whole life
    Tolerance,      \* MATCHMAKING_RATING_TOLERANCE
    SearchTime      \* MATCHMAKING_TIMEOUT_SECONDS, in ticks

VARIABLES
    entries         \* _entries: the seekers in the order they came

InQueue(c) == \E i \in DOMAIN entries : entries[i].conn = c

\* _find_earliest_compatible: the places in the queue a seeker fits, and the first one.
Compatible(rating) ==
    {i \in DOMAIN entries : /\ entries[i].rating - rating <= Tolerance
                            /\ rating - entries[i].rating <= Tolerance}

Earliest(places) == CHOOSE i \in places : \A j \in places : i <= j

Enqueue(c, rating) ==
    entries' = Append(entries, [conn |-> c, rating |-> rating, waited |-> 0])

\* _entries.remove: of a matched opponent, and cancel_search.
CancelSearch(c) == entries' = Kept(entries, {i \in DOMAIN entries : entries[i].conn # c})

\* Matchmaker.tick: everyone waits one tick longer, who has waited too long is taken out.
\* Mutant: who is due is taken out of the queue, but reported one tick too late.
ExpiredTooLate == {entries[i].conn : i \in {j \in DOMAIN entries : entries[j].waited > SearchTime}}

ExpiredSeekers == {entries[i].conn : i \in {j \in DOMAIN entries : entries[j].waited = SearchTime}}

\* Mutant: the expired entries stay in the queue.
TickQueueKeepsExpired == entries' = [i \in DOMAIN entries |-> [entries[i] EXCEPT !.waited = @ + 1]]

TickQueue ==
    LET aged == [i \in DOMAIN entries |-> [entries[i] EXCEPT !.waited = @ + 1]]
    IN entries' = Kept(aged, {i \in DOMAIN entries : entries[i].waited < SearchTime})
=============================================================================
