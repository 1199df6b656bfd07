----------------------------- MODULE UpdateFeed -----------------------------
(***************************************************************************)
(* What a sequential driver of the bot promises about the updates Telegram *)
(* queues for it: they are handled in order, none is skipped, and Telegram *)
(* is told to forget an update only after it was handled.  An update may   *)
(* be handled again (the promise is at-least-once).                        *)
(***************************************************************************)
EXTENDS Naturals

VARIABLES
    arrived,    \* update ids 1..arrived have reached Telegram
    handled,    \* the ids whose handling has ended at least once
    confirmed   \* ids below this one are confirmed: Telegram forgot them

feedVars == <<arrived, handled, confirmed>>

FeedInit ==
    /\ arrived = 0
    /\ handled = {}
    /\ confirmed = 1

\* A user writes to the bot.
FeedArrive ==
    /\ arrived' = arrived + 1
    /\ UNCHANGED <<handled, confirmed>>

\* One update is handled, after all that arrived before it.
FeedHandle ==
    \E i \in 1..arrived :
        /\ \A j \in 1..(i - 1) : j \in handled
        /\ handled' = handled \cup {i}
        /\ UNCHANGED <<arrived, confirmed>>

\* Telegram forgets a longer prefix, every update of which was handled.
FeedConfirm ==
    \E n \in (confirmed + 1)..(arrived + 1) :
        /\ \A j \in 1..(n - 1) : j \in handled
        /\ confirmed' = n
        /\ UNCHANGED <<arrived, handled>>

FeedNext == FeedArrive \/ FeedHandle \/ FeedConfirm

FeedSpec == FeedInit /\ [][FeedNext]_feedVars

=============================================================================
