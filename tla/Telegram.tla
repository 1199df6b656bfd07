------------------------------ MODULE Telegram ------------------------------
(***************************************************************************)
(* The Bot API's update queue as a client of getUpdates sees it: updates   *)
(* queue up, a request confirms what is below its offset and is answered   *)
(* with the first updates kept.  One request is in flight at a time; a     *)
(* request the client gave up on is lost, or reaches the server later.     *)
(* The server is external: this is what the polling code relies on.        *)
(***************************************************************************)
EXTENDS Naturals

CONSTANTS
    MaxUpdate,   \* bound: how many updates reach Telegram
    Limit        \* updates returned per getUpdates, at most

ASSUME TelegramAssumption == MaxUpdate \in Nat /\ Limit \in Nat \ {0}

VARIABLES
    arrived,     \* update ids 1..arrived have reached Telegram
    confirmed,   \* the lowest id Telegram still keeps
    request,     \* the getUpdates in flight: none, sent, answered
    sentOffset,  \* the offset it carries, as the client recorded it
    orphans,     \* offsets of requests given up on that may still get there
    bnext, bend  \* the updates of the reply not taken yet: bnext..bend

telegramVars == <<arrived, confirmed>>
wireVars == <<request, orphans, bnext, bend>>

Ids == 1..MaxUpdate
Offsets == 0..(MaxUpdate + 1)

Greater(a, b) == IF a > b THEN a ELSE b
Lesser(a, b) == IF a < b THEN a ELSE b

TelegramType ==
    /\ arrived \in 0..MaxUpdate
    /\ confirmed \in 1..(MaxUpdate + 1)
    /\ request \in {"none", "sent", "answered"}
    /\ sentOffset \in Offsets
    /\ orphans \subseteq Offsets
    /\ bnext \in 1..(MaxUpdate + 1)
    /\ bend \in 0..MaxUpdate

TelegramInit ==
    /\ arrived = 0
    /\ confirmed = 1
    /\ request = "none"
    /\ sentOffset = 0
    /\ orphans = {}
    /\ bnext = 1
    /\ bend = 0

\* A user writes to the bot.
UpdateArrives ==
    /\ arrived < MaxUpdate
    /\ arrived' = arrived + 1
    /\ UNCHANGED <<confirmed, request, sentOffset, orphans, bnext, bend>>

\* Telegram receives the request: its offset confirms everything below, and
\* the reply is the first updates it keeps (none, if the window passes).  The
\* reply matters only if the client wants the batch.
RequestAnswered(batch) ==
    /\ request = "sent"
    /\ request' = "answered"
    /\ confirmed' = Greater(confirmed, sentOffset)
    /\ IF batch
       THEN /\ bnext' = confirmed'
            /\ bend' = Lesser(arrived, confirmed' + Limit - 1)
       ELSE UNCHANGED <<bnext, bend>>
    /\ UNCHANGED <<arrived, sentOffset, orphans>>

\* A request the client gave up on gets to Telegram after all.
LateRequestArrives ==
    \E o \in orphans :
        /\ orphans' = orphans \ {o}
        /\ confirmed' = Greater(confirmed, o)
        /\ UNCHANGED <<arrived, request, sentOffset, bnext, bend>>

\* The client stops waiting for the request in flight.  If Telegram has not
\* seen it yet it is lost, or late.
Abandon ==
    /\ request' = "none"
    /\ bnext' = 1
    /\ bend' = 0
    /\ \/ orphans' = orphans
       \/ request = "sent" /\ orphans' = orphans \cup {sentOffset}

=============================================================================
