---------------------------- MODULE RequestSlots ----------------------------
(***************************************************************************)
(* What request correlation promises the rest of the client, without keys, *)
(* timers or threads.  A response name has one slot.  A request takes the  *)
(* free slot of its name; the slot becomes free when the request completes *)
(* (its callback runs, whatever the outcome) or is abandoned (its write    *)
(* failed, the session was reset, or the dispatch of an older response     *)
(* removed its entry).  A callback that completed never takes a slot       *)
(* again.  An abandoned one may still be called: by a timer that is past   *)
(* cancellation, or because its request is still pending.                  *)
(***************************************************************************)
EXTENDS Naturals

CONSTANTS Names, Callbacks

Free == 0

VARIABLES
    slot,       \* the callback that occupies a response name, or Free
    done,       \* callbacks that have run
    abandoned   \* callbacks whose request was withdrawn before they ran

svars == << slot, done, abandoned >>

SlotsInit ==
    /\ slot = [n \in Names |-> Free]
    /\ done = {}
    /\ abandoned = {}

Occupants == { slot[n] : n \in Names } \ {Free}

Take(n, c) ==
    /\ slot[n] = Free
    /\ c \notin done \cup abandoned \cup Occupants
    /\ slot' = [slot EXCEPT ![n] = c]
    /\ UNCHANGED << done, abandoned >>

Complete(n) ==
    /\ slot[n] # Free
    /\ slot' = [slot EXCEPT ![n] = Free]
    /\ done' = done \cup {slot[n]}
    /\ UNCHANGED abandoned

Abandon(n) ==
    /\ slot[n] # Free
    /\ slot' = [slot EXCEPT ![n] = Free]
    /\ abandoned' = abandoned \cup {slot[n]}
    /\ UNCHANGED done

AbandonAll ==
    /\ slot' = [n \in Names |-> Free]
    /\ abandoned' = abandoned \cup Occupants
    /\ UNCHANGED done

LateCall(c) ==
    /\ c \in abandoned
    /\ abandoned' = abandoned \ {c}
    /\ done' = done \cup {c}
    /\ UNCHANGED slot

SlotsNext ==
    \/ \E n \in Names, c \in Callbacks : Take(n, c)
    \/ \E n \in Names : Complete(n) \/ Abandon(n)
    \/ AbandonAll
    \/ \E c \in Callbacks : LateCall(c)

SlotsSpec == SlotsInit /\ [][SlotsNext]_svars
=============================================================================
