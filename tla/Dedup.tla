------------------------------- MODULE Dedup -------------------------------
(***************************************************************************)
(* TagReportDeduplicator (dedup.py): a tag is reported at once, suppressed *)
(* for window_seconds, then reported again.  Several reader threads share  *)
(* one deduplicator: each computes its keys and reads the clock before it  *)
(* takes the lock, so the readings may be used out of order, and the       *)
(* expiry queue need not be sorted.                                        *)
(*                                                                         *)
(* Under the lock the loops of _purge_expired, filter and _trim take one   *)
(* step per iteration.  window_seconds = 0 returns the reports unfiltered  *)
(* and touches no state; it is not modelled.                               *)
(***************************************************************************)
EXTENDS Integers, Sequences, FiniteSets

CONSTANTS
    Threads,     \* reader threads that call filter()
    Keys,        \* tag identities
    Window,      \* window_seconds
    MaxEntries,  \* max_entries
    MaxBatch,    \* bound on the reports of one call
    MaxTime,     \* bound on the clock
    MaxEvictions \* bound on the evictions counted before the calls stop

ASSUME DedupAssumption ==
    /\ IsFiniteSet(Keys)
    /\ Window \in Nat \ {0} /\ MaxEntries \in Nat \ {0}
    /\ MaxBatch \in Nat /\ MaxTime \in Nat /\ MaxEvictions \in Nat

VARIABLES
    time,       \* what clock() would return
    pc,         \* per thread: where in filter() it is
    todo,       \* per thread: the keys of its reports still to look at
    now,        \* per thread: the clock reading it uses
    seen,       \* _seen: per key its expiry, or NotSeen
    queue,      \* _expiry_queue
    evictions,  \* _evictions
    due         \* history: when the last report of a key that was neither
                \* evicted nor reset stops suppressing others

vars == << time, pc, todo, now, seen, queue, evictions, due >>

NotSeen == 0    \* expiries are positive
Steps   == {"idle", "keyed", "purge", "scan", "trim"}
Locked  == {"purge", "scan", "trim"}
Entries == [expiry : Nat, key : Keys]

Batches == UNION { [1 .. n -> Keys] : n \in 0 .. MaxBatch }

TypeOK ==
    /\ time \in Nat
    /\ pc \in [Threads -> Steps]
    /\ todo \in [Threads -> Seq(Keys)]
    /\ now \in [Threads -> Nat]
    /\ seen \in [Keys -> Nat]
    /\ queue \in Seq(Entries)
    /\ evictions \in Nat
    /\ due \in [Keys -> Nat]

Unlocked == \A t \in Threads : pc[t] \notin Locked

Tracked == { k \in Keys : seen[k] # NotSeen }

EntryCount == Cardinality(Tracked)

-----------------------------------------------------------------------------
Init ==
    /\ time = 0
    /\ pc = [t \in Threads |-> "idle"]
    /\ todo = [t \in Threads |-> << >>]
    /\ now = [t \in Threads |-> 0]
    /\ seen = [k \in Keys |-> NotSeen]
    /\ queue = << >>
    /\ evictions = 0
    /\ due = [k \in Keys |-> 0]

Tick ==
    /\ time < MaxTime
    /\ time' = time + 1
    /\ UNCHANGED << pc, todo, now, seen, queue, evictions, due >>

(* filter() up to the lock: the keys are computed and the clock is read. *)
ReadClock(t) ==
    /\ pc[t] = "idle"
    /\ evictions < MaxEvictions
    /\ pc' = [pc EXCEPT ![t] = "keyed"]
    /\ \E b \in Batches : todo' = [todo EXCEPT ![t] = b]
    /\ now' = [now EXCEPT ![t] = time]
    /\ UNCHANGED << time, seen, queue, evictions, due >>

Acquire(t) ==
    /\ pc[t] = "keyed"
    /\ Unlocked
    /\ pc' = [pc EXCEPT ![t] = "purge"]
    /\ UNCHANGED << time, todo, now, seen, queue, evictions, due >>

(* Dropping the head of the queue forgets its key, unless the key has been *)
(* reported again since: then a later entry stands for it.                 *)
HeadIsCurrent == seen[Head(queue).key] = Head(queue).expiry

PopHead ==
    /\ queue' = Tail(queue)
    /\ seen' = IF HeadIsCurrent THEN [seen EXCEPT ![Head(queue).key] = NotSeen] ELSE seen

(* Faulty variant: an entry is purged one tick early. *)
HeadExpiredEarly(t) == queue # << >> /\ Head(queue).expiry <= now[t] + 1

HeadExpired(t) == queue # << >> /\ Head(queue).expiry <= now[t]

(* One turn of _purge_expired's loop, and its end. *)
PurgeExpired(t) ==
    /\ pc[t] = "purge"
    /\ HeadExpired(t)
    /\ PopHead
    /\ UNCHANGED << time, pc, todo, now, evictions, due >>

Purged(t) ==
    /\ pc[t] = "purge"
    /\ ~ HeadExpired(t)
    /\ pc' = [pc EXCEPT ![t] = "scan"]
    /\ UNCHANGED << time, todo, now, seen, queue, evictions, due >>

(* Faulty variant: the window is subtracted. *)
ExpiryBackwards(t) == now[t] - Window

Expiry(t) == now[t] + Window

(* Faulty variant: a suppressed sighting extends the interval. *)
SuppressExtending(t) ==
    /\ pc[t] = "scan" /\ todo[t] # << >>
    /\ LET k == Head(todo[t]) IN
         /\ now[t] < seen[k]
         /\ seen' = [seen EXCEPT ![k] = Expiry(t)]
         /\ queue' = Append(queue, [expiry |-> Expiry(t), key |-> k])
    /\ todo' = [todo EXCEPT ![t] = Tail(@)]
    /\ UNCHANGED << time, pc, now, evictions, due >>

(* A report inside its key's interval is dropped; the interval stays. *)
Suppress(t) ==
    /\ pc[t] = "scan" /\ todo[t] # << >>
    /\ now[t] < seen[Head(todo[t])]
    /\ todo' = [todo EXCEPT ![t] = Tail(@)]
    /\ UNCHANGED << time, pc, now, seen, queue, evictions, due >>

(* Faulty variant: the reported key is not queued for expiry. *)
EmitUnqueued(t) ==
    /\ pc[t] = "scan" /\ todo[t] # << >>
    /\ LET k == Head(todo[t]) IN
         /\ ~ now[t] < seen[k]
         /\ seen' = [seen EXCEPT ![k] = Expiry(t)]
         /\ due'  = [due EXCEPT ![k] = Expiry(t)]
    /\ todo' = [todo EXCEPT ![t] = Tail(@)]
    /\ UNCHANGED << time, pc, now, queue, evictions >>

(* Any other report is passed on and starts an interval. *)
Emit(t) ==
    /\ pc[t] = "scan" /\ todo[t] # << >>
    /\ LET k == Head(todo[t]) IN
         /\ ~ now[t] < seen[k]
         /\ seen' = [seen EXCEPT ![k] = Expiry(t)]
         /\ queue' = Append(queue, [expiry |-> Expiry(t), key |-> k])
         /\ due' = [due EXCEPT ![k] = Expiry(t)]
    /\ todo' = [todo EXCEPT ![t] = Tail(@)]
    /\ UNCHANGED << time, pc, now, evictions >>

Scanned(t) ==
    /\ pc[t] = "scan" /\ todo[t] = << >>
    /\ pc' = [pc EXCEPT ![t] = "trim"]
    /\ UNCHANGED << time, todo, now, seen, queue, evictions, due >>

(* Faulty variant: one entry too many is let through. *)
OverfullByOne == EntryCount > MaxEntries + 1 /\ queue # << >>

Overfull == EntryCount > MaxEntries /\ queue # << >>

(* One turn of _trim's loop, and the release of the lock after it. *)
Trim(t) ==
    /\ pc[t] = "trim"
    /\ Overfull
    /\ PopHead
    /\ evictions' = IF HeadIsCurrent THEN evictions + 1 ELSE evictions
    /\ due' = IF HeadIsCurrent THEN [due EXCEPT ![Head(queue).key] = 0] ELSE due
    /\ UNCHANGED << time, pc, todo, now >>

(* Faulty variant: the lock is kept. *)
ReleaseNothing(t) == FALSE /\ UNCHANGED vars

Release(t) ==
    /\ pc[t] = "trim"
    /\ ~ Overfull
    /\ pc' = [pc EXCEPT ![t] = "idle"]
    /\ UNCHANGED << time, todo, now, seen, queue, evictions, due >>

(* reset() by any other thread. *)
Reset ==
    /\ Unlocked
    /\ seen' = [k \in Keys |-> NotSeen]
    /\ queue' = << >>
    /\ evictions' = 0
    /\ due' = [k \in Keys |-> 0]
    /\ UNCHANGED << time, pc, todo, now >>

Locking(t) ==
    \/ PurgeExpired(t) \/ Purged(t)
    \/ Suppress(t) \/ Emit(t) \/ Scanned(t)
    \/ Trim(t) \/ Release(t)

Next ==
    \/ Tick
    \/ Reset
    \/ \E t \in Threads : ReadClock(t) \/ Acquire(t) \/ Locking(t)

Spec == Init /\ [][Next]_vars

(* A thread that holds the lock runs, and the lock is handed out fairly. *)
Fairness == \A t \in Threads : WF_vars(Locking(t)) /\ SF_vars(Acquire(t))

FairSpec == Spec /\ Fairness

-----------------------------------------------------------------------------
(* Properties. *)

(***************************************************************************)
(* EveryKeyQueued: each key in _seen has an entry with its expiry in the   *)
(* queue, so that it will be purged and can be evicted, however the clock  *)
(* readings of the threads were reordered.                                 *)
(***************************************************************************)
EveryKeyQueued ==
    \A k \in Tracked : \E i \in DOMAIN queue : queue[i] = [expiry |-> seen[k], key |-> k]

(***************************************************************************)
(* WithinBound: outside filter() at most max_entries identities are kept.  *)
(***************************************************************************)
WithinBound == Unlocked => EntryCount <= MaxEntries

(***************************************************************************)
(* NoEarlyReport: a tag that is reported was not reported within the last  *)
(* Window, unless it was evicted or reset (dedup.py: "Additional sightings *)
(* inside window_seconds are dropped").  The clock is the one when the     *)
(* report is made; the thread's own reading may be older.                  *)
(***************************************************************************)
ReportsWhenDue == \A t \in Threads, k \in Keys :
    todo'[t] # todo[t] /\ pc[t] = "scan" /\ due'[k] # due[k] => due[k] <= time
NoEarlyReport == [][ReportsWhenDue]_vars

(***************************************************************************)
(* SuppressedForWindow: a report is dropped only within Window of the last *)
(* one passed on (dedup.py: suppression happens "without refreshing the    *)
(* expiry time").                                                          *)
(***************************************************************************)
DropsOnlyInWindow == \A t \in Threads :
    pc[t] = "scan" /\ todo'[t] # todo[t] /\ due' = due => now[t] < due[Head(todo[t])]
SuppressedForWindow == [][DropsOnlyInWindow]_vars

(***************************************************************************)
(* FilterReturns: a call of filter() returns.                              *)
(***************************************************************************)
FilterReturns == \A t \in Threads : pc[t] = "keyed" ~> pc[t] = "idle"

(***************************************************************************)
(* CountsOnlyLive: entry_count is what its docstring says, "the number of  *)
(* identities currently inside the cooldown window".                       *)
(***************************************************************************)
CountsOnlyLive == Unlocked => EntryCount = Cardinality({ k \in Keys : time < seen[k] })
=============================================================================
