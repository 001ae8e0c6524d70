---------------------------- MODULE DedupProofs ----------------------------
(***************************************************************************)
(* Proofs about Dedup, for every number of threads, keys, window and       *)
(* max_entries: the types, that every remembered key is queued for expiry, *)
(* the bound on the memory, and what is and is not suppressed.             *)
(***************************************************************************)
EXTENDS Dedup, SequenceTheorems, FiniteSetTheorems, TLAPS

(* A reading of the clock is never ahead of it. *)
NowPast == \A t \in Threads : now[t] <= time

(* A remembered expiry is that of the last report still in force, and one  *)
(* that is in force in the future is remembered.                           *)
SeenIsDue == \A k \in Keys : seen[k] # NotSeen => seen[k] = due[k]
DueIsSeen == \A k \in Keys : time < due[k] => seen[k] = due[k]

IInv == TypeOK /\ NowPast /\ EveryKeyQueued /\ SeenIsDue /\ DueIsSeen /\ WithinBound

(* Head and tail of a nonempty queue (deque.popleft), in terms of indices. *)
LEMMA Popped ==
    ASSUME NEW S, NEW q \in Seq(S), q # << >>
    PROVE  /\ Head(q) = q[1] /\ Head(q) \in S
           /\ Tail(q) \in Seq(S)
           /\ \A i \in DOMAIN q : i # 1 => i - 1 \in DOMAIN Tail(q) /\ Tail(q)[i - 1] = q[i]
  OBVIOUS

(* Append keeps what was queued and queues the new entry. *)
LEMMA Queued ==
    ASSUME NEW S, NEW q \in Seq(S), NEW e \in S
    PROVE  /\ Append(q, e) \in Seq(S)
           /\ \A i \in DOMAIN q : i \in DOMAIN Append(q, e) /\ Append(q, e)[i] = q[i]
           /\ Len(q) + 1 \in DOMAIN Append(q, e) /\ Append(q, e)[Len(q) + 1] = e
  OBVIOUS

(* A batch of reports is a sequence of keys. *)
LEMMA BatchIsSeq == Batches \subseteq Seq(Keys)
<1> SUFFICES ASSUME NEW b \in Batches PROVE b \in Seq(Keys)
  OBVIOUS
<1>1. PICK n \in 0 .. MaxBatch : b \in [1 .. n -> Keys]
  BY DEF Batches
<1> QED
  BY <1>1, DedupAssumption, SeqDef DEF DedupAssumption

(* The initial state satisfies the invariant. *)
LEMMA InitInv == Init => IInv
<1> SUFFICES ASSUME Init PROVE IInv
  OBVIOUS
<1> USE DedupAssumption DEF DedupAssumption
<1>1. TypeOK
  BY DEF Init, TypeOK, Steps, NotSeen
<1>2. Tracked = {}
  BY DEF Init, Tracked
<1>3. NowPast /\ SeenIsDue /\ DueIsSeen
  BY DEF Init, NowPast, SeenIsDue, DueIsSeen, NotSeen
<1>4. EveryKeyQueued /\ WithinBound
  BY <1>2, FS_EmptySet DEF EveryKeyQueued, WithinBound, EntryCount
<1> QED
  BY <1>1, <1>3, <1>4 DEF IInv

(* Dropping the head of the queue preserves what the queue is for. *)
LEMMA PopHeadInv ==
    ASSUME TypeOK, EveryKeyQueued, queue # << >>, PopHead
    PROVE  /\ queue' \in Seq(Entries) /\ seen' \in [Keys -> Nat]
           /\ Head(queue) \in Entries
           /\ EveryKeyQueued'
           /\ \A k \in Keys : seen'[k] # seen[k] =>
                /\ k = Head(queue).key /\ seen[k] = Head(queue).expiry
                /\ seen'[k] = NotSeen
<1> USE DEF NotSeen
<1>1. /\ Head(queue) = queue[1] /\ Head(queue) \in Entries
      /\ Tail(queue) \in Seq(Entries)
      /\ \A i \in DOMAIN queue : i # 1 =>
           i - 1 \in DOMAIN Tail(queue) /\ Tail(queue)[i - 1] = queue[i]
  BY Popped DEF TypeOK
<1>2. Head(queue).key \in Keys /\ Head(queue).expiry \in Nat
  BY <1>1 DEF Entries
<1>3. queue' = Tail(queue) /\ seen' \in [Keys -> Nat]
  BY <1>2 DEF PopHead, TypeOK
<1>4. ASSUME NEW k \in Keys, seen'[k] # seen[k]
      PROVE  /\ k = Head(queue).key /\ seen[k] = Head(queue).expiry
             /\ seen'[k] = NotSeen
  BY <1>2, <1>4 DEF PopHead, HeadIsCurrent, TypeOK
<1>5. ASSUME NEW k \in Keys, seen'[k] # NotSeen
      PROVE  \E i \in DOMAIN queue' : queue'[i] = [expiry |-> seen'[k], key |-> k]
  <2>1. seen'[k] = seen[k] /\ k \in Tracked
    BY <1>4, <1>5 DEF Tracked
  <2>2. PICK i \in DOMAIN queue : queue[i] = [expiry |-> seen[k], key |-> k]
    BY <2>1 DEF EveryKeyQueued
  <2>3. i # 1
    <3>1. SUFFICES ASSUME i = 1 PROVE FALSE
      OBVIOUS
    <3>2. Head(queue).key = k /\ Head(queue).expiry = seen[k]
      BY <1>1, <2>2, <3>1
    <3> QED
      BY <1>2, <1>5, <2>1, <3>2 DEF PopHead, HeadIsCurrent, TypeOK
  <2> QED
    BY <1>1, <1>3, <2>1, <2>2, <2>3
<1> QED
  BY <1>1, <1>3, <1>4, <1>5 DEF EveryKeyQueued, Tracked

(* Every step preserves the types. *)
LEMMA TypeStep ==
    ASSUME TypeOK, EveryKeyQueued, [Next]_vars
    PROVE  TypeOK'
<1> USE DedupAssumption DEF DedupAssumption, Steps, NotSeen
<1>1. CASE Tick \/ Reset
  <2>1. CASE Tick
    BY <2>1 DEF Tick, TypeOK
  <2>2. CASE Reset
    <3>1. queue' \in Seq(Entries)
      BY <2>2 DEF Reset
    <3>2. seen' \in [Keys -> Nat] /\ due' \in [Keys -> Nat] /\ evictions' \in Nat
      BY <2>2 DEF Reset
    <3> QED
      BY <2>2, <3>1, <3>2 DEF Reset, TypeOK
  <2> QED
    BY <1>1, <2>1, <2>2
<1>2. ASSUME NEW t \in Threads, ReadClock(t) PROVE TypeOK'
  BY <1>2, BatchIsSeq DEF ReadClock, TypeOK
<1>3. ASSUME NEW t \in Threads, Acquire(t) \/ Purged(t) \/ Scanned(t) \/ Release(t)
      PROVE  TypeOK'
  BY <1>3 DEF Acquire, Purged, Scanned, Release, TypeOK
<1>4. ASSUME NEW t \in Threads, PurgeExpired(t) PROVE TypeOK'
  BY <1>4, PopHeadInv DEF PurgeExpired, HeadExpired, TypeOK
<1>5. ASSUME NEW t \in Threads, Suppress(t) \/ Emit(t) PROVE TypeOK'
  <2>1. Head(todo[t]) \in Keys /\ Tail(todo[t]) \in Seq(Keys)
    BY <1>5, Popped DEF Suppress, Emit, TypeOK
  <2>2. CASE Suppress(t)
    BY <2>1, <2>2 DEF Suppress, TypeOK
  <2>3. CASE Emit(t)
    <3>1. Expiry(t) \in Nat
      BY DEF Expiry, TypeOK
    <3>2. [expiry |-> Expiry(t), key |-> Head(todo[t])] \in Entries
      BY <2>1, <3>1 DEF Entries
    <3>3. queue' \in Seq(Entries)
      BY <2>3, <3>2, Queued DEF Emit, TypeOK
    <3>4. seen' \in [Keys -> Nat] /\ due' \in [Keys -> Nat]
      BY <2>1, <2>3, <3>1 DEF Emit, TypeOK
    <3>5. todo' \in [Threads -> Seq(Keys)]
      BY <2>1, <2>3 DEF Emit, TypeOK
    <3> QED
      BY <2>3, <3>3, <3>4, <3>5 DEF Emit, TypeOK
  <2> QED
    BY <1>5, <2>2, <2>3
<1>6. ASSUME NEW t \in Threads, Trim(t) PROVE TypeOK'
  <2>1. queue # << >> /\ PopHead
    BY <1>6 DEF Trim, Overfull
  <2>2. queue' \in Seq(Entries) /\ seen' \in [Keys -> Nat] /\ Head(queue) \in Entries
    BY <2>1, PopHeadInv
  <2>3. due' \in [Keys -> Nat] /\ evictions' \in Nat
    BY <1>6, <2>2 DEF Trim, TypeOK, Entries
  <2> QED
    BY <1>6, <2>2, <2>3 DEF Trim, TypeOK
<1>7. CASE UNCHANGED vars
  BY <1>7 DEF vars, TypeOK
<1> QED
  BY <1>1, <1>2, <1>3, <1>4, <1>5, <1>6, <1>7 DEF Next, Locking

(* Every step preserves the rest of the invariant. *)
LEMMA StepInv ==
    ASSUME IInv, [Next]_vars
    PROVE  IInv'
<1> USE DedupAssumption DEF DedupAssumption, NotSeen
<1>0. TypeOK /\ TypeOK'
  BY TypeStep DEF IInv
<1>1. CASE Tick
  <2>1. UNCHANGED << pc, now, seen, queue, due >> /\ time' = time + 1
    BY <1>1 DEF Tick
  <2>2. NowPast' /\ SeenIsDue' /\ DueIsSeen'
    BY <1>0, <2>1 DEF IInv, NowPast, SeenIsDue, DueIsSeen, TypeOK
  <2> QED
    BY <1>0, <2>1, <2>2 DEF IInv, EveryKeyQueued, Tracked, WithinBound, EntryCount, Unlocked
<1>2. CASE Reset
  <2>1. Tracked' = {}
    BY <1>2 DEF Reset, Tracked
  <2>2. NowPast' /\ SeenIsDue' /\ DueIsSeen'
    BY <1>0, <1>2 DEF Reset, IInv, NowPast, SeenIsDue, DueIsSeen, TypeOK
  <2> QED
    BY <1>0, <2>1, <2>2, FS_EmptySet DEF IInv, EveryKeyQueued, WithinBound, EntryCount
<1>3. ASSUME NEW t \in Threads, ReadClock(t) \/ Acquire(t) \/ Purged(t) \/ Scanned(t)
      PROVE  IInv'
  <2>1. UNCHANGED << time, seen, queue, due >>
    BY <1>3 DEF ReadClock, Acquire, Purged, Scanned
  <2>2. NowPast'
    <3>1. CASE ReadClock(t)
      <4>1. \A u \in Threads : now'[u] = now[u] \/ now'[u] = time
        BY <1>0, <3>1 DEF ReadClock, TypeOK
      <4>2. \A u \in Threads : now[u] <= time /\ time <= time /\ time' = time
        BY <1>0, <2>1 DEF IInv, NowPast, TypeOK
      <4> QED
        BY <4>1, <4>2 DEF NowPast
    <3>2. CASE Acquire(t) \/ Purged(t) \/ Scanned(t)
      BY <3>2 DEF IInv, NowPast, Acquire, Purged, Scanned
    <3> QED
      BY <1>3, <3>1, <3>2
  <2>3. Unlocked' => Unlocked
    BY <1>0, <1>3 DEF ReadClock, Acquire, Purged, Scanned, Unlocked, Locked, TypeOK
  <2> QED
    BY <1>0, <2>1, <2>2, <2>3
    DEF IInv, EveryKeyQueued, Tracked, WithinBound, EntryCount, SeenIsDue, DueIsSeen
<1>4. ASSUME NEW t \in Threads, PurgeExpired(t) PROVE IInv'
  <2>1. /\ queue # << >> /\ PopHead /\ Head(queue).expiry <= now[t] /\ ~ Unlocked'
        /\ UNCHANGED << time, now, due >>
    BY <1>4 DEF PurgeExpired, HeadExpired, Unlocked, Locked
  <2>2. /\ EveryKeyQueued' /\ Head(queue) \in Entries
        /\ \A k \in Keys : seen'[k] # seen[k] =>
             k = Head(queue).key /\ seen[k] = Head(queue).expiry /\ seen'[k] = NotSeen
    BY <1>0, <2>1, PopHeadInv DEF IInv
  <2>3. Head(queue).expiry <= time
    <3>1. now[t] <= time /\ now[t] \in Nat /\ time \in Nat
      BY <1>0 DEF IInv, NowPast, TypeOK
    <3>2. Head(queue).expiry \in Nat
      BY <2>2 DEF Entries
    <3> QED
      BY <2>1, <3>1, <3>2
  <2>4. ASSUME NEW k \in Keys
        PROVE  /\ seen'[k] # NotSeen => seen'[k] = due'[k]
               /\ time' < due'[k] => seen'[k] = due'[k]
    <3>1. /\ seen[k] # NotSeen => seen[k] = due[k]
          /\ time < due[k] => seen[k] = due[k]
      BY DEF IInv, SeenIsDue, DueIsSeen
    <3>2. seen[k] \in Nat /\ due[k] \in Nat /\ time \in Nat /\ Head(queue).expiry \in Nat
      BY <1>0, <2>2 DEF TypeOK, Entries
    <3>3. CASE seen'[k] = seen[k]
      BY <2>1, <3>1, <3>3
    <3>4. CASE seen'[k] # seen[k]
      BY <2>1, <2>2, <2>3, <3>1, <3>2, <3>4
    <3> QED
      BY <3>3, <3>4
  <2> QED
    BY <1>0, <2>1, <2>2, <2>4 DEF IInv, NowPast, WithinBound, SeenIsDue, DueIsSeen
<1>5. ASSUME NEW t \in Threads, Suppress(t) PROVE IInv'
  BY <1>0, <1>5 DEF Suppress, IInv, NowPast, EveryKeyQueued, Tracked, WithinBound, EntryCount,
     Unlocked, SeenIsDue, DueIsSeen
<1>6. ASSUME NEW t \in Threads, Emit(t) PROVE IInv'
  <2> DEFINE k == Head(todo[t])
             e == [expiry |-> Expiry(t), key |-> k]
  <2>1. /\ k \in Keys /\ Expiry(t) \in Nat
        /\ seen' = [seen EXCEPT ![k] = Expiry(t)] /\ due' = [due EXCEPT ![k] = Expiry(t)]
        /\ queue' = Append(queue, e) /\ ~ Unlocked' /\ UNCHANGED << time, now >>
    BY <1>0, <1>6, Popped DEF Emit, TypeOK, Unlocked, Locked, Expiry
  <2>2. e \in Entries
    BY <2>1 DEF Entries
  <2>3. /\ \A i \in DOMAIN queue : i \in DOMAIN queue' /\ queue'[i] = queue[i]
        /\ Len(queue) + 1 \in DOMAIN queue' /\ queue'[Len(queue) + 1] = e
    BY <1>0, <2>1, <2>2, Queued DEF TypeOK
  <2>4. SeenIsDue' /\ DueIsSeen'
    BY <1>0, <2>1 DEF IInv, SeenIsDue, DueIsSeen, TypeOK
  <2>5. ASSUME NEW j \in Keys, seen'[j] # NotSeen
        PROVE  \E i \in DOMAIN queue' : queue'[i] = [expiry |-> seen'[j], key |-> j]
    <3>1. CASE j = k
      BY <1>0, <2>1, <2>3, <3>1 DEF TypeOK
    <3>2. CASE j # k
      <4>1. seen'[j] = seen[j] /\ j \in Tracked
        BY <1>0, <2>1, <2>5, <3>2 DEF TypeOK, Tracked
      <4>2. PICK i \in DOMAIN queue : queue[i] = [expiry |-> seen[j], key |-> j]
        BY <4>1 DEF IInv, EveryKeyQueued
      <4> QED
        BY <2>3, <4>1, <4>2
    <3> QED
      BY <3>1, <3>2
  <2>6. EveryKeyQueued'
    BY <2>5 DEF EveryKeyQueued, Tracked
  <2> QED
    BY <1>0, <2>1, <2>4, <2>6 DEF IInv, NowPast, WithinBound
<1>7. ASSUME NEW t \in Threads, Trim(t) PROVE IInv'
  <2>1. /\ queue # << >> /\ PopHead /\ ~ Unlocked' /\ UNCHANGED << time, now >>
        /\ due' = IF HeadIsCurrent THEN [due EXCEPT ![Head(queue).key] = 0] ELSE due
    BY <1>7 DEF Trim, Overfull, Unlocked, Locked
  <2>2. EveryKeyQueued' /\ Head(queue).key \in Keys
    BY <1>0, <2>1, PopHeadInv DEF IInv, Entries
  <2>3. SeenIsDue' /\ DueIsSeen'
    BY <1>0, <2>1, <2>2 DEF IInv, SeenIsDue, DueIsSeen, TypeOK, PopHead, HeadIsCurrent
  <2> QED
    BY <1>0, <2>1, <2>2, <2>3 DEF IInv, NowPast, WithinBound
<1>8. ASSUME NEW t \in Threads, Release(t) PROVE IInv'
  <2>1. UNCHANGED << time, now, seen, queue, due >> /\ ~ Overfull
    BY <1>8 DEF Release
  <2>2. IsFiniteSet(Tracked)
    BY FS_Subset DEF Tracked
  <2>3. EntryCount \in Nat
    BY <2>2, FS_CardinalityType DEF EntryCount
  <2>4. EntryCount <= MaxEntries
    <3>1. CASE queue # << >>
      BY <2>1, <2>3, <3>1 DEF Overfull
    <3>2. CASE queue = << >>
      <4>1. Tracked = {}
        BY <3>2 DEF IInv, EveryKeyQueued
      <4> QED
        BY <4>1, FS_EmptySet DEF EntryCount
    <3> QED
      BY <3>1, <3>2
  <2> QED
    BY <1>0, <2>1, <2>4
    DEF IInv, NowPast, EveryKeyQueued, Tracked, WithinBound, EntryCount, SeenIsDue, DueIsSeen
<1>9. CASE UNCHANGED vars
  BY <1>0, <1>9 DEF vars, IInv, NowPast, EveryKeyQueued, Tracked, WithinBound, EntryCount,
     Unlocked, SeenIsDue, DueIsSeen
<1> QED
  BY <1>1, <1>2, <1>3, <1>4, <1>5, <1>6, <1>7, <1>8, <1>9 DEF Next, Locking

(* The inductive invariant holds in every reachable state. *)
THEOREM Invariant == Spec => []IInv
  BY InitInv, StepInv, PTL DEF Spec

(* The deduplicator's data have their types. *)
THEOREM TypeCorrect == Spec => []TypeOK
  BY Invariant, PTL DEF IInv

(* Whatever the threads' clock readings, every key in _seen is queued for  *)
(* expiry with its own expiry: none is remembered for ever.                *)
THEOREM NothingLeaks == Spec => []EveryKeyQueued
  BY Invariant, PTL DEF IInv

(* Outside filter() at most max_entries identities are remembered.         *)
THEOREM Bounded == Spec => []WithinBound
  BY Invariant, PTL DEF IInv

(* A tag is not reported twice within the window.                          *)
THEOREM NeverEarly == Spec => NoEarlyReport
<1>1. ASSUME IInv, [Next]_vars PROVE [ReportsWhenDue]_vars
  <2> USE DedupAssumption DEF DedupAssumption, NotSeen
  <2> SUFFICES ASSUME NEW t \in Threads, NEW k \in Keys, Next,
                      todo'[t] # todo[t], pc[t] = "scan", due'[k] # due[k]
               PROVE  due[k] <= time
    BY <1>1 DEF ReportsWhenDue
  <2>1. PICK u \in Threads : Emit(u)
    <3>1. ~ Tick /\ ~ Reset
      BY DEF Tick, Reset
    <3>2. ASSUME NEW u \in Threads,
                 ReadClock(u) \/ Acquire(u) \/ PurgeExpired(u) \/ Purged(u) \/ Suppress(u)
                   \/ Scanned(u) \/ Trim(u) \/ Release(u)
          PROVE  FALSE
      BY <3>2 DEF ReadClock, Acquire, PurgeExpired, Purged, Suppress, Scanned, Trim, Release
    <3> QED
      BY <3>1, <3>2 DEF Next, Locking
  <2>2. k = Head(todo[u]) /\ ~ now[u] < seen[k]
    BY <1>1, <2>1 DEF Emit, IInv, TypeOK
  <2>3. /\ now[u] <= time /\ (time < due[k] => seen[k] = due[k])
        /\ {now[u], time, seen[k], due[k]} \subseteq Nat
    BY <1>1 DEF IInv, DueIsSeen, NowPast, TypeOK
  <2> QED
    BY <2>2, <2>3
<1> QED
  BY <1>1, Invariant, PTL DEF Spec, NoEarlyReport

(* A report is dropped only within the window of the last one passed on.   *)
THEOREM NeverLate == Spec => SuppressedForWindow
<1>1. ASSUME IInv, [Next]_vars PROVE [DropsOnlyInWindow]_vars
  <2> USE DedupAssumption DEF DedupAssumption, NotSeen
  <2> SUFFICES ASSUME NEW t \in Threads, Next,
                      pc[t] = "scan", todo'[t] # todo[t], due' = due
               PROVE  now[t] < due[Head(todo[t])]
    BY <1>1 DEF DropsOnlyInWindow
  <2>1. PICK u \in Threads : Emit(u) \/ Suppress(u)
    <3>1. ~ Tick /\ ~ Reset
      BY DEF Tick, Reset
    <3>2. ASSUME NEW u \in Threads,
                 ReadClock(u) \/ Acquire(u) \/ PurgeExpired(u) \/ Purged(u)
                   \/ Scanned(u) \/ Trim(u) \/ Release(u)
          PROVE  FALSE
      BY <1>1, <3>2 DEF ReadClock, Acquire, PurgeExpired, Purged, Scanned, Trim, Release,
         IInv, TypeOK
    <3> QED
      BY <3>1, <3>2 DEF Next, Locking
  <2>2. u = t
    BY <1>1, <2>1 DEF Emit, Suppress, IInv, TypeOK
  <2>3. Head(todo[t]) \in Keys
    BY <1>1, <2>1, <2>2, Popped DEF Emit, Suppress, IInv, TypeOK
  <2>4. CASE Suppress(t)
    <3>1. now[t] < seen[Head(todo[t])] /\ now[t] \in Nat
      BY <1>1, <2>4 DEF Suppress, IInv, TypeOK
    <3>2. seen[Head(todo[t])] # NotSeen => seen[Head(todo[t])] = due[Head(todo[t])]
      BY <1>1, <2>3 DEF IInv, SeenIsDue
    <3> QED
      BY <3>1, <3>2
  <2>5. CASE Emit(t)
    <3>1. due[Head(todo[t])] = Expiry(t) /\ Expiry(t) > now[t]
      BY <1>1, <2>3, <2>5 DEF Emit, Expiry, IInv, TypeOK
    <3> QED
      BY <1>1, <3>1 DEF IInv, TypeOK, Expiry
  <2> QED
    BY <2>1, <2>2, <2>4, <2>5
<1> QED
  BY <1>1, Invariant, PTL DEF Spec, SuppressedForWindow
=============================================================================
