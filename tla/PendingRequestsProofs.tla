----------------------- MODULE PendingRequestsProofs -----------------------
(***************************************************************************)
(* Theorems about PendingRequests, for any number of response names,       *)
(* requests, sessions, any stale limit and any size of the message counter,*)
(* whichever names are also sent for without a callback.                   *)
(***************************************************************************)
EXTENDS PendingRequests, TLAPS

Live == pending \cup expired

(* Every live request has a callback of its own, and it is its request. *)
LiveInv ==
    /\ \A q, r \in Live : q.cb = r.cb => q = r
    /\ pending \cap expired = {}
    /\ \A r \in Live : r.cb <= nreq /\ key[r.cb] = Key(r)

(* The request being written is the one registered under its name, unless  *)
(* it has gone already.                                                    *)
SendingInv ==
    sending # NoRequest =>
        /\ \A r \in pending : r.name = sending.name => r = sending
        /\ sending.cb <= nreq /\ key[sending.cb] = Key(sending)

(* A listed callback has not run, is listed under the name of its request  *)
(* and is alone there.                                                     *)
ListedInv ==
    \A n \in Names : \A c \in deferreds[n] :
        /\ c <= nreq /\ runs[c] = 0 /\ key[c][1] = n
        /\ \A d \in deferreds[n] : c = d

(* A list of its own holds one callback at most, which is not listed; and  *)
(* the request that a response matches is not listed elsewhere either.     *)
HeldInv ==
    ~ held.shared =>
        /\ \A c \in held.cbs :
             c <= nreq /\ (\A n \in Names : c \notin deferreds[n]) /\ \A d \in held.cbs : c = d
        /\ rx.step = "taken" =>
             \A r \in pending : Key(r) = Key(rx) => r.cb \notin deferreds[r.name]

(* Callbacks not yet handed out have not run. *)
FreshInv == \A c \in Callbacks : c > nreq => runs[c] = 0

(* The books of the registry are kept whatever the reader answers. *)
Books ==
    /\ TypeOK
    /\ SoleOutstanding
    /\ ListedIsLive
    /\ LiveInv
    /\ SendingInv
    /\ ListedInv
    /\ HeldInv
    /\ FreshInv

-----------------------------------------------------------------------------
(* RememberedKey: remembering k makes k stale and forgets no key but the   *)
(* evicted one (_remember_stale).                                          *)
LEMMA RememberedKey ==
    ASSUME TypeOK, NEW k \in Keys, stale' = RememberStale(k)
    PROVE  /\ stale' \in Seq(Keys)
           /\ IsStale(k)'
           /\ \A x : IsStale(x) => IsStale(x)' \/ x \in Evicted(k)
<1>1. stale \in Seq(Keys) BY DEF TypeOK
<1>2. CASE IsStale(k)
  BY <1>1, <1>2 DEF RememberStale, IsStale, StaleKeys
<1>3. CASE ~ IsStale(k) /\ Len(stale) < StaleLimit
  <2>1. stale' = Append(stale, k) BY <1>3 DEF RememberStale
  <2>2. /\ Len(stale') = Len(stale) + 1
        /\ stale'[Len(stale) + 1] = k
        /\ \A i \in 1 .. Len(stale) : stale'[i] = stale[i]
    BY <1>1, <2>1
  <2>3. stale' \in Seq(Keys) BY <1>1, <2>1
  <2>. QED BY <1>1, <2>2, <2>3 DEF IsStale, StaleKeys
<1>4. CASE ~ IsStale(k) /\ ~ (Len(stale) < StaleLimit)
  <2>1. stale' = Append(Tail(stale), k) BY <1>4 DEF RememberStale
  <2>2. stale # << >> /\ Len(stale) \in Nat \ {0}
    BY <1>1, <1>4, StaleAssumption
  <2>3. /\ Tail(stale) \in Seq(Keys)
        /\ Len(Tail(stale)) = Len(stale) - 1
        /\ \A i \in 1 .. Len(stale) - 1 : Tail(stale)[i] = stale[i + 1]
    BY <1>1, <2>2
  <2>4. /\ stale' \in Seq(Keys)
        /\ Len(stale') = Len(stale)
        /\ stale'[Len(stale)] = k
        /\ \A i \in 1 .. Len(stale) - 1 : stale'[i] = stale[i + 1]
    BY <2>1, <2>2, <2>3
  <2>5. Evicted(k) = {stale[1]}
    BY <1>1, <1>4, <2>2, StaleAssumption DEF Evicted
  <2>6. ASSUME NEW i \in 1 .. Len(stale)
        PROVE  stale[i] = stale[1] \/ \E j \in 1 .. Len(stale') : stale'[j] = stale[i]
    <3>1. CASE i = 1 BY <3>1
    <3>2. CASE i # 1
      <4>1. i - 1 \in 1 .. Len(stale) - 1 /\ (i - 1) + 1 = i BY <2>2, <2>6, <3>2
      <4>2. stale'[i - 1] = stale[i] BY <2>4, <4>1
      <4>. QED BY <2>2, <2>4, <4>1, <4>2
    <3>. QED BY <3>1, <3>2
  <2>. QED BY <2>2, <2>4, <2>5, <2>6 DEF IsStale, StaleKeys
<1>. QED BY <1>2, <1>3, <1>4

(* ForgottenKey: register() forgets no stale key but the one it reuses. *)
LEMMA ForgottenKey ==
    ASSUME TypeOK, NEW k \in Keys, stale' = ForgetStale(k)
    PROVE  /\ stale' \in Seq(Keys)
           /\ \A x : IsStale(x) /\ x # k => IsStale(x)'
<1>1. stale \in Seq(Keys) BY DEF TypeOK
<1>2. CASE ~ IsStale(k)
  BY <1>1, <1>2 DEF ForgetStale, IsStale, StaleKeys
<1>3. CASE IsStale(k)
  <2> DEFINE i == CHOOSE j \in 1 .. Len(stale) : stale[j] = k
             rest == [j \in 1 .. Len(stale) - 1 |->
                        IF j < i THEN stale[j] ELSE stale[j + 1]]
  <2>1. i \in 1 .. Len(stale) /\ stale[i] = k
    <3>1. \E j \in 1 .. Len(stale) : stale[j] = k BY <1>3 DEF IsStale, StaleKeys
    <3>. QED BY <3>1
  <2>2. stale' = rest BY <1>3 DEF ForgetStale
  <2>3. Len(stale) \in Nat \ {0} BY <1>1, <2>1
  <2> HIDE DEF i
  <2>4. rest \in Seq(Keys) /\ Len(rest) = Len(stale) - 1
    <3>1. Len(stale) - 1 \in Nat BY <2>3
    <3>2. \A j \in 1 .. Len(stale) - 1 : rest[j] \in Keys BY <1>1, <2>1, <2>3
    <3>3. rest \in [1 .. Len(stale) - 1 -> Keys] BY <3>2
    <3>. QED BY <3>1, <3>3
  <2>5. ASSUME NEW j \in 1 .. Len(stale), stale[j] # k
        PROVE  \E m \in 1 .. Len(rest) : rest[m] = stale[j]
    <3>1. j # i BY <2>1, <2>5
    <3>2. CASE j < i
      <4>1. j \in 1 .. Len(stale) - 1 BY <2>1, <2>3, <3>2
      <4>. QED BY <2>4, <3>2, <4>1
    <3>3. CASE j > i
      <4>1. j - 1 \in 1 .. Len(stale) - 1 /\ ~ (j - 1 < i) /\ (j - 1) + 1 = j
        BY <2>1, <2>3, <3>3
      <4>. QED BY <2>4, <4>1
    <3>4. j < i \/ j > i BY <2>1, <2>3, <2>5, <3>1
    <3> HIDE DEF rest
    <3>. QED BY <3>2, <3>3, <3>4
  <2> HIDE DEF rest
  <2>6. ASSUME NEW x, IsStale(x), x # k
        PROVE  IsStale(x)'
    <3>1. PICK j \in 1 .. Len(stale) : stale[j] = x
      BY <2>6 DEF IsStale, StaleKeys
    <3>2. PICK m \in 1 .. Len(rest) : rest[m] = x BY <2>5, <2>6, <3>1
    <3>. QED BY <2>2, <3>2 DEF IsStale, StaleKeys
  <2>. QED BY <2>2, <2>4, <2>6
<1>. QED BY <1>2, <1>3

(* NextIdInIds: the message counter stays within 1 .. MaxId (_next_message_id). *)
LEMMA NextIdInIds == ASSUME TypeOK PROVE NextMessageId \in Ids
BY MaxIdAssumption DEF TypeOK, NextMessageId, Ids

(* RunType: calling callbacks keeps the count of calls a count. *)
LEMMA RunType ==
    ASSUME TypeOK, NEW C PROVE Run(C) \in [Callbacks -> Nat]
BY DEF TypeOK, Run

(* TypeStep: every step keeps every variable in its type. *)
LEMMA TypeStep == TypeOK /\ [Next]_vars => TypeOK'
<1> SUFFICES ASSUME TypeOK, [Next]_vars PROVE TypeOK' OBVIOUS
<1> USE DEF registry, timers, receiver, history
<1>0. Own({}) \in Lists /\ Shared \in Lists BY DEF Own, Shared, Lists
<1>1. ASSUME NEW n \in Names, Register(n) PROVE TypeOK'
  <2> DEFINE r == [name |-> n, id |-> NextMessageId, cb |-> nreq + 1]
  <2>1. nreq + 1 \in Callbacks /\ nreq + 1 \in 0 .. MaxRequests
    BY <1>1, BoundsAssumption DEF Register, TypeOK, Callbacks
  <2>2. r \in Requests /\ Key(r) \in Keys
    BY <2>1, NextIdInIds DEF Requests, Keys, Key
  <2>3. stale' \in Seq(Keys) BY <1>1, <2>2, ForgottenKey DEF Register
  <2>4. NextMessageId \in 0 .. MaxId BY NextIdInIds DEF Ids
  <2>6. deferreds' \in [Names -> SUBSET Callbacks]
    BY <1>1, <2>1 DEF Register, TypeOK
  <2>7. born' \in [Callbacks -> {0} \cup Sessions] /\ key' \in [Callbacks -> Keys \cup {NoKey}]
    BY <1>1, <2>1, <2>2 DEF Register, TypeOK
  <2>8. pending' \subseteq Requests /\ armed' \subseteq Requests /\ sending' \in Requests
    BY <1>1, <2>2 DEF Register, TypeOK
  <2>. QED BY <1>1, <2>1, <2>3, <2>4, <2>6, <2>7, <2>8 DEF Register, TypeOK
<1>2. CASE Transmit
  <2>1. Key(sending) \in Keys
    BY <1>2 DEF Transmit, TypeOK, Requests, Key, Keys
  <2>. QED BY <1>2, <2>1 DEF Transmit, TypeOK
<1>3. ASSUME NEW n \in Untracked, SendUntracked(n) PROVE TypeOK'
  <2>1. << n, NextMessageId >> \in Keys /\ NextMessageId \in 0 .. MaxId
    BY NextIdInIds, NamesAssumption DEF Keys, Ids
  <2>2. asked' \subseteq Keys BY <1>3, <2>1 DEF SendUntracked, TypeOK
  <2>. QED BY <1>3, <2>1, <2>2 DEF SendUntracked, TypeOK
<1>4. CASE SendFails
  <2>1. deferreds' \in [Names -> SUBSET Callbacks]
    BY <1>4 DEF SendFails, TypeOK
  <2>2. held' \in Lists BY <1>0, <1>4 DEF SendFails, Detached, TypeOK
  <2>. QED BY <1>4, <2>1, <2>2 DEF SendFails, TypeOK
<1>5. ASSUME NEW n \in Names, NEW id \in Ids, HandleMessage(n, id) PROVE TypeOK'
  BY <1>5 DEF HandleMessage, TypeOK, Responses
<1>6. ASSUME NEW s \in {"taken", "unmatched", "ran"}, rx # NoResponse
      PROVE  [rx EXCEPT !.step = s] \in Responses
  BY <1>6 DEF TypeOK, Responses
<1>7. rx.step # "idle" => rx # NoResponse /\ rx \in Responses /\ rx.name \in Names
  BY DEF TypeOK, Responses, NoResponse
<1>8. CASE TakeList
  <2>1. rx' \in Responses BY <1>6, <1>7, <1>8 DEF TakeList
  <2>. QED BY <1>0, <1>8, <2>1 DEF TakeList, TypeOK
<1>9. ASSUME NEW C \in SUBSET Callbacks, Unlist(C)
      PROVE  deferreds' \in [Names -> SUBSET Callbacks] /\ held' \in Lists
  <2>1. deferreds' \in [Names -> SUBSET Callbacks] BY <1>9 DEF Unlist, TypeOK
  <2>2. held.cbs \ C \in SUBSET Callbacks BY DEF TypeOK, Lists
  <2>3. Own(held.cbs \ C) \in Lists BY <2>2 DEF Own, Lists
  <2>4. held' = held \/ held' = Own(held.cbs \ C) BY <1>9 DEF Unlist
  <2>5. held' \in Lists BY <2>3, <2>4 DEF TypeOK
  <2>. QED BY <2>1, <2>5
<1>10. CASE PopExact
  <2>1. PICK r \in pending :
          /\ rx.step = "taken"
          /\ pending' = pending \ {r}
          /\ armed' = armed \ {r}
          /\ stale' = RememberStale(Key(r))
          /\ asked' = IF LateAnswers THEN asked ELSE asked \ Evicted(Key(r))
          /\ Unlist({r.cb})
          /\ runs' = Run({r.cb})
          /\ rx' = [rx EXCEPT !.step = "ran"]
          /\ UNCHANGED << last_msg_id, timers, sending, link, nreq, session, history >>
    BY <1>10 DEF PopExact
  <2>2. Key(r) \in Keys /\ r.cb \in Callbacks BY DEF TypeOK, Requests, Key, Keys
  <2>3. stale' \in Seq(Keys) BY <2>1, <2>2, RememberedKey
  <2>4. deferreds' \in [Names -> SUBSET Callbacks] /\ held' \in Lists
    BY <1>9, <2>1, <2>2
  <2>5. runs' \in [Callbacks -> Nat] BY <2>1, RunType
  <2>6. rx' \in Responses BY <1>6, <1>7, <2>1
  <2>7. asked' \subseteq Keys BY <2>1 DEF TypeOK
  <2>. QED BY <2>1, <2>3, <2>4, <2>5, <2>6, <2>7 DEF TypeOK
<1>11. CASE PopNothing
  <2>1. rx' \in Responses BY <1>6, <1>7, <1>11 DEF PopNothing
  <2>. QED BY <1>11, <2>1 DEF PopNothing, TypeOK
<1>12. CASE RunListed
  <2>1. rx' \in Responses BY <1>6, <1>7, <1>12 DEF RunListed
  <2>2. Held \in SUBSET Callbacks BY <1>7, <1>12 DEF Held, RunListed, TypeOK, Lists
  <2>3. deferreds' \in [Names -> SUBSET Callbacks] /\ held' \in Lists
    BY <1>9, <1>12, <2>2 DEF RunListed, TypeOK
  <2>4. runs' \in [Callbacks -> Nat] BY <1>12, RunType DEF RunListed, TypeOK
  <2>. QED BY <1>12, <2>1, <2>3, <2>4 DEF RunListed, TypeOK
<1>13. CASE Finish
  <2>1. deferreds' \in [Names -> SUBSET Callbacks] BY <1>13 DEF Finish, TypeOK
  <2>. QED BY <1>0, <1>13, <2>1 DEF Finish, TypeOK
<1>14. CASE DropMessage BY <1>0, <1>14 DEF DropMessage, TypeOK
<1>15. ASSUME NEW r \in armed, TimerFires(r) PROVE TypeOK'
  BY <1>15 DEF TimerFires, TypeOK
<1>16. ASSUME NEW r \in fired, Expire(r) PROVE TypeOK'
  <2>1. CASE ~ Contains(Key(r)) /\ UNCHANGED << pending, expired, stale, asked >>
    BY <1>16, <2>1 DEF Expire, TypeOK
  <2>2. ASSUME NEW q \in pending,
               pending' = pending \ {q}, expired' = expired \cup {q},
               stale' = RememberStale(Key(q)),
               asked' = IF LateAnswers THEN asked ELSE asked \ Evicted(Key(q))
        PROVE  TypeOK'
    <3>1. Key(q) \in Keys BY DEF TypeOK, Requests, Key, Keys
    <3>2. stale' \in Seq(Keys) BY <2>2, <3>1, RememberedKey
    <3>3. asked' \subseteq Keys BY <2>2 DEF TypeOK
    <3>. QED BY <1>16, <2>2, <3>2, <3>3 DEF Expire, TypeOK
  <2>. QED BY <1>16, <2>1, <2>2 DEF Expire
<1>17. ASSUME NEW r \in expired, OnRequestTimeout(r) PROVE TypeOK'
  <2>1. deferreds' \in [Names -> SUBSET Callbacks]
    BY <1>17 DEF OnRequestTimeout, TypeOK
  <2>2. held' \in Lists BY <1>0, <1>17 DEF OnRequestTimeout, Detached, TypeOK
  <2>. QED BY <1>17, <2>1, <2>2, RunType DEF OnRequestTimeout, TypeOK
<1>18. CASE CloseSocket BY <1>18 DEF CloseSocket, TypeOK
<1>19. CASE CancelAll
  <2>1. << >> \in Seq(Keys) OBVIOUS
  <2>. QED BY <1>19, <2>1 DEF CancelAll, TypeOK
<1>20. CASE ClearDeferreds
  <2>1. rx # NoResponse => deferreds[rx.name] \in SUBSET Callbacks
    BY DEF TypeOK, Responses
  <2>2. held' \in Lists BY <1>20, <2>1 DEF ClearDeferreds, Own, Lists, TypeOK
  <2>. QED BY <1>20, <2>2 DEF ClearDeferreds, TypeOK
<1>21. CASE Reconnect
  <2>1. session + 1 \in Sessions
    BY <1>21, BoundsAssumption DEF Reconnect, TypeOK, Sessions
  <2>. QED BY <1>21, <2>1 DEF Reconnect, TypeOK
<1>22. CASE UNCHANGED vars BY <1>22 DEF vars, TypeOK
<1>. QED
  BY <1>1, <1>2, <1>3, <1>4, <1>5, <1>8, <1>10, <1>11, <1>12, <1>13, <1>14, <1>15,
     <1>16, <1>17, <1>18, <1>19, <1>20, <1>21, <1>22 DEF Next, ProcessDeferreds

(* InitType: the initial state is in the type. *)
LEMMA InitType == Init => TypeOK
<1>1. << >> \in Seq(Keys) /\ 1 \in Sessions BY BoundsAssumption DEF Sessions
<1>. QED
  BY <1>1, MaxIdAssumption, BoundsAssumption DEF Init, TypeOK, Callbacks, Lists, Own

(* TypeCorrect: the type invariant of the request layer holds always. *)
THEOREM TypeCorrect == Spec => []TypeOK
BY InitType, TypeStep, PTL DEF Spec

-----------------------------------------------------------------------------
(* InitBooks: the books are in order initially. *)
LEMMA InitBooks == Init => Books
<1> SUFFICES ASSUME Init PROVE Books OBVIOUS
<1>1. TypeOK BY InitType
<1>2. SoleOutstanding /\ ListedIsLive /\ FreshInv
  BY DEF Init, SoleOutstanding, ListedIsLive, FreshInv
<1>3. LiveInv /\ SendingInv /\ ListedInv
  BY DEF Init, LiveInv, Live, SendingInv, ListedInv
<1>4. HeldInv BY DEF Init, HeldInv, NoResponse, Own
<1>. QED BY <1>1, <1>2, <1>3, <1>4 DEF Books

(* ListedShrink: what stays listed without being run is as it was. *)
LEMMA ListedShrink ==
    ASSUME ListedInv, nreq' = nreq, key' = key,
           \A n \in Names : deferreds'[n] \subseteq deferreds[n],
           \A n \in Names : \A c \in deferreds'[n] : runs'[c] = runs[c]
    PROVE  ListedInv'
BY DEF ListedInv

(* Kept: a step that touches none of the books leaves them in order. *)
LEMMA Kept ==
    ASSUME Books, TypeOK',
           UNCHANGED << pending, deferreds, expired, held, nreq, key, runs >>,
           sending' = NoRequest \/ sending' = sending,
           rx'.step # "taken" \/ rx' = rx,
           link = "cancelled" => link' = link
    PROVE  Books'
<1> USE DEF Books
<1>1. SoleOutstanding' /\ ListedIsLive' /\ FreshInv'
  BY DEF SoleOutstanding, ListedIsLive, FreshInv
<1>2. LiveInv' BY DEF LiveInv, Live
<1>3. SendingInv' BY DEF SendingInv
<1>4. ListedInv' BY DEF ListedInv
<1>5. HeldInv' BY DEF HeldInv
<1>. QED BY <1>1, <1>2, <1>3, <1>4, <1>5

(* RegisterBooks: a new request, with a callback of its own. *)
LEMMA RegisterBooks ==
    ASSUME Books, TypeOK', NEW n \in Names, Register(n)
    PROVE  Books'
<1> DEFINE r == [name |-> n, id |-> NextMessageId, cb |-> nreq + 1]
<1>1. /\ pending' = pending \cup {r} /\ expired' = expired
      /\ deferreds[n] = {} /\ deferreds' = [deferreds EXCEPT ![n] = @ \cup {r.cb}]
      /\ ~ HasResponseType(n) /\ sending' = r
      /\ nreq' = nreq + 1 /\ runs' = runs /\ rx' = rx /\ link' = link /\ held' = held
      /\ key' = [key EXCEPT ![r.cb] = Key(r)]
      /\ Key(r) # Key(rx) /\ r.cb = nreq + 1 /\ r.name = n
  BY DEF Register, Sendable, receiver, timers
<1> USE DEF Books
<1>2. r.cb \in Callbacks /\ nreq \in Nat /\ r \in Requests /\ Key(r) \in Keys
  <2>1. nreq \in Nat /\ nreq + 1 \in Callbacks
    BY BoundsAssumption DEF Register, TypeOK, Callbacks
  <2>. QED BY <1>1, <2>1, NextIdInIds DEF Requests, Keys, Key
<1>3. \A m \in Names : deferreds'[m] = IF m = n THEN {r.cb} ELSE deferreds[m]
  BY <1>1 DEF TypeOK
<1>4. key'[r.cb] = Key(r) /\ \A c \in Callbacks : c # r.cb => key'[c] = key[c]
  BY <1>1, <1>2 DEF TypeOK
<1>5. Key(r)[1] = n BY <1>1 DEF Key
<1> HIDE DEF r
<1>6. \A q \in Live : q.cb \in Callbacks /\ q.cb # r.cb /\ q.cb <= nreq /\ q \in Requests
  BY <1>1, <1>2 DEF LiveInv, TypeOK, Live, Requests, Callbacks
<1>7. SoleOutstanding' BY <1>1 DEF SoleOutstanding, HasResponseType
<1>8. ListedIsLive'
  BY <1>1, <1>3 DEF ListedIsLive
<1>9. LiveInv'
  <2>1. Live' = Live \cup {r} BY <1>1 DEF Live
  <2>2. \A p, q \in Live' : p.cb = q.cb => p = q BY <1>6, <2>1 DEF LiveInv
  <2>3. pending' \cap expired' = {}
    <3>1. r \notin expired BY <1>6 DEF Live
    <3>. QED BY <1>1, <3>1 DEF LiveInv
  <2>4. \A q \in Live' : q.cb <= nreq' /\ key'[q.cb] = Key(q)
    BY <1>1, <1>2, <1>4, <1>6, <2>1 DEF LiveInv, Callbacks
  <2>. QED BY <2>2, <2>3, <2>4 DEF LiveInv
<1>10. SendingInv'
  <2>1. \A q \in pending' : q.name = r.name => q = r BY <1>1 DEF HasResponseType
  <2>2. r.cb <= nreq' BY <1>1, <1>2
  <2>. QED BY <1>1, <1>4, <2>1, <2>2 DEF SendingInv
<1>11. ListedInv'
  <2> SUFFICES ASSUME NEW m \in Names, NEW c \in deferreds'[m]
               PROVE  /\ c <= nreq' /\ runs'[c] = 0 /\ key'[c][1] = m
                      /\ \A d \in deferreds'[m] : c = d
    BY DEF ListedInv
  <2>1. CASE m = n
    <3>1. c = r.cb BY <1>3, <2>1
    <3>2. runs[r.cb] = 0 BY <1>1, <1>2 DEF FreshInv
    <3>3. r.cb <= nreq' BY <1>1, <1>2
    <3>. QED BY <1>1, <1>3, <1>4, <1>5, <2>1, <3>1, <3>2, <3>3
  <2>2. CASE m # n
    <3>1. c \in deferreds[m] /\ c \in Callbacks BY <1>3, <2>2 DEF TypeOK
    <3>2. c <= nreq /\ runs[c] = 0 /\ key[c][1] = m /\ \A d \in deferreds[m] : c = d
      BY <3>1 DEF ListedInv
    <3>3. c # r.cb /\ c <= nreq' BY <1>1, <1>2, <3>1, <3>2 DEF Callbacks
    <3>. QED BY <1>1, <1>3, <1>4, <2>2, <3>1, <3>2, <3>3
  <2>. QED BY <2>1, <2>2
<1>12. HeldInv'
  <2> SUFFICES ASSUME ~ held.shared
               PROVE  /\ \A c \in held.cbs :
                           /\ c <= nreq' /\ (\A m \in Names : c \notin deferreds'[m])
                           /\ \A d \in held.cbs : c = d
                      /\ rx.step = "taken" =>
                           \A q \in pending' : Key(q) = Key(rx) => q.cb \notin deferreds'[q.name]
    BY <1>1 DEF HeldInv
  <2>1. ASSUME NEW c \in held.cbs
        PROVE  /\ c <= nreq' /\ (\A m \in Names : c \notin deferreds'[m])
               /\ \A d \in held.cbs : c = d
    <3>1. c <= nreq /\ (\A m \in Names : c \notin deferreds[m]) /\ \A d \in held.cbs : c = d
      BY DEF HeldInv
    <3>2. c \in Callbacks BY DEF TypeOK, Lists
    <3>3. c # r.cb /\ c <= nreq' BY <1>1, <1>2, <3>1, <3>2 DEF Callbacks
    <3>. QED BY <1>3, <3>1, <3>3
  <2>2. ASSUME rx.step = "taken", NEW q \in pending', Key(q) = Key(rx)
        PROVE  q.cb \notin deferreds'[q.name]
    <3>1. q \in pending /\ q # r BY <1>1, <2>2
    <3>2. q.cb \notin deferreds[q.name] /\ q.name \in Names /\ q.name # n
      BY <1>1, <2>2, <3>1 DEF HeldInv, TypeOK, Requests, HasResponseType
    <3>. QED BY <1>3, <3>2
  <2>. QED BY <2>1, <2>2
<1>13. FreshInv' BY <1>1, <1>2 DEF FreshInv, Callbacks
<1>. QED BY <1>7, <1>8, <1>9, <1>10, <1>11, <1>12, <1>13

(* HeldShrink: the list taken stays as it was, or is given up when empty.  *)
LEMMA HeldShrink ==
    ASSUME TypeOK, HeldInv, nreq' = nreq, pending' \subseteq pending, rx' = rx,
           \A n \in Names : deferreds'[n] \subseteq deferreds[n],
           held' = held \/ (held' = Own({}) /\ deferreds'[rx.name] = {})
    PROVE  HeldInv'
<1>1. CASE held' = held BY <1>1 DEF HeldInv, TypeOK, Requests
<1>2. CASE held' = Own({}) /\ deferreds'[rx.name] = {}
  <2>1. ASSUME NEW r \in pending', Key(r) = Key(rx) PROVE r.cb \notin deferreds'[r.name]
    <3>1. r.name = rx.name BY <2>1 DEF Key
    <3>. QED BY <1>2, <3>1
  <2>2. held'.cbs = {} BY <1>2 DEF Own
  <2>. QED BY <2>1, <2>2 DEF HeldInv
<1>. QED BY <1>1, <1>2

(* DetachedHeld: that is what an entry removed by another thread does.     *)
LEMMA DetachedHeld ==
    ASSUME TypeOK, NEW n \in Names, NEW C, held' = Detached(n, C),
           deferreds' = [deferreds EXCEPT ![n] = C]
    PROVE  held' = held \/ (held' = Own({}) /\ deferreds'[rx.name] = {})
BY DEF Detached, TypeOK

(* SendFailsBooks: undoing a failed write. *)
LEMMA SendFailsBooks ==
    ASSUME Books, TypeOK', SendFails
    PROVE  Books'
<1>1. /\ pending' = { r \in pending : Key(r) # Key(sending) }
      /\ deferreds' = [deferreds EXCEPT ![sending.name] = deferreds[sending.name] \ {sending.cb}]
      /\ held' = Detached(sending.name, deferreds[sending.name] \ {sending.cb})
      /\ sending # NoRequest /\ sending' = NoRequest /\ expired' = expired
      /\ rx' = rx /\ link' = link /\ nreq' = nreq /\ runs' = runs /\ key' = key
  BY DEF SendFails, timers, history
<1> USE DEF Books
<1>2. sending \in Requests /\ sending.name \in Names
  BY <1>1 DEF TypeOK, Requests
<1>3. \A q \in pending : q \in pending' <=> q # sending
  BY <1>1 DEF SendingInv, Key
<1>4. \A m \in Names : deferreds'[m] =
        IF m = sending.name THEN deferreds[m] \ {sending.cb} ELSE deferreds[m]
  BY <1>1, <1>2 DEF TypeOK
<1>5. Live' \subseteq Live BY <1>1 DEF Live
<1>6. FreshInv' BY <1>1 DEF FreshInv
<1>7. SoleOutstanding' BY <1>1 DEF SoleOutstanding
<1>8. ListedIsLive'
  <2> SUFFICES ASSUME link # "cancelled", NEW n \in Names, NEW c \in deferreds'[n]
               PROVE  \E q \in pending' \cup expired' : q.name = n /\ q.cb = c
    BY <1>1 DEF ListedIsLive
  <2>1. c \in deferreds[n] /\ ~ (n = sending.name /\ c = sending.cb)
    BY <1>4
  <2>2. PICK q \in pending \cup expired : q.name = n /\ q.cb = c
    BY <2>1 DEF ListedIsLive
  <2>. QED BY <1>1, <1>3, <2>1, <2>2
<1>9. LiveInv' BY <1>1, <1>5 DEF LiveInv
<1>10. SendingInv' BY <1>1 DEF SendingInv
<1>11. ListedInv' BY <1>1, <1>4, ListedShrink
<1>12. HeldInv'
  <2>1. held' = held \/ (held' = Own({}) /\ deferreds'[rx.name] = {})
    BY <1>1, <1>2, DetachedHeld
  <2>. QED BY <1>1, <1>4, <2>1, HeldShrink
<1>. QED BY <1>6, <1>7, <1>8, <1>9, <1>10, <1>11, <1>12

(* CallBooks: calling the callback of a live request, which is not listed  *)
(* from then on, and removing the request.                                 *)
LEMMA CallBooks ==
    ASSUME Books, TypeOK', NEW r \in Live,
           Live' = Live \ {r}, pending' \subseteq pending, expired' \subseteq expired,
           \A n \in Names : deferreds'[n] \subseteq deferreds[n] /\ r.cb \notin deferreds'[n],
           runs' = Run({r.cb}), UNCHANGED << nreq, key, sending, link >>
    PROVE  SoleOutstanding' /\ ListedIsLive' /\ LiveInv' /\ SendingInv' /\ ListedInv' /\ FreshInv'
<1> USE DEF Books
<1>1. r.cb \in Callbacks /\ r.cb <= nreq
  BY DEF TypeOK, Live, Requests, LiveInv
<1>2. \A c \in Callbacks : c # r.cb => runs'[c] = runs[c] BY DEF Run
<1>3. SoleOutstanding' BY DEF SoleOutstanding
<1>4. ListedIsLive'
  <2> SUFFICES ASSUME link # "cancelled", NEW n \in Names, NEW c \in deferreds'[n]
               PROVE  \E q \in Live' : q.name = n /\ q.cb = c
    BY DEF ListedIsLive, Live
  <2>1. c \in deferreds[n] /\ c # r.cb OBVIOUS
  <2>2. PICK q \in Live : q.name = n /\ q.cb = c BY <2>1 DEF ListedIsLive, Live
  <2>. QED BY <2>1, <2>2
<1>5. LiveInv' BY DEF LiveInv
<1>6. SendingInv' BY DEF SendingInv
<1>7. ListedInv'
  <2>1. ASSUME NEW n \in Names, NEW c \in deferreds'[n] PROVE runs'[c] = runs[c]
    <3>1. c \in Callbacks /\ c # r.cb BY <2>1 DEF TypeOK
    <3>. QED BY <1>2, <3>1
  <2>. QED BY <2>1, ListedShrink
<1>8. FreshInv'
  <2>1. \A c \in Callbacks : c > nreq => c # r.cb
    BY <1>1 DEF TypeOK, Callbacks
  <2>. QED BY <1>2, <2>1 DEF FreshInv
<1>. QED BY <1>3, <1>4, <1>5, <1>6, <1>7, <1>8

(* PopExactBooks: an exact match runs its own callback. *)
LEMMA PopExactBooks ==
    ASSUME Books, TypeOK', PopExact
    PROVE  Books'
<1>1. PICK r \in pending :
        /\ rx.step = "taken" /\ Key(r) = Key(rx)
        /\ pending' = pending \ {r}
        /\ Unlist({r.cb})
        /\ runs' = Run({r.cb})
        /\ rx' = [rx EXCEPT !.step = "ran"]
        /\ expired' = expired
        /\ UNCHANGED << nreq, key, sending, link >>
  BY DEF PopExact, timers, history
<1> USE DEF Books
<1>2. Live' = Live \ {r} /\ r \in Live BY <1>1 DEF Live, LiveInv
<1>3. r.name = rx.name /\ r.name \in Names /\ key[r.cb][1] = r.name
  BY <1>1, <1>2 DEF Key, TypeOK, Requests, LiveInv
<1>4. \A n \in Names : deferreds'[n] \subseteq deferreds[n] BY <1>1 DEF Unlist, TypeOK
<1>5. r.cb \notin deferreds'[r.name]
  <2>1. CASE held.shared BY <1>1, <1>3, <2>1 DEF Unlist, TypeOK
  <2>2. CASE ~ held.shared BY <1>1, <2>2 DEF Unlist, HeldInv
  <2>. QED BY <2>1, <2>2
<1>6. \A n \in Names : r.cb \notin deferreds'[n]
  <2> SUFFICES ASSUME NEW n \in Names, r.cb \in deferreds'[n] PROVE FALSE OBVIOUS
  <2>1. key[r.cb][1] = n BY <1>4 DEF ListedInv
  <2>. QED BY <1>3, <1>5, <2>1
<1>7. SoleOutstanding' /\ ListedIsLive' /\ LiveInv' /\ SendingInv' /\ ListedInv' /\ FreshInv'
  <2>1. pending' \subseteq pending /\ expired' \subseteq expired BY <1>1
  <2>. QED BY <1>1, <1>2, <1>4, <1>6, <2>1, CallBooks
<1>8. HeldInv'
  <2>1. rx'.step = "ran" BY <1>1 DEF TypeOK, Responses, NoResponse
  <2>2. CASE held.shared
    <3>1. held' = held BY <1>1, <2>2 DEF Unlist
    <3>. QED BY <2>2, <3>1 DEF HeldInv
  <2>3. CASE ~ held.shared
    <3>1. held'.cbs = held.cbs \ {r.cb} /\ deferreds' = deferreds
      BY <1>1, <2>3 DEF Unlist, Own
    <3>. QED BY <1>1, <2>1, <2>3, <3>1 DEF HeldInv
  <2>. QED BY <2>2, <2>3
<1>. QED BY <1>7, <1>8

(* TimeoutBooks: a timer thread unlists and calls its own callback. *)
LEMMA TimeoutBooks ==
    ASSUME Books, TypeOK', NEW r \in expired, OnRequestTimeout(r)
    PROVE  Books'
<1>1. /\ expired' = expired \ {r}
      /\ deferreds' = [deferreds EXCEPT ![r.name] = deferreds[r.name] \ {r.cb}]
      /\ held' = Detached(r.name, deferreds[r.name] \ {r.cb})
      /\ runs' = Run({r.cb})
      /\ UNCHANGED << pending, rx >> /\ UNCHANGED << nreq, key, sending, link >>
  BY DEF OnRequestTimeout, registry, history
<1> USE DEF Books
<1>2. Live' = Live \ {r} /\ r \in Live BY <1>1 DEF Live, LiveInv
<1>3. r.name \in Names /\ key[r.cb][1] = r.name
  BY <1>2 DEF Key, TypeOK, Requests, LiveInv
<1>4. \A m \in Names : deferreds'[m] =
        IF m = r.name THEN deferreds[m] \ {r.cb} ELSE deferreds[m]
  BY <1>1, <1>3 DEF TypeOK
<1>5. \A n \in Names : deferreds'[n] \subseteq deferreds[n] /\ r.cb \notin deferreds'[n]
  <2>1. \A n \in Names : r.cb \in deferreds[n] => n = r.name BY <1>3 DEF ListedInv
  <2>. QED BY <1>4, <2>1
<1>6. pending' \subseteq pending /\ expired' \subseteq expired BY <1>1
<1>7. SoleOutstanding' /\ ListedIsLive' /\ LiveInv' /\ SendingInv' /\ ListedInv' /\ FreshInv'
  BY <1>1, <1>2, <1>5, <1>6, CallBooks
<1>8. HeldInv'
  <2>1. held' = held \/ (held' = Own({}) /\ deferreds'[rx.name] = {})
    BY <1>1, <1>3, DetachedHeld
  <2>. QED BY <1>1, <1>5, <2>1, HeldShrink
<1>. QED BY <1>7, <1>8

(* HeldFacts: the list that processDeferreds works on, shared or not, has  *)
(* one callback at most, which has been handed out.                        *)
LEMMA HeldFacts ==
    ASSUME Books, rx # NoResponse
    PROVE  /\ rx.name \in Names
           /\ \A c \in Held : c \in Callbacks /\ c <= nreq /\ \A d \in Held : c = d
<1> USE DEF Books
<1>1. rx.name \in Names BY DEF TypeOK, Responses
<1>2. CASE held.shared BY <1>1, <1>2 DEF Held, ListedInv, TypeOK
<1>3. CASE ~ held.shared BY <1>1, <1>3 DEF Held, HeldInv, TypeOK, Lists
<1>. QED BY <1>1, <1>2, <1>3

(* Emptied: running everything in the list unlists exactly that. *)
LEMMA Emptied ==
    ASSUME Books, rx # NoResponse, Unlist(Held)
    PROVE  /\ \A n \in Names : deferreds'[n] \subseteq deferreds[n] /\ deferreds'[n] \cap Held = {}
           /\ held.shared => deferreds' = [deferreds EXCEPT ![rx.name] = {}] /\ held' = held
           /\ ~ held.shared => deferreds' = deferreds /\ held' = Own({})
<1> USE DEF Books
<1>1. rx.name \in Names BY HeldFacts
<1>2. CASE held.shared
  <2>1. Held = deferreds[rx.name] BY <1>2 DEF Held
  <2>2. deferreds' = [deferreds EXCEPT ![rx.name] = {}] /\ held' = held
    BY <1>2, <2>1 DEF Unlist
  <2>3. \A n \in Names : deferreds'[n] = IF n = rx.name THEN {} ELSE deferreds[n]
    BY <2>2 DEF TypeOK
  <2>4. \A n \in Names : n # rx.name => deferreds[n] \cap deferreds[rx.name] = {}
    BY <1>1 DEF ListedInv
  <2>. QED BY <1>2, <2>1, <2>2, <2>3, <2>4
<1>3. CASE ~ held.shared
  <2>1. Held = held.cbs BY <1>3 DEF Held
  <2>2. deferreds' = deferreds /\ held' = Own({}) BY <1>3, <2>1 DEF Unlist
  <2>. QED BY <1>3, <2>1, <2>2 DEF HeldInv
<1>. QED BY <1>2, <1>3

(* RunListedBooks: an unmatched response runs what is listed, or nothing. *)
LEMMA RunListedBooks ==
    ASSUME Books, TypeOK', RunListed
    PROVE  Books'
<1>1. /\ rx.step = "unmatched" /\ rx' = [rx EXCEPT !.step = "ran"]
      /\ UNCHANGED << pending, expired >> /\ UNCHANGED << nreq, key, sending, link >>
  BY DEF RunListed, registry, timers, history
<1> USE DEF Books
<1>2. rx # NoResponse /\ rx'.step = "ran"
  BY <1>1 DEF TypeOK, Responses, NoResponse
<1>3. CASE IsStale(Key(rx)) BY <1>1, <1>2, <1>3, Kept DEF RunListed
<1>4. CASE ~ IsStale(Key(rx))
  <2>1. Unlist(Held) /\ runs' = Run(Held) BY <1>4 DEF RunListed
  <2>2. /\ \A n \in Names : deferreds'[n] \subseteq deferreds[n] /\ deferreds'[n] \cap Held = {}
        /\ held.shared => held' = held
        /\ ~ held.shared => held' = Own({})
    BY <1>2, <2>1, Emptied
  <2>3. \A c \in Callbacks : c \notin Held => runs'[c] = runs[c] BY <2>1 DEF Run
  <2>4. SoleOutstanding' BY <1>1 DEF SoleOutstanding
  <2>5. ListedIsLive' BY <1>1, <2>2 DEF ListedIsLive
  <2>6. LiveInv' BY <1>1 DEF LiveInv, Live
  <2>7. SendingInv' BY <1>1 DEF SendingInv
  <2>8. ListedInv'
    <3>1. ASSUME NEW n \in Names, NEW c \in deferreds'[n] PROVE runs'[c] = runs[c]
      <4>1. c \in Callbacks /\ c \notin Held BY <2>2, <3>1 DEF TypeOK
      <4>. QED BY <2>3, <4>1
    <3>. QED BY <1>1, <2>2, <3>1, ListedShrink
  <2>9. HeldInv' BY <1>2, <2>2 DEF HeldInv, Own
  <2>10. FreshInv'
    <3>1. \A c \in Callbacks : c > nreq => c \notin Held
      BY <1>2, HeldFacts DEF TypeOK, Callbacks
    <3>. QED BY <1>1, <2>3, <3>1 DEF FreshInv
  <2>. QED BY <2>4, <2>5, <2>6, <2>7, <2>8, <2>9, <2>10
<1>. QED BY <1>3, <1>4

(* FinishBooks: the entry of an empty list goes. *)
LEMMA FinishBooks ==
    ASSUME Books, TypeOK', Finish
    PROVE  Books'
<1>1. /\ deferreds' = [deferreds EXCEPT ![rx.name] = IF Held = {} THEN {} ELSE @]
      /\ rx' = NoResponse /\ held' = Own({})
      /\ UNCHANGED << pending, expired, runs >> /\ UNCHANGED << nreq, key, sending, link >>
  BY DEF Finish, registry, timers, history
<1> USE DEF Books
<1>2. \A n \in Names : deferreds'[n] \subseteq deferreds[n] BY <1>1 DEF TypeOK
<1>3. SoleOutstanding' /\ FreshInv' BY <1>1 DEF SoleOutstanding, FreshInv
<1>4. ListedIsLive' BY <1>1, <1>2 DEF ListedIsLive
<1>5. LiveInv' /\ SendingInv' BY <1>1 DEF LiveInv, Live, SendingInv
<1>6. ListedInv' BY <1>1, <1>2, ListedShrink
<1>7. HeldInv' BY <1>1 DEF HeldInv, Own, NoResponse
<1>. QED BY <1>3, <1>4, <1>5, <1>6, <1>7

(* ExpireBooks: a request goes from pending to expired. *)
LEMMA ExpireBooks ==
    ASSUME Books, TypeOK', NEW r \in fired, Expire(r)
    PROVE  Books'
<1>1. UNCHANGED << deferreds, sending, rx, held, link, nreq, key, runs >>
  BY DEF Expire, receiver, history
<1>2. CASE UNCHANGED << pending, expired, stale, asked >> BY <1>1, <1>2, Kept
<1>3. ASSUME NEW q \in pending, pending' = pending \ {q}, expired' = expired \cup {q}
      PROVE  Books'
  <2> USE DEF Books
  <2>1. Live' = Live BY <1>3 DEF Live
  <2>2. SoleOutstanding' /\ FreshInv' BY <1>1, <1>3 DEF SoleOutstanding, FreshInv
  <2>3. ListedIsLive' BY <1>1, <2>1 DEF ListedIsLive, Live
  <2>4. LiveInv' BY <1>1, <1>3, <2>1 DEF LiveInv
  <2>5. SendingInv' BY <1>1, <1>3 DEF SendingInv
  <2>6. ListedInv' BY <1>1 DEF ListedInv
  <2>7. HeldInv' BY <1>1, <1>3 DEF HeldInv
  <2>. QED BY <2>2, <2>3, <2>4, <2>5, <2>6, <2>7
<1>. QED BY <1>2, <1>3 DEF Expire

(* CancelBooks, ClearBooks: the two lines of _reset_protocol_session.      *)
LEMMA CancelBooks ==
    ASSUME Books, TypeOK', CancelAll
    PROVE  Books'
<1>1. /\ pending' = {} /\ link' = "cancelled"
      /\ UNCHANGED << deferreds, expired, sending, rx, held, nreq, key, runs >>
  BY DEF CancelAll, timers, receiver, history
<1> USE DEF Books
<1>2. SoleOutstanding' /\ FreshInv' /\ ListedIsLive'
  BY <1>1 DEF SoleOutstanding, FreshInv, ListedIsLive
<1>3. LiveInv' BY <1>1 DEF LiveInv, Live
<1>4. SendingInv' /\ ListedInv' BY <1>1 DEF SendingInv, ListedInv
<1>5. HeldInv' BY <1>1 DEF HeldInv
<1>. QED BY <1>2, <1>3, <1>4, <1>5

LEMMA ClearBooks ==
    ASSUME Books, TypeOK', ClearDeferreds
    PROVE  Books'
<1>1. /\ \A n \in Names : deferreds'[n] = {}
      /\ held' = IF held.shared /\ rx # NoResponse THEN Own(deferreds[rx.name]) ELSE held
      /\ UNCHANGED << pending, expired, sending, rx, nreq, key, runs >>
  BY DEF ClearDeferreds, registry, timers, history
<1> USE DEF Books
<1>2. SoleOutstanding' /\ FreshInv' /\ ListedIsLive'
  BY <1>1 DEF SoleOutstanding, FreshInv, ListedIsLive
<1>3. LiveInv' BY <1>1 DEF LiveInv, Live
<1>4. SendingInv' /\ ListedInv' BY <1>1 DEF SendingInv, ListedInv
<1>5. \A q \in pending' : q.name \in Names BY DEF TypeOK, Requests
<1>6. HeldInv'
  <2>1. CASE held.shared /\ rx # NoResponse
    <3>1. rx.name \in Names BY <2>1 DEF TypeOK, Responses
    <3>2. held'.cbs = deferreds[rx.name] BY <1>1, <2>1 DEF Own
    <3>. QED BY <1>1, <1>5, <3>1, <3>2 DEF HeldInv, ListedInv
  <2>2. CASE ~ (held.shared /\ rx # NoResponse)
    BY <1>1, <1>5, <2>2 DEF HeldInv
  <2>. QED BY <2>1, <2>2
<1>. QED BY <1>2, <1>3, <1>4, <1>6

(* BooksStep: every step keeps the books, whatever the reader answers.     *)
LEMMA BooksStep == Books /\ [Next]_vars => Books'
<1> SUFFICES ASSUME Books, [Next]_vars PROVE Books' OBVIOUS
<1> USE DEF registry, timers, receiver, history
<1>0. TypeOK' BY TypeStep DEF Books
<1>1. ASSUME NEW n \in Names, Register(n) PROVE Books' BY <1>0, <1>1, RegisterBooks
<1>2. CASE Transmit BY <1>0, <1>2, Kept DEF Transmit
<1>3. ASSUME NEW n \in Untracked, SendUntracked(n) PROVE Books'
  BY <1>0, <1>3, Kept DEF SendUntracked
<1>4. CASE SendFails BY <1>0, <1>4, SendFailsBooks
<1>5. ASSUME NEW n \in Names, NEW id \in Ids, HandleMessage(n, id) PROVE Books'
  <2>1. rx'.step = "guarded" BY <1>5 DEF HandleMessage
  <2>. QED BY <1>0, <1>5, <2>1, Kept DEF HandleMessage
<1>6. CASE TakeList
  <2>1. /\ UNCHANGED << pending, deferreds, expired, sending, link, nreq, key, runs >>
        /\ held' = Shared \/ (deferreds[rx.name] = {} /\ held' = Own({}))
        /\ rx'.name = rx.name
    BY <1>6 DEF TakeList, Books, TypeOK, Responses, NoResponse
  <2>2. HeldInv'
    <3>1. held'.cbs = {} BY <2>1 DEF Own, Shared
    <3>2. ASSUME ~ held'.shared, NEW q \in pending', Key(q) = Key(rx')
          PROVE  q.cb \notin deferreds'[q.name]
      <4>1. q.name = rx.name BY <2>1, <3>2 DEF Key
      <4>2. deferreds[rx.name] = {} BY <2>1, <3>2 DEF Shared
      <4>. QED BY <2>1, <4>1, <4>2
    <3>. QED BY <3>1, <3>2 DEF HeldInv, Key
  <2>3. SoleOutstanding' /\ ListedIsLive' /\ FreshInv' /\ ListedInv'
    BY <2>1 DEF Books, SoleOutstanding, ListedIsLive, FreshInv, ListedInv
  <2>4. LiveInv' /\ SendingInv' BY <2>1 DEF Books, LiveInv, Live, SendingInv
  <2>. QED BY <1>0, <2>2, <2>3, <2>4 DEF Books
<1>7. CASE PopExact BY <1>0, <1>7, PopExactBooks
<1>8. CASE PopNothing
  <2>1. rx'.step = "unmatched"
    BY <1>8 DEF PopNothing, Books, TypeOK, Responses, NoResponse
  <2>. QED BY <1>0, <1>8, <2>1, Kept DEF PopNothing
<1>9. CASE RunListed BY <1>0, <1>9, RunListedBooks
<1>10. CASE Finish BY <1>0, <1>10, FinishBooks
<1>11. CASE DropMessage
  <2>1. /\ UNCHANGED << pending, deferreds, expired, sending, link, nreq, key, runs >>
        /\ held' = Own({}) /\ rx' = NoResponse
    BY <1>11 DEF DropMessage
  <2>2. HeldInv' BY <2>1 DEF HeldInv, Own, NoResponse
  <2>3. SoleOutstanding' /\ ListedIsLive' /\ FreshInv' /\ ListedInv'
    BY <2>1 DEF Books, SoleOutstanding, ListedIsLive, FreshInv, ListedInv
  <2>4. LiveInv' /\ SendingInv' BY <2>1 DEF Books, LiveInv, Live, SendingInv
  <2>. QED BY <1>0, <2>2, <2>3, <2>4 DEF Books
<1>12. ASSUME NEW r \in armed, TimerFires(r) PROVE Books'
  BY <1>0, <1>12, Kept DEF TimerFires
<1>13. ASSUME NEW r \in fired, Expire(r) PROVE Books' BY <1>0, <1>13, ExpireBooks
<1>14. ASSUME NEW r \in expired, OnRequestTimeout(r) PROVE Books'
  BY <1>0, <1>14, TimeoutBooks
<1>15. CASE CloseSocket BY <1>0, <1>15, Kept DEF CloseSocket
<1>16. CASE CancelAll BY <1>0, <1>16, CancelBooks
<1>17. CASE ClearDeferreds BY <1>0, <1>17, ClearBooks
<1>18. CASE Reconnect BY <1>0, <1>18, Kept DEF Reconnect
<1>19. CASE UNCHANGED vars BY <1>0, <1>19, Kept DEF vars
<1>. QED
  BY <1>1, <1>2, <1>3, <1>4, <1>5, <1>6, <1>7, <1>8, <1>9, <1>10, <1>11, <1>12, <1>13,
     <1>14, <1>15, <1>16, <1>17, <1>18, <1>19 DEF Next, ProcessDeferreds

(* BooksKept: the books are in order in every reachable state. *)
THEOREM BooksKept == Spec => []Books
BY InitBooks, BooksStep, PTL DEF Spec

(* NothingOrphaned: no callback stays listed without a request behind it,  *)
(* and a response name has at most one pending request, with any reader.   *)
THEOREM NothingOrphaned == Spec => []ListedIsLive /\ []SoleOutstanding
<1>1. Books => ListedIsLive /\ SoleOutstanding BY DEF Books
<1>. QED BY <1>1, BooksKept, PTL

-----------------------------------------------------------------------------
(* The stale memory holds a key once, and no key of a pending request. *)
Distinct == \A i, j \in 1 .. Len(stale) : stale[i] = stale[j] => i = j
MemoryInv == Distinct /\ PendingAnswerable

(* RememberedOnly: remembering k keeps the memory without repetition and   *)
(* adds nothing else.                                                      *)
LEMMA RememberedOnly ==
    ASSUME TypeOK, Distinct, NEW k \in Keys, stale' = RememberStale(k)
    PROVE  Distinct' /\ \A x : IsStale(x)' => IsStale(x) \/ x = k
<1>1. stale \in Seq(Keys) BY DEF TypeOK
<1>2. CASE IsStale(k) BY <1>2 DEF RememberStale, Distinct, IsStale, StaleKeys
<1>3. CASE ~ IsStale(k) /\ Len(stale) < StaleLimit
  <2>1. stale' = Append(stale, k) BY <1>3 DEF RememberStale
  <2>2. /\ Len(stale') = Len(stale) + 1
        /\ stale'[Len(stale) + 1] = k
        /\ \A i \in 1 .. Len(stale) : stale'[i] = stale[i]
    BY <1>1, <2>1
  <2>3. \A i \in 1 .. Len(stale) : stale[i] # k BY <1>3 DEF IsStale, StaleKeys
  <2>4. Len(stale) \in Nat BY <1>1
  <2>. QED BY <2>2, <2>3, <2>4 DEF Distinct, IsStale, StaleKeys
<1>4. CASE ~ IsStale(k) /\ ~ (Len(stale) < StaleLimit)
  <2>1. stale' = Append(Tail(stale), k) BY <1>4 DEF RememberStale
  <2>2. stale # << >> /\ Len(stale) \in Nat \ {0}
    BY <1>1, <1>4, StaleAssumption
  <2>3. /\ Tail(stale) \in Seq(Keys)
        /\ Len(Tail(stale)) = Len(stale) - 1
        /\ \A i \in 1 .. Len(stale) - 1 : Tail(stale)[i] = stale[i + 1]
    BY <1>1, <2>2
  <2>4. /\ Len(stale') = Len(stale)
        /\ stale'[Len(stale)] = k
        /\ \A i \in 1 .. Len(stale) - 1 : stale'[i] = stale[i + 1]
    BY <2>1, <2>2, <2>3
  <2>5. \A i \in 1 .. Len(stale) : stale[i] # k BY <1>4 DEF IsStale, StaleKeys
  <2>6. \A i \in 1 .. Len(stale) : i = Len(stale) \/ (i \in 1 .. Len(stale) - 1 /\ i + 1 \in 1 .. Len(stale))
    BY <2>2
  <2>7. Distinct'
    <3> SUFFICES ASSUME NEW i \in 1 .. Len(stale), NEW j \in 1 .. Len(stale),
                        stale'[i] = stale'[j]
                 PROVE  i = j
      BY <2>4 DEF Distinct
    <3>1. CASE i = Len(stale) BY <2>4, <2>5, <2>6, <3>1
    <3>2. CASE j = Len(stale) BY <2>4, <2>5, <2>6, <3>2
    <3>3. CASE i # Len(stale) /\ j # Len(stale)
      <4>1. stale[i + 1] = stale[j + 1] BY <2>4, <2>6, <3>3
      <4>2. i + 1 = j + 1 BY <2>6, <3>3, <4>1 DEF Distinct
      <4>. QED BY <4>2
    <3>. QED BY <3>1, <3>2, <3>3
  <2>8. \A x : IsStale(x)' => IsStale(x) \/ x = k
    <3> SUFFICES ASSUME NEW i \in 1 .. Len(stale) PROVE IsStale(stale'[i]) \/ stale'[i] = k
      BY <2>4 DEF IsStale, StaleKeys
    <3>. QED BY <2>4, <2>6 DEF IsStale, StaleKeys
  <2>. QED BY <2>7, <2>8
<1>. QED BY <1>2, <1>3, <1>4

(* ForgottenOnly: register() forgets the key it reuses, and keeps the rest *)
(* without repetition.                                                     *)
LEMMA ForgottenOnly ==
    ASSUME TypeOK, Distinct, NEW k \in Keys, stale' = ForgetStale(k)
    PROVE  Distinct' /\ ~ IsStale(k)' /\ \A x : IsStale(x)' => IsStale(x)
<1>1. stale \in Seq(Keys) BY DEF TypeOK
<1>2. CASE ~ IsStale(k) BY <1>2 DEF ForgetStale, Distinct, IsStale, StaleKeys
<1>3. CASE IsStale(k)
  <2> DEFINE i == CHOOSE j \in 1 .. Len(stale) : stale[j] = k
             rest == [j \in 1 .. Len(stale) - 1 |->
                        IF j < i THEN stale[j] ELSE stale[j + 1]]
             old(j) == IF j < i THEN j ELSE j + 1
  <2>1. i \in 1 .. Len(stale) /\ stale[i] = k
    <3>1. \E j \in 1 .. Len(stale) : stale[j] = k BY <1>3 DEF IsStale, StaleKeys
    <3>. QED BY <3>1
  <2>2. stale' = rest BY <1>3 DEF ForgetStale
  <2>3. Len(stale) \in Nat \ {0} BY <1>1, <2>1
  <2> HIDE DEF i
  <2>4. rest \in Seq(Keys) /\ Len(rest) = Len(stale) - 1
    <3>1. Len(stale) - 1 \in Nat BY <2>3
    <3>2. \A j \in 1 .. Len(stale) - 1 : rest[j] \in Keys BY <1>1, <2>1, <2>3
    <3>3. rest \in [1 .. Len(stale) - 1 -> Keys] BY <3>2
    <3>. QED BY <3>1, <3>3
  <2>5. \A j \in 1 .. Len(rest) :
          old(j) \in 1 .. Len(stale) /\ old(j) # i /\ rest[j] = stale[old(j)]
    <3> SUFFICES ASSUME NEW j \in 1 .. Len(rest)
                 PROVE  old(j) \in 1 .. Len(stale) /\ old(j) # i /\ rest[j] = stale[old(j)]
      OBVIOUS
    <3>1. j \in 1 .. Len(stale) - 1 /\ j \in Nat BY <2>3, <2>4
    <3>2. CASE j < i
      <4>1. old(j) = j /\ rest[j] = stale[j] BY <3>1, <3>2
      <4>2. j \in 1 .. Len(stale) /\ j # i BY <2>1, <2>3, <3>1, <3>2
      <4>. QED BY <4>1, <4>2
    <3>3. CASE ~ (j < i)
      <4>1. old(j) = j + 1 /\ rest[j] = stale[j + 1] BY <3>1, <3>3
      <4>2. j + 1 \in 1 .. Len(stale) /\ j + 1 # i BY <2>1, <2>3, <3>1, <3>3
      <4>. QED BY <4>1, <4>2
    <3>. QED BY <3>2, <3>3
  <2>6. \A j, m \in 1 .. Len(rest) : old(j) = old(m) => j = m
    <3> SUFFICES ASSUME NEW j \in 1 .. Len(rest), NEW m \in 1 .. Len(rest), old(j) = old(m)
                 PROVE  j = m
      OBVIOUS
    <3>1. j \in Nat /\ m \in Nat /\ i \in Nat BY <2>1, <2>3, <2>4
    <3>2. (j < i /\ old(j) = j) \/ (~ (j < i) /\ old(j) = j + 1) OBVIOUS
    <3>3. (m < i /\ old(m) = m) \/ (~ (m < i) /\ old(m) = m + 1) OBVIOUS
    <3> HIDE DEF old, rest
    <3>. QED BY <3>1, <3>2, <3>3
  <2> HIDE DEF rest, old
  <2>7. \A j, m \in 1 .. Len(rest) : rest[j] = rest[m] => j = m
    BY <2>5, <2>6 DEF Distinct
  <2>8. \A j \in 1 .. Len(rest) : rest[j] # k BY <2>1, <2>5 DEF Distinct
  <2>9. \A j \in 1 .. Len(rest) : IsStale(rest[j]) BY <2>5 DEF IsStale, StaleKeys
  <2>. QED BY <2>2, <2>7, <2>8, <2>9 DEF Distinct, IsStale, StaleKeys
<1>. QED BY <1>2, <1>3

(* PopMemory: popping a pending request and remembering its key. *)
LEMMA PopMemory ==
    ASSUME Books, MemoryInv, NEW r \in pending,
           pending' = pending \ {r}, stale' = RememberStale(Key(r))
    PROVE  MemoryInv'
<1>1. Key(r) \in Keys BY DEF Books, TypeOK, Requests, Key, Keys
<1>2. Distinct' /\ \A x : IsStale(x)' => IsStale(x) \/ x = Key(r)
  BY <1>1, RememberedOnly DEF Books, MemoryInv
<1>3. ASSUME NEW q \in pending' PROVE ~ IsStale(Key(q))'
  <2>1. q \in pending /\ q # r OBVIOUS
  <2>2. Key(q) # Key(r) BY <2>1 DEF Books, SoleOutstanding, Key
  <2>3. ~ IsStale(Key(q)) BY <2>1 DEF MemoryInv, PendingAnswerable
  <2>. QED BY <1>2, <2>2, <2>3
<1>. QED BY <1>2, <1>3 DEF MemoryInv, PendingAnswerable, IsStale

(* MemoryStep: every step keeps the keys of pending requests out of it.    *)
LEMMA MemoryStep == Books /\ MemoryInv /\ [Next]_vars => MemoryInv'
<1> SUFFICES ASSUME Books, MemoryInv, [Next]_vars PROVE MemoryInv' OBVIOUS
<1> USE DEF registry
<1>1. ASSUME NEW n \in Names, Register(n) PROVE MemoryInv'
  <2>1. PICK r : r = [name |-> n, id |-> NextMessageId, cb |-> nreq + 1] OBVIOUS
  <2>2. Key(r) \in Keys BY <2>1, NextIdInIds DEF Books, Keys, Key
  <2>3. pending' = pending \cup {r} /\ stale' = ForgetStale(Key(r))
    BY <1>1, <2>1 DEF Register
  <2>4. Distinct' /\ ~ IsStale(Key(r))' /\ \A x : IsStale(x)' => IsStale(x)
    BY <2>2, <2>3, ForgottenOnly DEF Books, MemoryInv
  <2>5. \A q \in pending' : ~ IsStale(Key(q))'
    BY <2>3, <2>4 DEF MemoryInv, PendingAnswerable
  <2>. QED BY <2>4, <2>5 DEF MemoryInv, PendingAnswerable, IsStale
<1>2. ASSUME pending' \subseteq pending, stale' = stale PROVE MemoryInv'
  BY <1>2 DEF MemoryInv, Distinct, PendingAnswerable, IsStale, StaleKeys
<1>3. CASE SendFails BY <1>2, <1>3 DEF SendFails
<1>4. CASE PopExact BY <1>4, PopMemory DEF PopExact
<1>5. ASSUME NEW r \in fired, Expire(r) PROVE MemoryInv'
  BY <1>2, <1>5, PopMemory DEF Expire
<1>6. CASE CancelAll
  BY <1>6 DEF CancelAll, MemoryInv, Distinct, PendingAnswerable
<1>7. CASE UNCHANGED << pending, stale >> BY <1>2, <1>7
<1>. QED
  BY <1>1, <1>3, <1>4, <1>5, <1>6, <1>7 DEF Next, ProcessDeferreds, Transmit,
     SendUntracked, HandleMessage, TakeList, PopNothing, RunListed, Finish, DropMessage,
     TimerFires, OnRequestTimeout, CloseSocket, ClearDeferreds, Reconnect, vars

(* NeverIgnored: the guard of handleMessage never takes the response to a  *)
(* pending request for a stale one, whatever has been remembered before    *)
(* and however often the message counter has come round.                   *)
THEOREM NeverIgnored == Spec => []PendingAnswerable
<1>1. Init => MemoryInv BY DEF Init, MemoryInv, Distinct, PendingAnswerable
<1>2. MemoryInv => PendingAnswerable BY DEF MemoryInv
<1>. QED BY <1>1, <1>2, MemoryStep, BooksKept, PTL DEF Spec

(* StaysCompletable: whatever occupies a response name can be completed, by *)
(* its response or by its timer.                                           *)
THEOREM StaysCompletable == Spec => []Completable
<1>1. ListedIsLive /\ PendingAnswerable => Completable BY DEF Completable
<1>. QED BY <1>1, NothingOrphaned, NeverIgnored, PTL

-----------------------------------------------------------------------------
(* What follows is about a reader that echoes the IDs it answers and does  *)
(* not repeat answers older than the stale memory.                         *)
Echoes == ExactIds /\ ~ LateAnswers

Dispatching == rx.step \in {"guarded", "taken", "unmatched"}

(* The reader does not know of the request being written.                  *)
UnaskedInv ==
    sending # NoRequest => Key(sending) \notin asked /\ Key(sending) # Key(rx)

(* What it may answer is pending or remembered, until the books are thrown *)
(* away with the session.                                                  *)
AskedInv ==
    link \in {"up", "closed"} =>
        \A k \in asked : k[1] \in Untracked \/ Contains(k) \/ IsStale(k)

(* So is the response under dispatch.                                      *)
RxInv ==
    Dispatching /\ rx.name \notin Untracked /\ session \notin torn =>
        /\ link = "up"
        /\ Contains(Key(rx)) \/ IsStale(Key(rx))
        /\ rx.step = "unmatched" => ~ Contains(Key(rx))

(* Callbacks listed, or in the list taken, are those of this session; and  *)
(* the list taken is one of the response's name.                           *)
BornInv ==
    /\ \A n \in Names : \A c \in deferreds[n] : born[c] = session
    /\ ~ held.shared => \A c \in held.cbs : born[c] = session /\ key[c][1] = rx.name
    /\ rx = NoResponse => held.cbs = {}

(* When the session is down only a request that cannot be written is listed. *)
DownInv ==
    link = "down" => \A n \in Names : \A c \in deferreds[n] :
        sending # NoRequest /\ c = sending.cb

(* A live request's protected callback has not run.                        *)
OnceInv == AtMostOnce /\ \A r \in Live : Protected(r.cb) => runs[r.cb] = 0

Exact == UnaskedInv /\ AskedInv /\ RxInv /\ BornInv /\ DownInv /\ OnceInv
IInv  == Books /\ Exact

(* ProtectedStays: what is protected after a step was so before, unless it *)
(* was registered by it.                                                   *)
LEMMA ProtectedStays ==
    ASSUME key' = key, born' = born, torn \subseteq torn', NEW c, Protected(c)'
    PROVE  Protected(c)
BY DEF Protected

(* OnceKept: a step that calls nobody and adds no request.                 *)
LEMMA OnceKept ==
    ASSUME OnceInv, runs' = runs, Live' \subseteq Live, key' = key, born' = born,
           torn \subseteq torn'
    PROVE  OnceInv'
<1>1. \A c : Protected(c)' => Protected(c) BY ProtectedStays
<1>. QED BY <1>1 DEF OnceInv, AtMostOnce

(* OnceCalled: calling the callback of a live request and removing it.     *)
LEMMA OnceCalled ==
    ASSUME TypeOK, LiveInv, OnceInv, NEW r \in Live, runs' = Run({r.cb}), Live' = Live \ {r},
           UNCHANGED << key, born, torn >>
    PROVE  OnceInv'
<1>1. \A c : Protected(c)' <=> Protected(c) BY DEF Protected
<1>2. \A c \in Callbacks : runs'[c] = IF c = r.cb THEN runs[c] + 1 ELSE runs[c]
  BY DEF Run
<1>3. \A q \in Live' : q \in Live /\ q.cb # r.cb /\ q.cb \in Callbacks
  BY DEF LiveInv, TypeOK, Live, Requests
<1>4. r.cb \in Callbacks BY DEF TypeOK, Live, Requests
<1>5. Protected(r.cb) => runs'[r.cb] = 1
  <2>1. Protected(r.cb) => runs[r.cb] = 0 BY DEF OnceInv
  <2>2. runs'[r.cb] = runs[r.cb] + 1 BY <1>2, <1>4
  <2>. QED BY <2>1, <2>2
<1>6. AtMostOnce'
  <2> SUFFICES ASSUME NEW c \in Callbacks, Protected(c) PROVE runs'[c] <= 1
    BY <1>1 DEF AtMostOnce
  <2>1. CASE c = r.cb BY <1>5, <2>1
  <2>2. CASE c # r.cb BY <1>2, <2>2 DEF OnceInv, AtMostOnce
  <2>. QED BY <2>1, <2>2
<1>7. \A q \in Live' : Protected(q.cb)' => runs'[q.cb] = 0
  BY <1>1, <1>2, <1>3 DEF OnceInv
<1>. QED BY <1>6, <1>7 DEF OnceInv

(* RxKept: a response under dispatch stays answerable.                     *)
LEMMA RxKept ==
    ASSUME RxInv, rx' = rx, session' = session, torn' = torn, link' = link,
           Contains(Key(rx)) => Contains(Key(rx))' \/ IsStale(Key(rx))',
           IsStale(Key(rx)) => IsStale(Key(rx))',
           ~ Contains(Key(rx)) => ~ Contains(Key(rx))'
    PROVE  RxInv'
BY DEF RxInv, Dispatching

(* UnchangedKeys: what depends on the registry alone.                      *)
LEMMA UnchangedKeys ==
    ASSUME pending' = pending, stale' = stale, NEW k
    PROVE  (Contains(k)' <=> Contains(k)) /\ (IsStale(k)' <=> IsStale(k))
BY DEF Contains, IsStale, StaleKeys

(* RegisterExact: a new request. *)
LEMMA RegisterExact ==
    ASSUME IInv, Books', NEW n \in Names, Register(n)
    PROVE  Exact'
<1> DEFINE r == [name |-> n, id |-> NextMessageId, cb |-> nreq + 1]
<1>1. /\ pending' = pending \cup {r} /\ expired' = expired /\ stale' = ForgetStale(Key(r))
      /\ deferreds[n] = {} /\ deferreds' = [deferreds EXCEPT ![n] = @ \cup {r.cb}]
      /\ sending = NoRequest /\ sending' = r /\ asked' = asked \ {Key(r)}
      /\ nreq' = nreq + 1 /\ runs' = runs /\ rx' = rx /\ link' = link /\ held' = held
      /\ key' = [key EXCEPT ![r.cb] = Key(r)] /\ born' = [born EXCEPT ![r.cb] = session]
      /\ torn' = torn /\ session' = session
      /\ Key(r) # Key(rx) /\ r.cb = nreq + 1 /\ r.name = n
  BY DEF Register, Sendable, receiver, timers
<1> USE DEF IInv, Books, Exact
<1>2. r.cb \in Callbacks /\ nreq \in Nat /\ Key(r) \in Keys
  <2>1. nreq \in Nat /\ nreq + 1 \in Callbacks
    BY BoundsAssumption DEF Register, TypeOK, Callbacks
  <2>. QED BY <1>1, <2>1, NextIdInIds DEF Keys, Key
<1> HIDE DEF r
<1>3. \A m \in Names : deferreds'[m] = IF m = n THEN {r.cb} ELSE deferreds[m]
  BY <1>1 DEF TypeOK
<1>4. /\ born'[r.cb] = session
      /\ \A c \in Callbacks : c # r.cb => key'[c] = key[c] /\ born'[c] = born[c]
  BY <1>1, <1>2 DEF TypeOK
<1>5. \A c \in Callbacks : c <= nreq => c # r.cb BY <1>1, <1>2 DEF Callbacks
<1>6. \A x : IsStale(x) /\ x # Key(r) => IsStale(x)' BY <1>1, <1>2, ForgottenKey
<1>7. \A x : Contains(x) => Contains(x)' BY <1>1 DEF Contains
<1>8. \A x : Contains(x)' => Contains(x) \/ x = Key(r) BY <1>1 DEF Contains
<1>9. UnaskedInv' BY <1>1 DEF UnaskedInv
<1>10. AskedInv' BY <1>1, <1>6, <1>7 DEF AskedInv
<1>11. RxInv' BY <1>1, <1>6, <1>7, <1>8, RxKept
<1>12. BornInv'
  <2>1. ASSUME NEW m \in Names, NEW c \in deferreds'[m] PROVE born'[c] = session
    <3>1. CASE m = n BY <1>3, <1>4, <2>1, <3>1
    <3>2. CASE m # n
      <4>1. c \in deferreds[m] /\ c \in Callbacks BY <1>3, <2>1, <3>2 DEF TypeOK
      <4>2. c <= nreq /\ born[c] = session BY <4>1 DEF ListedInv, BornInv
      <4>. QED BY <1>4, <1>5, <4>1, <4>2
    <3>. QED BY <3>1, <3>2
  <2>2. ASSUME ~ held.shared, NEW c \in held.cbs
        PROVE  born'[c] = session /\ key'[c][1] = rx.name
    <3>1. c \in Callbacks BY DEF TypeOK, Lists
    <3>2. c <= nreq /\ born[c] = session /\ key[c][1] = rx.name
      BY <2>2 DEF HeldInv, BornInv
    <3>. QED BY <1>4, <1>5, <3>1, <3>2
  <2>. QED BY <1>1, <2>1, <2>2 DEF BornInv
<1>13. DownInv'
  <2>1. sending' # NoRequest /\ sending'.cb = r.cb
    BY <1>1, <1>2 DEF NoRequest, Callbacks
  <2>. QED BY <1>1, <1>3, <2>1 DEF DownInv
<1>14. OnceInv'
  <2>1. \A c \in Callbacks : c # r.cb => (Protected(c)' <=> Protected(c))
    BY <1>1, <1>4 DEF Protected
  <2>2. runs[r.cb] = 0 BY <1>1, <1>2 DEF FreshInv
  <2>3. Live' = Live \cup {r} BY <1>1 DEF Live
  <2>4. \A q \in Live : q.cb \in Callbacks /\ q.cb # r.cb
    BY <1>5 DEF LiveInv, Live, TypeOK, Requests
  <2>5. AtMostOnce' BY <1>1, <2>1, <2>2 DEF OnceInv, AtMostOnce
  <2>6. \A q \in Live' : Protected(q.cb)' => runs'[q.cb] = 0
    BY <1>1, <2>1, <2>2, <2>3, <2>4 DEF OnceInv
  <2>. QED BY <2>5, <2>6 DEF OnceInv
<1>. QED BY <1>9, <1>10, <1>11, <1>12, <1>13, <1>14

(* SendExact: the write succeeds, or is one that registers nothing.        *)
LEMMA TransmitExact ==
    ASSUME Echoes, IInv, Books', Transmit
    PROVE  Exact'
<1>1. /\ asked' = asked \cup { k \in {Key(sending)} : Contains(k) \/ IsStale(k) }
      /\ sending' = NoRequest /\ link = "up"
      /\ UNCHANGED << pending, stale, deferreds, expired, rx, held, link, session,
                      born, key, runs, torn >>
  BY DEF Echoes, Transmit, registry, timers, receiver, history
<1> USE DEF IInv, Books, Exact
<1>2. \A k : (Contains(k)' <=> Contains(k)) /\ (IsStale(k)' <=> IsStale(k))
  BY <1>1, UnchangedKeys
<1>3. UnaskedInv' BY <1>1 DEF UnaskedInv
<1>4. AskedInv' BY <1>1, <1>2 DEF AskedInv
<1>5. RxInv' BY <1>1, <1>2, RxKept
<1>6. BornInv' /\ DownInv' BY <1>1 DEF BornInv, DownInv
<1>7. OnceInv' BY <1>1, OnceKept DEF Live
<1>. QED BY <1>3, <1>4, <1>5, <1>6, <1>7

LEMMA UntrackedExact ==
    ASSUME IInv, Books', NEW n \in Untracked, SendUntracked(n)
    PROVE  Exact'
<1>1. /\ asked' \subseteq asked \cup {<< n, NextMessageId >>}
      /\ sending = NoRequest
      /\ UNCHANGED << pending, stale, deferreds, expired, sending, rx, held, link,
                      session, born, key, runs, torn >>
  BY DEF SendUntracked, Sendable, registry, timers, receiver, history
<1> USE DEF IInv, Books, Exact
<1>2. \A k : (Contains(k)' <=> Contains(k)) /\ (IsStale(k)' <=> IsStale(k))
  BY <1>1, UnchangedKeys
<1>3. UnaskedInv' BY <1>1 DEF UnaskedInv
<1>4. AskedInv' BY <1>1, <1>2 DEF AskedInv
<1>5. RxInv' BY <1>1, <1>2, RxKept
<1>6. BornInv' /\ DownInv' BY <1>1 DEF BornInv, DownInv
<1>7. OnceInv' BY <1>1, OnceKept DEF Live
<1>. QED BY <1>3, <1>4, <1>5, <1>6, <1>7

(* SendFailsExact: the write fails. *)
LEMMA SendFailsExact ==
    ASSUME IInv, Books', SendFails
    PROVE  Exact'
<1>1. /\ pending' = { r \in pending : Key(r) # Key(sending) }
      /\ deferreds' = [deferreds EXCEPT ![sending.name] = deferreds[sending.name] \ {sending.cb}]
      /\ held' = Detached(sending.name, deferreds[sending.name] \ {sending.cb})
      /\ sending # NoRequest /\ sending' = NoRequest
      /\ UNCHANGED << stale, expired, rx, link, asked, session, born, key, runs, torn >>
  BY DEF SendFails, timers, history
<1> USE DEF IInv, Books, Exact
<1>2. sending \in Requests /\ sending.name \in Names BY <1>1 DEF TypeOK, Requests
<1>3. \A k : Contains(k) /\ k # Key(sending) => Contains(k)' BY <1>1 DEF Contains
<1>4. \A k : Contains(k)' => Contains(k) BY <1>1 DEF Contains
<1>5. \A k : IsStale(k)' <=> IsStale(k) BY <1>1 DEF IsStale, StaleKeys
<1>6. \A m \in Names : deferreds'[m] =
        IF m = sending.name THEN deferreds[m] \ {sending.cb} ELSE deferreds[m]
  BY <1>1, <1>2 DEF TypeOK
<1>7. UnaskedInv' BY <1>1 DEF UnaskedInv
<1>8. AskedInv' BY <1>1, <1>3, <1>5 DEF AskedInv, UnaskedInv
<1>9. RxInv'
  <2>1. Key(rx) # Key(sending) BY <1>1 DEF UnaskedInv
  <2>. QED BY <1>1, <1>3, <1>4, <1>5, <2>1, RxKept
<1>10. BornInv'
  <2>1. held' = held \/ held'.cbs = {} BY <1>1 DEF Detached, Own
  <2>2. \A m \in Names : \A c \in deferreds'[m] : born[c] = session
    BY <1>6 DEF BornInv
  <2>3. ~ held'.shared => \A c \in held'.cbs : born[c] = session /\ key[c][1] = rx.name
    BY <2>1 DEF BornInv
  <2>4. rx = NoResponse => held'.cbs = {} BY <2>1 DEF BornInv
  <2>. QED BY <1>1, <2>2, <2>3, <2>4 DEF BornInv
<1>11. DownInv'
  <2> SUFFICES ASSUME link = "down", NEW m \in Names, NEW c \in deferreds'[m] PROVE FALSE
    BY <1>1 DEF DownInv
  <2>1. c \in deferreds[m] /\ ~ (m = sending.name /\ c = sending.cb) BY <1>6
  <2>2. c = sending.cb BY <2>1 DEF DownInv
  <2>3. key[c][1] = m /\ key[sending.cb] = Key(sending)
    BY <1>1, <2>1 DEF ListedInv, SendingInv
  <2>. QED BY <2>1, <2>2, <2>3 DEF Key
<1>12. OnceInv' BY <1>1, OnceKept DEF Live
<1>. QED BY <1>7, <1>8, <1>9, <1>10, <1>11, <1>12

(* HandleExact: the guard lets only a pending response through. *)
LEMMA HandleExact ==
    ASSUME Echoes, IInv, Books', NEW n \in Names, NEW id \in Ids, HandleMessage(n, id)
    PROVE  Exact'
<1> DEFINE m == [name |-> n, id |-> id, step |-> "guarded"]
<1>1. /\ rx' = m /\ Key(m) = << n, id >> /\ m.step = "guarded" /\ m.name = n
      /\ << n, id >> \in asked /\ ~ IsStale(<< n, id >>) /\ rx = NoResponse
      /\ torn' = IF link = "up" THEN torn ELSE torn \cup {session}
      /\ UNCHANGED << pending, stale, deferreds, expired, sending, held, link, asked,
                      session, born, key, runs >>
  BY DEF HandleMessage, Echoes, Key, registry, timers
<1> HIDE DEF m
<1> USE DEF IInv, Books, Exact
<1>2. \A k : (Contains(k)' <=> Contains(k)) /\ (IsStale(k)' <=> IsStale(k))
  BY <1>1, UnchangedKeys
<1>3. UnaskedInv' BY <1>1 DEF UnaskedInv
<1>4. AskedInv' BY <1>1, <1>2 DEF AskedInv
<1>5. RxInv'
  <2>1. CASE link = "up"
    <3>1. n \in Untracked \/ Contains(Key(m)) BY <1>1, <2>1 DEF AskedInv
    <3>2. n \in Untracked \/ Contains(Key(m))' BY <1>1, <3>1 DEF Contains
    <3>. QED BY <1>1, <2>1, <3>2 DEF RxInv, Contains
  <2>2. CASE link # "up" BY <1>1, <2>2 DEF RxInv
  <2>. QED BY <2>1, <2>2
<1>6. BornInv' /\ DownInv'
  BY <1>1 DEF BornInv, DownInv
<1>7. OnceInv' BY <1>1, OnceKept DEF Live
<1>. QED BY <1>3, <1>4, <1>5, <1>6, <1>7


(* RxStep: a dispatch goes on with the same response. *)
LEMMA RxStep ==
    ASSUME TypeOK, rx.step # "idle", NEW s, rx' = [rx EXCEPT !.step = s]
    PROVE  /\ rx'.step = s /\ rx'.name = rx.name /\ Key(rx') = Key(rx)
           /\ rx # NoResponse /\ (s # "idle" => rx' # NoResponse)
<1>1. rx \in Responses /\ rx # NoResponse BY DEF TypeOK, NoResponse
<1>2. rx'.step = s /\ rx'.name = rx.name /\ rx'.id = rx.id BY <1>1 DEF Responses
<1>. QED BY <1>1, <1>2 DEF Key, NoResponse

(* ExactKept: a step that moves the dispatch on and calls nobody. *)
LEMMA ExactKept ==
    ASSUME Exact,
           UNCHANGED << pending, stale, deferreds, expired, sending, link, asked,
                        session, born, key, runs, torn >>,
           Key(rx') = Key(rx), rx'.name = rx.name, Dispatching' => Dispatching,
           rx'.step = "unmatched" => rx.step = "unmatched" \/ ~ Contains(Key(rx)),
           held' = held \/ held'.cbs = {},
           rx' = NoResponse => rx = NoResponse
    PROVE  Exact'
<1> USE DEF Exact
<1>1. \A k : (Contains(k)' <=> Contains(k)) /\ (IsStale(k)' <=> IsStale(k))
  BY UnchangedKeys
<1>2. UnaskedInv' BY DEF UnaskedInv
<1>3. AskedInv' BY <1>1 DEF AskedInv
<1>4. RxInv'
  <2>1. (Contains(Key(rx)))' <=> Contains(Key(rx)) BY DEF Contains
  <2>2. (IsStale(Key(rx)))' <=> IsStale(Key(rx)) BY DEF IsStale, StaleKeys
  <2>. QED BY <2>1, <2>2 DEF RxInv
<1>5. BornInv'
  <2>1. ~ held'.shared => \A c \in held'.cbs : born[c] = session /\ key[c][1] = rx.name
    BY DEF BornInv
  <2>2. rx' = NoResponse => held'.cbs = {} BY DEF BornInv
  <2>. QED BY <2>1, <2>2 DEF BornInv
<1>6. DownInv' BY DEF DownInv
<1>7. OnceInv' BY OnceKept DEF Live
<1>. QED BY <1>2, <1>3, <1>4, <1>5, <1>6, <1>7

(* PopAsked: the reader knows no key that is neither pending nor stale     *)
(* after a request was popped and its key remembered.                      *)
LEMMA PopAsked ==
    ASSUME TypeOK, AskedInv, NEW r \in pending, pending' = pending \ {r},
           stale' = RememberStale(Key(r)), asked' = asked \ Evicted(Key(r)), link' = link
    PROVE  AskedInv'
<1>1. Key(r) \in Keys BY DEF TypeOK, Requests, Key, Keys
<1>2. IsStale(Key(r))' /\ \A x : IsStale(x) => IsStale(x)' \/ x \in Evicted(Key(r))
  BY <1>1, RememberedKey
<1>3. \A x : Contains(x) => Contains(x)' \/ x = Key(r) BY DEF Contains
<1>. QED BY <1>2, <1>3 DEF AskedInv

(* ShrinkBorn: removing callbacks from the lists. *)
LEMMA ShrinkBorn ==
    ASSUME BornInv, DownInv, \A n \in Names : deferreds'[n] \subseteq deferreds[n],
           UNCHANGED << session, born, key, link, sending >>, rx'.name = rx.name,
           rx' = NoResponse => rx = NoResponse,
           \/ held' = held
           \/ held'.cbs = {}
           \/ ~ held.shared /\ held'.cbs \subseteq held.cbs
    PROVE  BornInv' /\ DownInv'
<1>1. \A n \in Names : \A c \in deferreds'[n] : born[c] = session BY DEF BornInv
<1>2. ~ held'.shared => \A c \in held'.cbs : born[c] = session /\ key[c][1] = rx.name
  BY DEF BornInv
<1>3. rx' = NoResponse => held'.cbs = {} BY DEF BornInv
<1>4. DownInv' BY DEF DownInv
<1>. QED BY <1>1, <1>2, <1>3, <1>4 DEF BornInv

(* UnlistShrink: so does Unlist. *)
LEMMA UnlistShrink ==
    ASSUME TypeOK, NEW C, Unlist(C)
    PROVE  /\ \A n \in Names : deferreds'[n] \subseteq deferreds[n]
           /\ \/ held' = held
              \/ ~ held.shared /\ held'.cbs \subseteq held.cbs
<1>1. CASE held.shared
  <2>1. deferreds' = [deferreds EXCEPT ![rx.name] = @ \ C] /\ held' = held
    BY <1>1 DEF Unlist
  <2>. QED BY <2>1 DEF TypeOK
<1>2. CASE ~ held.shared
  <2>1. deferreds' = deferreds /\ held'.cbs = held.cbs \ C
    BY <1>2 DEF Unlist, Own
  <2>. QED BY <1>2, <2>1
<1>. QED BY <1>1, <1>2

(* PopExact, an exact match. *)
LEMMA PopExactExact ==
    ASSUME Echoes, IInv, Books', PopExact
    PROVE  Exact'
<1>1. PICK r \in pending :
        /\ rx.step = "taken" /\ rx' = [rx EXCEPT !.step = "ran"]
        /\ pending' = pending \ {r} /\ stale' = RememberStale(Key(r))
        /\ asked' = asked \ Evicted(Key(r)) /\ asked' \subseteq asked
        /\ Unlist({r.cb}) /\ runs' = Run({r.cb})
        /\ expired' = expired
        /\ UNCHANGED << sending, link, session, born, key, torn >>
  BY DEF PopExact, Echoes, timers, history
<1> USE DEF IInv, Books, Exact
<1>2. rx'.step = "ran" /\ rx'.name = rx.name /\ Key(rx') = Key(rx) /\ rx' # NoResponse
  BY <1>1, RxStep
<1>3. UnaskedInv' BY <1>1, <1>2 DEF UnaskedInv
<1>4. AskedInv' BY <1>1, PopAsked
<1>5. RxInv' BY <1>2 DEF RxInv, Dispatching
<1>6. BornInv' /\ DownInv'
  <2>1. /\ \A n \in Names : deferreds'[n] \subseteq deferreds[n]
        /\ held' = held \/ (~ held.shared /\ held'.cbs \subseteq held.cbs)
    BY <1>1, UnlistShrink
  <2>. QED BY <1>1, <1>2, <2>1, ShrinkBorn
<1>7. OnceInv'
  <2>1. Live' = Live \ {r} /\ r \in Live BY <1>1 DEF Live, LiveInv
  <2>. QED BY <1>1, <2>1, OnceCalled
<1>. QED BY <1>3, <1>4, <1>5, <1>6, <1>7

(* RunListedExact: what an unmatched response runs is not protected.       *)
LEMMA RunListedExact ==
    ASSUME IInv, Books', RunListed
    PROVE  /\ Exact'
           /\ \A c \in Callbacks : Protected(c) => runs'[c] = runs[c]
<1>1. /\ rx.step = "unmatched" /\ rx' = [rx EXCEPT !.step = "ran"]
      /\ UNCHANGED << pending, stale, expired, sending, link, asked, session, born, key,
                      torn >>
  BY DEF RunListed, registry, timers, history
<1> USE DEF IInv, Books, Exact
<1>2. /\ rx'.step = "ran" /\ rx'.name = rx.name /\ Key(rx') = Key(rx)
      /\ rx # NoResponse /\ rx' # NoResponse
  BY <1>1, RxStep
<1>3. CASE IsStale(Key(rx))
  <2>1. UNCHANGED << deferreds, held, runs >> BY <1>3 DEF RunListed
  <2>2. ~ Dispatching' BY <1>2 DEF Dispatching
  <2>3. Exact' BY <1>1, <1>2, <2>1, <2>2, ExactKept
  <2>. QED BY <2>1, <2>3
<1>4. CASE ~ IsStale(Key(rx))
  <2>1. Unlist(Held) /\ runs' = Run(Held) BY <1>4 DEF RunListed
  <2>2. rx.name \in Untracked \/ session \in torn
    BY <1>1, <1>4 DEF RxInv, Dispatching
  <2>3. \A c \in Held : born[c] = session /\ key[c][1] = rx.name
    <3>1. rx.name \in Names BY <1>2, HeldFacts
    <3>2. CASE held.shared BY <3>1, <3>2 DEF Held, BornInv, ListedInv
    <3>3. CASE ~ held.shared BY <3>3 DEF Held, BornInv
    <3>. QED BY <3>2, <3>3
  <2>4. \A c \in Held : ~ Protected(c) BY <2>2, <2>3 DEF Protected
  <2>5. \A c \in Callbacks : Protected(c) => runs'[c] = runs[c] BY <2>1, <2>4 DEF Run
  <2>6. UnaskedInv' BY <1>1, <1>2 DEF UnaskedInv
  <2>7. AskedInv' BY <1>1, UnchangedKeys DEF AskedInv
  <2>8. RxInv' BY <1>2 DEF RxInv, Dispatching
  <2>9. BornInv' /\ DownInv'
    <3>1. /\ \A n \in Names : deferreds'[n] \subseteq deferreds[n]
          /\ held' = held \/ (~ held.shared /\ held'.cbs \subseteq held.cbs)
      BY <2>1, UnlistShrink
    <3>. QED BY <1>1, <1>2, <3>1, ShrinkBorn
  <2>10. OnceInv'
    <3>1. \A c : Protected(c)' <=> Protected(c) BY <1>1 DEF Protected
    <3>2. \A q \in Live' : q \in Live /\ q.cb \in Callbacks
      BY <1>1 DEF Live, TypeOK, Requests
    <3>3. AtMostOnce' BY <2>5, <3>1 DEF OnceInv, AtMostOnce
    <3>4. \A q \in Live' : Protected(q.cb)' => runs'[q.cb] = 0
      BY <2>5, <3>1, <3>2 DEF OnceInv
    <3>. QED BY <3>3, <3>4 DEF OnceInv
  <2>. QED BY <2>5, <2>6, <2>7, <2>8, <2>9, <2>10
<1>. QED BY <1>3, <1>4

(* NoKeyOfOurs: the message counter never gives a request the key of the   *)
(* idle receive thread.                                                    *)
LEMMA NoKeyOfOurs == ASSUME TypeOK, sending # NoRequest PROVE Key(sending) # Key(NoResponse)
BY DEF TypeOK, Requests, Ids, Key, NoResponse

(* EndExact: the dispatch ends. *)
LEMMA EndExact ==
    ASSUME IInv, rx' = NoResponse, held' = Own({}),
           \A n \in Names : deferreds'[n] \subseteq deferreds[n],
           UNCHANGED << pending, stale, expired, sending, link, asked, session, born, key,
                        runs, torn >>
    PROVE  Exact'
<1> USE DEF IInv, Books, Exact
<1>1. UnaskedInv' BY NoKeyOfOurs DEF UnaskedInv
<1>2. AskedInv' BY UnchangedKeys DEF AskedInv
<1>3. RxInv' BY DEF RxInv, Dispatching, NoResponse
<1>4. BornInv' BY DEF BornInv, Own
<1>5. DownInv' BY DEF DownInv
<1>6. OnceInv' BY OnceKept DEF Live
<1>. QED BY <1>1, <1>2, <1>3, <1>4, <1>5, <1>6

(* ExpireExact: an expired request is remembered. *)
LEMMA ExpireExact ==
    ASSUME Echoes, IInv, NEW r \in fired, Expire(r)
    PROVE  Exact'
<1>1. UNCHANGED << deferreds, sending, rx, held, link, session, born, key, runs, torn >>
  BY DEF Expire, receiver, history
<1> USE DEF IInv, Books, Exact
<1>2. CASE UNCHANGED << pending, expired, stale, asked >>
  <2>1. Dispatching' => Dispatching BY <1>1 DEF Dispatching
  <2>. QED BY <1>1, <1>2, <2>1, ExactKept
<1>3. ASSUME NEW q \in pending, Key(rx) \notin Evicted(Key(q)),
             pending' = pending \ {q}, expired' = expired \cup {q},
             stale' = RememberStale(Key(q)), asked' = asked \ Evicted(Key(q))
      PROVE  Exact'
  <2>1. Key(q) \in Keys BY DEF TypeOK, Requests, Key, Keys
  <2>2. IsStale(Key(q))' /\ \A x : IsStale(x) => IsStale(x)' \/ x \in Evicted(Key(q))
    BY <1>3, <2>1, RememberedKey
  <2>3. \A x : Contains(x) => Contains(x)' \/ x = Key(q) BY <1>3 DEF Contains
  <2>4. \A x : Contains(x)' => Contains(x) BY <1>3 DEF Contains
  <2>5. UnaskedInv' BY <1>1, <1>3 DEF UnaskedInv
  <2>6. AskedInv' BY <1>1, <1>3, PopAsked
  <2>7. RxInv' BY <1>1, <1>3, <2>2, <2>3, <2>4, RxKept
  <2>8. BornInv' /\ DownInv' BY <1>1 DEF BornInv, DownInv
  <2>9. OnceInv'
    <3>1. Live' \subseteq Live BY <1>3 DEF Live
    <3>. QED BY <1>1, <3>1, OnceKept
  <2>. QED BY <2>5, <2>6, <2>7, <2>8, <2>9
<1>. QED BY <1>2, <1>3 DEF Expire, Echoes

(* TimeoutExact: a timer thread calls the callback of its request. *)
LEMMA TimeoutExact ==
    ASSUME IInv, NEW r \in expired, OnRequestTimeout(r)
    PROVE  Exact'
<1>1. /\ expired' = expired \ {r}
      /\ deferreds' = [deferreds EXCEPT ![r.name] = deferreds[r.name] \ {r.cb}]
      /\ held' = Detached(r.name, deferreds[r.name] \ {r.cb})
      /\ runs' = Run({r.cb})
      /\ UNCHANGED << pending, stale, sending, rx, link, asked, session, born, key, torn >>
  BY DEF OnRequestTimeout, registry, history
<1> USE DEF IInv, Books, Exact
<1>2. UnaskedInv' BY <1>1 DEF UnaskedInv
<1>3. AskedInv' BY <1>1, UnchangedKeys DEF AskedInv
<1>4. RxInv' BY <1>1, UnchangedKeys, RxKept
<1>5. BornInv' /\ DownInv'
  <2>1. \A n \in Names : deferreds'[n] \subseteq deferreds[n] BY <1>1 DEF TypeOK
  <2>2. held' = held \/ held'.cbs = {} BY <1>1 DEF Detached, Own
  <2>. QED BY <1>1, <2>1, <2>2, ShrinkBorn
<1>6. OnceInv'
  <2>1. Live' = Live \ {r} /\ r \in Live BY <1>1 DEF Live, LiveInv
  <2>. QED BY <1>1, <2>1, OnceCalled
<1>. QED BY <1>2, <1>3, <1>4, <1>5, <1>6

(* CloseExact, CancelExact, ClearExact: the end of the session. *)
LEMMA CloseExact ==
    ASSUME IInv, CloseSocket
    PROVE  Exact'
<1>1. /\ link = "up" /\ link' = "closed" /\ torn \subseteq torn'
      /\ Dispatching => session \in torn'
      /\ UNCHANGED << pending, stale, deferreds, expired, sending, rx, held, asked,
                      session, born, key, runs >>
  BY DEF CloseSocket, Dispatching, registry, timers, receiver
<1> USE DEF IInv, Books, Exact
<1>2. UnaskedInv' BY <1>1 DEF UnaskedInv
<1>3. AskedInv' BY <1>1, UnchangedKeys DEF AskedInv
<1>4. RxInv' BY <1>1 DEF RxInv, Dispatching
<1>5. BornInv' /\ DownInv' BY <1>1 DEF BornInv, DownInv
<1>6. OnceInv' BY <1>1, OnceKept DEF Live
<1>. QED BY <1>2, <1>3, <1>4, <1>5, <1>6

LEMMA CancelExact ==
    ASSUME IInv, CancelAll
    PROVE  Exact'
<1>1. /\ link = "closed" /\ link' = "cancelled" /\ pending' = {}
      /\ UNCHANGED << deferreds, expired, sending, rx, held, asked, session, born, key,
                      runs, torn >>
  BY DEF CancelAll, timers, receiver, history
<1> USE DEF IInv, Books, Exact
<1>2. UnaskedInv' BY <1>1 DEF UnaskedInv
<1>3. AskedInv' BY <1>1 DEF AskedInv
<1>4. RxInv' BY <1>1 DEF RxInv, Dispatching
<1>5. BornInv' /\ DownInv' BY <1>1 DEF BornInv, DownInv
<1>6. OnceInv'
  <2>1. Live' \subseteq Live BY <1>1 DEF Live
  <2>. QED BY <1>1, <2>1, OnceKept
<1>. QED BY <1>2, <1>3, <1>4, <1>5, <1>6

LEMMA ClearExact ==
    ASSUME IInv, ClearDeferreds
    PROVE  Exact'
<1>1. /\ link = "cancelled" /\ link' = "down" /\ \A n \in Names : deferreds'[n] = {}
      /\ held' = IF held.shared /\ rx # NoResponse THEN Own(deferreds[rx.name]) ELSE held
      /\ UNCHANGED << pending, stale, expired, sending, rx, asked, session, born, key,
                      runs, torn >>
  BY DEF ClearDeferreds, registry, timers, history
<1> USE DEF IInv, Books, Exact
<1>2. UnaskedInv' BY <1>1 DEF UnaskedInv
<1>3. AskedInv' BY <1>1 DEF AskedInv
<1>4. RxInv' BY <1>1 DEF RxInv, Dispatching
<1>5. BornInv'
  <2>1. CASE held.shared /\ rx # NoResponse
    <3>1. rx.name \in Names BY <2>1 DEF TypeOK, Responses
    <3>2. held'.cbs = deferreds[rx.name] BY <1>1, <2>1 DEF Own
    <3>3. \A c \in held'.cbs : born[c] = session /\ key[c][1] = rx.name
      BY <3>1, <3>2 DEF BornInv, ListedInv
    <3>. QED BY <1>1, <2>1, <3>3 DEF BornInv
  <2>2. CASE ~ (held.shared /\ rx # NoResponse)
    <3>1. held' = held BY <1>1, <2>2
    <3>2. ~ held.shared => \A c \in held.cbs : born[c] = session /\ key[c][1] = rx.name
      BY DEF BornInv
    <3>3. rx = NoResponse => held.cbs = {} BY DEF BornInv
    <3>. QED BY <1>1, <3>1, <3>2, <3>3 DEF BornInv
  <2>. QED BY <2>1, <2>2
<1>6. DownInv' BY <1>1 DEF DownInv
<1>7. OnceInv' BY <1>1, OnceKept DEF Live
<1>. QED BY <1>2, <1>3, <1>4, <1>5, <1>6, <1>7

(* ReconnectExact: nothing of the old session is listed. *)
LEMMA ReconnectExact ==
    ASSUME IInv, Reconnect
    PROVE  Exact'
<1>1. /\ link = "down" /\ link' = "up" /\ rx = NoResponse /\ sending = NoRequest
      /\ asked' = {}
      /\ UNCHANGED << pending, stale, deferreds, expired, sending, rx, held, born, key,
                      runs, torn >>
  BY DEF Reconnect, registry, timers, receiver, history
<1> USE DEF IInv, Books, Exact
<1>2. UnaskedInv' BY <1>1 DEF UnaskedInv
<1>3. AskedInv' BY <1>1 DEF AskedInv
<1>4. RxInv' BY <1>1 DEF RxInv, Dispatching, NoResponse
<1>5. BornInv' BY <1>1 DEF BornInv, DownInv
<1>6. DownInv' BY <1>1 DEF DownInv
<1>7. OnceInv' BY <1>1, OnceKept DEF Live
<1>. QED BY <1>2, <1>3, <1>4, <1>5, <1>6, <1>7

(* ExactStep: every step keeps the books and the correlation. *)
LEMMA ExactStep == Echoes /\ IInv /\ [Next]_vars => IInv'
<1> SUFFICES ASSUME Echoes, IInv, [Next]_vars PROVE Exact'
  BY BooksStep DEF IInv
<1>0. Books' BY BooksStep DEF IInv
<1> USE DEF registry, timers, receiver, history
<1>1. ASSUME NEW n \in Names, Register(n) PROVE Exact' BY <1>0, <1>1, RegisterExact
<1>2. CASE Transmit BY <1>0, <1>2, TransmitExact
<1>3. ASSUME NEW n \in Untracked, SendUntracked(n) PROVE Exact'
  BY <1>0, <1>3, UntrackedExact
<1>4. CASE SendFails BY <1>0, <1>4, SendFailsExact
<1>5. ASSUME NEW n \in Names, NEW id \in Ids, HandleMessage(n, id) PROVE Exact'
  BY <1>0, <1>5, HandleExact
<1>6. CASE TakeList
  <2>1. /\ rx.step = "guarded" /\ rx' = [rx EXCEPT !.step = "taken"]
        /\ held'.cbs = {}
        /\ UNCHANGED << pending, stale, deferreds, expired, sending, link, asked,
                        session, born, key, runs, torn >>
    BY <1>6 DEF TakeList, Own, Shared
  <2>2. rx'.step = "taken" /\ rx'.name = rx.name /\ Key(rx') = Key(rx) /\ rx' # NoResponse
    BY <2>1, RxStep DEF IInv, Books
  <2>3. Dispatching BY <2>1 DEF Dispatching
  <2>. QED BY <2>1, <2>2, <2>3, ExactKept DEF IInv
<1>7. CASE PopExact BY <1>0, <1>7, PopExactExact
<1>8. CASE PopNothing
  <2>1. /\ rx.step = "taken" /\ rx' = [rx EXCEPT !.step = "unmatched"]
        /\ ~ Contains(Key(rx))
        /\ UNCHANGED << pending, stale, deferreds, expired, sending, held, link, asked,
                        session, born, key, runs, torn >>
    BY <1>8 DEF PopNothing
  <2>2. rx'.step = "unmatched" /\ rx'.name = rx.name /\ Key(rx') = Key(rx) /\ rx' # NoResponse
    BY <2>1, RxStep DEF IInv, Books
  <2>3. Dispatching BY <2>1 DEF Dispatching
  <2>. QED BY <2>1, <2>2, <2>3, ExactKept DEF IInv
<1>9. CASE RunListed BY <1>0, <1>9, RunListedExact
<1>10. CASE Finish
  <2>1. \A n \in Names : deferreds'[n] \subseteq deferreds[n]
    BY <1>10 DEF Finish, IInv, Books, TypeOK
  <2>. QED BY <1>10, <2>1, EndExact DEF Finish
<1>11. CASE DropMessage BY <1>11, EndExact DEF DropMessage
<1>12. ASSUME NEW r \in armed, TimerFires(r) PROVE Exact'
  <2>1. UNCHANGED << pending, stale, deferreds, expired, sending, rx, held, link, asked,
                     session, born, key, runs, torn >>
    BY <1>12 DEF TimerFires
  <2>2. Dispatching' => Dispatching BY <2>1 DEF Dispatching
  <2>. QED BY <2>1, <2>2, ExactKept DEF IInv
<1>13. ASSUME NEW r \in fired, Expire(r) PROVE Exact' BY <1>13, ExpireExact
<1>14. ASSUME NEW r \in expired, OnRequestTimeout(r) PROVE Exact'
  BY <1>14, TimeoutExact
<1>15. CASE CloseSocket BY <1>15, CloseExact
<1>16. CASE CancelAll BY <1>16, CancelExact
<1>17. CASE ClearDeferreds BY <1>17, ClearExact
<1>18. CASE Reconnect BY <1>18, ReconnectExact
<1>19. CASE UNCHANGED vars
  <2>1. UNCHANGED << pending, stale, deferreds, expired, sending, rx, held, link, asked,
                     session, born, key, runs, torn >>
    BY <1>19 DEF vars
  <2>2. Dispatching' => Dispatching BY <2>1 DEF Dispatching
  <2>. QED BY <2>1, <2>2, ExactKept DEF IInv
<1>. QED
  BY <1>1, <1>2, <1>3, <1>4, <1>5, <1>6, <1>7, <1>8, <1>9, <1>10, <1>11, <1>12, <1>13,
     <1>14, <1>15, <1>16, <1>17, <1>18, <1>19 DEF Next, ProcessDeferreds

(* InitExact: the initial state has the correlation. *)
LEMMA InitExact == Init => IInv
<1> SUFFICES ASSUME Init PROVE Exact BY InitBooks DEF IInv
<1>1. UnaskedInv /\ AskedInv /\ RxInv
  BY DEF Init, UnaskedInv, AskedInv, RxInv, Dispatching, NoResponse
<1>2. BornInv /\ DownInv BY DEF Init, BornInv, DownInv, Own
<1>3. OnceInv BY DEF Init, OnceInv, AtMostOnce, Live
<1>. QED BY <1>1, <1>2, <1>3 DEF Exact

(* Invariant: the inductive invariant of a reader that echoes IDs. *)
THEOREM Invariant == ASSUME Echoes PROVE Spec => []IInv
<1>1. IInv /\ [Next]_vars => IInv' BY ExactStep
<1>. QED BY <1>1, InitExact, PTL DEF Spec

(* CompletedOnce: no callback of a name that only tracked requests use is  *)
(* called twice, whatever its timer, its response, duplicates of it, a     *)
(* failed write and the end of the session do to each other; unless the    *)
(* session ended around a response under dispatch (NeverTwice fails then). *)
THEOREM CompletedOnce == ASSUME Echoes PROVE Spec => []AtMostOnce
<1>1. IInv => AtMostOnce BY DEF IInv, Exact, OnceInv
<1>. QED BY <1>1, Invariant, PTL

(* NoOtherDispatch: only PopExact and RunListed run callbacks in the       *)
(* receive thread.                                                         *)
LEMMA NoOtherDispatch ==
    ASSUME TypeOK, [Next]_vars, Dispatches
    PROVE  PopExact \/ RunListed
<1> USE DEF Dispatches, receiver
<1>1. rx'.step = "ran" /\ rx.step # "ran" OBVIOUS
<1>2. ~ TakeList /\ ~ PopNothing
  BY <1>1, RxStep DEF TakeList, PopNothing
<1>3. ~ Finish /\ ~ DropMessage BY <1>1 DEF Finish, DropMessage, NoResponse
<1>4. \A n \in Names, id \in Ids : ~ HandleMessage(n, id) BY <1>1 DEF HandleMessage
<1>. QED
  BY <1>1, <1>2, <1>3, <1>4 DEF Next, ProcessDeferreds, Register, Transmit,
     SendUntracked, SendFails, TimerFires, Expire, OnRequestTimeout, CloseSocket,
     CancelAll, ClearDeferreds, Reconnect, vars

(* ExactlyCorrelated: a protected callback that the receive thread runs is *)
(* that of the very request the response answers.                          *)
THEOREM ExactlyCorrelated == ASSUME Echoes PROVE Spec => ExactCorrelation
<1>1. ASSUME IInv, IInv', [Next]_vars PROVE DispatchedExactly
  <2> SUFFICES ASSUME Dispatches, NEW c \in Callbacks, Protected(c), runs'[c] # runs[c]
               PROVE  key[c] = Key(rx)
    BY DEF DispatchedExactly
  <2>1. CASE PopExact
    <3>1. PICK r \in pending : Key(r) = Key(rx) /\ runs' = Run({r.cb}) BY <2>1 DEF PopExact
    <3>2. c = r.cb BY <3>1 DEF Run
    <3>. QED BY <1>1, <3>1, <3>2 DEF IInv, Books, LiveInv, Live
  <2>2. CASE RunListed
    <3>1. runs'[c] = runs[c] BY <1>1, <2>2, RunListedExact DEF IInv
    <3>. QED BY <3>1
  <2>. QED BY <1>1, <2>1, <2>2, NoOtherDispatch DEF IInv, Books
<1>2. IInv /\ IInv' /\ [Next]_vars => [DispatchedExactly]_vars BY <1>1
<1>. QED BY <1>2, Invariant, PTL DEF ExactCorrelation, Spec
=============================================================================
