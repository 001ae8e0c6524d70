-------------------------- MODULE PendingRequests --------------------------
(***************************************************************************)
(* Request/response correlation of the LLRP client.                        *)
(*                                                                         *)
(* Three pieces of code share the state of this module:                    *)
(*   - PendingRequestRegistry (llrp_runtime.py): the pending requests, the *)
(*     timers that expire them and the bounded memory of stale keys;       *)
(*   - LLRPClient._send_request (llrp.py): registers, writes, undoes;      *)
(*   - LLRPClient.handleMessage / processDeferreds / _on_request_timeout   *)
(*     (llrp.py and the versions _runtime_fixes.py installs).              *)
(*                                                                         *)
(* They run on three kinds of thread: the thread that sends (it holds      *)
(* _request_lock), the receive thread, and one timer thread per request.   *)
(* Only the registry's own operations are atomic, so every handler that    *)
(* touches shared state more than once is split where another thread can   *)
(* get in between: send into Register and Transmit/SendFails; receive into *)
(* HandleMessage (the guard), TakeList, Pop, RunListed and Finish; expiry  *)
(* into TimerFires (the thread is past the point where Timer.cancel()      *)
(* stops it), Expire (the registry lock) and OnRequestTimeout (after it is *)
(* released); the end of a session into CloseSocket, CancelAll and         *)
(* ClearDeferreds.                                                         *)
(***************************************************************************)
EXTENDS Naturals, Sequences, FiniteSets

CONSTANTS
    Names,        \* response names, e.g. "ADD_ROSPEC_RESPONSE"
    Untracked,    \* names the application also sends for without a callback
    MaxId,        \* LLRP_MSG_ID_MAX, where the message counter wraps
    StaleLimit,   \* PendingRequestRegistry(stale_limit)
    MaxRequests,  \* bound on the registered requests of a behaviour
    MaxSessions,  \* bound on the transport sessions of a behaviour
    Timed,        \* which requests get a timer: config.request_timeout set or not
    ExactIds,     \* whether the reader echoes the MessageID it is answering
    LateAnswers   \* whether it repeats answers older than the stale memory

ASSUME NamesAssumption   == Names # {} /\ Untracked \subseteq Names
ASSUME MaxIdAssumption   == MaxId \in Nat \ {0}
ASSUME StaleAssumption   == StaleLimit \in Nat \ {0}
ASSUME BoundsAssumption  == MaxRequests \in Nat /\ MaxSessions \in Nat \ {0}
ASSUME TimedAssumption   == Timed \subseteq BOOLEAN
ASSUME ReaderAssumption  == ExactIds \in BOOLEAN /\ LateAnswers \in BOOLEAN

VARIABLES
    last_msg_id,  \* LLRPClient.last_msg_id
    pending,      \* PendingRequestRegistry._pending: one request per key
    stale,        \* PendingRequestRegistry._stale, oldest first
    deferreds,    \* LLRPClient._deferreds: the callbacks listed under a name
    armed,        \* requests whose Timer is running and can be cancelled
    fired,        \* timers that fired and have not yet taken the registry lock
    expired,      \* requests popped by _expire, on_timeout not yet called
    sending,      \* the request registered and not yet written (_request_lock)
    rx,           \* the response under dispatch, and how far it has come
    held,         \* the list of callbacks processDeferreds took for it
    link,         \* the transport session, up or on its way down
    asked,        \* keys the reader was sent and may answer, once or repeatedly
    nreq,         \* requests made so far; a callback is named by this number
    session,      \* transport sessions so far
    born,         \* history: the session in which a callback was registered
    key,          \* history: the key of the request a callback was given to
    runs,         \* history: how often a callback was called
    torn          \* history: sessions that ended around a response under dispatch

vars == << last_msg_id, pending, stale, deferreds, armed, fired, expired, sending,
           rx, held, link, asked, nreq, session, born, key, runs, torn >>

registry == << pending, stale, armed >>
timers   == << fired, expired >>
receiver == << rx, held >>
history  == << born, key, torn >>

Ids       == 1 .. MaxId
Keys      == Names \X Ids
Callbacks == 1 .. MaxRequests
Sessions  == 1 .. MaxSessions
Requests  == [name : Names, id : Ids, cb : Callbacks]
Responses == [name : Names, id : Ids, step : {"guarded", "taken", "unmatched", "ran"}]

NoRequest  == [name |-> "none", id |-> 0, cb |-> 0]
NoResponse == [name |-> "none", id |-> 0, step |-> "idle"]

(* The identity of a request and of the response to it. *)
Key(r) == << r.name, r.id >>
NoKey  == Key(NoRequest)

(***************************************************************************)
(* processDeferreds works on the list it looked up: as long as _deferreds  *)
(* has the same list (shared) it sees what others add and remove; once     *)
(* another thread removed the entry, the list is its own (cbs).            *)
(***************************************************************************)
Lists     == [shared : BOOLEAN, cbs : SUBSET Callbacks]
Shared    == [shared |-> TRUE, cbs |-> {}]
Own(cbs)  == [shared |-> FALSE, cbs |-> cbs]

TypeOK ==
    /\ last_msg_id \in 0 .. MaxId
    /\ pending \subseteq Requests
    /\ stale \in Seq(Keys)
    /\ deferreds \in [Names -> SUBSET Callbacks]
    /\ armed \subseteq Requests
    /\ fired \subseteq Requests
    /\ expired \subseteq Requests
    /\ sending \in Requests \cup {NoRequest}
    /\ rx \in Responses \cup {NoResponse}
    /\ held \in Lists
    /\ link \in {"up", "closed", "cancelled", "down"}
    /\ asked \subseteq Keys
    /\ nreq \in 0 .. MaxRequests
    /\ session \in Sessions
    /\ born \in [Callbacks -> {0} \cup Sessions]
    /\ key \in [Callbacks -> Keys \cup {NoKey}]
    /\ runs \in [Callbacks -> Nat]
    /\ torn \subseteq Sessions

-----------------------------------------------------------------------------
(* Queries and helpers of the registry. *)

StaleKeys == { stale[i] : i \in 1 .. Len(stale) }

IsStale(k) == k \in StaleKeys

HasResponseType(n) == \E r \in pending : r.name = n

Contains(k) == \E r \in pending : Key(r) = k

(* _remember_stale: append once, drop the oldest key beyond the limit. *)
RememberStale(k) ==
    IF IsStale(k) THEN stale
    ELSE IF Len(stale) < StaleLimit THEN Append(stale, k)
    ELSE Append(Tail(stale), k)

(* The key that remembering k pushes out, if any. *)
Evicted(k) ==
    IF ~ IsStale(k) /\ Len(stale) >= StaleLimit THEN {Head(stale)} ELSE {}

(* Faulty variant: the reused key stays among the stale ones. *)
ForgetStaleNot(k) == stale

(* register() forgets the key it reuses; after a full turn of the counter   *)
(* only, so a key occurs at most once in stale.                             *)
ForgetStale(k) ==
    IF IsStale(k)
      THEN LET i == CHOOSE j \in 1 .. Len(stale) : stale[j] = k
           IN  [j \in 1 .. Len(stale) - 1 |->
                  IF j < i THEN stale[j] ELSE stale[j + 1]]
      ELSE stale

(* Faulty variant: the counter does not wrap. *)
NextMessageIdUnwrapped == last_msg_id + 1

(* _next_message_id *)
NextMessageId == IF last_msg_id < MaxId THEN last_msg_id + 1 ELSE 1

(* Calling a set of callbacks, each once. *)
Run(cbs) == [c \in Callbacks |-> IF c \in cbs THEN runs[c] + 1 ELSE runs[c]]

-----------------------------------------------------------------------------
Init ==
    /\ last_msg_id = 0
    /\ pending = {}
    /\ stale = << >>
    /\ deferreds = [n \in Names |-> {}]
    /\ armed = {} /\ fired = {} /\ expired = {}
    /\ sending = NoRequest
    /\ rx = NoResponse
    /\ held = Own({})
    /\ link = "up"
    /\ asked = {}
    /\ nreq = 0
    /\ session = 1
    /\ born = [c \in Callbacks |-> 0]
    /\ key = [c \in Callbacks |-> NoKey]
    /\ runs = [c \in Callbacks |-> 0]
    /\ torn = {}

(* A request of this type may be sent: none is pending, no callback listed. *)
Sendable(n) == sending = NoRequest /\ ~ HasResponseType(n) /\ deferreds[n] = {}

(***************************************************************************)
(* _send_request up to the write: refused while a request of the same type *)
(* is pending or its callback is still listed; otherwise the callback is   *)
(* listed, the request registered and its timer started.  A reused key is  *)
(* an old request's no longer: the reader does not answer, and the receive *)
(* thread is not still dispatching, what lies a full turn of the 32-bit    *)
(* counter back.                                                           *)
(***************************************************************************)
Register(n) ==
    LET r == [name |-> n, id |-> NextMessageId, cb |-> nreq + 1] IN
    /\ Sendable(n)
    /\ nreq < MaxRequests
    /\ Key(r) # Key(rx)
    /\ nreq' = nreq + 1
    /\ last_msg_id' = NextMessageId
    /\ deferreds' = [deferreds EXCEPT ![n] = @ \cup {r.cb}]
    /\ pending' = pending \cup {r}
    /\ stale' = ForgetStale(Key(r))
    /\ \E timed \in Timed : armed' = IF timed THEN armed \cup {r} ELSE armed
    /\ sending' = r
    /\ asked' = asked \ {Key(r)}
    /\ born' = [born EXCEPT ![r.cb] = session]
    /\ key' = [key EXCEPT ![r.cb] = Key(r)]
    /\ UNCHANGED << timers, receiver, link, session, runs, torn >>

(***************************************************************************)
(* The write succeeds; from here on the reader may answer.  The request    *)
(* may have expired while the write blocked; it is then stale, and the     *)
(* reader's answer counts as too old when even that has been forgotten.    *)
(***************************************************************************)
Transmit ==
    /\ sending # NoRequest
    /\ link = "up"
    /\ asked' = asked \cup
                  { k \in {Key(sending)} : Contains(k) \/ IsStale(k) \/ LateAnswers }
    /\ sending' = NoRequest
    /\ UNCHANGED << last_msg_id, registry, deferreds, timers, receiver, link, nreq,
                    session, history, runs >>

(***************************************************************************)
(* sendMessage outside _send_request, as DELETE_, ENABLE_ and              *)
(* DISABLE_ACCESSSPEC without a callback use it: refused like Register,    *)
(* but it registers nothing, so that nothing becomes stale by its answer.  *)
(* The write may fail; on a session that is down it does.                  *)
(***************************************************************************)
SendUntracked(n) ==
    LET k == << n, NextMessageId >> IN
    /\ Sendable(n)
    /\ k # Key(rx)
    /\ last_msg_id' = NextMessageId
    /\ \E written \in {link = "up", FALSE} :
          asked' = IF written THEN asked \cup {k} ELSE asked
    /\ UNCHANGED << registry, deferreds, timers, sending, receiver, link, nreq,
                    session, history, runs >>

(* Another thread removes the entry of n when its list is empty. *)
Detached(n, cbs) ==
    IF rx.name = n /\ held.shared /\ cbs = {} THEN Own({}) ELSE held

(* Faulty variant: the failed write leaves the callback listed. *)
SendFailsListed ==
    /\ sending # NoRequest
    /\ pending' = { r \in pending : Key(r) # Key(sending) }
    /\ armed' = armed \ (pending \ pending')
    /\ sending' = NoRequest
    /\ UNCHANGED << last_msg_id, stale, deferreds, timers, receiver, link, asked,
                    nreq, session, history, runs >>

(***************************************************************************)
(* The write raises: the request is cancelled without becoming stale and   *)
(* its callback is no longer listed.  The request may meanwhile have       *)
(* expired; its timer thread then still calls the callback.                *)
(***************************************************************************)
SendFails ==
    /\ sending # NoRequest
    /\ pending' = { r \in pending : Key(r) # Key(sending) }
    /\ armed' = armed \ (pending \ pending')
    /\ deferreds' = [deferreds EXCEPT ![sending.name] = @ \ {sending.cb}]
    /\ held' = Detached(sending.name, deferreds[sending.name] \ {sending.cb})
    /\ sending' = NoRequest
    /\ UNCHANGED << last_msg_id, stale, timers, rx, link, asked, nreq, session,
                    history, runs >>

-----------------------------------------------------------------------------
(***************************************************************************)
(* The receive thread's guard: a response that is stale, or that does not  *)
(* match the pending request of its type, is ignored.  The rest of a chunk *)
(* is still dispatched after the socket was closed.                        *)
(***************************************************************************)
HandleMessage(n, id) ==
    /\ rx = NoResponse
    /\ ExactIds => << n, id >> \in asked
    /\ ~ IsStale(<< n, id >>)
    /\ HasResponseType(n) => Contains(<< n, id >>)
    /\ rx' = [name |-> n, id |-> id, step |-> "guarded"]
    /\ torn' = IF link = "up" THEN torn ELSE torn \cup {session}
    /\ UNCHANGED << last_msg_id, registry, deferreds, timers, sending, held, link,
                    asked, nreq, session, born, key, runs >>

(***************************************************************************)
(* processDeferreds, as _runtime_fixes.py installs it, begins by looking   *)
(* up the list of the name.  Without an entry it makes a list of its own;  *)
(* debug logging may leave an entry that is empty.                         *)
(***************************************************************************)
TakeList ==
    /\ rx.step = "guarded"
    /\ rx' = [rx EXCEPT !.step = "taken"]
    /\ \/ held' = Shared
       \/ deferreds[rx.name] = {} /\ held' = Own({})
    /\ UNCHANGED << last_msg_id, registry, deferreds, timers, sending, link, asked,
                    nreq, session, history, runs >>

(* Unlisting callbacks in the list taken, which may be the one of _deferreds. *)
Unlist(cbs) ==
    IF held.shared
      THEN /\ deferreds' = [deferreds EXCEPT ![rx.name] = @ \ cbs]
           /\ held' = held
      ELSE /\ held' = Own(held.cbs \ cbs)
           /\ deferreds' = deferreds

(* The callbacks in the list taken. *)
Held == IF held.shared THEN deferreds[rx.name] ELSE held.cbs

(* Faulty variant: the request is looked up, and left in the registry. *)
PopExactLeft ==
    \E r \in pending :
        /\ rx.step = "taken"
        /\ Key(r) = Key(rx)
        /\ armed' = armed \ {r}
        /\ stale' = RememberStale(Key(r))
        /\ asked' = IF LateAnswers THEN asked ELSE asked \ Evicted(Key(r))
        /\ Unlist({r.cb})
        /\ runs' = Run({r.cb})
        /\ rx' = [rx EXCEPT !.step = "ran"]
        /\ UNCHANGED << last_msg_id, pending, timers, sending, link, nreq, session,
                        history >>

(* An exact match: that request's callback is unlisted and run. *)
PopExact ==
    \E r \in pending :
        /\ rx.step = "taken"
        /\ Key(r) = Key(rx)
        /\ pending' = pending \ {r}
        /\ armed' = armed \ {r}
        /\ stale' = RememberStale(Key(r))
        /\ asked' = IF LateAnswers THEN asked ELSE asked \ Evicted(Key(r))
        /\ Unlist({r.cb})
        /\ runs' = Run({r.cb})
        /\ rx' = [rx EXCEPT !.step = "ran"]
        /\ UNCHANGED << last_msg_id, timers, sending, link, nreq, session, history >>

(* No match; whether the key has gone stale since the guard is asked next. *)
PopNothing ==
    /\ rx.step = "taken"
    /\ ~ Contains(Key(rx))
    /\ rx' = [rx EXCEPT !.step = "unmatched"]
    /\ UNCHANGED << last_msg_id, registry, deferreds, timers, sending, held, link,
                    asked, nreq, session, history, runs >>

(* Faulty variant: LLRPClient.processDeferreds before _runtime_fixes.py. *)
RunListedOriginal ==
    /\ rx.step = "unmatched"
    /\ Unlist(Held) /\ runs' = Run(Held)
    /\ rx' = [rx EXCEPT !.step = "ran"]
    /\ UNCHANGED << last_msg_id, registry, timers, sending, link, asked, nreq,
                    session, history >>

(***************************************************************************)
(* A key that went stale since the guard runs nothing; any other response  *)
(* runs every callback in the list.  Nobody can make the key of a response *)
(* stale that is not pending, so the two lines are one step.               *)
(***************************************************************************)
RunListed ==
    /\ rx.step = "unmatched"
    /\ IF IsStale(Key(rx))
         THEN UNCHANGED << deferreds, held, runs >>
         ELSE Unlist(Held) /\ runs' = Run(Held)
    /\ rx' = [rx EXCEPT !.step = "ran"]
    /\ UNCHANGED << last_msg_id, registry, timers, sending, link, asked, nreq,
                    session, history >>

(* The entry of the name goes if the list taken is empty, whichever list the *)
(* entry has by now.                                                         *)
Finish ==
    /\ rx.step = "ran"
    /\ deferreds' = [deferreds EXCEPT ![rx.name] = IF Held = {} THEN {} ELSE @]
    /\ rx' = NoResponse
    /\ held' = Own({})
    /\ UNCHANGED << last_msg_id, registry, timers, sending, link, asked, nreq,
                    session, history, runs >>

ProcessDeferreds == TakeList \/ PopExact \/ PopNothing \/ RunListed \/ Finish

(* A branch of the state machine logs or raises without processDeferreds, or *)
(* a callback raises.                                                        *)
DropMessage ==
    /\ rx.step \in {"guarded", "ran"}
    /\ rx' = NoResponse
    /\ held' = Own({})
    /\ UNCHANGED << last_msg_id, registry, deferreds, timers, sending, link, asked,
                    nreq, session, history, runs >>

-----------------------------------------------------------------------------
(* A timer elapses: its thread starts and cancel() no longer stops it. *)
TimerFires(r) ==
    /\ r \in armed
    /\ armed' = armed \ {r}
    /\ fired' = fired \cup {r}
    /\ UNCHANGED << last_msg_id, pending, stale, deferreds, expired, sending,
                    receiver, link, asked, nreq, session, history, runs >>

(***************************************************************************)
(* _expire under the registry lock: whichever request is registered under  *)
(* the key is popped and its key remembered.  The oldest stale key goes;   *)
(* unless LateAnswers it is not the key of the response being dispatched   *)
(* this very moment (StaleLimit completions do not fit between two lines   *)
(* of handleMessage), and the reader does not repeat an answer that old.   *)
(***************************************************************************)
Expire(r) ==
    /\ r \in fired
    /\ fired' = fired \ {r}
    /\ \/ /\ ~ Contains(Key(r))
          /\ UNCHANGED << pending, expired, stale, asked >>
       \/ \E q \in pending :
             /\ Key(q) = Key(r)
             /\ LateAnswers \/ Key(rx) \notin Evicted(Key(q))
             /\ pending' = pending \ {q}
             /\ expired' = expired \cup {q}
             /\ stale' = RememberStale(Key(q))
             /\ asked' = IF LateAnswers THEN asked ELSE asked \ Evicted(Key(q))
    /\ UNCHANGED << last_msg_id, deferreds, armed, sending, receiver, link, nreq,
                    session, history, runs >>

(* Faulty variant: the timeout calls the callback and leaves it listed. *)
OnRequestTimeoutListed(r) ==
    /\ r \in expired
    /\ expired' = expired \ {r}
    /\ runs' = Run({r.cb})
    /\ UNCHANGED << last_msg_id, registry, deferreds, fired, sending, receiver, link,
                    asked, nreq, session, history >>

(* _on_request_timeout, outside the lock: unlist the callback, call it. *)
OnRequestTimeout(r) ==
    /\ r \in expired
    /\ expired' = expired \ {r}
    /\ deferreds' = [deferreds EXCEPT ![r.name] = @ \ {r.cb}]
    /\ held' = Detached(r.name, deferreds[r.name] \ {r.cb})
    /\ runs' = Run({r.cb})
    /\ UNCHANGED << last_msg_id, registry, fired, sending, rx, link, asked, nreq,
                    session, history >>

-----------------------------------------------------------------------------
(***************************************************************************)
(* The end of a session, by any thread at any moment: the socket is closed *)
(* and _reset_protocol_session cancels the requests (timers past           *)
(* cancellation go on), then clears the callbacks.                         *)
(***************************************************************************)
CloseSocket ==
    /\ link = "up"
    /\ link' = "closed"
    /\ torn' = IF rx.step \in {"idle", "ran"} THEN torn ELSE torn \cup {session}
    /\ UNCHANGED << last_msg_id, registry, deferreds, timers, sending, receiver, asked,
                    nreq, session, born, key, runs >>

CancelAll ==
    /\ link = "closed"
    /\ link' = "cancelled"
    /\ armed' = armed \ pending
    /\ pending' = {}
    /\ stale' = << >>
    /\ UNCHANGED << last_msg_id, deferreds, timers, sending, receiver, asked, nreq,
                    session, history, runs >>

ClearDeferreds ==
    /\ link = "cancelled"
    /\ link' = "down"
    /\ deferreds' = [n \in Names |-> {}]
    /\ held' = IF held.shared /\ rx # NoResponse THEN Own(deferreds[rx.name]) ELSE held
    /\ UNCHANGED << last_msg_id, registry, timers, sending, rx, asked, nreq, session,
                    history, runs >>

(***************************************************************************)
(* A new connection: by connect(), which refuses while the old receive     *)
(* thread lives, or by the receive thread itself.  A write in progress     *)
(* when the socket was closed has failed by the time a new one is open.    *)
(***************************************************************************)
Reconnect ==
    /\ link = "down"
    /\ session < MaxSessions
    /\ rx = NoResponse
    /\ sending = NoRequest
    /\ link' = "up"
    /\ session' = session + 1
    /\ asked' = {}
    /\ UNCHANGED << last_msg_id, registry, deferreds, timers, sending, receiver, nreq,
                    history, runs >>

Next ==
    \/ \E n \in Names : Register(n)
    \/ Transmit
    \/ \E n \in Untracked : SendUntracked(n)
    \/ SendFails
    \/ \E n \in Names, id \in Ids : HandleMessage(n, id)
    \/ ProcessDeferreds
    \/ DropMessage
    \/ \E r \in armed : TimerFires(r)
    \/ \E r \in fired : Expire(r)
    \/ \E r \in expired : OnRequestTimeout(r)
    \/ CloseSocket
    \/ CancelAll
    \/ ClearDeferreds
    \/ Reconnect

Spec == Init /\ [][Next]_vars

(***************************************************************************)
(* Timer threads run: an armed timer fires, a fired one gets the lock, an  *)
(* expired one reaches its callback.  A write returns or raises, a started *)
(* dispatch or teardown goes on.  Nothing is assumed of the reader: it may *)
(* never answer.                                                           *)
(***************************************************************************)
Fairness ==
    /\ \A c \in Callbacks :
         /\ WF_vars(\E r \in armed : r.cb = c /\ TimerFires(r))
         /\ WF_vars(\E r \in fired : r.cb = c /\ Expire(r))
         /\ WF_vars(\E r \in expired : r.cb = c /\ OnRequestTimeout(r))
    /\ WF_vars(Transmit \/ SendFails)
    /\ WF_vars(ProcessDeferreds \/ DropMessage)
    /\ WF_vars(CancelAll \/ ClearDeferreds)

FairSpec == Spec /\ Fairness

-----------------------------------------------------------------------------
(***************************************************************************)
(* The callbacks for which exact correlation is promised: no untracked     *)
(* request shares their response name, and no thread ended their session   *)
(* while a response was being dispatched.                                  *)
(***************************************************************************)
Protected(c) == key[c][1] \notin Untracked /\ born[c] \notin torn

(***************************************************************************)
(* AtMostOnce: such a callback runs at most once, however its timer, its   *)
(* response, duplicates of that response, a failing write and a session    *)
(* reset interleave (RELEASE_NOTES.md: "Request timeout and response races *)
(* cannot complete the same request twice").                               *)
(***************************************************************************)
AtMostOnce == \A c \in Callbacks : Protected(c) => runs[c] <= 1

(***************************************************************************)
(* NeverTwice: the same of every callback, as RELEASE_NOTES.md has it.     *)
(***************************************************************************)
NeverTwice == \A c \in Callbacks : runs[c] <= 1

(***************************************************************************)
(* SoleOutstanding: no two requests that expect the same response name are *)
(* pending together, although the registry itself would accept them.       *)
(* Matching "the" pending request of a type depends on it.                 *)
(***************************************************************************)
SoleOutstanding == \A r, q \in pending : r.name = q.name => r = q

(***************************************************************************)
(* PendingAnswerable: the key of a pending request is not among the stale  *)
(* ones, also after the message counter has come round to an ID that was   *)
(* remembered; the guard would throw the request's own response away.      *)
(***************************************************************************)
PendingAnswerable == \A r \in pending : ~ IsStale(Key(r))

(***************************************************************************)
(* ListedIsLive: a callback listed in _deferreds belongs to a request that *)
(* is pending, or whose timer thread is about to call it; but for the two  *)
(* lines of _reset_protocol_session.  A callback left behind would make    *)
(* _send_request refuse its type for the whole session.                    *)
(***************************************************************************)
ListedIsLive ==
    link # "cancelled" =>
        \A n \in Names : \A c \in deferreds[n] :
            \E r \in pending \cup expired : r.name = n /\ r.cb = c

(***************************************************************************)
(* Completable: what occupies a response name can still be completed.  A   *)
(* listed callback has its request behind it, and the guard does not throw *)
(* the response to a pending request away (API_REFERENCE.md: "At most one  *)
(* request for a symbolic response type can be pending").                  *)
(***************************************************************************)
Completable == ListedIsLive /\ PendingAnswerable

(***************************************************************************)
(* ExactCorrelation: when the receive thread runs a protected callback,    *)
(* the response it dispatches carries the name and the MessageID of the    *)
(* request the callback was given to (docs/runtime-state.rst: wrong-ID,    *)
(* stale or duplicate responses do not consume the wrong operation).       *)
(***************************************************************************)
Dispatches == rx.step \in {"taken", "unmatched"} /\ rx'.step = "ran"

DispatchedExactly ==
    Dispatches => \A c \in Callbacks :
        Protected(c) /\ runs'[c] # runs[c] => key[c] = Key(rx)
ExactCorrelation == [][DispatchedExactly]_vars

(***************************************************************************)
(* ConsumesOnlyItsOwn: the same of every callback, as the document says.   *)
(***************************************************************************)
ConsumedByItsOwn ==
    Dispatches => \A c \in Callbacks : runs'[c] # runs[c] => key[c] = Key(rx)
ConsumesOnlyItsOwn == [][ConsumedByItsOwn]_vars

(***************************************************************************)
(* SameSessionOnly: a callback runs in the session in which its request    *)
(* was made; resetting the session discards it (RELEASE_NOTES.md:          *)
(* "Disconnect and reconnect clear stale requests, timers, cached modes,   *)
(* and prior-session callbacks").                                          *)
(***************************************************************************)
RanInItsSession ==
    \A c \in Callbacks : runs'[c] # runs[c] => born[c] = session
SameSessionOnly == [][RanInItsSession]_vars

(***************************************************************************)
(* TypeUnblocked: when every request has a timeout, a response name that   *)
(* is taken becomes free again, whatever the reader does: neither a silent *)
(* reader nor an unlucky interleaving blocks a request type for good.      *)
(***************************************************************************)
TypeUnblocked ==
    \A n \in Names : (deferreds[n] # {}) ~> (deferreds[n] = {})

(***************************************************************************)
(* Refinement: the whole of it implements one slot per response name.      *)
(***************************************************************************)
Listed == UNION { deferreds[n] : n \in Names }
Called == { c \in Callbacks : runs[c] > 0 }

Slots == INSTANCE RequestSlots WITH
    slot <- [n \in Names |->
               IF deferreds[n] = {} THEN 0 ELSE CHOOSE c \in deferreds[n] : TRUE],
    done <- Called,
    abandoned <- (1 .. nreq) \ (Called \cup Listed)

(* ImplementsSlots: every behaviour is one of RequestSlots. *)
ImplementsSlots == Slots!SlotsSpec
=============================================================================
