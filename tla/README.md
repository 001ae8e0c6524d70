# TLA+ verification of sllurp

sllurp is a Python client for RFID readers that speak LLRP. This directory holds
TLA+ models of the parts of it that carry state, TLC configurations that check
them on small instances, and TLAPS proofs of some results for every size. Every
definition is translated from the source (`PROJECT.json`, "map", names the
lines); paths below are relative to the repository.

## The system

| Component | State it keeps | Operations | What is hard |
|---|---|---|---|
| Request registry (`sllurp/llrp_runtime.py`, `LLRPClient._send_request`, `processDeferreds` as `_runtime_fixes.py` installs it) | pending requests by (response name, MessageID), their timers, a bounded memory of stale keys, the callbacks listed under a name | send, receive, expire, cancel, reset | a timer thread, the receive thread and the sender share it; late, repeated and wrong answers; the memory and the counter wrap |
| Session state machine (`LLRPClient` in `sllurp/llrp.py`) | state, configuration, cached ROSpec, applied snapshot, pause timer and its generation | `handleMessage`, `startInventory`, `pause`, `resume`, `setTxPower`, `stopPolitely` | what a response does depends on the state in which it arrives; several chains of callbacks at once |
| Live configuration (`apply_config`, `ConfigTransition`) | old and new configuration, original state, whether the reader has been written | stop, install, write, restart, roll back | one step of several fails, times out, or is lost with the connection |
| Transport (`LLRPReaderClient`) | socket, receive thread, stop and disconnect flags, notification flag, duration timer | `connect`, `main_loop`, `on_lost_connection`, `_retry_connect`, `disconnect`, `hard_disconnect`, `_on_disconnected` | four kinds of thread close the same socket, without a lock |
| Framing (`raw_data_received`) | unfinished frame, bytes expected | one chunk | where a chunk is cut; lengths; a session that ends inside a frame |
| Deduplication (`sllurp/dedup.py`) | expiry per tag, expiry queue, evictions | `filter`, `reset`, `entry_count` | clock readings used out of order by several threads; eviction |
| Codec (`llrp_proto.py`, `llrp_decoder.py`, `llrp.py` `LLRPMessage`, `_protocol_fixes.py`) | the registry of parameters and messages | `serialize`, `deserialize`, `isSuccess` | 176 parameters whose encoders and decoders are written by hand; inner counts, repeated, unknown and damaged parameters |
| Capabilities and ROSpec (`parseCapabilities`, `LLRPROSpec`, `getROSpec`) | power table, RF mode, dedup backend in use | from a configuration to ADD_ROSPEC | index 0, gaps and ties in the power table; vendor options; what the reader cannot do |
| AccessSpecs (`startAccess`, `nextAccess`, `start_access_spec`) | none of its own; the reader's AccessSpecs | chains of requests | chains overlap each other and the polite stop; the reader removes a counted AccessSpec by itself |
| Secure LLRP, REST management, CLI verbs, profiles, EPC and lock helpers, logging | little | | input and output |

They interact as follows. The application calls `LLRPReaderClient` and
`LLRPClient` on its own threads. The receive thread reads the socket, frames the
stream, and hands each message to `LLRPClient.handleMessage`, which completes
requests through the registry; the completion callbacks send the next request.
Timer threads (request timeout, timed resume, inventory duration) run the same
callbacks. Tag reports pass through the deduplicator, which several readers may
share. `_reset_protocol_session` ties the transport to the rest: it discards
requests, callbacks, frame state and snapshots.

What makes them correct: a request is completed at most once and by its own
response; a configuration transition ends, and ends in all new or all old;
disconnecting ends the session, leaves the reader clean and is notified once;
messages are framed exactly; a tag is reported neither early nor late; what the
reader says and what the client asks for survive the conversion to bytes; the
access operation asked for last is the one in force.
`PROJECT.json` "hazards" lists what can go wrong, with the line where it bites and
the properties that watch it.

## Modules

* **`PendingRequests`** – the registry with its three kinds of thread. Only the
  registry's own operations are atomic, so each handler is split where another
  thread can get in: `Register`, then `Transmit` or `SendFails` (`_send_request`);
  `SendUntracked` (a request without a callback, which registers nothing);
  `HandleMessage` (the guard), then the lines of `processDeferreds` (`TakeList`,
  `PopExact` or `PopNothing`, `RunListed`, `Finish`), or `DropMessage`;
  `TimerFires` (past `Timer.cancel()`), `Expire` (under the lock),
  `OnRequestTimeout` (after it). A session ends in three steps, by any thread and
  around whatever is being dispatched: `CloseSocket`, `CancelAll`,
  `ClearDeferreds`; `Reconnect` begins the next. Variables carry the code's names
  where it has them; `asked` is what the reader may answer, `held` the list that
  `processDeferreds` works on, `born`, `key`, `runs` and `torn` (sessions that ended
  around a response under dispatch) are history.
* **`RequestSlots`** – the abstract specification of the above: one slot per
  response name, taken, completed once, or abandoned. `PendingRequests`
  implements it (`ImplementsSlots`).
* **`Session`** – handshake, inventory, pause, resume, tx power, disconnect and
  `apply_config` with its rollback, composed with a reader at the other end of a
  connection. The client is one record; each method is an operator on it, each
  completion callback a label that `Completed` runs. Requests follow
  `RequestSlots`: one outstanding per name, completed once; an answer to a
  timed-out request is ignored. A failing write is a matter of `PendingRequests`.
  A configuration is three values, its client-only, ROSpec and reader parts
  (`CONFIG_FIELD_POLICY`); a `reconnect` field is refused while connected and
  changes nothing. An `apply_config` that raises leaves no transition. A
  transition whose callbacks were discarded with the session is "abandoned".
* **`Transport`** – socket, flags and threads: `app`, `rx`, `timeout`,
  `duration`, each with a program counter. `hard_disconnect` is three steps
  (`Close` up to reading `_socket`, `Forget`, `Reset`), `_on_disconnected` is two
  (`Notify`, `Notifying`), `_retry_connect` tests its condition (`RetryLoop`) before
  an attempt that takes time (`RetryAttempt`). `_retry_connect` is the one
  `_runtime_fixes.py` installs, which raises whenever it ends without a connection.
  A polite stop begins with a DELETE_ACCESSSPEC and is refused while anybody's is
  outstanding (`deleting`); `refused` records that it was. A handler that closes
  returns to `raw_data_received`, which dispatches the rest of its chunk (`rest`,
  `RxRest`). What a message means is left to `Session`.
* **`Framer`** – `raw_data_received` on streams whose bytes are named by their
  offset, so that a wrong slice shows.
* **`Dedup`** – `filter` of several threads, one step per loop iteration.
* **`LLRPRegistry`** – the registry as data: a layout per encoder and per decoder
  (`int`, `bits`, `code`, `list`, `blob`, ...), the parameters each may hold and
  which of them repeat. Names, types and vendors are the code's.
* **`LLRPCodec`** – the code that walks them, for any registry of that form:
  headers, `decode_param`, `decode_all_parameters`, `encode_param`, with the ways
  each can fail. A byte is
  a number; a decoded value carries its kind (number, flag, name of a code,
  bytes, list, parameter).
* **`ReaderCapabilities`**, **`ROSpecBuilder`** – `parseCapabilities` with the
  choice of power, RF mode and dedup backend; `LLRPReaderConfig.validate` as far
  as it shapes an ROSpec, `LLRPROSpec` and `getROSpec`. `parseCapabilities` is the
  set of settings it may come to, because ties in the power table are broken by
  the order of a Python set; the empty set is a refusal.
* **`LLRPMessage`** – `serialize`, `deserialize` and `isSuccess` against a reader
  that puts together a message parameter by parameter (`Begin`, `AddAnchor`,
  `AddSample`, `Receive`), a client that encodes its own parameters (`Encode`),
  and a session that learns the reader's capabilities and builds its ROSpec
  (`Capabilities`, `Configure`).
* **`AccessSpecs`** – `startAccess`, `nextAccess`, the untracked delete and the
  polite stop as operators on the client record, as in `Session`; the reader keeps
  AccessSpecs and handles requests in order.
* **`PendingRequestsProofs`**, **`RequestSlotsProofs`** (the refinement),
  **`DedupProofs`**, **`TransportProofs`**, **`FramerProofs`**,
  **`AccessSpecsProofs`**, **`SessionProofs`**, **`SessionConfigProofs`** – theorems
  and proofs.
* **`MC…`** – the instances TLC checks. Operators marked "Faulty variant" are
  plausible bugs, used to show that each property can fail.

The reader, the TCP peer, the clock and the lock are external: they are modelled
from how the code uses them. The reader (`Acceptable`, `Obey`) holds at most one
ROSpec, since the client uses one ID, and rejects an ADD while it holds one.

## Runs

| Run | Result | Shows |
|---|---|---|
| `pending` | holds | What occupies a response name can be completed (`Completable`: its callback has a live request, whose response the guard does not throw away), and the name is not blocked for good (`TypeUnblocked`). One name, three timed requests, two sessions; the counter wraps after two messages and one stale key is remembered, so both limits are met. |
| `pending_mixed` | holds | Two names, one also used without a callback, two timed requests, one session with its end: callbacks of the other name run at most once (`AtMostOnce`) and for their own response (`ExactCorrelation`), and correlation implements one slot per response name (`ImplementsSlots`). |
| `session_apply` | holds | A transition reported successful is in force on both sides (`SuccessIsApplied`), one reported failed is rolled back or disconnected (`FailureRollsBack`), the applied snapshot is real (`AppliedIsReal`). Three calls of any kind, any request may be rejected, the connection may break, two sessions; with Impinj extensions. Three calls are enough for a transition, an interruption and what follows. |
| `session_settles` | holds | Against a reader that accepts what it is asked nothing is left waiting (`Settles`); a `disconnect()` in a settled state, whatever timers and callbacks earlier calls have left, completes and leaves no ROSpec (`DisconnectCompletes`, `CleanDisconnect`). The default options: the reader is reset and then inventory started on connecting. Four calls. |
| `session_timeouts` | holds | With `request_timeout`, every transition ends, even if the reader is silent. Here inventory starts without a reset; three calls. |
| `transport` | holds | One notification per session, no socket left open, nobody closes a later session, a loss is recovered or given up; with unlimited, no and two reconnection attempts, three sessions, end of file, fatal and other errors, and other requests outstanding. |
| `transport_ends` | holds | Without reconnection, `disconnect()` (unless its polite stop is refused because of another's DELETE_ACCESSSPEC) and `hard_disconnect()` end the thread; request timeouts, the duration timer and failed rollbacks race them. One session: see the divergences for two. |
| `framer` | holds | Exactly the messages of the stream are dispatched, none is held back, the buffer is bounded. Header of three bytes, lengths one to six with a maximum of five: shorter than a header, exact, and too long all occur; three messages, two sessions, every cut. |
| `dedup` | holds | No identity leaks or exceeds the bound, nothing is reported early or dropped late, `filter` returns. Two threads, two tags, room for one, four clock readings and a window of two, so that readings cross a window. |
| `codec` | holds | Any parameter of the registry between two others in a response, a report or an event, bare, full, with one inner parameter, or damaged: decoded as the reader meant (`DecodedAsSent`), damage stays inside its parameter (`DamageContained`), success is the reader's word (`SuccessIsReal`). Any parameter the client encodes is one parameter that decodes to the same value (`EncodedAsMeant`). A configuration is refused exactly when the reader cannot do it and is otherwise what ADD_ROSPEC says (`ROSpecAsConfigured`). Three parameters per message: one under test and a neighbour on each side, of a repeatable and of a single kind. Three readers (Zebra's timed reports; index 0 in use and a gap in the table; no table). |
| `access` | holds | When nothing is in flight the reader runs what was asked for last (`LastAccessInForce`), a polite stop leaves no AccessSpec and no ROSpec (`StopLeavesNothing`), no chain ends the session (`SessionSurvives`). Two identifiers, three calls, rejects and timeouts anywhere; one operation is unsupported and one count negative. Three calls are enough for two overlapping chains and a stop. |

| `session_lost_transition` | violated | see below |

Deadlock is not checked: all the models have bounds on what the application does
and may stop there.

### Where the code and its documentation disagree

The run `session_lost_transition` is expected to fail, and `PROJECT.json` "findings"
quotes the line: a connection lost during `apply_config` leaves the new configuration
installed, although "the old configuration remains authoritative until the transition
succeeds" (API_REFERENCE.md:607).

The same models show the following when TLC is given another property or another
constant. Each row names the module, the property, and what to change in the
configuration of a passing run. The rows explain what those runs assume.

| Property | Change | What happens |
|---|---|---|
| `PendingRequests`: `ConsumesOnlyItsOwn` | `pending_mixed` | The response to a DELETE_ACCESSSPEC sent without a callback passes the guard while nothing of its name is pending; a tracked delete registered before `processDeferreds` looks is completed by it. Its request stays pending, and its own response runs the callback again (docs/runtime-state.rst:61-63). |
| `NeverTwice` | `pending` | A session that ends between two looks of `processDeferreds` empties the stale memory: a request that has timed out is completed by its response as well (RELEASE_NOTES.md:131). |
| `ExactCorrelation` | `pending_mixed`: `LateAnswers = TRUE` | A response whose key the bounded stale memory drops while it is dispatched, or that is repeated after that, runs the callback of a newer request of its name. |
| `ExactCorrelation` | `pending_mixed`: `ExactIds = FALSE` | A reader that answers with an unknown MessageID is dispatched to every callback of that name if none was pending at `handleMessage`'s look, or the pending one expires between the two looks. |
| `SameSessionOnly` | `pending` | A timer past cancellation calls a prior session's callback (RELEASE_NOTES.md:127-128). |
| `Session`: `FailureRollsBack` | `session_timeouts` | A stop that timed out but was carried out is taken as not done: the client says INVENTORYING, the reader has no ROSpec (llrp.py:645-647). |
| `SentMeansOutstanding`, `Settles` | `session_settles`: `ResetOnConnect` and `StartInventoryOnConnect` `FALSE` | Nothing takes the client out of STATE_SENT_SET_CONFIG when it has connected (llrp.py:1319-1330; API_REFERENCE.md:645-646). |
| `SentMeansOutstanding` | `session_apply` | A rejected DELETE_ACCESSSPEC leaves a SENT state with nothing outstanding. |
| `CleanDisconnect` | `session_settles`: `AnyTime = TRUE` | `disconnect()` during the reset's chain of requests: the chain adds a ROSpec afterwards (DEVELOPER_GUIDE.md:78-79). |
| `DisconnectCompletes` | `session_settles`: `AnyTime = TRUE` | `disconnect()` during the handshake: the handshake changes the state the stop's response is matched against, and nothing completes it. |
| `AppliedIsReal` | `session_settles`: `"txpower_any"` in `Ops` | `setTxPower` changes the configuration in place while an older ROSpec is being added (docs/runtime-state.rst:30). |
| `AppliedIsReal` | `session_apply`: `"silent"` in `Outcomes` | The reader never answers the DELETE_ACCESSSPEC of the connection's setup and the application starts an inventory; `setTxPower` changes the configuration (llrp.py:1999) and its stop is then refused because that DELETE is outstanding; `pause` and `resume` enable the old ROSpec and record the new configuration as applied. |
| `NoStaleResume` | `session_settles` | `timed_resume` past its generation check is not stopped by `resume()` and another `pause()` (docs/runtime-state.rst:53-54). |
| `AccessSpecs`: `StopLeavesNothing` | `access`: `AnyTime = TRUE` | `disconnect()` during `nextAccess`: the chain's DELETE is refused because the stop's is pending, which raises on the receive thread; the connection closes with the ROSpec on the reader. |
| `SessionSurvives` | `access`: `AnyTime = TRUE` | `startAccess` during a `nextAccess` chain: the chain's ADD is refused in a callback, after the old AccessSpec was deleted, and the session ends. |
| `LastAccessInForce` | `access`: `AnyTime = TRUE` | `startAccess` on an identifier in use is rejected by the reader and only logged. |
| `Transport`: `NotifiedOnce` | `transport`: `Timeouts` or `Durations` `TRUE` | A timer thread that closes and the receive thread that fails on the closed socket both find the flag clear (API_REFERENCE.md:550-551). |
| `NotifiedAtAll` | `transport`: `"giveup"` in `Failures` | A rollback that gives up closes the connection without notifying (CHANGELOG.md:208-209, llrp.py:2707). |
| `EveryDisconnectEnds` | `transport_ends` | `disconnect()` while another operation's DELETE_ACCESSSPEC is outstanding raises, and the session goes on (llrp.py:1852, 2166). |
| `DisconnectEnds`, `HardDisconnectEnds` | `transport_ends`: `Reconnects = TRUE`, two sessions | A reconnection attempt under way when they are called succeeds, and the session goes on (llrp.py:3041). |
| `DurationEndsItsOwn` | `transport`: `Durations = TRUE` | A duration measured in a lost session disconnects the one after it (RELEASE_NOTES.md:127-128). |
| `ClosesItsOwn` | `transport`: `Timeouts = TRUE` | The timer thread of a polite stop that timed out closes the session after its own. |
| `ClosesItsOwn` | `transport`: `"hard_disconnect"` in `Calls` | `hard_disconnect()` during a reconnection closes the session that the receive thread opens meanwhile. |
| `Dedup`: `CountsOnlyLive` | `dedup` | `entry_count` includes expired identities (dedup.py:111). |

Translating the codec, the capabilities and the access chains showed the
following, which the models reproduce. `Asymmetric` in `LLRPMessage` leaves the
first group out of `EncodedAsMeant`'s comparison; their length is still checked.

* Encoder and decoder use different values: `ROSpec.CurrentState`,
  `ROSpecStartTrigger` and `AISpecStopTrigger` encode a name and decode a number,
  `KeepaliveSpec` the reverse; `AccessReportSpec` encodes a dictionary and decodes a
  scalar; `ReaderEventNotificationSpec` a dictionary and a list;
  `GPIPortCurrentState` writes its state as 0;
  `ImpinjIntelligentAntennaManagement` and `ImpinjAntennaEventConfiguration` write
  the truth of their value.
* `AISpec` adds `AntennaCount` when decoded; `C1G2SingulationControl` drops its inner
  parameter when encoded; inner parameters without an encoder are left out, those
  without a decoder (`C1G2Filter`, `C1G2Read`) come back as decode errors.
* `ReaderEventNotificationData` may hold a "ReportBufferLevelWarningEvent"; the
  registry's name is `ReportBufferLevelWarning`.
* A status code without a name leaves `StatusCode` out of the status: it is not a
  success, but where `handleMessage` reads it for its log it raises and ends the
  session. A TV parameter of unknown type is read as a TLV one.
* A reader that lists no RF mode makes `parseCapabilities` raise KeyError
  (llrp.py:911) even if no mode is asked for. `TransmitPowerValue` is read unsigned,
  so a negative power would be the strongest.
* `nextAccess` looks at its arguments only after the old AccessSpec is deleted: an
  operation it does not support ends the session (the `sound` history of
  `AccessSpecs`).

## Fairness

Liveness is checked with weak fairness of the threads: a started thread runs, a
timer elapses, a write returns or raises, a handler gets to its next line. The
GIL and the operating system schedule them. `Dedup` assumes strong fairness of
the lock. Nothing is assumed of the application. Of the reader only `Session`
assumes something: it gets to its requests, and `Outcomes` says whether it answers.
In `Transport` the reader need not send anything: `DisconnectEnds` holds because
the polite stop's timer elapses (`PoliteTimesOut`), and no strong fairness is
assumed. `TypeUnblocked`, `TransitionEnds` and `DisconnectEnds` hold against a silent
reader because requests have a timer; with `request_timeout = None` they do not.

## Assumptions of the models

* In the passing runs the reader echoes the MessageID (`ExactIds`) and does not repeat
  an answer older than the last `StaleLimit` (512 in the code) completions, nor do so
  many completions fit between two lines of `handleMessage` (`LateAnswers = FALSE`). A full turn of the 32-bit counter does not fit there.
* Correlation is promised to callbacks whose response name is not also used without
  one (`Untracked`) and whose session did not end around a response under dispatch
  (`Protected`); for the others see the divergences.
* A write under way when the socket is closed has failed before the next
  connection is open, and the receive thread finishes with a response before a
  new session begins: `connect()` refuses while it lives.
* A disciplined application (`AnyTime = FALSE`, `Opportune`) waits for the
  handshake, calls nothing after `disconnect()`, and calls `disconnect()` and
  `pause(force=True)` in a settled state. `setTxPower` is not called during a
  transition.
* `connect()` and the other calls of the application come from one thread, and
  the receive thread is started by `connect()`.
* Numbers that are only copied to the wire are their bytes; powers are in hundredths
  of a dBm; a float in a configuration is one that fits. A reader's parameters have
  the layout the decoder expects, except where one is damaged on purpose, and a
  damaged one still tells its length.
* In `AccessSpecs` the disciplined application starts on a free identifier when no
  chain is in progress and hangs up when none is; `nextAccess` may be called at any
  time. Two chains of `nextAccess` overlap up to the refusal of the second.
* `window_seconds` is positive; zero bypasses the deduplicator.

## Proofs

`tlapm` checks all eight proof modules to the last leaf.

**`PendingRequestsProofs`** is about any set of response names, tracked or not, any
counter size, stale limit, number of requests and sessions. `TypeCorrect`,
`NothingOrphaned` (`ListedIsLive` and `SoleOutstanding`), `NeverIgnored`
(`PendingAnswerable`) and `StaysCompletable` (`ListedIsLive` with
`PendingAnswerable`) need no more than the constants' assumptions, whatever the
reader answers: they follow from the books of the registry (`Books`: no two live requests
share a callback, a listed one has not run and is alone under its name, and what
`processDeferreds` took off the list is listed nowhere else). `CompletedOnce`
(`AtMostOnce`) and `ExactlyCorrelated` (`ExactCorrelation`) assume a reader that echoes
IDs and repeats no answer that has been forgotten (`Echoes`) and are about `Protected`
callbacks, because for the others the code does not satisfy them. That an unmatched
response finds nothing to run rests on this: what the reader may answer is pending,
stale, or about an untracked name (`AskedInv`), hence so is the response under
dispatch, unless the session ended around it (`RxInv`). `UnaskedInv` carries it through
a write that outlives its own timeout, `BornInv` and `DownInv` through a session that
ends while a callback is listed or already taken off the list.

**`DedupProofs`** is about any threads, tags, window and bound. The invariant adds
to the checked properties that a clock reading is not ahead of the clock
(`NowPast`), that a remembered expiry is that of the last report in force
(`SeenIsDue`) and that one in the future is remembered (`DueIsSeen`): the queue
need not be sorted, so purging by its head is safe only because an entry is
dropped when its own expiry has passed. `NothingLeaks`, `Bounded`, `NeverEarly`
and `NeverLate` follow.

**`RequestSlotsProofs`** shows that `PendingRequests` implements `RequestSlots`
(`RefinesSlots`), whatever the reader answers: by `Books` every step is a take, a
completion, an abandonment, a late call of an abandoned callback or a stutter. The
callbacks done are a set there, so that one does not run twice is `CompletedOnce`'s
to say.

**`TransportProofs`** is about any numbers of calls, sessions and retries. `Owned`
says who may open a socket: `connect()`, while no receive thread is registered, or
that thread, while it reconnects; the thread registered is the thread running, and
main_loop is stopped only when there is no socket or a thread in `hard_disconnect` is
about to clear it (`Forgetting`). It is inductive whatever closes,
and gives `NoOrphans` and `StartsOneWorker` with all four kinds of thread. For
`NotifiesOnce` there must be no request timeout and no duration (`NoTimers`), because
with either the callbacks do run twice (see the divergences): then the application's
thread does not notify while there is a receive thread (`Quiet`), and the flag says
exactly whether the current session has been reported (`Reported`).
`NotifiesAtAll` and `ClosesOwn` further assume that nobody calls
`hard_disconnect()`, whose notification is not promised and which may hit a
reconnection (`Alone`): then main_loop has its socket until it closes it itself
(`HasSocket`), a thread that closes is about the current session (`ClosesCurrent`),
and main_loop ends only after the callbacks (`Told`).

**`FramerProofs`** is about any header length, size limit, stream and cutting, with
no further hypothesis. The invariant says where parsing stands: the bytes in hand
are those from the end of the last message dispatched (`Done`) to the last byte
received, minus those already consumed (`ParsingInv`); what waits is short of the
header or of the message it waits for (`WaitingInv`). Slices are handled by lemmas
on ranges of byte offsets. `Streams` says directly that ends increase, instead of
each being behind its predecessor: the two are the same, but the step between them
is an induction.

**`AccessSpecsProofs`** is about any identifiers, operations, counts and number of
calls, with rejects and timeouts anywhere. The theorems assume the disciplined
application (`~AnyTime`), because without it all three properties fail (see the
divergences). Several chains may be under way, one in each phase. That a callback
finds the name it needs free rests on the order of the wire: of two requests
outstanding in different phases the later phase is answered first (`Wired`), and
every outstanding request has one message on the wire (`Tracked`). `StopInv`
follows the polite stop through its five phases.

`LastInForce` needs the history of each chain on top of its phase (`Lasting`). For
each identifier, the request in the earliest phase is the one asked for last
(`Underway`): a chain about the same identifier that started before it is further
on, and its ENABLE is harmless because the later DELETE follows it on the wire. An ADD
arrives where the reader has no AccessSpec of that identifier by then (`Vacant`), so
it is not rejected (`Added`); a chain told that its AccessSpec is gone finds it
still so (`Emptied`); nothing about an identifier follows its last ADD (`Adding`);
and when no request about it is outstanding, what is still on its way brings about
what was asked for (`Landing`). The proof shows that the application's calls, each
response and each request the reader handles keep this. It uses that no supported
operation is the absent one, which `AccessAssumption` says.

**`SessionProofs`** is about any configurations, options, calls and number of
sessions, with rejects, silence and timeouts anywhere and no further hypothesis.
`TypeCorrect` needs more than the types it states: which callbacks may wait for
which response (`Waiting`), since `Stopped` and `ReaderConfigSet` know no others;
that a transition remembers a settled state to return to; what is in flight; and
that a handler which leaves closing to its caller does not close (`Keeps`). There is
one lemma per method of `LLRPClient`, and each action cites the methods it calls.

**`SessionConfigProofs`** is about what `get_config_state()` and `apply_config` promise:
`AppliedReal`, `SucceedsApplied` and `FailsRolledBack`, for any configurations,
options, calls and sessions, and whatever the reader rejects and whenever the
connection breaks. They assume `Disciplined`, and each conjunct is needed: with
`AnyTime` the application calls in the middle of a handshake or of a chain; with
`Timeouts` or a silent reader an answer that is late or missing leaves the client's
view of the reader wrong; `"txpower_any"` is `setTxPower` outside the states where it
is meant to be called (the divergences have an execution for the last three).
`DisconnectsCleanly` moreover needs a connection that does not break and a reader that
rejects only what it cannot do.

The invariant describes the moments between two handlers (`Conversation`). The client
is disconnected (`Gone`), at rest with nothing in flight (`Resting`), waiting for one
response that a known callback takes (`Waits`), or has written a second request while
it waited, so that the response that comes first is not the one its state expects and
ends the session (`Doomed`). For a client that waits, `Purpose`, `Outstands`, `Asking`
and `Answered` relate the callback, the request, the reader and the pending transition,
before and after the reader has dealt with the request: which configuration is in
force on each side at that step of the transaction or of its rollback. `Ends` says
that a handler ends a transition only as promised. There is one lemma per callback,
handler and call of the application, and one per action (`CInvStep`) that gives
the invariant after the step and the action properties together.

Only model-checked: the liveness properties, since the prover does not reason about
fairness or `ENABLED`; and the properties of `LLRPMessage`, since the codec's walks
are recursive operators over bytes, which the prover cannot reason about. Every other
property of a passing run is stated by a theorem.

## How the data was compared with the code

The registry, the codec and the ROSpec were also compared with the Python package
by running both: the names, types and vendors of all parameters and messages; 324
well-formed and 2415 damaged messages decoded; 134 parameters encoded; 1972 pairs of
a reader and a configuration, whose ADD_ROSPEC is equal byte for byte, and 3532 that
both refuse.

## Not modelled, and the plan

* Secure LLRP and REST management, and the readers' HTTP interfaces
  (`zebra_management.py`, `intermec_management.py`, `reader_management.py`): one
  call, one response, input and output of third-party stacks.
* Command line verbs, profiles, logging: argument handling, static data, output.
* Lock and EPC helpers: pure functions of a few lines, whose reference definition
  would repeat them.
* `llrp_data2xml`, a rendering.
* Validation of the transport's configuration fields and the per-field plan of
  `apply_config`, which `Session` takes in three parts.
* The dispatch of RO_ACCESS_REPORT to callbacks; `disconnect_all_readers` as a whole.

What remains: the fields of the transport's configuration and the per-field plan of
`apply_config`, which would replace the three parts a configuration has in `Session`.
