----------------------------- MODULE Transport -----------------------------
(***************************************************************************)
(* The transport of LLRPReaderClient (llrp.py): its socket, its receive    *)
(* thread and the threads that may close it.  Nothing but the callback     *)
(* lists is locked, so the shared fields are read and written between any  *)
(* two steps of another thread:                                            *)
(*   app       connect(), disconnect(), hard_disconnect();                 *)
(*   rx        main_loop, on_lost_connection, reconnecting;                *)
(*   timeout   a request timer, whose callback completes a polite stop or  *)
(*             a failed rollback;                                          *)
(*   duration  the inventory-duration timer, which calls disconnect().     *)
(* What the messages mean is Session's; here a message is ordinary, or it  *)
(* completes the polite stop, or its handler raises or gives up.  Of the   *)
(* requests one thing matters, whether a DELETE_ACCESSSPEC is outstanding, *)
(* because the polite stop begins with one.                                *)
(***************************************************************************)
EXTENDS Integers, FiniteSets

CONSTANTS
    Calls,       \* what the application calls
    MaxCalls,    \* bound on the calls
    Reconnects,  \* config.reconnect
    Retries,     \* the values config.reconnect_retries takes
    Timeouts,    \* config.request_timeout is set
    Durations,   \* config.disconnect_when_done with a duration
    Failures,    \* what else may end a session, see RxDispatch
    MaxSessions  \* bound on the connections made

ASSUME TransportAssumption ==
    /\ Calls \subseteq {"connect", "disconnect", "hard_disconnect", "delete"}
    /\ {Reconnects, Timeouts, Durations} \subseteq BOOLEAN
    /\ Failures \subseteq {"eof", "fatal", "error", "giveup"}
    /\ MaxCalls \in Nat /\ MaxSessions \in Nat
    /\ Retries \subseteq Nat \cup {-1} /\ Retries # {}

VARIABLES
    pc,        \* where each thread is
    left,      \* remaining_attempts, per thread that reconnects
    seen,      \* the socket main_loop selects on
    lost,      \* lost_connection
    socket,    \* _socket: the number of the session it belongs to, or NoSocket
    broken,    \* the peer has closed it
    worker,    \* _socket_thread is set
    stop,      \* _stop_main_loop
    requested, \* disconnect_requested
    notified,  \* _disconnected_notified
    rest,      \* the receive thread has the rest of a chunk to dispatch
    polite,    \* the callback of disconnect()'s polite stop is registered
    deleting,  \* for whom a DELETE_ACCESSSPEC_RESPONSE is pending
    refused,   \* history: another's request refused disconnect() its polite stop
    duration,  \* _duration_timer
    sessions,  \* connections made
    closing,   \* history: the session a thread was to close
    notes,     \* history: disconnect notifications in each session
    calls

requests == << polite, deleting, refused >>

vars == << pc, left, seen, lost, rest, socket, broken, worker, stop, requested, notified,
           requests, duration, sessions, closing, notes, calls >>

Procs    == {"app", "rx", "timeout", "duration"}
NoSocket == 0

(* The steps of hard_disconnect and _on_disconnected, on any thread. *)
Closing == {"close", "forget", "reset", "notify", "notifying",
            "only_close", "only_forget", "only_reset"}
Steps   == {"idle", "connecting", "retrying", "trying", "delay", "start", "polite"} \cup Closing
RxSteps == {"none", "begin", "select", "ready", "rest", "check", "lost",
            "drop", "drop_forget", "dropped", "retrying", "trying", "delay", "recovered", "end"} \cup Closing

TypeOK ==
    /\ pc \in [Procs -> Steps \cup RxSteps \cup {"elapsed"}]
    /\ pc["rx"] \in RxSteps /\ pc["app"] \in Steps
    /\ {pc["timeout"], pc["duration"]} \subseteq Steps \cup {"elapsed"}
    /\ left \in [{"app", "rx"} -> Nat \cup {-1}]
    /\ {seen, socket, sessions} \subseteq 0 .. MaxSessions
    /\ {lost, rest, broken, worker, stop, requested, notified, polite, refused, duration}
         \subseteq BOOLEAN
    /\ deleting \in {"nobody", "disconnect", "other"}
    /\ closing \in [Procs -> 0 .. MaxSessions]
    /\ notes \in [0 .. MaxSessions -> Nat]
    /\ calls \in 0 .. MaxCalls

Goto(p, step) == pc' = [pc EXCEPT ![p] = step]

Init ==
    /\ pc = [p \in Procs |-> IF p = "rx" THEN "none" ELSE "idle"]
    /\ left = [p \in {"app", "rx"} |-> 0]
    /\ seen = NoSocket /\ lost = FALSE /\ rest = FALSE
    /\ socket = NoSocket /\ broken = FALSE
    /\ worker = FALSE /\ stop = FALSE /\ requested = FALSE /\ notified = FALSE
    /\ polite = FALSE /\ deleting = "nobody" /\ refused = FALSE /\ duration = FALSE
    /\ sessions = 0
    /\ closing = [p \in Procs |-> 0]
    /\ notes = [n \in 0 .. MaxSessions |-> 0]
    /\ calls = 0

-----------------------------------------------------------------------------
(* hard_disconnect and _on_disconnected.                                    *)

(* Faulty variant: main_loop is not left. *)
FinishedLooping(p) == "idle"

(***************************************************************************)
(* Where a thread goes on after closing.  A handler that closed returns to *)
(* raw_data_received, which has the rest of its chunk to dispatch; else    *)
(* the receive thread has left main_loop, or leaves it as it finds         *)
(* _stop_main_loop set.                                                    *)
(***************************************************************************)
Finished(p) ==
    CASE p = "rx" /\ rest   -> "rest"
      [] p = "rx" /\ ~ rest -> "end"
      [] OTHER              -> "idle"

(* A thread sets out to close the session that is current. *)
BeginClose(p, step) ==
    /\ Goto(p, step)
    /\ closing' = [closing EXCEPT ![p] = sessions]

(* Faulty variant: hard_disconnect also forgets the receive thread. *)
CloseForgetting(p) ==
    /\ pc[p] \in {"close", "only_close", "drop"}
    /\ stop' = TRUE /\ duration' = FALSE /\ worker' = FALSE
    /\ Goto(p, CASE pc[p] = "close"      -> "forget"
                 [] pc[p] = "only_close" -> "only_forget"
                 [] OTHER                -> "drop_forget")
    /\ UNCHANGED << left, seen, lost, rest, socket, broken, requested, notified,
                    requests, sessions, closing, notes, calls >>

(* hard_disconnect: cancel the duration, stop the loop, read _socket, ... *)
Close(p) ==
    /\ pc[p] \in {"close", "only_close", "drop"}
    /\ stop' = TRUE /\ duration' = FALSE
    /\ Goto(p, CASE pc[p] = "close"      -> "forget"
                 [] pc[p] = "only_close" -> "only_forget"
                 [] OTHER                -> "drop_forget")
    /\ UNCHANGED << left, seen, lost, rest, socket, broken, worker, requested,
                    notified, requests, sessions, closing, notes, calls >>

Forgotten(p) ==
    CASE pc[p] = "forget"      -> "reset"
      [] pc[p] = "only_forget" -> "only_reset"
      [] OTHER                 -> "dropped"

(* Faulty variant: _socket is not cleared. *)
ForgetNothing(p) ==
    /\ pc[p] \in {"forget", "only_forget", "drop_forget"}
    /\ Goto(p, Forgotten(p))
    /\ UNCHANGED << left, seen, lost, rest, socket, broken, worker, stop, requested,
                    notified, requests, duration, sessions, closing, notes, calls >>

(***************************************************************************)
(* ... clear it and close what was read; a socket that another thread has  *)
(* opened in between is closed as nothing refers to it any more.           *)
(***************************************************************************)
Forget(p) ==
    /\ pc[p] \in {"forget", "only_forget", "drop_forget"}
    /\ socket' = NoSocket
    /\ Goto(p, Forgotten(p))
    /\ UNCHANGED << left, seen, lost, rest, broken, worker, stop, requested,
                    notified, requests, duration, sessions, closing, notes, calls >>

(* _reset_protocol_session discards what is pending. *)
Discard == polite' = FALSE /\ deleting' = "nobody" /\ UNCHANGED refused

(* hard_disconnect ends with it. *)
Reset(p) ==
    /\ pc[p] \in {"reset", "only_reset"}
    /\ Discard
    /\ Goto(p, IF pc[p] = "reset" THEN "notify" ELSE Finished(p))
    /\ UNCHANGED << left, seen, lost, rest, socket, broken, worker, stop, requested,
                    notified, duration, sessions, closing, notes, calls >>

(* Faulty variant: the flag is not looked at. *)
NotifyAlways(p) ==
    /\ pc[p] = "notify"
    /\ duration' = FALSE
    /\ Goto(p, "notifying")
    /\ UNCHANGED << left, seen, lost, rest, socket, broken, worker, stop, requested,
                    notified, requests, sessions, closing, notes, calls >>

(* _on_disconnected looks at the flag, ... *)
Notify(p) ==
    /\ pc[p] = "notify"
    /\ duration' = FALSE
    /\ Goto(p, IF notified THEN Finished(p) ELSE "notifying")
    /\ UNCHANGED << left, seen, lost, rest, socket, broken, worker, stop, requested,
                    notified, requests, sessions, closing, notes, calls >>

(* ... sets it, and calls the callbacks. *)
Notifying(p) ==
    /\ pc[p] = "notifying"
    /\ notified' = TRUE
    /\ notes' = [notes EXCEPT ![sessions] = @ + 1]
    /\ Goto(p, Finished(p))
    /\ UNCHANGED << left, seen, lost, rest, socket, broken, worker, stop, requested,
                    requests, duration, sessions, closing, calls >>

-----------------------------------------------------------------------------
(* Connecting.                                                              *)

(* Faulty variant: the notification flag of the last session stays set. *)
OpenSocketNotified ==
    /\ socket = NoSocket
    /\ sessions < MaxSessions
    /\ sessions' = sessions + 1
    /\ socket' = sessions + 1 /\ broken' = FALSE
    /\ UNCHANGED notified

(* _connect_socket succeeds. *)
OpenSocket ==
    /\ socket = NoSocket
    /\ sessions < MaxSessions
    /\ sessions' = sessions + 1
    /\ socket' = sessions + 1 /\ broken' = FALSE
    /\ notified' = FALSE

(* It is bounded by MaxSessions and then fails. *)
OpenFails == UNCHANGED << sessions, socket, broken, notified >>

(* connect(): refused while a receive thread is registered. *)
Connect ==
    /\ pc["app"] = "idle" /\ calls < MaxCalls /\ "connect" \in Calls
    /\ ~ worker
    /\ calls' = calls + 1
    /\ requested' = FALSE
    /\ Discard
    /\ Goto("app", "connecting")
    /\ UNCHANGED << left, seen, lost, rest, socket, broken, worker, stop, notified,
                    duration, sessions, closing, notes >>

ConnectSocket ==
    /\ pc["app"] = "connecting"
    /\ \/ OpenSocket /\ Goto("app", "start") /\ UNCHANGED left
       \/ /\ OpenFails
          /\ Goto("app", IF Reconnects THEN "retrying" ELSE "idle")
          /\ \E n \in Retries : left' = [left EXCEPT !["app"] = n]
    /\ UNCHANGED << seen, lost, rest, worker, stop, requested, requests, duration,
                    closing, notes, calls >>

(* The receive thread is started. *)
StartWorker ==
    /\ pc["app"] = "start"
    /\ stop' = FALSE /\ worker' = TRUE
    /\ pc' = [pc EXCEPT !["app"] = "idle", !["rx"] = "begin"]
    /\ UNCHANGED << left, seen, lost, rest, socket, broken, requested, notified,
                    requests, duration, sessions, closing, notes, calls >>

GivesUp(p) == left[p] = 0 \/ requested

(* Faulty variant: a failed attempt is not counted. *)
Uncounted(p) == left[p]

Counted(p) == IF left[p] > 0 THEN left[p] - 1 ELSE left[p]

(***************************************************************************)
(* _retry_connect, by connect() or by on_lost_connection: first the loop's *)
(* condition.  As _runtime_fixes.py installs it, it raises whenever it     *)
(* ends without a connection, and _on_disconnected follows.                *)
(***************************************************************************)
RetryLoop(p) ==
    /\ pc[p] = "retrying"
    /\ Goto(p, IF GivesUp(p) THEN "notify" ELSE "trying")
    /\ UNCHANGED << left, seen, lost, rest, socket, broken, worker, stop, requested,
                    notified, requests, duration, sessions, closing, notes, calls >>

(* Then an attempt, which takes its time. *)
RetryAttempt(p) ==
    /\ pc[p] = "trying"
    /\ \/ /\ OpenSocket
          /\ Goto(p, IF p = "app" THEN "start" ELSE "recovered")
          /\ UNCHANGED left
       \/ /\ OpenFails
          /\ left' = [left EXCEPT ![p] = Counted(p)]
          /\ Goto(p, IF Counted(p) = 0 THEN "notify" ELSE "delay")
    /\ UNCHANGED << seen, lost, rest, worker, stop, requested, requests, duration,
                    closing, notes, calls >>

(* The delay between attempts ends at once on a requested disconnect. *)
RetryDelay(p) ==
    /\ pc[p] = "delay"
    /\ Goto(p, IF requested THEN "notify" ELSE "retrying")
    /\ UNCHANGED << left, seen, lost, rest, socket, broken, worker, stop, requested,
                    notified, requests, duration, sessions, closing, notes, calls >>

-----------------------------------------------------------------------------
(* Disconnecting.                                                           *)

(* disconnect() up to its test of _socket_thread.  Without a receive thread *)
(* it cleans up itself.                                                     *)
DisconnectBy(p) ==
    /\ requested' = TRUE /\ refused' = FALSE
    /\ IF worker THEN Goto(p, "polite") /\ UNCHANGED closing
                 ELSE BeginClose(p, "close")
    /\ UNCHANGED << polite, deleting >>

Disconnect ==
    /\ pc["app"] = "idle" /\ calls < MaxCalls /\ "disconnect" \in Calls
    /\ calls' = calls + 1
    /\ DisconnectBy("app")
    /\ UNCHANGED << left, seen, lost, rest, socket, broken, worker, stop, notified,
                    duration, sessions, notes >>

(***************************************************************************)
(* stopPolitely: _send_request refuses it while a DELETE_ACCESSSPEC is     *)
(* outstanding, whoever sent it, and without a socket; a broken socket may *)
(* or may not refuse the write.                                            *)
(***************************************************************************)
StopPolitely(p) ==
    /\ pc[p] = "polite"
    /\ \/ /\ socket # NoSocket /\ deleting = "nobody"
          /\ polite' = TRUE /\ deleting' = "disconnect"
          /\ UNCHANGED refused
       \/ /\ socket = NoSocket \/ deleting # "nobody" \/ broken
          /\ refused' = (socket # NoSocket /\ deleting = "other" /\ ~ polite)
          /\ UNCHANGED << polite, deleting >>
    /\ Goto(p, "idle")
    /\ UNCHANGED << left, seen, lost, rest, socket, broken, worker, stop, requested,
                    notified, duration, sessions, closing, notes, calls >>

(* apply_config, setTxPower or nextAccess sends a DELETE_ACCESSSPEC. *)
DeleteAccessSpec ==
    /\ pc["app"] = "idle" /\ calls < MaxCalls /\ "delete" \in Calls
    /\ socket # NoSocket /\ deleting = "nobody"
    /\ calls' = calls + 1
    /\ deleting' = "other"
    /\ UNCHANGED << pc, left, seen, lost, rest, socket, broken, worker, stop,
                    requested, notified, polite, refused, duration, sessions,
                    closing, notes >>

(* Its timer completes it without closing anything. *)
DeleteTimesOut ==
    /\ Timeouts /\ deleting = "other"
    /\ deleting' = "nobody"
    /\ UNCHANGED << pc, left, seen, lost, rest, socket, broken, worker, stop,
                    requested, notified, polite, refused, duration, sessions,
                    closing, notes, calls >>

(* hard_disconnect() by the application, or disconnect_all_readers. *)
HardDisconnect ==
    /\ pc["app"] = "idle" /\ calls < MaxCalls /\ "hard_disconnect" \in Calls
    /\ calls' = calls + 1
    /\ BeginClose("app", "only_close")
    /\ UNCHANGED << left, seen, lost, rest, socket, broken, worker, stop, requested,
                    notified, requests, duration, sessions, notes >>

(* The polite stop is completed: what was pending of it is no longer. *)
EndPolite ==
    /\ polite
    /\ polite' = FALSE
    /\ deleting' = IF deleting = "disconnect" THEN "nobody" ELSE deleting
    /\ UNCHANGED refused

(* It times out: its callback closes, on the timer's thread. *)
PoliteTimesOut ==
    /\ Timeouts
    /\ pc["timeout"] = "idle"
    /\ EndPolite
    /\ BeginClose("timeout", "close")
    /\ UNCHANGED << left, seen, lost, rest, socket, broken, worker, stop, requested,
                    notified, duration, sessions, notes, calls >>

(* A request of a rollback times out: apply_config hard-disconnects there. *)
RollbackTimesOut ==
    /\ Timeouts /\ "giveup" \in Failures
    /\ socket # NoSocket
    /\ pc["timeout"] = "idle"
    /\ BeginClose("timeout", "only_close")
    /\ UNCHANGED << left, seen, lost, rest, socket, broken, worker, stop, requested,
                    notified, requests, duration, sessions, notes, calls >>

(* A handler that enters INVENTORYING arms the duration timer, ... *)
ScheduleDuration ==
    /\ Durations /\ ~ duration
    /\ pc["rx"] = "ready"
    /\ duration' = TRUE
    /\ UNCHANGED << pc, left, seen, lost, rest, socket, broken, worker, stop,
                    requested, notified, requests, sessions, closing, notes, calls >>

(* ... which elapses, ... *)
DurationElapses ==
    /\ duration /\ pc["duration"] = "idle"
    /\ duration' = FALSE
    /\ BeginClose("duration", "elapsed")
    /\ UNCHANGED << left, seen, lost, rest, socket, broken, worker, stop, requested,
                    notified, requests, sessions, notes, calls >>

(* ... and disconnects, unless that is no longer needed. *)
DurationExpired ==
    /\ pc["duration"] = "elapsed"
    /\ IF socket # NoSocket /\ ~ requested
         THEN DisconnectBy("duration")
         ELSE Goto("duration", "idle") /\ UNCHANGED << requested, requests, closing >>
    /\ UNCHANGED << left, seen, lost, rest, socket, broken, worker, stop, notified,
                    duration, sessions, notes, calls >>

-----------------------------------------------------------------------------
(* The receive thread.                                                      *)

RxBegin ==
    /\ pc["rx"] = "begin"
    /\ Goto("rx", IF socket = NoSocket THEN "end" ELSE "select")
    /\ UNCHANGED << left, seen, lost, rest, socket, broken, worker, stop, requested,
                    notified, requests, duration, sessions, closing, notes, calls >>

(* The socket is read afresh; select() on none raises. *)
RxSelect ==
    /\ pc["rx"] = "select"
    /\ lost' = FALSE
    /\ seen' = socket
    /\ IF socket = NoSocket THEN BeginClose("rx", "close")
                            ELSE Goto("rx", "ready") /\ UNCHANGED closing
    /\ UNCHANGED << left, rest, socket, broken, worker, stop, requested, notified,
                    requests, duration, sessions, notes, calls >>

(* A socket closed by another thread: select() raises, or it returns and   *)
(* the socket is no longer the client's, or recv() fails.                  *)
RxClosed ==
    /\ pc["rx"] = "ready" /\ seen # socket
    /\ \/ BeginClose("rx", "close") /\ UNCHANGED lost
       \/ Goto("rx", "check") /\ UNCHANGED << lost, closing >>
       \/ Goto("rx", "check") /\ lost' = TRUE /\ UNCHANGED closing
    /\ UNCHANGED << left, seen, rest, socket, broken, worker, stop, requested, notified,
                    requests, duration, sessions, notes, calls >>

(* An ordinary message has a handler send a DELETE_ACCESSSPEC, or answers   *)
(* one; the polite stop then goes on with DELETE_ROSPEC.                    *)
Ordinary ==
    /\ \/ UNCHANGED deleting
       \/ socket # NoSocket /\ deleting = "nobody" /\ deleting' = "other"
       \/ deleting # "nobody" /\ deleting' = "nobody"
    /\ UNCHANGED << polite, refused >>

(***************************************************************************)
(* Data arrived (recv() may have returned it before another thread closed  *)
(* the socket).  The message is ordinary, or it completes the polite stop; *)
(* or a handler raises ReaderConfigurationError ("fatal") or another error *)
(* ("error"), or a rollback fails and apply_config hard-disconnects        *)
(* ("giveup").                                                             *)
(***************************************************************************)
Raises == {"fatal", "error"} \cap Failures # {}

RxDispatch ==
    /\ pc["rx"] = "ready" /\ ~ broken
    /\ \/ Ordinary /\ Goto("rx", "check") /\ UNCHANGED << rest, closing >>
       \/ Raises /\ BeginClose("rx", "close") /\ UNCHANGED << rest, requests >>
       \/ /\ "giveup" \in Failures
          /\ rest' = TRUE
          /\ BeginClose("rx", "only_close") /\ UNCHANGED requests
    /\ UNCHANGED << left, seen, lost, socket, broken, worker, stop, requested,
                    notified, duration, sessions, notes, calls >>

(* Faulty variant: the completion of the polite stop does not close. *)
RxPolitelyStoppedOpen ==
    /\ pc["rx"] = "ready" /\ ~ broken
    /\ EndPolite
    /\ Goto("rx", "check")
    /\ UNCHANGED << left, seen, lost, rest, socket, broken, worker, stop, requested,
                    notified, duration, sessions, closing, notes, calls >>

(* on_politely_stopped_cb: hard_disconnect, then _on_disconnected. *)
RxPolitelyStopped ==
    /\ pc["rx"] = "ready" /\ ~ broken
    /\ EndPolite
    /\ rest' = TRUE
    /\ BeginClose("rx", "close")
    /\ UNCHANGED << left, seen, lost, socket, broken, worker, stop, requested,
                    notified, duration, sessions, notes, calls >>

(* raw_data_received after such a handler: a connection event or a damaged  *)
(* message in the rest of the chunk raises; the others are ignored.         *)
RxRest ==
    /\ pc["rx"] = "rest"
    /\ rest' = FALSE
    /\ \/ Goto("rx", "end") /\ UNCHANGED closing
       \/ Raises /\ BeginClose("rx", "close")
    /\ UNCHANGED << left, seen, lost, socket, broken, worker, stop, requested,
                    notified, requests, duration, sessions, notes, calls >>

(* The peer closes the connection, and recv() says so. *)
PeerCloses ==
    /\ "eof" \in Failures
    /\ socket # NoSocket /\ ~ broken
    /\ broken' = TRUE
    /\ UNCHANGED << pc, left, seen, lost, rest, socket, worker, stop, requested,
                    notified, requests, duration, sessions, closing, notes, calls >>

RxEof ==
    /\ pc["rx"] = "ready" /\ seen = socket /\ broken
    /\ lost' = TRUE
    /\ Goto("rx", "check")
    /\ UNCHANGED << left, seen, rest, socket, broken, worker, stop, requested, notified,
                    requests, duration, sessions, closing, notes, calls >>

RxCheck ==
    /\ pc["rx"] = "check"
    /\ Goto("rx", IF stop THEN "end" ELSE IF lost THEN "lost" ELSE "select")
    /\ UNCHANGED << left, seen, lost, rest, socket, broken, worker, stop, requested,
                    notified, requests, duration, sessions, closing, notes, calls >>

(* on_lost_connection: setState(DISCONNECTED), then the requested case. *)
OnLostConnection ==
    /\ pc["rx"] = "lost"
    /\ duration' = FALSE
    /\ BeginClose("rx", IF requested THEN "close" ELSE "drop")
    /\ UNCHANGED << left, seen, lost, rest, socket, broken, worker, stop, requested,
                    notified, requests, sessions, notes, calls >>

(* After hard_disconnect: give up, or reconnect. *)
RxDropped ==
    /\ pc["rx"] = "dropped"
    /\ Discard
    /\ \E n \in Retries : left' = [left EXCEPT !["rx"] = n]
    /\ Goto("rx", IF Reconnects THEN "retrying" ELSE "notify")
    /\ UNCHANGED << seen, lost, rest, socket, broken, worker, stop, requested,
                    notified, duration, sessions, closing, notes, calls >>

RxRecovered ==
    /\ pc["rx"] = "recovered"
    /\ stop' = FALSE
    /\ Goto("rx", "select")
    /\ UNCHANGED << left, seen, lost, rest, socket, broken, worker, requested,
                    notified, requests, duration, sessions, closing, notes, calls >>

RxEnds ==
    /\ pc["rx"] = "end"
    /\ worker' = FALSE
    /\ Goto("rx", "none")
    /\ UNCHANGED << left, seen, lost, rest, socket, broken, stop, requested,
                    notified, requests, duration, sessions, closing, notes, calls >>

-----------------------------------------------------------------------------
ClosingSteps(p) == Close(p) \/ Forget(p) \/ Reset(p) \/ Notify(p) \/ Notifying(p)

RetrySteps(p) == RetryLoop(p) \/ RetryAttempt(p) \/ RetryDelay(p)

Receiving ==
    \/ RxBegin \/ RxSelect \/ RxClosed \/ RxRest \/ RxEof
    \/ RxCheck \/ OnLostConnection \/ RxDropped \/ RxRecovered \/ RxEnds

Next ==
    \/ Connect \/ ConnectSocket \/ StartWorker
    \/ Disconnect \/ HardDisconnect
    \/ \E p \in {"app", "duration"} : StopPolitely(p)
    \/ DeleteAccessSpec \/ DeleteTimesOut
    \/ PoliteTimesOut \/ RollbackTimesOut
    \/ ScheduleDuration \/ DurationElapses \/ DurationExpired
    \/ PeerCloses
    \/ RxDispatch \/ RxPolitelyStopped \/ Receiving
    \/ \E p \in {"app", "rx"} : RetrySteps(p)
    \/ \E p \in Procs : ClosingSteps(p)

Spec == Init /\ [][Next]_vars

(* Every thread runs and every timer that is set elapses.  The reader need  *)
(* not send anything, nor the application call anything.                    *)
Fairness ==
    /\ WF_vars(Receiving)
    /\ WF_vars(PoliteTimesOut)
    /\ WF_vars(ConnectSocket \/ StartWorker)
    /\ \A p \in {"app", "duration"} : WF_vars(StopPolitely(p))
    /\ WF_vars(DurationElapses) /\ WF_vars(DurationExpired)
    /\ \A p \in {"app", "rx"} : WF_vars(RetrySteps(p))
    /\ \A p \in Procs : WF_vars(ClosingSteps(p))

FairSpec == Spec /\ Fairness

-----------------------------------------------------------------------------
(* Properties. *)

(***************************************************************************)
(* NotifiedOnce: the disconnect callbacks run at most once for a transport *)
(* session (API_REFERENCE.md: "A disconnect callback runs at most once for *)
(* a transport session").                                                  *)
(***************************************************************************)
NotifiedOnce == \A n \in 1 .. MaxSessions : notes[n] <= 1

(***************************************************************************)
(* NotifiedAtAll: once a session is over and its thread gone, they have    *)
(* run (CHANGELOG.md: "Deliver disconnect notification exactly once even   *)
(* when socket shutdown, close, peer EOF, or repeated cleanup paths        *)
(* overlap"; public hard_disconnect() promises no notification).           *)
(***************************************************************************)
Over == /\ sessions > 0 /\ socket = NoSocket /\ ~ worker
        /\ \A p \in Procs : pc[p] \in {"none", "idle"}
NotifiedAtAll == Over => notes[sessions] >= 1

(***************************************************************************)
(* OneWorker: connect() starts a receive thread only when there is none.   *)
(***************************************************************************)
StartsAlone == pc["app"] = "start" /\ pc'["app"] # "start" => pc["rx"] = "none"
OneWorker == [][StartsAlone]_vars

(***************************************************************************)
(* NoOrphanSocket: no socket stays open without a thread that reads it, is *)
(* about to, or is closing it (llrp.py: "Stop the receive worker, close    *)
(* sockets").                                                              *)
(***************************************************************************)
NoOrphanSocket ==
    socket # NoSocket =>
        \/ worker \/ pc["app"] = "start"
        \/ \E p \in Procs : pc[p] \in {"forget", "only_forget"}

(***************************************************************************)
(* ClosesItsOwn: a thread that closes and resets a session because of what *)
(* happened in it does not hit the session after it (RELEASE_NOTES.md:     *)
(* "Disconnect and reconnect clear stale requests, timers, cached modes,   *)
(* and prior-session callbacks").                                          *)
(***************************************************************************)
ClosesNow == {"close", "forget", "reset", "only_close", "only_forget", "only_reset",
              "drop", "drop_forget"}
HitsOnlyItsOwn ==
    \A p \in Procs :
        pc[p] \in ClosesNow /\ pc'[p] # pc[p] => closing[p] = sessions
ClosesItsOwn == [][HitsOnlyItsOwn]_vars

(***************************************************************************)
(* DurationEndsItsOwn: the duration of an inventory does not disconnect    *)
(* the session after the one it was measured in (ibid.).                   *)
(***************************************************************************)
ExpiresInItsOwn ==
    pc["duration"] = "elapsed" /\ pc'["duration"] \in {"polite", "close"} =>
        closing["duration"] = sessions
DurationEndsItsOwn == [][ExpiresInItsOwn]_vars

(***************************************************************************)
(* DisconnectEnds: after disconnect() the receive thread ends and the      *)
(* socket is closed, unless the application connects again, or the polite  *)
(* stop was refused because another's DELETE_ACCESSSPEC was outstanding    *)
(* (DEVELOPER_GUIDE.md: "`disconnect()` requests a polite stop, removes    *)
(* session state, and closes the transport").                              *)
(***************************************************************************)
Ended == socket = NoSocket /\ ~ worker
DisconnectEnds == requested /\ ~ refused ~> Ended \/ ~ requested \/ refused

(***************************************************************************)
(* EveryDisconnectEnds: the same, whatever was outstanding.                *)
(***************************************************************************)
EveryDisconnectEnds == requested ~> Ended \/ ~ requested

(***************************************************************************)
(* HardDisconnectEnds: hard_disconnect() stops the receive thread          *)
(* (llrp.py: "Stop the receive worker, close sockets, and reset frame      *)
(* state").                                                                *)
(***************************************************************************)
HardDisconnectEnds == pc["app"] = "only_reset" ~> ~ worker

(***************************************************************************)
(* LossResolved: a lost connection is recovered or given up, unless the    *)
(* attempts are unlimited (reconnect_retries = -1); and a reconnection     *)
(* ends, limited or not, when a disconnect is requested.                   *)
(***************************************************************************)
Retrying == pc["rx"] \in {"retrying", "trying", "delay"}
LossResolved ==
    /\ pc["rx"] = "lost" ~>
         pc["rx"] \in {"select", "none"} \/ (Retrying /\ left["rx"] = -1)
    /\ Retrying /\ requested ~> pc["rx"] \in {"select", "none"}
=============================================================================
