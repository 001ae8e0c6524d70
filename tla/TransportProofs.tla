--------------------------- MODULE TransportProofs --------------------------
(***************************************************************************)
(* Theorems about Transport, for any numbers of calls, sessions and        *)
(* retries.                                                                *)
(*                                                                         *)
(* Who may open a socket: connect(), when no receive thread is registered, *)
(* or the receive thread, when it reconnects.  This alone keeps a socket   *)
(* from being left open, whatever thread closes it: the receive thread     *)
(* leaves it open only to a thread in hard_disconnect that is to clear     *)
(* _socket (Owned).  That the callbacks run once is so when no timer       *)
(* closes a session (NoTimers): the application's thread then does not     *)
(* notify while there is a receive thread.  That they run at all, and that *)
(* a thread closes only its own session, is so when in addition nobody     *)
(* calls hard_disconnect() from outside (Alone).                           *)
(***************************************************************************)
EXTENDS Transport, TLAPS

USE DEF requests

(* The steps of connect() before there is a socket. *)
Opening == {"connecting", "retrying", "trying", "delay"}

(* The steps of main_loop, and those at which the receive thread may have a *)
(* socket of its own.                                                       *)
Looping == {"begin", "select", "ready", "check"}
Reading == Looping \cup {"lost", "close", "only_close", "drop", "drop_forget", "recovered"}

(* A thread in hard_disconnect has stopped the loop and is to clear _socket. *)
ForgetSteps == {"forget", "only_forget"}
Forgetting == \E p \in Procs : pc[p] \in ForgetSteps

Owned ==
    /\ worker <=> pc["rx"] # "none"
    /\ pc["app"] \in Opening \cup {"start"} => pc["rx"] = "none"
    /\ socket # NoSocket => pc["app"] = "start" \/ pc["rx"] \in Reading \/ Forgetting
    /\ pc["rx"] \in Looping /\ stop => socket = NoSocket \/ Forgetting

IInv == TypeOK /\ Owned

(* No timer closes a session. *)
NoTimers == ~ Timeouts /\ ~ Durations

(* While there is a receive thread the application's thread does nothing   *)
(* but hard_disconnect().                                                  *)
Aside == {"idle", "polite", "only_close", "only_forget", "only_reset"}
Quiet ==
    /\ pc["timeout"] = "idle" /\ pc["duration"] = "idle" /\ ~ duration
    /\ pc["app"] \in Aside \/ pc["rx"] = "none"

(* The flag says whether the callbacks of the current session have run. *)
Reported ==
    /\ \A n \in 0 .. MaxSessions : notes[n] = 0 \/ (notes[n] = 1 /\ n <= sessions)
    /\ notified <=> notes[sessions] = 1
    /\ \A p \in {"app", "rx"} : pc[p] = "notifying" => ~ notified

OInv == IInv /\ Quiet /\ Reported

(* Nor does the application or a failed rollback call hard_disconnect(). *)
Alone == NoTimers /\ "giveup" \notin Failures /\ "hard_disconnect" \notin Calls

TwoThreads ==
    \A p \in {"app", "rx"} : pc[p] \notin {"only_close", "only_forget", "only_reset"}

(* The receive thread has its socket until it closes it. *)
HasSocket ==
    /\ pc["app"] = "start" => socket # NoSocket
    /\ pc["rx"] \in Looping \cup {"recovered"} => socket # NoSocket
    /\ pc["rx"] \in Looping => ~ stop
    /\ pc["rx"] = "ready" => seen = socket

(* A thread that closes a session closes the current one. *)
OwnSteps == {"close", "forget", "reset", "drop", "drop_forget"}
ClosesCurrent == \A p \in {"app", "rx"} : pc[p] \in OwnSteps => closing[p] = sessions

(* The callbacks have run when the thread is gone. *)
Told ==
    /\ pc["rx"] \in {"end", "rest"} => notified
    /\ pc["rx"] = "none" /\ pc["app"] # "start" => sessions = 0 \/ notified

AInv == OInv /\ TwoThreads /\ HasSocket /\ ClosesCurrent /\ Told

-----------------------------------------------------------------------------
(* Type correctness.                                                        *)

AnyStep == Steps \cup RxSteps \cup {"elapsed"}
StepOf(p) ==
    CASE p = "rx" -> RxSteps [] p = "app" -> Steps [] OTHER -> Steps \cup {"elapsed"}
PcTyped ==
    /\ pc \in [Procs -> AnyStep]
    /\ \A p \in Procs : pc[p] \in StepOf(p)

(* Moved: one thread goes on, the others stay where they are. *)
LEMMA Moved ==
    ASSUME PcTyped, NEW p \in Procs, NEW step \in StepOf(p), Goto(p, step)
    PROVE  PcTyped' /\ pc'[p] = step /\ \A x \in Procs : x # p => pc'[x] = pc[x]
<1>1. step \in AnyStep BY DEF StepOf, AnyStep
<1>2. pc' = [pc EXCEPT ![p] = step] BY DEF Goto
<1>3. pc' \in [Procs -> AnyStep] /\ pc'[p] = step /\ \A x \in Procs : x # p => pc'[x] = pc[x]
  BY <1>1, <1>2 DEF PcTyped
<1>4. ASSUME NEW x \in Procs PROVE pc'[x] \in StepOf(x)
  <2>1. CASE x = p BY <1>3, <2>1
  <2>2. CASE x # p BY <1>3, <2>2 DEF PcTyped
  <2>. QED BY <2>1, <2>2
<1>. QED BY <1>3, <1>4 DEF PcTyped

AppSteps   == {"idle", "connecting", "retrying", "trying", "delay", "start", "polite",
               "close", "only_close"}
MainSteps  == {"none", "begin", "select", "ready", "rest", "check", "lost", "drop", "drop_forget",
               "dropped", "retrying", "trying", "delay", "recovered", "end", "close", "only_close",
               "notify"}
TimerSteps == {"idle", "close", "only_close", "polite", "elapsed"}
CloseSteps == {"forget", "reset", "notify", "notifying", "only_forget", "only_reset"}

LEMMA Members ==
    /\ {"rx", "app", "timeout", "duration"} \subseteq Procs
    /\ AppSteps \cup {"notify"} \subseteq StepOf("app") /\ MainSteps \subseteq StepOf("rx")
    /\ TimerSteps \subseteq StepOf("timeout") /\ TimerSteps \subseteq StepOf("duration")
    /\ \A p \in Procs : CloseSteps \cup {Finished(p)} \subseteq StepOf(p)
<1> USE DEF StepOf, AnyStep, Steps, RxSteps, Closing
<1>1. {"rx", "app", "timeout", "duration"} \subseteq Procs BY DEF Procs
<1>2. AppSteps \cup {"notify"} \subseteq StepOf("app") BY DEF AppSteps
<1>3. MainSteps \subseteq StepOf("rx") BY DEF MainSteps
<1>4. TimerSteps \subseteq StepOf("timeout") BY DEF TimerSteps
<1>5. TimerSteps \subseteq StepOf("duration") BY DEF TimerSteps
<1>6. ASSUME NEW p \in Procs
      PROVE  CloseSteps \cup {Finished(p)} \subseteq StepOf(p)
  <2>1. CASE p = "rx" BY <2>1 DEF Finished, CloseSteps
  <2>2. CASE p = "app" BY <2>2 DEF Finished, CloseSteps
  <2>3. CASE p \notin {"rx", "app"} BY <2>3 DEF Finished, CloseSteps
  <2>. QED BY <2>1, <2>2, <2>3
<1>. QED BY <1>1, <1>2, <1>3, <1>4, <1>5, <1>6

(* The types of everything but pc. *)
DataTyped ==
    /\ left \in [{"app", "rx"} -> Nat \cup {-1}]
    /\ seen \in 0 .. MaxSessions /\ socket \in 0 .. MaxSessions /\ sessions \in 0 .. MaxSessions
    /\ lost \in BOOLEAN /\ broken \in BOOLEAN /\ worker \in BOOLEAN /\ stop \in BOOLEAN
    /\ requested \in BOOLEAN /\ notified \in BOOLEAN /\ polite \in BOOLEAN
    /\ duration \in BOOLEAN /\ rest \in BOOLEAN /\ refused \in BOOLEAN
    /\ deleting \in {"nobody", "disconnect", "other"}
    /\ closing \in [Procs -> 0 .. MaxSessions]
    /\ notes \in [0 .. MaxSessions -> Nat]
    /\ calls \in 0 .. MaxCalls

LEMMA TypeSplit == (TypeOK <=> PcTyped /\ DataTyped) /\ (TypeOK' <=> PcTyped' /\ DataTyped')
BY DEF TypeOK, PcTyped, AnyStep, StepOf, Procs, DataTyped

(* Opened: a socket of a new session, or none. *)
LEMMA Opened ==
    ASSUME DataTyped, OpenSocket \/ OpenFails
    PROVE  /\ sessions' \in 0 .. MaxSessions /\ socket' \in 0 .. MaxSessions
           /\ broken' \in BOOLEAN /\ notified' \in BOOLEAN
<1>1. sessions \in 0 .. MaxSessions /\ MaxSessions \in Nat BY TransportAssumption DEF DataTyped
<1>2. CASE OpenSocket
  <2>1. sessions < MaxSessions BY <1>2 DEF OpenSocket
  <2>2. sessions + 1 \in 0 .. MaxSessions BY <1>1, <2>1
  <2>. QED BY <1>2, <2>2 DEF OpenSocket
<1>3. CASE OpenFails BY <1>3 DEF OpenFails, DataTyped
<1>. QED BY <1>2, <1>3

LEMMA CountedTyped ==
    ASSUME DataTyped, NEW p \in {"app", "rx"}
    PROVE  Counted(p) \in Nat \cup {-1}
           /\ [left EXCEPT ![p] = Counted(p)] \in [{"app", "rx"} -> Nat \cup {-1}]
           /\ \A n \in Retries : [left EXCEPT ![p] = n] \in [{"app", "rx"} -> Nat \cup {-1}]
<1>1. left[p] \in Nat \cup {-1} BY DEF DataTyped
<1>2. Counted(p) \in Nat \cup {-1} BY <1>1 DEF Counted
<1>3. \A n \in Nat \cup {-1} :
        [left EXCEPT ![p] = n] \in [{"app", "rx"} -> Nat \cup {-1}]
  BY DEF DataTyped
<1>4. Retries \subseteq Nat \cup {-1} BY TransportAssumption
<1>. QED BY <1>2, <1>3, <1>4

LEMMA DataStep == DataTyped /\ [Next]_vars => DataTyped'
<1> SUFFICES ASSUME DataTyped, [Next]_vars PROVE DataTyped' OBVIOUS
<1>0. ASSUME NEW p \in Procs, NEW step, BeginClose(p, step)
      PROVE  closing' \in [Procs -> 0 .. MaxSessions]
  BY <1>0 DEF BeginClose, DataTyped
<1>01. {"app", "rx", "timeout", "duration"} \subseteq Procs BY Members
<1>1. CASE Connect
  <2>1. calls' \in 0 .. MaxCalls BY <1>1, TransportAssumption DEF Connect, DataTyped
  <2>. QED BY <1>1, <2>1 DEF Connect, Discard, DataTyped
<1>2. CASE ConnectSocket
  <2>1. OpenSocket \/ OpenFails BY <1>2 DEF ConnectSocket
  <2>2. left' \in [{"app", "rx"} -> Nat \cup {-1}]
    BY <1>2, CountedTyped DEF ConnectSocket, DataTyped
  <2>. QED BY <1>2, <2>1, <2>2, Opened DEF ConnectSocket, DataTyped
<1>3. CASE StartWorker BY <1>3 DEF StartWorker, DataTyped
<1>4. CASE Disconnect
  <2>1. closing' \in [Procs -> 0 .. MaxSessions]
    BY <1>0, <1>01, <1>4 DEF Disconnect, DisconnectBy, DataTyped
  <2>2. /\ requested' \in BOOLEAN /\ refused' \in BOOLEAN
        /\ polite' = polite /\ deleting' = deleting
    BY <1>4 DEF Disconnect, DisconnectBy
  <2>3. UNCHANGED << left, seen, lost, rest, socket, broken, worker, stop, notified,
                     duration, sessions, notes >>
    BY <1>4 DEF Disconnect
  <2>4. calls' \in 0 .. MaxCalls BY <1>4, TransportAssumption DEF Disconnect, DataTyped
  <2>. QED BY <2>1, <2>2, <2>3, <2>4 DEF DataTyped
<1>5. CASE HardDisconnect
  <2>1. closing' \in [Procs -> 0 .. MaxSessions] BY <1>0, <1>01, <1>5 DEF HardDisconnect
  <2>. QED BY <1>5, <2>1, TransportAssumption DEF HardDisconnect, DataTyped
<1>6. ASSUME NEW p \in {"app", "duration"}, StopPolitely(p) PROVE DataTyped'
  <2>1. /\ polite' \in BOOLEAN /\ deleting' \in {"nobody", "disconnect", "other"}
        /\ refused' \in BOOLEAN
    BY <1>6 DEF StopPolitely, DataTyped
  <2>. QED BY <1>6, <2>1 DEF StopPolitely, DataTyped
<1>61. CASE DeleteAccessSpec
  <2>1. calls' \in 0 .. MaxCalls BY <1>61, TransportAssumption DEF DeleteAccessSpec, DataTyped
  <2>. QED BY <1>61, <2>1 DEF DeleteAccessSpec, DataTyped
<1>62. CASE DeleteTimesOut BY <1>62 DEF DeleteTimesOut, DataTyped
<1>7. CASE PoliteTimesOut
  <2>1. closing' \in [Procs -> 0 .. MaxSessions] BY <1>0, <1>01, <1>7 DEF PoliteTimesOut
  <2>. QED BY <1>7, <2>1 DEF PoliteTimesOut, EndPolite, DataTyped
<1>8. CASE RollbackTimesOut
  <2>1. closing' \in [Procs -> 0 .. MaxSessions] BY <1>0, <1>01, <1>8 DEF RollbackTimesOut
  <2>. QED BY <1>8, <2>1 DEF RollbackTimesOut, DataTyped
<1>9. CASE ScheduleDuration BY <1>9 DEF ScheduleDuration, DataTyped
<1>10. CASE DurationElapses
  <2>1. closing' \in [Procs -> 0 .. MaxSessions] BY <1>0, <1>01, <1>10 DEF DurationElapses
  <2>. QED BY <1>10, <2>1 DEF DurationElapses, DataTyped
<1>11. CASE DurationExpired
  <2>1. closing' \in [Procs -> 0 .. MaxSessions]
    BY <1>0, <1>01, <1>11 DEF DurationExpired, DisconnectBy, DataTyped
  <2>2. /\ requested' \in BOOLEAN /\ refused' \in BOOLEAN
        /\ polite' = polite /\ deleting' = deleting
    BY <1>11 DEF DurationExpired, DisconnectBy, DataTyped
  <2>. QED BY <1>11, <2>1, <2>2 DEF DurationExpired, DataTyped
<1>12. CASE PeerCloses BY <1>12 DEF PeerCloses, DataTyped
<1>13. CASE RxDispatch
  <2>1. /\ closing' \in [Procs -> 0 .. MaxSessions] /\ rest' \in BOOLEAN /\ polite' = polite
        /\ deleting' \in {"nobody", "disconnect", "other"} /\ refused' = refused
    BY <1>0, <1>01, <1>13 DEF RxDispatch, Ordinary, DataTyped
  <2>. QED BY <1>13, <2>1 DEF RxDispatch, DataTyped
<1>14. CASE RxBegin BY <1>14 DEF RxBegin, DataTyped
<1>15. CASE RxSelect
  <2>1. closing' \in [Procs -> 0 .. MaxSessions] BY <1>0, <1>01, <1>15 DEF RxSelect, DataTyped
  <2>. QED BY <1>15, <2>1 DEF RxSelect, DataTyped
<1>16. CASE RxClosed
  <2>1. closing' \in [Procs -> 0 .. MaxSessions] /\ lost' \in BOOLEAN
    BY <1>0, <1>01, <1>16 DEF RxClosed, DataTyped
  <2>. QED BY <1>16, <2>1 DEF RxClosed, DataTyped
<1>17. CASE RxPolitelyStopped
  <2>1. closing' \in [Procs -> 0 .. MaxSessions] BY <1>0, <1>01, <1>17 DEF RxPolitelyStopped
  <2>. QED BY <1>17, <2>1 DEF RxPolitelyStopped, EndPolite, DataTyped
<1>171. CASE RxRest
  <2>1. closing' \in [Procs -> 0 .. MaxSessions] BY <1>0, <1>01, <1>171 DEF RxRest, DataTyped
  <2>. QED BY <1>171, <2>1 DEF RxRest, DataTyped
<1>18. CASE RxEof BY <1>18 DEF RxEof, DataTyped
<1>19. CASE RxCheck BY <1>19 DEF RxCheck, DataTyped
<1>20. CASE OnLostConnection
  <2>1. closing' \in [Procs -> 0 .. MaxSessions] BY <1>0, <1>01, <1>20 DEF OnLostConnection
  <2>. QED BY <1>20, <2>1 DEF OnLostConnection, DataTyped
<1>21. CASE RxDropped
  <2>1. left' \in [{"app", "rx"} -> Nat \cup {-1}] BY <1>21, CountedTyped DEF RxDropped
  <2>. QED BY <1>21, <2>1 DEF RxDropped, Discard, DataTyped
<1>22. CASE RxRecovered BY <1>22 DEF RxRecovered, DataTyped
<1>23. CASE RxEnds BY <1>23 DEF RxEnds, DataTyped
<1>24. ASSUME NEW p \in {"app", "rx"}, RetrySteps(p) PROVE DataTyped'
  <2>1. CASE RetryLoop(p) BY <2>1 DEF RetryLoop, DataTyped
  <2>2. CASE RetryAttempt(p)
    <3>1. OpenSocket \/ OpenFails BY <2>2 DEF RetryAttempt
    <3>2. left' \in [{"app", "rx"} -> Nat \cup {-1}]
      BY <2>2, CountedTyped DEF RetryAttempt, DataTyped
    <3>. QED BY <2>2, <3>1, <3>2, Opened DEF RetryAttempt, DataTyped
  <2>3. CASE RetryDelay(p) BY <2>3 DEF RetryDelay, DataTyped
  <2>. QED BY <1>24, <2>1, <2>2, <2>3 DEF RetrySteps
<1>25. ASSUME NEW p \in Procs, ClosingSteps(p) PROVE DataTyped'
  <2>0. CASE Close(p) BY <2>0 DEF Close, DataTyped
  <2>1. CASE Forget(p)
    <3>1. 0 \in 0 .. MaxSessions BY TransportAssumption
    <3>. QED BY <2>1, <3>1 DEF Forget, DataTyped, NoSocket
  <2>2. CASE Reset(p) BY <2>2 DEF Reset, Discard, DataTyped
  <2>3. CASE Notify(p) BY <2>3 DEF Notify, DataTyped
  <2>4. CASE Notifying(p)
    <3>1. notes' \in [0 .. MaxSessions -> Nat] BY <2>4 DEF Notifying, DataTyped
    <3>. QED BY <2>4, <3>1 DEF Notifying, DataTyped
  <2>. QED BY <1>25, <2>0, <2>1, <2>2, <2>3, <2>4 DEF ClosingSteps
<1>26. CASE UNCHANGED vars BY <1>26 DEF vars, DataTyped
<1>. QED BY <1>1, <1>2, <1>3, <1>4, <1>5, <1>6, <1>61, <1>62, <1>7, <1>8, <1>9, <1>10, <1>11,
            <1>12, <1>13, <1>14, <1>15, <1>16, <1>17, <1>171, <1>18, <1>19, <1>20, <1>21, <1>22, <1>23, <1>24, <1>25,
            <1>26 DEF Next, Receiving

-----------------------------------------------------------------------------
(* Who owns the socket.                                                     *)

(* Shuts: a step of one thread that opens no socket; who stops the loop is  *)
(* to clear _socket, and who leaves that step has cleared it.               *)
Shuts(p, step) ==
    /\ socket' = socket \/ socket' = NoSocket
    /\ stop' => stop \/ socket' = NoSocket \/ step \in ForgetSteps
    /\ pc[p] \in ForgetSteps => socket' = NoSocket

(* Shutting: who was to clear it still is, or has. *)
LEMMA Shutting ==
    ASSUME PcTyped, NEW p \in Procs, NEW step \in StepOf(p), Goto(p, step), Shuts(p, step)
    PROVE  /\ Forgetting => Forgetting' \/ socket' = NoSocket
           /\ step \in ForgetSteps => Forgetting'
<1>1. pc'[p] = step /\ \A x \in Procs : x # p => pc'[x] = pc[x] BY Moved
<1>2. step \in ForgetSteps => Forgetting' BY <1>1 DEF Forgetting
<1>3. ASSUME Forgetting PROVE Forgetting' \/ socket' = NoSocket
  <2>1. PICK x \in Procs : pc[x] \in ForgetSteps BY <1>3 DEF Forgetting
  <2>2. CASE x = p BY <2>1, <2>2 DEF Shuts
  <2>3. CASE x # p
    <3>1. pc'[x] \in ForgetSteps BY <1>1, <2>1, <2>3
    <3>. QED BY <3>1 DEF Forgetting
  <2>. QED BY <2>2, <2>3
<1>. QED BY <1>2, <1>3

(* AppMoves, RxMoves, TimerMoves: such a step that starts no receive thread. *)
LEMMA AppMoves ==
    ASSUME PcTyped, Owned, NEW step \in StepOf("app"), Goto("app", step),
           worker' = worker, Shuts("app", step), pc["app"] # "start",
           step \in Opening \cup {"start"} => ~ worker
    PROVE  PcTyped' /\ Owned' /\ pc'["app"] = step /\ \A x \in Procs : x # "app" => pc'[x] = pc[x]
<1>1. /\ PcTyped' /\ pc'["app"] = step
      /\ \A x \in Procs : x # "app" => pc'[x] = pc[x]
  BY Moved, Members
<1>2. pc'["rx"] = pc["rx"] BY <1>1, Members
<1>3. /\ Forgetting => Forgetting' \/ socket' = NoSocket
      /\ step \in ForgetSteps => Forgetting'
  BY Shutting, Members
<1>4. Owned' BY <1>1, <1>2, <1>3 DEF Owned, Shuts
<1>. QED BY <1>1, <1>4

LEMMA RxMoves ==
    ASSUME PcTyped, Owned, NEW step \in StepOf("rx"), Goto("rx", step),
           worker' = worker, Shuts("rx", step), pc["rx"] # "none", step # "none",
           step \in Reading \cup ForgetSteps \/ socket' = NoSocket \/ Forgetting,
           step \in Looping /\ stop' => socket' = NoSocket \/ Forgetting
    PROVE  PcTyped' /\ Owned' /\ pc'["rx"] = step /\ \A x \in Procs : x # "rx" => pc'[x] = pc[x]
<1>1. /\ PcTyped' /\ pc'["rx"] = step
      /\ \A x \in Procs : x # "rx" => pc'[x] = pc[x]
  BY Moved, Members
<1>2. pc'["app"] = pc["app"] BY <1>1, Members
<1>3. /\ Forgetting => Forgetting' \/ socket' = NoSocket
      /\ step \in ForgetSteps => Forgetting'
  BY Shutting, Members
<1>4. Owned' BY <1>1, <1>2, <1>3 DEF Owned, Shuts
<1>. QED BY <1>1, <1>4

LEMMA TimerMoves ==
    ASSUME PcTyped, Owned, NEW p \in {"timeout", "duration"}, NEW step \in StepOf(p),
           Goto(p, step), worker' = worker, Shuts(p, step)
    PROVE  PcTyped' /\ Owned' /\ pc'[p] = step /\ \A x \in Procs : x # p => pc'[x] = pc[x]
<1>0. p \in Procs /\ p # "rx" /\ p # "app" BY Members
<1>1. /\ PcTyped' /\ pc'[p] = step /\ \A x \in Procs : x # p => pc'[x] = pc[x]
  BY <1>0, Moved
<1>2. pc'["app"] = pc["app"] /\ pc'["rx"] = pc["rx"] BY <1>0, <1>1, Members
<1>3. /\ Forgetting => Forgetting' \/ socket' = NoSocket
      /\ step \in ForgetSteps => Forgetting'
  BY <1>0, Shutting
<1>4. Owned' BY <1>1, <1>2, <1>3 DEF Owned, Shuts
<1>. QED BY <1>1, <1>4

LEMMA OwnedStep == TypeOK /\ Owned /\ [Next]_vars => PcTyped' /\ Owned'
<1> SUFFICES ASSUME TypeOK, Owned, [Next]_vars PROVE PcTyped' /\ Owned' OBVIOUS
<1>0. PcTyped /\ DataTyped BY TypeSplit
<1>01. {"app", "rx", "timeout", "duration"} \subseteq Procs BY Members
<1> DEFINE Goal == PcTyped' /\ Owned'
<1>1. CASE Connect
  <2>1. /\ Goto("app", "connecting") /\ worker' = worker /\ pc["app"] # "start" /\ ~ worker
        /\ Shuts("app", "connecting")
    BY <1>1 DEF Connect, Shuts, ForgetSteps
  <2>2. "connecting" \in StepOf("app") BY Members DEF AppSteps
  <2>. QED BY <1>0, <2>1, <2>2, AppMoves
<1>2. ASSUME OpenSocket, pc["app"] \in Opening, Goto("app", "start"), UNCHANGED <<worker, stop>>
      PROVE  Goal
  <2>1. "start" \in StepOf("app") BY Members DEF AppSteps
  <2>2. /\ PcTyped' /\ pc'["app"] = "start"
        /\ \A x \in Procs : x # "app" => pc'[x] = pc[x]
    BY <1>0, <1>01, <1>2, <2>1, Moved
  <2>3. pc["rx"] = "none" /\ pc'["rx"] = pc["rx"] BY <1>01, <1>2, <2>2 DEF Owned
  <2>4. Owned' BY <1>2, <2>2, <2>3 DEF Owned, Looping
  <2>. QED BY <2>2, <2>4
<1>3. CASE ConnectSocket
  <2>1. pc["app"] = "connecting" /\ UNCHANGED <<worker, stop>> BY <1>3 DEF ConnectSocket
  <2>2. CASE OpenSocket /\ Goto("app", "start")
    BY <1>2, <2>1, <2>2 DEF Opening
  <2>3. CASE OpenFails /\ Goto("app", IF Reconnects THEN "retrying" ELSE "idle")
    <3> DEFINE step == IF Reconnects THEN "retrying" ELSE "idle"
    <3>1. Shuts("app", step) /\ pc["app"] # "start" /\ worker' = worker
      BY <2>1, <2>3 DEF OpenFails, Shuts, ForgetSteps
    <3>2. ~ worker BY <2>1 DEF Owned, Opening
    <3>3. step \in StepOf("app") BY Members DEF AppSteps
    <3> HIDE DEF step
    <3>4. Goto("app", step) BY <2>3 DEF step
    <3>. QED BY <1>0, <3>1, <3>2, <3>3, <3>4, AppMoves
  <2>. QED BY <1>3, <2>2, <2>3 DEF ConnectSocket
<1>4. CASE StartWorker
  <2>1. /\ pc["app"] = "start" /\ stop' = FALSE /\ worker' = TRUE /\ socket' = socket
        /\ pc' = [pc EXCEPT !["app"] = "idle", !["rx"] = "begin"]
    BY <1>4 DEF StartWorker
  <2>2. "idle" \in StepOf("app") /\ "begin" \in StepOf("rx") /\ {"idle", "begin"} \subseteq AnyStep
    BY Members DEF AppSteps, MainSteps, AnyStep, Steps, RxSteps
  <2>3. /\ pc'["app"] = "idle" /\ pc'["rx"] = "begin" /\ pc' \in [Procs -> AnyStep]
        /\ \A x \in Procs : x \notin {"app", "rx"} => pc'[x] = pc[x]
    BY <1>0, <1>01, <2>1, <2>2 DEF PcTyped
  <2>4. PcTyped' BY <1>0, <2>2, <2>3 DEF PcTyped
  <2>5. Owned' BY <2>1, <2>3 DEF Owned, Opening, Looping, Reading
  <2>. QED BY <2>4, <2>5
<1>5. ASSUME NEW step \in {"polite", "close", "only_close"}, pc["app"] = "idle",
             Goto("app", step), UNCHANGED <<worker, socket, stop>>
      PROVE  Goal
  <2>1. step \in StepOf("app") /\ step \notin Opening \cup {"start"}
    BY Members DEF Opening, AppSteps
  <2>2. Shuts("app", step) /\ pc["app"] # "start" BY <1>5 DEF Shuts, ForgetSteps
  <2>. QED BY <1>0, <1>5, <2>1, <2>2, AppMoves
<1>6. CASE Disconnect
  <2>1. pc["app"] = "idle" /\ UNCHANGED <<worker, socket, stop>> BY <1>6 DEF Disconnect
  <2>2. CASE Goto("app", "polite") BY <1>5, <2>1, <2>2
  <2>3. CASE Goto("app", "close") BY <1>5, <2>1, <2>3
  <2>. QED BY <1>6, <2>2, <2>3 DEF Disconnect, DisconnectBy, BeginClose
<1>7. CASE HardDisconnect
  BY <1>5, <1>7 DEF HardDisconnect, BeginClose
<1>8. ASSUME NEW p \in {"timeout", "duration"}, NEW step \in StepOf(p), Goto(p, step),
             pc[p] \notin ForgetSteps, UNCHANGED <<worker, socket, stop>>
      PROVE  Goal
  <2>1. Shuts(p, step) BY <1>8 DEF Shuts
  <2>. QED BY <1>0, <1>8, <2>1, TimerMoves
<1>9. ASSUME NEW p \in {"app", "duration"}, StopPolitely(p) PROVE Goal
  <2>1. pc[p] = "polite" /\ Goto(p, "idle") /\ UNCHANGED <<worker, socket, stop>>
    BY <1>9 DEF StopPolitely
  <2>2. CASE p = "app"
    <3>1. "idle" \in StepOf("app") /\ "idle" \notin Opening \cup {"start"}
      BY Members DEF Opening, AppSteps
    <3>2. Shuts("app", "idle") /\ pc["app"] # "start" /\ Goto("app", "idle")
      BY <2>1, <2>2 DEF Shuts, ForgetSteps
    <3>. QED BY <1>0, <2>1, <3>1, <3>2, AppMoves
  <2>3. CASE p = "duration"
    <3>1. "idle" \in StepOf("duration") /\ "polite" \notin ForgetSteps
      BY Members DEF TimerSteps, ForgetSteps
    <3>. QED BY <1>8, <2>1, <2>3, <3>1
  <2>. QED BY <2>2, <2>3
<1>10. ASSUME NEW p \in {"timeout", "duration"}, NEW step \in TimerSteps, Goto(p, step),
              pc[p] \in TimerSteps, UNCHANGED <<worker, socket, stop>>
       PROVE  Goal
  <2>1. step \in StepOf(p) /\ pc[p] \notin ForgetSteps
    BY <1>10, Members DEF TimerSteps, ForgetSteps
  <2>. QED BY <1>8, <1>10, <2>1
<1>11. CASE PoliteTimesOut \/ RollbackTimesOut \/ DurationElapses
  BY <1>10, <1>11 DEF PoliteTimesOut, RollbackTimesOut, DurationElapses, BeginClose, TimerSteps
<1>12. CASE UNCHANGED <<pc, worker, socket, stop>> BY <1>0, <1>12 DEF PcTyped, Owned, Forgetting
<1>14. CASE DurationExpired
  <2>1. {"idle", "polite", "close", "elapsed"} \subseteq TimerSteps BY DEF TimerSteps
  <2>2. pc["duration"] = "elapsed" /\ UNCHANGED <<worker, socket, stop>> BY <1>14 DEF DurationExpired
  <2>3. CASE Goto("duration", "idle") BY <1>10, <2>1, <2>2, <2>3
  <2>4. CASE Goto("duration", "polite") BY <1>10, <2>1, <2>2, <2>4
  <2>5. CASE Goto("duration", "close") BY <1>10, <2>1, <2>2, <2>5
  <2>. QED BY <1>14, <2>3, <2>4, <2>5 DEF DurationExpired, DisconnectBy, BeginClose
<1>15. ASSUME NEW step \in StepOf("rx"), Goto("rx", step), UNCHANGED <<worker, socket, stop>>,
              pc["rx"] \notin ForgetSteps \cup {"none"}, step # "none",
              step \in Reading \/ socket = NoSocket \/ Forgetting,
              step \in Looping /\ stop => socket = NoSocket \/ Forgetting
       PROVE  Goal
  <2>1. Shuts("rx", step) /\ worker' = worker BY <1>15 DEF Shuts
  <2>2. step \in Reading \cup ForgetSteps \/ socket' = NoSocket \/ Forgetting BY <1>15
  <2>3. step \in Looping /\ stop' => socket' = NoSocket \/ Forgetting BY <1>15
  <2>. QED BY <1>0, <1>15, <2>1, <2>2, <2>3, RxMoves
<1>16. ASSUME pc["rx"] \in Looping,
              Goto("rx", "close") \/ Goto("rx", "only_close") \/ Goto("rx", "check")
                \/ Goto("rx", "select") \/ Goto("rx", "ready") \/ Goto("rx", "lost"),
              UNCHANGED <<worker, socket, stop>>
       PROVE  Goal
  <2>1. {"close", "only_close", "check", "select", "ready", "lost"} \subseteq StepOf("rx")
        /\ {"close", "only_close", "check", "select", "ready", "lost"} \subseteq Reading
        /\ "none" \notin {"close", "only_close", "check", "select", "ready", "lost"}
    BY Members DEF Reading, Looping, MainSteps
  <2>2. pc["rx"] \notin ForgetSteps \cup {"none"} BY <1>16 DEF Looping, ForgetSteps
  <2>3. stop => socket = NoSocket \/ Forgetting BY <1>16 DEF Owned
  <2>4. PICK step \in {"close", "only_close", "check", "select", "ready", "lost"} :
           Goto("rx", step)
    BY <1>16
  <2>. QED BY <1>15, <1>16, <2>1, <2>2, <2>3, <2>4
<1>17. CASE RxDispatch BY <1>16, <1>17 DEF RxDispatch, BeginClose, Looping
<1>18. ASSUME pc["rx"] \in Looping, Goto("rx", "end"), UNCHANGED <<worker, socket, stop>>,
              socket = NoSocket \/ Forgetting
       PROVE  Goal
  <2>1. /\ "end" \in StepOf("rx") /\ "end" # "none" /\ "end" \notin Looping
        /\ pc["rx"] \notin ForgetSteps \cup {"none"}
    BY <1>18, Members DEF Looping, MainSteps, ForgetSteps
  <2>. QED BY <1>15, <1>18, <2>1
<1>19. CASE RxBegin
  <2>1. pc["rx"] = "begin" /\ UNCHANGED <<worker, socket, stop>> BY <1>19 DEF RxBegin
  <2>2. CASE socket = NoSocket /\ Goto("rx", "end") BY <1>18, <2>1, <2>2 DEF Looping
  <2>3. CASE Goto("rx", "select") BY <1>16, <2>1, <2>3 DEF Looping
  <2>. QED BY <1>19, <2>2, <2>3 DEF RxBegin
<1>20. CASE RxSelect BY <1>16, <1>20 DEF RxSelect, BeginClose, Looping
<1>21. CASE RxClosed BY <1>16, <1>21 DEF RxClosed, BeginClose, Looping
<1>22. CASE RxPolitelyStopped BY <1>16, <1>22 DEF RxPolitelyStopped, BeginClose, Looping
<1>23. CASE RxEof BY <1>16, <1>23 DEF RxEof, Looping
<1>24. CASE RxCheck
  <2>1. pc["rx"] = "check" /\ pc["rx"] \in Looping /\ UNCHANGED <<worker, socket, stop>>
    BY <1>24 DEF RxCheck, Looping
  <2>2. CASE stop /\ Goto("rx", "end")
    <3>1. socket = NoSocket \/ Forgetting BY <2>1, <2>2 DEF Owned
    <3>. QED BY <1>18, <2>1, <2>2, <3>1
  <2>3. CASE Goto("rx", "lost") \/ Goto("rx", "select") BY <1>16, <2>1, <2>3
  <2>. QED BY <1>24, <2>2, <2>3 DEF RxCheck
<1>25. CASE OnLostConnection
  <2> DEFINE step == IF requested THEN "close" ELSE "drop"
  <2>1. /\ pc["rx"] \notin ForgetSteps \cup {"none"} /\ UNCHANGED <<worker, socket, stop>>
        /\ Goto("rx", step)
    BY <1>25 DEF OnLostConnection, BeginClose, ForgetSteps
  <2>2. step \in StepOf("rx") /\ step # "none" /\ step \in Reading /\ step \notin Looping
    BY Members DEF Reading, Looping, MainSteps
  <2> HIDE DEF step
  <2>. QED BY <1>15, <2>1, <2>2
<1>26. ASSUME NEW step \in StepOf("rx"), Goto("rx", step), UNCHANGED <<worker, socket, stop>>,
              pc["rx"] \notin Reading \cup ForgetSteps \cup {"none"}, step # "none",
              step \notin Looping
       PROVE  Goal
  <2>1. socket = NoSocket \/ Forgetting
    <3>1. pc["app"] # "start" BY <1>26 DEF Owned
    <3>. QED BY <1>26, <3>1 DEF Owned
  <2>. QED BY <1>15, <1>26, <2>1
<1>27. CASE RxDropped
  <2> DEFINE step == IF Reconnects THEN "retrying" ELSE "notify"
  <2>1. /\ pc["rx"] \notin Reading \cup ForgetSteps \cup {"none"} /\ Goto("rx", step)
        /\ UNCHANGED <<worker, socket, stop>>
    BY <1>27 DEF RxDropped, Reading, Looping, ForgetSteps
  <2>2. step \in StepOf("rx") /\ step # "none" /\ step \notin Looping
    BY Members DEF Looping, MainSteps
  <2> HIDE DEF step
  <2>. QED BY <1>26, <2>1, <2>2
<1>271. CASE RxRest
  <2>1. /\ pc["rx"] \notin Reading \cup ForgetSteps \cup {"none"}
        /\ UNCHANGED <<worker, socket, stop>>
    BY <1>271 DEF RxRest, Reading, Looping, ForgetSteps
  <2>2. PICK step \in {"end", "close"} : Goto("rx", step) BY <1>271 DEF RxRest, BeginClose
  <2>3. step \in StepOf("rx") /\ step # "none" /\ step \notin Looping
    BY Members DEF Looping, MainSteps
  <2>. QED BY <1>26, <2>1, <2>2, <2>3
<1>28. CASE RxRecovered
  <2>1. /\ pc["rx"] # "none" /\ Goto("rx", "select") /\ stop' = FALSE
        /\ UNCHANGED <<worker, socket>>
    BY <1>28 DEF RxRecovered
  <2>2. "select" \in StepOf("rx") /\ "select" \in Reading /\ "select" # "none"
    BY Members DEF Reading, Looping, MainSteps
  <2>3. Shuts("rx", "select") BY <1>28, <2>1 DEF RxRecovered, Shuts, ForgetSteps
  <2>. QED BY <1>0, <2>1, <2>2, <2>3, RxMoves
<1>29. CASE RxEnds
  <2>1. pc["rx"] = "end" /\ worker' = FALSE /\ Goto("rx", "none") /\ UNCHANGED <<socket, stop>>
    BY <1>29 DEF RxEnds
  <2>2. "none" \in StepOf("rx") /\ "none" \notin Looping BY Members DEF Looping, MainSteps
  <2>3. PcTyped' /\ pc'["rx"] = "none" /\ pc'["app"] = pc["app"]
    BY <1>0, <1>01, <2>1, <2>2, Moved
  <2>4. socket = NoSocket \/ Forgetting
    <3>1. pc["rx"] \notin Reading /\ pc["rx"] # "none" BY <2>1 DEF Reading, Looping
    <3>. QED BY <3>1 DEF Owned
  <2>5. Shuts("rx", "none") BY <2>1 DEF Shuts, ForgetSteps
  <2>6. Forgetting => Forgetting' \/ socket' = NoSocket
    BY <1>0, <1>01, <2>1, <2>2, <2>5, Shutting
  <2>7. Owned' BY <2>1, <2>2, <2>3, <2>4, <2>6 DEF Owned
  <2>. QED BY <2>3, <2>7
<1>30. ASSUME NEW p \in {"app", "rx"}, pc[p] \in {"retrying", "trying", "delay"},
              NEW step \in {"notify", "trying", "retrying", "delay"}, Goto(p, step),
              UNCHANGED <<worker, socket, stop>>
       PROVE  Goal
  <2>1. CASE p = "app"
    <3>1. step \in StepOf("app") /\ step # "start" BY Members DEF AppSteps
    <3>2. Shuts("app", step) /\ pc["app"] # "start" BY <1>30, <2>1 DEF Shuts, ForgetSteps
    <3>3. ~ worker BY <1>30, <2>1 DEF Owned, Opening
    <3>. QED BY <1>0, <1>30, <2>1, <3>1, <3>2, <3>3, AppMoves
  <2>2. CASE p = "rx"
    <3>1. step \in StepOf("rx") /\ step # "none" /\ step \notin Looping
      BY Members DEF Looping, MainSteps
    <3>2. pc["rx"] \notin Reading \cup ForgetSteps \cup {"none"}
      BY <1>30, <2>2 DEF Reading, Looping, ForgetSteps
    <3>. QED BY <1>26, <1>30, <2>2, <3>1, <3>2
  <2>. QED BY <2>1, <2>2
<1>31. ASSUME NEW p \in {"app", "rx"}, RetrySteps(p) PROVE Goal
  <2>1. CASE RetryLoop(p) BY <1>30, <2>1 DEF RetryLoop
  <2>2. CASE RetryAttempt(p)
    <3>1. pc[p] = "trying" /\ UNCHANGED <<worker, stop>> BY <2>2 DEF RetryAttempt
    <3>2. CASE OpenFails /\ Goto(p, IF Counted(p) = 0 THEN "notify" ELSE "delay")
      BY <1>30, <3>1, <3>2 DEF OpenFails
    <3>3. CASE OpenSocket /\ Goto(p, IF p = "app" THEN "start" ELSE "recovered")
      <4>1. CASE p = "app" BY <1>2, <3>1, <3>3, <4>1 DEF Opening
      <4>2. CASE p = "rx"
        <5>1. "recovered" \in StepOf("rx") /\ Goto("rx", "recovered")
          BY <3>3, <4>2, Members DEF MainSteps
        <5>2. PcTyped' /\ pc'["rx"] = "recovered" /\ pc'["app"] = pc["app"]
          BY <1>0, <1>01, <5>1, Moved
        <5>3. pc["rx"] # "none" /\ "recovered" \in Reading /\ "recovered" \notin Looping
              /\ "recovered" # "none"
          BY <3>1, <4>2 DEF Reading, Looping
        <5>4. Owned' BY <3>1, <5>2, <5>3 DEF Owned
        <5>. QED BY <5>2, <5>4
      <4>. QED BY <4>1, <4>2
    <3>. QED BY <2>2, <3>2, <3>3 DEF RetryAttempt
  <2>3. CASE RetryDelay(p) BY <1>30, <2>3 DEF RetryDelay
  <2>. QED BY <1>31, <2>1, <2>2, <2>3 DEF RetrySteps
<1>32. ASSUME NEW p \in Procs, NEW step \in StepOf(p), Goto(p, step), worker' = worker,
              Shuts(p, step), pc[p] \in Closing \cup {"drop", "drop_forget"},
              p = "app" => step \notin Opening \cup {"start"},
              p = "rx" => step \notin Looping \cup {"none"},
              p = "rx" => \/ pc["rx"] \notin Reading \cup ForgetSteps
                          \/ step \in Reading \cup ForgetSteps \/ socket' = NoSocket
       PROVE  Goal
  <2>1. CASE p = "app"
    <3>1. pc["app"] # "start" BY <1>32, <2>1 DEF Closing
    <3>2. step \in StepOf("app") /\ Goto("app", step) /\ Shuts("app", step) BY <1>32, <2>1
    <3>. QED BY <1>0, <1>32, <2>1, <3>1, <3>2, AppMoves
  <2>2. CASE p = "rx"
    <3>1. pc["rx"] # "none" BY <1>32, <2>2 DEF Closing
    <3>2. step \in StepOf("rx") /\ Goto("rx", step) /\ Shuts("rx", step) BY <1>32, <2>2
    <3>3. step \in Reading \cup ForgetSteps \/ socket' = NoSocket \/ Forgetting
      <4>1. CASE pc["rx"] \in Reading \cup ForgetSteps BY <1>32, <2>2, <4>1
      <4>2. CASE pc["rx"] \notin Reading \cup ForgetSteps
        <5>1. pc["app"] # "start" BY <3>1 DEF Owned
        <5>2. socket = NoSocket \/ Forgetting BY <4>2, <5>1 DEF Owned
        <5>. QED BY <1>32, <5>2 DEF Shuts
      <4>. QED BY <4>1, <4>2
    <3>. QED BY <1>0, <1>32, <2>2, <3>1, <3>2, <3>3, RxMoves
  <2>3. CASE p \in {"timeout", "duration"} BY <1>0, <1>32, <2>3, TimerMoves
  <2>. QED BY <2>1, <2>2, <2>3 DEF Procs
<1>33. ASSUME NEW p \in Procs, ClosingSteps(p) PROVE Goal
  <2>0. /\ CloseSteps \cup {Finished(p)} \subseteq StepOf(p)
        /\ \A step \in CloseSteps \cup {Finished(p)} :
              /\ step \notin Opening \cup {"start"}
              /\ p = "rx" => step \notin Looping \cup {"none"}
    BY Members DEF Opening, Looping, Finished, CloseSteps
  <2>01. pc[p] \in {"drop", "drop_forget"} => p = "rx"
    BY <1>0 DEF PcTyped, StepOf, Steps, Closing
  <2>02. {"drop_forget", "dropped"} \subseteq StepOf("rx")
         /\ {"drop_forget", "dropped"} \cap (Looping \cup {"none"}) = {}
    BY Members DEF MainSteps, Looping
  <2>1. CASE Close(p)
    <3>1. /\ pc[p] \in {"close", "only_close", "drop"} /\ UNCHANGED <<worker, socket>>
          /\ pc[p] \notin ForgetSteps /\ pc[p] \in Closing \cup {"drop", "drop_forget"}
      BY <2>1 DEF Close, Closing, ForgetSteps
    <3>2. CASE pc[p] \in {"close", "only_close"}
      <4>1. PICK step \in ForgetSteps : Goto(p, step) BY <2>1, <3>2 DEF Close, ForgetSteps
      <4>2. Shuts(p, step) BY <3>1 DEF Shuts
      <4>3. step \in CloseSteps BY DEF ForgetSteps, CloseSteps
      <4>. QED BY <1>32, <2>0, <3>1, <4>1, <4>2, <4>3
    <3>3. CASE pc[p] = "drop"
      <4>1. Goto("rx", "drop_forget") /\ p = "rx" BY <2>01, <2>1, <3>3 DEF Close
      <4>2. /\ PcTyped' /\ pc'["rx"] = "drop_forget" /\ pc'["app"] = pc["app"]
            /\ \A x \in Procs : x # "rx" => pc'[x] = pc[x]
        BY <1>0, <1>01, <2>02, <4>1, Moved
      <4>3. "drop_forget" \in Reading /\ "drop_forget" \notin Looping BY DEF Reading, Looping
      <4>4. Owned' BY <3>1, <3>3, <4>1, <4>2, <4>3 DEF Owned
      <4>. QED BY <4>2, <4>4
    <3>. QED BY <3>1, <3>2, <3>3
  <2>2. CASE Forget(p)
    <3>1. /\ pc[p] \in {"forget", "only_forget", "drop_forget"} /\ socket' = NoSocket
          /\ UNCHANGED <<worker, stop>> /\ pc[p] \in Closing \cup {"drop", "drop_forget"}
      BY <2>2 DEF Forget, Closing
    <3>2. CASE pc[p] \in ForgetSteps
      <4>1. PICK step \in {"reset", "only_reset"} : Goto(p, step)
        BY <2>2, <3>2 DEF Forget, Forgotten, ForgetSteps
      <4>2. step \in CloseSteps /\ Shuts(p, step) BY <3>1 DEF CloseSteps, Shuts
      <4>. QED BY <1>32, <2>0, <3>1, <4>1, <4>2
    <3>3. CASE pc[p] = "drop_forget"
      <4>1. Goto(p, "dropped") /\ p = "rx" BY <2>01, <2>2, <3>3 DEF Forget, Forgotten
      <4>2. Shuts(p, "dropped") BY <3>1 DEF Shuts
      <4>. QED BY <1>32, <2>02, <3>1, <4>1, <4>2
    <3>. QED BY <3>1, <3>2, <3>3 DEF ForgetSteps
  <2>3. ASSUME pc[p] \in {"reset", "only_reset", "notify", "notifying"},
               NEW step \in {"notify", "notifying", Finished(p)}, Goto(p, step),
               UNCHANGED <<worker, socket, stop>>
        PROVE  Goal
    <3>1. /\ pc[p] \in Closing \cup {"drop", "drop_forget"} /\ pc[p] \notin Reading \cup ForgetSteps
          /\ step \in CloseSteps \cup {Finished(p)}
      BY <2>3 DEF Closing, Reading, Looping, ForgetSteps, CloseSteps
    <3>2. Shuts(p, step) BY <2>3, <3>1 DEF Shuts
    <3>. QED BY <1>32, <2>0, <2>3, <3>1, <3>2
  <2>4. CASE Reset(p) BY <2>3, <2>4 DEF Reset
  <2>5. CASE Notify(p) BY <2>3, <2>5 DEF Notify
  <2>6. CASE Notifying(p) BY <2>3, <2>6 DEF Notifying
  <2>. QED BY <1>33, <2>1, <2>2, <2>4, <2>5, <2>6 DEF ClosingSteps
<1>34. CASE ScheduleDuration \/ PeerCloses \/ DeleteAccessSpec \/ DeleteTimesOut \/ UNCHANGED vars
  BY <1>12, <1>34 DEF ScheduleDuration, PeerCloses, DeleteAccessSpec, DeleteTimesOut, vars
<1>. QED BY <1>1, <1>3, <1>4, <1>6, <1>7, <1>9, <1>11, <1>14, <1>17, <1>19, <1>20, <1>21, <1>22,
            <1>23, <1>24, <1>25, <1>27, <1>271, <1>28, <1>29, <1>31, <1>33, <1>34
         DEF Next, Receiving
(* The invariant holds at the start ... *)
LEMMA InitIInv == Init => IInv
<1> SUFFICES ASSUME Init PROVE IInv OBVIOUS
<1>1. "none" \in RxSteps /\ "idle" \in Steps /\ "rx" \in Procs /\ "app" \in Procs /\ "rx" # "app"
  BY DEF RxSteps, Steps, Procs
<1>2. pc = [p \in Procs |-> IF p = "rx" THEN "none" ELSE "idle"] BY DEF Init
<1>3. pc \in [Procs -> AnyStep] BY <1>1, <1>2 DEF AnyStep
<1>4. pc["rx"] = "none" /\ pc["app"] = "idle" BY <1>1, <1>2
<1>5. PcTyped BY <1>1, <1>2, <1>3 DEF PcTyped, StepOf
<1>6. 0 \in 0 .. MaxSessions /\ 0 \in 0 .. MaxCalls BY TransportAssumption
<1>7. DataTyped BY <1>6 DEF Init, DataTyped, NoSocket
<1>8. Owned BY <1>4 DEF Init, Owned, Opening, Looping
<1>. QED BY <1>5, <1>7, <1>8, TypeSplit DEF IInv

(* ... and every step keeps it. *)
LEMMA IInvStep == IInv /\ [Next]_vars => IInv'
BY TypeSplit, DataStep, OwnedStep DEF IInv

(***************************************************************************)
(* TypeCorrect: the fields of LLRPReaderClient keep their types, and no    *)
(* thread is anywhere it has no code to be.                                *)
(***************************************************************************)
THEOREM TypeCorrect == Spec => []TypeOK
<1>1. Spec => []IInv BY InitIInv, IInvStep, PTL DEF Spec
<1>2. IInv => TypeOK BY DEF IInv
<1>. QED BY <1>1, <1>2, PTL

(***************************************************************************)
(* NoOrphans: whichever threads close, connect and reconnect at once, an   *)
(* open socket has a receive thread, or connect() is about to start one,   *)
(* or hard_disconnect is about to clear it: connect() is refused while a   *)
(* thread is registered, and the thread ends only when the socket is       *)
(* closed or being closed.                                                 *)
(***************************************************************************)
THEOREM NoOrphans == Spec => []NoOrphanSocket
<1>1. Spec => []IInv BY InitIInv, IInvStep, PTL DEF Spec
<1>2. IInv => NoOrphanSocket
  <2>1. "none" \notin Reading BY DEF Reading, Looping
  <2>. QED BY <2>1 DEF IInv, Owned, Forgetting, ForgetSteps, NoOrphanSocket
<1>. QED BY <1>1, <1>2, PTL

(***************************************************************************)
(* StartsOneWorker: connect() never starts a second receive thread,        *)
(* although it tests _socket_thread long before it sets it.                *)
(***************************************************************************)
THEOREM StartsOneWorker == Spec => OneWorker
<1>1. Spec => []IInv BY InitIInv, IInvStep, PTL DEF Spec
<1>2. IInv => StartsAlone BY DEF IInv, Owned, StartsAlone
<1>. QED BY <1>1, <1>2, PTL DEF OneWorker

-----------------------------------------------------------------------------
(* When no timer closes a session.                                          *)

(* Goes: a thread goes on, and the timers stay idle. *)
LEMMA Goes ==
    ASSUME OInv, NEW p \in {"app", "rx"}, NEW step, Goto(p, step)
    PROVE  /\ pc'[p] = step
           /\ pc'["timeout"] = "idle" /\ pc'["duration"] = "idle"
           /\ p = "app" => pc'["rx"] = pc["rx"]
           /\ p = "rx" => pc'["app"] = pc["app"]
<1>1. {"rx", "app", "timeout", "duration"} \subseteq Procs BY DEF Procs
<1>2. pc \in [Procs -> AnyStep] BY DEF OInv, IInv, TypeOK, AnyStep
<1>3. pc["timeout"] = "idle" /\ pc["duration"] = "idle" BY DEF OInv, Quiet
<1>. QED BY <1>1, <1>2, <1>3 DEF Goto

(* OInvStep: only _connect_socket clears the flag, for a session that has   *)
(* not been reported, and only the one thread that found it clear sets it.  *)
LEMMA OInvStep == ASSUME NoTimers PROVE OInv /\ [Next]_vars => OInv'
<1> DEFINE Goal == Quiet' /\ Reported'
<1> SUFFICES ASSUME OInv, [Next]_vars PROVE Goal BY IInvStep DEF OInv
<1>0. /\ pc["timeout"] = "idle" /\ pc["duration"] = "idle" /\ ~ duration
      /\ pc["app"] \in Aside \/ pc["rx"] = "none"
      /\ pc["rx"] # "none" <=> worker
      /\ sessions \in 0 .. MaxSessions /\ sessions \in Nat /\ notes \in [0 .. MaxSessions -> Nat]
  BY TransportAssumption DEF OInv, Quiet, IInv, TypeOK, Owned
<1>1. ASSUME NEW p \in {"app", "rx"}, NEW step, Goto(p, step), ~ duration',
             p = "app" => step \in Aside \/ pc["rx"] = "none",
             p = "rx" => pc["rx"] # "none",
             step = "notifying" => ~ notified,
             UNCHANGED <<sessions, notified, notes>>
      PROVE  Goal
  <2>1. /\ pc'["timeout"] = "idle" /\ pc'["duration"] = "idle"
        /\ p = "app" => pc'["app"] = step /\ pc'["rx"] = pc["rx"]
        /\ p = "rx" => pc'["rx"] = step /\ pc'["app"] = pc["app"]
    BY <1>1, Goes
  <2>2. Quiet' BY <1>0, <1>1, <2>1 DEF Quiet
  <2>3. ASSUME NEW x \in {"app", "rx"}, pc'[x] = "notifying" PROVE ~ notified
    BY <1>1, <2>1, <2>3 DEF OInv, Reported
  <2>4. Reported' BY <1>1, <2>3 DEF OInv, Reported
  <2>. QED BY <2>2, <2>4
<1>2. ASSUME NEW p \in {"app", "rx"}, pc[p] \in Opening, OpenSocket,
             Goto(p, IF p = "app" THEN "start" ELSE "recovered"), UNCHANGED <<notes, duration>>
      PROVE  Goal
  <2>1. /\ pc'["timeout"] = "idle" /\ pc'["duration"] = "idle"
        /\ p = "app" => pc'["app"] = "start" /\ pc'["rx"] = pc["rx"] /\ pc["rx"] = "none"
        /\ p = "rx" => pc'["rx"] = "recovered" /\ pc'["app"] = pc["app"]
                       /\ pc["app"] \in Aside
    BY <1>0, <1>2, Goes DEF Opening, Aside
  <2>2. Quiet' BY <1>0, <1>2, <2>1 DEF Quiet
  <2>3. sessions' = sessions + 1 /\ ~ notified' /\ sessions' \in 0 .. MaxSessions
    BY <1>0, <1>2, TransportAssumption DEF OpenSocket
  <2>4. ASSUME NEW n \in 0 .. MaxSessions
        PROVE  notes'[n] = 0 \/ (notes'[n] = 1 /\ n <= sessions')
    BY <1>0, <1>2, <2>3 DEF OInv, Reported
  <2>5. notes'[sessions'] = 0 BY <1>0, <1>2, <2>3 DEF OInv, Reported
  <2>6. ~ (notes'[sessions'] = 1) BY <2>5
  <2>7. Reported' BY <2>3, <2>4, <2>6 DEF Reported
  <2>. QED BY <2>2, <2>7
<1>3. ASSUME NEW p \in {"app", "rx"}, Notifying(p) PROVE Goal
  <2>1. /\ notified' /\ Goto(p, Finished(p)) /\ UNCHANGED <<sessions, duration>>
        /\ notes' = [notes EXCEPT ![sessions] = @ + 1] /\ pc[p] = "notifying"
    BY <1>3 DEF Notifying
  <2>2. /\ pc'["timeout"] = "idle" /\ pc'["duration"] = "idle"
        /\ p = "app" => pc'["app"] = "idle" /\ pc'["rx"] = pc["rx"] /\ pc["rx"] = "none"
        /\ p = "rx" => pc'["rx"] \in {"end", "rest"} /\ pc'["app"] = pc["app"]
                       /\ pc["app"] \in Aside
    BY <1>0, <2>1, Goes DEF Finished, Aside
  <2>3. Quiet' BY <1>0, <2>1, <2>2 DEF Quiet, Aside
  <2>4. notes[sessions] = 0
    <3>1. ~ notified BY <2>1 DEF OInv, Reported
    <3>. QED BY <1>0, <3>1 DEF OInv, Reported
  <2>5. notes'[sessions] = 1 /\ \A n \in 0 .. MaxSessions : n # sessions => notes'[n] = notes[n]
    BY <1>0, <2>1, <2>4
  <2>6. ASSUME NEW n \in 0 .. MaxSessions
        PROVE  notes'[n] = 0 \/ (notes'[n] = 1 /\ n <= sessions')
    <3>1. CASE n = sessions BY <1>0, <2>1, <2>5, <3>1
    <3>2. CASE n # sessions BY <2>1, <2>5, <3>2 DEF OInv, Reported
    <3>. QED BY <3>1, <3>2
  <2>7. \A x \in {"app", "rx"} : pc'[x] # "notifying" BY <2>2 DEF Aside
  <2>8. Reported' BY <2>1, <2>5, <2>6, <2>7 DEF Reported
  <2>. QED BY <2>3, <2>8
<1>4. CASE UNCHANGED <<pc, sessions, notified, notes, duration>>
  <2>1. Quiet' BY <1>4 DEF OInv, Quiet
  <2>2. Reported' BY <1>4 DEF OInv, Reported
  <2>. QED BY <2>1, <2>2
<1>5. CASE Connect BY <1>0, <1>1, <1>5 DEF Connect
<1>6. CASE ConnectSocket
  <2>1. pc["app"] = "connecting" /\ pc["rx"] = "none" /\ UNCHANGED <<notes, duration>>
    BY <1>0, <1>6 DEF ConnectSocket, Aside
  <2>2. CASE OpenSocket /\ Goto("app", "start") BY <1>2, <2>1, <2>2 DEF Opening
  <2>3. CASE OpenFails /\ Goto("app", IF Reconnects THEN "retrying" ELSE "idle")
    <3>1. PICK step \in {"retrying", "idle"} : Goto("app", step) BY <2>3
    <3>. QED BY <1>0, <1>1, <2>1, <2>3, <3>1 DEF OpenFails
  <2>. QED BY <1>6, <2>2, <2>3 DEF ConnectSocket
<1>7. CASE StartWorker
  <2>1. /\ pc' = [pc EXCEPT !["app"] = "idle", !["rx"] = "begin"]
        /\ UNCHANGED <<sessions, notified, notes, duration>>
    BY <1>7 DEF StartWorker
  <2>2. pc \in [Procs -> AnyStep] /\ {"rx", "app", "timeout", "duration"} \subseteq Procs
    BY Members DEF OInv, IInv, TypeOK, AnyStep
  <2>3. /\ pc'["app"] = "idle" /\ pc'["rx"] = "begin"
        /\ pc'["timeout"] = "idle" /\ pc'["duration"] = "idle"
    BY <1>0, <2>1, <2>2
  <2>4. Quiet' BY <1>0, <2>1, <2>3 DEF Quiet, Aside
  <2>5. Reported' BY <2>1, <2>3 DEF OInv, Reported
  <2>. QED BY <2>4, <2>5
<1>8. CASE Disconnect
  <2>1. UNCHANGED <<sessions, notified, notes, duration>> BY <1>8 DEF Disconnect
  <2>2. CASE worker
    <3>1. Goto("app", "polite") BY <1>8, <2>2 DEF Disconnect, DisconnectBy
    <3>. QED BY <1>0, <1>1, <2>1, <3>1 DEF Aside
  <2>3. CASE ~ worker
    <3>1. Goto("app", "close") BY <1>8, <2>3 DEF Disconnect, DisconnectBy, BeginClose
    <3>. QED BY <1>0, <1>1, <2>1, <2>3, <3>1
  <2>. QED BY <2>2, <2>3
<1>9. CASE HardDisconnect BY <1>0, <1>1, <1>9 DEF HardDisconnect, BeginClose, Aside
<1>10. ASSUME NEW p \in {"app", "duration"}, StopPolitely(p) PROVE Goal
  <2>1. p = "app" BY <1>0, <1>10 DEF StopPolitely
  <2>2. Goto("app", "idle") /\ UNCHANGED <<sessions, notified, notes, duration>>
    BY <1>10, <2>1 DEF StopPolitely
  <2>. QED BY <1>0, <1>1, <2>2 DEF Aside
<1>11. CASE PoliteTimesOut \/ RollbackTimesOut \/ DeleteTimesOut \/ ScheduleDuration
            \/ DurationElapses \/ DurationExpired
  BY <1>0, <1>11 DEF NoTimers, PoliteTimesOut, RollbackTimesOut, DeleteTimesOut, ScheduleDuration,
                     DurationElapses, DurationExpired
<1>12. CASE PeerCloses \/ DeleteAccessSpec \/ UNCHANGED vars
  BY <1>4, <1>12 DEF PeerCloses, DeleteAccessSpec, vars
<1>13. ASSUME NEW step, Goto("rx", step), pc["rx"] # "none", step # "notifying", ~ duration',
              UNCHANGED <<sessions, notified, notes>>
       PROVE  Goal
  BY <1>1, <1>13
<1>14. CASE RxDispatch \/ RxPolitelyStopped
  BY <1>0, <1>13, <1>14 DEF RxDispatch, RxPolitelyStopped, BeginClose
<1>15. CASE Receiving
  <2>1. /\ pc["rx"] # "none" /\ UNCHANGED <<sessions, notified, notes>> /\ ~ duration'
    BY <1>0, <1>15 DEF Receiving, RxBegin, RxSelect, RxClosed, RxRest, RxEof, RxCheck,
                       OnLostConnection, RxDropped, RxRecovered, RxEnds
  <2>2. PICK step \in RxSteps : Goto("rx", step) /\ step # "notifying"
    BY <1>15 DEF Receiving, RxBegin, RxSelect, RxClosed, RxRest, RxEof, RxCheck,
                 OnLostConnection, RxDropped, RxRecovered, RxEnds, BeginClose, RxSteps, Closing
  <2>. QED BY <1>13, <2>1, <2>2
<1>16. ASSUME NEW p \in {"app", "rx"}, RetrySteps(p) PROVE Goal
  <2>1. /\ pc[p] \in Opening /\ pc[p] # "none" /\ UNCHANGED <<notes, duration>>
        /\ (p = "app" => pc["rx"] = "none")
    BY <1>0, <1>16 DEF RetrySteps, RetryLoop, RetryAttempt, RetryDelay, Opening, Aside
  <2>2. CASE OpenSocket /\ Goto(p, IF p = "app" THEN "start" ELSE "recovered")
    BY <1>2, <2>1, <2>2
  <2>3. CASE UNCHANGED <<sessions, notified>>
             /\ \E step \in {"notify", "trying", "retrying", "delay"} : Goto(p, step)
    <3>1. PICK step \in {"notify", "trying", "retrying", "delay"} : Goto(p, step) BY <2>3
    <3>. QED BY <1>0, <1>1, <2>1, <2>3, <3>1
  <2>. QED BY <1>16, <2>2, <2>3 DEF RetrySteps, RetryLoop, RetryAttempt, RetryDelay, OpenFails
<1>17. ASSUME NEW p \in Procs, ClosingSteps(p) PROVE Goal
  <2>1. p \in {"app", "rx"}
    BY <1>0, <1>17 DEF Procs, ClosingSteps, Close, Forget, Reset, Notify, Notifying
  <2>2. CASE Notifying(p) BY <1>3, <2>1, <2>2
  <2>3. CASE Close(p) \/ Forget(p) \/ Reset(p) \/ Notify(p)
    <3>1. UNCHANGED <<sessions, notified, notes>> /\ ~ duration' /\ pc[p] # "none"
      BY <1>0, <2>3 DEF Close, Forget, Reset, Notify
    <3>2. PICK step : /\ Goto(p, step) /\ (step = "notifying" => ~ notified)
                      /\ p = "app" => step \in Aside \/ pc["rx"] = "none"
      <4>1. CASE Close(p) BY <1>0, <2>1, <4>1 DEF Close, Aside
      <4>2. CASE Forget(p) BY <1>0, <2>1, <4>2 DEF Forget, Forgotten, Aside
      <4>3. CASE Reset(p) BY <1>0, <2>1, <4>3 DEF Reset, Finished, Aside
      <4>4. CASE Notify(p) BY <1>0, <2>1, <4>4 DEF Notify, Finished, Aside
      <4>. QED BY <2>3, <4>1, <4>2, <4>3, <4>4
    <3>. QED BY <1>1, <2>1, <3>1, <3>2
  <2>. QED BY <1>17, <2>2, <2>3 DEF ClosingSteps
<1>. QED BY <1>5, <1>6, <1>7, <1>8, <1>9, <1>10, <1>11, <1>12, <1>14, <1>15, <1>16, <1>17 DEF Next

LEMMA InitOInv == Init => OInv
<1> SUFFICES ASSUME Init PROVE OInv OBVIOUS
<1>1. {"rx", "app", "timeout", "duration"} \subseteq Procs BY Members
<1>2. /\ pc["rx"] = "none" /\ pc["app"] = "idle"
      /\ pc["timeout"] = "idle" /\ pc["duration"] = "idle"
  BY <1>1 DEF Init
<1>3. IInv BY InitIInv
<1>4. Quiet BY <1>2 DEF Quiet, Aside, Init
<1>5. 0 \in 0 .. MaxSessions BY TransportAssumption
<1>6. notes[0] = 0 /\ sessions = 0 /\ ~ notified BY <1>5 DEF Init
<1>7. \A n \in 0 .. MaxSessions : notes[n] = 0 BY DEF Init
<1>8. Reported BY <1>2, <1>6, <1>7 DEF Reported
<1>. QED BY <1>3, <1>4, <1>8 DEF OInv

(***************************************************************************)
(* NotifiesOnce: with no timer to close a session, the disconnect          *)
(* callbacks run at most once for a session, however disconnect(),         *)
(* hard_disconnect(), the peer's closing, a handler's error and the        *)
(* reconnecting meet.  With a request timeout or a duration they may run   *)
(* twice: _on_disconnected tests its flag and sets it without a lock.      *)
(***************************************************************************)
THEOREM NotifiesOnce == ASSUME NoTimers PROVE Spec => []NotifiedOnce
<1>1. Spec => []OInv BY InitOInv, OInvStep, PTL DEF Spec
<1>2. OInv => NotifiedOnce
  <2>1. 1 .. MaxSessions \subseteq 0 .. MaxSessions BY TransportAssumption
  <2>. QED BY <2>1 DEF OInv, Reported, NotifiedOnce
<1>. QED BY <1>1, <1>2, PTL

-----------------------------------------------------------------------------
(* When only two threads close.                                             *)

(* What AInv adds to OInv. *)
Lone == TwoThreads /\ HasSocket /\ ClosesCurrent /\ Told

(* Rests: the application's thread rests while there is a receive thread. *)
LEMMA Rests ==
    AInv => OInv /\ (pc["app"] \in {"idle", "polite"} \/ pc["rx"] = "none")
            /\ pc["timeout"] = "idle" /\ pc["duration"] = "idle" /\ ~ duration
BY DEF AInv, OInv, Quiet, TwoThreads, Aside

(* AppGoes: connect() and disconnect() when no receive thread is there, up  *)
(* to and after what they do to the session itself.                         *)
LEMMA AppGoes ==
    ASSUME AInv, NEW step, Goto("app", step), pc["app"] # "start",
           step \notin {"start", "only_close", "only_forget", "only_reset", "notifying"} \cup OwnSteps,
           step \in {"idle", "polite"} \/ pc["rx"] = "none",
           UNCHANGED <<socket, seen, stop, sessions, notified, notes, duration, closing>>
    PROVE  Lone'
<1>1. /\ pc'["app"] = step /\ pc'["rx"] = pc["rx"]
      /\ pc'["timeout"] = "idle" /\ pc'["duration"] = "idle"
  BY Goes, Rests
<1>2. TwoThreads' BY <1>1 DEF AInv, TwoThreads
<1>3. HasSocket' BY <1>1 DEF AInv, HasSocket
<1>4. ClosesCurrent' BY <1>1 DEF AInv, ClosesCurrent
<1>5. Told' BY <1>1 DEF AInv, Told
<1>. QED BY <1>2, <1>3, <1>4, <1>5 DEF Lone

(* RxGoes: main_loop and the reconnecting, while the session is not         *)
(* touched.                                                                 *)
LEMMA RxGoes ==
    ASSUME AInv, NEW step, Goto("rx", step), pc["rx"] # "none",
           step \notin {"none", "only_close", "only_forget", "only_reset", "notifying"},
           step \in {"end", "rest"} => notified,
           step \in Looping \cup {"recovered"} => pc["rx"] \in Looping \cup {"recovered"},
           step \in Looping => ~ stop',
           step = "ready" => seen' = socket,
           step \in OwnSteps => closing'["rx"] = sessions,
           closing'["app"] = closing["app"],
           UNCHANGED <<socket, sessions, notified, notes>>, ~ duration'
    PROVE  Lone'
<1>1. /\ pc'["rx"] = step /\ pc'["app"] = pc["app"]
      /\ pc'["timeout"] = "idle" /\ pc'["duration"] = "idle"
  BY Goes, Rests
<1>2. TwoThreads' BY <1>1 DEF AInv, TwoThreads
<1>3. HasSocket' BY <1>1 DEF AInv, HasSocket, TwoThreads
<1>4. ClosesCurrent' BY <1>1 DEF AInv, ClosesCurrent
<1>5. Told' BY <1>1 DEF AInv, Told
<1>. QED BY <1>2, <1>3, <1>4, <1>5 DEF Lone

(* Opens: a new session has not been reported, and no thread is closing. *)
LEMMA Opens ==
    ASSUME AInv, NEW p \in {"app", "rx"}, pc[p] \in Opening, OpenSocket,
           Goto(p, IF p = "app" THEN "start" ELSE "recovered"),
           UNCHANGED <<seen, stop, notes, duration, closing>>
    PROVE  Lone'
<1>1. /\ pc'["timeout"] = "idle" /\ pc'["duration"] = "idle"
      /\ p = "app" => pc'["app"] = "start" /\ pc'["rx"] = pc["rx"]
      /\ p = "rx" => pc'["rx"] = "recovered" /\ pc'["app"] = pc["app"]
  BY Goes, Rests
<1>2. pc["app"] \in {"idle", "polite"} \/ pc["rx"] = "none" BY Rests
<1>3. p = "rx" => pc["app"] \in {"idle", "polite"} BY <1>2 DEF Opening
<1>4. p = "app" => pc["rx"] = "none" BY <1>2 DEF Opening
<1>5. /\ socket' = sessions + 1 /\ sessions' = sessions + 1 /\ ~ notified'
      /\ sessions \in Nat /\ sessions' \in 0 .. MaxSessions
  <2>1. sessions \in 0 .. MaxSessions BY TypeSplit DEF AInv, OInv, IInv, DataTyped
  <2>. QED BY <2>1, TransportAssumption DEF OpenSocket
<1>6. TwoThreads' BY <1>1, <1>3, <1>4 DEF AInv, TwoThreads
<1>7. HasSocket' BY <1>1, <1>3, <1>4, <1>5 DEF AInv, HasSocket, NoSocket, Looping
<1>8. ClosesCurrent' BY <1>1, <1>3, <1>4 DEF ClosesCurrent, OwnSteps
<1>9. Told' BY <1>1, <1>4 DEF Told
<1>. QED BY <1>6, <1>7, <1>8, <1>9 DEF Lone

(* ClosingLone: hard_disconnect and _on_disconnected, on one of the two. *)
LEMMA ClosingLone ==
    ASSUME AInv, NEW p \in {"app", "rx"}, ClosingSteps(p)
    PROVE  Lone'
<1>1. ASSUME NEW step, Goto(p, step), p = "rx" \/ pc["rx"] = "none"
      PROVE  /\ pc'["timeout"] = "idle" /\ pc'["duration"] = "idle"
             /\ p = "app" => pc'["app"] = step /\ pc'["rx"] = "none"
             /\ p = "rx" => pc'["rx"] = step /\ pc'["app"] = pc["app"]
  BY <1>1, Goes, Rests
<1>2. pc["app"] \in {"idle", "polite"} \/ pc["rx"] = "none" BY Rests
<1>3. pc[p] \in Closing \cup {"drop", "drop_forget"}
  BY DEF ClosingSteps, Close, Forget, Reset, Notify, Notifying, Closing
<1>4. p = "rx" => pc["app"] \in {"idle", "polite"} /\ pc["rx"] # "none" BY <1>2, <1>3 DEF Closing
<1>5. p = "app" => pc["rx"] = "none" BY <1>2, <1>3 DEF Closing
<1>6. pc[p] \notin {"only_close", "only_forget", "only_reset"} BY DEF AInv, TwoThreads
<1>7. p = "app" => pc[p] \notin {"drop", "drop_forget"}
  BY DEF AInv, OInv, IInv, TypeOK, Steps, Closing
<1>8. p = "app" => sessions = 0 \/ notified BY <1>3, <1>5 DEF AInv, Told, Closing
<1>9. p = "rx" \/ pc["rx"] = "none" BY <1>5
<1>10. CASE Close(p) \/ Forget(p)
  <2>1. /\ socket' \in {socket, NoSocket} /\ ~ duration'
        /\ UNCHANGED <<seen, sessions, closing, notes, notified>>
    BY <1>10, Rests DEF Close, Forget
  <2>2. PICK step \in OwnSteps \cup {"dropped"} :
           Goto(p, step) /\ (step \in {"drop_forget", "dropped"} => p = "rx")
    BY <1>6, <1>7, <1>10 DEF Close, Forget, Forgotten, OwnSteps
  <2>3. /\ pc'["timeout"] = "idle" /\ pc'["duration"] = "idle"
        /\ p = "app" => pc'["app"] = step /\ pc'["rx"] = "none"
        /\ p = "rx" => pc'["rx"] = step /\ pc'["app"] = pc["app"]
    BY <1>1, <1>9, <2>2
  <2>4. closing[p] = sessions
    BY <1>6, <1>10 DEF AInv, ClosesCurrent, Close, Forget, OwnSteps
  <2>5. TwoThreads' BY <1>4, <1>5, <2>1, <2>3 DEF TwoThreads, OwnSteps
  <2>6. HasSocket' BY <1>4, <2>1, <2>3 DEF HasSocket, Looping, OwnSteps
  <2>7. ClosesCurrent' BY <1>4, <2>1, <2>3, <2>4 DEF ClosesCurrent, OwnSteps
  <2>8. Told' BY <1>4, <1>8, <2>1, <2>3 DEF AInv, Told, OwnSteps
  <2>. QED BY <2>5, <2>6, <2>7, <2>8 DEF Lone
<1>11. ASSUME NEW step \in {"notify", "notifying", Finished(p)}, Goto(p, step), ~ duration',
              UNCHANGED <<seen, sessions, closing, notes, notified, socket, stop>>,
              step = "notifying" => ~ notified, step = Finished(p) => notified
       PROVE  Lone'
  <2>1. /\ pc'["timeout"] = "idle" /\ pc'["duration"] = "idle"
        /\ p = "app" => pc'["app"] = step /\ pc'["rx"] = "none"
        /\ p = "rx" => pc'["rx"] = step /\ pc'["app"] = pc["app"]
    BY <1>1, <1>9, <1>11
  <2>2. /\ step \in {"notify", "notifying", "end", "rest", "idle"}
        /\ step \in {"end", "rest", "idle"} => notified
        /\ (p = "rx" => step # "idle") /\ (p = "app" => step \notin {"end", "rest"})
    BY <1>11 DEF Finished
  <2>3. TwoThreads' BY <1>4, <1>5, <1>11, <2>1, <2>2 DEF TwoThreads
  <2>4. HasSocket' BY <1>4, <1>11, <2>1, <2>2 DEF HasSocket, Looping
  <2>5. ClosesCurrent' BY <1>4, <1>11, <2>1, <2>2 DEF ClosesCurrent, OwnSteps
  <2>6. Told' BY <1>4, <1>8, <1>11, <2>1, <2>2 DEF AInv, Told
  <2>. QED BY <2>3, <2>4, <2>5, <2>6 DEF Lone
<1>12. CASE Reset(p)
  <2>1. Goto(p, "notify") /\ UNCHANGED <<seen, sessions, closing, notes, notified, socket, stop, duration>>
    BY <1>6, <1>12 DEF Reset
  <2>2. ~ duration' BY <2>1, Rests
  <2>3. "notify" # Finished(p) BY DEF Finished
  <2>. QED BY <1>11, <2>1, <2>2, <2>3
<1>13. CASE Notify(p)
  <2>1. ~ duration' /\ UNCHANGED <<seen, sessions, closing, notes, notified, socket, stop>>
    BY <1>13 DEF Notify
  <2>2. CASE notified
    <3>1. Goto(p, Finished(p)) /\ Finished(p) # "notifying" BY <1>13, <2>2 DEF Notify, Finished
    <3>. QED BY <1>11, <2>1, <2>2, <3>1
  <2>3. CASE ~ notified
    <3>1. Goto(p, "notifying") /\ Finished(p) # "notifying" BY <1>13, <2>3 DEF Notify, Finished
    <3>. QED BY <1>11, <2>1, <2>3, <3>1
  <2>. QED BY <2>2, <2>3
<1>14. CASE Notifying(p)
  <2>1. /\ notified' /\ Goto(p, Finished(p))
        /\ UNCHANGED <<seen, sessions, closing, socket, stop, duration>>
    BY <1>14 DEF Notifying
  <2>2. /\ pc'["timeout"] = "idle" /\ pc'["duration"] = "idle"
        /\ p = "app" => pc'["app"] = "idle" /\ pc'["rx"] = "none"
        /\ p = "rx" => pc'["rx"] \in {"end", "rest"} /\ pc'["app"] = pc["app"]
    BY <1>1, <1>9, <2>1 DEF Finished
  <2>3. TwoThreads' BY <1>4, <2>2 DEF TwoThreads
  <2>4. HasSocket' BY <1>4, <2>1, <2>2 DEF HasSocket, Looping
  <2>5. ClosesCurrent' BY <1>4, <2>1, <2>2 DEF ClosesCurrent, OwnSteps
  <2>6. Told' BY <2>1, <2>2 DEF Told
  <2>. QED BY <2>3, <2>4, <2>5, <2>6 DEF Lone
<1>. QED BY <1>10, <1>12, <1>13, <1>14 DEF ClosingSteps

LEMMA AInvStep == ASSUME Alone PROVE AInv /\ [Next]_vars => AInv'
<1>a. NoTimers BY DEF Alone
<1> SUFFICES ASSUME AInv, [Next]_vars PROVE Lone'
  BY <1>a, OInvStep DEF AInv, Lone
<1>0. /\ pc["timeout"] = "idle" /\ pc["duration"] = "idle" /\ ~ duration
      /\ pc["rx"] # "none" <=> worker
      /\ closing \in [Procs -> 0 .. MaxSessions] /\ "rx" \in Procs /\ "app" \in Procs
  BY Rests DEF AInv, OInv, IInv, TypeOK, Owned, Procs
<1>1. CASE Connect
  <2>1. pc["rx"] = "none" /\ pc["app"] # "start" /\ Goto("app", "connecting") BY <1>0, <1>1 DEF Connect
  <2>. QED BY <1>1, <2>1, AppGoes DEF Connect, OwnSteps
<1>2. CASE ConnectSocket
  <2>1. pc["app"] = "connecting" /\ pc["rx"] = "none"
        /\ UNCHANGED <<seen, stop, notes, duration, closing>>
    BY <1>2, Rests DEF ConnectSocket
  <2>2. CASE OpenSocket /\ Goto("app", "start") BY <2>1, <2>2, Opens DEF Opening
  <2>3. CASE OpenFails /\ Goto("app", IF Reconnects THEN "retrying" ELSE "idle")
    <3>1. PICK step \in {"retrying", "idle"} : Goto("app", step) BY <2>3
    <3>2. UNCHANGED <<socket, sessions, notified>> BY <2>3 DEF OpenFails
    <3>. QED BY <2>1, <3>1, <3>2, AppGoes DEF OwnSteps
  <2>. QED BY <1>2, <2>2, <2>3 DEF ConnectSocket
<1>3. CASE StartWorker
  <2>1. /\ pc["app"] = "start" /\ ~ stop'
        /\ pc' = [pc EXCEPT !["app"] = "idle", !["rx"] = "begin"]
        /\ UNCHANGED <<socket, seen, notified, duration, sessions, closing, notes>>
    BY <1>3 DEF StartWorker
  <2>2. pc \in [Procs -> AnyStep] /\ {"rx", "app", "timeout", "duration"} \subseteq Procs
    BY Members DEF AInv, OInv, IInv, TypeOK, AnyStep
  <2>3. /\ pc'["app"] = "idle" /\ pc'["rx"] = "begin"
        /\ pc'["timeout"] = "idle" /\ pc'["duration"] = "idle"
    BY <1>0, <2>1, <2>2
  <2>4. TwoThreads' BY <1>0, <2>1, <2>3 DEF TwoThreads
  <2>5. HasSocket' BY <2>1, <2>3 DEF AInv, HasSocket
  <2>6. ClosesCurrent' BY <2>3 DEF ClosesCurrent, OwnSteps
  <2>7. Told' BY <2>1, <2>3 DEF AInv, Told
  <2>. QED BY <2>4, <2>5, <2>6, <2>7 DEF Lone
<1>4. CASE Disconnect
  <2>1. /\ pc["app"] = "idle"
        /\ UNCHANGED <<socket, seen, stop, sessions, notified, notes, duration>>
    BY <1>4 DEF Disconnect
  <2>2. CASE worker
    <3>1. Goto("app", "polite") /\ closing' = closing
      BY <1>4, <2>2 DEF Disconnect, DisconnectBy
    <3>. QED BY <2>1, <3>1, AppGoes DEF OwnSteps
  <2>3. CASE ~ worker
    <3>1. Goto("app", "close") /\ closing' = [closing EXCEPT !["app"] = sessions]
      BY <1>4, <2>3 DEF Disconnect, DisconnectBy, BeginClose
    <3>2. /\ pc'["app"] = "close" /\ pc'["rx"] = pc["rx"] /\ pc["rx"] = "none"
          /\ pc'["timeout"] = "idle" /\ pc'["duration"] = "idle"
      BY <1>0, <2>3, <3>1, Goes, Rests
    <3>3. closing'["app"] = sessions BY <1>0, <3>1
    <3>4. TwoThreads' BY <1>0, <2>1, <3>2 DEF TwoThreads
    <3>5. HasSocket' BY <2>1, <3>2 DEF AInv, HasSocket
    <3>6. ClosesCurrent' BY <2>1, <3>2, <3>3 DEF ClosesCurrent, OwnSteps
    <3>7. Told' BY <2>1, <3>2 DEF AInv, Told
    <3>. QED BY <3>4, <3>5, <3>6, <3>7 DEF Lone
  <2>. QED BY <2>2, <2>3
<1>5. ASSUME NEW p \in {"app", "duration"}, StopPolitely(p) PROVE Lone'
  <2>1. p = "app" BY <1>0, <1>5 DEF StopPolitely
  <2>2. pc["app"] # "start" /\ Goto("app", "idle") BY <1>5, <2>1 DEF StopPolitely
  <2>. QED BY <1>5, <2>2, AppGoes DEF StopPolitely, OwnSteps
<1>6. CASE HardDisconnect \/ PoliteTimesOut \/ RollbackTimesOut \/ DeleteTimesOut
           \/ ScheduleDuration \/ DurationElapses \/ DurationExpired
  BY <1>0, <1>6 DEF Alone, NoTimers, HardDisconnect, PoliteTimesOut, RollbackTimesOut, DeleteTimesOut,
                    ScheduleDuration, DurationElapses, DurationExpired
<1>7. CASE PeerCloses \/ DeleteAccessSpec \/ UNCHANGED vars
  <2>1. UNCHANGED <<pc, socket, seen, stop, sessions, notified, notes, duration, closing>>
    BY <1>7 DEF PeerCloses, DeleteAccessSpec, vars
  <2>2. TwoThreads' BY <2>1 DEF AInv, TwoThreads
  <2>3. HasSocket' BY <2>1 DEF AInv, HasSocket
  <2>4. ClosesCurrent' BY <2>1 DEF AInv, ClosesCurrent
  <2>5. Told' BY <2>1 DEF AInv, Told
  <2>. QED BY <2>2, <2>3, <2>4, <2>5 DEF Lone
<1>8. ASSUME NEW step, Goto("rx", step),
             step \in {"check", "select", "ready", "lost", "close", "drop"},
             pc["rx"] # "none", step \in Looping => ~ stop',
             step \in Looping => pc["rx"] \in Looping \cup {"recovered"},
             step = "ready" => seen' = socket, ~ duration',
             closing' = closing \/ closing' = [closing EXCEPT !["rx"] = sessions],
             step \in {"close", "drop"} => closing' = [closing EXCEPT !["rx"] = sessions],
             UNCHANGED <<socket, sessions, notified, notes>>
      PROVE  Lone'
  <2>1. closing'["app"] = closing["app"] BY <1>0, <1>8
  <2>2. step \in OwnSteps => closing'["rx"] = sessions BY <1>0, <1>8 DEF OwnSteps
  <2>. QED BY <1>8, <2>1, <2>2, RxGoes
<1>9. pc["rx"] \in Looping => pc["rx"] # "none" /\ socket # NoSocket /\ ~ stop
                              /\ (pc["rx"] = "ready" => seen = socket)
  BY DEF AInv, HasSocket, Looping
<1>10. CASE RxDispatch
  <2>1. /\ pc["rx"] \in Looping /\ UNCHANGED <<socket, sessions, notified, notes, stop, duration>>
    BY <1>10 DEF RxDispatch, Looping
  <2>2. CASE Goto("rx", "check") /\ closing' = closing BY <1>0, <1>8, <1>9, <2>1, <2>2
  <2>3. CASE BeginClose("rx", "close")
    <3>1. "close" \notin Looping BY DEF Looping
    <3>. QED BY <1>0, <1>8, <1>9, <2>1, <2>3, <3>1 DEF BeginClose
  <2>. QED BY <1>10, <2>2, <2>3 DEF RxDispatch, Alone
<1>11. CASE RxBegin
  <2>1. pc["rx"] \in Looping BY <1>11 DEF RxBegin, Looping
  <2>2. Goto("rx", "select") /\ UNCHANGED <<socket, sessions, notified, notes, stop, duration, closing>>
    BY <1>9, <1>11, <2>1 DEF RxBegin
  <2>. QED BY <1>0, <1>8, <1>9, <2>1, <2>2
<1>12. CASE RxSelect
  <2>1. pc["rx"] \in Looping BY <1>12 DEF RxSelect, Looping
  <2>2. /\ Goto("rx", "ready") /\ seen' = socket
        /\ UNCHANGED <<socket, sessions, notified, notes, stop, duration, closing>>
    BY <1>9, <1>12, <2>1 DEF RxSelect
  <2>. QED BY <1>0, <1>8, <1>9, <2>1, <2>2
<1>13. CASE RxClosed BY <1>9, <1>13 DEF RxClosed, Looping
<1>14. CASE RxPolitelyStopped
  <2>1. /\ pc["rx"] \in Looping /\ UNCHANGED <<socket, sessions, notified, notes, stop, duration>>
        /\ BeginClose("rx", "close") /\ "close" \notin Looping
    BY <1>14 DEF RxPolitelyStopped, Looping
  <2>. QED BY <1>0, <1>8, <1>9, <2>1 DEF BeginClose
<1>141. CASE RxRest
  <2>1. /\ pc["rx"] = "rest" /\ UNCHANGED <<socket, sessions, notified, notes, stop, duration>>
    BY <1>141 DEF RxRest
  <2>2. CASE Goto("rx", "end") /\ closing' = closing
    <3>1. notified BY <2>1 DEF AInv, Told
    <3>. QED BY <1>0, <2>1, <2>2, <3>1, RxGoes DEF Looping, OwnSteps
  <2>3. CASE BeginClose("rx", "close")
    BY <1>0, <1>8, <2>1, <2>3 DEF BeginClose, Looping
  <2>. QED BY <1>141, <2>2, <2>3 DEF RxRest
<1>15. CASE RxEof
  <2>1. pc["rx"] \in Looping /\ Goto("rx", "check")
        /\ UNCHANGED <<socket, sessions, notified, notes, stop, duration, closing>>
    BY <1>15 DEF RxEof, Looping
  <2>. QED BY <1>0, <1>8, <1>9, <2>1
<1>16. CASE RxCheck
  <2>1. /\ pc["rx"] \in Looping
        /\ UNCHANGED <<socket, sessions, notified, notes, stop, duration, closing>>
    BY <1>16 DEF RxCheck, Looping
  <2>2. CASE Goto("rx", "lost") BY <1>0, <1>8, <1>9, <2>1, <2>2 DEF Looping
  <2>3. CASE Goto("rx", "select") BY <1>0, <1>8, <1>9, <2>1, <2>3
  <2>. QED BY <1>9, <1>16, <2>1, <2>2, <2>3 DEF RxCheck
<1>17. CASE OnLostConnection
  <2>1. /\ pc["rx"] # "none" /\ ~ duration'
        /\ UNCHANGED <<socket, sessions, notified, notes, stop>>
    BY <1>17 DEF OnLostConnection
  <2>2. PICK step \in {"close", "drop"} : BeginClose("rx", step) BY <1>17 DEF OnLostConnection
  <2>3. step \notin Looping BY DEF Looping
  <2>. QED BY <1>8, <2>1, <2>2, <2>3 DEF BeginClose
<1>18. ASSUME NEW p \in {"app", "rx"}, pc[p] \in {"retrying", "trying", "delay", "dropped"},
              p = "app" => pc[p] # "dropped",
              NEW step \in {"notify", "trying", "retrying", "delay"}, Goto(p, step),
              UNCHANGED <<socket, seen, stop, sessions, notified, notes, duration, closing>>
       PROVE  Lone'
  <2>1. CASE p = "app"
    <3>1. pc["rx"] = "none" /\ pc["app"] # "start" BY <1>18, <2>1, Rests
    <3>. QED BY <1>18, <2>1, <3>1, AppGoes DEF OwnSteps
  <2>2. CASE p = "rx"
    <3>1. pc["rx"] # "none" /\ step \notin Looping \cup OwnSteps
      BY <1>18, <2>2 DEF Looping, OwnSteps
    <3>. QED BY <1>0, <1>18, <2>2, <3>1, RxGoes DEF Looping
  <2>. QED BY <2>1, <2>2
<1>19. CASE RxDropped
  <2>1. /\ pc["rx"] = "dropped"
        /\ UNCHANGED <<socket, seen, stop, sessions, notified, notes, duration, closing>>
    BY <1>19 DEF RxDropped
  <2>2. PICK step \in {"retrying", "notify"} : Goto("rx", step) BY <1>19 DEF RxDropped
  <2>. QED BY <1>18, <2>1, <2>2
<1>20. CASE RxRecovered
  <2>1. /\ pc["rx"] = "recovered" /\ Goto("rx", "select") /\ ~ stop'
        /\ UNCHANGED <<socket, sessions, notified, notes, duration, closing>>
    BY <1>20 DEF RxRecovered
  <2>. QED BY <1>0, <1>8, <2>1
<1>21. CASE RxEnds
  <2>1. /\ pc["rx"] = "end" /\ Goto("rx", "none")
        /\ UNCHANGED <<socket, seen, stop, sessions, notified, notes, duration, closing>>
    BY <1>21 DEF RxEnds
  <2>2. /\ pc'["rx"] = "none" /\ pc'["app"] = pc["app"]
        /\ pc'["timeout"] = "idle" /\ pc'["duration"] = "idle"
    BY <2>1, Goes, Rests
  <2>3. TwoThreads' BY <2>1, <2>2 DEF AInv, TwoThreads
  <2>4. HasSocket' BY <2>1, <2>2 DEF AInv, HasSocket, Looping
  <2>5. ClosesCurrent' BY <2>1, <2>2 DEF AInv, ClosesCurrent, OwnSteps
  <2>6. Told' BY <2>1, <2>2 DEF AInv, Told
  <2>. QED BY <2>3, <2>4, <2>5, <2>6 DEF Lone
<1>22. ASSUME NEW p \in {"app", "rx"}, RetrySteps(p) PROVE Lone'
  <2>1. CASE RetryLoop(p)
    <3>1. PICK step \in {"notify", "trying"} : Goto(p, step) BY <2>1 DEF RetryLoop
    <3>. QED BY <1>18, <2>1, <3>1 DEF RetryLoop
  <2>2. CASE RetryAttempt(p)
    <3>1. pc[p] = "trying" /\ UNCHANGED <<seen, stop, notes, duration, closing>>
      BY <2>2 DEF RetryAttempt
    <3>2. CASE OpenFails /\ Goto(p, IF Counted(p) = 0 THEN "notify" ELSE "delay")
      <4>1. PICK step \in {"notify", "delay"} : Goto(p, step) BY <3>2
      <4>2. UNCHANGED <<socket, sessions, notified>> BY <3>2 DEF OpenFails
      <4>. QED BY <1>18, <3>1, <4>1, <4>2
    <3>3. CASE OpenSocket /\ Goto(p, IF p = "app" THEN "start" ELSE "recovered")
      BY <3>1, <3>3, Opens DEF Opening
    <3>. QED BY <2>2, <3>2, <3>3 DEF RetryAttempt
  <2>3. CASE RetryDelay(p)
    <3>1. PICK step \in {"notify", "retrying"} : Goto(p, step) BY <2>3 DEF RetryDelay
    <3>. QED BY <1>18, <2>3, <3>1 DEF RetryDelay
  <2>. QED BY <1>22, <2>1, <2>2, <2>3 DEF RetrySteps
<1>23. ASSUME NEW p \in Procs, ClosingSteps(p) PROVE Lone'
  <2>1. p \in {"app", "rx"}
    BY <1>0, <1>23 DEF Procs, ClosingSteps, Close, Forget, Reset, Notify, Notifying
  <2>. QED BY <1>23, <2>1, ClosingLone
<1>. QED BY <1>1, <1>2, <1>3, <1>4, <1>5, <1>6, <1>7, <1>10, <1>11, <1>12, <1>13, <1>14, <1>141,
            <1>15, <1>16, <1>17, <1>19, <1>20, <1>21, <1>22, <1>23
         DEF Next, Receiving

LEMMA InitAInv == Init => AInv
<1> SUFFICES ASSUME Init PROVE AInv OBVIOUS
<1>1. {"rx", "app", "timeout", "duration"} \subseteq Procs BY Members
<1>2. /\ pc["rx"] = "none" /\ pc["app"] = "idle"
      /\ pc["timeout"] = "idle" /\ pc["duration"] = "idle"
  BY <1>1 DEF Init
<1>3. OInv BY InitOInv
<1>4. TwoThreads BY <1>2 DEF TwoThreads
<1>5. HasSocket BY <1>2 DEF HasSocket, Looping
<1>6. ClosesCurrent BY <1>2 DEF ClosesCurrent, OwnSteps
<1>7. Told BY <1>2 DEF Init, Told
<1>. QED BY <1>3, <1>4, <1>5, <1>6, <1>7 DEF AInv

(***************************************************************************)
(* NotifiesAtAll: when nobody calls hard_disconnect() either, they have    *)
(* run once a session is over: main_loop is left only after                *)
(* _on_disconnected.                                                       *)
(***************************************************************************)
THEOREM NotifiesAtAll == ASSUME Alone PROVE Spec => []NotifiedAtAll
<1>1. Spec => []AInv BY InitAInv, AInvStep, PTL DEF Spec
<1>2. AInv => NotifiedAtAll
  <2> SUFFICES ASSUME AInv, Over PROVE notes[sessions] >= 1 BY DEF NotifiedAtAll
  <2>1. pc["app"] \in {"none", "idle"} /\ ~ worker /\ sessions > 0 BY DEF Over, Procs
  <2>2. pc["rx"] = "none" BY <2>1 DEF AInv, OInv, IInv, Owned
  <2>3. sessions # 0
    <3>1. sessions \in Nat BY TransportAssumption DEF AInv, OInv, IInv, TypeOK
    <3>. QED BY <2>1, <3>1
  <2>4. notified BY <2>1, <2>2, <2>3 DEF AInv, Told
  <2>5. notes[sessions] = 1 BY <2>4 DEF AInv, OInv, Reported
  <2>. QED BY <2>5
<1>. QED BY <1>1, <1>2, PTL

(***************************************************************************)
(* ClosesOwn: under the same conditions a thread that sets out to close a  *)
(* session closes and resets that one, never its successor.                *)
(***************************************************************************)
THEOREM ClosesOwn == ASSUME Alone PROVE Spec => ClosesItsOwn
<1>1. Spec => []AInv BY InitAInv, AInvStep, PTL DEF Spec
<1>2. AInv => HitsOnlyItsOwn
  <2> SUFFICES ASSUME AInv, NEW p \in Procs, pc[p] \in ClosesNow
               PROVE  closing[p] = sessions
    BY DEF HitsOnlyItsOwn
  <2>1. p \in {"app", "rx"} BY Rests DEF Procs, ClosesNow
  <2>2. pc[p] \notin {"only_close", "only_forget", "only_reset"} BY <2>1 DEF AInv, TwoThreads
  <2>. QED BY <2>1, <2>2 DEF AInv, ClosesCurrent, ClosesNow, OwnSteps
<1>. QED BY <1>1, <1>2, PTL DEF ClosesItsOwn
=============================================================================
