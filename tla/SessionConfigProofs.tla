------------------------- MODULE SessionConfigProofs -------------------------
(***************************************************************************)
(* What get_config_state() and apply_config promise, for any               *)
(* configurations and any number of calls and sessions: the applied        *)
(* snapshot is real, success means applied and failure means rolled back.  *)
(*                                                                         *)
(* The invariant follows the chain of callbacks.  Between two handlers the *)
(* client is gone (not connected), at rest with nothing in flight, waiting *)
(* for one response that a known callback will take, or doomed: a second   *)
(* request was written while it waited, and the response that comes first  *)
(* is not the one its state expects, which ends the session.               *)
(***************************************************************************)
EXTENDS SessionProofs

(***************************************************************************)
(* The application is disciplined (see Opportune) and the reader answers   *)
(* every request in time, if only to reject it.  Each condition is needed: *)
(* see the README for what happens without it.                             *)
(***************************************************************************)
Disciplined ==
    ~ AnyTime /\ ~ Timeouts /\ "silent" \notin Outcomes /\ "txpower_any" \notin Ops

-----------------------------------------------------------------------------
(* The relation between a client s and the reader r.                        *)

Pending(s)  == s.transition.status = "pending"
SameSettings(c, d) == c.rospec = d.rospec /\ c.reader = d.reader
Old(s)      == SameSettings(s.config, s.transition.old)
New(s)      == SameSettings(s.config, s.transition.new)
Set(s, r)   == r.config = s.config.reader
Cached(s)   == s.rospec \in {NoROSpec, s.config.rospec}
Holds(s, r) == r.rospec \in {NoROSpec, s.config.rospec}
Runs(s, r)  == r.enabled /\ r.rospec = s.config.rospec

(* What a callback may rely on, whichever response it waits for. *)
Purpose(s, l) ==
    /\ s.disconnecting <=> l = "disconnect"
    /\ \/ /\ ~ Pending(s)
          /\ l \in {"setup", "connect", "txpower", "disconnect", "resume", "user",
                    "pause", "timed", "timed_regen"}
       \/ l = "apply" /\ Pending(s) /\ Old(s) /\ ~ s.transition.written
       \/ l = "applied" /\ Pending(s) /\ New(s) /\ ~ s.transition.written
       \/ /\ l = "restarted" /\ Pending(s) /\ New(s)
          /\ s.transition.original = "INVENTORYING"
          /\ s.transition.written \/ s.transition.old.reader = s.config.reader
       \/ /\ l \in {"undo", "cleanup", "restored"} /\ Pending(s) /\ Old(s)
          /\ s.transition.original = "INVENTORYING"

(* The inventory that a transition interrupts is still there. *)
InForce(s, r) ==
    \/ s.transition.original = "INVENTORYING" /\ Runs(s, r)
    \/ s.transition.original = "PAUSED" /\ Holds(s, r)

(* Request n is outstanding for callback l, before or after its answer. *)
Outstands(s, r, n, l) ==
    \/ /\ n \in {"IMPINJ_ENABLE_EXTENSIONS", "GET_READER_CAPABILITIES", "GET_READER_CONFIG",
                 "SET_READER_CONFIG"}
       /\ l = "setup" /\ s.rospec = NoROSpec /\ ~ s.suppress
    \/ /\ n = "SET_READER_CONFIG" /\ s.suppress /\ s.rospec = NoROSpec
       /\ l = "undo" \/ (l = "applied" /\ r.rospec = NoROSpec)
    \/ n \in {"DELETE_ACCESSSPEC", "DELETE_ROSPEC"} /\ l = "disconnect"
    \/ /\ n = "DELETE_ACCESSSPEC" /\ Set(s, r)
       /\ \/ l = "connect" /\ Cached(s)
          \/ l = "txpower" /\ r.rospec # NoROSpec
          \/ l = "apply" /\ Cached(s) /\ s.transition.original = "INVENTORYING"
    \/ /\ n = "DELETE_ROSPEC" /\ Set(s, r)
       /\ l \in {"connect", "txpower", "resume", "apply", "cleanup"}
    \/ n = "ADD_ROSPEC" /\ Set(s, r) /\ l \in {"user", "restarted", "restored"}
    \/ /\ n = "ENABLE_ROSPEC" /\ Set(s, r) /\ Cached(s) /\ Holds(s, r)
       /\ l \in {"user", "resume", "restarted", "restored"}
    \/ /\ n = "DISABLE_ROSPEC" /\ Set(s, r) /\ Cached(s) /\ Holds(s, r)
       /\ l \in {"pause", "timed", "timed_regen"}

(* It waits at the reader, with the data d. *)
Asking(s, r, n, l, d) ==
    /\ Purpose(s, l) /\ Outstands(s, r, n, l)
    /\ n = "SET_READER_CONFIG" => d = s.config.reader
    /\ l = "applied" => r.config = s.transition.old.reader
    /\ l = "apply" => InForce(s, r)
    /\ n = "ADD_ROSPEC" => r.rospec # NoROSpec \/ (d = s.config.rospec /\ Cached(s))

(* The reader has accepted or rejected it. *)
Answered(s, r, n, l, ok) ==
    /\ Purpose(s, l) /\ Outstands(s, r, n, l)
    /\ n = "SET_READER_CONFIG" /\ ok => Set(s, r)
    /\ l = "applied" /\ ~ ok => r.config = s.transition.old.reader
    /\ n = "DELETE_ROSPEC" /\ ok => r.rospec = NoROSpec
    /\ l = "apply" /\ ~ (n = "DELETE_ROSPEC" /\ ok) => InForce(s, r)
    /\ n = "ADD_ROSPEC" /\ ok => r.rospec = s.config.rospec /\ Cached(s)
    /\ n = "ENABLE_ROSPEC" /\ ok => Runs(s, r)
    /\ n \in {"DELETE_ACCESSSPEC", "DELETE_ROSPEC"} /\ "fail" \notin Outcomes => ok

(* Nothing is outstanding: a settled state, one that a rejected request has *)
(* left behind, or the end of a handshake that starts nothing.              *)
AtRest(s, r) ==
    /\ ~ Pending(s) /\ ~ s.disconnecting
    /\ \/ s.state = "CONNECTED" /\ Set(s, r) /\ Cached(s) /\ r.rospec = NoROSpec
       \/ /\ s.state = "INVENTORYING" /\ Set(s, r) /\ Cached(s) /\ Runs(s, r)
          /\ s.applied.rospec = s.config.rospec
       \/ s.state = "PAUSED" /\ Set(s, r) /\ Cached(s) /\ Holds(s, r)
       \/ /\ s.state \in {"PAUSING", "SENT_DELETE_ACCESSSPEC", "SENT_DELETE_ROSPEC",
                          "SENT_ENABLE_ROSPEC"}
          /\ Set(s, r) /\ (r.rospec = NoROSpec => Cached(s))
       \/ s.state = "SENT_SET_CONFIG"

-----------------------------------------------------------------------------
(* The invariant.                                                           *)

Free       == [k \in Requests |-> Nobody]
Only(n, l) == [k \in Requests |-> IF k = n THEN l ELSE Nobody]
Request(n, d) == [name |-> n, data |-> d, late |-> FALSE]
Answer(n, ok) == [name |-> n, ok |-> ok]

Gone ==
    /\ client.state = "DISCONNECTED" /\ client.outstanding = Free
    /\ client.rospec = NoROSpec /\ ~ client.suppress /\ ~ client.disconnecting
    /\ ~ Pending(client)
    /\ toReader = << >>
    /\ toClient # << >> => Head(toClient).name = "READER_EVENT_NOTIFICATION"
                           /\ Tail(toClient) = << >>

Resting ==
    /\ client.outstanding = Free /\ AtRest(client, reader)
    /\ toReader = << >> /\ toClient = << >>

WaitsFor(n, l) ==
    /\ client.outstanding = Only(n, l) /\ client.state = SentState[n]
    /\ \/ /\ toClient = << >>
          /\ \E d \in Nat : toReader = << Request(n, d) >> /\ Asking(client, reader, n, l, d)
       \/ /\ toReader = << >>
          /\ \E ok \in BOOLEAN : toClient = << Answer(n, ok) >> /\ Answered(client, reader, n, l, ok)

Waits == \E n \in Requests, l \in Labels : WaitsFor(n, l)

(* The next response is for another request than the state expects. *)
Doomed ==
    /\ client.state = "SENT_ADD_ROSPEC" /\ client.outstanding["ADD_ROSPEC"] # Nobody
    /\ ~ client.disconnecting
    /\ \/ toClient # << >> /\ Head(toClient).name \in Requests \ {"ADD_ROSPEC"}
       \/ /\ toClient = << >> /\ toReader # << >> /\ ~ Head(toReader).late
          /\ Head(toReader).name \in Requests \ {"ADD_ROSPEC"}

Conversation == Gone \/ (link /\ (Resting \/ Waits \/ Doomed))

CInv == TInv /\ Conversation

-----------------------------------------------------------------------------
(* Handlers.  Ready: nothing is outstanding and nothing has been written.   *)

Ready(s) ==
    /\ s \in ClientT
    /\ s.outstanding = Free /\ s.sent = << >> /\ ~ s.raised /\ ~ s.closed
Kept(s, t) ==
    /\ t.config = s.config /\ t.transition = s.transition
    /\ t.suppress = s.suppress /\ t.disconnecting = s.disconnecting
Moved(s, t, x) ==
    /\ Ready(t) /\ Kept(s, t) /\ t.state = x /\ t.rospec = s.rospec
    /\ x = "INVENTORYING" => t.applied = s.config
Requested(t, n, l, d) ==
    /\ t \in ClientT /\ t.state = SentState[n] /\ t.outstanding = Only(n, l)
    /\ t.sent = << Request(n, d) >> /\ ~ t.raised /\ ~ t.closed

(* What a handler may leave behind: the end of the session, rest, or one   *)
(* request written.  Ends: a transition ends only as promised.             *)
AsksFor(t, r) ==
    \E n \in Requests, l \in Labels, d \in Nat : Requested(t, n, l, d) /\ Asking(t, r, n, l, d)
Outcome(t, r) ==
    /\ t \in ClientT
    /\ t.raised \/ t.closed \/ (Ready(t) /\ AtRest(t, r)) \/ AsksFor(t, r)
Ends(s, t) ==
    Pending(s) =>
        /\ t.transition.status = "success" =>
             /\ ~ t.raised /\ ~ t.closed
             /\ t.state = s.transition.original /\ New(t)
        /\ t.transition.status = "failed" =>
             \/ t.raised \/ t.closed
             \/ t.state = s.transition.original /\ Old(t)
Result(s, t, r) == Outcome(t, r) /\ Ends(s, t)

LEMMA SetStateDoes ==
    ASSUME NEW s, Ready(s), NEW x \in States
    PROVE  Moved(s, SetState(s, x), x)
<1>0. s \in ClientT BY DEF Ready
<1>1. SetState(s, x) \in ClientT BY <1>0, SetStateTyped DEF Keeps
<1>2. CASE x = "DISCONNECTED"
  <2>1. SetState(s, x) =
          [s EXCEPT !.state = x, !.timer = "off", !.generation = s.generation + 1, !.applied = NoConfig]
    BY <1>0, <1>2 DEF SetState, CancelTimer, ClientT
  <2>. QED BY <1>0, <1>1, <1>2, <2>1 DEF Moved, Kept, Ready, ClientT
<1>3. CASE x = "INVENTORYING"
  <2>1. SetState(s, x) = [s EXCEPT !.state = x, !.applied = s.config]
    BY <1>0, <1>3 DEF SetState, ClientT
  <2>. QED BY <1>0, <1>1, <2>1 DEF Moved, Kept, Ready, ClientT
<1>4. CASE x \notin {"DISCONNECTED", "INVENTORYING"}
  <2>1. SetState(s, x) = [s EXCEPT !.state = x] BY <1>4 DEF SetState
  <2>. QED BY <1>0, <1>1, <1>4, <2>1 DEF Moved, Kept, Ready, ClientT
<1>. QED BY <1>2, <1>3, <1>4

LEMMA CancelTimerDoes ==
    ASSUME NEW s, Ready(s)
    PROVE  /\ Ready(CancelTimer(s)) /\ Kept(s, CancelTimer(s)) /\ CancelTimer(s).state = s.state
           /\ CancelTimer(s).rospec = s.rospec /\ CancelTimer(s).applied = s.applied
<1>0. s \in ClientT BY DEF Ready
<1>1. CancelTimer(s) \in ClientT BY <1>0, CancelTimerTyped DEF Keeps
<1>2. CancelTimer(s) = [s EXCEPT !.timer = "off", !.generation = s.generation + 1]
  BY <1>0 DEF CancelTimer, ClientT
<1>. QED BY <1>0, <1>1, <1>2 DEF Kept, Ready, ClientT

LEMMA SendDoes ==
    ASSUME NEW s, Ready(s), NEW n \in Requests, NEW l \in Waiting(n) \cap Labels, NEW d \in Nat
    PROVE  /\ Requested(Send(s, n, l, d), n, l, d) /\ Kept(s, Send(s, n, l, d))
           /\ Send(s, n, l, d).rospec = s.rospec
<1> DEFINE t == SetState(s, SentState[n])
           o == [t.outstanding EXCEPT ![n] = l]
           q == Append(t.sent, Request(n, d))
           u == Send(s, n, l, d)
<1>0. s \in ClientT /\ s.outstanding = Free BY DEF Ready
<1>1. Moved(s, t, SentState[n]) BY SetStateDoes, StateNames
<1>2. u \in ClientT BY <1>0, SendTyped DEF Keeps
<1>3. s.outstanding[n] = Nobody BY <1>0 DEF Free
<1>4. t \in ClientT BY <1>1 DEF Moved, Ready
<1>5. u = [t EXCEPT !.outstanding = o, !.sent = q] BY <1>3, <1>4 DEF Send, ClientT, Request
<1> HIDE DEF t, u
<1>6. o = Only(n, l)
  <2>1. t.outstanding = [k \in Requests |-> Nobody] BY <1>1 DEF Moved, Ready, Free
  <2>. QED BY <2>1 DEF Only
<1>7. q = << Request(n, d) >>
  <2>1. t.sent = << >> BY <1>1 DEF Moved, Ready
  <2>. QED BY <2>1
<1> HIDE DEF o, q
<1>8. /\ u.outstanding = o /\ u.sent = q /\ u.state = t.state /\ u.raised = t.raised
      /\ u.closed = t.closed /\ u.rospec = t.rospec /\ Kept(t, u)
  BY <1>4, <1>5 DEF ClientT, Kept
<1>. QED BY <1>1, <1>2, <1>6, <1>7, <1>8 DEF Moved, Kept, Requested, Ready, u

(* The ROSpec that getROSpec returns. *)
ROSpecFor(s, forceNew) == IF s.rospec # NoROSpec /\ ~ forceNew THEN s.rospec ELSE s.config.rospec

LEMMA StartDoes ==
    ASSUME NEW s, Ready(s), s.state # "INVENTORYING", NEW force \in BOOLEAN, NEW l \in Labels
    PROVE  /\ Requested(StartInventory(s, force, l), "ADD_ROSPEC", l, ROSpecFor(s, force))
           /\ Kept(s, StartInventory(s, force, l))
           /\ StartInventory(s, force, l).rospec = ROSpecFor(s, force)
           /\ ROSpecFor(s, force) \in Nat
<1> DEFINE g == GetROSpec(s, force)
           t == [g EXCEPT !.added = FALSE]
           d == ROSpecFor(s, force)
<1>0. s \in ClientT BY DEF Ready
<1>1. d \in Nat BY <1>0 DEF ROSpecFor, ClientT, ConfigType
<1>2. g = [s EXCEPT !.rospec = d]
  <2>1. CASE s.rospec # NoROSpec /\ ~ force
    <3>1. g = s /\ d = s.rospec BY <2>1 DEF GetROSpec, ROSpecFor
    <3>. QED BY <1>0, <3>1 DEF ClientT
  <2>2. CASE ~ (s.rospec # NoROSpec /\ ~ force) BY <2>2 DEF GetROSpec, ROSpecFor
  <2>. QED BY <2>1, <2>2
<1> HIDE DEF d
<1>3. t \in ClientT /\ t.rospec = d /\ Kept(s, t) /\ t.outstanding = s.outstanding /\ t.sent = s.sent
      /\ t.raised = s.raised /\ t.closed = s.closed
  BY <1>0, <1>1, <1>2 DEF ClientT, Kept
<1>4. StartInventory(s, force, l) = Send(t, "ADD_ROSPEC", l, t.rospec) BY DEF StartInventory
<1> HIDE DEF t
<1>5. Ready(t) BY <1>3 DEF Ready
<1>6. l \in Waiting("ADD_ROSPEC") \cap Labels /\ "ADD_ROSPEC" \in Requests BY Names
<1> DEFINE u == Send(t, "ADD_ROSPEC", l, d)
<1>7. Requested(u, "ADD_ROSPEC", l, d) /\ Kept(t, u) /\ u.rospec = t.rospec
  BY <1>1, <1>5, <1>6, SendDoes
<1> HIDE DEF u
<1>8. StartInventory(s, force, l) = u BY <1>3, <1>4 DEF u
<1>. QED BY <1>1, <1>3, <1>7, <1>8 DEF Kept, d

-----------------------------------------------------------------------------
(* The parts of the transaction.                                            *)

LEMMA AskingResults ==
    ASSUME NEW s, NEW t, NEW r, NEW n \in Requests, NEW l \in Labels, NEW d \in Nat,
           Requested(t, n, l, d), Asking(t, r, n, l, d), t.transition = s.transition
    PROVE  Result(s, t, r) /\ ~ t.raised
<1>1. AsksFor(t, r) BY DEF AsksFor
<1>2. t \in ClientT /\ ~ t.raised BY DEF Requested
<1>3. Ends(s, t) BY DEF Ends, Pending
<1>. QED BY <1>1, <1>2, <1>3 DEF Result, Outcome

(* Only the status of the transition changes. *)
Finished(s, t, status) ==
    /\ Ready(t) /\ t.state = s.state /\ t.config = s.config /\ t.rospec = s.rospec
    /\ t.applied = s.applied /\ t.disconnecting = s.disconnecting
    /\ t.transition.status = status
    /\ t.transition.old = s.transition.old /\ t.transition.new = s.transition.new

LEMMA EndsDo ==
    ASSUME NEW s, Ready(s), s.state # "DISCONNECTED"
    PROVE  Finished(s, Fail(s), "failed") /\ Finished(s, Succeed(s), "success")
<1> DEFINE t1 == [s.transition EXCEPT !.status = "success"]
           t2 == [s.transition EXCEPT !.status = "failed"]
<1>0. s \in ClientT BY DEF Ready
<1>1. s.transition \in TransitionT BY <1>0 DEF ClientT
<1>2. /\ t1.status = "success" /\ t1.old = s.transition.old /\ t1.new = s.transition.new
      /\ t2.status = "failed" /\ t2.old = s.transition.old /\ t2.new = s.transition.new
  BY <1>1 DEF TransitionT
<1>3. Succeed(s) = [s EXCEPT !.transition = t1] BY <1>0 DEF Succeed, ClientT
<1>4. Fail(s) = [s EXCEPT !.transition = t2, !.closed = s.closed \/ s.state = "DISCONNECTED"]
  BY <1>0 DEF Fail, ClientT
<1> HIDE DEF t1, t2
<1>5. Succeed(s) \in ClientT /\ Fail(s) \in ClientT /\ Fail(s).closed = s.closed
  BY <1>0, EndsTyped DEF Keeps
<1>6. Finished(s, Succeed(s), "success") BY <1>0, <1>2, <1>3, <1>5 DEF Finished, Ready, ClientT
<1>7. Finished(s, Fail(s), "failed")
  <2>1. /\ Fail(s).transition = t2 /\ Fail(s).state = s.state /\ Fail(s).config = s.config
        /\ Fail(s).rospec = s.rospec /\ Fail(s).applied = s.applied
        /\ Fail(s).disconnecting = s.disconnecting /\ Fail(s).outstanding = s.outstanding
        /\ Fail(s).sent = s.sent /\ Fail(s).raised = s.raised
    BY <1>0, <1>4 DEF ClientT
  <2>. QED BY <1>2, <1>5, <2>1 DEF Finished, Ready
<1>. QED BY <1>6, <1>7

(* Giving up ends the session. *)
LEMMA GiveUpResults ==
    ASSUME NEW s \in ClientT, NEW r
    PROVE  Result(s, GiveUp(s), r)
<1> DEFINE t == SetState(s, "DISCONNECTED")
           u == GiveUp(s)
           n == [t.transition EXCEPT !.status = "failed"]
<1>1. u \in ClientT BY ClosesTyped
<1>2. t \in ClientT /\ t.state = "DISCONNECTED" BY SetStateTyped, StateNames DEF Keeps
<1>3. u = Fail(t) BY DEF GiveUp
<1> HIDE DEF t, u
<1>4. u = [t EXCEPT !.transition = n, !.closed = t.closed \/ t.state = "DISCONNECTED"]
  BY <1>2, <1>3 DEF Fail, ClientT
<1>5. t.transition \in TransitionT BY <1>2 DEF ClientT
<1>6. n.status = "failed" BY <1>5 DEF TransitionT
<1> HIDE DEF n
<1>7. u.transition = n BY <1>2, <1>4 DEF ClientT
<1>8. u.closed = (t.closed \/ t.state = "DISCONNECTED") BY <1>2, <1>4 DEF ClientT
<1>9. u.closed BY <1>2, <1>8
<1>. QED BY <1>1, <1>6, <1>7, <1>9 DEF Result, Outcome, Ends, u

(* What finish_restore may rely on. *)
Restoring(s, r) ==
    /\ Ready(s) /\ Pending(s) /\ Old(s) /\ Set(s, r) /\ s.rospec = NoROSpec /\ ~ s.disconnecting
    /\ s.transition.original # "INVENTORYING" => r.rospec = NoROSpec

LEMMA FinishRestoreResults ==
    ASSUME NEW s, NEW r, Restoring(s, r)
    PROVE  Result(s, FinishRestore(s), r) /\ ~ FinishRestore(s).raised
<1>0. Ready(s) /\ s \in ClientT BY DEF Restoring, Ready
<1>1. s.transition.original \in Settled BY <1>0 DEF ClientT, TransitionT
<1>2. CASE s.transition.original = "INVENTORYING"
  <2> DEFINE c == SetState(s, "CONNECTED")
             t == StartInventory(c, TRUE, "restored")
  <2>1. "CONNECTED" \in States /\ "restored" \in Labels /\ "ADD_ROSPEC" \in Requests
    BY StateNames, Names DEF Settled, Labels
  <2>2. Moved(s, c, "CONNECTED") BY <1>0, <2>1, SetStateDoes
  <2>3. FinishRestore(s) = t BY <1>2 DEF FinishRestore
  <2> HIDE DEF c
  <2>4. ROSpecFor(c, TRUE) = c.config.rospec BY DEF ROSpecFor
  <2>5. Ready(c) /\ c.state # "INVENTORYING" /\ Kept(s, c) BY <2>2 DEF Moved
  <2>6. /\ Requested(t, "ADD_ROSPEC", "restored", c.config.rospec) /\ Kept(c, t)
        /\ t.rospec = c.config.rospec /\ c.config.rospec \in Nat
    BY <2>1, <2>4, <2>5, StartDoes
  <2> HIDE DEF t
  <2>7. Asking(t, r, "ADD_ROSPEC", "restored", c.config.rospec)
    BY <1>2, <2>5, <2>6 DEF Restoring, Kept, Asking, Purpose, Outstands, Pending, Old, Set, Cached
  <2>8. t.transition = s.transition BY <2>5, <2>6 DEF Kept
  <2>. QED BY <2>1, <2>3, <2>6, <2>7, <2>8, AskingResults
<1>3. CASE s.transition.original # "INVENTORYING"
  <2> DEFINE x == s.transition.original
             c == SetState(s, x)
             t == Fail(c)
  <2>1. Moved(s, c, x) BY <1>0, <1>1, SetStateDoes, StateNames
  <2>2. FinishRestore(s) = t BY <1>3 DEF FinishRestore
  <2>3. x \in {"CONNECTED", "PAUSED"} BY <1>1, <1>3 DEF Settled
  <2> HIDE DEF c, x
  <2>4. Ready(c) /\ c.state # "DISCONNECTED" BY <2>1, <2>3 DEF Moved
  <2>5. Finished(c, t, "failed") BY <2>4, EndsDo
  <2> HIDE DEF t
  <2>6. r.rospec = NoROSpec /\ Set(s, r) /\ Old(s) BY <1>3 DEF Restoring
  <2>7. AtRest(t, r)
    BY <2>1, <2>3, <2>5, <2>6 DEF Restoring, Moved, Kept, Finished, AtRest, Pending, Set, Cached, Holds
  <2>8. Ends(s, t) BY <2>1, <2>5, <2>6 DEF Moved, Kept, Finished, Ends, Old, x
  <2>9. Ready(t) /\ t \in ClientT /\ ~ t.raised BY <2>5 DEF Finished, Ready
  <2>. QED BY <2>2, <2>7, <2>8, <2>9 DEF Result, Outcome
<1>. QED BY <1>2, <1>3

LEMMA CleanupResults ==
    ASSUME NEW s, NEW r, Restoring(s, r)
    PROVE  Result(s, CleanupReplacement(s), r) /\ ~ CleanupReplacement(s).raised
<1>0. Ready(s) BY DEF Restoring
<1>1. CASE s.transition.original = "INVENTORYING" /\ s.added
  <2> DEFINE c == SetState(s, "CONNECTED")
             t == Send(c, "DELETE_ROSPEC", "cleanup", 0)
  <2>1. /\ "CONNECTED" \in States /\ "DELETE_ROSPEC" \in Requests /\ 0 \in Nat
        /\ "cleanup" \in Waiting("DELETE_ROSPEC") \cap Labels
    BY StateNames, Names DEF Settled, Stops
  <2>2. Moved(s, c, "CONNECTED") BY <1>0, <2>1, SetStateDoes
  <2>3. CleanupReplacement(s) = t BY <1>1 DEF CleanupReplacement, StopAllROSpecs
  <2> HIDE DEF c
  <2>4. Ready(c) /\ Kept(s, c) BY <2>2 DEF Moved
  <2>5. Requested(t, "DELETE_ROSPEC", "cleanup", 0) /\ Kept(c, t) BY <2>1, <2>4, SendDoes
  <2> HIDE DEF t
  <2>6. Asking(t, r, "DELETE_ROSPEC", "cleanup", 0)
    BY <1>1, <2>4, <2>5 DEF Restoring, Kept, Asking, Purpose, Outstands, Pending, Old, Set
  <2>7. t.transition = s.transition BY <2>4, <2>5 DEF Kept
  <2>. QED BY <2>1, <2>3, <2>5, <2>6, <2>7, AskingResults
<1>2. CASE ~ (s.transition.original = "INVENTORYING" /\ s.added)
  BY <1>2, FinishRestoreResults DEF CleanupReplacement
<1>. QED BY <1>1, <1>2

LEMMA ResultFrom ==
    ASSUME NEW s, NEW t, NEW u, NEW r, Result(t, u, r), t.transition = s.transition
    PROVE  Result(s, u, r)
BY DEF Result, Ends, Pending

LEMMA InstallDoes ==
    ASSUME NEW s, Ready(s), NEW c \in ConfigType
    PROVE  LET t == InstallRuntimeConfig(s, c) IN
             /\ Ready(t) /\ t.config = c /\ t.rospec = NoROSpec /\ t.transition = s.transition
             /\ t.disconnecting = s.disconnecting
<1> DEFINE t == InstallRuntimeConfig(s, c)
<1>0. s \in ClientT BY DEF Ready
<1>1. t \in ClientT BY <1>0, InstallTyped DEF Keeps
<1>. QED BY <1>0, <1>1 DEF InstallRuntimeConfig, Ready, ClientT

(* send_SET_READER_CONFIG with the response kept from the handshake. *)
LEMMA WriteDoes ==
    ASSUME NEW s, Ready(s), NEW l \in {"applied", "undo"}
    PROVE  LET t == SendSetReaderConfig([s EXCEPT !.suppress = TRUE], l) IN
             /\ Requested(t, "SET_READER_CONFIG", l, s.config.reader) /\ s.config.reader \in Nat
             /\ t.config = s.config /\ t.transition = s.transition /\ t.rospec = s.rospec
             /\ t.disconnecting = s.disconnecting /\ t.suppress
<1> DEFINE u == [s EXCEPT !.suppress = TRUE]
           t == Send(u, "SET_READER_CONFIG", l, u.config.reader)
<1>0. s \in ClientT BY DEF Ready
<1>1. Ready(u) /\ u.suppress /\ u.config = s.config /\ u.transition = s.transition
      /\ u.rospec = s.rospec /\ u.disconnecting = s.disconnecting
  BY <1>0 DEF Ready, ClientT
<1>2. s.config.reader \in Nat BY <1>0 DEF ClientT, ConfigType
<1>3. "SET_READER_CONFIG" \in Requests /\ l \in Waiting("SET_READER_CONFIG") \cap Labels
  BY Names DEF Writes
<1>4. SendSetReaderConfig(u, l) = t BY DEF SendSetReaderConfig
<1> HIDE DEF u
<1>5. Requested(t, "SET_READER_CONFIG", l, u.config.reader) /\ Kept(u, t) /\ t.rospec = u.rospec
  BY <1>1, <1>2, <1>3, SendDoes
<1> HIDE DEF t
<1>6. Requested(t, "SET_READER_CONFIG", l, s.config.reader) BY <1>1, <1>5
<1>7. t.config = s.config /\ t.transition = s.transition /\ t.rospec = s.rospec
      /\ t.disconnecting = s.disconnecting /\ t.suppress
  BY <1>1, <1>5 DEF Kept
<1>. QED BY <1>2, <1>4, <1>6, <1>7 DEF u

LEMMA RestoreOldResults ==
    ASSUME NEW s, NEW r, Ready(s), Pending(s), ~ s.disconnecting,
           IF s.transition.written THEN s.transition.original = "INVENTORYING"
                                   ELSE r.config = s.transition.old.reader,
           s.transition.original # "INVENTORYING" => r.rospec = NoROSpec
    PROVE  Result(s, RestoreOld(s), r) /\ ~ RestoreOld(s).raised
<1> DEFINE t == InstallRuntimeConfig(s, s.transition.old)
           c == SetState(t, "CONNECTED")
           w == SendSetReaderConfig([c EXCEPT !.suppress = TRUE], "undo")
<1>0. s.transition.old \in ConfigType BY DEF Ready, ClientT, TransitionT
<1>1. Ready(t) /\ t.config = s.transition.old /\ t.rospec = NoROSpec /\ t.transition = s.transition
      /\ t.disconnecting = s.disconnecting
  BY <1>0, InstallDoes
<1>2. RestoreOld(s) = IF s.transition.written THEN w ELSE CleanupReplacement(t) BY DEF RestoreOld
<1> HIDE DEF t
<1>3. CASE ~ s.transition.written
  <2>1. Restoring(t, r) BY <1>1, <1>3 DEF Restoring, Pending, Old, SameSettings, Set
  <2>. QED BY <1>1, <1>2, <1>3, <2>1, CleanupResults, ResultFrom
<1>4. CASE s.transition.written
  <2>1. "CONNECTED" \in States /\ "SET_READER_CONFIG" \in Requests /\ "undo" \in Labels
    BY StateNames, Names DEF Settled, Labels
  <2>2. Moved(t, c, "CONNECTED") BY <1>1, <2>1, SetStateDoes
  <2> HIDE DEF c
  <2>3. Ready(c) BY <2>2 DEF Moved
  <2>4. /\ Requested(w, "SET_READER_CONFIG", "undo", c.config.reader) /\ c.config.reader \in Nat
        /\ w.config = c.config /\ w.transition = c.transition /\ w.rospec = c.rospec
        /\ w.disconnecting = c.disconnecting /\ w.suppress
    BY <2>3, WriteDoes
  <2> HIDE DEF w
  <2>5. /\ w.config = s.transition.old /\ w.transition = s.transition /\ w.rospec = NoROSpec
        /\ ~ w.disconnecting /\ w.suppress /\ c.config = w.config
    BY <1>1, <2>2, <2>4 DEF Moved, Kept
  <2>6. Asking(w, r, "SET_READER_CONFIG", "undo", c.config.reader)
    BY <1>4, <2>5 DEF Asking, Purpose, Outstands, Pending, Old, SameSettings
  <2>. QED BY <1>2, <1>4, <2>1, <2>4, <2>5, <2>6, AskingResults
<1>. QED BY <1>3, <1>4

LEMMA FinishNewStateResults ==
    ASSUME NEW s, NEW r, Ready(s), Pending(s), New(s), Set(s, r), s.rospec = NoROSpec,
           ~ s.disconnecting,
           s.transition.original # "INVENTORYING" => r.rospec = NoROSpec,
           s.transition.written \/ s.transition.old.reader = s.config.reader
    PROVE  Result(s, FinishNewState(s), r) /\ ~ FinishNewState(s).raised
<1>1. s.transition.original \in Settled BY DEF Ready, ClientT, TransitionT
<1>2. CASE s.transition.original = "INVENTORYING"
  <2> DEFINE c == SetState(s, "CONNECTED")
             t == StartInventory(c, TRUE, "restarted")
  <2>1. "CONNECTED" \in States /\ "restarted" \in Labels /\ "ADD_ROSPEC" \in Requests
    BY StateNames, Names DEF Settled, Labels
  <2>2. Moved(s, c, "CONNECTED") BY <2>1, SetStateDoes
  <2>3. FinishNewState(s) = t BY <1>2 DEF FinishNewState
  <2> HIDE DEF c
  <2>4. ROSpecFor(c, TRUE) = c.config.rospec BY DEF ROSpecFor
  <2>5. Ready(c) /\ c.state # "INVENTORYING" /\ Kept(s, c) BY <2>2 DEF Moved
  <2>6. /\ Requested(t, "ADD_ROSPEC", "restarted", c.config.rospec) /\ Kept(c, t)
        /\ t.rospec = c.config.rospec /\ c.config.rospec \in Nat
    BY <2>1, <2>4, <2>5, StartDoes
  <2> HIDE DEF t
  <2>7. Asking(t, r, "ADD_ROSPEC", "restarted", c.config.rospec)
    BY <1>2, <2>5, <2>6 DEF Kept, Asking, Purpose, Outstands, Pending, New, Set, Cached
  <2>8. t.transition = s.transition BY <2>5, <2>6 DEF Kept
  <2>. QED BY <2>1, <2>3, <2>6, <2>7, <2>8, AskingResults
<1>3. CASE s.transition.original # "INVENTORYING"
  <2> DEFINE x == s.transition.original
             c == SetState(s, x)
             t == Succeed(c)
  <2>1. Moved(s, c, x) BY <1>1, SetStateDoes, StateNames
  <2>2. FinishNewState(s) = t BY <1>3 DEF FinishNewState
  <2>3. x \in {"CONNECTED", "PAUSED"} BY <1>1, <1>3 DEF Settled
  <2> HIDE DEF c, x
  <2>4. Ready(c) /\ c.state # "DISCONNECTED" BY <2>1, <2>3 DEF Moved
  <2>5. Finished(c, t, "success") BY <2>4, EndsDo
  <2> HIDE DEF t
  <2>6. r.rospec = NoROSpec BY <1>3
  <2>7. AtRest(t, r)
    BY <2>1, <2>3, <2>5, <2>6 DEF Moved, Kept, Finished, AtRest, Pending, Set, Cached, Holds
  <2>8. Ready(t) /\ t \in ClientT /\ ~ t.raised BY <2>5 DEF Finished, Ready
  <2>9. Ends(s, t) BY <2>1, <2>5, <2>8 DEF Moved, Kept, Finished, Ends, Ready, New, x
  <2>. QED BY <2>2, <2>7, <2>8, <2>9 DEF Result, Outcome
<1>. QED BY <1>2, <1>3

LEMMA AfterStoppedResults ==
    ASSUME NEW s, NEW r, Ready(s), Pending(s), ~ s.disconnecting, ~ s.transition.written,
           r.config = s.transition.old.reader, r.rospec = NoROSpec
    PROVE  Result(s, AfterStopped(s, TRUE), r) /\ ~ AfterStopped(s, TRUE).raised
<1> DEFINE c == SetState(s, "CONNECTED")
           t == InstallRuntimeConfig(c, s.transition.new)
           w == SendSetReaderConfig([t EXCEPT !.suppress = TRUE], "applied")
<1>0. s.transition.new \in ConfigType BY DEF Ready, ClientT, TransitionT
<1>1. Moved(s, c, "CONNECTED") BY StateNames, SetStateDoes DEF Settled
<1>2. AfterStopped(s, TRUE) =
        CASE ~ CapabilitiesMatch(t.config) -> RestoreOld(t)
          [] CapabilitiesMatch(t.config) /\ NeedsReaderWrite(s) -> w
          [] OTHER -> FinishNewState(t)
  BY DEF AfterStopped
<1> HIDE DEF c
<1>3. Ready(c) /\ Kept(s, c) BY <1>1 DEF Moved
<1>4. Ready(t) /\ t.config = s.transition.new /\ t.rospec = NoROSpec /\ t.transition = c.transition
      /\ t.disconnecting = c.disconnecting
  BY <1>0, <1>3, InstallDoes
<1> HIDE DEF t
<1>5. t.transition = s.transition /\ ~ t.disconnecting /\ Pending(t) BY <1>3, <1>4 DEF Kept, Pending
<1>6. CASE ~ CapabilitiesMatch(t.config)
  <2>1. AfterStopped(s, TRUE) = RestoreOld(t) BY <1>2, <1>6
  <2>2. Result(t, RestoreOld(t), r) /\ ~ RestoreOld(t).raised BY <1>4, <1>5, RestoreOldResults
  <2>. QED BY <1>5, <2>1, <2>2, ResultFrom
<1>7. CASE CapabilitiesMatch(t.config) /\ NeedsReaderWrite(s)
  <2>1. AfterStopped(s, TRUE) = w BY <1>2, <1>7
  <2>2. /\ Requested(w, "SET_READER_CONFIG", "applied", t.config.reader) /\ t.config.reader \in Nat
        /\ w.config = t.config /\ w.transition = t.transition /\ w.rospec = t.rospec
        /\ w.disconnecting = t.disconnecting /\ w.suppress
    BY <1>4, WriteDoes
  <2> HIDE DEF w
  <2>3. /\ w.config = s.transition.new /\ w.transition = s.transition /\ w.rospec = NoROSpec
        /\ ~ w.disconnecting /\ t.config = w.config
    BY <1>4, <1>5, <2>2
  <2>4. Asking(w, r, "SET_READER_CONFIG", "applied", t.config.reader)
    BY <2>2, <2>3 DEF Asking, Purpose, Outstands, Pending, New, SameSettings
  <2>5. "SET_READER_CONFIG" \in Requests /\ "applied" \in Labels BY Names DEF Labels
  <2>. QED BY <2>1, <2>2, <2>3, <2>4, <2>5, AskingResults
<1>8. CASE CapabilitiesMatch(t.config) /\ ~ NeedsReaderWrite(s)
  <2>1. AfterStopped(s, TRUE) = FinishNewState(t) BY <1>2, <1>8
  <2>2. s.transition.old.reader = s.transition.new.reader BY <1>8 DEF NeedsReaderWrite
  <2>3. New(t) /\ Set(t, r) /\ t.transition.old.reader = t.config.reader
    BY <1>4, <1>5, <2>2 DEF New, SameSettings, Set
  <2>4. Result(t, FinishNewState(t), r) /\ ~ FinishNewState(t).raised
    BY <1>4, <1>5, <2>3, FinishNewStateResults
  <2>. QED BY <1>5, <2>1, <2>4, ResultFrom
<1>. QED BY <1>6, <1>7, <1>8

LEMMA NotStoppedResults ==
    ASSUME NEW s, NEW r, Ready(s), Pending(s), ~ s.disconnecting, Old(s), Set(s, r), Cached(s),
           InForce(s, r)
    PROVE  Result(s, AfterStopped(s, FALSE), r)
<1> DEFINE x == s.transition.original
           c == SetState(s, x)
           t == Fail(c)
<1>1. x \in {"INVENTORYING", "PAUSED"} BY DEF InForce
<1>2. x \in States BY <1>1, StateNames DEF Settled
<1>3. Moved(s, c, x) BY <1>2, SetStateDoes
<1>4. AfterStopped(s, FALSE) = t BY DEF AfterStopped
<1>5. (x = "INVENTORYING" /\ Runs(s, r)) \/ (x = "PAUSED" /\ Holds(s, r)) BY DEF InForce
<1> HIDE DEF c, x
<1>6. Ready(c) /\ c.state # "DISCONNECTED" BY <1>1, <1>3 DEF Moved
<1>7. Finished(c, t, "failed") BY <1>6, EndsDo
<1> HIDE DEF t
<1>8. AtRest(t, r)
  <2>1. /\ t.state = x /\ t.config = s.config /\ t.rospec = s.rospec /\ ~ t.disconnecting /\ ~ Pending(t)
        /\ x = "INVENTORYING" => t.applied = s.config
    BY <1>3, <1>7 DEF Moved, Kept, Finished, Pending
  <2>2. Set(t, r) /\ Cached(t) BY <2>1 DEF Set, Cached
  <2>3. CASE x = "INVENTORYING" /\ Runs(s, r) BY <2>1, <2>2, <2>3 DEF AtRest, Runs
  <2>4. CASE x = "PAUSED" /\ Holds(s, r) BY <2>1, <2>2, <2>4 DEF AtRest, Holds
  <2>. QED BY <1>5, <2>3, <2>4
<1>9. Ends(s, t) BY <1>3, <1>7 DEF Moved, Kept, Finished, Ends, Old, x
<1>10. Ready(t) /\ t \in ClientT BY <1>7 DEF Finished, Ready
<1>. QED BY <1>4, <1>8, <1>9, <1>10 DEF Result, Outcome

-----------------------------------------------------------------------------
(* Completion callbacks.                                                    *)

LEMMA StartResults ==
    ASSUME NEW s, NEW r, Ready(s), s.state # "INVENTORYING", NEW force \in BOOLEAN,
           Purpose(s, "user"), Set(s, r),
           \/ r.rospec # NoROSpec
           \/ force
           \/ Cached(s)
    PROVE  Result(s, StartInventory(s, force, "user"), r) /\ ~ StartInventory(s, force, "user").raised
<1> DEFINE t == StartInventory(s, force, "user")
           d == ROSpecFor(s, force)
<1>1. "ADD_ROSPEC" \in Requests /\ "user" \in Labels BY Names DEF Labels
<1>2. Requested(t, "ADD_ROSPEC", "user", d) /\ Kept(s, t) /\ t.rospec = d /\ d \in Nat
  BY <1>1, StartDoes
<1>3. r.rospec # NoROSpec \/ d = s.config.rospec BY DEF ROSpecFor, Cached
<1> HIDE DEF t, d
<1>4. Asking(t, r, "ADD_ROSPEC", "user", d)
  <2>1. Purpose(t, "user") BY <1>2 DEF Kept, Purpose, Pending
  <2>2. Outstands(t, r, "ADD_ROSPEC", "user") BY <1>2 DEF Kept, Outstands, Set
  <2>3. r.rospec # NoROSpec \/ (d = t.config.rospec /\ Cached(t)) BY <1>2, <1>3 DEF Kept, Cached
  <2>. QED BY <2>1, <2>2, <2>3 DEF Asking
<1>5. t.transition = s.transition BY <1>2 DEF Kept
<1>. QED BY <1>1, <1>2, <1>4, <1>5, AskingResults DEF t

LEMMA DisconnectStoppedResults ==
    ASSUME NEW s \in ClientT, NEW r, NEW ok \in BOOLEAN, ~ Pending(s)
    PROVE  Result(s, DisconnectStopped(s, ok), r)
<1> DEFINE t == IF ok THEN SetState(s, "DISCONNECTED") ELSE s
           u == DisconnectStopped(s, ok)
<1>1. u \in ClientT BY ClosesTyped
<1>2. t \in ClientT BY SetStateTyped, StateNames DEF Keeps
<1>3. u = [t EXCEPT !.closed = TRUE] BY DEF DisconnectStopped
<1> HIDE DEF t, u
<1>4. u.closed BY <1>2, <1>3 DEF ClientT
<1>. QED BY <1>1, <1>4 DEF Result, Outcome, Ends, u

LEMMA RestResults ==
    ASSUME NEW s, NEW r, Ready(s), AtRest(s, r)
    PROVE  Result(s, s, r)
BY DEF Ready, AtRest, Result, Outcome, Ends

LEMMA AccessSpecsResults ==
    ASSUME NEW s, NEW r, Ready(s), s.state = "SENT_DELETE_ACCESSSPEC", NEW l \in Labels,
           NEW ok \in BOOLEAN, Answered(s, r, "DELETE_ACCESSSPEC", l, ok)
    PROVE  Result(s, Completed(s, "DELETE_ACCESSSPEC", l, ok), r)
<1> DEFINE n == "DELETE_ACCESSSPEC"
<1>0. Purpose(s, l) /\ Outstands(s, r, n, l) /\ (l = "apply" => InForce(s, r))
  BY DEF Answered
<1>1. l \in {"connect", "txpower", "disconnect", "apply"} /\ (l # "disconnect" => Set(s, r))
  BY <1>0 DEF Outstands
<1>2. Completed(s, n, l, ok) = IF ok THEN Send(s, "DELETE_ROSPEC", l, 0) ELSE Stopped(s, l, FALSE)
  BY DEF Completed, AccessSpecsDeleted, StopAllROSpecs
<1>3. CASE ok
  <2> DEFINE t == Send(s, "DELETE_ROSPEC", l, 0)
  <2>1. "DELETE_ROSPEC" \in Requests /\ l \in Waiting("DELETE_ROSPEC") \cap Labels /\ 0 \in Nat
    BY <1>1, Names DEF Stops
  <2>2. Requested(t, "DELETE_ROSPEC", l, 0) /\ Kept(s, t) BY <2>1, SendDoes
  <2> HIDE DEF t
  <2>3. Purpose(t, l) BY <1>0, <2>2 DEF Kept, Purpose, Pending, Old, New
  <2>4. Outstands(t, r, "DELETE_ROSPEC", l) BY <1>1, <2>2 DEF Kept, Outstands, Set
  <2>5. l = "apply" => InForce(t, r) BY <1>0, <2>2 DEF Kept, InForce, Runs, Holds
  <2>6. Asking(t, r, "DELETE_ROSPEC", l, 0) BY <1>1, <2>3, <2>4, <2>5 DEF Asking
  <2>7. t.transition = s.transition BY <2>2 DEF Kept
  <2>. QED BY <1>2, <1>3, <2>1, <2>2, <2>6, <2>7, AskingResults DEF t
<1>4. CASE ~ ok
  <2>1. CASE l \in {"connect", "txpower"}
    <3>1. Stopped(s, l, FALSE) = s BY <2>1 DEF Stopped
    <3>2. AtRest(s, r) BY <1>0, <1>1, <2>1 DEF AtRest, Purpose, Pending, Outstands
    <3>. QED BY <1>2, <1>4, <3>1, <3>2, RestResults
  <2>2. CASE l = "disconnect"
    <3>1. Stopped(s, l, FALSE) = DisconnectStopped(s, FALSE) BY <2>2 DEF Stopped
    <3>2. ~ Pending(s) /\ s \in ClientT BY <1>0, <2>2 DEF Purpose, Ready
    <3>. QED BY <1>2, <1>4, <3>1, <3>2, DisconnectStoppedResults
  <2>3. CASE l = "apply"
    <3>1. Stopped(s, l, FALSE) = AfterStopped(s, FALSE) BY <2>3 DEF Stopped
    <3>2. Pending(s) /\ Old(s) /\ ~ s.disconnecting BY <1>0, <2>3 DEF Purpose
    <3>3. Set(s, r) /\ Cached(s) /\ InForce(s, r) BY <1>0, <2>3 DEF Outstands
    <3>. QED BY <1>2, <1>4, <3>1, <3>2, <3>3, NotStoppedResults
  <2>. QED BY <1>1, <2>1, <2>2, <2>3
<1>. QED BY <1>3, <1>4

LEMMA ROSpecsResults ==
    ASSUME NEW s, NEW r, Ready(s), s.state = "SENT_DELETE_ROSPEC", NEW l \in Labels,
           NEW ok \in BOOLEAN, Answered(s, r, "DELETE_ROSPEC", l, ok)
    PROVE  Result(s, Completed(s, "DELETE_ROSPEC", l, ok), r)
<1> DEFINE n == "DELETE_ROSPEC"
           t == [s EXCEPT !.rospec = NoROSpec, !.added = @ /\ ~ ok]
           c == SetState(t, "CONNECTED")
<1>0. Purpose(s, l) /\ Outstands(s, r, n, l) /\ (l = "apply" /\ ~ ok => InForce(s, r))
      /\ (ok => r.rospec = NoROSpec)
  BY DEF Answered
<1>1. l \in {"connect", "txpower", "resume", "disconnect", "apply", "cleanup"}
      /\ (l # "disconnect" => Set(s, r))
  BY <1>0 DEF Outstands
<1>2. Completed(s, n, l, ok) = Stopped(t, l, ok) BY DEF Completed
<1>3. Ready(t) /\ Kept(s, t) /\ t.state = "SENT_DELETE_ROSPEC" /\ t.rospec = NoROSpec
  <2>1. s \in ClientT BY DEF Ready
  <2>2. NoROSpec \in Nat /\ (s.added /\ ~ ok) \in BOOLEAN BY DEF NoROSpec
  <2>. QED BY <2>1, <2>2 DEF Ready, Kept, ClientT
<1> HIDE DEF t
<1>4. /\ Purpose(t, l) /\ (l # "disconnect" => Set(t, r)) /\ Cached(t)
      /\ (l = "apply" /\ ~ ok => InForce(t, r)) /\ t.transition = s.transition
  <2>1. Purpose(t, l) BY <1>0, <1>3 DEF Kept, Purpose, Pending, Old, New
  <2>2. l # "disconnect" => Set(t, r) BY <1>1, <1>3 DEF Kept, Set
  <2>3. l = "apply" /\ ~ ok => InForce(t, r) BY <1>0, <1>3 DEF Kept, InForce, Runs, Holds
  <2>. QED BY <1>3, <2>1, <2>2, <2>3 DEF Cached, Kept
<1>5. Moved(t, c, "CONNECTED") BY <1>3, SetStateDoes, StateNames DEF Settled
<1>6. Result(t, Stopped(t, l, ok), r)
  <2>1. CASE l \in {"connect", "txpower", "resume"} /\ ~ ok
    <3>1. Stopped(t, l, ok) = t BY <2>1 DEF Stopped
    <3>2. AtRest(t, r) BY <1>3, <1>4, <2>1 DEF AtRest, Purpose
    <3>. QED BY <1>3, <3>1, <3>2, RestResults
  <2>2. CASE l \in {"connect", "txpower", "resume"} /\ ok
    <3>1. Stopped(t, l, ok) \in
            {c, StartInventory(c, FALSE, "user"), StartInventory(c, TRUE, "user")}
      BY <2>2 DEF Stopped
    <3> HIDE DEF c
    <3>2. Ready(c) /\ c.state = "CONNECTED" /\ Set(c, r) /\ Cached(c) /\ Purpose(c, "user")
          /\ c.transition = t.transition
      BY <1>4, <1>5, <2>2 DEF Moved, Kept, Set, Cached, Purpose, Pending
    <3>3. /\ Result(c, StartInventory(c, FALSE, "user"), r)
          /\ Result(c, StartInventory(c, TRUE, "user"), r)
      BY <3>2, StartResults
    <3>4. AtRest(c, r) BY <1>0, <2>2, <3>2 DEF AtRest, Purpose
    <3>5. Result(c, c, r) BY <3>2, <3>4, RestResults
    <3>. QED BY <3>1, <3>2, <3>3, <3>5, ResultFrom
  <2>3. CASE l = "disconnect"
    <3>1. Stopped(t, l, ok) = DisconnectStopped(t, ok) BY <2>3 DEF Stopped
    <3>2. ~ Pending(t) /\ t \in ClientT BY <1>3, <1>4, <2>3 DEF Purpose, Ready
    <3>. QED BY <3>1, <3>2, DisconnectStoppedResults
  <2>4. CASE l = "apply"
    <3>1. Stopped(t, l, ok) = AfterStopped(t, ok) BY <2>4 DEF Stopped
    <3>2. Pending(t) /\ Old(t) /\ ~ t.disconnecting /\ ~ t.transition.written /\ Set(t, r)
      BY <1>4, <2>4 DEF Purpose
    <3>3. CASE ok
      <4>1. r.config = t.transition.old.reader BY <3>2 DEF Old, SameSettings, Set
      <4>2. Result(t, AfterStopped(t, TRUE), r) BY <1>0, <1>3, <3>2, <3>3, <4>1, AfterStoppedResults
      <4>. QED BY <3>1, <3>3, <4>2
    <3>4. CASE ~ ok
      <4>1. Result(t, AfterStopped(t, FALSE), r) BY <1>3, <1>4, <2>4, <3>2, <3>4, NotStoppedResults
      <4>. QED BY <3>1, <3>4, <4>1
    <3>. QED BY <3>3, <3>4
  <2>5. CASE l = "cleanup"
    <3>1. Stopped(t, l, ok) = IF ok THEN FinishRestore(t) ELSE GiveUp(t) BY <2>5 DEF Stopped
    <3>2. Restoring(t, r) BY <1>3, <1>4, <2>5 DEF Restoring, Purpose
    <3>3. t \in ClientT BY <1>3 DEF Ready
    <3>. QED BY <3>1, <3>2, <3>3, FinishRestoreResults, GiveUpResults
  <2>. QED BY <1>1, <2>1, <2>2, <2>3, <2>4, <2>5
<1>. QED BY <1>2, <1>4, <1>6, ResultFrom

LEMMA ReaderConfigResults ==
    ASSUME NEW s, NEW r, Ready(s), NEW l \in {"applied", "undo"}, NEW ok \in BOOLEAN,
           Purpose(s, l), s.rospec = NoROSpec, ok => Set(s, r),
           l = "applied" => r.rospec = NoROSpec,
           l = "applied" /\ ~ ok => r.config = s.transition.old.reader
    PROVE  Result(s, Completed(s, "SET_READER_CONFIG", l, ok), r)
<1>0. s \in ClientT /\ ~ s.disconnecting /\ Pending(s) BY DEF Ready, Purpose
<1>1. Completed(s, "SET_READER_CONFIG", l, ok) = ReaderConfigSet(s, l, ok) BY DEF Completed
<1>2. CASE l = "undo"
  <2>1. ReaderConfigSet(s, l, ok) = IF ok THEN CleanupReplacement(s) ELSE GiveUp(s)
    BY <1>2 DEF ReaderConfigSet
  <2>2. ok => Restoring(s, r) BY <1>0, <1>2 DEF Restoring, Purpose
  <2>. QED BY <1>0, <1>1, <2>1, <2>2, CleanupResults, GiveUpResults
<1>3. CASE l = "applied" /\ ok
  <2> DEFINE w == [s.transition EXCEPT !.written = TRUE]
             t == [s EXCEPT !.transition = w]
  <2>1. s.transition \in TransitionT BY <1>0 DEF ClientT
  <2>2. w \in TransitionT /\ w.written /\ w.status = s.transition.status /\ w.old = s.transition.old
        /\ w.new = s.transition.new /\ w.original = s.transition.original
    BY <2>1 DEF TransitionT
  <2>3. [s EXCEPT !.transition.written = TRUE] = t BY <1>0 DEF ClientT
  <2> HIDE DEF w
  <2>4. Ready(t) /\ t.transition = w /\ t.config = s.config /\ t.rospec = s.rospec
        /\ t.disconnecting = s.disconnecting
    BY <1>0, <2>2 DEF Ready, ClientT
  <2>5. ReaderConfigSet(s, l, ok) = FinishNewState(t) BY <1>3, <2>3 DEF ReaderConfigSet
  <2> HIDE DEF t
  <2>6. Pending(t) /\ New(t) /\ Set(t, r) BY <1>3, <2>2, <2>4 DEF Purpose, Pending, New, Set
  <2>7. Result(t, FinishNewState(t), r)
    BY <1>0, <1>3, <2>2, <2>4, <2>6, FinishNewStateResults
  <2>8. Result(s, FinishNewState(t), r) BY <2>2, <2>4, <2>7 DEF Result, Ends, Pending
  <2>. QED BY <1>1, <2>5, <2>8
<1>4. CASE l = "applied" /\ ~ ok
  <2>1. ReaderConfigSet(s, l, ok) = RestoreOld(s) BY <1>4 DEF ReaderConfigSet
  <2>2. ~ s.transition.written BY <1>4 DEF Purpose
  <2>. QED BY <1>0, <1>1, <1>4, <2>1, <2>2, RestoreOldResults
<1>. QED BY <1>2, <1>3, <1>4

(* A start that fails. *)
LEMMA NotStartedResults ==
    ASSUME NEW s, NEW r, Ready(s), NEW l \in {"restarted", "restored"}, Purpose(s, l), Set(s, r)
    PROVE  Result(s, InventoryStarted(s, l, FALSE), r)
<1>0. s \in ClientT /\ ~ s.disconnecting /\ Pending(s) /\ s.transition.original = "INVENTORYING"
  BY DEF Ready, Purpose
<1>1. CASE l = "restarted"
  <2>1. InventoryStarted(s, l, FALSE) = RestoreOld(s) BY <1>1 DEF InventoryStarted
  <2>2. s.transition.written \/ r.config = s.transition.old.reader BY <1>1 DEF Purpose, Set
  <2>. QED BY <1>0, <2>1, <2>2, RestoreOldResults
<1>2. CASE l = "restored"
  <2>1. InventoryStarted(s, l, FALSE) = GiveUp(s) BY <1>2 DEF InventoryStarted
  <2>. QED BY <1>0, <2>1, GiveUpResults
<1>. QED BY <1>1, <1>2

LEMMA AddedResults ==
    ASSUME NEW s, NEW r, Ready(s), NEW l \in Labels, NEW ok \in BOOLEAN, ok \/ l # "user",
           Answered(s, r, "ADD_ROSPEC", l, ok)
    PROVE  Result(s, Completed(s, "ADD_ROSPEC", l, ok), r)
<1> DEFINE n == "ADD_ROSPEC"
<1>0. Purpose(s, l) /\ Set(s, r) /\ l \in {"user", "restarted", "restored"}
      /\ (ok => r.rospec = s.config.rospec /\ Cached(s))
  BY DEF Answered, Outstands
<1>1. CASE ~ ok
  <2>1. Completed(s, n, l, ok) = InventoryStarted(s, l, FALSE) BY <1>1 DEF Completed
  <2>. QED BY <1>0, <1>1, <2>1, NotStartedResults
<1>2. CASE ok
  <2> DEFINE u == [s EXCEPT !.added = TRUE]
             t == Send(u, "ENABLE_ROSPEC", l, 0)
  <2>1. Completed(s, n, l, ok) = t BY <1>2 DEF Completed
  <2>2. Ready(u) /\ Kept(s, u) /\ u.rospec = s.rospec BY DEF Ready, Kept, ClientT
  <2> HIDE DEF u
  <2>3. "ENABLE_ROSPEC" \in Requests /\ l \in Waiting("ENABLE_ROSPEC") \cap Labels /\ 0 \in Nat
    BY Names
  <2>4. Requested(t, "ENABLE_ROSPEC", l, 0) /\ Kept(u, t) /\ t.rospec = u.rospec
    BY <2>2, <2>3, SendDoes
  <2> HIDE DEF t
  <2>5. Kept(s, t) /\ t.rospec = s.rospec BY <2>2, <2>4 DEF Kept
  <2>6. Purpose(t, l) BY <1>0, <2>5 DEF Kept, Purpose, Pending, Old, New
  <2>7. Outstands(t, r, "ENABLE_ROSPEC", l)
    BY <1>0, <1>2, <2>5 DEF Kept, Outstands, Set, Cached, Holds
  <2>8. Asking(t, r, "ENABLE_ROSPEC", l, 0) BY <1>0, <2>6, <2>7 DEF Asking
  <2>9. t.transition = s.transition BY <2>5 DEF Kept
  <2>. QED BY <2>1, <2>3, <2>4, <2>8, <2>9, AskingResults
<1>. QED BY <1>1, <1>2

LEMMA EnabledResults ==
    ASSUME NEW s, NEW r, Ready(s), s.state = "SENT_ENABLE_ROSPEC", NEW l \in Labels,
           NEW ok \in BOOLEAN, Answered(s, r, "ENABLE_ROSPEC", l, ok)
    PROVE  Result(s, Completed(s, "ENABLE_ROSPEC", l, ok), r)
<1> DEFINE n == "ENABLE_ROSPEC"
           t == SetState(s, "INVENTORYING")
<1>0. /\ Purpose(s, l) /\ Set(s, r) /\ l \in {"user", "resume", "restarted", "restored"}
      /\ Cached(s) /\ (ok => Runs(s, r))
  BY DEF Answered, Outstands
<1>1. Completed(s, n, l, ok) = InventoryStarted(IF ok THEN t ELSE s, l, ok)
  BY DEF Completed, RospecEnabled
<1>2. CASE ~ ok
  <2>1. CASE l \in {"restarted", "restored"} BY <1>0, <1>1, <1>2, <2>1, NotStartedResults
  <2>2. CASE l \in {"user", "resume"}
    <3>1. Completed(s, n, l, ok) = s BY <1>1, <1>2, <2>2 DEF InventoryStarted
    <3>2. AtRest(s, r) BY <1>0, <2>2 DEF AtRest, Purpose
    <3>. QED BY <3>1, <3>2, RestResults
  <2>. QED BY <1>0, <2>1, <2>2
<1>3. CASE ok
  <2>1. Moved(s, t, "INVENTORYING") BY SetStateDoes, StateNames DEF Settled
  <2>2. InventoryStarted(t, l, ok) =
          CASE l = "restarted" -> Succeed(t) [] l = "restored" -> Fail(t) [] OTHER -> t
    BY <1>3 DEF InventoryStarted
  <2> HIDE DEF t
  <2>3. Ready(t) /\ t.state = "INVENTORYING" /\ Kept(s, t) /\ t.rospec = s.rospec /\ t.applied = s.config
    BY <2>1 DEF Moved
  <2>4. /\ Set(t, r) /\ Cached(t) /\ Runs(t, r) /\ t.applied.rospec = t.config.rospec
        /\ ~ t.disconnecting
    BY <1>0, <1>3, <2>3 DEF Kept, Set, Cached, Runs, Purpose
  <2>5. ASSUME NEW u, NEW x \in {"success", "failed"}, Finished(t, u, x) PROVE Ready(u) /\ AtRest(u, r)
    BY <2>3, <2>4, <2>5 DEF Finished, AtRest, Pending, Set, Cached, Runs
  <2>6. Finished(t, Fail(t), "failed") /\ Finished(t, Succeed(t), "success") BY <2>3, EndsDo
  <2>7. CASE l = "restarted"
    <3>1. Completed(s, n, l, ok) = Succeed(t) BY <1>1, <1>3, <2>2, <2>7
    <3>2. Ready(Succeed(t)) /\ AtRest(Succeed(t), r) BY <2>5, <2>6
    <3>3. Ends(s, Succeed(t)) BY <1>0, <2>3, <2>6, <2>7 DEF Ends, Finished, Ready, Kept, Purpose, New
    <3>. QED BY <3>1, <3>2, <3>3 DEF Result, Outcome, Ready
  <2>8. CASE l = "restored"
    <3>1. Completed(s, n, l, ok) = Fail(t) BY <1>1, <1>3, <2>2, <2>8
    <3>2. Ready(Fail(t)) /\ AtRest(Fail(t), r) BY <2>5, <2>6
    <3>3. Ends(s, Fail(t)) BY <1>0, <2>3, <2>6, <2>8 DEF Ends, Finished, Ready, Kept, Purpose, Old
    <3>. QED BY <3>1, <3>2, <3>3 DEF Result, Outcome, Ready
  <2>9. CASE l \in {"user", "resume"}
    <3>1. Completed(s, n, l, ok) = t BY <1>1, <1>3, <2>2, <2>9
    <3>2. AtRest(t, r) BY <1>0, <2>3, <2>4, <2>9 DEF AtRest, Purpose, Kept, Pending
    <3>3. t.transition = s.transition BY <2>3 DEF Kept
    <3>. QED BY <2>3, <3>1, <3>2, <3>3, RestResults, ResultFrom
  <2>. QED BY <1>0, <2>7, <2>8, <2>9
<1>. QED BY <1>2, <1>3

LEMMA DisabledResults ==
    ASSUME NEW s, NEW r, Ready(s), s.state = "PAUSING", NEW l \in Labels,
           NEW ok \in BOOLEAN, Answered(s, r, "DISABLE_ROSPEC", l, ok)
    PROVE  Result(s, Completed(s, "DISABLE_ROSPEC", l, ok), r)
<1> DEFINE t == SetState(s, "PAUSED")
           u == CancelTimer(t)
           v(x) == [u EXCEPT !.timer = x]
           c == Completed(s, "DISABLE_ROSPEC", l, ok)
<1>0. Purpose(s, l) /\ Set(s, r) /\ Cached(s) /\ Holds(s, r) /\ l \in {"pause", "timed", "timed_regen"}
  BY DEF Answered, Outstands
<1>1. c \in {s, t, v("plain"), v("regen")} /\ (c = s \/ ok)
  <2>1. c = Paused(s, l, ok) BY DEF Completed
  <2>2. CASE ~ ok BY <2>1, <2>2 DEF Paused
  <2>3. CASE ok /\ l = "timed" BY <2>1, <2>3 DEF Paused
  <2>4. CASE ok /\ l = "timed_regen" BY <2>1, <2>4 DEF Paused
  <2>5. CASE ok /\ l = "pause" BY <2>1, <2>5 DEF Paused
  <2>. QED BY <1>0, <2>2, <2>3, <2>4, <2>5
<1>2. Moved(s, t, "PAUSED") BY SetStateDoes, StateNames DEF Settled
<1> HIDE DEF t, c
<1>3. Ready(t) /\ t.state = "PAUSED" /\ Kept(s, t) /\ t.rospec = s.rospec BY <1>2 DEF Moved
<1>4. Ready(u) /\ Kept(t, u) /\ u.state = "PAUSED" /\ u.rospec = t.rospec BY <1>3, CancelTimerDoes
<1> HIDE DEF u
<1>5. ASSUME NEW x \in {"plain", "regen"}
      PROVE  Ready(v(x)) /\ Kept(u, v(x)) /\ v(x).state = "PAUSED" /\ v(x).rospec = u.rospec
  BY <1>4 DEF Ready, Kept, ClientT, Timers
<1>6. ASSUME NEW w, Ready(w), w.state = "PAUSED", Kept(s, w), w.rospec = s.rospec
      PROVE  Result(s, w, r)
  <2>1. AtRest(w, r) BY <1>0, <1>6 DEF Kept, AtRest, Purpose, Pending, Set, Cached, Holds
  <2>2. w.transition = s.transition BY <1>6 DEF Kept
  <2>. QED BY <1>6, <2>1, <2>2, RestResults, ResultFrom
<1>7. Result(s, s, r)
  <2>1. AtRest(s, r) BY <1>0 DEF AtRest, Purpose
  <2>. QED BY <2>1, RestResults
<1> HIDE DEF v
<1>8. Kept(s, v("plain")) /\ v("plain").rospec = s.rospec /\ Ready(v("plain")) /\ v("plain").state = "PAUSED"
  BY <1>3, <1>4, <1>5 DEF Kept
<1>9. Kept(s, v("regen")) /\ v("regen").rospec = s.rospec /\ Ready(v("regen")) /\ v("regen").state = "PAUSED"
  BY <1>3, <1>4, <1>5 DEF Kept
<1>10. Result(s, t, r) /\ Result(s, v("plain"), r) /\ Result(s, v("regen"), r)
  BY <1>3, <1>6, <1>8, <1>9
<1>11. Result(s, c, r) BY <1>1, <1>7, <1>10
<1>. QED BY <1>11 DEF c

-----------------------------------------------------------------------------
(* handleMessage.                                                           *)

LEMMA SentNames ==
    /\ SentState["IMPINJ_ENABLE_EXTENSIONS"] = "SENT_ENABLE_IMPINJ_EXTENSIONS"
    /\ SentState["GET_READER_CAPABILITIES"] = "SENT_GET_CAPABILITIES"
    /\ SentState["GET_READER_CONFIG"] = "SENT_GET_CONFIG"
    /\ SentState["SET_READER_CONFIG"] = "SENT_SET_CONFIG"
    /\ SentState["DELETE_ACCESSSPEC"] = "SENT_DELETE_ACCESSSPEC"
    /\ SentState["DELETE_ROSPEC"] = "SENT_DELETE_ROSPEC"
    /\ SentState["ADD_ROSPEC"] = "SENT_ADD_ROSPEC"
    /\ SentState["ENABLE_ROSPEC"] = "SENT_ENABLE_ROSPEC"
    /\ SentState["DISABLE_ROSPEC"] = "PAUSING"
BY DEF SentState, Requests

LEMMA KeptPredicates ==
    ASSUME NEW s, NEW t, Kept(s, t), t.rospec = s.rospec, NEW r, NEW n, NEW l
    PROVE  /\ Purpose(s, l) => Purpose(t, l)
           /\ Outstands(s, r, n, l) => Outstands(t, r, n, l)
           /\ InForce(s, r) => InForce(t, r)
           /\ \A d : Asking(s, r, n, l, d) => Asking(t, r, n, l, d)
           /\ \A ok : Answered(s, r, n, l, ok) => Answered(t, r, n, l, ok)
<1>1. Purpose(s, l) => Purpose(t, l) BY DEF Kept, Purpose, Pending, Old, New
<1>2. Outstands(s, r, n, l) => Outstands(t, r, n, l) BY DEF Kept, Outstands, Set, Cached, Holds
<1>3. InForce(s, r) => InForce(t, r) BY DEF Kept, InForce, Runs, Holds
<1>4. \A d : Asking(s, r, n, l, d) => Asking(t, r, n, l, d)
  BY <1>1, <1>2, <1>3 DEF Kept, Asking, Cached
<1>5. \A ok : Answered(s, r, n, l, ok) => Answered(t, r, n, l, ok)
  BY <1>1, <1>2, <1>3 DEF Kept, Answered, Set, Cached, Runs
<1>. QED BY <1>1, <1>2, <1>3, <1>4, <1>5

(* A client between two handlers, waiting for n on behalf of l. *)
Awaits(s, n, l) ==
    s \in ClientT /\ s.outstanding = Only(n, l) /\ s.sent = << >> /\ ~ s.raised /\ ~ s.closed

Cleared(s) == [s EXCEPT !.outstanding = Free]

LEMMA ProcessDoes ==
    ASSUME NEW s, NEW n \in Requests, NEW l \in Labels, Awaits(s, n, l), NEW ok
    PROVE  /\ ProcessDeferreds(s, n, ok) = Completed(Cleared(s), n, l, ok)
           /\ Ready(Cleared(s)) /\ Kept(s, Cleared(s))
           /\ Cleared(s).state = s.state /\ Cleared(s).rospec = s.rospec
<1>0. s \in ClientT /\ s.outstanding = Only(n, l) BY DEF Awaits
<1>1. s.outstanding[n] = l /\ l # Nobody BY <1>0, Names DEF Only
<1>2. [s.outstanding EXCEPT ![n] = Nobody] = Free BY <1>0 DEF Only, Free
<1>3. [s EXCEPT !.outstanding[n] = Nobody] = Cleared(s)
  <2>1. [s EXCEPT !.outstanding[n] = Nobody] = [s EXCEPT !.outstanding = [s.outstanding EXCEPT ![n] = Nobody]]
    BY <1>0 DEF ClientT
  <2>. QED BY <1>2, <2>1 DEF Cleared
<1>4. ProcessDeferreds(s, n, ok) = Completed(Cleared(s), n, l, ok) BY <1>1, <1>3 DEF ProcessDeferreds
<1>5. Free \in Outstanding BY DEF Free, Outstanding, Waiting
<1>6. Ready(Cleared(s)) /\ Kept(s, Cleared(s))
      /\ Cleared(s).state = s.state /\ Cleared(s).rospec = s.rospec
  <2> HIDE DEF Free
  <2>. QED BY <1>0, <1>5 DEF Awaits, Cleared, Ready, Kept, ClientT
<1>. QED BY <1>4, <1>6

LEMMA RaiseResults ==
    ASSUME NEW s, NEW t \in ClientT, NEW r, t.transition.status # "success" \/ ~ Pending(s)
    PROVE  Result(s, Raise(t), r)
<1>1. Raise(t) \in ClientT BY RaiseTyped DEF Keeps
<1>2. Raise(t).raised /\ Raise(t).transition = t.transition BY DEF Raise, ClientT
<1>. QED BY <1>1, <1>2 DEF Result, Outcome, Ends

LEMMA HandshakeResults ==
    ASSUME NEW s, NEW r, NEW n \in {"IMPINJ_ENABLE_EXTENSIONS", "GET_READER_CAPABILITIES",
                                    "GET_READER_CONFIG"},
           NEW l \in Labels, Awaits(s, n, l), s.state = SentState[n], NEW ok \in BOOLEAN,
           Answered(s, r, n, l, ok)
    PROVE  Result(s, HandleResponse(s, n, ok), r)
<1> DEFINE f == Cleared(s)
<1>0. n \in Requests /\ s \in ClientT /\ "setup" \in Labels /\ 0 \in Nat BY Names DEF Awaits, Labels
<1>1. Purpose(s, l) /\ l = "setup" /\ s.rospec = NoROSpec /\ ~ s.suppress BY DEF Answered, Outstands
<1>2. ~ Pending(s) /\ ~ s.disconnecting BY <1>1 DEF Purpose
<1>3. /\ \A o : ProcessDeferreds(s, n, o) = Completed(f, n, l, o)
      /\ Ready(f) /\ Kept(s, f) /\ f.state = s.state /\ f.rospec = s.rospec
  BY <1>0, ProcessDoes
<1> HIDE DEF f
<1>4. Result(s, Raise(s), r) BY <1>0, <1>2, RaiseResults
<1>5. Result(s, FatalFailure(s, n), r)
  <2>1. ProcessDeferreds(s, n, FALSE) \in ClientT BY <1>0, ProcessTyped
  <2>. QED BY <1>2, <2>1, RaiseResults DEF FatalFailure
(* A further request of the handshake. *)
<1>6. ASSUME NEW t, Ready(t), Kept(s, t), t.rospec = s.rospec, NEW k \in Requests, NEW d \in Nat,
             k \in {"GET_READER_CAPABILITIES", "GET_READER_CONFIG", "SET_READER_CONFIG"},
             k = "SET_READER_CONFIG" => d = t.config.reader
      PROVE  Result(s, Send(t, k, "setup", d), r)
  <2> DEFINE u == Send(t, k, "setup", d)
  <2>1. "setup" \in Waiting(k) \cap Labels BY <1>0, <1>6, Names DEF Writes
  <2>2. Requested(u, k, "setup", d) /\ Kept(t, u) /\ u.rospec = t.rospec BY <1>6, <2>1, SendDoes
  <2> HIDE DEF u
  <2>3. Kept(s, u) /\ u.rospec = s.rospec /\ u.config = t.config BY <1>6, <2>2 DEF Kept
  <2>4. Purpose(u, "setup") BY <1>1, <2>3, KeptPredicates
  <2>5. Outstands(u, r, k, "setup") BY <1>1, <1>6, <2>3 DEF Outstands, Kept
  <2>6. Asking(u, r, k, "setup", d) BY <1>6, <2>3, <2>4, <2>5 DEF Asking
  <2>7. u.transition = s.transition BY <2>3 DEF Kept
  <2>. QED BY <1>0, <1>6, <2>2, <2>6, <2>7, AskingResults DEF u
<1>7. CASE n = "IMPINJ_ENABLE_EXTENSIONS"
  <2>1. HandleResponse(s, n, ok) = InSentImpinj(s, n, ok) BY <1>7, SentNames DEF HandleResponse
  <2>2. CASE ~ ok
    <3>1. InSentImpinj(s, n, ok) = FatalFailure(s, n) BY <1>7, <2>2 DEF InSentImpinj
    <3>. QED BY <1>5, <2>1, <3>1
  <2>3. CASE ok
    <3>1. InSentImpinj(s, n, ok) = ProcessDeferreds(s, n, TRUE) BY <1>7, <2>3 DEF InSentImpinj
    <3>2. Completed(f, n, l, TRUE) = Send(f, "GET_READER_CAPABILITIES", "setup", 0)
      BY <1>7 DEF Completed
    <3>3. "GET_READER_CAPABILITIES" \in Requests BY Names
    <3>. QED BY <1>0, <1>3, <1>6, <2>1, <3>1, <3>2, <3>3
  <2>. QED BY <2>2, <2>3
<1>8. CASE n = "GET_READER_CAPABILITIES"
  <2>1. HandleResponse(s, n, ok) = InSentGetCapabilities(s, n, ok) BY <1>8, SentNames DEF HandleResponse
  <2>2. CASE ~ ok
    <3>1. InSentGetCapabilities(s, n, ok) = FatalFailure(s, n) BY <1>8, <2>2 DEF InSentGetCapabilities
    <3>. QED BY <1>5, <2>1, <3>1
  <2>3. CASE ok /\ ~ CapabilitiesMatch(s.config)
    <3>1. InSentGetCapabilities(s, n, ok) = Raise(s) BY <1>8, <2>3 DEF InSentGetCapabilities
    <3>. QED BY <1>4, <2>1, <3>1
  <2>4. CASE ok /\ CapabilitiesMatch(s.config)
    <3> DEFINE t == SetState(f, "CONNECTED")
    <3>1. Completed(f, n, l, TRUE) = t BY <1>8 DEF Completed
    <3>2. ProcessDeferreds(s, n, TRUE) = t BY <1>3, <3>1
    <3>3. InSentGetCapabilities(s, n, ok) =
            IF t.disconnecting THEN t ELSE Send(t, "GET_READER_CONFIG", "setup", 0)
      BY <1>8, <2>4, <3>2 DEF InSentGetCapabilities
    <3>4. Moved(f, t, "CONNECTED") BY <1>3, SetStateDoes, StateNames DEF Settled
    <3> HIDE DEF t
    <3>5. Ready(t) /\ Kept(s, t) /\ t.rospec = s.rospec /\ ~ t.disconnecting
      BY <1>2, <1>3, <3>4 DEF Moved, Kept
    <3>6. "GET_READER_CONFIG" \in Requests BY Names
    <3>. QED BY <1>0, <1>6, <2>1, <3>3, <3>5, <3>6
  <2>. QED BY <2>2, <2>3, <2>4
<1>9. CASE n = "GET_READER_CONFIG"
  <2>1. HandleResponse(s, n, ok) = InSentGetConfig(s, n, ok) BY <1>9, SentNames DEF HandleResponse
  <2>2. CASE ~ ok
    <3>1. InSentGetConfig(s, n, ok) = FatalFailure(s, n) BY <1>9, <2>2 DEF InSentGetConfig
    <3>. QED BY <1>5, <2>1, <3>1
  <2>3. CASE ok
    <3> DEFINE t == SetState(f, "SENT_GET_CONFIG")
    <3>1. Completed(f, n, l, TRUE) = t BY <1>9 DEF Completed
    <3>2. ProcessDeferreds(s, n, TRUE) = t BY <1>3, <3>1
    <3>3. InSentGetConfig(s, n, ok) =
            IF t.raised \/ t.disconnecting THEN t ELSE SendSetReaderConfig(t, "setup")
      BY <1>9, <2>3, <3>2 DEF InSentGetConfig
    <3>4. Moved(f, t, "SENT_GET_CONFIG") BY <1>3, SetStateDoes, StateNames
    <3> HIDE DEF t
    <3>5. Ready(t) /\ Kept(s, t) /\ t.rospec = s.rospec /\ ~ t.disconnecting /\ ~ t.raised
      BY <1>2, <1>3, <3>4 DEF Moved, Kept, Ready
    <3>6. "SET_READER_CONFIG" \in Requests /\ t.config.reader \in Nat
      BY <3>5, Names DEF Ready, ClientT, ConfigType
    <3>7. HandleResponse(s, n, ok) = Send(t, "SET_READER_CONFIG", "setup", t.config.reader)
      BY <2>1, <3>3, <3>5 DEF SendSetReaderConfig
    <3>. QED BY <1>6, <3>5, <3>6, <3>7
  <2>. QED BY <2>2, <2>3
<1>. QED BY <1>7, <1>8, <1>9

(* After the handshake. *)
LEMMA PostSetConfigResults ==
    ASSUME NEW s, NEW r, Ready(s), s.state = "SENT_SET_CONFIG", Purpose(s, "setup"), Set(s, r),
           s.rospec = NoROSpec
    PROVE  Result(s, PostSetConfig(s), r)
<1>0. ~ s.raised /\ ~ s.disconnecting /\ ~ Pending(s) BY DEF Ready, Purpose
<1>1. CASE ResetOnConnect
  <2> DEFINE t == Send(s, "DELETE_ACCESSSPEC", "connect", 0)
  <2>1. PostSetConfig(s) = t BY <1>0, <1>1 DEF PostSetConfig, StopPolitely
  <2>2. /\ "DELETE_ACCESSSPEC" \in Requests /\ 0 \in Nat /\ "connect" \in Labels
        /\ "connect" \in Waiting("DELETE_ACCESSSPEC") \cap Labels
    BY Names DEF Stops
  <2>3. Requested(t, "DELETE_ACCESSSPEC", "connect", 0) /\ Kept(s, t) /\ t.rospec = s.rospec
    BY <2>2, SendDoes
  <2> HIDE DEF t
  <2>4. Asking(t, r, "DELETE_ACCESSSPEC", "connect", 0)
    BY <1>0, <2>3 DEF Kept, Asking, Purpose, Outstands, Pending, Set, Cached
  <2>5. t.transition = s.transition BY <2>3 DEF Kept
  <2>. QED BY <2>1, <2>2, <2>3, <2>4, <2>5, AskingResults
<1>2. CASE ~ ResetOnConnect /\ StartInventoryOnConnect
  <2>1. PostSetConfig(s) = StartInventory(s, FALSE, "user") BY <1>0, <1>2 DEF PostSetConfig
  <2>2. Purpose(s, "user") /\ Cached(s) /\ s.state # "INVENTORYING" BY <1>0 DEF Purpose, Cached
  <2>. QED BY <2>1, <2>2, StartResults
<1>3. CASE ~ ResetOnConnect /\ ~ StartInventoryOnConnect
  <2>1. PostSetConfig(s) = s BY <1>0, <1>3 DEF PostSetConfig
  <2>2. AtRest(s, r) BY <1>0 DEF AtRest
  <2>. QED BY <2>1, <2>2, RestResults
<1>. QED BY <1>1, <1>2, <1>3

LEMMA WrittenResults ==
    ASSUME NEW s, NEW r, NEW l \in Labels, Awaits(s, "SET_READER_CONFIG", l),
           s.state = "SENT_SET_CONFIG", NEW ok \in BOOLEAN,
           Answered(s, r, "SET_READER_CONFIG", l, ok)
    PROVE  Result(s, HandleResponse(s, "SET_READER_CONFIG", ok), r)
<1> DEFINE n == "SET_READER_CONFIG"
           t == [s EXCEPT !.suppress = FALSE]
           c == SetState(t, "CONNECTED")
           f == Cleared(t)
           g == Cleared(c)
           h == SetState(f, "SENT_SET_CONFIG")
<1>0. n \in Requests /\ s \in ClientT BY Names DEF Awaits
<1>1. Purpose(s, l) /\ Outstands(s, r, n, l) /\ s.rospec = NoROSpec BY DEF Answered, Outstands
<1>2. Awaits(t, n, l) /\ t.config = s.config /\ t.transition = s.transition /\ t.rospec = s.rospec
      /\ t.disconnecting = s.disconnecting /\ t.state = s.state
  BY <1>0 DEF Awaits, ClientT
<1>3. HandleResponse(s, n, ok) =
        CASE s.suppress /\ ok   -> ProcessDeferreds(c, n, TRUE)
          [] s.suppress /\ ~ ok -> ProcessDeferreds(t, n, FALSE)
          [] ~ s.suppress /\ ok -> PostSetConfig(ProcessDeferreds(t, n, TRUE))
          [] OTHER              -> FatalFailure(t, n)
  BY DEF HandleResponse, InSentSetConfig
<1> HIDE DEF t
<1>4. t \in ClientT BY <1>2 DEF Awaits
<1>5. Purpose(t, l) BY <1>1, <1>2 DEF Purpose, Pending, Old, New
<1>6. /\ \A o : ProcessDeferreds(t, n, o) = Completed(f, n, l, o)
      /\ Ready(f) /\ Kept(t, f) /\ f.state = t.state /\ f.rospec = t.rospec
  BY <1>0, <1>2, ProcessDoes
<1> HIDE DEF f
<1>7. Purpose(f, l) BY <1>5, <1>6, KeptPredicates
<1>8. f.config = s.config /\ f.transition = s.transition /\ f.rospec = NoROSpec
      /\ f.disconnecting = s.disconnecting
  BY <1>1, <1>2, <1>6 DEF Kept
<1>9. CASE s.suppress
  <2>1. /\ l \in {"applied", "undo"} /\ (l = "applied" => r.rospec = NoROSpec) /\ (ok => Set(s, r))
        /\ (l = "applied" /\ ~ ok => r.config = s.transition.old.reader)
    BY <1>1, <1>9 DEF Answered, Outstands
  <2>2. CASE ~ ok
    <3>1. HandleResponse(s, n, ok) = Completed(f, n, l, FALSE) BY <1>3, <1>6, <1>9, <2>2
    <3>2. Result(f, Completed(f, n, l, FALSE), r)
      BY <1>6, <1>7, <1>8, <2>1, <2>2, ReaderConfigResults
    <3>. QED BY <1>8, <3>1, <3>2, ResultFrom
  <2>3. CASE ok
    <3>1. HandleResponse(s, n, ok) = ProcessDeferreds(c, n, TRUE) BY <1>3, <1>9, <2>3
    <3>2. Awaits(c, n, l) /\ c.config = s.config /\ c.transition = s.transition /\ c.rospec = NoROSpec
          /\ c.disconnecting = s.disconnecting
      <4>1. "CONNECTED" \in States BY StateNames DEF Settled
      <4>2. c = [t EXCEPT !.state = "CONNECTED"] BY DEF SetState
      <4>. QED BY <1>1, <1>2, <1>4, <4>1, <4>2 DEF Awaits, ClientT
    <3> HIDE DEF c
    <3>3. /\ ProcessDeferreds(c, n, TRUE) = Completed(g, n, l, TRUE)
          /\ Ready(g) /\ Kept(c, g) /\ g.rospec = c.rospec
      BY <1>0, <3>2, ProcessDoes
    <3> HIDE DEF g
    <3>4. g.config = s.config /\ g.transition = s.transition /\ g.rospec = NoROSpec
          /\ g.disconnecting = s.disconnecting
      BY <3>2, <3>3 DEF Kept
    <3>5. Purpose(g, l) BY <1>1, <3>4 DEF Purpose, Pending, Old, New
    <3>6. Set(g, r) BY <2>1, <2>3, <3>4 DEF Set
    <3>7. Result(g, Completed(g, n, l, TRUE), r)
      BY <2>1, <3>3, <3>4, <3>5, <3>6, ReaderConfigResults
    <3>. QED BY <3>1, <3>3, <3>4, <3>7, ResultFrom
  <2>. QED BY <2>2, <2>3
<1>10. CASE ~ s.suppress
  <2>1. l = "setup" /\ (ok => Set(s, r)) BY <1>1, <1>10 DEF Answered, Outstands
  <2>2. ~ Pending(s) BY <1>1, <2>1 DEF Purpose
  <2>3. CASE ~ ok
    <3>1. HandleResponse(s, n, ok) = FatalFailure(t, n) BY <1>3, <1>10, <2>3
    <3>2. ProcessDeferreds(t, n, FALSE) \in ClientT BY <1>0, <1>4, ProcessTyped
    <3>. QED BY <2>2, <3>1, <3>2, RaiseResults DEF FatalFailure
  <2>4. CASE ok
    <3>1. Completed(f, n, l, TRUE) = h BY <2>1 DEF Completed, ReaderConfigSet
    <3>2. HandleResponse(s, n, ok) = PostSetConfig(h) BY <1>3, <1>6, <1>10, <2>4, <3>1
    <3>3. Moved(f, h, "SENT_SET_CONFIG") BY <1>6, SetStateDoes, StateNames
    <3> HIDE DEF h
    <3>4. Ready(h) /\ h.state = "SENT_SET_CONFIG" /\ Kept(f, h) /\ h.rospec = f.rospec
      BY <3>3 DEF Moved
    <3>5. Purpose(h, "setup") BY <1>7, <2>1, <3>4, KeptPredicates
    <3>6. Set(h, r) /\ h.rospec = NoROSpec /\ h.transition = s.transition
      BY <1>8, <2>1, <2>4, <3>4 DEF Kept, Set
    <3>. QED BY <3>2, <3>4, <3>5, <3>6, PostSetConfigResults, ResultFrom
  <2>. QED BY <2>3, <2>4
<1>. QED BY <1>9, <1>10

LEMMA AddAnsweredResults ==
    ASSUME NEW s, NEW r, NEW l \in Labels, Awaits(s, "ADD_ROSPEC", l),
           s.state = "SENT_ADD_ROSPEC", NEW ok \in BOOLEAN,
           Answered(s, r, "ADD_ROSPEC", l, ok)
    PROVE  Result(s, HandleResponse(s, "ADD_ROSPEC", ok), r)
<1> DEFINE n == "ADD_ROSPEC"
           f == Cleared(s)
           t == Completed(f, n, l, ok)
<1>0. n \in Requests /\ s \in ClientT /\ l \in Waiting(n) \cap Labels BY Names DEF Awaits
<1>1. /\ ProcessDeferreds(s, n, ok) = t
      /\ Ready(f) /\ Kept(s, f) /\ f.state = s.state /\ f.rospec = s.rospec
  BY <1>0, ProcessDoes
<1> HIDE DEF f
<1>2. Answered(f, r, n, l, ok) /\ f.transition = s.transition BY <1>1, KeptPredicates DEF Kept
<1>3. HandleResponse(s, n, ok) =
        IF ~ ok /\ t.state = "SENT_ADD_ROSPEC" /\ t.sent = << >> THEN Raise(t) ELSE t
  BY <1>1 DEF HandleResponse, InSentAddRospec
<1>4. CASE ~ ok /\ l = "user"
  <2>1. t = f BY <1>4 DEF Completed, InventoryStarted
  <2>2. f \in ClientT /\ f.sent = << >> BY <1>1 DEF Ready
  <2>3. HandleResponse(s, n, ok) = Raise(f) BY <1>1, <1>3, <1>4, <2>1, <2>2
  <2>4. ~ Pending(s) BY <1>4 DEF Answered, Purpose
  <2>. QED BY <2>2, <2>3, <2>4, RaiseResults
<1>5. CASE ok \/ l # "user"
  <2>1. Result(s, t, r)
    <3>1. Result(f, t, r) BY <1>1, <1>2, <1>5, AddedResults
    <3>. QED BY <1>2, <3>1, ResultFrom
  <2>2. CASE HandleResponse(s, n, ok) = t BY <2>1, <2>2
  <2>3. CASE HandleResponse(s, n, ok) = Raise(t) /\ t.state = "SENT_ADD_ROSPEC"
    <3>1. t \in ClientT BY <2>1 DEF Result, Outcome
    <3>2. t.transition.status # "success" \/ ~ Pending(s)
      <4>1. s.transition.original # "SENT_ADD_ROSPEC" BY <1>0 DEF ClientT, TransitionT, Settled
      <4>. QED BY <2>1, <2>3, <4>1 DEF Result, Ends
    <3> HIDE DEF t
    <3>. QED BY <2>3, <3>1, <3>2, RaiseResults
  <2>. QED BY <1>3, <2>2, <2>3
<1>. QED BY <1>4, <1>5

LEMMA ResponseResults ==
    ASSUME NEW s, NEW r, NEW n \in Requests, NEW l \in Labels, Awaits(s, n, l),
           s.state = SentState[n], NEW ok \in BOOLEAN, Answered(s, r, n, l, ok)
    PROVE  Result(s, HandleResponse(s, n, ok), r)
<1> DEFINE f == Cleared(s)
<1>1. /\ ProcessDeferreds(s, n, ok) = Completed(f, n, l, ok)
      /\ Ready(f) /\ Kept(s, f) /\ f.state = s.state /\ f.rospec = s.rospec
  BY ProcessDoes
<1> HIDE DEF f
<1>2. Answered(f, r, n, l, ok) /\ f.transition = s.transition BY <1>1, KeptPredicates DEF Kept
<1>3. CASE n \in {"IMPINJ_ENABLE_EXTENSIONS", "GET_READER_CAPABILITIES", "GET_READER_CONFIG"}
  BY <1>3, HandshakeResults
<1>4. CASE n = "SET_READER_CONFIG" BY <1>4, WrittenResults, SentNames
<1>5. CASE n = "ADD_ROSPEC" BY <1>5, AddAnsweredResults, SentNames
<1>6. CASE n \in {"DELETE_ACCESSSPEC", "DELETE_ROSPEC", "ENABLE_ROSPEC", "DISABLE_ROSPEC"}
  <2>1. HandleResponse(s, n, ok) = Completed(f, n, l, ok)
    <3>1. CASE n = "DELETE_ACCESSSPEC" BY <1>1, <3>1, SentNames DEF HandleResponse
    <3>2. CASE n = "DELETE_ROSPEC" BY <1>1, <3>2, SentNames DEF HandleResponse
    <3>3. CASE n = "ENABLE_ROSPEC" BY <1>1, <3>3, SentNames DEF HandleResponse
    <3>4. CASE n = "DISABLE_ROSPEC" BY <1>1, <3>4, SentNames DEF HandleResponse
    <3>. QED BY <1>6, <3>1, <3>2, <3>3, <3>4
  <2>2. Result(f, Completed(f, n, l, ok), r)
    <3>1. CASE n = "DELETE_ACCESSSPEC" BY <1>1, <1>2, <3>1, SentNames, AccessSpecsResults
    <3>2. CASE n = "DELETE_ROSPEC" BY <1>1, <1>2, <3>2, SentNames, ROSpecsResults
    <3>3. CASE n = "ENABLE_ROSPEC" BY <1>1, <1>2, <3>3, SentNames, EnabledResults
    <3>4. CASE n = "DISABLE_ROSPEC" BY <1>1, <1>2, <3>4, SentNames, DisabledResults
    <3>. QED BY <1>6, <3>1, <3>2, <3>3, <3>4
  <2>. QED BY <1>2, <2>1, <2>2, ResultFrom
<1>. QED BY <1>3, <1>4, <1>5, <1>6 DEF Requests

LEMMA ConnectionResults ==
    ASSUME NEW s, NEW r, NEW ok \in BOOLEAN, Ready(s), s.rospec = NoROSpec, ~ s.suppress,
           ~ s.disconnecting, ~ Pending(s)
    PROVE  \/ HandleConnectionEvent(s, ok) = s
           \/ AsksFor(HandleConnectionEvent(s, ok), r)
<1> DEFINE t == [s EXCEPT !.disconnecting = FALSE]
           u(k) == Send(t, k, "setup", 0)
<1>0. s \in ClientT BY DEF Ready
<1>1. Ready(t) /\ Kept(s, t) /\ t.rospec = s.rospec BY <1>0 DEF Ready, Kept, ClientT
<1>2. \/ HandleConnectionEvent(s, ok) = s
      \/ \E k \in {"IMPINJ_ENABLE_EXTENSIONS", "GET_READER_CAPABILITIES"} :
           HandleConnectionEvent(s, ok) = u(k)
  <2>1. CASE s.state # "DISCONNECTED" \/ ~ ok BY <2>1 DEF HandleConnectionEvent
  <2>2. CASE ~ (s.state # "DISCONNECTED" \/ ~ ok) BY <2>2 DEF HandleConnectionEvent
  <2>. QED BY <2>1, <2>2
<1> HIDE DEF t
<1>3. ASSUME NEW k \in {"IMPINJ_ENABLE_EXTENSIONS", "GET_READER_CAPABILITIES"} PROVE AsksFor(u(k), r)
  <2>1. k \in Requests /\ "setup" \in Waiting(k) \cap Labels /\ "setup" \in Labels /\ 0 \in Nat
    BY Names DEF Labels
  <2>2. Requested(u(k), k, "setup", 0) /\ Kept(t, u(k)) /\ u(k).rospec = t.rospec
    BY <1>1, <2>1, SendDoes
  <2> HIDE DEF u
  <2>3. Asking(u(k), r, k, "setup", 0)
    BY <1>1, <1>3, <2>2 DEF Kept, Asking, Purpose, Outstands, Pending
  <2>. QED BY <2>1, <2>2, <2>3 DEF AsksFor
<1> HIDE DEF u
<1>. QED BY <1>2, <1>3

-----------------------------------------------------------------------------
(* The application's calls in a settled state.                              *)

(* The call returned: the client is at rest, or one request is on its way. *)
Proceeds(t, r) == t \in ClientT /\ ~ t.raised /\ ~ t.closed /\ ((Ready(t) /\ AtRest(t, r)) \/ AsksFor(t, r))

LEMMA AskingProceeds ==
    ASSUME NEW t, NEW r, NEW n \in Requests, NEW l \in Labels, NEW d \in Nat,
           Requested(t, n, l, d), Asking(t, r, n, l, d)
    PROVE  Proceeds(t, r)
BY DEF Requested, AsksFor, Proceeds

LEMMA ResultProceeds ==
    ASSUME NEW s, NEW t, NEW r, Result(s, t, r), ~ t.raised, ~ t.closed
    PROVE  Proceeds(t, r)
BY DEF Result, Outcome, Proceeds

(* At rest in a settled state. *)
LEMMA SettledRest ==
    ASSUME NEW s, NEW r, AtRest(s, r), s.state \in Settled
    PROVE  /\ ~ Pending(s) /\ ~ s.disconnecting /\ Set(s, r) /\ Cached(s)
           /\ s.state = "CONNECTED" => r.rospec = NoROSpec
           /\ s.state = "INVENTORYING" => Runs(s, r)
           /\ Holds(s, r)
BY DEF AtRest, Settled, Runs, Holds

LEMMA StartProceeds ==
    ASSUME NEW s, NEW r, Ready(s), s.state # "INVENTORYING", NEW force \in BOOLEAN,
           ~ Pending(s), ~ s.disconnecting, Set(s, r),
           \/ r.rospec # NoROSpec
           \/ Cached(s)
    PROVE  Proceeds(StartInventory(s, force, "user"), r)
<1> DEFINE t == StartInventory(s, force, "user")
<1>1. "user" \in Labels /\ s \in ClientT /\ ~ s.closed BY DEF Labels, Ready
<1>2. Purpose(s, "user") BY DEF Purpose
<1>3. Result(s, t, r) /\ ~ t.raised BY <1>2, StartResults
<1>4. ~ t.closed BY <1>1, StartInventoryTyped DEF Keeps
<1> HIDE DEF t
<1>5. Proceeds(t, r) BY <1>3, <1>4, ResultProceeds
<1>. QED BY <1>5 DEF t

LEMMA PauseProceeds ==
    ASSUME NEW s, NEW r, Ready(s), AtRest(s, r), s.state \in Settled,
           NEW l \in {"pause", "timed", "timed_regen"}, NEW regen \in BOOLEAN
    PROVE  Proceeds(Send(GetROSpec(CancelTimer(s), regen), "DISABLE_ROSPEC", l, 0), r)
<1> DEFINE t == CancelTimer(s)
           g == GetROSpec(t, regen)
           u == Send(g, "DISABLE_ROSPEC", l, 0)
<1>0. "DISABLE_ROSPEC" \in Requests /\ l \in Waiting("DISABLE_ROSPEC") \cap Labels /\ l \in Labels /\ 0 \in Nat
  BY Names DEF Labels
<1>1. Ready(t) /\ Kept(s, t) /\ t.rospec = s.rospec BY CancelTimerDoes
<1>2. ~ Pending(s) /\ ~ s.disconnecting /\ Set(s, r) /\ Cached(s) /\ Holds(s, r) BY SettledRest
<1> HIDE DEF t
<1>3. g = t \/ g = [t EXCEPT !.rospec = t.config.rospec] BY DEF GetROSpec
<1>4. Ready(g) /\ Kept(t, g) /\ g.rospec \in {t.rospec, t.config.rospec}
  <2>1. t \in ClientT /\ t.config.rospec \in Nat BY <1>1 DEF Ready, ClientT, ConfigType
  <2>2. CASE g = t BY <1>1, <2>2 DEF Kept
  <2>3. CASE g = [t EXCEPT !.rospec = t.config.rospec] BY <1>1, <2>1, <2>3 DEF Ready, Kept, ClientT
  <2>. QED BY <1>3, <2>2, <2>3
<1> HIDE DEF g
<1>5. Requested(u, "DISABLE_ROSPEC", l, 0) /\ Kept(g, u) /\ u.rospec = g.rospec BY <1>0, <1>4, SendDoes
<1> HIDE DEF u
<1>6. Kept(s, u) /\ u.rospec \in {s.rospec, s.config.rospec} BY <1>1, <1>4, <1>5 DEF Kept
<1>7. Purpose(u, l) BY <1>2, <1>6 DEF Kept, Purpose, Pending
<1>8. Outstands(u, r, "DISABLE_ROSPEC", l) BY <1>2, <1>6 DEF Kept, Outstands, Set, Cached, Holds
<1>9. Asking(u, r, "DISABLE_ROSPEC", l, 0) BY <1>7, <1>8 DEF Asking
<1>10. Proceeds(u, r) BY <1>0, <1>5, <1>9, AskingProceeds
<1>. QED BY <1>10 DEF u, g, t

LEMMA RestKept ==
    ASSUME NEW s, NEW t, NEW r, AtRest(s, r), Kept(s, t), t.state = s.state, t.rospec = s.rospec,
           t.applied = s.applied
    PROVE  AtRest(t, r)
BY DEF Kept, AtRest, Pending, Set, Cached, Runs, Holds

LEMMA ResumeProceeds ==
    ASSUME NEW s, NEW r, Ready(s), AtRest(s, r), s.state \in Settled, NEW regen \in BOOLEAN
    PROVE  Proceeds(ResumeInventory(s, regen), r)
<1> DEFINE c == SetState(s, "CONNECTED")
           t == StartInventory(c, TRUE, "user")
           d == Send(s, "DELETE_ROSPEC", "resume", 0)
           e == Send(s, "ENABLE_ROSPEC", "resume", 0)
<1>0. /\ "DELETE_ROSPEC" \in Requests /\ "resume" \in Waiting("DELETE_ROSPEC") \cap Labels
      /\ "ENABLE_ROSPEC" \in Requests /\ "resume" \in Waiting("ENABLE_ROSPEC") \cap Labels
      /\ "resume" \in Labels /\ 0 \in Nat
  BY Names DEF Labels, Stops
<1>1. ~ Pending(s) /\ ~ s.disconnecting /\ Set(s, r) /\ Cached(s) /\ Holds(s, r) BY SettledRest
<1>2. Purpose(s, "resume") BY <1>1 DEF Purpose
<1>3. CASE s.state = "CONNECTED"
  <2>1. ResumeInventory(s, regen) = StartInventory(s, regen, "user") BY <1>3 DEF ResumeInventory
  <2>. QED BY <1>1, <1>3, <2>1, StartProceeds
<1>4. CASE s.state = "INVENTORYING"
  <2>1. ResumeInventory(s, regen) = s BY <1>4 DEF ResumeInventory
  <2>. QED BY <2>1 DEF Ready, Proceeds
<1>5. CASE s.state = "PAUSED" /\ s.rospec = NoROSpec
  <2>1. ResumeInventory(s, regen) = t BY <1>5 DEF ResumeInventory
  <2>2. Moved(s, c, "CONNECTED") BY SetStateDoes, StateNames DEF Settled
  <2> HIDE DEF c
  <2>3. Ready(c) /\ c.state # "INVENTORYING" /\ ~ Pending(c) /\ ~ c.disconnecting /\ Set(c, r) /\ Cached(c)
    BY <1>1, <2>2 DEF Moved, Kept, Pending, Set, Cached
  <2>4. Proceeds(t, r) BY <2>3, StartProceeds
  <2>. QED BY <2>1, <2>4
<1>6. CASE s.state = "PAUSED" /\ s.rospec # NoROSpec /\ regen
  <2>1. ResumeInventory(s, regen) = d BY <1>6 DEF ResumeInventory, StopAllROSpecs
  <2>2. Requested(d, "DELETE_ROSPEC", "resume", 0) /\ Kept(s, d) /\ d.rospec = s.rospec
    BY <1>0, SendDoes
  <2> HIDE DEF d
  <2>3. Purpose(d, "resume") BY <1>2, <2>2, KeptPredicates
  <2>4. Outstands(d, r, "DELETE_ROSPEC", "resume") BY <1>1, <2>2 DEF Kept, Outstands, Set
  <2>5. Asking(d, r, "DELETE_ROSPEC", "resume", 0) BY <2>3, <2>4 DEF Asking
  <2>. QED BY <1>0, <2>1, <2>2, <2>5, AskingProceeds
<1>7. CASE s.state = "PAUSED" /\ s.rospec # NoROSpec /\ ~ regen
  <2>1. ResumeInventory(s, regen) = e BY <1>7 DEF ResumeInventory
  <2>2. Requested(e, "ENABLE_ROSPEC", "resume", 0) /\ Kept(s, e) /\ e.rospec = s.rospec
    BY <1>0, SendDoes
  <2> HIDE DEF e
  <2>3. Purpose(e, "resume") BY <1>2, <2>2, KeptPredicates
  <2>4. Outstands(e, r, "ENABLE_ROSPEC", "resume")
    BY <1>1, <2>2 DEF Kept, Outstands, Set, Cached, Holds
  <2>5. Asking(e, r, "ENABLE_ROSPEC", "resume", 0) BY <2>3, <2>4 DEF Asking
  <2>. QED BY <1>0, <2>1, <2>2, <2>5, AskingProceeds
<1>. QED BY <1>3, <1>4, <1>5, <1>6, <1>7 DEF Settled

(* stopPolitely on behalf of setTxPower, disconnect() or apply_config. *)
LEMMA StopProceeds ==
    ASSUME NEW s, NEW r, Ready(s), NEW l \in Stops, Purpose(s, l),
           \/ l = "disconnect"
           \/ l = "txpower" /\ Set(s, r) /\ r.rospec # NoROSpec
           \/ /\ l = "apply" /\ Set(s, r) /\ Cached(s) /\ Runs(s, r)
              /\ s.transition.original = "INVENTORYING"
    PROVE  Proceeds(StopPolitely(s, l), r)
<1> DEFINE t == Send(s, "DELETE_ACCESSSPEC", l, 0)
<1>0. "DELETE_ACCESSSPEC" \in Requests /\ l \in Waiting("DELETE_ACCESSSPEC") \cap Labels /\ l \in Labels
      /\ 0 \in Nat
  BY Names
<1>1. Requested(t, "DELETE_ACCESSSPEC", l, 0) /\ Kept(s, t) /\ t.rospec = s.rospec BY <1>0, SendDoes
<1> HIDE DEF t
<1>2. Purpose(t, l) BY <1>1, KeptPredicates
<1>3. Outstands(t, r, "DELETE_ACCESSSPEC", l) BY <1>1 DEF Kept, Outstands, Set, Cached
<1>4. l = "apply" => InForce(t, r) BY <1>1 DEF Kept, InForce, Runs
<1>5. l # "applied" BY DEF Stops
<1>6. Asking(t, r, "DELETE_ACCESSSPEC", l, 0) BY <1>2, <1>3, <1>4, <1>5 DEF Asking
<1>7. Proceeds(t, r) BY <1>0, <1>1, <1>6, AskingProceeds
<1>. QED BY <1>7 DEF t, StopPolitely

LEMMA TxPowerProceeds ==
    ASSUME NEW s, NEW r, Ready(s), AtRest(s, r), s.state = "INVENTORYING", NEW x \in Nat \ {0}
    PROVE  Proceeds(SetTxPower(s, x), r)
<1> DEFINE c == [s.config EXCEPT !.rospec = x]
           t == [s EXCEPT !.config = c]
<1>0. s \in ClientT /\ s.config \in ConfigType BY DEF Ready, ClientT
<1>1. c \in ConfigType /\ c.reader = s.config.reader BY <1>0 DEF ConfigType
<1>2. [s EXCEPT !.config.rospec = x] = t BY <1>0 DEF ClientT
<1> HIDE DEF c
<1>3. Ready(t) /\ t.config = c /\ t.transition = s.transition /\ t.disconnecting = s.disconnecting
  BY <1>0, <1>1 DEF Ready, ClientT
<1> HIDE DEF t
<1>4. s.state \in Settled /\ ~ Pending(s) /\ ~ s.disconnecting /\ Set(s, r) /\ Runs(s, r)
  <2>1. s.state \in Settled BY DEF Settled
  <2>. QED BY <2>1, SettledRest
<1>5. r.rospec # NoROSpec BY <1>0, <1>4 DEF Runs, ConfigType, NoROSpec
<1>6. SetTxPower(s, x) = IF t # s THEN StopPolitely(t, "txpower") ELSE s BY <1>2 DEF SetTxPower
<1>7. "txpower" \in Stops BY DEF Stops
<1>8. Purpose(t, "txpower") /\ Set(t, r) BY <1>1, <1>3, <1>4 DEF Purpose, Pending, Set
<1>9. Proceeds(StopPolitely(t, "txpower"), r) BY <1>3, <1>5, <1>7, <1>8, StopProceeds
<1>10. Proceeds(s, r) BY DEF Ready, Proceeds
<1>. QED BY <1>6, <1>9, <1>10

LEMMA DisconnectProceeds ==
    ASSUME NEW s, NEW r, Ready(s), AtRest(s, r), s.state \in Settled
    PROVE  Proceeds(Disconnect(s), r)
<1> DEFINE t == [s EXCEPT !.disconnecting = TRUE]
<1>0. s \in ClientT /\ ~ Pending(s) BY SettledRest DEF Ready
<1>1. Ready(t) /\ t.disconnecting /\ t.transition = s.transition BY <1>0 DEF Ready, ClientT
<1>2. Disconnect(s) = StopPolitely(t, "disconnect") BY DEF Disconnect
<1> HIDE DEF t
<1>3. "disconnect" \in Stops BY DEF Stops
<1>4. Purpose(t, "disconnect") BY <1>0, <1>1 DEF Purpose, Pending
<1>. QED BY <1>1, <1>2, <1>3, <1>4, StopProceeds

LEMMA ApplyProceeds ==
    ASSUME NEW s, NEW r, Ready(s), AtRest(s, r), s.state \in Settled, NEW new \in ConfigType,
           ~ ClientOnly(s.config, new)
    PROVE  Proceeds(ApplyConfig(s, new), r)
<1> DEFINE n == [status |-> "pending", old |-> s.config, new |-> new,
                 original |-> s.state, written |-> FALSE]
           b == [s EXCEPT !.transition = n]
           c == CancelTimer(b)
           t == BeginTransition(s, new)
           d == Send(c, "DELETE_ROSPEC", "apply", 0)
<1>0. s \in ClientT /\ s.config \in ConfigType BY DEF Ready, ClientT
<1>1. ~ Pending(s) /\ ~ s.disconnecting /\ Set(s, r) /\ Cached(s) /\ Holds(s, r)
      /\ (s.state = "CONNECTED" => r.rospec = NoROSpec) /\ (s.state = "INVENTORYING" => Runs(s, r))
  BY SettledRest
<1>2. /\ s.state = "INVENTORYING" => t = StopPolitely(b, "apply")
      /\ s.state = "PAUSED" => t = d
      /\ s.state = "CONNECTED" => t = AfterStopped(b, TRUE)
  <2>1. CASE s.state = "INVENTORYING" BY <2>1 DEF BeginTransition
  <2>2. CASE s.state = "PAUSED" BY <2>2 DEF BeginTransition, StopAllROSpecs
  <2>3. CASE s.state = "CONNECTED" BY <2>3 DEF BeginTransition
  <2>. QED BY <2>1, <2>2, <2>3 DEF Settled
<1>3. ApplyConfig(s, new) = IF t.raised THEN [t EXCEPT !.transition = s.transition] ELSE t
  <2>1. s.state # "DISCONNECTED" BY StateNames
  <2>. QED BY <2>1 DEF ApplyConfig, Settled
<1>4. n \in TransitionT BY <1>0 DEF TransitionT, Statuses
<1>5. /\ n.status = "pending" /\ n.old = s.config /\ n.original = s.state /\ ~ n.written
  OBVIOUS
<1> HIDE DEF n, t
<1>6. Ready(b) /\ b.transition = n /\ b.config = s.config /\ b.rospec = s.rospec
      /\ b.disconnecting = s.disconnecting /\ b.state = s.state
  BY <1>0, <1>4 DEF Ready, ClientT
<1> HIDE DEF b
<1>7. Pending(b) /\ Old(b) /\ Purpose(b, "apply") /\ Set(b, r) /\ Cached(b)
  <2>1. Pending(b) /\ Old(b) /\ Set(b, r) /\ Cached(b)
    BY <1>1, <1>5, <1>6 DEF Pending, Old, SameSettings, Set, Cached
  <2>. QED BY <1>1, <1>5, <1>6, <2>1 DEF Purpose
<1>8. "apply" \in Stops /\ "apply" \in Labels BY Names DEF Stops
<1>9. CASE s.state = "INVENTORYING"
  <2>1. Runs(b, r) /\ b.transition.original = "INVENTORYING" BY <1>1, <1>5, <1>6, <1>9 DEF Runs
  <2>2. Proceeds(StopPolitely(b, "apply"), r) BY <1>6, <1>7, <1>8, <2>1, StopProceeds
  <2>3. Proceeds(t, r) BY <1>2, <1>9, <2>2
  <2>4. ~ t.raised BY <2>3 DEF Proceeds
  <2>. QED BY <1>3, <2>3, <2>4
<1>10. CASE s.state = "PAUSED"
  <2>1. Ready(c) /\ Kept(b, c) /\ c.rospec = b.rospec BY <1>6, CancelTimerDoes
  <2> HIDE DEF c
  <2>2. "DELETE_ROSPEC" \in Requests /\ "apply" \in Waiting("DELETE_ROSPEC") \cap Labels /\ 0 \in Nat
    BY Names DEF Stops
  <2>3. Requested(d, "DELETE_ROSPEC", "apply", 0) /\ Kept(c, d) /\ d.rospec = c.rospec
    BY <2>1, <2>2, SendDoes
  <2> HIDE DEF d
  <2>4. Kept(b, d) /\ d.rospec = b.rospec BY <2>1, <2>3 DEF Kept
  <2>5. Purpose(d, "apply") BY <1>7, <2>4, KeptPredicates
  <2>6. Outstands(d, r, "DELETE_ROSPEC", "apply") BY <1>7, <2>4 DEF Kept, Outstands, Set
  <2>7. InForce(d, r) BY <1>1, <1>5, <1>6, <1>10, <2>4 DEF Kept, InForce, Holds
  <2>8. Asking(d, r, "DELETE_ROSPEC", "apply", 0) BY <2>5, <2>6, <2>7 DEF Asking
  <2>9. Proceeds(d, r) BY <1>8, <2>2, <2>3, <2>8, AskingProceeds
  <2>10. t = d /\ ~ d.raised BY <1>2, <1>10, <2>9 DEF Proceeds
  <2>. QED BY <1>3, <2>9, <2>10
<1>11. CASE s.state = "CONNECTED"
  <2>1. t = AfterStopped(b, TRUE) BY <1>2, <1>11
  <2>2. r.config = b.transition.old.reader /\ ~ b.transition.written /\ ~ b.disconnecting
    BY <1>1, <1>5, <1>6 DEF Set
  <2>3. Result(b, t, r) /\ ~ t.raised BY <1>1, <1>6, <1>7, <1>11, <2>1, <2>2, AfterStoppedResults
  <2>4. ~ t.closed
    <3>1. b \in ClientT /\ ~ b.closed BY <1>6 DEF Ready
    <3>. QED BY <2>1, <3>1, AfterStoppedTyped DEF Keeps
  <2>5. Proceeds(t, r) BY <2>3, <2>4, ResultProceeds
  <2>. QED BY <1>3, <2>3, <2>5
<1>. QED BY <1>9, <1>10, <1>11 DEF Settled

-----------------------------------------------------------------------------
(* Steps.                                                                   *)

LEMMA SentNotSettled ==
    \A n \in Requests : /\ SentState[n] \notin Settled \cup {"DISCONNECTED"}
                        /\ SentState[n] = "SENT_ADD_ROSPEC" => n = "ADD_ROSPEC"
BY SentNames DEF Requests, Settled

LEMMA ResetDoes ==
    ASSUME NEW s \in ClientT
    PROVE  LET t == ResetSession(s) IN
           /\ t.state = "DISCONNECTED" /\ t.outstanding = Free /\ t.rospec = NoROSpec
           /\ ~ t.suppress /\ ~ t.disconnecting /\ ~ Pending(t)
           /\ t.transition.status = IF Pending(s) THEN "abandoned" ELSE s.transition.status
<1> DEFINE c == CancelTimer(s)
           n == [c.transition EXCEPT !.status = IF @ = "pending" THEN "abandoned" ELSE @]
           t == ResetSession(s)
<1>1. c \in ClientT /\ c.transition = s.transition BY CancelTimerTyped DEF Keeps
<1>2. t =
        [c EXCEPT !.state = "DISCONNECTED", !.outstanding = Free, !.rospec = NoROSpec,
                  !.added = FALSE, !.suppress = FALSE, !.applied = NoConfig,
                  !.disconnecting = FALSE, !.sent = << >>, !.raised = FALSE, !.closed = FALSE,
                  !.transition = n]
  BY <1>1 DEF ResetSession, ClientT, Free
<1>3. n.status = IF Pending(s) THEN "abandoned" ELSE s.transition.status
  <2>1. c.transition \in TransitionT BY <1>1 DEF ClientT
  <2>. QED BY <1>1, <2>1 DEF TransitionT, Pending
<1>4. n.status # "pending" BY <1>3 DEF Pending
<1> HIDE DEF c, n, t
<1>5. /\ t.state = "DISCONNECTED" /\ t.outstanding = Free /\ t.rospec = NoROSpec
      /\ ~ t.suppress /\ ~ t.disconnecting /\ t.transition = n
  <2> HIDE DEF Free
  <2>. QED BY <1>1, <1>2 DEF ClientT
<1>. QED BY <1>3, <1>4, <1>5 DEF t, Pending

(* The connection is closed. *)
LEMMA HangUpStep ==
    ASSUME NEW s \in ClientT, HangUp(s)
    PROVE  /\ Gone'
           /\ client'.transition.status = IF Pending(s) THEN "abandoned" ELSE s.transition.status
<1>1. client' = ResetSession(s) /\ toReader' = << >> /\ toClient' = << >> BY DEF HangUp
<1>. QED BY <1>1, ResetDoes DEF Gone, Free, Pending

(* A handler returned and nothing else is in flight. *)
LEMMA ReturnStep ==
    ASSUME NEW t, Proceeds(t, reader), Return(t), link, toReader = << >>, toClient' = << >>,
           reader' = reader
    PROVE  /\ Conversation'
           /\ client'.transition = t.transition /\ client'.state = t.state
           /\ client'.config = t.config
           /\ ~ Pending(t) => AtRest(t, reader) \/ t.state \notin Settled
           /\ AtRest(t, reader) => AtRest(client', reader')
<1>0. t \in ClientT BY DEF Proceeds
<1>1. /\ client' = [t EXCEPT !.sent = << >>, !.raised = FALSE]
      /\ toReader' = toReader \o t.sent /\ link'
  BY DEF Return
<1>2. /\ Kept(t, client') /\ client'.state = t.state /\ client'.rospec = t.rospec
      /\ client'.applied = t.applied /\ client'.outstanding = t.outstanding
  BY <1>0, <1>1 DEF Kept, ClientT
<1>3. AtRest(t, reader) => AtRest(client', reader') BY <1>2, RestKept
<1>4. CASE Ready(t) /\ AtRest(t, reader)
  <2>1. AtRest(client', reader') BY <1>3, <1>4
  <2>2. t.sent = << >> /\ client'.outstanding = Free BY <1>2, <1>4 DEF Ready
  <2>3. toReader' = << >> BY <1>1, <2>2
  <2>4. Resting' BY <2>1, <2>2, <2>3 DEF Resting, Free
  <2>. QED BY <1>1, <1>2, <1>3, <1>4, <2>4 DEF Conversation, Kept
<1>5. CASE AsksFor(t, reader)
  <2>1. PICK n \in Requests, l \in Labels, d \in Nat :
           Requested(t, n, l, d) /\ Asking(t, reader, n, l, d)
    BY <1>5 DEF AsksFor
  <2>2. Asking(client', reader', n, l, d) BY <1>2, <2>1, KeptPredicates
  <2>3. toReader' = << Request(n, d) >>
    <3>1. t.sent = << Request(n, d) >> BY <2>1 DEF Requested
    <3>. QED BY <1>1, <3>1
  <2>4. client'.outstanding = Only(n, l) /\ client'.state = SentState[n] BY <1>2, <2>1 DEF Requested
  <2>5. WaitsFor(n, l)' BY <2>2, <2>3, <2>4 DEF WaitsFor
  <2>6. Waits' BY <2>5 DEF Waits
  <2>7. t.state \notin Settled BY <2>1, SentNotSettled DEF Requested
  <2>. QED BY <1>1, <1>2, <1>3, <2>6, <2>7 DEF Conversation, Kept
<1>. QED BY <1>4, <1>5 DEF Proceeds

(* A client that only differs in what the conversation does not depend on. *)
Alike(s, t) ==
    /\ t.state = s.state /\ t.outstanding = s.outstanding /\ t.transition = s.transition
    /\ t.suppress = s.suppress /\ t.disconnecting = s.disconnecting /\ t.applied = s.applied
    /\ t.config.rospec = s.config.rospec /\ t.config.reader = s.config.reader
    /\ \/ t.rospec = s.rospec
       \/ s.outstanding["ADD_ROSPEC"] # Nobody /\ t.rospec = t.config.rospec

LEMMA AlikePredicates ==
    ASSUME NEW s, NEW t, Alike(s, t), NEW r, NEW n, NEW l,
           t.rospec = s.rospec \/ (n = "ADD_ROSPEC" /\ t.rospec = t.config.rospec)
    PROVE  /\ \A d : Asking(s, r, n, l, d) => Asking(t, r, n, l, d)
           /\ \A ok : Answered(s, r, n, l, ok) => Answered(t, r, n, l, ok)
<1>1. Purpose(s, l) => Purpose(t, l) BY DEF Alike, Purpose, Pending, Old, New, SameSettings
<1>2. Outstands(s, r, n, l) => Outstands(t, r, n, l)
  BY DEF Alike, Outstands, Set, Cached, Holds
<1>3. InForce(s, r) => InForce(t, r) BY DEF Alike, InForce, Runs, Holds
<1>4. ASSUME NEW d, Asking(s, r, n, l, d) PROVE Asking(t, r, n, l, d)
  BY <1>1, <1>2, <1>3, <1>4 DEF Alike, Asking, Cached
<1>5. ASSUME NEW ok, Answered(s, r, n, l, ok) PROVE Answered(t, r, n, l, ok)
  BY <1>1, <1>2, <1>3, <1>5 DEF Alike, Answered, Set, Cached, Runs
<1>. QED BY <1>4, <1>5

LEMMA AlikeStep ==
    ASSUME Conversation, Alike(client, client'), UNCHANGED << reader, toReader, toClient, link >>
    PROVE  Conversation'
<1>0. /\ client.outstanding = Free => client'.rospec = client.rospec
      /\ \A n \in Requests, l \in Labels :
           client.outstanding = Only(n, l) =>
             \/ client'.rospec = client.rospec
             \/ n = "ADD_ROSPEC" /\ client'.rospec = client'.config.rospec
  BY Names DEF Alike, Free, Only
<1>1. CASE Gone
  <2>1. client'.rospec = client.rospec BY <1>0, <1>1 DEF Gone
  <2>2. Gone' BY <1>1, <2>1 DEF Gone, Alike, Pending, Free
  <2>. QED BY <2>2 DEF Conversation
<1>2. CASE link /\ Resting
  <2>1. client'.rospec = client.rospec BY <1>0, <1>2 DEF Resting
  <2>2. AtRest(client', reader)
    BY <1>2, <2>1 DEF Resting, Alike, AtRest, Pending, Set, Cached, Runs, Holds
  <2>3. Resting' BY <1>2, <2>2 DEF Resting, Alike, Free
  <2>. QED BY <1>2, <2>3 DEF Conversation
<1>3. CASE link /\ Waits
  <2>1. PICK n \in Requests, l \in Labels : WaitsFor(n, l) BY <1>3 DEF Waits
  <2>2. client.outstanding = Only(n, l) /\ client.state = SentState[n] BY <2>1 DEF WaitsFor
  <2>3. client'.rospec = client.rospec \/ (n = "ADD_ROSPEC" /\ client'.rospec = client'.config.rospec)
    BY <1>0, <2>2
  <2>4. /\ \A d : Asking(client, reader, n, l, d) => Asking(client', reader, n, l, d)
        /\ \A ok : Answered(client, reader, n, l, ok) => Answered(client', reader, n, l, ok)
    BY <2>3, AlikePredicates
  <2>5. client'.outstanding = Only(n, l) /\ client'.state = SentState[n] BY <2>2 DEF Alike
  <2>6. WaitsFor(n, l)' BY <2>1, <2>4, <2>5 DEF WaitsFor
  <2>7. Waits' BY <2>6 DEF Waits
  <2>. QED BY <1>3, <2>7 DEF Conversation
<1>4. CASE link /\ Doomed
  <2>1. Doomed' BY <1>4 DEF Doomed, Alike
  <2>. QED BY <1>4, <2>1 DEF Conversation
<1>. QED BY <1>1, <1>2, <1>3, <1>4 DEF Conversation

(* The response to the first of two requests ends the session. *)
LEMMA DoomedRaises ==
    ASSUME TInv, Doomed, toClient # << >>
    PROVE  LET t == HandleMessage(client, Head(toClient)) IN
           t \in ClientT /\ t.raised /\ t.transition = client.transition
<1> DEFINE m == Head(toClient)
<1>0. client \in ClientT BY DEF TInv, Clean
<1>1. m.name \in Requests \ {"ADD_ROSPEC"} /\ client.state = "SENT_ADD_ROSPEC" BY DEF Doomed
<1> HIDE DEF m
<1>2. m.name # "READER_EVENT_NOTIFICATION" BY <1>1, Names
<1>3. HandleMessage(client, m) = Raise(client)
  BY <1>1, <1>2 DEF HandleMessage, HandleResponse, InSentAddRospec
<1>4. Raise(client) \in ClientT /\ Raise(client).raised /\ Raise(client).transition = client.transition
  BY <1>0 DEF Raise, ClientT
<1>. QED BY <1>3, <1>4 DEF m

LEMMA SameIsClientOnly ==
    ASSUME NEW c \in ConfigType, NEW d \in ConfigType, SameSettings(c, d)
    PROVE  ClientOnly(c, d)
<1> DEFINE e == [c EXCEPT !.client = d.client]
<1>1. e \in ConfigType /\ e.client = d.client /\ e.rospec = d.rospec /\ e.reader = d.reader
  BY DEF ConfigType, SameSettings
<1>2. e = d BY <1>1 DEF ConfigType
<1>. QED BY <1>2 DEF ClientOnly

(* Where a transition may end. *)
LEMMA RestIsConsistent ==
    ASSUME TInv', AtRest(client', reader'), client'.state \in Settled
    PROVE  /\ New(client') => Consistent(client.transition.new)'
           /\ Old(client') => Consistent(client.transition.old)'
<1>0. client' \in ClientT BY DEF TInv, Clean
<1>1. client'.config \in ConfigType /\ client'.transition.new \in ConfigType
      /\ client'.transition.old \in ConfigType
  BY <1>0 DEF ClientT, TransitionT
<1>2. Set(client', reader') /\ (client'.state = "INVENTORYING" => Runs(client', reader'))
  BY SettledRest
<1>3. ASSUME New(client') PROVE Consistent(client.transition.new)'
  <2>1. SameSettings(client'.config, client'.transition.new) BY <1>3 DEF New
  <2>2. ClientOnly(client'.config, client'.transition.new) BY <1>1, <2>1, SameIsClientOnly
  <2>. QED BY <1>2, <2>1, <2>2 DEF Consistent, Running, Set, Runs, SameSettings
<1>4. ASSUME Old(client') PROVE Consistent(client.transition.old)'
  <2>1. SameSettings(client'.config, client'.transition.old) BY <1>4 DEF Old
  <2>2. ClientOnly(client'.config, client'.transition.old) BY <1>1, <2>1, SameIsClientOnly
  <2>. QED BY <1>2, <2>1, <2>2 DEF Consistent, Running, Set, Runs, SameSettings
<1>. QED BY <1>3, <1>4

(* What a step may rely on. *)
Ended == SucceedsConsistently /\ FailsConsistently
Polite == ~ MayLose /\ "fail" \notin Outcomes => LeavesReaderClean

LEMMA ReceiveStep ==
    ASSUME CInv, TInv', Receive
    PROVE  Conversation' /\ Ended /\ Polite
<1> DEFINE m == Head(toClient)
           t == HandleMessage(client, m)
<1>0. /\ client \in ClientT /\ client.sent = << >> /\ ~ client.raised /\ ~ client.closed
      /\ reader \in ReaderT /\ toClient \in Seq(AnswerT)
  BY DEF CInv, TInv, Clean, Rest, Wires
<1>1. /\ link /\ toClient # << >> /\ reader' = reader
      /\ \/ (t.raised \/ t.closed) /\ HangUp(t)
         \/ ~ (t.raised \/ t.closed) /\ Return(t) /\ toClient' = Tail(toClient)
  BY DEF Receive
<1>2. CASE Gone
  <2>0. ~ Pending(client) /\ ~ client.disconnecting BY <1>2 DEF Gone
  <2>1. m.name = "READER_EVENT_NOTIFICATION" /\ Tail(toClient) = << >> /\ toReader = << >>
    BY <1>1, <1>2 DEF Gone
  <2>2. m \in AnswerT BY <1>0, <1>1
  <2>3. m.ok \in BOOLEAN BY <2>2 DEF AnswerT
  <2>4. t = HandleConnectionEvent(client, m.ok) BY <2>1 DEF HandleMessage
  <2>5. Ready(client) BY <1>0, <1>2 DEF Gone, Ready
  <2>6. t = client \/ AsksFor(t, reader) BY <1>2, <2>3, <2>4, <2>5, ConnectionResults DEF Gone
  <2> HIDE DEF t
  <2>7. CASE t = client
    <3>1. Return(client) /\ toClient' = << >> BY <1>0, <1>1, <2>1, <2>7
    <3>2. client' = [client EXCEPT !.sent = << >>, !.raised = FALSE] /\ toReader' = toReader \o client.sent
      BY <3>1 DEF Return
    <3>3. client' = client BY <1>0, <3>2 DEF ClientT
    <3>4. toReader' = << >> BY <1>0, <2>1, <3>2
    <3>5. Gone' BY <1>2, <3>1, <3>3, <3>4 DEF Gone, Pending, Free
    <3>. QED BY <2>0, <3>5 DEF Conversation, Ended, Polite, SucceedsConsistently, FailsConsistently,
                               LeavesReaderClean, Pending
  <2>8. CASE AsksFor(t, reader)
    <3>1. Proceeds(t, reader) BY <2>8 DEF AsksFor, Requested, Proceeds
    <3>2. Return(t) /\ toClient' = << >> BY <1>1, <2>1, <3>1 DEF Proceeds
    <3>3. Conversation' BY <1>1, <2>1, <3>1, <3>2, ReturnStep
    <3>. QED BY <2>0, <3>3 DEF Ended, Polite, SucceedsConsistently, FailsConsistently,
                               LeavesReaderClean, Pending
  <2>. QED BY <2>6, <2>7, <2>8
<1>3. CASE Resting BY <1>1, <1>3 DEF Resting
<1>4. CASE Doomed
  <2>1. t \in ClientT /\ t.raised /\ t.transition = client.transition BY <1>1, <1>4, DoomedRaises DEF CInv
  <2> HIDE DEF t
  <2>2. HangUp(t) BY <1>1, <2>1
  <2>3. Gone' /\ client'.transition.status = IF Pending(t) THEN "abandoned" ELSE t.transition.status
    BY <2>1, <2>2, HangUpStep
  <2>4. ~ client.disconnecting BY <1>4 DEF Doomed
  <2>. QED BY <2>1, <2>3, <2>4 DEF Conversation, Ended, Polite, SucceedsConsistently, FailsConsistently,
                                   LeavesReaderClean, Pending
<1>5. CASE Waits
  <2>1. PICK n \in Requests, l \in Labels : WaitsFor(n, l) BY <1>5 DEF Waits
  <2>2. toReader = << >> /\ client.outstanding = Only(n, l) /\ client.state = SentState[n]
    BY <1>1, <2>1 DEF WaitsFor
  <2>3. PICK ok \in BOOLEAN : toClient = << Answer(n, ok) >> /\ Answered(client, reader, n, l, ok)
    BY <1>1, <2>1 DEF WaitsFor
  <2>4. m = Answer(n, ok) /\ Tail(toClient) = << >> BY <2>3
  <2>5. m.name = n /\ m.ok = ok /\ n # "READER_EVENT_NOTIFICATION" BY <2>4, Names DEF Answer
  <2>6. t = HandleResponse(client, n, ok) BY <2>5 DEF HandleMessage
  <2>7. Awaits(client, n, l) BY <1>0, <2>2 DEF Awaits
  <2>8. Result(client, t, reader) BY <2>2, <2>3, <2>6, <2>7, ResponseResults
  <2>9. Polite
    <3> SUFFICES ASSUME "fail" \notin Outcomes, client.disconnecting, ~ link'
                 PROVE  reader.rospec = NoROSpec
      BY DEF Polite, LeavesReaderClean
    <3>1. l = "disconnect" BY <2>3 DEF Answered, Purpose
    <3>2. n \in {"DELETE_ACCESSSPEC", "DELETE_ROSPEC"} BY <2>3, <3>1 DEF Answered, Outstands
    <3>3. ok BY <2>3, <3>2 DEF Answered
    <3>4. CASE n = "DELETE_ROSPEC" BY <2>3, <3>3, <3>4 DEF Answered
    <3>5. CASE n = "DELETE_ACCESSSPEC"
      <4> DEFINE f == Cleared(client)
                 u == Send(f, "DELETE_ROSPEC", l, 0)
      <4>1. ProcessDeferreds(client, n, ok) = Completed(f, n, l, ok) /\ Ready(f) BY <2>7, ProcessDoes
      <4>2. t = ProcessDeferreds(client, n, ok) BY <2>2, <2>6, <3>5, SentNames DEF HandleResponse
      <4>3. Completed(f, n, l, ok) = u BY <3>3, <3>5 DEF Completed, AccessSpecsDeleted, StopAllROSpecs
      <4> HIDE DEF f
      <4>4. "DELETE_ROSPEC" \in Requests /\ l \in Waiting("DELETE_ROSPEC") \cap Labels /\ 0 \in Nat
        BY <3>1, Names DEF Stops
      <4>5. Requested(u, "DELETE_ROSPEC", l, 0) BY <4>1, <4>4, SendDoes
      <4>6. ~ t.raised /\ ~ t.closed BY <4>1, <4>2, <4>3, <4>5 DEF Requested
      <4> HIDE DEF t
      <4>. QED BY <1>1, <4>6 DEF Return
    <3>. QED BY <3>2, <3>4, <3>5
  <2> HIDE DEF t
  <2>10. CASE t.raised \/ t.closed
    <3>1. HangUp(t) /\ t \in ClientT BY <1>1, <2>8, <2>10 DEF Result, Outcome
    <3>2. Gone' /\ client'.transition.status = IF Pending(t) THEN "abandoned" ELSE t.transition.status
      BY <3>1, HangUpStep
    <3>3. client'.state = "DISCONNECTED" /\ ~ link' BY <3>1, <3>2 DEF Gone, HangUp
    <3>4. Pending(client) => client'.transition.status # "success"
      BY <2>8, <2>10, <3>2 DEF Result, Ends
    <3>. QED BY <2>9, <3>2, <3>3, <3>4 DEF Conversation, Ended, SucceedsConsistently, FailsConsistently,
                                           Pending
  <2>11. CASE ~ (t.raised \/ t.closed)
    <3>1. Return(t) /\ toClient' = << >> BY <1>1, <2>4, <2>11
    <3>2. Proceeds(t, reader) BY <2>8, <2>11, ResultProceeds
    <3>3. /\ Conversation' /\ client'.transition = t.transition /\ client'.state = t.state
          /\ client'.config = t.config
          /\ ~ Pending(t) => AtRest(t, reader) \/ t.state \notin Settled
          /\ AtRest(t, reader) => AtRest(client', reader')
      BY <1>1, <2>2, <3>1, <3>2, ReturnStep
    <3>4. ASSUME Pending(client), t.transition.status \in {"success", "failed"}
          PROVE  /\ client'.state = client.transition.original
                 /\ t.transition.status = "success" => Consistent(client.transition.new)'
                 /\ t.transition.status = "failed" => Consistent(client.transition.old)'
      <4>1. client.transition.original \in Settled BY <1>0 DEF ClientT, TransitionT
      <4>2. /\ t.state = client.transition.original
            /\ t.transition.status = "success" => New(t)
            /\ t.transition.status = "failed" => Old(t)
        BY <2>8, <2>11, <3>4 DEF Result, Ends
      <4>3. ~ Pending(t) BY <3>4 DEF Pending
      <4>4. AtRest(client', reader') /\ client'.state \in Settled BY <3>3, <4>1, <4>2, <4>3
      <4>5. /\ t.transition.status = "success" => New(client')
            /\ t.transition.status = "failed" => Old(client')
        BY <3>3, <4>2 DEF New, Old
      <4>. QED BY <3>3, <4>2, <4>4, <4>5, RestIsConsistent
    <3>5. Ended BY <3>3, <3>4 DEF Ended, SucceedsConsistently, FailsConsistently, Pending
    <3>. QED BY <2>9, <3>3, <3>5
  <2>. QED BY <2>10, <2>11
<1>. QED BY <1>1, <1>2, <1>3, <1>4, <1>5 DEF CInv, Conversation

-----------------------------------------------------------------------------
(* The application's calls.                                                 *)

LEMMA Called ==
    ASSUME CInv, Disciplined, NEW op, NEW s, Call(op, s)
    PROVE  /\ op \in Ops /\ link /\ reader' = reader /\ toClient' = toClient /\ Return(s)
           /\ client \in ClientT /\ client.sent = << >> /\ ~ client.raised /\ ~ client.closed
           /\ Resting \/ Waits \/ Doomed
           /\ ~ client.disconnecting /\ client.state \notin {"DISCONNECTED", "SENT_SET_CONFIG"}
           /\ op \in {"disconnect", "force_pause"} => client.state \in Settled
           /\ op = "txpower" => client.state = "INVENTORYING"
           /\ client.state \in Settled => Resting
           /\ Resting => Ready(client)
<1>1. /\ op \in Ops /\ link /\ reader' = reader /\ toClient' = toClient /\ Return(s) /\ Opportune(op)
  BY DEF Call
<1>2. /\ client.state \notin HandshakeStates /\ ~ client.disconnecting
      /\ op \in {"disconnect", "force_pause"} => client.state \in Settled
      /\ op = "txpower" => client.state = "INVENTORYING"
  BY <1>1 DEF Opportune, Disciplined, Settled
<1>3. client.state \notin {"DISCONNECTED", "SENT_SET_CONFIG"}
  <2>1. SentState["SET_READER_CONFIG"] = "SENT_SET_CONFIG" BY SentNames
  <2>. QED BY <1>2, <2>1 DEF HandshakeStates
<1>4. ~ Gone BY <1>3 DEF Gone
<1>5. Resting \/ Waits \/ Doomed BY <1>4 DEF CInv, Conversation
<1>6. client \in ClientT /\ client.sent = << >> /\ ~ client.raised /\ ~ client.closed
  BY DEF CInv, TInv, Clean
<1>7. ASSUME client.state \in Settled PROVE Resting
  <2>1. ~ Waits BY <1>7, SentNotSettled DEF Waits, WaitsFor
  <2>2. ~ Doomed BY <1>7 DEF Doomed, Settled
  <2>. QED BY <1>5, <2>1, <2>2
<1>8. Resting => Ready(client) BY <1>6 DEF Resting, Ready
<1>. QED BY <1>1, <1>2, <1>3, <1>5, <1>6, <1>7, <1>8

(* A call that sends from rest, and one that sends nothing. *)
LEMMA CallProceeds ==
    ASSUME CInv, Disciplined, NEW op, NEW s, Call(op, s), Resting, Proceeds(s, reader)
    PROVE  Conversation' /\ ~ Pending(client)
<1>1. link /\ reader' = reader /\ toClient' = toClient /\ Return(s) BY Called
<1>2. toReader = << >> /\ toClient' = << >> /\ ~ Pending(client) BY <1>1 DEF Resting, AtRest
<1>. QED BY <1>1, <1>2, ReturnStep

LEMMA CallAlike ==
    ASSUME CInv, NEW s \in ClientT, Return(s), reader' = reader, toClient' = toClient,
           Alike(client, s), s.sent = << >>
    PROVE  Conversation' /\ client'.transition = client.transition
<1>1. client' = [s EXCEPT !.sent = << >>, !.raised = FALSE] /\ toReader' = toReader \o s.sent
      /\ link' = link
  BY DEF Return
<1>2. toReader \in Seq(RequestT) BY DEF CInv, TInv, Wires
<1>3. toReader' = toReader BY <1>1, <1>2
<1>4. /\ client'.state = s.state /\ client'.outstanding = s.outstanding
      /\ client'.transition = s.transition /\ client'.suppress = s.suppress
      /\ client'.disconnecting = s.disconnecting /\ client'.applied = s.applied
      /\ client'.config = s.config /\ client'.rospec = s.rospec
  BY <1>1 DEF ClientT
<1>5. Alike(client, client') BY <1>4 DEF Alike
<1>6. Conversation' BY <1>1, <1>3, <1>5, AlikeStep DEF CInv
<1>. QED BY <1>4, <1>6 DEF Alike

LEMMA SameIsAlike ==
    ASSUME NEW s
    PROVE  Alike(s, s)
BY DEF Alike

(* startInventory while another request is outstanding. *)
LEMMA StartDooms ==
    ASSUME CInv, NEW n \in Requests, NEW l \in Labels, WaitsFor(n, l), n # "ADD_ROSPEC",
           ~ client.disconnecting, Return(StartInventory(client, FALSE, "user")), toClient' = toClient
    PROVE  Doomed' /\ client'.transition = client.transition
<1> DEFINE k == "ADD_ROSPEC"
           g == GetROSpec(client, FALSE)
           t == [g EXCEPT !.added = FALSE]
           x == SetState(t, SentState[k])
           q == [name |-> k, data |-> t.rospec, late |-> FALSE]
           o == [x.outstanding EXCEPT ![k] = "user"]
           s == StartInventory(client, FALSE, "user")
<1>0. client \in ClientT /\ client.sent = << >> BY DEF CInv, TInv, Clean
<1>1. client.outstanding = Only(n, l) /\ client.state = SentState[n] BY DEF WaitsFor
<1>2. client.state # "INVENTORYING" /\ client.outstanding[k] = Nobody
  BY <1>1, SentNotSettled, Names DEF Only, Settled
<1>3. g = client \/ g = [client EXCEPT !.rospec = client.config.rospec] BY DEF GetROSpec
<1>4. g \in ClientT BY <1>0, GetROSpecTyped DEF Keeps
<1>5. s = Send(t, k, "user", t.rospec) BY <1>2 DEF StartInventory
<1>6. g.outstanding = client.outstanding /\ g.transition = client.transition /\ g.sent = client.sent
      /\ g.disconnecting = client.disconnecting
  BY <1>0, <1>3 DEF ClientT
<1> HIDE DEF g
<1>7. t \in ClientT /\ t.outstanding = g.outstanding /\ t.transition = g.transition /\ t.sent = g.sent
      /\ t.disconnecting = g.disconnecting
  BY <1>4 DEF ClientT
<1> HIDE DEF t
<1>8. x = [t EXCEPT !.state = "SENT_ADD_ROSPEC"] BY SentNames DEF SetState
<1>9. x \in ClientT BY <1>7, SetStateTyped, StateNames, Names DEF Keeps
<1>10. x.state = "SENT_ADD_ROSPEC" /\ x.outstanding = t.outstanding /\ x.transition = t.transition
       /\ x.sent = t.sent /\ x.disconnecting = t.disconnecting
  BY <1>7, <1>8 DEF ClientT
<1>11. s = [x EXCEPT !.outstanding = o, !.sent = Append(x.sent, q)]
  BY <1>2, <1>5, <1>6, <1>7, <1>9 DEF Send, ClientT
<1> HIDE DEF x, s, q
<1>12. o["ADD_ROSPEC"] = "user"
  <2>1. x.outstanding \in [Requests -> Labels \cup {Nobody}] BY <1>9 DEF ClientT, Outstanding
  <2>. QED BY <2>1, Names
<1> HIDE DEF o
<1>13. s.state = "SENT_ADD_ROSPEC" /\ s.outstanding = o /\ s.transition = client.transition
       /\ s.disconnecting = client.disconnecting /\ s.sent = Append(x.sent, q)
  BY <1>6, <1>7, <1>9, <1>10, <1>11 DEF ClientT
<1>14. s.sent = << q >> BY <1>0, <1>6, <1>7, <1>10, <1>13
<1>15. s \in ClientT BY <1>0, StartInventoryTyped DEF Keeps, s, Labels
<1>16. client' = [s EXCEPT !.sent = << >>, !.raised = FALSE] /\ toReader' = toReader \o << q >>
  BY <1>14 DEF Return, s
<1>17. client'.state = s.state /\ client'.outstanding = s.outstanding /\ client'.transition = s.transition
       /\ client'.disconnecting = s.disconnecting
  BY <1>15, <1>16 DEF ClientT
<1>18. \/ toClient' # << >> /\ Head(toClient').name \in Requests \ {"ADD_ROSPEC"}
       \/ /\ toClient' = << >> /\ toReader' # << >> /\ ~ Head(toReader').late
          /\ Head(toReader').name \in Requests \ {"ADD_ROSPEC"}
  <2>1. CASE toClient = << >>
    <3>1. PICK d \in Nat : toReader = << Request(n, d) >> BY <2>1 DEF WaitsFor
    <3>2. toReader \in Seq(RequestT) /\ << q >> \in Seq(RequestT)
      <4>1. s.sent \in Seq(RequestT) BY <1>15 DEF ClientT
      <4>. QED BY <1>14, <4>1 DEF CInv, TInv, Wires
    <3>3. toReader' # << >> /\ Head(toReader') = Request(n, d)
      <4>1. Len(toReader) = 1 /\ toReader[1] = Request(n, d) /\ Len(<< q >>) = 1 BY <3>1
      <4>2. Len(toReader \o << q >>) = 2 /\ (toReader \o << q >>)[1] = toReader[1]
        BY <3>2, <4>1, ConcatProperties
      <4>. QED BY <1>16, <4>1, <4>2
    <3>4. Request(n, d).name = n /\ ~ Request(n, d).late BY DEF Request
    <3>. QED BY <2>1, <3>3, <3>4
  <2>2. CASE toClient # << >>
    <3>1. PICK ok \in BOOLEAN : toClient = << Answer(n, ok) >> BY <2>2 DEF WaitsFor
    <3>2. toClient' # << >> /\ Head(toClient') = Answer(n, ok) BY <3>1
    <3>3. Answer(n, ok).name = n BY DEF Answer
    <3>. QED BY <3>2, <3>3
  <2>. QED BY <2>1, <2>2
<1>19. "user" # Nobody BY DEF Nobody
<1>. QED BY <1>12, <1>13, <1>17, <1>18, <1>19 DEF Doomed

(* A step that ends no transition. *)
Calm == Conversation' /\ (Pending(client) => client'.transition = client.transition)

LEMMA StartStep ==
    ASSUME CInv, Disciplined, CallStart
    PROVE  Calm
<1> DEFINE s == StartInventory(client, FALSE, "user")
           g == GetROSpec(client, FALSE)
           t == [g EXCEPT !.added = FALSE]
<1>0. Call("start", s) BY DEF CallStart
<1>1. /\ link /\ reader' = reader /\ toClient' = toClient /\ Return(s)
      /\ client \in ClientT /\ client.sent = << >> /\ ~ client.raised /\ ~ client.closed
      /\ Resting \/ Waits \/ Doomed
      /\ ~ client.disconnecting /\ client.state \notin {"DISCONNECTED", "SENT_SET_CONFIG"}
      /\ client.state \in Settled => Resting
      /\ Resting => Ready(client)
  BY <1>0, Called
<1>2. CASE client.state = "INVENTORYING"
  <2>1. s = client BY <1>2 DEF StartInventory
  <2>. QED BY <1>1, <2>1, SameIsAlike, CallAlike DEF Calm
<1>3. CASE client.state # "INVENTORYING" /\ Resting
  <2>1. ~ Pending(client) /\ Set(client, reader) /\ (reader.rospec # NoROSpec \/ Cached(client))
    BY <1>1, <1>3 DEF Resting, AtRest
  <2>2. Proceeds(s, reader) BY <1>1, <1>3, <2>1, StartProceeds
  <2> HIDE DEF s
  <2>. QED BY <1>0, <1>3, <2>2, CallProceeds DEF Calm
<1>4. CASE client.outstanding["ADD_ROSPEC"] # Nobody /\ client.state # "INVENTORYING"
  <2>1. g = client \/ g = [client EXCEPT !.rospec = client.config.rospec] BY DEF GetROSpec
  <2>2. g \in ClientT BY <1>1, GetROSpecTyped DEF Keeps
  <2>3. s = Send(t, "ADD_ROSPEC", "user", t.rospec) BY <1>4 DEF StartInventory
  <2>4. Alike(client, g) /\ g.outstanding = client.outstanding /\ g.sent = << >>
    BY <1>1, <1>4, <2>1 DEF Alike, ClientT
  <2> HIDE DEF g
  <2>5. t \in ClientT /\ Alike(client, t) /\ t.outstanding = g.outstanding /\ t.sent = g.sent
    BY <2>2, <2>4 DEF Alike, ClientT
  <2> HIDE DEF t
  <2>6. s = [t EXCEPT !.raised = TRUE] BY <1>4, <2>3, <2>4, <2>5 DEF Send, Raise
  <2> HIDE DEF s
  <2>7. s \in ClientT /\ Alike(client, s) /\ s.sent = << >> BY <2>4, <2>5, <2>6 DEF Alike, ClientT
  <2>. QED BY <1>1, <2>7, CallAlike DEF Calm
<1>5. CASE Waits /\ client.outstanding["ADD_ROSPEC"] = Nobody
  <2>1. PICK n \in Requests, l \in Labels : WaitsFor(n, l) BY <1>5 DEF Waits
  <2>2. client.outstanding = Only(n, l) BY <2>1 DEF WaitsFor
  <2>3. n # "ADD_ROSPEC" BY <1>5, <2>2, Names DEF Only
  <2>4. Doomed' /\ client'.transition = client.transition BY <1>1, <2>1, <2>3, StartDooms
  <2>. QED BY <1>1, <2>4 DEF Conversation, Calm, Return
<1>6. Doomed => client.outstanding["ADD_ROSPEC"] # Nobody BY DEF Doomed
<1>. QED BY <1>1, <1>2, <1>3, <1>4, <1>5, <1>6

LEMMA PauseStep ==
    ASSUME CInv, Disciplined, CallPause
    PROVE  Calm
<1>0. PICK op \in {"pause", "force_pause"}, how \in {"pause", "timed", "timed_regen"} :
         Call(op, Pause(client, how, op = "force_pause", how = "timed_regen"))
  BY DEF CallPause
<1> DEFINE regen == how = "timed_regen"
           s == Pause(client, how, op = "force_pause", regen)
           u == Send(GetROSpec(CancelTimer(client), regen), "DISABLE_ROSPEC", how, 0)
<1>1. /\ link /\ reader' = reader /\ toClient' = toClient /\ Return(s)
      /\ client \in ClientT /\ client.sent = << >>
      /\ op \in {"disconnect", "force_pause"} => client.state \in Settled
      /\ client.state \in Settled => Resting
      /\ Resting => Ready(client)
  BY <1>0, Called
<1>2. CASE client.state # "INVENTORYING" /\ op # "force_pause"
  <2>1. s = client BY <1>2 DEF Pause
  <2>. QED BY <1>1, <2>1, SameIsAlike, CallAlike DEF Calm
<1>3. CASE client.state = "INVENTORYING" \/ op = "force_pause"
  <2>1. s = u BY <1>3 DEF Pause
  <2>2. client.state \in Settled BY <1>1, <1>3 DEF Settled
  <2>3. Ready(client) /\ AtRest(client, reader) BY <1>1, <2>2 DEF Resting
  <2>4. Proceeds(u, reader)
    <3>1. regen \in BOOLEAN OBVIOUS
    <3> HIDE DEF regen
    <3>. QED BY <2>2, <2>3, <3>1, PauseProceeds
  <2>5. Call(op, s) BY <1>0
  <2>6. Proceeds(s, reader) BY <2>1, <2>4
  <2> HIDE DEF s, u
  <2>. QED BY <1>1, <2>2, <2>5, <2>6, CallProceeds DEF Calm
<1>. QED BY <1>2, <1>3

LEMMA ResumeStep ==
    ASSUME CInv, Disciplined, CallResume
    PROVE  Calm
<1>0. PICK regen \in BOOLEAN : Call("resume", Resume(client, regen)) BY DEF CallResume
<1> DEFINE t == CancelTimer(client)
           s == ResumeInventory(t, regen)
<1>1. /\ link /\ reader' = reader /\ toClient' = toClient /\ Return(s)
      /\ client \in ClientT /\ client.sent = << >> /\ client.state # "DISCONNECTED"
      /\ client.state \in Settled => Resting
      /\ Resting => Ready(client)
  BY <1>0, Called DEF Resume
<1>2. CASE client.state \in Settled
  <2>1. Ready(client) /\ AtRest(client, reader) BY <1>1, <1>2 DEF Resting
  <2>2. Ready(t) /\ Kept(client, t) /\ t.state = client.state /\ t.rospec = client.rospec
        /\ t.applied = client.applied
    BY <2>1, CancelTimerDoes
  <2> HIDE DEF t
  <2>3. AtRest(t, reader) BY <2>1, <2>2, RestKept
  <2>4. Proceeds(s, reader) BY <1>2, <2>2, <2>3, ResumeProceeds
  <2>5. Call("resume", s) BY <1>0 DEF Resume, t
  <2> HIDE DEF s
  <2>. QED BY <1>1, <1>2, <2>4, <2>5, CallProceeds DEF Calm
<1>3. CASE client.state \notin Settled
  <2>1. t \in ClientT BY <1>1, CancelTimerTyped DEF Keeps
  <2>2. t = [client EXCEPT !.timer = "off", !.generation = client.generation + 1]
    BY <1>1 DEF CancelTimer, ClientT
  <2> HIDE DEF t
  <2>3. Alike(client, t) /\ t.sent = << >> /\ t.state = client.state BY <1>1, <2>2 DEF Alike, ClientT
  <2>4. s = t BY <1>1, <1>3, <2>3 DEF ResumeInventory, Settled
  <2>. QED BY <1>1, <2>1, <2>3, <2>4, CallAlike DEF Calm
<1>. QED BY <1>2, <1>3

LEMMA TxPowerStep ==
    ASSUME CInv, Disciplined, CallSetTxPower
    PROVE  Calm
<1>0. PICK c \in Configs, op \in {"txpower", "txpower_any"} : Call(op, SetTxPower(client, c.rospec))
  BY DEF CallSetTxPower
<1> DEFINE s == SetTxPower(client, c.rospec)
<1>1. /\ op \in Ops /\ (op = "txpower" => client.state = "INVENTORYING")
      /\ client.state \in Settled => Resting
      /\ Resting => Ready(client)
  BY <1>0, Called
<1>2. client.state = "INVENTORYING" BY <1>1 DEF Disciplined
<1>3. Resting /\ Ready(client) /\ AtRest(client, reader) BY <1>1, <1>2 DEF Settled, Resting
<1>4. c.rospec \in Nat \ {0} BY ConfigAssumption DEF ConfigType
<1>5. Proceeds(s, reader) BY <1>2, <1>3, <1>4, TxPowerProceeds
<1>6. Call(op, s) BY <1>0
<1> HIDE DEF s
<1>. QED BY <1>3, <1>5, <1>6, CallProceeds DEF Calm

LEMMA ApplyStep ==
    ASSUME CInv, Disciplined, CallApplyConfig
    PROVE  Calm
<1>0. PICK c \in Configs : Call("apply", ApplyConfig(client, c)) BY DEF CallApplyConfig
<1> DEFINE s == ApplyConfig(client, c)
<1>1. /\ link /\ reader' = reader /\ toClient' = toClient /\ Return(s)
      /\ client \in ClientT /\ client.sent = << >> /\ client.state # "DISCONNECTED"
      /\ client.state \in Settled => Resting
      /\ Resting => Ready(client)
  BY <1>0, Called
<1>2. c \in ConfigType BY ConfigAssumption
<1>3. CASE ClientOnly(client.config, c)
  <2>1. s = [client EXCEPT !.config = c] BY <1>1, <1>3 DEF ApplyConfig
  <2>2. c.rospec = client.config.rospec /\ c.reader = client.config.reader
    <3>1. client.config \in ConfigType BY <1>1 DEF ClientT
    <3>. QED BY <1>2, <1>3, <3>1 DEF ClientOnly, ConfigType
  <2>3. s \in ClientT /\ Alike(client, s) /\ s.sent = << >> BY <1>1, <1>2, <2>1, <2>2 DEF Alike, ClientT
  <2> HIDE DEF s
  <2>. QED BY <1>1, <2>3, CallAlike DEF Calm
<1>4. CASE ~ ClientOnly(client.config, c) /\ client.state \in Settled
  <2>1. Ready(client) /\ AtRest(client, reader) BY <1>1, <1>4 DEF Resting
  <2>2. Proceeds(s, reader) BY <1>2, <1>4, <2>1, ApplyProceeds
  <2>3. Call("apply", s) BY <1>0
  <2> HIDE DEF s
  <2>. QED BY <1>1, <1>4, <2>2, <2>3, CallProceeds DEF Calm
<1>5. CASE ~ ClientOnly(client.config, c) /\ client.state \notin Settled
  <2>1. s = client BY <1>1, <1>5 DEF ApplyConfig, Settled
  <2>. QED BY <1>1, <2>1, SameIsAlike, CallAlike DEF Calm
<1>. QED BY <1>3, <1>4, <1>5

LEMMA DisconnectStep ==
    ASSUME CInv, Disciplined, CallDisconnect
    PROVE  Calm
<1> DEFINE s == Disconnect(client)
<1>0. Call("disconnect", s) BY DEF CallDisconnect
<1>1. client.state \in Settled /\ Resting /\ Ready(client) BY <1>0, Called
<1>2. AtRest(client, reader) BY <1>1 DEF Resting
<1>3. Proceeds(s, reader) BY <1>1, <1>2, DisconnectProceeds
<1> HIDE DEF s
<1>. QED BY <1>0, <1>1, <1>3, CallProceeds DEF Calm

-----------------------------------------------------------------------------
(* The timer, the connection and the reader.                                *)

LEMMA TimerStep ==
    ASSUME CInv, TimerElapses
    PROVE  Calm
<1>0. client \in ClientT BY DEF CInv, TInv, Clean
<1>1. client' = [client EXCEPT !.timer = "off"] /\ UNCHANGED << reader, toReader, toClient, link >>
  BY DEF TimerElapses
<1>2. Alike(client, client') BY <1>0, <1>1 DEF Alike, ClientT
<1>. QED BY <1>1, <1>2, AlikeStep DEF CInv, Calm, Alike

LEMMA TimedResumeStep ==
    ASSUME CInv, TimedResume
    PROVE  Calm
<1>0. /\ client \in ClientT /\ client.sent = << >> /\ ~ client.raised /\ ~ client.closed
      /\ resuming \subseteq [regen : BOOLEAN, generation : Nat]
  BY DEF CInv, TInv, Clean, Rest
<1>1. PICK x \in resuming :
         /\ Return(IF client.state = "PAUSED" THEN ResumeInventory(client, x.regen) ELSE client)
         /\ reader' = reader /\ toClient' = toClient
  BY DEF TimedResume
<1>2. CASE client.state # "PAUSED"
  <2>1. Return(client) BY <1>1, <1>2
  <2>. QED BY <1>0, <1>1, <2>1, SameIsAlike, CallAlike DEF Calm
<1>3. CASE client.state = "PAUSED"
  <2> DEFINE s == ResumeInventory(client, x.regen)
  <2>1. link /\ Resting
    <3>1. client.state \in Settled BY <1>3 DEF Settled
    <3>2. ~ Waits BY <3>1, SentNotSettled DEF Waits, WaitsFor
    <3>3. ~ Gone /\ ~ Doomed BY <1>3 DEF Gone, Doomed
    <3>. QED BY <3>2, <3>3 DEF CInv, Conversation
  <2>2. Ready(client) /\ AtRest(client, reader) /\ toReader = << >> /\ toClient' = << >>
    BY <1>0, <1>1, <2>1 DEF Resting, Ready
  <2>3. x.regen \in BOOLEAN BY <1>0
  <2>4. Proceeds(s, reader) BY <1>3, <2>2, <2>3, ResumeProceeds DEF Settled
  <2>5. Return(s) BY <1>1, <1>3
  <2> HIDE DEF s
  <2>6. Conversation' BY <1>1, <2>1, <2>2, <2>4, <2>5, ReturnStep
  <2>. QED BY <2>2, <2>6 DEF Calm, AtRest
<1>. QED BY <1>2, <1>3

LEMMA ConnectStep ==
    ASSUME CInv, Connect
    PROVE  Calm
<1>0. client \in ClientT BY DEF CInv, TInv, Clean
<1>1. client' = ResetSession(client) /\ toReader' = toReader /\ ~ link BY DEF Connect
<1>2. Gone BY <1>1 DEF CInv, Conversation
<1>3. PICK ok \in {TRUE} \cup {o # "fail" : o \in Outcomes} :
         toClient' = << [name |-> "READER_EVENT_NOTIFICATION", ok |-> ok] >>
  BY DEF Connect
<1>4. Head(toClient').name = "READER_EVENT_NOTIFICATION" /\ Tail(toClient') = << >> BY <1>3
<1>5. Gone' BY <1>0, <1>1, <1>2, <1>4, ResetDoes DEF Gone, Free, Pending
<1>. QED BY <1>2, <1>5 DEF Conversation, Calm, Gone

LEMMA LoseStep ==
    ASSUME CInv, LoseConnection
    PROVE  Conversation' /\ Ended /\ Polite
<1> DEFINE s == SetState(client, "DISCONNECTED")
<1>0. client \in ClientT BY DEF CInv, TInv, Clean
<1>1. s \in ClientT /\ s.transition = client.transition BY <1>0, SetStateTyped, StateNames DEF Keeps
<1>2. HangUp(s) /\ MayLose BY DEF LoseConnection
<1> HIDE DEF s
<1>3. Gone' /\ client'.transition.status = IF Pending(s) THEN "abandoned" ELSE s.transition.status
  BY <1>1, <1>2, HangUpStep
<1>. QED BY <1>1, <1>2, <1>3 DEF Conversation, Ended, Polite, SucceedsConsistently, FailsConsistently, Pending

LEMMA ReaderStep ==
    ASSUME CInv, Disciplined, NEW outcome \in Outcomes, ReaderHandles(outcome)
    PROVE  Calm
<1> DEFINE m == Head(toReader)
           ok == outcome # "fail" /\ Acceptable(m)
<1>0. toReader \in Seq(RequestT) /\ toClient \in Seq(AnswerT) /\ reader \in ReaderT
  BY DEF CInv, TInv, Wires, Rest
<1>1. /\ link /\ toReader # << >> /\ toReader' = Tail(toReader) /\ client' = client /\ link' = link
      /\ reader' = IF ok THEN Obey(m) ELSE reader
      /\ toClient' = IF m.late THEN toClient ELSE Append(toClient, [name |-> m.name, ok |-> ok])
  BY DEF ReaderHandles, Disciplined
<1>2. ~ Gone /\ ~ Resting BY <1>1 DEF Gone, Resting
<1>3. CASE Doomed
  <2>1. CASE toClient # << >>
    <3>1. toClient' # << >> /\ Head(toClient') = Head(toClient)
      <4>1. CASE toClient' = toClient BY <2>1, <4>1
      <4>2. CASE m.late = FALSE
        <5> DEFINE a == [name |-> m.name, ok |-> ok]
        <5>1. toClient' = Append(toClient, a) BY <1>1, <4>2
        <5> HIDE DEF a
        <5>. QED BY <1>0, <2>1, <5>1
      <4>3. m \in RequestT BY <1>0, <1>1
      <4>4. m.late \in BOOLEAN BY <4>3 DEF RequestT
      <4>. QED BY <1>1, <4>1, <4>2, <4>4
    <3>2. Doomed' BY <1>1, <1>3, <2>1, <3>1 DEF Doomed
    <3>. QED BY <1>1, <3>2 DEF Conversation, Calm
  <2>2. CASE toClient = << >>
    <3> DEFINE a == [name |-> m.name, ok |-> ok]
    <3>1. m.name \in Requests \ {"ADD_ROSPEC"} /\ ~ m.late BY <1>3, <2>2 DEF Doomed
    <3>2. toClient' = Append(toClient, a) BY <1>1, <3>1
    <3>3. a.name = m.name OBVIOUS
    <3> HIDE DEF a
    <3>4. toClient' = << a >> BY <2>2, <3>2
    <3>5. toClient' # << >> /\ Head(toClient').name \in Requests \ {"ADD_ROSPEC"} BY <3>1, <3>3, <3>4
    <3>6. Doomed' BY <1>1, <1>3, <3>5 DEF Doomed
    <3>. QED BY <1>1, <3>6 DEF Conversation, Calm
  <2>. QED BY <2>1, <2>2
<1>4. CASE Waits
  <2>1. PICK n \in Requests, l \in Labels : WaitsFor(n, l) BY <1>4 DEF Waits
  <2>2. PICK d \in Nat : toReader = << Request(n, d) >> /\ Asking(client, reader, n, l, d)
    BY <1>1, <2>1 DEF WaitsFor
  <2>3. toClient = << >> BY <1>1, <2>1 DEF WaitsFor
  <2>4. m = Request(n, d) /\ toReader' = << >> BY <1>1, <2>2
  <2>5. m.name = n /\ m.data = d /\ ~ m.late BY <2>4 DEF Request
  <2> HIDE DEF m
  <2>6. Acceptable(m) \in BOOLEAN /\ (n = "ADD_ROSPEC" => Acceptable(m) = (reader.rospec = NoROSpec))
        /\ (n \in {"ENABLE_ROSPEC", "DISABLE_ROSPEC"} => Acceptable(m) = (reader.rospec # NoROSpec))
        /\ (n \in {"DELETE_ACCESSSPEC", "DELETE_ROSPEC"} => Acceptable(m))
    <3>1. CASE n = "ADD_ROSPEC" BY <2>5, <3>1 DEF Acceptable
    <3>2. CASE n \in {"ENABLE_ROSPEC", "DISABLE_ROSPEC"} BY <2>5, <3>2 DEF Acceptable
    <3>3. CASE n \notin {"ADD_ROSPEC", "ENABLE_ROSPEC", "DISABLE_ROSPEC"} BY <2>5, <3>3 DEF Acceptable
    <3>. QED BY <3>1, <3>2, <3>3
  <2>7. /\ ok \in BOOLEAN
        /\ n = "ADD_ROSPEC" /\ ok => reader.rospec = NoROSpec
        /\ n = "ENABLE_ROSPEC" /\ ok => reader.rospec # NoROSpec
        /\ n \in {"DELETE_ACCESSSPEC", "DELETE_ROSPEC"} /\ "fail" \notin Outcomes => ok
    BY <2>6
  <2> HIDE DEF ok
  <2>8. toClient' = << Answer(n, ok) >> BY <1>1, <2>3, <2>5 DEF Answer
  <2>9. /\ reader'.config = IF ok /\ n = "SET_READER_CONFIG" THEN d ELSE reader.config
        /\ reader'.rospec = IF ok /\ n = "ADD_ROSPEC" THEN d
                            ELSE IF ok /\ n = "DELETE_ROSPEC" THEN NoROSpec ELSE reader.rospec
        /\ n = "ENABLE_ROSPEC" /\ ok => reader'.enabled
        /\ (n = "DELETE_ACCESSSPEC" \/ ~ ok) => reader' = reader
    <3>1. CASE ~ ok BY <1>1, <3>1
    <3>2. CASE ok
      <4>1. reader' = Obey(m) BY <1>1, <3>2
      <4>2. CASE n = "ADD_ROSPEC" BY <1>0, <2>5, <3>2, <4>1, <4>2 DEF Obey, ReaderT
      <4>3. CASE n = "DELETE_ROSPEC" BY <1>0, <2>5, <3>2, <4>1, <4>3 DEF Obey, ReaderT
      <4>4. CASE n = "ENABLE_ROSPEC" BY <1>0, <2>5, <3>2, <4>1, <4>4 DEF Obey, ReaderT
      <4>5. CASE n = "DISABLE_ROSPEC" BY <1>0, <2>5, <3>2, <4>1, <4>5 DEF Obey, ReaderT
      <4>6. CASE n = "SET_READER_CONFIG" BY <1>0, <2>5, <3>2, <4>1, <4>6 DEF Obey, ReaderT
      <4>7. CASE n \notin {"ADD_ROSPEC", "DELETE_ROSPEC", "ENABLE_ROSPEC", "DISABLE_ROSPEC",
                           "SET_READER_CONFIG"}
        BY <2>5, <3>2, <4>1, <4>7 DEF Obey
      <4>. QED BY <4>2, <4>3, <4>4, <4>5, <4>6, <4>7
    <3>. QED BY <2>7, <3>1, <3>2
  <2>10. Answered(client, reader', n, l, ok)
    <3>1. Purpose(client, l) /\ Outstands(client, reader, n, l) BY <2>2 DEF Asking
    <3>2. Outstands(client, reader', n, l) BY <2>9, <3>1 DEF Outstands, Set, Holds
    <3>3. n = "SET_READER_CONFIG" /\ ok => Set(client, reader') BY <2>2, <2>9 DEF Asking, Set
    <3>4. l = "applied" /\ ~ ok => reader'.config = client.transition.old.reader
      BY <2>2, <2>9 DEF Asking
    <3>5. n = "DELETE_ROSPEC" /\ ok => reader'.rospec = NoROSpec BY <2>9
    <3>6. l = "apply" /\ ~ (n = "DELETE_ROSPEC" /\ ok) => InForce(client, reader')
      <4>1. l = "apply" => n \in {"DELETE_ACCESSSPEC", "DELETE_ROSPEC"} BY <3>1 DEF Outstands
      <4>2. l = "apply" => InForce(client, reader) BY <2>2 DEF Asking
      <4>. QED BY <2>9, <4>1, <4>2
    <3>7. n = "ADD_ROSPEC" /\ ok => reader'.rospec = client.config.rospec /\ Cached(client)
      BY <2>2, <2>7, <2>9 DEF Asking
    <3>8. n = "ENABLE_ROSPEC" /\ ok => Runs(client, reader')
      <4>1. n = "ENABLE_ROSPEC" => Holds(client, reader) BY <3>1 DEF Outstands
      <4>. QED BY <2>7, <2>9, <4>1 DEF Holds, Runs
    <3>. QED BY <2>7, <3>1, <3>2, <3>3, <3>4, <3>5, <3>6, <3>7, <3>8 DEF Answered
  <2>11. client'.outstanding = Only(n, l) /\ client'.state = SentState[n] BY <1>1, <2>1 DEF WaitsFor
  <2>12. WaitsFor(n, l)' BY <1>1, <2>4, <2>7, <2>8, <2>10, <2>11 DEF WaitsFor
  <2>13. Waits' BY <2>12 DEF Waits
  <2>. QED BY <1>1, <2>13 DEF Conversation, Calm
<1>. QED BY <1>2, <1>3, <1>4 DEF CInv, Conversation

-----------------------------------------------------------------------------
(* The theorems.                                                            *)

LEMMA InitCInv == Init => CInv
<1> SUFFICES ASSUME Init PROVE CInv OBVIOUS
<1>1. TInv BY InitTInv
<1>2. Gone BY DEF Init, Gone, Free, Pending, NoTransition
<1>. QED BY <1>1, <1>2 DEF CInv, Conversation

LEMMA CInvStep ==
    ASSUME Disciplined, CInv, [Next]_vars
    PROVE  CInv' /\ Ended /\ Polite
<1>0. TInv' BY TInvStep DEF CInv
<1> SUFFICES Conversation' /\ Ended /\ Polite BY <1>0 DEF CInv
<1>1. ASSUME Calm, link' = link \/ ~ link PROVE Conversation' /\ Ended /\ Polite
  BY <1>1 DEF Calm, Ended, Polite, SucceedsConsistently, FailsConsistently, LeavesReaderClean, Pending
<1>2. ASSUME NEW op, NEW s, Call(op, s) PROVE link' = link BY <1>2 DEF Call, Return
<1>3. CASE Connect BY <1>1, <1>3, ConnectStep DEF Connect
<1>4. CASE Receive BY <1>0, <1>4, ReceiveStep
<1>5. CASE \E n \in Requests : RequestTimeout(n) BY <1>5 DEF RequestTimeout, Disciplined
<1>6. CASE LoseConnection BY <1>6, LoseStep
<1>7. CASE CallStart BY <1>1, <1>2, <1>7, StartStep DEF CallStart
<1>8. CASE CallPause BY <1>1, <1>2, <1>8, PauseStep DEF CallPause
<1>9. CASE CallResume BY <1>1, <1>2, <1>9, ResumeStep DEF CallResume
<1>10. CASE CallSetTxPower BY <1>1, <1>2, <1>10, TxPowerStep DEF CallSetTxPower
<1>11. CASE CallApplyConfig BY <1>1, <1>2, <1>11, ApplyStep DEF CallApplyConfig
<1>12. CASE CallDisconnect BY <1>1, <1>2, <1>12, DisconnectStep DEF CallDisconnect
<1>13. CASE TimerElapses BY <1>1, <1>13, TimerStep DEF TimerElapses
<1>14. CASE TimedResume BY <1>1, <1>14, TimedResumeStep DEF TimedResume, Return
<1>15. CASE \E outcome \in Outcomes : ReaderHandles(outcome)
  BY <1>1, <1>15, ReaderStep DEF ReaderHandles
<1>16. CASE UNCHANGED vars
  <2>1. UNCHANGED << client, reader, toReader, toClient, link >> BY <1>16 DEF vars
  <2>2. Conversation' BY <2>1, SameIsAlike, AlikeStep DEF CInv
  <2>. QED BY <1>1, <2>1, <2>2 DEF Calm
<1>. QED BY <1>3, <1>4, <1>5, <1>6, <1>7, <1>8, <1>9, <1>10, <1>11, <1>12, <1>13, <1>14, <1>15, <1>16
         DEF Next

LEMMA Conversing ==
    ASSUME Disciplined
    PROVE  Spec => []CInv
<1>1. CInv /\ [Next]_vars => CInv' BY CInvStep
<1>. QED BY <1>1, InitCInv, PTL DEF Spec

(***************************************************************************)
(* AppliedReal: with a disciplined application and a reader that answers   *)
(* every request, get_config_state() never calls "applied" a configuration *)
(* that the reader is not running while the client is inventorying,        *)
(* whatever the configurations, whatever the reader rejects, and however   *)
(* starts, pauses, timed resumes, power changes, apply_config transactions *)
(* and lost connections follow each other.                                 *)
(***************************************************************************)
THEOREM AppliedReal ==
    ASSUME Disciplined
    PROVE  Spec => []AppliedIsReal
<1>1. ASSUME CInv PROVE AppliedIsReal
  <2> SUFFICES ASSUME client.state = "INVENTORYING" PROVE Running(client.applied)
    BY DEF AppliedIsReal
  <2>1. ~ Waits BY SentNotSettled DEF Waits, WaitsFor, Settled
  <2>2. ~ Gone /\ ~ Doomed BY DEF Gone, Doomed
  <2>3. Resting BY <1>1, <2>1, <2>2 DEF CInv, Conversation
  <2>4. Runs(client, reader) /\ client.applied.rospec = client.config.rospec
    BY <2>3 DEF Resting, AtRest
  <2>. QED BY <2>4 DEF Runs, Running
<1>2. Spec => []CInv BY Conversing
<1>. QED BY <1>1, <1>2, PTL

(***************************************************************************)
(* SucceedsApplied: under the same hypotheses apply_config reports success *)
(* only when the client is back in the state it was called in, its         *)
(* configuration is the new one, the reader has acknowledged its reader    *)
(* configuration, and an inventory that goes on runs the new ROSpec.       *)
(***************************************************************************)
THEOREM SucceedsApplied ==
    ASSUME Disciplined
    PROVE  Spec => SuccessIsApplied
<1>1. CInv /\ [Next]_vars => [SucceedsConsistently]_vars BY CInvStep DEF Ended
<1>2. Spec => []CInv BY Conversing
<1>. QED BY <1>1, <1>2, PTL DEF Spec, SuccessIsApplied

(***************************************************************************)
(* FailsRolledBack: under the same hypotheses apply_config reports failure *)
(* only with the old configuration in force on both sides, in the state it *)
(* was called in, or with the connection closed: no rejected request at    *)
(* any point of the transaction or of its rollback leaves a mixture.       *)
(***************************************************************************)
THEOREM FailsRolledBack ==
    ASSUME Disciplined
    PROVE  Spec => FailureRollsBack
<1>1. CInv /\ [Next]_vars => [FailsConsistently]_vars BY CInvStep DEF Ended
<1>2. Spec => []CInv BY Conversing
<1>. QED BY <1>1, <1>2, PTL DEF Spec, FailureRollsBack

(***************************************************************************)
(* DisconnectsCleanly: under the same hypotheses, on a connection that     *)
(* does not break and with a reader that rejects only what it cannot do,   *)
(* disconnect() closes the connection only once the reader holds no        *)
(* ROSpec, whichever settled state it is called in.                        *)
(***************************************************************************)
THEOREM DisconnectsCleanly ==
    ASSUME Disciplined, ~ MayLose, "fail" \notin Outcomes
    PROVE  Spec => CleanDisconnect
<1>1. CInv /\ [Next]_vars => [LeavesReaderClean]_vars BY CInvStep DEF Polite
<1>2. Spec => []CInv BY Conversing
<1>. QED BY <1>1, <1>2, PTL DEF Spec, CleanDisconnect
=============================================================================
