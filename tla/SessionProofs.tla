--------------------------- MODULE SessionProofs ----------------------------
(***************************************************************************)
(* Theorems about Session, for any configurations, options, numbers of     *)
(* calls and sessions, with an application that may call at any time and   *)
(* a reader that may do anything.                                          *)
(***************************************************************************)
EXTENDS Session, SequenceTheorems, TLAPS

(* The callbacks that may wait for each response: Stopped and              *)
(* ReaderConfigSet know no others.                                         *)
Stops   == {"connect", "txpower", "resume", "disconnect", "apply", "cleanup"}
Writes  == {"setup", "applied", "undo"}
Waiting(n) ==
    {Nobody} \cup
    (CASE n \in {"DELETE_ACCESSSPEC", "DELETE_ROSPEC"} -> Stops
       [] n = "SET_READER_CONFIG" -> Writes
       [] OTHER -> Labels)

Settled  == {"CONNECTED", "INVENTORYING", "PAUSED"}
Statuses == {"none", "pending", "success", "failed", "abandoned"}
Timers   == {"off", "plain", "regen"}
Snapshot == ConfigType \cup {NoConfig}

TransitionT == [status : Statuses, old : ConfigType, new : ConfigType,
                original : Settled, written : BOOLEAN]
RequestT == [name : Requests, data : Nat, late : BOOLEAN]
AnswerT  == [name : Requests \cup {"READER_EVENT_NOTIFICATION"}, ok : BOOLEAN]
ReaderT  == [rospec : Nat, enabled : BOOLEAN, config : Nat]

Outstanding == {o \in [Requests -> Labels \cup {Nobody}] : \A n \in Requests : o[n] \in Waiting(n)}

ClientT ==
    [state : States, outstanding : Outstanding, config : ConfigType, rospec : Nat,
     applied : Snapshot, added : BOOLEAN, suppress : BOOLEAN, disconnecting : BOOLEAN,
     timer : Timers, generation : Nat, transition : TransitionT, sent : Seq(RequestT),
     raised : BOOLEAN, closed : BOOLEAN]

(* A handler that leaves the decision to close to others. *)
Keeps(s, t) == t \in ClientT /\ t.closed = s.closed

-----------------------------------------------------------------------------
(* Every method of LLRPClient takes a client to a client.                   *)

LEMMA StateNames ==
    /\ \A n \in Requests : SentState[n] \in States
    /\ Settled \subseteq States /\ "DISCONNECTED" \in States
    /\ "DISCONNECTED" \notin Settled
    /\ "SENT_SET_CONFIG" \in States /\ "SENT_GET_CONFIG" \in States
<1>1. SentState["SET_READER_CONFIG"] = "SENT_SET_CONFIG"
      /\ SentState["GET_READER_CONFIG"] = "SENT_GET_CONFIG"
      /\ "SET_READER_CONFIG" \in Requests /\ "GET_READER_CONFIG" \in Requests
  BY DEF SentState, Requests
<1>2. \A n \in Requests : SentState[n] \in States BY DEF States
<1>. QED BY <1>1, <1>2 DEF States, Settled

LEMMA SetStateTyped ==
    ASSUME NEW s \in ClientT, NEW state \in States
    PROVE  Keeps(s, SetState(s, state)) /\ SetState(s, state).state = state
           /\ SetState(s, state).transition = s.transition
           /\ SetState(s, state).config = s.config
           /\ SetState(s, state).outstanding = s.outstanding
           /\ SetState(s, state).sent = s.sent
<1>1. s.config \in Snapshot /\ NoConfig \in Snapshot BY DEF ClientT, Snapshot
<1>2. s.generation + 1 \in Nat /\ "off" \in Timers BY DEF ClientT, Timers
<1>3. CASE state = "DISCONNECTED"
  <2>1. SetState(s, state) =
          [s EXCEPT !.state = state, !.timer = "off", !.generation = s.generation + 1, !.applied = NoConfig]
    BY <1>3 DEF SetState, CancelTimer, ClientT
  <2>. QED BY <1>1, <1>2, <2>1 DEF Keeps, ClientT
<1>4. CASE state = "INVENTORYING"
  <2>1. SetState(s, state) = [s EXCEPT !.state = state, !.applied = s.config]
    BY <1>4 DEF SetState, ClientT
  <2>. QED BY <1>1, <2>1 DEF Keeps, ClientT
<1>5. CASE state \notin {"DISCONNECTED", "INVENTORYING"}
  <2>1. SetState(s, state) = [s EXCEPT !.state = state] BY <1>5 DEF SetState
  <2>. QED BY <2>1 DEF Keeps, ClientT
<1>. QED BY <1>3, <1>4, <1>5

LEMMA CancelTimerTyped ==
    ASSUME NEW s \in ClientT
    PROVE  Keeps(s, CancelTimer(s)) /\ CancelTimer(s).transition = s.transition
           /\ CancelTimer(s).state = s.state
<1>1. s.generation + 1 \in Nat /\ "off" \in Timers BY DEF ClientT, Timers
<1>. QED BY <1>1 DEF CancelTimer, Keeps, ClientT

LEMMA RaiseTyped ==
    ASSUME NEW s \in ClientT
    PROVE  Keeps(s, Raise(s))
BY DEF Raise, Keeps, ClientT

LEMMA SendTyped ==
    ASSUME NEW s \in ClientT, NEW name \in Requests, NEW label \in Waiting(name) \cap Labels,
           NEW data \in Nat
    PROVE  Keeps(s, Send(s, name, label, data))
<1>1. CASE s.outstanding[name] # Nobody BY <1>1, RaiseTyped DEF Send
<1>2. CASE s.outstanding[name] = Nobody
  <2> DEFINE t == SetState(s, SentState[name])
             m == [name |-> name, data |-> data, late |-> FALSE]
             o == [t.outstanding EXCEPT ![name] = label]
             q == Append(t.sent, m)
  <2>1. t \in ClientT /\ t.closed = s.closed BY SetStateTyped, StateNames DEF Keeps
  <2>2. Send(s, name, label, data) = [t EXCEPT !.outstanding = o, !.sent = q]
    BY <1>2, <2>1 DEF Send, ClientT
  <2>3. m \in RequestT BY DEF RequestT
  <2> HIDE DEF t, m
  <2>4. o \in Outstanding
    <3>1. t.outstanding \in Outstanding BY <2>1 DEF ClientT
    <3>. QED BY <3>1 DEF Outstanding
  <2>5. q \in Seq(RequestT)
    <3>1. t.sent \in Seq(RequestT) BY <2>1 DEF ClientT
    <3>. QED BY <2>3, <3>1
  <2> HIDE DEF o, q
  <2>. QED BY <2>1, <2>2, <2>4, <2>5 DEF Keeps, ClientT
<1>. QED BY <1>1, <1>2

LEMMA Names ==
    /\ Requests = {"IMPINJ_ENABLE_EXTENSIONS", "GET_READER_CAPABILITIES", "GET_READER_CONFIG",
                   "SET_READER_CONFIG", "DELETE_ACCESSSPEC", "DELETE_ROSPEC", "ADD_ROSPEC",
                   "ENABLE_ROSPEC", "DISABLE_ROSPEC"}
    /\ Stops \subseteq Labels /\ Writes \subseteq Labels /\ Nobody \notin Labels
    /\ Waiting("DELETE_ACCESSSPEC") = {Nobody} \cup Stops
    /\ Waiting("DELETE_ROSPEC") = {Nobody} \cup Stops
    /\ Waiting("SET_READER_CONFIG") = {Nobody} \cup Writes
    /\ \A n \in {"IMPINJ_ENABLE_EXTENSIONS", "GET_READER_CAPABILITIES", "GET_READER_CONFIG",
                 "ADD_ROSPEC", "ENABLE_ROSPEC", "DISABLE_ROSPEC"} : Waiting(n) = {Nobody} \cup Labels
BY DEF Requests, Stops, Writes, Labels, Nobody, Waiting

(* The requests each method sends. *)
LEMMA Sends ==
    ASSUME NEW s \in ClientT, NEW label \in Labels, NEW data \in Nat
    PROVE  /\ Keeps(s, Send(s, "IMPINJ_ENABLE_EXTENSIONS", label, data))
           /\ Keeps(s, Send(s, "GET_READER_CAPABILITIES", label, data))
           /\ Keeps(s, Send(s, "GET_READER_CONFIG", label, data))
           /\ Keeps(s, Send(s, "ADD_ROSPEC", label, data))
           /\ Keeps(s, Send(s, "ENABLE_ROSPEC", label, data))
           /\ Keeps(s, Send(s, "DISABLE_ROSPEC", label, data))
           /\ label \in Stops => Keeps(s, Send(s, "DELETE_ACCESSSPEC", label, data))
           /\ label \in Stops => Keeps(s, Send(s, "DELETE_ROSPEC", label, data))
           /\ label \in Writes => Keeps(s, Send(s, "SET_READER_CONFIG", label, data))
BY SendTyped, Names

LEMMA StopsTyped ==
    ASSUME NEW s \in ClientT, NEW label \in Stops
    PROVE  Keeps(s, StopAllROSpecs(s, label)) /\ Keeps(s, StopPolitely(s, label))
<1>1. label \in Labels /\ 0 \in Nat BY Names
<1>. QED BY <1>1, Sends DEF StopAllROSpecs, StopPolitely

LEMMA WritesTyped ==
    ASSUME NEW s \in ClientT, NEW label \in Writes
    PROVE  Keeps(s, SendSetReaderConfig(s, label))
<1>1. label \in Labels /\ s.config.reader \in Nat BY Names DEF ClientT, ConfigType
<1>. QED BY <1>1, Sends DEF SendSetReaderConfig

LEMMA GetROSpecTyped ==
    ASSUME NEW s \in ClientT, NEW forceNew \in BOOLEAN
    PROVE  Keeps(s, GetROSpec(s, forceNew))
<1>1. s.config.rospec \in Nat BY DEF ClientT, ConfigType
<1>. QED BY <1>1 DEF GetROSpec, Keeps, ClientT

LEMMA StartInventoryTyped ==
    ASSUME NEW s \in ClientT, NEW forceRegen \in BOOLEAN, NEW label \in Labels
    PROVE  Keeps(s, StartInventory(s, forceRegen, label))
<1>1. CASE s.state = "INVENTORYING" BY <1>1 DEF StartInventory, Keeps
<1>2. CASE s.state # "INVENTORYING"
  <2> DEFINE g == GetROSpec(s, forceRegen)
             t == [g EXCEPT !.added = FALSE]
  <2>1. g \in ClientT /\ g.closed = s.closed BY GetROSpecTyped DEF Keeps
  <2>2. StartInventory(s, forceRegen, label) = Send(t, "ADD_ROSPEC", label, t.rospec)
    BY <1>2 DEF StartInventory
  <2> HIDE DEF g
  <2>3. t \in ClientT /\ t.closed = s.closed /\ t.rospec \in Nat BY <2>1 DEF ClientT
  <2> HIDE DEF t
  <2>4. Keeps(t, Send(t, "ADD_ROSPEC", label, t.rospec)) BY <2>3, Sends
  <2>. QED BY <2>2, <2>3, <2>4 DEF Keeps
<1>. QED BY <1>1, <1>2

LEMMA InstallTyped ==
    ASSUME NEW s \in ClientT, NEW config \in ConfigType
    PROVE  Keeps(s, InstallRuntimeConfig(s, config))
           /\ InstallRuntimeConfig(s, config).transition = s.transition
<1>1. NoROSpec \in Nat BY DEF NoROSpec
<1>. QED BY <1>1 DEF InstallRuntimeConfig, Keeps, ClientT

(* A transition that ends: completed() closes the connection only when the  *)
(* client has given up.                                                     *)
LEMMA EndsTyped ==
    ASSUME NEW s \in ClientT
    PROVE  /\ Keeps(s, Succeed(s)) /\ Fail(s) \in ClientT
           /\ s.state # "DISCONNECTED" => Keeps(s, Fail(s))
<1> DEFINE t1 == [s.transition EXCEPT !.status = "success"]
           t2 == [s.transition EXCEPT !.status = "failed"]
<1>1. s.transition \in TransitionT BY DEF ClientT
<1>2. t1 \in TransitionT /\ t2 \in TransitionT BY <1>1 DEF TransitionT, Statuses
<1>3. Succeed(s) = [s EXCEPT !.transition = t1] BY DEF Succeed, ClientT
<1>4. Fail(s) = [s EXCEPT !.transition = t2, !.closed = s.closed \/ s.state = "DISCONNECTED"]
  BY DEF Fail, ClientT
<1> HIDE DEF t1, t2
<1>5. s.closed \in BOOLEAN BY DEF ClientT
<1>6. Keeps(s, Succeed(s)) BY <1>2, <1>3 DEF Keeps, ClientT
<1>7. (s.closed \/ s.state = "DISCONNECTED") \in BOOLEAN OBVIOUS
<1>8. Fail(s) \in ClientT BY <1>2, <1>4, <1>7 DEF ClientT
<1>9. ASSUME s.state # "DISCONNECTED" PROVE Fail(s).closed = s.closed
  <2>1. Fail(s).closed = (s.closed \/ s.state = "DISCONNECTED") BY <1>4 DEF ClientT
  <2>. QED BY <1>5, <1>9, <2>1
<1>. QED BY <1>6, <1>8, <1>9 DEF Keeps

LEMMA KeepsChain ==
    ASSUME NEW s, NEW t, NEW u, Keeps(s, t), Keeps(t, u)
    PROVE  Keeps(s, u)
BY DEF Keeps

LEMMA RestoreTyped ==
    ASSUME NEW s \in ClientT
    PROVE  Keeps(s, FinishRestore(s)) /\ Keeps(s, CleanupReplacement(s)) /\ Keeps(s, RestoreOld(s))
<1>0. "restored" \in Labels /\ "cleanup" \in Stops /\ "undo" \in Writes /\ "CONNECTED" \in States
  BY StateNames DEF Labels, Stops, Writes, Settled
<1>1. ASSUME NEW t \in ClientT PROVE Keeps(t, FinishRestore(t))
  <2>1. t.transition.original \in Settled BY DEF ClientT, TransitionT
  <2>2. CASE t.transition.original = "INVENTORYING"
    <3> DEFINE u == SetState(t, "CONNECTED")
    <3>1. Keeps(t, u) BY <1>0, SetStateTyped
    <3>2. FinishRestore(t) = StartInventory(u, TRUE, "restored") BY <2>2 DEF FinishRestore
    <3> HIDE DEF u
    <3>3. u \in ClientT BY <3>1 DEF Keeps
    <3>4. Keeps(u, StartInventory(u, TRUE, "restored")) BY <1>0, <3>3, StartInventoryTyped
    <3>. QED BY <3>1, <3>2, <3>4, KeepsChain
  <2>3. CASE t.transition.original # "INVENTORYING"
    <3> DEFINE u == SetState(t, t.transition.original)
    <3>1. Keeps(t, u) /\ u.state # "DISCONNECTED" BY <2>1, SetStateTyped, StateNames
    <3>2. FinishRestore(t) = Fail(u) BY <2>3 DEF FinishRestore
    <3> HIDE DEF u
    <3>3. u \in ClientT BY <3>1 DEF Keeps
    <3>. QED BY <3>1, <3>2, <3>3, EndsTyped, KeepsChain
  <2>. QED BY <2>2, <2>3
<1>2. ASSUME NEW t \in ClientT PROVE Keeps(t, CleanupReplacement(t))
  <2> DEFINE u == SetState(t, "CONNECTED")
  <2>1. Keeps(t, u) BY <1>0, SetStateTyped
  <2>2. u \in ClientT BY <2>1 DEF Keeps
  <2>3. CleanupReplacement(t) = StopAllROSpecs(u, "cleanup") \/ CleanupReplacement(t) = FinishRestore(t)
    BY DEF CleanupReplacement
  <2> HIDE DEF u
  <2>4. Keeps(t, StopAllROSpecs(u, "cleanup"))
    <3>1. Keeps(u, StopAllROSpecs(u, "cleanup")) BY <1>0, <2>2, StopsTyped
    <3>. QED BY <2>1, <3>1, KeepsChain
  <2>. QED BY <1>1, <2>3, <2>4
<1>3. Keeps(s, RestoreOld(s))
  <2> DEFINE t == InstallRuntimeConfig(s, s.transition.old)
             c == SetState(t, "CONNECTED")
             u == [c EXCEPT !.suppress = TRUE]
  <2>1. s.transition.old \in ConfigType BY DEF ClientT, TransitionT
  <2>2. Keeps(s, t) BY <2>1, InstallTyped
  <2>3. RestoreOld(s) = SendSetReaderConfig(u, "undo") \/ RestoreOld(s) = CleanupReplacement(t)
    BY DEF RestoreOld
  <2> HIDE DEF t
  <2>4. t \in ClientT BY <2>2 DEF Keeps
  <2>5. Keeps(t, c) BY <1>0, <2>4, SetStateTyped
  <2> HIDE DEF c
  <2>6. Keeps(c, u) BY <2>5 DEF Keeps, ClientT
  <2> HIDE DEF u
  <2>7. u \in ClientT BY <2>6 DEF Keeps
  <2>8. Keeps(u, SendSetReaderConfig(u, "undo")) BY <1>0, <2>7, WritesTyped
  <2>9. Keeps(s, SendSetReaderConfig(u, "undo")) BY <2>2, <2>5, <2>6, <2>8, KeepsChain
  <2>10. Keeps(s, CleanupReplacement(t)) BY <1>2, <2>2, <2>4, KeepsChain
  <2>. QED BY <2>3, <2>9, <2>10
<1>. QED BY <1>1, <1>2, <1>3

LEMMA FinishNewStateTyped ==
    ASSUME NEW s \in ClientT
    PROVE  Keeps(s, FinishNewState(s))
<1>0. "restarted" \in Labels /\ "CONNECTED" \in States BY StateNames DEF Labels, Settled
<1>1. s.transition.original \in Settled BY DEF ClientT, TransitionT
<1>2. CASE s.transition.original = "INVENTORYING"
  <2> DEFINE u == SetState(s, "CONNECTED")
  <2>1. Keeps(s, u) BY <1>0, SetStateTyped
  <2>2. FinishNewState(s) = StartInventory(u, TRUE, "restarted") BY <1>2 DEF FinishNewState
  <2> HIDE DEF u
  <2>3. u \in ClientT BY <2>1 DEF Keeps
  <2>4. Keeps(u, StartInventory(u, TRUE, "restarted")) BY <1>0, <2>3, StartInventoryTyped
  <2>. QED BY <2>1, <2>2, <2>4, KeepsChain
<1>3. CASE s.transition.original # "INVENTORYING"
  <2> DEFINE u == SetState(s, s.transition.original)
  <2>1. Keeps(s, u) BY <1>1, SetStateTyped, StateNames
  <2>2. FinishNewState(s) = Succeed(u) BY <1>3 DEF FinishNewState
  <2> HIDE DEF u
  <2>3. u \in ClientT BY <2>1 DEF Keeps
  <2>. QED BY <2>1, <2>2, <2>3, EndsTyped, KeepsChain
<1>. QED BY <1>2, <1>3

LEMMA AfterStoppedTyped ==
    ASSUME NEW s \in ClientT, NEW ok \in BOOLEAN
    PROVE  Keeps(s, AfterStopped(s, ok))
<1>0. "applied" \in Writes /\ "CONNECTED" \in States BY StateNames DEF Writes, Settled
<1>1. CASE ~ ok
  <2> DEFINE u == SetState(s, s.transition.original)
  <2>1. s.transition.original \in Settled BY DEF ClientT, TransitionT
  <2>2. Keeps(s, u) /\ u.state # "DISCONNECTED" BY <2>1, SetStateTyped, StateNames
  <2>3. AfterStopped(s, ok) = Fail(u) BY <1>1 DEF AfterStopped
  <2> HIDE DEF u
  <2>4. u \in ClientT BY <2>2 DEF Keeps
  <2>. QED BY <2>2, <2>3, <2>4, EndsTyped, KeepsChain
<1>2. CASE ok
  <2> DEFINE c == SetState(s, "CONNECTED")
             t == InstallRuntimeConfig(c, s.transition.new)
             u == [t EXCEPT !.suppress = TRUE]
  <2>1. \/ AfterStopped(s, ok) = RestoreOld(t)
        \/ AfterStopped(s, ok) = SendSetReaderConfig(u, "applied")
        \/ AfterStopped(s, ok) = FinishNewState(t)
    <3>1. CASE ~ CapabilitiesMatch(t.config) BY <1>2, <3>1 DEF AfterStopped
    <3>2. CASE CapabilitiesMatch(t.config) /\ NeedsReaderWrite(s) BY <1>2, <3>2 DEF AfterStopped
    <3>3. CASE CapabilitiesMatch(t.config) /\ ~ NeedsReaderWrite(s) BY <1>2, <3>3 DEF AfterStopped
    <3>. QED BY <3>1, <3>2, <3>3
  <2>2. Keeps(s, c) BY <1>0, SetStateTyped
  <2>3. s.transition.new \in ConfigType BY DEF ClientT, TransitionT
  <2>4. c \in ClientT BY <2>2 DEF Keeps
  <2> HIDE DEF c
  <2>5. Keeps(c, t) BY <2>3, <2>4, InstallTyped
  <2>6. Keeps(s, t) /\ t \in ClientT BY <2>2, <2>5, KeepsChain DEF Keeps
  <2> HIDE DEF t
  <2>7. Keeps(t, u) BY <2>6 DEF Keeps, ClientT
  <2> HIDE DEF u
  <2>8. u \in ClientT BY <2>7 DEF Keeps
  <2>9. Keeps(s, SendSetReaderConfig(u, "applied"))
    <3>1. Keeps(u, SendSetReaderConfig(u, "applied")) BY <1>0, <2>8, WritesTyped
    <3>. QED BY <2>6, <2>7, <3>1, KeepsChain
  <2>10. Keeps(s, RestoreOld(t)) BY <2>6, RestoreTyped, KeepsChain
  <2>11. Keeps(s, FinishNewState(t)) BY <2>6, FinishNewStateTyped, KeepsChain
  <2>. QED BY <2>1, <2>9, <2>10, <2>11
<1>. QED BY <1>1, <1>2

(* What may close: giving up, and the end of disconnect(). *)
LEMMA ClosesTyped ==
    ASSUME NEW s \in ClientT, NEW ok \in BOOLEAN
    PROVE  GiveUp(s) \in ClientT /\ DisconnectStopped(s, ok) \in ClientT
<1> DEFINE t == SetState(s, "DISCONNECTED")
<1>1. t \in ClientT BY SetStateTyped, StateNames DEF Keeps
<1>2. GiveUp(s) = Fail(t) BY DEF GiveUp
<1>3. DisconnectStopped(s, ok) = [s EXCEPT !.closed = TRUE]
      \/ DisconnectStopped(s, ok) = [t EXCEPT !.closed = TRUE]
  BY DEF DisconnectStopped
<1> HIDE DEF t
<1>4. Fail(t) \in ClientT BY <1>1, EndsTyped
<1>5. [s EXCEPT !.closed = TRUE] \in ClientT BY DEF ClientT
<1>6. [t EXCEPT !.closed = TRUE] \in ClientT BY <1>1 DEF ClientT
<1>. QED BY <1>2, <1>3, <1>4, <1>5, <1>6

-----------------------------------------------------------------------------
(* Completion callbacks.                                                    *)

LEMMA InventoryStartedTyped ==
    ASSUME NEW s \in ClientT, NEW label \in Labels, NEW ok \in BOOLEAN
    PROVE  InventoryStarted(s, label, ok) \in ClientT
<1>1. /\ Succeed(s) \in ClientT /\ RestoreOld(s) \in ClientT /\ Fail(s) \in ClientT
      /\ GiveUp(s) \in ClientT
  BY EndsTyped, RestoreTyped, ClosesTyped DEF Keeps
<1>2. CASE label = "restarted" BY <1>1, <1>2 DEF InventoryStarted
<1>3. CASE label = "restored" BY <1>1, <1>3 DEF InventoryStarted
<1>4. CASE label \notin {"restarted", "restored"} BY <1>4 DEF InventoryStarted
<1>. QED BY <1>2, <1>3, <1>4

LEMMA StoppedTyped ==
    ASSUME NEW s \in ClientT, NEW label \in Stops, NEW ok \in BOOLEAN
    PROVE  Stopped(s, label, ok) \in ClientT
<1> DEFINE c == SetState(s, "CONNECTED")
<1>1. c \in ClientT BY SetStateTyped, StateNames DEF Keeps, Settled
<1>2. /\ AfterStopped(s, ok) \in ClientT /\ FinishRestore(s) \in ClientT /\ GiveUp(s) \in ClientT
      /\ DisconnectStopped(s, ok) \in ClientT
  BY AfterStoppedTyped, RestoreTyped, ClosesTyped DEF Keeps
<1>3. StartInventory(c, FALSE, "user") \in ClientT /\ StartInventory(c, TRUE, "user") \in ClientT
  <2> HIDE DEF c
  <2>1. "user" \in Labels BY DEF Labels
  <2>. QED BY <1>1, <2>1, StartInventoryTyped DEF Keeps
<1>4. CASE label = "connect" BY <1>1, <1>3, <1>4 DEF Stopped
<1>5. CASE label \in {"txpower", "resume"} BY <1>3, <1>5 DEF Stopped
<1>6. CASE label = "disconnect" BY <1>2, <1>6 DEF Stopped
<1>7. CASE label = "apply" BY <1>2, <1>7 DEF Stopped
<1>8. CASE label = "cleanup" BY <1>2, <1>8 DEF Stopped
<1>. QED BY <1>4, <1>5, <1>6, <1>7, <1>8 DEF Stops

LEMMA ReaderConfigSetTyped ==
    ASSUME NEW s \in ClientT, NEW label \in Writes, NEW ok \in BOOLEAN
    PROVE  ReaderConfigSet(s, label, ok) \in ClientT
<1>1. CASE label = "setup" BY <1>1, SetStateTyped, StateNames DEF ReaderConfigSet, Keeps
<1>2. CASE label = "applied"
  <2> DEFINE w == [s.transition EXCEPT !.written = TRUE]
             t == [s EXCEPT !.transition = w]
  <2>1. w \in TransitionT
    <3>1. s.transition \in TransitionT BY DEF ClientT
    <3>. QED BY <3>1 DEF TransitionT
  <2>2. [s EXCEPT !.transition.written = TRUE] = t BY DEF ClientT
  <2> HIDE DEF w
  <2>3. t \in ClientT BY <2>1 DEF ClientT
  <2> HIDE DEF t
  <2>4. FinishNewState(t) \in ClientT /\ RestoreOld(s) \in ClientT
    BY <2>3, FinishNewStateTyped, RestoreTyped DEF Keeps
  <2>5. ReaderConfigSet(s, label, ok) = IF ok THEN FinishNewState(t) ELSE RestoreOld(s)
    BY <1>2, <2>2 DEF ReaderConfigSet
  <2>. QED BY <2>4, <2>5
<1>3. CASE label = "undo"
  <2>1. CleanupReplacement(s) \in ClientT /\ GiveUp(s) \in ClientT
    BY RestoreTyped, ClosesTyped DEF Keeps
  <2>. QED BY <1>3, <2>1 DEF ReaderConfigSet
<1>. QED BY <1>1, <1>2, <1>3 DEF Writes

LEMMA PausedTyped ==
    ASSUME NEW s \in ClientT, NEW label \in Labels, NEW ok \in BOOLEAN
    PROVE  Paused(s, label, ok) \in ClientT
<1> DEFINE t == SetState(s, "PAUSED")
           u == CancelTimer(t)
<1>1. t \in ClientT BY SetStateTyped, StateNames DEF Keeps, Settled
<1>2. u \in ClientT
  <2> HIDE DEF t
  <2>. QED BY <1>1, CancelTimerTyped DEF Keeps
<1>3. Paused(s, label, ok) \in {s, t, [u EXCEPT !.timer = "plain"], [u EXCEPT !.timer = "regen"]}
  BY DEF Paused
<1> HIDE DEF t, u
<1>4. [u EXCEPT !.timer = "plain"] \in ClientT /\ [u EXCEPT !.timer = "regen"] \in ClientT
  BY <1>2 DEF ClientT, Timers
<1>. QED BY <1>1, <1>3, <1>4

LEMMA RospecEnabledTyped ==
    ASSUME NEW s \in ClientT, NEW label \in Labels, NEW ok \in BOOLEAN
    PROVE  RospecEnabled(s, label, ok) \in ClientT
<1> DEFINE t == IF ok THEN SetState(s, "INVENTORYING") ELSE s
<1>1. t \in ClientT BY SetStateTyped, StateNames DEF Keeps, Settled
<1>2. RospecEnabled(s, label, ok) = InventoryStarted(t, label, ok) BY DEF RospecEnabled
<1> HIDE DEF t
<1>. QED BY <1>1, <1>2, InventoryStartedTyped

LEMMA AccessSpecsDeletedTyped ==
    ASSUME NEW s \in ClientT, NEW label \in Stops, NEW ok \in BOOLEAN
    PROVE  AccessSpecsDeleted(s, label, ok) \in ClientT
BY StopsTyped, StoppedTyped DEF AccessSpecsDeleted, Keeps

LEMMA CompletedTyped ==
    ASSUME NEW s \in ClientT, NEW name \in Requests, NEW label \in Waiting(name) \cap Labels,
           NEW ok \in BOOLEAN
    PROVE  Completed(s, name, label, ok) \in ClientT
<1>0. "setup" \in Labels /\ 0 \in Nat BY DEF Labels
<1>1. CASE name = "IMPINJ_ENABLE_EXTENSIONS"
  <2>1. Send(s, "GET_READER_CAPABILITIES", "setup", 0) \in ClientT /\ Raise(s) \in ClientT
    BY <1>0, Sends, RaiseTyped DEF Keeps
  <2>. QED BY <1>1, <2>1 DEF Completed
<1>2. CASE name = "GET_READER_CAPABILITIES"
  BY <1>2, SetStateTyped, StateNames DEF Completed, Keeps, Settled
<1>3. CASE name = "GET_READER_CONFIG"
  BY <1>3, SetStateTyped, StateNames DEF Completed, Keeps
<1>4. CASE name = "SET_READER_CONFIG"
  <2>1. label \in Writes BY <1>4, Names
  <2>. QED BY <1>4, <2>1, ReaderConfigSetTyped DEF Completed
<1>5. CASE name = "DELETE_ACCESSSPEC"
  <2>1. label \in Stops BY <1>5, Names
  <2>. QED BY <1>5, <2>1, AccessSpecsDeletedTyped DEF Completed
<1>6. CASE name = "DELETE_ROSPEC"
  <2> DEFINE t == [s EXCEPT !.rospec = NoROSpec, !.added = @ /\ ~ ok]
  <2>1. label \in Stops BY <1>6, Names
  <2>2. t \in ClientT
    <3>1. NoROSpec \in Nat /\ (s.added /\ ~ ok) \in BOOLEAN BY DEF NoROSpec
    <3>. QED BY <3>1 DEF ClientT
  <2>3. Completed(s, name, label, ok) = Stopped(t, label, ok) BY <1>6 DEF Completed
  <2> HIDE DEF t
  <2>. QED BY <2>1, <2>2, <2>3, StoppedTyped
<1>7. CASE name = "ADD_ROSPEC"
  <2> DEFINE t == [s EXCEPT !.added = TRUE]
  <2>1. t \in ClientT BY DEF ClientT
  <2>2. Completed(s, name, label, ok) =
          IF ok THEN Send(t, "ENABLE_ROSPEC", label, 0) ELSE InventoryStarted(s, label, FALSE)
    BY <1>7 DEF Completed
  <2> HIDE DEF t
  <2>3. Send(t, "ENABLE_ROSPEC", label, 0) \in ClientT BY <1>0, <2>1, Sends DEF Keeps
  <2>. QED BY <2>2, <2>3, InventoryStartedTyped
<1>8. CASE name = "ENABLE_ROSPEC" BY <1>8, RospecEnabledTyped DEF Completed
<1>9. CASE name = "DISABLE_ROSPEC" BY <1>9, PausedTyped DEF Completed
<1>. QED BY <1>1, <1>2, <1>3, <1>4, <1>5, <1>6, <1>7, <1>8, <1>9 DEF Requests

LEMMA ProcessTyped ==
    ASSUME NEW s \in ClientT, NEW name \in Requests, NEW ok \in BOOLEAN
    PROVE  ProcessDeferreds(s, name, ok) \in ClientT
<1> DEFINE label == s.outstanding[name]
           o == [s.outstanding EXCEPT ![name] = Nobody]
           t == [s EXCEPT !.outstanding = o]
<1>1. s.outstanding \in Outstanding BY DEF ClientT
<1>2. label \in Waiting(name) /\ label \in Labels \cup {Nobody} BY <1>1 DEF Outstanding
<1>3. o \in Outstanding
  <2>1. Nobody \in Waiting(name) BY DEF Waiting
  <2>. QED BY <1>1, <2>1 DEF Outstanding
<1>4. [s EXCEPT !.outstanding[name] = Nobody] = t BY DEF ClientT
<1> HIDE DEF o
<1>5. t \in ClientT BY <1>3 DEF ClientT
<1> HIDE DEF t
<1>6. ProcessDeferreds(s, name, ok) =
        IF label = Nobody THEN s ELSE Completed(t, name, label, ok)
  BY <1>4 DEF ProcessDeferreds
<1>7. ASSUME label # Nobody PROVE Completed(t, name, label, ok) \in ClientT
  <2>1. label \in Waiting(name) \cap Labels BY <1>2, <1>7
  <2>. QED BY <1>5, <2>1, CompletedTyped
<1>. QED BY <1>6, <1>7

-----------------------------------------------------------------------------
(* handleMessage.                                                           *)

LEMMA ConnectionEventTyped ==
    ASSUME NEW s \in ClientT, NEW ok \in BOOLEAN
    PROVE  HandleConnectionEvent(s, ok) \in ClientT
<1> DEFINE t == [s EXCEPT !.disconnecting = FALSE]
<1>1. t \in ClientT BY DEF ClientT
<1>2. HandleConnectionEvent(s, ok) \in
        {s, Send(t, "IMPINJ_ENABLE_EXTENSIONS", "setup", 0), Send(t, "GET_READER_CAPABILITIES", "setup", 0)}
  <2>1. CASE s.state # "DISCONNECTED" \/ ~ ok BY <2>1 DEF HandleConnectionEvent
  <2>2. CASE ~ (s.state # "DISCONNECTED" \/ ~ ok) BY <2>2 DEF HandleConnectionEvent
  <2>. QED BY <2>1, <2>2
<1> HIDE DEF t
<1>3. "setup" \in Labels /\ 0 \in Nat BY DEF Labels
<1>4. /\ Send(t, "IMPINJ_ENABLE_EXTENSIONS", "setup", 0) \in ClientT
      /\ Send(t, "GET_READER_CAPABILITIES", "setup", 0) \in ClientT
  BY <1>1, <1>3, Sends DEF Keeps
<1>. QED BY <1>2, <1>4

LEMMA ResponseTyped ==
    ASSUME NEW s \in ClientT, NEW name \in Requests, NEW ok \in BOOLEAN
    PROVE  HandleResponse(s, name, ok) \in ClientT
<1>0. "setup" \in Labels /\ "setup" \in Writes /\ "connect" \in Stops /\ "user" \in Labels /\ 0 \in Nat
  BY DEF Labels, Writes, Stops
<1>1. Raise(s) \in ClientT BY RaiseTyped DEF Keeps
<1>2. ASSUME NEW t \in ClientT
      PROVE  /\ FatalFailure(t, name) \in ClientT
             /\ ProcessDeferreds(t, name, TRUE) \in ClientT
             /\ ProcessDeferreds(t, name, FALSE) \in ClientT
             /\ ProcessDeferreds(t, name, ok) \in ClientT
             /\ Raise(t) \in ClientT
  BY <1>2, ProcessTyped, RaiseTyped DEF FatalFailure, Keeps
<1>3. InSentImpinj(s, name, ok) \in ClientT
  <2>1. CASE name # "IMPINJ_ENABLE_EXTENSIONS" BY <1>2, <2>1 DEF InSentImpinj
  <2>2. CASE name = "IMPINJ_ENABLE_EXTENSIONS" /\ ~ ok BY <1>2, <2>2 DEF InSentImpinj
  <2>3. CASE name = "IMPINJ_ENABLE_EXTENSIONS" /\ ok BY <1>2, <2>3 DEF InSentImpinj
  <2>. QED BY <2>1, <2>2, <2>3
<1>4. InSentGetCapabilities(s, name, ok) \in ClientT
  <2> DEFINE t == ProcessDeferreds(s, name, TRUE)
             u == IF t.disconnecting THEN t ELSE Send(t, "GET_READER_CONFIG", "setup", 0)
  <2>1. t \in ClientT BY <1>2
  <2>2. u \in ClientT
    <3> HIDE DEF t
    <3>. QED BY <1>0, <2>1, Sends DEF Keeps
  <2>3. CASE name # "GET_READER_CAPABILITIES" BY <1>2, <2>3 DEF InSentGetCapabilities
  <2>4. CASE name = "GET_READER_CAPABILITIES" /\ ~ ok BY <1>2, <2>4 DEF InSentGetCapabilities
  <2>5. CASE name = "GET_READER_CAPABILITIES" /\ ok /\ ~ CapabilitiesMatch(s.config)
    BY <1>2, <2>5 DEF InSentGetCapabilities
  <2>6. CASE name = "GET_READER_CAPABILITIES" /\ ok /\ CapabilitiesMatch(s.config)
    <3>1. InSentGetCapabilities(s, name, ok) = u BY <2>6 DEF InSentGetCapabilities
    <3>. QED BY <2>2, <3>1
  <2>. QED BY <2>3, <2>4, <2>5, <2>6
<1>5. InSentGetConfig(s, name, ok) \in ClientT
  <2> DEFINE t == ProcessDeferreds(s, name, TRUE)
  <2>1. t \in ClientT BY <1>2
  <2>2. InSentGetConfig(s, name, ok) \in
          {Raise(s), FatalFailure(s, name), t, SendSetReaderConfig(t, "setup")}
    BY DEF InSentGetConfig
  <2>3. SendSetReaderConfig(t, "setup") \in ClientT
    <3> HIDE DEF t
    <3>. QED BY <1>0, <2>1, WritesTyped DEF Keeps
  <2>. QED BY <1>2, <2>1, <2>2, <2>3
<1>6. ASSUME NEW t \in ClientT PROVE PostSetConfig(t) \in ClientT
  <2>1. StopPolitely(t, "connect") \in ClientT /\ StartInventory(t, FALSE, "user") \in ClientT
    BY <1>0, <1>6, StopsTyped, StartInventoryTyped DEF Keeps
  <2>2. PostSetConfig(t) \in {t, StopPolitely(t, "connect"), StartInventory(t, FALSE, "user")}
    <3>1. CASE t.raised \/ t.disconnecting BY <3>1 DEF PostSetConfig
    <3>2. CASE ~ t.raised /\ ~ t.disconnecting /\ ResetOnConnect BY <3>2 DEF PostSetConfig
    <3>3. CASE ~ t.raised /\ ~ t.disconnecting /\ ~ ResetOnConnect BY <3>3 DEF PostSetConfig
    <3>. QED BY <3>1, <3>2, <3>3
  <2>. QED BY <2>1, <2>2
<1>7. InSentSetConfig(s, name, ok) \in ClientT
  <2> DEFINE t == [s EXCEPT !.suppress = FALSE]
             c == SetState(t, "CONNECTED")
  <2>1. t \in ClientT BY DEF ClientT
  <2>2. InSentSetConfig(s, name, ok) \in
          {Raise(s), ProcessDeferreds(c, name, TRUE), ProcessDeferreds(t, name, FALSE),
           PostSetConfig(ProcessDeferreds(t, name, TRUE)), FatalFailure(t, name)}
    <3>1. CASE name \notin {"SET_READER_CONFIG", "GET_READER_CONFIG", "DELETE_ACCESSSPEC"}
      BY <3>1 DEF InSentSetConfig
    <3>2. ASSUME name \in {"SET_READER_CONFIG", "GET_READER_CONFIG", "DELETE_ACCESSSPEC"}
          PROVE  InSentSetConfig(s, name, ok) =
                   CASE s.suppress /\ ok   -> ProcessDeferreds(c, name, TRUE)
                     [] s.suppress /\ ~ ok -> ProcessDeferreds(t, name, FALSE)
                     [] ~ s.suppress /\ ok -> PostSetConfig(ProcessDeferreds(t, name, TRUE))
                     [] OTHER              -> FatalFailure(t, name)
      BY <3>2 DEF InSentSetConfig
    <3> HIDE DEF t, c
    <3>3. CASE s.suppress /\ ok BY <3>1, <3>2, <3>3
    <3>4. CASE s.suppress /\ ~ ok BY <3>1, <3>2, <3>4
    <3>5. CASE ~ s.suppress /\ ok BY <3>1, <3>2, <3>5
    <3>6. CASE ~ s.suppress /\ ~ ok BY <3>1, <3>2, <3>6
    <3>. QED BY <3>3, <3>4, <3>5, <3>6
  <2> HIDE DEF t
  <2>3. c \in ClientT BY <2>1, SetStateTyped, StateNames DEF Keeps, Settled
  <2> HIDE DEF c
  <2>4. PostSetConfig(ProcessDeferreds(t, name, TRUE)) \in ClientT BY <1>2, <1>6, <2>1
  <2>. QED BY <1>2, <2>1, <2>2, <2>3, <2>4
<1>8. InSentAddRospec(s, name, ok) \in ClientT
  <2> DEFINE t == ProcessDeferreds(s, name, ok)
  <2>1. t \in ClientT BY <1>2
  <2>2. InSentAddRospec(s, name, ok) \in {Raise(s), t, Raise(t)} BY DEF InSentAddRospec
  <2> HIDE DEF t
  <2>. QED BY <1>2, <2>1, <2>2
<1>9. HandleResponse(s, name, ok) \in
        {s, InSentImpinj(s, name, ok), InSentGetCapabilities(s, name, ok), InSentGetConfig(s, name, ok),
         InSentSetConfig(s, name, ok), InSentAddRospec(s, name, ok), ProcessDeferreds(s, name, ok)}
  <2>1. CASE s.state \in {"DISCONNECTED", "CONNECTED", "PAUSED"} BY <2>1 DEF HandleResponse
  <2>2. CASE s.state = "SENT_ENABLE_IMPINJ_EXTENSIONS" BY <2>2 DEF HandleResponse
  <2>3. CASE s.state = "SENT_GET_CAPABILITIES" BY <2>3 DEF HandleResponse
  <2>4. CASE s.state = "SENT_GET_CONFIG" BY <2>4 DEF HandleResponse
  <2>5. CASE s.state = "SENT_SET_CONFIG" BY <2>5 DEF HandleResponse
  <2>6. CASE s.state = "SENT_ADD_ROSPEC" BY <2>6 DEF HandleResponse
  <2>7. CASE s.state = "SENT_ENABLE_ROSPEC" BY <2>7 DEF HandleResponse
  <2>8. CASE s.state = "INVENTORYING" BY <2>8 DEF HandleResponse
  <2>9. CASE s.state \notin {"DISCONNECTED", "CONNECTED", "PAUSED", "SENT_ENABLE_IMPINJ_EXTENSIONS",
                             "SENT_GET_CAPABILITIES", "SENT_GET_CONFIG", "SENT_SET_CONFIG",
                             "SENT_ADD_ROSPEC", "SENT_ENABLE_ROSPEC", "INVENTORYING"}
    BY <2>9 DEF HandleResponse
  <2>. QED BY <2>1, <2>2, <2>3, <2>4, <2>5, <2>6, <2>7, <2>8, <2>9
<1>. QED BY <1>2, <1>3, <1>4, <1>5, <1>7, <1>8, <1>9

LEMMA HandleTyped ==
    ASSUME NEW s \in ClientT, NEW m \in AnswerT
    PROVE  HandleMessage(s, m) \in ClientT
BY ConnectionEventTyped, ResponseTyped DEF HandleMessage, AnswerT

-----------------------------------------------------------------------------
(* The application's calls close nothing.                                   *)

LEMMA PauseTyped ==
    ASSUME NEW s \in ClientT, NEW label \in Labels, NEW force \in BOOLEAN, NEW regen \in BOOLEAN
    PROVE  Keeps(s, Pause(s, label, force, regen))
<1> DEFINE t == CancelTimer(s)
           u == GetROSpec(t, regen)
<1>1. Keeps(s, t) /\ t \in ClientT BY CancelTimerTyped DEF Keeps
<1>2. Pause(s, label, force, regen) \in {s, Send(u, "DISABLE_ROSPEC", label, 0)} BY DEF Pause
<1> HIDE DEF t
<1>3. Keeps(t, u) /\ u \in ClientT BY <1>1, GetROSpecTyped DEF Keeps
<1> HIDE DEF u
<1>4. Keeps(u, Send(u, "DISABLE_ROSPEC", label, 0)) BY <1>3, Sends
<1>5. Keeps(s, Send(u, "DISABLE_ROSPEC", label, 0)) BY <1>1, <1>3, <1>4, KeepsChain
<1>6. Keeps(s, s) BY DEF Keeps
<1>. QED BY <1>2, <1>5, <1>6

LEMMA ResumeInventoryTyped ==
    ASSUME NEW s \in ClientT, NEW regen \in BOOLEAN
    PROVE  Keeps(s, ResumeInventory(s, regen))
<1> DEFINE c == SetState(s, "CONNECTED")
<1>0. "user" \in Labels /\ "resume" \in Labels /\ "resume" \in Stops BY DEF Labels, Stops
<1>1. Keeps(s, c) /\ c \in ClientT BY SetStateTyped, StateNames DEF Keeps, Settled
<1>2. ResumeInventory(s, regen) \in
        {s, StartInventory(s, regen, "user"), StartInventory(c, TRUE, "user"),
         StopAllROSpecs(s, "resume"), Send(s, "ENABLE_ROSPEC", "resume", 0)}
  <2>1. CASE s.state \in {"CONNECTED", "DISCONNECTED"} BY <2>1 DEF ResumeInventory
  <2>2. CASE s.state = "PAUSED" /\ s.rospec = NoROSpec BY <2>2 DEF ResumeInventory
  <2>3. CASE s.state = "PAUSED" /\ s.rospec # NoROSpec /\ regen BY <2>3 DEF ResumeInventory
  <2>4. CASE s.state = "PAUSED" /\ s.rospec # NoROSpec /\ ~ regen BY <2>4 DEF ResumeInventory
  <2>5. CASE s.state \notin {"CONNECTED", "DISCONNECTED", "PAUSED"} BY <2>5 DEF ResumeInventory
  <2>. QED BY <2>1, <2>2, <2>3, <2>4, <2>5
<1> HIDE DEF c
<1>3. Keeps(s, StartInventory(c, TRUE, "user"))
  <2>1. Keeps(c, StartInventory(c, TRUE, "user")) BY <1>0, <1>1, StartInventoryTyped
  <2>. QED BY <1>1, <2>1, KeepsChain
<1>4. Keeps(s, StartInventory(s, regen, "user")) BY <1>0, StartInventoryTyped
<1>5. Keeps(s, StopAllROSpecs(s, "resume")) BY <1>0, StopsTyped
<1>6. Keeps(s, Send(s, "ENABLE_ROSPEC", "resume", 0)) BY <1>0, Sends
<1>7. Keeps(s, s) BY DEF Keeps
<1>. QED BY <1>2, <1>3, <1>4, <1>5, <1>6, <1>7

LEMMA ResumeTyped ==
    ASSUME NEW s \in ClientT, NEW regen \in BOOLEAN
    PROVE  Keeps(s, Resume(s, regen))
<1> DEFINE t == CancelTimer(s)
<1>1. Keeps(s, t) /\ t \in ClientT BY CancelTimerTyped DEF Keeps
<1> HIDE DEF t
<1>2. Keeps(t, ResumeInventory(t, regen)) BY <1>1, ResumeInventoryTyped
<1>. QED BY <1>1, <1>2, KeepsChain DEF Resume, t

LEMMA SetTxPowerTyped ==
    ASSUME NEW s \in ClientT, NEW rospec \in Nat \ {0}
    PROVE  Keeps(s, SetTxPower(s, rospec))
<1> DEFINE c == [s.config EXCEPT !.rospec = rospec]
           t == [s EXCEPT !.config = c]
<1>1. c \in ConfigType
  <2>1. s.config \in ConfigType BY DEF ClientT
  <2>. QED BY <2>1 DEF ConfigType
<1>2. [s EXCEPT !.config.rospec = rospec] = t BY DEF ClientT
<1> HIDE DEF c
<1>3. Keeps(s, t) /\ t \in ClientT BY <1>1 DEF Keeps, ClientT
<1> HIDE DEF t
<1>4. SetTxPower(s, rospec) \in {t, StopPolitely(t, "txpower")} BY <1>2 DEF SetTxPower
<1>5. "txpower" \in Stops BY DEF Stops
<1>6. Keeps(s, StopPolitely(t, "txpower")) BY <1>3, <1>5, StopsTyped, KeepsChain
<1>. QED BY <1>3, <1>4, <1>6

LEMMA DisconnectTyped ==
    ASSUME NEW s \in ClientT
    PROVE  Keeps(s, Disconnect(s))
<1> DEFINE t == [s EXCEPT !.disconnecting = TRUE]
<1>1. Keeps(s, t) /\ t \in ClientT BY DEF Keeps, ClientT
<1>2. Disconnect(s) = StopPolitely(t, "disconnect") BY DEF Disconnect
<1>3. "disconnect" \in Stops BY DEF Stops
<1> HIDE DEF t
<1>. QED BY <1>1, <1>2, <1>3, StopsTyped, KeepsChain

LEMMA ApplyConfigTyped ==
    ASSUME NEW s \in ClientT, NEW new \in ConfigType
    PROVE  Keeps(s, ApplyConfig(s, new))
<1>1. CASE s.state = "DISCONNECTED" BY <1>1, InstallTyped DEF ApplyConfig
<1>2. CASE s.state # "DISCONNECTED" /\ ClientOnly(s.config, new)
  <2>1. ApplyConfig(s, new) = [s EXCEPT !.config = new] BY <1>2 DEF ApplyConfig
  <2>. QED BY <2>1 DEF Keeps, ClientT
<1>3. CASE s.state \in Settled /\ ~ ClientOnly(s.config, new)
  <2> DEFINE n == [status |-> "pending", old |-> s.config, new |-> new,
                   original |-> s.state, written |-> FALSE]
             b == [s EXCEPT !.transition = n]
             c == CancelTimer(b)
             t == BeginTransition(s, new)
             r == [t EXCEPT !.transition = s.transition]
  <2>1. n \in TransitionT
    <3>1. s.config \in ConfigType BY DEF ClientT
    <3>. QED BY <1>3, <3>1 DEF TransitionT, Statuses
  <2>2. t \in {StopPolitely(b, "apply"), StopAllROSpecs(c, "apply"), AfterStopped(b, TRUE)}
    <3>1. CASE s.state = "INVENTORYING" BY <3>1 DEF BeginTransition
    <3>2. CASE s.state = "PAUSED" BY <3>2 DEF BeginTransition
    <3>3. CASE s.state \notin {"INVENTORYING", "PAUSED"} BY <3>3 DEF BeginTransition
    <3>. QED BY <3>1, <3>2, <3>3
  <2>3. ApplyConfig(s, new) \in {t, r}
    <3>1. s.state # "DISCONNECTED" BY <1>3, StateNames
    <3>. QED BY <1>3, <3>1 DEF ApplyConfig, Settled
  <2> HIDE DEF n
  <2>4. Keeps(s, b) /\ b \in ClientT BY <2>1 DEF Keeps, ClientT
  <2> HIDE DEF b
  <2>5. Keeps(b, c) /\ c \in ClientT BY <2>4, CancelTimerTyped DEF Keeps
  <2> HIDE DEF c
  <2>6. "apply" \in Stops BY DEF Stops
  <2>7. Keeps(s, StopPolitely(b, "apply")) BY <2>4, <2>6, StopsTyped, KeepsChain
  <2>8. Keeps(s, StopAllROSpecs(c, "apply"))
    <3>1. Keeps(c, StopAllROSpecs(c, "apply")) BY <2>5, <2>6, StopsTyped
    <3>. QED BY <2>4, <2>5, <3>1, KeepsChain
  <2>9. Keeps(s, AfterStopped(b, TRUE)) BY <2>4, AfterStoppedTyped, KeepsChain
  <2>10. Keeps(s, t) BY <2>2, <2>7, <2>8, <2>9
  <2> HIDE DEF t
  <2>11. Keeps(s, r)
    <3>1. s.transition \in TransitionT BY DEF ClientT
    <3>. QED BY <2>10, <3>1 DEF Keeps, ClientT
  <2>. QED BY <2>3, <2>10, <2>11
<1>4. CASE s.state \notin Settled \cup {"DISCONNECTED"} /\ ~ ClientOnly(s.config, new)
  <2>1. ApplyConfig(s, new) = s BY <1>4 DEF ApplyConfig, Settled
  <2>. QED BY <2>1 DEF Keeps
<1>. QED BY <1>1, <1>2, <1>3, <1>4

-----------------------------------------------------------------------------
(* Steps.                                                                   *)

LEMMA ResetTyped ==
    ASSUME NEW s \in ClientT
    PROVE  /\ ResetSession(s) \in ClientT
           /\ ResetSession(s).sent = << >> /\ ~ ResetSession(s).raised /\ ~ ResetSession(s).closed
<1> DEFINE c == CancelTimer(s)
           o == [n \in Requests |-> Nobody]
           n == [c.transition EXCEPT !.status = IF @ = "pending" THEN "abandoned" ELSE @]
<1>1. c \in ClientT BY CancelTimerTyped DEF Keeps
<1>2. ResetSession(s) =
        [c EXCEPT !.state = "DISCONNECTED", !.outstanding = o, !.rospec = NoROSpec,
                  !.added = FALSE, !.suppress = FALSE, !.applied = NoConfig,
                  !.disconnecting = FALSE, !.sent = << >>, !.raised = FALSE, !.closed = FALSE,
                  !.transition = n]
  BY <1>1 DEF ResetSession, ClientT
<1> HIDE DEF c
<1>3. o \in Outstanding BY DEF Outstanding, Waiting
<1>4. n \in TransitionT
  <2>1. c.transition \in TransitionT BY <1>1 DEF ClientT
  <2>. QED BY <2>1 DEF TransitionT, Statuses
<1>5. NoROSpec \in Nat /\ NoConfig \in Snapshot /\ "DISCONNECTED" \in States /\ << >> \in Seq(RequestT)
  BY StateNames DEF NoROSpec, Snapshot
<1> HIDE DEF o, n
<1>6. ResetSession(s) \in ClientT BY <1>1, <1>2, <1>3, <1>4, <1>5 DEF ClientT
<1>7. DOMAIN c = DOMAIN ResetSession(s) /\ {"sent", "raised", "closed"} \subseteq DOMAIN c
  BY <1>1, <1>2 DEF ClientT
<1>8. ResetSession(s).sent = << >> BY <1>2, <1>7
<1>9. ~ ResetSession(s).raised BY <1>2, <1>7
<1>10. ~ ResetSession(s).closed BY <1>2, <1>7
<1>. QED BY <1>6, <1>8, <1>9, <1>10

(* The invariant: TypeOK with the types of what is in flight and of what a  *)
(* callback knows about the transition.                                     *)
Wires == toReader \in Seq(RequestT) /\ toClient \in Seq(AnswerT)
Clean(s) == s \in ClientT /\ s.sent = << >> /\ ~ s.raised /\ ~ s.closed
Rest ==
    /\ reader \in ReaderT /\ link \in BOOLEAN
    /\ resuming \subseteq [regen : BOOLEAN, generation : Nat]
    /\ ops \in 0 .. MaxOps /\ sessions \in 0 .. MaxSessions
TInv == Clean(client) /\ Wires /\ Rest

LEMMA HangUpTyped ==
    ASSUME NEW s \in ClientT, HangUp(s)
    PROVE  Clean(client)' /\ Wires' /\ link' \in BOOLEAN
<1>1. client' = ResetSession(s) /\ link' = FALSE /\ toReader' = << >> /\ toClient' = << >>
  BY DEF HangUp
<1>2. Clean(client)' BY <1>1, ResetTyped DEF Clean
<1>3. << >> \in Seq(RequestT) OBVIOUS
<1>4. << >> \in Seq(AnswerT) OBVIOUS
<1>5. Wires' BY <1>1, <1>3, <1>4 DEF Wires
<1>. QED BY <1>1, <1>2, <1>5

LEMMA ReturnTyped ==
    ASSUME Wires, link \in BOOLEAN, NEW s \in ClientT, ~ s.closed, Return(s)
    PROVE  Clean(client)' /\ toReader' \in Seq(RequestT) /\ link' \in BOOLEAN
<1>1. client' = [s EXCEPT !.sent = << >>, !.raised = FALSE] /\ toReader' = toReader \o s.sent
      /\ link' = link
  BY DEF Return
<1>2. << >> \in Seq(RequestT) /\ s.sent \in Seq(RequestT) BY DEF ClientT
<1>3. Clean(client)' BY <1>1, <1>2 DEF Clean, ClientT
<1>4. toReader' \in Seq(RequestT) BY <1>1, <1>2 DEF Wires
<1>. QED BY <1>1, <1>3, <1>4

LEMMA CallTyped ==
    ASSUME TInv, NEW op, NEW s, Keeps(client, s), Call(op, s)
    PROVE  TInv'
<1>1. s \in ClientT /\ ~ s.closed BY DEF Keeps, TInv, Clean
<1>2. Return(s) /\ UNCHANGED << reader, resuming, toClient, sessions >> /\ ops < MaxOps /\ ops' = ops + 1
  BY DEF Call
<1>3. Clean(client)' /\ toReader' \in Seq(RequestT) /\ link' \in BOOLEAN
  BY <1>1, <1>2, ReturnTyped DEF TInv, Rest
<1>4. ops' \in 0 .. MaxOps BY <1>2, OptionAssumption DEF TInv, Rest
<1>. QED BY <1>2, <1>3, <1>4 DEF TInv, Wires, Rest

LEMMA TInvStep == TInv /\ [Next]_vars => TInv'
<1> SUFFICES ASSUME TInv, [Next]_vars PROVE TInv' OBVIOUS
<1>0. client \in ClientT /\ ~ client.closed /\ Wires /\ Rest BY DEF TInv, Clean
<1>1. CASE Connect
  <2>1. Clean(client)' BY <1>0, <1>1, ResetTyped DEF Connect, Clean
  <2>2. PICK ok \in {TRUE} \cup {o # "fail" : o \in Outcomes} :
           toClient' = << [name |-> "READER_EVENT_NOTIFICATION", ok |-> ok] >>
    BY <1>1 DEF Connect
  <2>3. ok \in BOOLEAN OBVIOUS
  <2>4. [name |-> "READER_EVENT_NOTIFICATION", ok |-> ok] \in AnswerT BY <2>3 DEF AnswerT
  <2>5. toClient' \in Seq(AnswerT) BY <2>2, <2>4
  <2>6. sessions' \in 0 .. MaxSessions BY <1>0, <1>1, OptionAssumption DEF Connect, Rest
  <2>. QED BY <1>0, <1>1, <2>1, <2>5, <2>6 DEF Connect, TInv, Wires, Rest
<1>2. CASE Receive
  <2> DEFINE s == HandleMessage(client, Head(toClient))
  <2>1. Head(toClient) \in AnswerT BY <1>0, <1>2 DEF Receive, Wires
  <2>2. s \in ClientT BY <1>0, <2>1, HandleTyped
  <2>3. \/ HangUp(s)
        \/ ~ s.closed /\ Return(s) /\ toClient' = Tail(toClient)
    BY <1>2 DEF Receive
  <2> HIDE DEF s
  <2>4. UNCHANGED << reader, resuming, ops, sessions >> /\ toClient # << >> BY <1>2 DEF Receive
  <2>5. CASE HangUp(s) BY <1>0, <2>2, <2>4, <2>5, HangUpTyped DEF TInv, Rest
  <2>6. CASE ~ s.closed /\ Return(s) /\ toClient' = Tail(toClient)
    <3>1. Clean(client)' /\ toReader' \in Seq(RequestT) /\ link' \in BOOLEAN
      BY <1>0, <2>2, <2>6, ReturnTyped DEF Rest
    <3>2. toClient' \in Seq(AnswerT) BY <1>0, <2>4, <2>6 DEF Wires
    <3>. QED BY <1>0, <2>4, <3>1, <3>2 DEF TInv, Wires, Rest
  <2>. QED BY <2>3, <2>5, <2>6
<1>3. ASSUME NEW name \in Requests, RequestTimeout(name) PROVE TInv'
  <2> DEFINE s == ProcessDeferreds(client, name, FALSE)
  <2>1. s \in ClientT BY <1>0, ProcessTyped
  <2>2. UNCHANGED << reader, resuming, ops, sessions >> BY <1>3 DEF RequestTimeout
  <2>3. \/ HangUp(s)
        \/ /\ ~ s.closed /\ UNCHANGED link
           /\ client' = [s EXCEPT !.sent = << >>, !.raised = FALSE]
           /\ toReader' = MarkLate(name) \o s.sent
           /\ toClient' = WithoutAnswer(name)
    BY <1>3 DEF RequestTimeout
  <2> HIDE DEF s
  <2>4. CASE HangUp(s) BY <1>0, <2>1, <2>2, <2>4, HangUpTyped DEF TInv, Rest
  <2>5. CASE /\ ~ s.closed /\ UNCHANGED link
             /\ client' = [s EXCEPT !.sent = << >>, !.raised = FALSE]
             /\ toReader' = MarkLate(name) \o s.sent
             /\ toClient' = WithoutAnswer(name)
    <3>1. << >> \in Seq(RequestT) /\ s.sent \in Seq(RequestT) BY <2>1 DEF ClientT
    <3>2. Clean(client)' BY <2>1, <2>5, <3>1 DEF Clean, ClientT
    <3>3. MarkLate(name) \in Seq(RequestT)
      <4>1. toReader \in Seq(RequestT) BY <1>0 DEF Wires
      <4>2. ASSUME NEW i \in DOMAIN toReader
            PROVE  [toReader[i] EXCEPT !.late = @ \/ toReader[i].name = name] \in RequestT
        <5>1. toReader[i] \in RequestT BY <4>1
        <5>2. (toReader[i].late \/ toReader[i].name = name) \in BOOLEAN OBVIOUS
        <5>. QED BY <5>1, <5>2 DEF RequestT
      <4>3. DOMAIN toReader = 1 .. Len(toReader) /\ Len(toReader) \in Nat BY <4>1
      <4>4. MarkLate(name) \in [1 .. Len(toReader) -> RequestT] BY <4>2, <4>3 DEF MarkLate
      <4>. QED BY <4>3, <4>4
    <3>4. toReader' \in Seq(RequestT) BY <2>5, <3>1, <3>3
    <3>5. toClient' \in Seq(AnswerT)
      <4>1. toClient \in Seq(AnswerT) BY <1>0 DEF Wires
      <4>2. CASE ~ \E i \in DOMAIN toClient : toClient[i].name = name
        BY <2>5, <4>1, <4>2 DEF WithoutAnswer
      <4>3. CASE \E i \in DOMAIN toClient : toClient[i].name = name
        <5> DEFINE k == CHOOSE i \in DOMAIN toClient : toClient[i].name = name
        <5>1. k \in DOMAIN toClient BY <4>3
        <5>2. toClient' = SubSeq(toClient, 1, k - 1) \o SubSeq(toClient, k + 1, Len(toClient))
          BY <2>5, <4>3 DEF WithoutAnswer
        <5> HIDE DEF k
        <5>3. k \in 1 .. Len(toClient) /\ Len(toClient) \in Nat BY <4>1, <5>1
        <5>4. SubSeq(toClient, 1, k - 1) \in Seq(AnswerT)
          BY <4>1, <5>3, SubSeqProperties
        <5>5. SubSeq(toClient, k + 1, Len(toClient)) \in Seq(AnswerT)
          BY <4>1, <5>3, SubSeqProperties
        <5>. QED BY <5>2, <5>4, <5>5
      <4>. QED BY <4>2, <4>3
    <3>. QED BY <1>0, <2>2, <2>5, <3>2, <3>4, <3>5 DEF TInv, Wires, Rest
  <2>. QED BY <2>3, <2>4, <2>5
<1>4. CASE LoseConnection
  <2> DEFINE s == SetState(client, "DISCONNECTED")
  <2>1. s \in ClientT BY <1>0, SetStateTyped, StateNames DEF Keeps
  <2>2. HangUp(s) /\ UNCHANGED << reader, resuming, ops, sessions >> BY <1>4 DEF LoseConnection
  <2> HIDE DEF s
  <2>. QED BY <1>0, <2>1, <2>2, HangUpTyped DEF TInv, Rest
<1>5. CASE CallStart
  <2>1. "user" \in Labels BY DEF Labels
  <2>2. Keeps(client, StartInventory(client, FALSE, "user")) BY <1>0, <2>1, StartInventoryTyped
  <2>. QED BY <1>5, <2>2, CallTyped DEF CallStart
<1>6. CASE CallPause
  <2>1. PICK op \in {"pause", "force_pause"}, how \in {"pause", "timed", "timed_regen"} :
           Call(op, Pause(client, how, op = "force_pause", how = "timed_regen"))
    BY <1>6 DEF CallPause
  <2>2. how \in Labels /\ (op = "force_pause") \in BOOLEAN /\ (how = "timed_regen") \in BOOLEAN
    BY DEF Labels
  <2>3. Keeps(client, Pause(client, how, op = "force_pause", how = "timed_regen"))
    BY <1>0, <2>2, PauseTyped
  <2>. QED BY <2>1, <2>3, CallTyped
<1>7. CASE CallResume
  <2>1. PICK regen \in BOOLEAN : Call("resume", Resume(client, regen)) BY <1>7 DEF CallResume
  <2>2. Keeps(client, Resume(client, regen)) BY <1>0, ResumeTyped
  <2>. QED BY <2>1, <2>2, CallTyped
<1>8. CASE CallSetTxPower
  <2>1. PICK c \in Configs, op \in {"txpower", "txpower_any"} : Call(op, SetTxPower(client, c.rospec))
    BY <1>8 DEF CallSetTxPower
  <2>2. c.rospec \in Nat \ {0} BY ConfigAssumption DEF ConfigType
  <2>3. Keeps(client, SetTxPower(client, c.rospec)) BY <1>0, <2>2, SetTxPowerTyped
  <2>. QED BY <2>1, <2>3, CallTyped
<1>9. CASE CallApplyConfig
  <2>1. PICK c \in Configs : Call("apply", ApplyConfig(client, c)) BY <1>9 DEF CallApplyConfig
  <2>2. c \in ConfigType BY ConfigAssumption
  <2>3. Keeps(client, ApplyConfig(client, c)) BY <1>0, <2>2, ApplyConfigTyped
  <2>. QED BY <2>1, <2>3, CallTyped
<1>10. CASE CallDisconnect
  <2>1. Keeps(client, Disconnect(client)) BY <1>0, DisconnectTyped
  <2>. QED BY <1>10, <2>1, CallTyped DEF CallDisconnect
<1>11. CASE TimerElapses
  <2>1. client' = [client EXCEPT !.timer = "off"] BY <1>11 DEF TimerElapses
  <2>2. Clean(client)' BY <2>1 DEF TInv, Clean, ClientT, Timers
  <2>3. resuming' \subseteq [regen : BOOLEAN, generation : Nat]
    <3>1. client.generation \in Nat /\ (client.timer = "regen") \in BOOLEAN BY <1>0 DEF ClientT
    <3>2. [regen |-> client.timer = "regen", generation |-> client.generation]
            \in [regen : BOOLEAN, generation : Nat]
      BY <3>1
    <3>. QED BY <1>0, <1>11, <3>2 DEF TimerElapses, Rest
  <2>. QED BY <1>0, <1>11, <2>2, <2>3 DEF TimerElapses, TInv, Wires, Rest
<1>12. CASE TimedResume
  <2>1. PICK t \in resuming :
          /\ resuming' = resuming \ {t}
          /\ Return(IF client.state = "PAUSED" THEN ResumeInventory(client, t.regen) ELSE client)
          /\ UNCHANGED << reader, toClient, ops, sessions >>
    BY <1>12 DEF TimedResume
  <2> DEFINE s == IF client.state = "PAUSED" THEN ResumeInventory(client, t.regen) ELSE client
  <2>2. t.regen \in BOOLEAN BY <1>0 DEF Rest
  <2>3. s \in ClientT /\ ~ s.closed
    <3>1. Keeps(client, ResumeInventory(client, t.regen)) BY <1>0, <2>2, ResumeInventoryTyped
    <3>. QED BY <1>0, <3>1 DEF Keeps
  <2>4. Return(s) BY <2>1
  <2> HIDE DEF s
  <2>5. Clean(client)' /\ toReader' \in Seq(RequestT) /\ link' \in BOOLEAN
    BY <1>0, <2>3, <2>4, ReturnTyped DEF Rest
  <2>. QED BY <1>0, <2>1, <2>5 DEF TInv, Wires, Rest
<1>13. ASSUME NEW outcome \in Outcomes, ReaderHandles(outcome) PROVE TInv'
  <2> DEFINE m == Head(toReader)
             ok == outcome # "fail" /\ Acceptable(m)
  <2>1. /\ toReader # << >> /\ toReader' = Tail(toReader)
        /\ reader' = IF ok THEN Obey(m) ELSE reader
        /\ toClient' = toClient \/ toClient' = Append(toClient, [name |-> m.name, ok |-> ok])
        /\ UNCHANGED << client, link, resuming, ops, sessions >>
    BY <1>13 DEF ReaderHandles
  <2>2. m \in RequestT /\ Tail(toReader) \in Seq(RequestT) BY <1>0, <2>1 DEF Wires
  <2> HIDE DEF m
  <2>3. Obey(m) \in ReaderT
    <3>1. m.data \in Nat /\ NoROSpec \in Nat /\ reader \in ReaderT
      BY <1>0, <2>2 DEF RequestT, Rest, NoROSpec
    <3>2. CASE m.name = "ADD_ROSPEC" BY <3>1, <3>2 DEF Obey, ReaderT
    <3>3. CASE m.name = "DELETE_ROSPEC" BY <3>1, <3>3 DEF Obey, ReaderT
    <3>4. CASE m.name = "ENABLE_ROSPEC" BY <3>1, <3>4 DEF Obey, ReaderT
    <3>5. CASE m.name = "DISABLE_ROSPEC" BY <3>1, <3>5 DEF Obey, ReaderT
    <3>6. CASE m.name = "SET_READER_CONFIG" BY <3>1, <3>6 DEF Obey, ReaderT
    <3>7. CASE m.name \notin {"ADD_ROSPEC", "DELETE_ROSPEC", "ENABLE_ROSPEC", "DISABLE_ROSPEC",
                              "SET_READER_CONFIG"}
      BY <3>1, <3>7 DEF Obey
    <3>. QED BY <3>2, <3>3, <3>4, <3>5, <3>6, <3>7
  <2>4. ok \in BOOLEAN
    <3>1. Acceptable(m) \in BOOLEAN
      <4>1. CASE m.name = "ADD_ROSPEC" BY <4>1 DEF Acceptable
      <4>2. CASE m.name \in {"ENABLE_ROSPEC", "DISABLE_ROSPEC"} BY <4>2 DEF Acceptable
      <4>3. CASE m.name \notin {"ADD_ROSPEC", "ENABLE_ROSPEC", "DISABLE_ROSPEC"} BY <4>3 DEF Acceptable
      <4>. QED BY <4>1, <4>2, <4>3
    <3>. QED BY <3>1
  <2> HIDE DEF ok
  <2> DEFINE a == [name |-> m.name, ok |-> ok]
  <2>5. a \in AnswerT BY <2>2, <2>4 DEF RequestT, AnswerT
  <2>6. toClient' \in Seq(AnswerT)
    <3>1. toClient' = toClient \/ toClient' = Append(toClient, a) BY <2>1
    <3>2. toClient \in Seq(AnswerT) BY <1>0 DEF Wires
    <3> HIDE DEF a
    <3>3. Append(toClient, a) \in Seq(AnswerT) BY <3>2, <2>5
    <3>. QED BY <3>1, <3>2, <3>3
  <2>7. reader' \in ReaderT BY <1>0, <2>1, <2>3 DEF Rest
  <2>8. Clean(client)' BY <2>1 DEF TInv, Clean
  <2>. QED BY <1>0, <2>1, <2>2, <2>6, <2>7, <2>8 DEF TInv, Wires, Rest
<1>14. CASE UNCHANGED vars BY <1>14 DEF vars, TInv, Clean, Wires, Rest
<1>. QED BY <1>1, <1>2, <1>3, <1>4, <1>5, <1>6, <1>7, <1>8, <1>9, <1>10, <1>11, <1>12, <1>13, <1>14
         DEF Next

LEMMA InitTInv == Init => TInv
<1> SUFFICES ASSUME Init PROVE TInv OBVIOUS
<1> DEFINE o == [n \in Requests |-> Nobody]
<1>1. o \in Outstanding BY DEF Outstanding, Waiting
<1>2. InitialConfig \in ConfigType BY ConfigAssumption
<1>3. NoTransition \in TransitionT BY <1>2 DEF NoTransition, TransitionT, Statuses, Settled
<1>4. NoROSpec \in Nat /\ NoConfig \in Snapshot /\ "DISCONNECTED" \in States /\ << >> \in Seq(RequestT)
      /\ << >> \in Seq(AnswerT) /\ "off" \in Timers /\ 0 \in Nat
  BY StateNames DEF NoROSpec, Snapshot, Timers
<1>5. client = [state |-> "DISCONNECTED", outstanding |-> o,
                config |-> InitialConfig, rospec |-> NoROSpec,
                applied |-> NoConfig, added |-> FALSE, suppress |-> FALSE,
                disconnecting |-> FALSE, timer |-> "off", generation |-> 0,
                transition |-> NoTransition, sent |-> << >>,
                raised |-> FALSE, closed |-> FALSE]
  BY DEF Init
<1> HIDE DEF o
<1>6. Clean(client) BY <1>1, <1>2, <1>3, <1>4, <1>5 DEF Clean, ClientT
<1>7. Wires BY <1>4 DEF Init, Wires
<1>8. Rest
  <2>1. reader = [rospec |-> NoROSpec, enabled |-> FALSE, config |-> 0] /\ link = FALSE
        /\ resuming = {} /\ ops = 0 /\ sessions = 0
    BY DEF Init
  <2>2. reader \in ReaderT BY <2>1, <1>4 DEF ReaderT
  <2>3. 0 \in 0 .. MaxOps /\ 0 \in 0 .. MaxSessions BY OptionAssumption
  <2>. QED BY <2>1, <2>2, <2>3 DEF Rest
<1>. QED BY <1>6, <1>7, <1>8 DEF TInv

(***************************************************************************)
(* TypeCorrect: LLRPClient's fields keep their types, whenever the         *)
(* application calls, whatever the reader answers and whichever requests   *)
(* time out.  In particular a completion callback is registered only for   *)
(* a response it knows how to take, a transition always has a settled      *)
(* state to return to, and no method called by the application closes the  *)
(* connection.                                                             *)
(***************************************************************************)
THEOREM TypeCorrect == Spec => []TypeOK
<1>1. Spec => []TInv BY InitTInv, TInvStep, PTL DEF Spec
<1>2. TInv => TypeOK
  <2> SUFFICES ASSUME TInv PROVE TypeOK OBVIOUS
  <2>1. client \in ClientT /\ client.sent = << >> /\ ~ client.raised /\ ~ client.closed
    BY DEF TInv, Clean
  <2>2. client.outstanding \in [Requests -> Labels \cup {Nobody}] BY <2>1 DEF ClientT, Outstanding
  <2>3. client.transition.status \in Statuses BY <2>1 DEF ClientT, TransitionT
  <2>4. Rest BY DEF TInv
  <2>5. reader.rospec \in Nat /\ reader.enabled \in BOOLEAN /\ reader.config \in Nat
    BY <2>4 DEF Rest, ReaderT
  <2>6. {client.added, client.suppress, client.disconnecting, client.raised, client.closed}
          \subseteq BOOLEAN
    BY <2>1 DEF ClientT
  <2>7. client.state \in States /\ client.config \in ConfigType /\ client.rospec \in Nat
        /\ client.applied \in ConfigType \cup {NoConfig} /\ client.timer \in Timers
        /\ client.generation \in Nat
    BY <2>1 DEF ClientT, Snapshot
  <2>. QED BY <2>1, <2>2, <2>3, <2>4, <2>5, <2>6, <2>7 DEF TypeOK, Rest, Statuses, Timers
<1>. QED BY <1>1, <1>2, PTL
=============================================================================
