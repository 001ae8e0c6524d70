------------------------------ MODULE Session ------------------------------
(***************************************************************************)
(* The protocol session of LLRPClient (llrp.py): the connection handshake, *)
(* inventory, pause and resume, and the apply_config transaction with its  *)
(* rollback, against a reader at the other end of a connection.            *)
(*                                                                         *)
(* The client's state is one record, and every method of LLRPClient is an  *)
(* operator from the record before to the record after: a method that ends *)
(* in _send_request ends in Send, the callback it passes is named by a     *)
(* label, and Completed runs the label when the response (or the timeout)  *)
(* comes.  A step is one whole handler on one thread.                      *)
(*                                                                         *)
(* Requests are correlated as RequestSlots allows: one outstanding request *)
(* per response name, each completed at most once, a late or repeated      *)
(* response ignored (PendingRequests shows the code does that).            *)
(***************************************************************************)
EXTENDS Naturals, Sequences, FiniteSets

CONSTANTS
    Configs,       \* the configurations an application uses
    InitialConfig, \* the configuration the client is created with
    Unsupported,   \* ROSpec settings outside the reader's capabilities
    Impinj,        \* _uses_impinj_extensions()
    ResetOnConnect,\* config.reset_on_connect
    StartInventoryOnConnect, \* config.start_inventory
    Ops,           \* the operations the application calls
    MaxOps,        \* bound on the application's calls
    AnyTime,       \* the application calls at any time (see Opportune)
    Outcomes,      \* how the reader may treat a request: "ok", "fail", "silent"
    Timeouts,      \* config.request_timeout is set
    MayLose,       \* the connection may break
    MaxSessions    \* bound on the connections of a behaviour

(* A configuration is three values: its client-only fields, the fields a   *)
(* ROSpec is generated from, and the fields SET_READER_CONFIG writes       *)
(* (CONFIG_FIELD_POLICY).  ROSpec setting 0 does not occur: see NoROSpec.  *)
ConfigType == [client : Nat, rospec : Nat \ {0}, reader : Nat]

ASSUME ConfigAssumption ==
    /\ Configs \subseteq ConfigType
    /\ InitialConfig \in Configs
    /\ InitialConfig.rospec \notin Unsupported
ASSUME OptionAssumption ==
    /\ {Impinj, ResetOnConnect, StartInventoryOnConnect, AnyTime, Timeouts, MayLose}
         \subseteq BOOLEAN
    /\ Ops \subseteq {"start", "pause", "force_pause", "resume", "apply", "txpower",
                     "txpower_any", "disconnect"}
    /\ Outcomes \subseteq {"ok", "fail", "silent"} /\ Outcomes # {}
    /\ MaxOps \in Nat /\ MaxSessions \in Nat \ {0}

VARIABLES
    client,    \* LLRPClient
    reader,    \* the reader: its ROSpec, whether enabled, its configuration
    toReader,  \* requests in flight
    toClient,  \* responses and events in flight
    link,      \* the transport is connected
    resuming,  \* timed_resume threads past their generation check
    ops,       \* calls the application has made
    sessions   \* connections made

vars == << client, reader, toReader, toClient, link, resuming, ops, sessions >>

Requests ==
    {"IMPINJ_ENABLE_EXTENSIONS", "GET_READER_CAPABILITIES", "GET_READER_CONFIG",
     "SET_READER_CONFIG", "DELETE_ACCESSSPEC", "DELETE_ROSPEC", "ADD_ROSPEC",
     "ENABLE_ROSPEC", "DISABLE_ROSPEC"}

(* The LLRPReaderState that sending a request leads to. *)
SentState ==
    [n \in Requests |->
       CASE n = "IMPINJ_ENABLE_EXTENSIONS" -> "SENT_ENABLE_IMPINJ_EXTENSIONS"
         [] n = "GET_READER_CAPABILITIES"  -> "SENT_GET_CAPABILITIES"
         [] n = "GET_READER_CONFIG"        -> "SENT_GET_CONFIG"
         [] n = "SET_READER_CONFIG"        -> "SENT_SET_CONFIG"
         [] n = "DELETE_ACCESSSPEC"        -> "SENT_DELETE_ACCESSSPEC"
         [] n = "DELETE_ROSPEC"            -> "SENT_DELETE_ROSPEC"
         [] n = "ADD_ROSPEC"               -> "SENT_ADD_ROSPEC"
         [] n = "ENABLE_ROSPEC"            -> "SENT_ENABLE_ROSPEC"
         [] n = "DISABLE_ROSPEC"           -> "PAUSING"]

States == {"DISCONNECTED", "CONNECTED", "INVENTORYING", "PAUSED"}
            \cup { SentState[n] : n \in Requests }

NoROSpec == 0           \* no ROSpec cached, or none on the reader
NoConfig == [client |-> 0, rospec |-> NoROSpec, reader |-> 0]
Nobody   == "nobody"    \* no request of this name is outstanding

(* Completion callbacks: what is to happen after a response. *)
Labels == {"setup", "connect", "txpower", "disconnect", "apply", "applied",
           "restarted", "undo", "cleanup", "restored", "resume", "user",
           "pause", "timed", "timed_regen"}

NoTransition ==
    [status |-> "none", old |-> InitialConfig, new |-> InitialConfig,
     original |-> "CONNECTED", written |-> FALSE]

TypeOK ==
    /\ client.state \in States
    /\ client.outstanding \in [Requests -> Labels \cup {Nobody}]
    /\ client.config \in ConfigType
    /\ client.rospec \in Nat
    /\ client.applied \in ConfigType \cup {NoConfig}
    /\ {client.added, client.suppress, client.disconnecting,
        client.raised, client.closed} \subseteq BOOLEAN
    /\ client.timer \in {"off", "plain", "regen"}
    /\ client.transition.status \in {"none", "pending", "success", "failed", "abandoned"}
    /\ client.sent = << >> /\ ~ client.raised /\ ~ client.closed
    /\ reader.rospec \in Nat /\ reader.enabled \in BOOLEAN /\ reader.config \in Nat
    /\ link \in BOOLEAN
    /\ client.generation \in Nat
    /\ resuming \subseteq [regen : BOOLEAN, generation : Nat]
    /\ ops \in 0 .. MaxOps /\ sessions \in 0 .. MaxSessions

-----------------------------------------------------------------------------
(* Primitives. *)

(* _cancel_pause_resume_timer: the generation moves on. *)
CancelTimer(s) == [s EXCEPT !.timer = "off", !.generation = @ + 1]

SetState(s, state) ==
    LET t == [s EXCEPT !.state = state] IN
    CASE state = "DISCONNECTED" -> [CancelTimer(t) EXCEPT !.applied = NoConfig]
      [] state = "INVENTORYING" -> [t EXCEPT !.applied = s.config]
      [] OTHER -> t

Raise(s) == [s EXCEPT !.raised = TRUE]

(***************************************************************************)
(* _send_request: refused while a request that expects the same response   *)
(* is outstanding; otherwise the callback is registered, the state entered *)
(* and the message written.                                                *)
(***************************************************************************)
Send(s, name, label, data) ==
    IF s.outstanding[name] # Nobody THEN Raise(s)
    ELSE [SetState(s, SentState[name]) EXCEPT
            !.outstanding[name] = label,
            !.sent = Append(@, [name |-> name, data |-> data, late |-> FALSE])]

Succeed(s) == [s EXCEPT !.transition.status = "success"]

(* Faulty variant: a status that is not one of the documented three. *)
FailMisnamed(s) ==
    [s EXCEPT !.transition.status = "error",
              !.closed = @ \/ s.state = "DISCONNECTED"]

(* fail() notifies LLRPReaderClient.apply_config's completed(), which hard- *)
(* disconnects when the protocol client has given up.                      *)
Fail(s) ==
    [s EXCEPT !.transition.status = "failed",
              !.closed = @ \/ s.state = "DISCONNECTED"]

(* getROSpec *)
GetROSpec(s, forceNew) ==
    IF s.rospec # NoROSpec /\ ~ forceNew THEN s
    ELSE [s EXCEPT !.rospec = s.config.rospec]

(* A start while inventorying is a success at once; the callers that pass a *)
(* completion have left that state.                                         *)
StartInventory(s, forceRegen, label) ==
    IF s.state = "INVENTORYING" THEN s
    ELSE LET t == [GetROSpec(s, forceRegen) EXCEPT !.added = FALSE]
         IN  Send(t, "ADD_ROSPEC", label, t.rospec)

StopAllROSpecs(s, label) == Send(s, "DELETE_ROSPEC", label, 0)

StopPolitely(s, label) == Send(s, "DELETE_ACCESSSPEC", label, 0)

SendSetReaderConfig(s, label) == Send(s, "SET_READER_CONFIG", label, s.config.reader)

(* _install_runtime_config; CapabilitiesMatch is what parseCapabilities     *)
(* then requires of the configuration.                                     *)
InstallRuntimeConfig(s, config) == [s EXCEPT !.config = config, !.rospec = NoROSpec]

CapabilitiesMatch(config) == config.rospec \notin Unsupported

-----------------------------------------------------------------------------
(* apply_config: the parts of the transaction that run as callbacks.        *)

FinishRestore(s) ==
    CASE s.transition.original = "INVENTORYING" ->
           StartInventory(SetState(s, "CONNECTED"), TRUE, "restored")
      [] OTHER -> Fail(SetState(s, s.transition.original))

CleanupReplacement(s) ==
    IF s.transition.original = "INVENTORYING" /\ s.added
      THEN StopAllROSpecs(SetState(s, "CONNECTED"), "cleanup")
      ELSE FinishRestore(s)

(* Faulty variant: a reader configuration already written is not undone. *)
RestoreOldLocally(s) == CleanupReplacement(InstallRuntimeConfig(s, s.transition.old))

RestoreOld(s) ==
    LET t == InstallRuntimeConfig(s, s.transition.old) IN
    IF s.transition.written
      THEN SendSetReaderConfig([SetState(t, "CONNECTED") EXCEPT !.suppress = TRUE],
                               "undo")
      ELSE CleanupReplacement(t)

(* Faulty variant: success is reported when the restart is requested. *)
FinishNewStateEarly(s) ==
    CASE s.transition.original = "INVENTORYING" ->
           Succeed(StartInventory(SetState(s, "CONNECTED"), TRUE, "user"))
      [] OTHER -> Succeed(SetState(s, s.transition.original))

FinishNewState(s) ==
    CASE s.transition.original = "INVENTORYING" ->
           StartInventory(SetState(s, "CONNECTED"), TRUE, "restarted")
      [] OTHER -> Succeed(SetState(s, s.transition.original))

NeedsReaderWrite(s) == s.transition.old.reader # s.transition.new.reader

AfterStopped(s, ok) ==
    IF ~ ok THEN Fail(SetState(s, s.transition.original))
    ELSE LET t == InstallRuntimeConfig(SetState(s, "CONNECTED"), s.transition.new) IN
         CASE ~ CapabilitiesMatch(t.config) -> RestoreOld(t)
           [] CapabilitiesMatch(t.config) /\ NeedsReaderWrite(s) ->
                SendSetReaderConfig([t EXCEPT !.suppress = TRUE], "applied")
           [] OTHER -> FinishNewState(t)

(* Faulty variant: giving up without ending the transition. *)
GiveUpQuietly(s) == SetState(s, "DISCONNECTED")

GiveUp(s) == Fail(SetState(s, "DISCONNECTED"))

-----------------------------------------------------------------------------
(* Completion callbacks. *)

(* What the caller of startInventory asked to be told. *)
InventoryStarted(s, label, ok) ==
    CASE label = "restarted" -> IF ok THEN Succeed(s) ELSE RestoreOld(s)
      [] label = "restored"  -> IF ok THEN Fail(s) ELSE GiveUp(s)
      [] OTHER -> s

(* Faulty variant: the transport stays open after a successful stop. *)
DisconnectStoppedOpen(s, ok) == IF ok THEN s ELSE [s EXCEPT !.closed = TRUE]

(* LLRPReaderClient.disconnect's on_politely_stopped_cb: hard_disconnect,   *)
(* whatever the outcome.                                                    *)
DisconnectStopped(s, ok) ==
    LET t == IF ok THEN SetState(s, "DISCONNECTED") ELSE s
    IN  [t EXCEPT !.closed = TRUE]

(* What the caller of stopPolitely or stopAllROSpecs asked to be told. *)
Stopped(s, label, ok) ==
    CASE label = "connect" ->
           IF ~ ok THEN s
           ELSE IF StartInventoryOnConnect
                  THEN StartInventory(SetState(s, "CONNECTED"), FALSE, "user")
                  ELSE SetState(s, "CONNECTED")
      [] label \in {"txpower", "resume"} ->
           IF ok THEN StartInventory(SetState(s, "CONNECTED"), TRUE, "user") ELSE s
      [] label = "disconnect" -> DisconnectStopped(s, ok)
      [] label = "apply"   -> AfterStopped(s, ok)
      [] label = "cleanup" -> IF ok THEN FinishRestore(s) ELSE GiveUp(s)

ReaderConfigSet(s, label, ok) ==
    CASE label = "setup"   -> IF ok THEN SetState(s, "SENT_SET_CONFIG") ELSE s
      [] label = "applied" ->
           IF ok THEN FinishNewState([s EXCEPT !.transition.written = TRUE])
                 ELSE RestoreOld(s)
      [] label = "undo"    -> IF ok THEN CleanupReplacement(s) ELSE GiveUp(s)

(* disable_rospec_pause_cb: the resume timer starts with the acknowledgement. *)
Paused(s, label, ok) ==
    IF ~ ok THEN s
    ELSE LET t == SetState(s, "PAUSED") IN
         CASE label = "timed"       -> [CancelTimer(t) EXCEPT !.timer = "plain"]
           [] label = "timed_regen" -> [CancelTimer(t) EXCEPT !.timer = "regen"]
           [] OTHER -> t

(* Faulty variant: the new state is not entered. *)
RospecEnabledSilent(s, label, ok) == InventoryStarted(s, label, ok)

(* Faulty variant: is_success is not looked at. *)
RospecEnabledAlways(s, label, ok) ==
    InventoryStarted(SetState(s, "INVENTORYING"), label, ok)

RospecEnabled(s, label, ok) ==
    LET t == IF ok THEN SetState(s, "INVENTORYING") ELSE s
    IN  InventoryStarted(t, label, ok)

(* Faulty variant: the polite stop ends after the AccessSpecs. *)
AccessSpecsDeletedOnly(s, label, ok) == Stopped(s, label, ok)

(* send_delete_accessspec_cb: the ROSpecs are next. *)
AccessSpecsDeleted(s, label, ok) ==
    IF ok THEN StopAllROSpecs(s, label) ELSE Stopped(s, label, FALSE)

(* The callback registered for a request, run with its outcome. *)
Completed(s, name, label, ok) ==
    CASE name = "IMPINJ_ENABLE_EXTENSIONS" ->
           IF ok THEN Send(s, "GET_READER_CAPABILITIES", "setup", 0) ELSE Raise(s)
      [] name = "GET_READER_CAPABILITIES" -> IF ok THEN SetState(s, "CONNECTED") ELSE s
      [] name = "GET_READER_CONFIG" -> IF ok THEN SetState(s, "SENT_GET_CONFIG") ELSE s
      [] name = "SET_READER_CONFIG" -> ReaderConfigSet(s, label, ok)
      [] name = "DELETE_ACCESSSPEC" ->
           AccessSpecsDeleted(s, label, ok)
      [] name = "DELETE_ROSPEC" ->
           Stopped([s EXCEPT !.rospec = NoROSpec, !.added = @ /\ ~ ok], label, ok)
      [] name = "ADD_ROSPEC" ->
           IF ok THEN Send([s EXCEPT !.added = TRUE], "ENABLE_ROSPEC", label, 0)
                 ELSE InventoryStarted(s, label, FALSE)
      [] name = "ENABLE_ROSPEC"  -> RospecEnabled(s, label, ok)
      [] name = "DISABLE_ROSPEC" -> Paused(s, label, ok)

(* processDeferreds *)
ProcessDeferreds(s, name, ok) ==
    LET label == s.outstanding[name] IN
    IF label = Nobody THEN s
    ELSE Completed([s EXCEPT !.outstanding[name] = Nobody], name, label, ok)

-----------------------------------------------------------------------------
(* handleMessage: what a response does in each state.                       *)

(* The connection event starts the handshake; it is ignored once started.  *)
HandleConnectionEvent(s, ok) ==
    CASE s.state # "DISCONNECTED" \/ ~ ok -> s
      [] OTHER ->
           LET t == [s EXCEPT !.disconnecting = FALSE] IN
           IF Impinj THEN Send(t, "IMPINJ_ENABLE_EXTENSIONS", "setup", 0)
                     ELSE Send(t, "GET_READER_CAPABILITIES", "setup", 0)

(* A failure the handler cannot survive: callbacks run, then it raises. *)
FatalFailure(s, name) == Raise(ProcessDeferreds(s, name, FALSE))

InSentImpinj(s, name, ok) ==
    CASE name # "IMPINJ_ENABLE_EXTENSIONS" -> Raise(s)
      [] ~ ok  -> FatalFailure(s, name)
      [] OTHER -> ProcessDeferreds(s, name, TRUE)

InSentGetCapabilities(s, name, ok) ==
    CASE name # "GET_READER_CAPABILITIES" -> Raise(s)
      [] name = "GET_READER_CAPABILITIES" /\ ~ ok -> FatalFailure(s, name)
      [] name = "GET_READER_CAPABILITIES" /\ ok /\ ~ CapabilitiesMatch(s.config) -> Raise(s)
      [] OTHER ->
           LET t == ProcessDeferreds(s, name, TRUE) IN
           IF t.disconnecting THEN t ELSE Send(t, "GET_READER_CONFIG", "setup", 0)

InSentGetConfig(s, name, ok) ==
    IF name \notin {"GET_READER_CONFIG", "DELETE_ACCESSSPEC", "DELETE_ROSPEC"} THEN Raise(s)
    ELSE IF ~ ok THEN FatalFailure(s, name)
    ELSE LET t == ProcessDeferreds(s, name, TRUE) IN
         IF t.raised \/ t.disconnecting THEN t ELSE SendSetReaderConfig(t, "setup")

(* After the handshake: reset the reader, or start, or stay as it is. *)
PostSetConfig(s) ==
    CASE s.raised \/ s.disconnecting -> s
      [] ~ s.raised /\ ~ s.disconnecting /\ ResetOnConnect -> StopPolitely(s, "connect")
      [] ~ s.raised /\ ~ s.disconnecting /\ ~ ResetOnConnect /\ StartInventoryOnConnect ->
           StartInventory(s, FALSE, "user")
      [] OTHER -> s

InSentSetConfig(s, name, ok) ==
    IF name \notin {"SET_READER_CONFIG", "GET_READER_CONFIG", "DELETE_ACCESSSPEC"} THEN Raise(s)
    ELSE LET t == [s EXCEPT !.suppress = FALSE] IN
         CASE s.suppress /\ ok   -> ProcessDeferreds(SetState(t, "CONNECTED"), name, TRUE)
           [] s.suppress /\ ~ ok -> ProcessDeferreds(t, name, FALSE)
           [] ~ s.suppress /\ ok -> PostSetConfig(ProcessDeferreds(t, name, TRUE))
           [] OTHER              -> FatalFailure(t, name)

InSentAddRospec(s, name, ok) ==
    IF name # "ADD_ROSPEC" THEN Raise(s)
    ELSE LET t == ProcessDeferreds(s, name, ok) IN
         IF ~ ok /\ t.state = "SENT_ADD_ROSPEC" /\ t.sent = << >> THEN Raise(t) ELSE t

HandleResponse(s, name, ok) ==
    CASE s.state \in {"DISCONNECTED", "CONNECTED", "PAUSED"} -> s
      [] s.state = "SENT_ENABLE_IMPINJ_EXTENSIONS" -> InSentImpinj(s, name, ok)
      [] s.state = "SENT_GET_CAPABILITIES" -> InSentGetCapabilities(s, name, ok)
      [] s.state = "SENT_GET_CONFIG"       -> InSentGetConfig(s, name, ok)
      [] s.state = "SENT_SET_CONFIG"       -> InSentSetConfig(s, name, ok)
      [] s.state = "SENT_ADD_ROSPEC"       -> InSentAddRospec(s, name, ok)
      [] s.state = "SENT_ENABLE_ROSPEC" ->
           IF name # "ENABLE_ROSPEC" THEN s ELSE ProcessDeferreds(s, name, ok)
      [] s.state = "INVENTORYING" ->
           IF name # "DELETE_ACCESSSPEC" THEN s ELSE ProcessDeferreds(s, name, ok)
      [] OTHER -> ProcessDeferreds(s, name, ok)

HandleMessage(s, m) ==
    IF m.name = "READER_EVENT_NOTIFICATION" THEN HandleConnectionEvent(s, m.ok)
    ELSE HandleResponse(s, m.name, m.ok)

-----------------------------------------------------------------------------
(* The application's calls.                                                 *)

Pause(s, label, force, regen) ==
    IF s.state # "INVENTORYING" /\ ~ force THEN s
    ELSE Send(GetROSpec(CancelTimer(s), regen), "DISABLE_ROSPEC", label, 0)

ResumeInventory(s, regen) ==
    CASE s.state \in {"CONNECTED", "DISCONNECTED"} -> StartInventory(s, regen, "user")
      [] s.state = "PAUSED" /\ s.rospec = NoROSpec ->
           StartInventory(SetState(s, "CONNECTED"), TRUE, "user")
      [] s.state = "PAUSED" /\ s.rospec # NoROSpec /\ regen -> StopAllROSpecs(s, "resume")
      [] s.state = "PAUSED" /\ s.rospec # NoROSpec /\ ~ regen ->
           Send(s, "ENABLE_ROSPEC", "resume", 0)
      [] OTHER -> s

Resume(s, regen) == ResumeInventory(CancelTimer(s), regen)

(* setTxPower changes the configuration in place, then restarts inventory. *)
SetTxPower(s, rospec) ==
    LET t == [s EXCEPT !.config.rospec = rospec] IN
    IF s.state = "INVENTORYING" /\ t # s THEN StopPolitely(t, "txpower") ELSE t

(* disconnect(): a polite stop whose completion closes the connection. *)
Disconnect(s) == StopPolitely([s EXCEPT !.disconnecting = TRUE], "disconnect")

ClientOnly(old, new) == new = [old EXCEPT !.client = new.client]

(* apply_config, up to its first request. *)
BeginTransition(s, new) ==
    LET t == [s EXCEPT !.transition =
                [status |-> "pending", old |-> s.config, new |-> new,
                 original |-> s.state, written |-> FALSE]]
    IN  CASE s.state = "INVENTORYING" -> StopPolitely(t, "apply")
          [] s.state = "PAUSED" -> StopAllROSpecs(CancelTimer(t), "apply")
          [] OTHER -> AfterStopped(t, TRUE)

(* A transition whose first request is refused was never started. *)
ApplyConfig(s, new) ==
    CASE s.state = "DISCONNECTED" -> InstallRuntimeConfig(s, new)
      [] s.state # "DISCONNECTED" /\ ClientOnly(s.config, new) -> [s EXCEPT !.config = new]
      [] s.state \in {"CONNECTED", "INVENTORYING", "PAUSED"}
           /\ ~ ClientOnly(s.config, new) ->
           LET t == BeginTransition(s, new) IN
           IF t.raised THEN [t EXCEPT !.transition = s.transition] ELSE t
      [] OTHER -> s

-----------------------------------------------------------------------------
(* Steps. *)

(***************************************************************************)
(* _reset_protocol_session.  Callbacks are discarded; a transition whose   *)
(* next callback was among them keeps the status "pending" for good, which *)
(* is written "abandoned" here.                                            *)
(***************************************************************************)
ResetSession(s) ==
    [CancelTimer(s) EXCEPT
              !.state = "DISCONNECTED",
              !.outstanding = [n \in Requests |-> Nobody],
              !.rospec = NoROSpec, !.added = FALSE, !.suppress = FALSE,
              !.applied = NoConfig, !.disconnecting = FALSE,
              !.sent = << >>, !.raised = FALSE, !.closed = FALSE,
              !.transition.status = IF @ = "pending" THEN "abandoned" ELSE @]

Init ==
    /\ client = [state |-> "DISCONNECTED",
                 outstanding |-> [n \in Requests |-> Nobody],
                 config |-> InitialConfig, rospec |-> NoROSpec,
                 applied |-> NoConfig, added |-> FALSE, suppress |-> FALSE,
                 disconnecting |-> FALSE, timer |-> "off", generation |-> 0,
                 transition |-> NoTransition, sent |-> << >>,
                 raised |-> FALSE, closed |-> FALSE]
    /\ reader = [rospec |-> NoROSpec, enabled |-> FALSE, config |-> 0]
    /\ toReader = << >> /\ toClient = << >>
    /\ link = FALSE
    /\ resuming = {}
    /\ ops = 0 /\ sessions = 0

(* The connection is gone: hard_disconnect after whatever s did. *)
HangUp(s) ==
    /\ client' = ResetSession(s)
    /\ link' = FALSE
    /\ toReader' = << >> /\ toClient' = << >>

(* The handler returned: what it wrote is on its way. *)
Return(s) ==
    /\ client' = [s EXCEPT !.sent = << >>, !.raised = FALSE]
    /\ toReader' = toReader \o s.sent
    /\ UNCHANGED link

Connect ==
    /\ ~ link
    /\ sessions < MaxSessions
    /\ client' = ResetSession(client)
    /\ link' = TRUE
    /\ sessions' = sessions + 1
    /\ \E ok \in {TRUE} \cup { o # "fail" : o \in Outcomes } :
         toClient' = << [name |-> "READER_EVENT_NOTIFICATION", ok |-> ok] >>
    /\ UNCHANGED << reader, toReader, resuming, ops >>

(***************************************************************************)
(* The receive thread handles one message.  A ReaderConfigurationError     *)
(* makes main_loop hard-disconnect, as completing a disconnect() does.     *)
(***************************************************************************)
Receive ==
    /\ link
    /\ toClient # << >>
    /\ LET s == HandleMessage(client, Head(toClient)) IN
         \/ (s.raised \/ s.closed) /\ HangUp(s)
         \/ ~ (s.raised \/ s.closed) /\ Return(s) /\ toClient' = Tail(toClient)
    /\ UNCHANGED << reader, resuming, ops, sessions >>

(* The reader's answer to a timed-out request is ignored when it comes: it  *)
(* is yet to be given, or on its way (there is at most one of a name).      *)
MarkLate(name) ==
    [i \in DOMAIN toReader |->
       [toReader[i] EXCEPT !.late = @ \/ toReader[i].name = name]]

WithoutAnswer(name) ==
    IF \E i \in DOMAIN toClient : toClient[i].name = name
      THEN LET i == CHOOSE i \in DOMAIN toClient : toClient[i].name = name
           IN  SubSeq(toClient, 1, i - 1) \o SubSeq(toClient, i + 1, Len(toClient))
      ELSE toClient

(* _on_request_timeout on a timer thread: an exception ends that thread. *)
RequestTimeout(name) ==
    /\ Timeouts /\ link
    /\ client.outstanding[name] # Nobody
    /\ LET s == ProcessDeferreds(client, name, FALSE) IN
         \/ s.closed /\ HangUp(s)
         \/ /\ ~ s.closed
            /\ client' = [s EXCEPT !.sent = << >>, !.raised = FALSE]
            /\ toReader' = MarkLate(name) \o s.sent
            /\ toClient' = WithoutAnswer(name)
            /\ UNCHANGED link
    /\ UNCHANGED << reader, resuming, ops, sessions >>

(* on_lost_connection: peer EOF or a socket error. *)
LoseConnection ==
    /\ MayLose /\ link
    /\ HangUp(SetState(client, "DISCONNECTED"))
    /\ UNCHANGED << reader, resuming, ops, sessions >>

HandshakeStates ==
    {"DISCONNECTED"} \cup
    { SentState[n] : n \in {"IMPINJ_ENABLE_EXTENSIONS", "GET_READER_CAPABILITIES",
                            "GET_READER_CONFIG", "SET_READER_CONFIG"} }

(***************************************************************************)
(* The code does not restrict when its methods are called.  A disciplined  *)
(* application (AnyTime = FALSE) waits for the handshake, calls nothing    *)
(* after disconnect(), and makes the calls that send in any state,         *)
(* disconnect() and pause(force=True), only in a settled one.  "txpower"   *)
(* is setTxPower while inventorying, "txpower_any" in any state.           *)
(***************************************************************************)
Opportune(op) ==
    \/ AnyTime
    \/ /\ client.state \notin HandshakeStates
       /\ ~ client.disconnecting
       /\ op \in {"disconnect", "force_pause"} =>
            client.state \in {"CONNECTED", "INVENTORYING", "PAUSED"}
       /\ op = "txpower" => client.state = "INVENTORYING"

(* The application calls one operation on its own thread. *)
Call(op, s) ==
    /\ op \in Ops
    /\ Opportune(op)
    /\ link
    /\ ops < MaxOps
    /\ ops' = ops + 1
    /\ Return(s)
    /\ UNCHANGED << reader, resuming, toClient, sessions >>

CallStart == Call("start", StartInventory(client, FALSE, "user"))

CallPause ==
    \E op \in {"pause", "force_pause"}, how \in {"pause", "timed", "timed_regen"} :
        Call(op, Pause(client, how, op = "force_pause", how = "timed_regen"))

CallResume == \E regen \in BOOLEAN : Call("resume", Resume(client, regen))

CallSetTxPower ==
    /\ client.transition.status # "pending"
    /\ \E c \in Configs :
         /\ c.rospec \notin Unsupported
         /\ \E op \in {"txpower", "txpower_any"} : Call(op, SetTxPower(client, c.rospec))

CallApplyConfig ==
    \E c \in Configs : c # client.config /\ Call("apply", ApplyConfig(client, c))

CallDisconnect == Call("disconnect", Disconnect(client))

(* timed_resume: first the generation check, then, later, the rest. *)
TimerElapses ==
    /\ client.timer # "off"
    /\ resuming' = resuming \cup
         {[regen |-> client.timer = "regen", generation |-> client.generation]}
    /\ client' = [client EXCEPT !.timer = "off"]
    /\ UNCHANGED << reader, toReader, toClient, link, ops, sessions >>

TimedResume ==
    \E t \in resuming :
        /\ resuming' = resuming \ {t}
        /\ Return(IF client.state = "PAUSED" THEN ResumeInventory(client, t.regen)
                                             ELSE client)
        /\ UNCHANGED << reader, toClient, ops, sessions >>

-----------------------------------------------------------------------------
(* The reader.                                                              *)

Acceptable(m) ==
    CASE m.name = "ADD_ROSPEC" -> reader.rospec = NoROSpec
      [] m.name \in {"ENABLE_ROSPEC", "DISABLE_ROSPEC"} -> reader.rospec # NoROSpec
      [] OTHER -> TRUE

Obey(m) ==
    CASE m.name = "ADD_ROSPEC"     -> [reader EXCEPT !.rospec = m.data, !.enabled = FALSE]
      [] m.name = "DELETE_ROSPEC"  -> [reader EXCEPT !.rospec = NoROSpec, !.enabled = FALSE]
      [] m.name = "ENABLE_ROSPEC"  -> [reader EXCEPT !.enabled = TRUE]
      [] m.name = "DISABLE_ROSPEC" -> [reader EXCEPT !.enabled = FALSE]
      [] m.name = "SET_READER_CONFIG" -> [reader EXCEPT !.config = m.data]
      [] OTHER -> reader

(* One request is carried out or rejected, and answered or not. *)
ReaderHandles(outcome) ==
    LET m == Head(toReader)
        ok == outcome # "fail" /\ Acceptable(m) IN
    /\ link
    /\ toReader # << >>
    /\ toReader' = Tail(toReader)
    /\ reader' = IF ok THEN Obey(m) ELSE reader
    /\ toClient' = IF m.late \/ outcome = "silent" THEN toClient
                   ELSE Append(toClient, [name |-> m.name, ok |-> ok])
    /\ UNCHANGED << client, link, resuming, ops, sessions >>

-----------------------------------------------------------------------------
Next ==
    \/ Connect
    \/ Receive
    \/ \E n \in Requests : RequestTimeout(n)
    \/ LoseConnection
    \/ CallStart \/ CallPause \/ CallResume \/ CallSetTxPower
    \/ CallApplyConfig \/ CallDisconnect
    \/ TimerElapses
    \/ TimedResume
    \/ \E outcome \in Outcomes : ReaderHandles(outcome)

Spec == Init /\ [][Next]_vars

(* The threads run and the reader gets to its requests.  Whether it answers *)
(* is up to Outcomes; the application need not call anything.               *)
Fairness ==
    /\ WF_vars(Connect)
    /\ WF_vars(Receive)
    /\ WF_vars(TimerElapses)
    /\ WF_vars(TimedResume)
    /\ WF_vars(\E outcome \in Outcomes : ReaderHandles(outcome))
    /\ \A n \in Requests : WF_vars(RequestTimeout(n))

FairSpec == Spec /\ Fairness

-----------------------------------------------------------------------------
(* Properties. *)

Running(config) == reader.enabled /\ reader.rospec = config.rospec

(* The reader does what config says, as far as the client's state claims.   *)
(* Client-only fields may be committed at any time and are left aside.      *)
Consistent(config) ==
    /\ ClientOnly(client.config, config)
    /\ reader.config = config.reader
    /\ client.state = "INVENTORYING" => Running(config)

(***************************************************************************)
(* SuccessIsApplied: when a transition is reported as successful the       *)
(* client is back in the state it was called in, its configuration is the  *)
(* new one, the reader has its reader configuration, and an inventory that *)
(* goes on runs a ROSpec generated from it (API_REFERENCE.md: "The client  *)
(* never reports success while the local desired state and reader-applied  *)
(* state may be mixed").                                                   *)
(***************************************************************************)
SucceedsConsistently ==
    client.transition.status = "pending" /\ client'.transition.status = "success" =>
        /\ client'.state = client.transition.original
        /\ Consistent(client.transition.new)'
SuccessIsApplied == [][SucceedsConsistently]_vars

(***************************************************************************)
(* FailureRollsBack: a transition reported as failed leaves the client in  *)
(* the state it was called in with the old configuration in force on both  *)
(* sides, or disconnected (llrp.py: "If restoration cannot be proven,      *)
(* force the state to DISCONNECTED rather than expose a mixed              *)
(* configuration").                                                        *)
(***************************************************************************)
FailsConsistently ==
    client.transition.status = "pending" /\ client'.transition.status = "failed" =>
        \/ client'.state = "DISCONNECTED" /\ ~ link'
        \/ /\ client'.state = client.transition.original
           /\ Consistent(client.transition.old)'
FailureRollsBack == [][FailsConsistently]_vars

(***************************************************************************)
(* OldStaysAuthoritative: a transition that never succeeded because the    *)
(* connection broke leaves the old configuration as the desired one        *)
(* (API_REFERENCE.md: "The old configuration remains authoritative until   *)
(* the transition succeeds").                                              *)
(***************************************************************************)
OldStaysAuthoritative ==
    client.transition.status = "abandoned" =>
        ClientOnly(client.config, client.transition.old)

(***************************************************************************)
(* AppliedIsReal: while inventorying, the snapshot get_config_state()      *)
(* calls "applied" names the ROSpec settings the reader is running         *)
(* (docs/runtime-state.rst: "configuration known to be active in the       *)
(* current inventory session").                                            *)
(***************************************************************************)
AppliedIsReal ==
    client.state = "INVENTORYING" => Running(client.applied)

(***************************************************************************)
(* SentMeansOutstanding: in a SENT_ state, or PAUSING, the request that    *)
(* setState entered it for is outstanding (API_REFERENCE.md: "A `STATE_SENT_*` value     *)
(* means a request is outstanding and its correlated response drives the   *)
(* next transition").                                                      *)
(***************************************************************************)
SentMeansOutstanding ==
    \A n \in Requests :
        client.state = SentState[n] => client.outstanding[n] # Nobody

(***************************************************************************)
(* CleanDisconnect: when the connection ends because of disconnect() (it   *)
(* cannot break and the reader accepts what it is asked), the reader holds *)
(* no ROSpec (DEVELOPER_GUIDE.md: "`disconnect()` requests a polite stop,  *)
(* removes session state").  It is so when disconnect() is called in a     *)
(* settled state, whatever callbacks and timers the application's earlier  *)
(* calls have left; called during the handshake's own chain of requests    *)
(* the code leaves a ROSpec behind.                                        *)
(***************************************************************************)
LeavesReaderClean ==
    client.disconnecting /\ link /\ ~ link' => reader.rospec = NoROSpec
CleanDisconnect == [][LeavesReaderClean]_vars

(***************************************************************************)
(* DisconnectCompletes: a disconnect() that was accepted closes the        *)
(* connection (DEVELOPER_GUIDE.md: "`disconnect()` requests a polite stop, *)
(* removes session state, and closes the transport").                      *)
(***************************************************************************)
Disconnecting == client.outstanding["DELETE_ACCESSSPEC"] = "disconnect"
DisconnectCompletes == Disconnecting ~> ~ link

(***************************************************************************)
(* TransitionEnds: a transition reaches success or failure.                *)
(***************************************************************************)
TransitionEnds ==
    client.transition.status = "pending" ~>
        client.transition.status \in {"success", "failed"}

(***************************************************************************)
(* NoStaleResume: a timed resume that resume(), another pause(), a         *)
(* disconnect or a reset has invalidated does nothing                      *)
(* (docs/runtime-state.rst: they "invalidate stale timers").               *)
(***************************************************************************)
ResumesWhenValid ==
    \A t \in resuming \ resuming' :
        t.generation # client.generation => client' = client
NoStaleResume == [][ResumesWhenValid]_vars

(***************************************************************************)
(* Settles: with a reader that accepts every legitimate request, and a     *)
(* configuration that has the reader reset or inventory started after the  *)
(* handshake, the client is again and again in a settled state or          *)
(* disconnected: no handshake, start, pause or transition leaves it        *)
(* waiting for a response that handleMessage dropped in the wrong state.   *)
(***************************************************************************)
Settles ==
    []<>(client.state \in {"CONNECTED", "INVENTORYING", "PAUSED"} \/ ~ link)
=============================================================================
