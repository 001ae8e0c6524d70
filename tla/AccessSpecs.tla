---------------------------- MODULE AccessSpecs ----------------------------
(***************************************************************************)
(* Tag access operations of sllurp/llrp.py: startAccess, nextAccess, the   *)
(* untracked delete and LLRPReaderClient.start_access_spec (as             *)
(* _runtime_fixes.py installs it), with the polite stop of disconnect(),   *)
(* against a reader that keeps AccessSpecs and handles requests in order.  *)
(*                                                                         *)
(* The client is a record and a method an operator on it, as in Session.   *)
(* A request is tracked under its response name, one at a time; a second   *)
(* one raises ReaderConfigurationError.  What raises in a callback on the  *)
(* receive thread ends the session, on a timer thread it is lost, and in   *)
(* a call it reaches the caller.                                           *)
(***************************************************************************)
EXTENDS Integers, Sequences

CONSTANTS
    Ids,         \* AccessSpec identifiers
    Supported,   \* operations startAccess knows
    Accesses,    \* what an application asks for: identifier, operation, stopAfterCount
    Rejects,     \* the reader may reject any request
    Timeouts,    \* config.request_timeout is set
    AnyTime,     \* the application calls at any time (see Opportune)
    MaxCalls     \* bound on the application's calls

ASSUME AccessAssumption ==
    /\ 0 \notin Ids /\ "" \notin Supported   \* "" stands for no operation (Absent)
    /\ Accesses \subseteq [id : Ids, op : STRING, stop : Int]
    /\ {Rejects, Timeouts, AnyTime} \subseteq BOOLEAN /\ MaxCalls \in Nat

VARIABLES
    client,      \* LLRPClient: state, pending, raised
    toReader,    \* requests in flight
    toClient,    \* responses in flight
    reader,      \* the reader's AccessSpecs, and whether it has a ROSpec
    want,        \* history: what the application asked for last, by identifier
    stopping,    \* history: disconnect() was called
    calm,        \* history: nothing was rejected or timed out
    sound,       \* history: every access asked for is one startAccess accepts
    calls        \* calls the application has made

vars == <<client, toReader, toClient, reader, want, stopping, calm, sound, calls>>

Absent == [op |-> "", counted |-> FALSE, enabled |-> FALSE]
Requests == {"ADD_ACCESSSPEC", "DISABLE_ACCESSSPEC", "DELETE_ACCESSSPEC", "DELETE_ROSPEC"}
NoRequest == [cb |-> "", access |-> [id |-> 0, op |-> "", stop |-> 0]]
All == [id |-> 0, op |-> "", stop |-> 0]

-----------------------------------------------------------------------------
(* Requests.  A record c also carries what the handler writes.              *)

Message(name, access, live) == [name |-> name, access |-> access, live |-> live]

Raise(c) == [c EXCEPT !.raised = TRUE]

send_request(c, name, access, cb, state) ==
    IF c.pending[name] # NoRequest THEN Raise(c)
    ELSE [c EXCEPT !.pending[name] = [cb |-> cb, access |-> access], !.state = state,
                   !.out = Append(@, Message(name, access, TRUE))]

sendMessage(c, name, access) ==
    IF name \in Requests /\ c.pending[name] # NoRequest THEN Raise(c)
    ELSE [c EXCEPT !.out = Append(@, Message(name, access, FALSE))]

(* An operation that is not supported raises, and so does a count that does  *)
(* not fit its unsigned field.                                               *)
Buildable(access) == access.op \in Supported /\ access.stop >= 0

startAccess(c, access) ==
    IF ~Buildable(access) THEN Raise(c)
    ELSE send_request(c, "ADD_ACCESSSPEC", access, "add_accessspec_cb", c.state)

nextAccess(c, access) ==
    send_request(c, "DISABLE_ACCESSSPEC", access, "disable_accessspec_cb", c.state)

(* Faulty variant: only the default AccessSpec is deleted.                    *)
stopPolitelyDefault(c) ==
    send_request(c, "DELETE_ACCESSSPEC", [All EXCEPT !.id = 1], "send_delete_accessspec_cb",
                 "SENT_DELETE_ACCESSSPEC")

stopPolitely(c) ==
    send_request(c, "DELETE_ACCESSSPEC", All, "send_delete_accessspec_cb", "SENT_DELETE_ACCESSSPEC")

stopAllROSpecs(c) ==
    send_request(c, "DELETE_ROSPEC", All, "stop_all_rospecs_cb", "SENT_DELETE_ROSPEC")

(* hard_disconnect: the session is reset; what was written has been written. *)
HangUp(c) ==
    [c EXCEPT !.state = "DISCONNECTED", !.pending = [n \in Requests |-> NoRequest], !.raised = FALSE]

-----------------------------------------------------------------------------
(* Completion callbacks.                                                    *)

add_accessspec_cb(c, access, ok) ==
    IF ok THEN sendMessage(c, "ENABLE_ACCESSSPEC", access) ELSE c

(* Faulty variant: the chain ends when the AccessSpec could not be disabled.  *)
disable_accessspec_cbStrict(c, access, ok) ==
    IF ok THEN send_request(c, "DELETE_ACCESSSPEC", access, "start_next_accessspec_cb", c.state)
    ELSE c

disable_accessspec_cb(c, access, ok) ==
    send_request(c, "DELETE_ACCESSSPEC", access, "start_next_accessspec_cb", c.state)

start_next_accessspec_cb(c, access, ok) == startAccess(c, access)

send_delete_accessspec_cb(c, ok) == IF ok THEN stopAllROSpecs(c) ELSE HangUp(c)

Completed(c, request, ok) ==
    CASE request.cb = "add_accessspec_cb" -> add_accessspec_cb(c, request.access, ok)
      [] request.cb = "disable_accessspec_cb" -> disable_accessspec_cb(c, request.access, ok)
      [] request.cb = "start_next_accessspec_cb" -> start_next_accessspec_cb(c, request.access, ok)
      [] request.cb = "send_delete_accessspec_cb" -> send_delete_accessspec_cb(c, ok)
      [] request.cb = "stop_all_rospecs_cb" -> HangUp(c)

(* A response that no live request waits for runs nothing.                   *)
processDeferreds(c, name, ok) ==
    IF name \notin Requests THEN c
    ELSE IF c.pending[name] = NoRequest THEN c
    ELSE Completed([c EXCEPT !.pending[name] = NoRequest], c.pending[name], ok)

-----------------------------------------------------------------------------
(* Threads.                                                                 *)

Begin == [state |-> client.state, pending |-> client.pending, raised |-> FALSE, out |-> <<>>]

End(c) ==
    /\ client' = [state |-> c.state, pending |-> c.pending]
    /\ toReader' = toReader \o c.out

Connected == client.state # "DISCONNECTED"
Idle == \A n \in Requests : client.pending[n] = NoRequest

(* A disciplined application starts on a free identifier and hangs up only   *)
(* when no chain of requests is in progress, and asks for nothing afterwards.*)
Opportune(call, id) ==
    \/ AnyTime
    \/ /\ ~stopping
       /\ CASE call = "start" -> Idle /\ want[id] = Absent
            [] call = "delete" -> Idle
            [] call = "disconnect" -> Idle
            [] OTHER -> TRUE

Call(call, id) ==
    /\ Connected /\ calls < MaxCalls /\ Opportune(call, id)
    /\ calls' = calls + 1

(* What an accepted call asks for.                                           *)
Asked(c, access) ==
    /\ want' = IF c.raised THEN want
               ELSE [want EXCEPT ![access.id] = [op |-> access.op, counted |-> access.stop > 0,
                                                 enabled |-> TRUE]]
    /\ sound' = (sound /\ (c.raised \/ Buildable(access)))

(* LLRPReaderClient.start_access_spec: a negative count means none.           *)
StartAccessSpec(access) ==
    LET clamped == [access EXCEPT !.stop = IF @ < 0 THEN 0 ELSE @]
        c == startAccess(Begin, clamped)
    IN /\ Call("start", access.id)
       /\ End(c) /\ Asked(c, clamped)
       /\ UNCHANGED <<toClient, reader, stopping, calm>>

NextAccess(access) ==
    LET c == nextAccess(Begin, access)
    IN /\ Call("next", access.id)
       /\ End(c) /\ Asked(c, access)
       /\ UNCHANGED <<toClient, reader, stopping, calm>>

SendDeleteAccessSpec(id) ==
    LET c == sendMessage(Begin, "DELETE_ACCESSSPEC", [All EXCEPT !.id = id])
    IN /\ Call("delete", id)
       /\ End(c)
       /\ want' = IF c.raised THEN want ELSE [want EXCEPT ![id] = Absent]
       /\ UNCHANGED <<toClient, reader, stopping, calm, sound>>

Disconnect ==
    LET c == stopPolitely(Begin)
    IN /\ ~stopping /\ Call("disconnect", 0)
       /\ End(c)
       /\ stopping' = TRUE
       /\ UNCHANGED <<toClient, reader, want, calm, sound>>

(* handleMessage in INVENTORYING and while stopping.  An answer to a request *)
(* that timed out or was not tracked is ignored.                             *)
Receive ==
    LET m == Head(toClient)
        c == IF m.live THEN processDeferreds(Begin, m.name, m.ok) ELSE Begin
    IN /\ Connected /\ toClient # <<>>
       /\ toClient' = Tail(toClient)
       /\ End(IF c.raised THEN HangUp(c) ELSE c)
       /\ UNCHANGED <<reader, want, stopping, calm, calls, sound>>

MarkLate(msgs, name) ==
    [i \in DOMAIN msgs |-> [msgs[i] EXCEPT !.live = @ /\ msgs[i].name # name]]

(* Faulty variant: the request stays registered.                              *)
RequestTimeoutListed(name) ==
    LET c == Completed(Begin, client.pending[name], FALSE)
    IN /\ Timeouts /\ client.pending[name] # NoRequest
       /\ client' = [state |-> c.state, pending |-> c.pending]
       /\ toReader' = MarkLate(toReader, name) \o c.out
       /\ toClient' = MarkLate(toClient, name)
       /\ calm' = FALSE
       /\ UNCHANGED <<reader, want, stopping, calls, sound>>

RequestTimeout(name) ==
    LET c == processDeferreds(Begin, name, FALSE)
    IN /\ Timeouts /\ client.pending[name] # NoRequest
       /\ client' = [state |-> c.state, pending |-> c.pending]
       /\ toReader' = MarkLate(toReader, name) \o c.out
       /\ toClient' = MarkLate(toClient, name)
       /\ calm' = FALSE
       /\ UNCHANGED <<reader, want, stopping, calls, sound>>

-----------------------------------------------------------------------------
(* The reader.                                                              *)

Acceptable(m) ==
    CASE m.name = "ADD_ACCESSSPEC" -> reader.specs[m.access.id] = Absent
      [] m.name \in {"ENABLE_ACCESSSPEC", "DISABLE_ACCESSSPEC"} -> reader.specs[m.access.id] # Absent
      [] m.name = "DELETE_ACCESSSPEC" -> m.access.id \in Ids => reader.specs[m.access.id] # Absent
      [] OTHER -> TRUE

Obey(m) ==
    LET id == m.access.id
    IN CASE m.name = "ADD_ACCESSSPEC" ->
              [reader EXCEPT !.specs[id] = [op |-> m.access.op, counted |-> m.access.stop > 0,
                                            enabled |-> FALSE]]
         [] m.name = "ENABLE_ACCESSSPEC" -> [reader EXCEPT !.specs[id].enabled = TRUE]
         [] m.name = "DISABLE_ACCESSSPEC" -> [reader EXCEPT !.specs[id].enabled = FALSE]
         [] m.name = "DELETE_ACCESSSPEC" ->
              [reader EXCEPT !.specs = [i \in Ids |-> IF id \in {0, i} THEN Absent ELSE @[i]]]
         [] m.name = "DELETE_ROSPEC" -> [reader EXCEPT !.rospec = FALSE]

Answer(m, ok) == [name |-> m.name, ok |-> ok, live |-> m.live]

ReaderHandles ==
    LET m == Head(toReader)
    IN /\ toReader # <<>>
       /\ toReader' = Tail(toReader)
       /\ reader' = IF Acceptable(m) THEN Obey(m) ELSE reader
       /\ toClient' = IF Connected THEN Append(toClient, Answer(m, Acceptable(m))) ELSE toClient
       /\ UNCHANGED <<client, want, stopping, calm, calls, sound>>

ReaderRejects ==
    LET m == Head(toReader)
    IN /\ Rejects /\ toReader # <<>>
       /\ toReader' = Tail(toReader)
       /\ toClient' = IF Connected THEN Append(toClient, Answer(m, FALSE)) ELSE toClient
       /\ calm' = FALSE
       /\ UNCHANGED <<client, reader, want, stopping, calls, sound>>

(* The stop trigger: after the count the reader removes the AccessSpec.      *)
CountReached(id) ==
    /\ reader.specs[id].enabled /\ reader.specs[id].counted
    /\ reader' = [reader EXCEPT !.specs[id] = Absent]
    /\ UNCHANGED <<client, toReader, toClient, want, stopping, calm, calls, sound>>

-----------------------------------------------------------------------------
Init ==
    /\ client = [state |-> "INVENTORYING", pending |-> [n \in Requests |-> NoRequest]]
    /\ toReader = <<>> /\ toClient = <<>>
    /\ reader = [specs |-> [id \in Ids |-> Absent], rospec |-> TRUE]
    /\ want = [id \in Ids |-> Absent]
    /\ stopping = FALSE /\ calm = TRUE /\ sound = TRUE /\ calls = 0

Next ==
    \/ \E access \in Accesses : StartAccessSpec(access)
    \/ \E access \in Accesses : NextAccess(access)
    \/ \E id \in Ids : SendDeleteAccessSpec(id)
    \/ Disconnect
    \/ Receive
    \/ \E name \in Requests : RequestTimeout(name)
    \/ ReaderHandles
    \/ ReaderRejects
    \/ \E id \in Ids : CountReached(id)

Spec == Init /\ [][Next]_vars

-----------------------------------------------------------------------------
(* Properties.                                                              *)

Quiet == Idle /\ toReader = <<>> /\ toClient = <<>>

(* nextAccess ignores what became of the AccessSpec it replaces, because the  *)
(* reader removes one by itself: however calls and chains overlap, once       *)
(* nothing is in flight the reader runs, for each identifier, the operation   *)
(* that was asked for last, enabled, unless its count has been reached.       *)
LastAccessInForce ==
    Quiet /\ calm /\ client.state = "INVENTORYING" =>
      \A id \in Ids : \/ reader.specs[id] = want[id]
                      \/ want[id].counted /\ reader.specs[id] = Absent

(* stopPolitely deletes all AccessSpecs before the ROSpecs: when disconnect() *)
(* has closed the connection and its requests are handled, neither is left.   *)
StopLeavesNothing ==
    stopping /\ calm /\ client.state = "DISCONNECTED" /\ toReader = <<>> =>
      /\ \A id \in Ids : reader.specs[id] = Absent
      /\ ~reader.rospec

(* A callback whose request is refused because another is pending raises on   *)
(* the receive thread, which ends the session: apart from disconnect() only   *)
(* an operation that startAccess does not accept may do that.                 *)
SessionSurvives ==
    client.state = "DISCONNECTED" => stopping \/ ~sound

=============================================================================
