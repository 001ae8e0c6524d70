------------------------------- MODULE Framer ------------------------------
(***************************************************************************)
(* The framing of the byte stream by LLRPReaderClient.raw_data_received    *)
(* (llrp.py): chunks arrive as recv() cuts them, complete messages are     *)
(* dispatched in order, an incomplete one waits in partial_data.           *)
(*                                                                         *)
(* A byte is named by its offset in the stream of its session, so a wrong  *)
(* slice, a lost or a repeated byte shows.  A message is one turn of the   *)
(* parsing loop; the handlers it is dispatched to may close the connection *)
(* from inside (the polite stop of disconnect(), a failed rollback) and    *)
(* the loop then goes on with the rest of the chunk.                       *)
(***************************************************************************)
EXTENDS Naturals, Sequences

CONSTANTS
    HeaderLen,      \* msg_header_len
    MaxMessageSize, \* config.max_message_size
    MaxLen,         \* bound on the length a header declares
    MaxMessages,    \* bound on the messages of a session
    MaxSessions     \* bound on the sessions

ASSUME FramerAssumption ==
    /\ {HeaderLen, MaxMessageSize, MaxLen, MaxMessages, MaxSessions} \subseteq Nat \ {0}
    /\ HeaderLen <= MaxMessageSize

VARIABLES
    ends,          \* where the messages of the session's stream end
    rcvd,          \* bytes received in this session
    data,          \* local: the bytes being parsed
    start_pos,     \* local
    data_len,      \* local: bytes left
    partial_data,
    expected_bytes,
    pc,            \* "down": no receive loop; "waiting" in recv(); "parsing"
    stopped,       \* _stop_main_loop
    delivered,     \* history: what this session's messages were taken to be
    sessions

vars == << ends, rcvd, data, start_pos, data_len, partial_data, expected_bytes,
           pc, stopped, delivered, sessions >>

(* A stream as the offsets its messages end at. *)
Streams ==
    UNION { { e \in [1 .. n -> 1 .. n * MaxLen] :
                /\ \A i, j \in 1 .. n : i < j => e[i] < e[j]
                /\ e[1] <= MaxLen
                /\ \A i \in 2 .. n : e[i] - e[i - 1] <= MaxLen } :
            n \in 1 .. MaxMessages }

Start(i)  == IF i = 1 THEN 0 ELSE ends[i - 1]
Length(i) == ends[i] - Start(i)

Bytes(from, to) == [i \in 1 .. to - from |-> from + i - 1]

(* The bytes of message i, and what a header at an offset declares: in the *)
(* middle of a message it declares nothing sensible.                       *)
Message(i) == Bytes(Start(i), ends[i])
DeclaredLength(offset) ==
    IF \E i \in DOMAIN ends : Start(i) = offset
      THEN Length(CHOOSE i \in DOMAIN ends : Start(i) = offset) ELSE 0

TypeOK ==
    /\ ends \in Streams
    /\ rcvd \in 0 .. ends[Len(ends)]
    /\ data \in Seq(Nat) /\ partial_data \in Seq(Nat)
    /\ start_pos \in Nat /\ data_len \in Nat /\ start_pos + data_len = Len(data)
    /\ expected_bytes \in 0 .. MaxMessageSize
    /\ pc \in {"down", "waiting", "parsing"} /\ stopped \in BOOLEAN
    /\ delivered \in Seq(Seq(Nat))
    /\ sessions \in 0 .. MaxSessions

-----------------------------------------------------------------------------
Init ==
    /\ ends \in Streams
    /\ rcvd = 0 /\ data = << >> /\ start_pos = 0 /\ data_len = 0
    /\ partial_data = << >> /\ expected_bytes = 0
    /\ pc = "down" /\ stopped = FALSE
    /\ delivered = << >> /\ sessions = 0

(* _reset_protocol_session, as far as frames are concerned. *)
ResetFrameState == partial_data' = << >> /\ expected_bytes' = 0

(* connect(), or a reconnect: a new session. *)
Connect ==
    /\ pc = "down" /\ sessions < MaxSessions
    /\ ResetFrameState
    /\ \E e \in Streams : ends' = e
    /\ rcvd' = 0 /\ delivered' = << >>
    /\ data' = << >> /\ start_pos' = 0 /\ data_len' = 0
    /\ pc' = "waiting" /\ stopped' = FALSE /\ sessions' = sessions + 1

(* hard_disconnect on the receive thread, which then ends. *)
HangUp ==
    /\ ResetFrameState
    /\ pc' = "down" /\ stopped' = TRUE

(* The loop is left: main_loop looks at _stop_main_loop, then waits. *)
Leave == pc' = (IF stopped THEN "down" ELSE "waiting") /\ UNCHANGED stopped

(* Faulty variant: a chunk that does not complete the message is dropped. *)
BufferedLast(chunk) == IF expected_bytes > 0 /\ Len(partial_data) + Len(chunk) < expected_bytes
                         THEN partial_data ELSE partial_data \o chunk

Buffered(chunk) == partial_data \o chunk

(* recv() returned n bytes. *)
Receive(n) ==
    LET chunk == Bytes(rcvd, rcvd + n)
        all   == IF expected_bytes > 0 THEN Buffered(chunk) ELSE chunk IN
    /\ pc = "waiting"
    /\ rcvd + n <= ends[Len(ends)]
    /\ rcvd' = rcvd + n
    /\ partial_data' = IF expected_bytes > 0 THEN all ELSE partial_data
    /\ data' = all /\ start_pos' = 0 /\ data_len' = Len(all)
    /\ pc' = IF Len(all) < expected_bytes THEN "waiting" ELSE "parsing"
    /\ UNCHANGED << ends, expected_bytes, stopped, delivered, sessions >>

MsgLen == DeclaredLength(data[start_pos + 1])

HeaderHere == pc = "parsing" /\ data_len >= HeaderLen

(* Faulty variant: max_message_size is not looked at. *)
LengthValidUnlimited == MsgLen >= HeaderLen

LengthValid == MsgLen >= HeaderLen /\ MsgLen <= MaxMessageSize

(* Faulty variant: the slice forgets how far the loop has come. *)
KeepAll(needed) ==
    /\ partial_data' = data
    /\ expected_bytes' = needed

Keep(needed) ==
    /\ partial_data' = SubSeq(data, start_pos + 1, Len(data))
    /\ expected_bytes' = needed

(* Too few bytes for a header, or for the body: wait for more. *)
KeepHeader ==
    /\ pc = "parsing" /\ data_len > 0 /\ data_len < HeaderLen
    /\ Keep(HeaderLen)
    /\ Leave
    /\ UNCHANGED << ends, rcvd, data, start_pos, data_len, delivered, sessions >>

(* Faulty variant: a message that ends with the chunk waits for more. *)
KeepBodyComplete ==
    /\ HeaderHere /\ LengthValid /\ data_len <= MsgLen
    /\ Keep(MsgLen)
    /\ Leave
    /\ UNCHANGED << ends, rcvd, data, start_pos, data_len, delivered, sessions >>

KeepBody ==
    /\ HeaderHere /\ LengthValid /\ data_len < MsgLen
    /\ Keep(MsgLen)
    /\ Leave
    /\ UNCHANGED << ends, rcvd, data, start_pos, data_len, delivered, sessions >>

(* An impossible or an excessive length is an LLRPError; main_loop hangs up. *)
BadLength ==
    /\ HeaderHere /\ ~ LengthValid
    /\ HangUp
    /\ UNCHANGED << ends, rcvd, data, start_pos, data_len, delivered, sessions >>

Complete == HeaderHere /\ LengthValid /\ data_len >= MsgLen

Taken == delivered' = Append(delivered, SubSeq(data, start_pos + 1, start_pos + MsgLen))

(* The message is handled; its handler may have hard-disconnected. *)
Dispatch(closes) ==
    /\ Complete
    /\ Taken
    /\ expected_bytes' = 0
    /\ partial_data' = IF closes THEN << >> ELSE partial_data
    /\ stopped' = (stopped \/ closes)
    /\ start_pos' = start_pos + MsgLen
    /\ data_len' = data_len - MsgLen
    /\ UNCHANGED << ends, rcvd, data, pc, sessions >>

(* Decoding or handling it raised: main_loop hangs up. *)
DispatchFails ==
    /\ Complete
    /\ Taken
    /\ HangUp
    /\ UNCHANGED << ends, rcvd, data, start_pos, data_len, sessions >>

(* The chunk is used up. *)
Parsed ==
    /\ pc = "parsing" /\ data_len = 0
    /\ partial_data' = IF expected_bytes > 0 THEN partial_data ELSE << >>
    /\ Leave
    /\ UNCHANGED << ends, rcvd, data, start_pos, data_len, expected_bytes, delivered, sessions >>

(* recv() found the connection closed or broken. *)
LoseConnection ==
    /\ pc = "waiting"
    /\ HangUp
    /\ UNCHANGED << ends, rcvd, data, start_pos, data_len, delivered, sessions >>

Next ==
    \/ Connect
    \/ \E n \in 1 .. MaxMessages * MaxLen : Receive(n)
    \/ KeepHeader \/ KeepBody \/ BadLength
    \/ \E closes \in BOOLEAN : Dispatch(closes)
    \/ DispatchFails
    \/ Parsed
    \/ LoseConnection

Spec == Init /\ [][Next]_vars

-----------------------------------------------------------------------------
(* Properties. *)

(***************************************************************************)
(* FramedExactly: the messages dispatched are those of the stream, whole,  *)
(* in order and each once, however recv() cuts it and whatever an earlier  *)
(* session left unfinished (llrp.py: "Multiple complete messages in one    *)
(* chunk are processed in wire order").                                    *)
(***************************************************************************)
FramedExactly == \A i \in DOMAIN delivered : i \in DOMAIN ends /\ delivered[i] = Message(i)

(***************************************************************************)
(* NothingHeldBack: when the receive thread waits for more, every message  *)
(* that has arrived completely has been dispatched (one shorter than a     *)
(* header is none).                                                        *)
(***************************************************************************)
NothingHeldBack ==
    pc = "waiting" =>
        \A i \in DOMAIN ends :
            ends[i] <= rcvd /\ Length(i) >= HeaderLen => i <= Len(delivered)

(***************************************************************************)
(* BoundedBuffer: what is kept for later is less than one message of the   *)
(* largest size accepted (or than a header), whatever lengths headers      *)
(* declare.                                                                *)
(***************************************************************************)
BoundedBuffer ==
    pc = "waiting" =>
        /\ Len(partial_data) < MaxMessageSize
        /\ Len(partial_data) > 0 => Len(partial_data) < expected_bytes
=============================================================================
