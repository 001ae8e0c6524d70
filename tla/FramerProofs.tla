---------------------------- MODULE FramerProofs ----------------------------
(***************************************************************************)
(* Theorems about Framer, for every header length, every limit on message  *)
(* sizes and every stream, cut anyhow.  The invariant relates the bytes in *)
(* hand to the stream: parsing stands where the last message dispatched    *)
(* ended, and what waits in partial_data is what was received since.       *)
(***************************************************************************)
EXTENDS Framer, SequenceTheorems, TLAPS

(* Where the last message dispatched ended. *)
Done == Start(Len(delivered) + 1)

(* The loop has the bytes up to the last one received, and start_pos is    *)
(* the offset Done; a message waited for is there from the first byte on.  *)
ParsingInv ==
    pc = "parsing" =>
        /\ start_pos <= Done /\ Done <= rcvd
        /\ data = Bytes(Done - start_pos, rcvd)
        /\ expected_bytes > 0 => start_pos = 0 /\ Len(data) >= expected_bytes

(* Less is waiting than the header or the message it is waiting for. *)
WaitingInv ==
    pc = "waiting" =>
        \/ expected_bytes = 0 /\ partial_data = << >> /\ Done = rcvd
        \/ /\ Done < rcvd /\ rcvd < Done + expected_bytes
           /\ partial_data = Bytes(Done, rcvd)
           /\ \/ expected_bytes = HeaderLen
              \/ /\ Len(delivered) + 1 \in DOMAIN ends
                 /\ expected_bytes = Length(Len(delivered) + 1)

IInv == TypeOK /\ FramedExactly /\ ParsingInv /\ WaitingInv

-----------------------------------------------------------------------------
(* BytesSeq: a range of bytes is a sequence, the byte at i is known by its  *)
(* offset.                                                                 *)
LEMMA BytesSeq ==
    ASSUME NEW a \in Nat, NEW b \in Nat, a <= b
    PROVE  /\ Bytes(a, b) \in Seq(Nat)
           /\ Len(Bytes(a, b)) = b - a
           /\ \A i \in 1 .. b - a : Bytes(a, b)[i] = a + i - 1
<1>1. b - a \in Nat OBVIOUS
<1>2. \A i \in 1 .. b - a : a + i - 1 \in Nat OBVIOUS
<1>3. Bytes(a, b) \in [1 .. b - a -> Nat] BY <1>2 DEF Bytes
<1>. QED BY <1>1, <1>3 DEF Bytes

(* BytesConcat: adjacent ranges concatenate (a chunk after what was kept). *)
LEMMA BytesConcat ==
    ASSUME NEW a \in Nat, NEW b \in Nat, NEW c \in Nat, a <= b, b <= c
    PROVE  Bytes(a, b) \o Bytes(b, c) = Bytes(a, c)
<1> DEFINE s == Bytes(a, b)
           t == Bytes(b, c)
           u == Bytes(a, c)
<1>1. s \in Seq(Nat) /\ Len(s) = b - a /\ \A i \in 1 .. b - a : s[i] = a + i - 1
  BY BytesSeq
<1>2. t \in Seq(Nat) /\ Len(t) = c - b /\ \A i \in 1 .. c - b : t[i] = b + i - 1
  BY BytesSeq
<1>3. u \in Seq(Nat) /\ Len(u) = c - a /\ \A i \in 1 .. c - a : u[i] = a + i - 1
  BY BytesSeq
<1> HIDE DEF s, t, u
<1>4. /\ s \o t \in Seq(Nat)
      /\ Len(s \o t) = Len(s) + Len(t)
      /\ \A i \in 1 .. Len(s) + Len(t) :
            (s \o t)[i] = IF i <= Len(s) THEN s[i] ELSE t[i - Len(s)]
  BY <1>1, <1>2, ConcatProperties
<1>5. Len(s) + Len(t) = c - a BY <1>1, <1>2
<1>6. ASSUME NEW i \in 1 .. c - a PROVE (s \o t)[i] = u[i]
  <2>0. i \in Int /\ u[i] = a + i - 1 BY <1>3, <1>6
  <2>1. (s \o t)[i] = IF i <= b - a THEN s[i] ELSE t[i - (b - a)]
    BY <1>1, <1>4, <1>5, <1>6
  <2>2. CASE i <= b - a
    <3>1. i \in 1 .. b - a BY <1>6, <2>2
    <3>. QED BY <1>1, <2>0, <2>1, <2>2, <3>1
  <2>3. CASE ~ (i <= b - a)
    <3>1. i - (b - a) \in 1 .. c - b BY <1>6, <2>3
    <3>2. t[i - (b - a)] = b + (i - (b - a)) - 1 BY <1>2, <3>1
    <3>. QED BY <2>0, <2>1, <2>3, <3>2
  <2>. QED BY <2>2, <2>3
<1>7. s \o t = u
  <2>1. Len(s \o t) = c - a BY <1>4, <1>5
  <2>. QED BY <1>3, <1>4, <1>6, <2>1, SeqEqual
<1>. QED BY <1>7 DEF s, t, u

(* The bytes of s from an index to another, as raw_data_received counts. *)
Slice(s, m, n) == SubSeq(s, m + 1, n)

(* BytesSlice: a slice of a range is the range at its offset. *)
LEMMA BytesSlice ==
    ASSUME NEW a \in Nat, NEW b \in Nat, NEW m \in Nat, NEW n \in Nat,
           m <= n, a + n <= b
    PROVE  Slice(Bytes(a, b), m, n) = Bytes(a + m, a + n)
<1> DEFINE s == Bytes(a, b)
           t == SubSeq(s, m + 1, n)
           u == Bytes(a + m, a + n)
<1>1. s \in Seq(Nat) /\ Len(s) = b - a /\ \A i \in 1 .. b - a : s[i] = a + i - 1
  BY BytesSeq
<1>2. u \in Seq(Nat) /\ Len(u) = n - m /\ \A i \in 1 .. n - m : u[i] = a + m + i - 1
  <2>1. a + m \in Nat /\ a + n \in Nat /\ a + m <= a + n OBVIOUS
  <2>2. /\ u \in Seq(Nat) /\ Len(u) = (a + n) - (a + m)
        /\ \A i \in 1 .. (a + n) - (a + m) : u[i] = (a + m) + i - 1
    BY <2>1, BytesSeq
  <2>3. (a + n) - (a + m) = n - m OBVIOUS
  <2>. QED BY <2>2, <2>3
<1> HIDE DEF s, u
<1>3. \A i \in (m + 1) .. n : s[i] \in Nat BY <1>1
<1>4. /\ t \in Seq(Nat)
      /\ Len(t) = IF m + 1 <= n THEN n - (m + 1) + 1 ELSE 0
      /\ \A i \in 1 .. n - (m + 1) + 1 : t[i] = s[(m + 1) + i - 1]
  <2>1. m + 1 \in Int /\ n \in Int OBVIOUS
  <2>. QED BY <1>3, <2>1, SubSeqProperties
<1>5. Len(t) = n - m BY <1>4
<1> HIDE DEF t
<1>6. ASSUME NEW i \in 1 .. n - m PROVE t[i] = u[i]
  <2>1. i \in 1 .. n - (m + 1) + 1 /\ (m + 1) + i - 1 = m + i /\ m + i \in 1 .. b - a
    OBVIOUS
  <2>. QED BY <1>1, <1>2, <1>4, <2>1
<1>7. t = u BY <1>2, <1>4, <1>5, <1>6, SeqEqual
<1>. QED BY <1>7 DEF s, t, u, Slice

(* StreamFacts: the ends of the messages of a stream increase. *)
LEMMA StreamFacts ==
    ASSUME NEW e \in Streams
    PROVE  /\ Len(e) \in Nat \ {0}
           /\ DOMAIN e = 1 .. Len(e)
           /\ \A i \in 1 .. Len(e) : e[i] \in Nat \ {0}
           /\ \A i, j \in 1 .. Len(e) : i < j => e[i] < e[j]
<1>1. PICK n \in 1 .. MaxMessages :
        /\ e \in [1 .. n -> 1 .. n * MaxLen]
        /\ \A i, j \in 1 .. n : i < j => e[i] < e[j]
  BY DEF Streams
<1>2. n \in Nat \ {0} BY FramerAssumption
<1>3. n * MaxLen \in Nat BY <1>2, FramerAssumption
<1>4. \A i \in 1 .. n : e[i] \in Nat \ {0} BY <1>1, <1>3
<1>5. e \in [1 .. n -> Nat] BY <1>1, <1>4
<1>6. e \in Seq(Nat) /\ Len(e) = n BY <1>2, <1>5
<1>. QED BY <1>1, <1>2, <1>4, <1>6

(* StartFacts: so do their starts; each message is where the last one ended. *)
LEMMA StartFacts ==
    ASSUME ends \in Streams
    PROVE  /\ \A i \in 1 .. Len(ends) + 1 : Start(i) \in Nat
           /\ \A i \in 1 .. Len(ends) : Start(i) < ends[i] /\ Start(i + 1) = ends[i]
           /\ \A i \in 1 .. Len(ends) + 1 : Start(i) <= ends[Len(ends)]
           /\ \A i \in 1 .. Len(ends), j \in 1 .. Len(ends) + 1 :
                 i < j => ends[i] <= Start(j)
<1>1. /\ Len(ends) \in Nat \ {0}
      /\ \A i \in 1 .. Len(ends) : ends[i] \in Nat \ {0}
      /\ \A i, j \in 1 .. Len(ends) : i < j => ends[i] < ends[j]
  BY StreamFacts
<1>2. \A i \in 1 .. Len(ends) + 1 : i = 1 \/ i - 1 \in 1 .. Len(ends) BY <1>1
<1>3. \A i \in 1 .. Len(ends) + 1 : Start(i) \in Nat BY <1>1, <1>2 DEF Start
<1>4. \A i \in 1 .. Len(ends) : Start(i) < ends[i] /\ Start(i + 1) = ends[i]
  BY <1>1, <1>2 DEF Start
<1>5. \A i \in 1 .. Len(ends) + 1 : Start(i) <= ends[Len(ends)]
  BY <1>1, <1>2 DEF Start
<1>6. ASSUME NEW i \in 1 .. Len(ends), NEW j \in 1 .. Len(ends) + 1, i < j
      PROVE  ends[i] <= Start(j)
  <2>1. j - 1 \in 1 .. Len(ends) /\ j # 1 /\ i <= j - 1 BY <1>1, <1>6
  <2>2. i = j - 1 \/ i < j - 1 BY <1>1, <2>1
  <2>. QED BY <1>1, <2>1, <2>2 DEF Start
<1>. QED BY <1>3, <1>4, <1>5, <1>6

(* DeclaredAtStart: a header is found where a message starts, and nowhere  *)
(* else; it declares that message's length.                                *)
LEMMA DeclaredAtStart ==
    ASSUME ends \in Streams, NEW k \in 1 .. Len(ends)
    PROVE  DeclaredLength(Start(k)) = Length(k)
<1>1. /\ Len(ends) \in Nat \ {0}
      /\ DOMAIN ends = 1 .. Len(ends)
      /\ \A i \in 1 .. Len(ends) : ends[i] \in Nat
      /\ \A i \in 1 .. Len(ends) : Start(i) \in Nat /\ Start(i) < ends[i]
      /\ \A i, j \in 1 .. Len(ends) : i < j => ends[i] <= Start(j)
  BY StreamFacts, StartFacts
<1>2. \A i \in DOMAIN ends : Start(i) = Start(k) => i = k
  <2> SUFFICES ASSUME NEW i \in 1 .. Len(ends), Start(i) = Start(k), i # k
               PROVE  FALSE
    BY <1>1
  <2>1. i < k \/ k < i BY <1>1
  <2>. QED BY <1>1, <2>1
<1>3. \E i \in DOMAIN ends : Start(i) = Start(k) BY <1>1
<1>4. (CHOOSE i \in DOMAIN ends : Start(i) = Start(k)) = k BY <1>2, <1>3
<1>. QED BY <1>3, <1>4 DEF DeclaredLength

-----------------------------------------------------------------------------
(* Position: what has been dispatched is a prefix of the stream. *)
LEMMA Position ==
    ASSUME TypeOK, FramedExactly
    PROVE  /\ Len(delivered) \in Nat /\ Len(delivered) <= Len(ends)
           /\ DOMAIN delivered = 1 .. Len(delivered)
           /\ Done \in Nat /\ Done <= ends[Len(ends)]
<1>1. /\ Len(delivered) \in Nat /\ DOMAIN delivered = 1 .. Len(delivered)
      /\ ends \in Streams
  BY DEF TypeOK
<1>2. Len(ends) \in Nat \ {0} /\ DOMAIN ends = 1 .. Len(ends) BY <1>1, StreamFacts
<1>3. Len(delivered) <= Len(ends)
  <2>1. CASE Len(delivered) = 0 BY <1>2, <2>1
  <2>2. CASE Len(delivered) # 0
    <3>1. Len(delivered) \in DOMAIN delivered BY <1>1, <2>2
    <3>2. Len(delivered) \in DOMAIN ends BY <3>1 DEF FramedExactly
    <3>. QED BY <1>2, <3>2
  <2>. QED BY <2>1, <2>2
<1>4. Len(delivered) + 1 \in 1 .. Len(ends) + 1 BY <1>1, <1>2, <1>3
<1>. QED BY <1>1, <1>3, <1>4, StartFacts DEF Done

(* InHand: while parsing, the bytes left are those from Done on. *)
LEMMA InHand ==
    ASSUME IInv, pc = "parsing"
    PROVE  /\ Done \in Nat /\ rcvd \in Nat /\ start_pos \in Nat /\ data_len \in Nat
           /\ Done - start_pos \in Nat /\ Done - start_pos <= rcvd
           /\ data = Bytes(Done - start_pos, rcvd)
           /\ Len(data) = start_pos + data_len
           /\ Done + data_len = rcvd
<1>1. Done \in Nat BY Position DEF IInv
<1>2. ends[Len(ends)] \in Nat /\ rcvd \in Nat
  <2>1. Len(ends) \in Nat \ {0} /\ \A i \in 1 .. Len(ends) : ends[i] \in Nat
    BY StreamFacts DEF IInv, TypeOK
  <2>2. ends[Len(ends)] \in Nat BY <2>1
  <2>. QED BY <2>2 DEF IInv, TypeOK
<1>3. start_pos \in Nat /\ data_len \in Nat /\ Len(data) = start_pos + data_len
  BY DEF IInv, TypeOK
<1>4. start_pos <= Done /\ Done <= rcvd /\ data = Bytes(Done - start_pos, rcvd)
  BY DEF IInv, ParsingInv
<1>5. Done - start_pos \in Nat /\ Done - start_pos <= rcvd BY <1>1, <1>2, <1>3, <1>4
<1>6. Len(data) = rcvd - (Done - start_pos) BY <1>2, <1>4, <1>5, BytesSeq
<1>. QED BY <1>1, <1>2, <1>3, <1>4, <1>5, <1>6

(* AtBoundary: while parsing, the header looked at is the one of the first *)
(* message not yet dispatched, never bytes in the middle of one.           *)
LEMMA AtBoundary ==
    ASSUME IInv, pc = "parsing", data_len > 0
    PROVE  /\ Len(delivered) + 1 \in 1 .. Len(ends)
           /\ MsgLen = Length(Len(delivered) + 1)
           /\ Start(Len(delivered) + 1) = Done
           /\ ends[Len(delivered) + 1] = Done + MsgLen
           /\ MsgLen \in Nat
<1>1. /\ Done \in Nat /\ rcvd \in Nat /\ start_pos \in Nat /\ data_len \in Nat
      /\ Done - start_pos \in Nat /\ Done - start_pos <= rcvd
      /\ data = Bytes(Done - start_pos, rcvd)
      /\ Done + data_len = rcvd
  BY InHand
<1>2. data[start_pos + 1] = Done
  <2>1. start_pos + 1 \in 1 .. rcvd - (Done - start_pos) BY <1>1
  <2>2. data[start_pos + 1] = (Done - start_pos) + (start_pos + 1) - 1
    BY <1>1, <2>1, BytesSeq
  <2>. QED BY <1>1, <2>2
<1>3. /\ ends \in Streams
      /\ Len(delivered) \in Nat /\ Len(delivered) <= Len(ends)
      /\ rcvd <= ends[Len(ends)]
  BY Position DEF IInv, TypeOK
<1>4. /\ Len(ends) \in Nat \ {0}
      /\ \A i \in 1 .. Len(ends) : ends[i] \in Nat
      /\ \A i \in 1 .. Len(ends) : Start(i) < ends[i] /\ Start(i + 1) = ends[i]
  BY <1>3, StreamFacts, StartFacts
<1>5. Len(delivered) # Len(ends)
  <2> SUFFICES ASSUME Len(delivered) = Len(ends) PROVE FALSE OBVIOUS
  <2>1. Len(ends) \in 1 .. Len(ends) BY <1>4
  <2>2. Done = ends[Len(ends)] BY <1>4, <2>1 DEF Done
  <2>. QED BY <1>1, <1>3, <1>4, <2>1, <2>2
<1>6. Len(delivered) + 1 \in 1 .. Len(ends) BY <1>3, <1>4, <1>5
<1>7. MsgLen = Length(Len(delivered) + 1)
  BY <1>2, <1>3, <1>6, DeclaredAtStart DEF MsgLen, Done
<1>8. Start(Len(delivered) + 1) = Done BY DEF Done
<1>9. ends[Len(delivered) + 1] \in Nat /\ Done < ends[Len(delivered) + 1]
  BY <1>4, <1>6, <1>8
<1>10. MsgLen = ends[Len(delivered) + 1] - Done BY <1>7, <1>8 DEF Length
<1>. QED BY <1>1, <1>6, <1>7, <1>8, <1>9, <1>10

(* TakenWhole: what is dispatched is the next message of the stream.       *)
LEMMA TakenWhole ==
    ASSUME IInv, Complete, Taken, ends' = ends
    PROVE  /\ FramedExactly' /\ delivered' \in Seq(Seq(Nat))
           /\ Done' = Done + MsgLen
           /\ MsgLen \in Nat /\ MsgLen <= data_len
<1> DEFINE k == Len(delivered) + 1
           m == SubSeq(data, start_pos + 1, start_pos + MsgLen)
<1>1. pc = "parsing" /\ data_len > 0 /\ MsgLen <= data_len
  <2>1. data_len \in Nat /\ HeaderLen \in Nat \ {0}
    BY FramerAssumption DEF IInv, TypeOK
  <2>2. pc = "parsing" /\ data_len >= HeaderLen /\ data_len >= MsgLen
    BY DEF Complete, HeaderHere
  <2>3. MsgLen \in Nat BY <2>1, <2>2, AtBoundary
  <2>. QED BY <2>1, <2>2, <2>3
<1>2. /\ Done \in Nat /\ rcvd \in Nat /\ start_pos \in Nat /\ data_len \in Nat
      /\ Done - start_pos \in Nat /\ Done - start_pos <= rcvd
      /\ data = Bytes(Done - start_pos, rcvd)
      /\ Done + data_len = rcvd
  BY <1>1, InHand
<1>3. k \in 1 .. Len(ends) /\ Start(k) = Done /\ ends[k] = Done + MsgLen /\ MsgLen \in Nat
  BY <1>1, AtBoundary
<1>4. m = Bytes(Done, Done + MsgLen)
  <2>1. PICK base \in Nat : base = Done - start_pos BY <1>2
  <2>2. PICK last \in Nat : last = start_pos + MsgLen BY <1>2, <1>3
  <2>3. start_pos <= last /\ base + last <= rcvd BY <1>1, <1>2, <1>3, <2>1, <2>2
  <2>4. Slice(Bytes(base, rcvd), start_pos, last) = Bytes(base + start_pos, base + last)
    BY <1>2, <2>3, BytesSlice
  <2>5. base + start_pos = Done /\ base + last = Done + MsgLen
    BY <1>2, <1>3, <2>1, <2>2
  <2>6. m = Slice(data, start_pos, last) BY <2>2 DEF Slice
  <2>. QED BY <1>2, <2>1, <2>4, <2>5, <2>6
<1>5. m = Message(k) BY <1>3, <1>4 DEF Message
<1>6. m \in Seq(Nat)
  <2>1. Done + MsgLen \in Nat /\ Done <= Done + MsgLen BY <1>2, <1>3
  <2>. QED BY <1>2, <1>4, <2>1, BytesSeq
<1>7. delivered \in Seq(Seq(Nat)) BY DEF IInv, TypeOK
<1>8. /\ delivered' \in Seq(Seq(Nat)) /\ Len(delivered') = Len(delivered) + 1
      /\ \A i \in 1 .. Len(delivered) : delivered'[i] = delivered[i]
      /\ delivered'[k] = m
  <2>1. delivered' = Append(delivered, m) BY DEF Taken
  <2> HIDE DEF m
  <2>. QED BY <1>6, <1>7, <2>1, AppendProperties
<1>9. FramedExactly'
  <2> SUFFICES ASSUME NEW i \in DOMAIN delivered'
               PROVE  i \in DOMAIN ends /\ delivered'[i] = Message(i)
    BY DEF FramedExactly, Message, Start
  <2>1. DOMAIN ends = 1 .. Len(ends) BY StreamFacts DEF IInv, TypeOK
  <2>2. Len(delivered) \in Nat /\ DOMAIN delivered' = 1 .. k
    BY <1>7, <1>8
  <2>3. CASE i = k BY <1>3, <1>5, <1>8, <2>1, <2>3
  <2>4. CASE i # k
    <3>1. i \in 1 .. Len(delivered) BY <2>2, <2>4
    <3>2. i \in DOMAIN delivered BY <1>7, <3>1
    <3>. QED BY <1>8, <3>1, <3>2 DEF IInv, FramedExactly
  <2>. QED BY <2>3, <2>4
<1>10. Done' = Done + MsgLen
  <2>1. Len(delivered') + 1 = k + 1 BY <1>8
  <2>2. Start(k + 1) = ends[k] BY <1>3, StartFacts DEF IInv, TypeOK
  <2>3. Done' = Start(k + 1) BY <2>1 DEF Done, Start
  <2>. QED BY <1>3, <2>2, <2>3
<1>. QED BY <1>1, <1>3, <1>8, <1>9, <1>10

-----------------------------------------------------------------------------
(* InitInv: before the first connection there is nothing in hand. *)
LEMMA InitInv == Init => IInv
<1> SUFFICES ASSUME Init PROVE IInv OBVIOUS
<1>1. Len(ends) \in Nat \ {0} /\ \A i \in 1 .. Len(ends) : ends[i] \in Nat
  BY StreamFacts DEF Init
<1>2. ends[Len(ends)] \in Nat BY <1>1
<1>3. << >> \in Seq(Nat) /\ << >> \in Seq(Seq(Nat)) /\ Len(<< >>) = 0 OBVIOUS
<1>4. 0 \in 0 .. MaxMessageSize /\ 0 \in 0 .. MaxSessions BY FramerAssumption
<1>5. rcvd \in 0 .. ends[Len(ends)] BY <1>2 DEF Init
<1>6. /\ data \in Seq(Nat) /\ partial_data \in Seq(Nat) /\ delivered \in Seq(Seq(Nat))
      /\ start_pos \in Nat /\ data_len \in Nat /\ start_pos + data_len = Len(data)
  BY <1>3 DEF Init
<1>7. /\ ends \in Streams /\ expected_bytes \in 0 .. MaxMessageSize
      /\ pc \in {"down", "waiting", "parsing"} /\ stopped \in BOOLEAN
      /\ sessions \in 0 .. MaxSessions
  BY <1>4 DEF Init
<1>8. TypeOK BY <1>5, <1>6, <1>7 DEF TypeOK
<1>9. FramedExactly /\ ParsingInv /\ WaitingInv
  BY DEF Init, FramedExactly, ParsingInv, WaitingInv
<1>. QED BY <1>9, <1>8 DEF IInv

(* DownInv: once the receive thread has hung up only the record of what it *)
(* dispatched remains.                                                     *)
LEMMA DownInv ==
    ASSUME IInv, HangUp, FramedExactly', delivered' \in Seq(Seq(Nat)),
           UNCHANGED << ends, rcvd, data, start_pos, data_len, sessions >>
    PROVE  IInv'
<1>1. pc' = "down" /\ stopped' = TRUE /\ partial_data' = << >> /\ expected_bytes' = 0
  BY DEF HangUp, ResetFrameState
<1>2. TypeOK' BY <1>1, FramerAssumption DEF IInv, TypeOK
<1>. QED BY <1>1, <1>2 DEF IInv, ParsingInv, WaitingInv

(* KeepInv: what is kept is what was received since the last message ended. *)
LEMMA KeepInv ==
    ASSUME IInv, pc = "parsing", data_len > 0,
           NEW needed \in 1 .. MaxMessageSize, data_len < needed, Keep(needed), Leave,
           needed = HeaderLen \/ needed = MsgLen,
           UNCHANGED << ends, rcvd, data, start_pos, data_len, delivered, sessions >>
    PROVE  IInv'
<1>1. /\ Done \in Nat /\ rcvd \in Nat /\ start_pos \in Nat /\ data_len \in Nat
      /\ Done - start_pos \in Nat /\ Done - start_pos <= rcvd
      /\ data = Bytes(Done - start_pos, rcvd)
      /\ Len(data) = start_pos + data_len
      /\ Done + data_len = rcvd
  BY InHand
<1>2. partial_data' = Bytes(Done, rcvd)
  <2>1. PICK base \in Nat : base = Done - start_pos BY <1>1
  <2>2. PICK last \in Nat : last = Len(data) BY <1>1
  <2>3. start_pos <= last /\ base + last <= rcvd BY <1>1, <2>1, <2>2
  <2>4. Slice(Bytes(base, rcvd), start_pos, last) = Bytes(base + start_pos, base + last)
    BY <1>1, <2>3, BytesSlice
  <2>5. base + start_pos = Done /\ base + last = rcvd BY <1>1, <2>1, <2>2
  <2>6. partial_data' = Slice(data, start_pos, last) BY <2>2 DEF Slice, Keep
  <2>. QED BY <1>1, <2>1, <2>4, <2>5, <2>6
<1>3. partial_data' \in Seq(Nat) BY <1>1, <1>2, BytesSeq
<1>4. expected_bytes' = needed /\ needed \in Nat BY FramerAssumption DEF Keep
<1>5. pc' \in {"down", "waiting"} /\ stopped' = stopped BY DEF Leave
<1>6. TypeOK' BY <1>3, <1>4, <1>5, FramerAssumption DEF IInv, TypeOK
<1>7. FramedExactly' BY DEF IInv, FramedExactly, Message, Start
<1>8. Done' = Done BY DEF Done, Start
<1>9. WaitingInv'
  <2>1. Done' < rcvd' /\ rcvd' < Done' + expected_bytes' BY <1>1, <1>4, <1>8
  <2>2. partial_data' = Bytes(Done, rcvd)' BY <1>2, <1>8 DEF Bytes
  <2>3. \/ expected_bytes' = HeaderLen
        \/ /\ Len(delivered') + 1 \in DOMAIN ends'
           /\ expected_bytes' = Length(Len(delivered) + 1)'
    BY <1>4, AtBoundary, StreamFacts DEF Length, Start, IInv, TypeOK
  <2>. QED BY <2>1, <2>2, <2>3 DEF WaitingInv
<1>10. ParsingInv' BY <1>5 DEF ParsingInv
<1>. QED BY <1>6, <1>7, <1>9, <1>10 DEF IInv

(* ReceiveInv: a chunk continues what was kept. *)
LEMMA ReceiveInv ==
    ASSUME IInv, NEW n \in 1 .. MaxMessages * MaxLen, Receive(n)
    PROVE  IInv'
<1> DEFINE chunk == Bytes(rcvd, rcvd + n)
           all   == IF expected_bytes > 0 THEN Buffered(chunk) ELSE chunk
<1>1. /\ pc = "waiting" /\ rcvd + n <= ends[Len(ends)] /\ rcvd' = rcvd + n
      /\ partial_data' = IF expected_bytes > 0 THEN all ELSE partial_data
      /\ data' = all /\ start_pos' = 0 /\ data_len' = Len(all)
      /\ pc' = IF Len(all) < expected_bytes THEN "waiting" ELSE "parsing"
      /\ UNCHANGED << ends, expected_bytes, stopped, delivered, sessions >>
  BY DEF Receive
<1>2. /\ Done \in Nat /\ rcvd \in Nat /\ n \in Nat \ {0} /\ expected_bytes \in Nat
      /\ ends[Len(ends)] \in Nat /\ partial_data \in Seq(Nat)
  <2>1. Len(ends) \in Nat \ {0} /\ \A i \in 1 .. Len(ends) : ends[i] \in Nat
    BY StreamFacts DEF IInv, TypeOK
  <2>2. ends[Len(ends)] \in Nat BY <2>1
  <2>3. MaxMessages * MaxLen \in Nat /\ MaxMessageSize \in Nat BY FramerAssumption
  <2>4. n \in Nat \ {0} BY <2>3
  <2>5. Done \in Nat BY Position DEF IInv
  <2>. QED BY <2>2, <2>3, <2>4, <2>5 DEF IInv, TypeOK
<1>3. \/ expected_bytes = 0 /\ partial_data = << >> /\ Done = rcvd
      \/ /\ expected_bytes > 0 /\ Done < rcvd /\ rcvd < Done + expected_bytes
         /\ partial_data = Bytes(Done, rcvd)
         /\ \/ expected_bytes = HeaderLen
            \/ /\ Len(delivered) + 1 \in DOMAIN ends
               /\ expected_bytes = Length(Len(delivered) + 1)
  BY <1>1, <1>2 DEF IInv, WaitingInv
<1>4. all = Bytes(Done, rcvd + n)
  <2>1. CASE expected_bytes = 0 BY <1>3, <2>1
  <2>2. CASE expected_bytes > 0
    <3>1. partial_data = Bytes(Done, rcvd) /\ Done <= rcvd BY <1>2, <1>3, <2>2
    <3>2. rcvd <= rcvd + n /\ rcvd + n \in Nat BY <1>2
    <3>3. Bytes(Done, rcvd) \o chunk = Bytes(Done, rcvd + n)
      BY <1>2, <3>1, <3>2, BytesConcat
    <3>. QED BY <2>2, <3>1, <3>3 DEF Buffered
  <2>. QED BY <1>2, <2>1, <2>2
<1>5. Done <= rcvd /\ Done <= rcvd + n BY <1>2, <1>3
<1>6. all \in Seq(Nat) /\ Len(all) = (rcvd + n) - Done
  <2>1. PICK last \in Nat : last = rcvd + n BY <1>2
  <2>. QED BY <1>2, <1>4, <1>5, <2>1, BytesSeq
<1> HIDE DEF all, chunk
<1>7. TypeOK'
  <2>1. /\ rcvd' \in 0 .. ends'[Len(ends')] /\ data' \in Seq(Nat)
        /\ partial_data' \in Seq(Nat) /\ data_len' \in Nat
        /\ start_pos' + data_len' = Len(data')
    BY <1>1, <1>2, <1>5, <1>6
  <2>. QED BY <1>1, <2>1 DEF IInv, TypeOK
<1>8. FramedExactly' BY <1>1 DEF IInv, FramedExactly, Message, Start
<1>9. Done' = Done BY <1>1 DEF Done, Start
<1>10. ParsingInv'
  <2>1. CASE Len(all) < expected_bytes BY <1>1, <2>1 DEF ParsingInv
  <2>2. CASE ~ (Len(all) < expected_bytes)
    <3>1. Done' - start_pos' = Done BY <1>1, <1>2, <1>9
    <3>2. data' = Bytes(Done - start_pos, rcvd)' BY <1>1, <1>4, <1>9, <3>1 DEF Bytes
    <3>3. start_pos' <= Done' /\ Done' <= rcvd' BY <1>1, <1>2, <1>5, <1>9
    <3>4. Len(data') >= expected_bytes' BY <1>1, <1>2, <1>5, <1>6, <2>2
    <3>. QED BY <1>1, <3>2, <3>3, <3>4 DEF ParsingInv
  <2>. QED BY <2>1, <2>2
<1>11. WaitingInv'
  <2>1. CASE ~ (Len(all) < expected_bytes) BY <1>1, <2>1 DEF WaitingInv
  <2>2. CASE Len(all) < expected_bytes
    <3>1. expected_bytes > 0 BY <1>2, <1>5, <1>6, <2>2
    <3>2. Done' < rcvd' /\ rcvd' < Done' + expected_bytes'
      BY <1>1, <1>2, <1>3, <1>6, <1>9, <2>2, <3>1
    <3>3. partial_data' = Bytes(Done, rcvd)' BY <1>1, <1>4, <1>9, <3>1 DEF Bytes
    <3>4. \/ expected_bytes' = HeaderLen
          \/ /\ Len(delivered') + 1 \in DOMAIN ends'
             /\ expected_bytes' = Length(Len(delivered) + 1)'
      BY <1>1, <1>3, <3>1 DEF Length, Start
    <3>. QED BY <3>2, <3>3, <3>4 DEF WaitingInv
  <2>. QED BY <2>1, <2>2
<1>. QED BY <1>7, <1>8, <1>10, <1>11 DEF IInv

(* DispatchInv: after a message the loop stands where it ended. *)
LEMMA DispatchInv ==
    ASSUME IInv, NEW closes \in BOOLEAN, Dispatch(closes)
    PROVE  IInv'
<1>1. /\ Complete /\ Taken /\ expected_bytes' = 0 /\ pc = "parsing" /\ pc' = "parsing"
      /\ partial_data' = IF closes THEN << >> ELSE partial_data
      /\ stopped' = (stopped \/ closes)
      /\ start_pos' = start_pos + MsgLen /\ data_len' = data_len - MsgLen
      /\ UNCHANGED << ends, rcvd, data, sessions >>
  BY DEF Dispatch, Complete, HeaderHere
<1>2. /\ Done \in Nat /\ rcvd \in Nat /\ start_pos \in Nat /\ data_len \in Nat
      /\ Done - start_pos \in Nat
      /\ data = Bytes(Done - start_pos, rcvd)
      /\ Len(data) = start_pos + data_len
      /\ Done + data_len = rcvd
  BY <1>1, InHand
<1>3. /\ FramedExactly' /\ delivered' \in Seq(Seq(Nat))
      /\ Done' = Done + MsgLen
      /\ MsgLen \in Nat /\ MsgLen <= data_len
  BY <1>1, TakenWhole
<1>4. TypeOK'
  <2>1. /\ start_pos' \in Nat /\ data_len' \in Nat
        /\ start_pos' + data_len' = Len(data')
    <3>1. data' = data BY <1>1
    <3>2. start_pos' \in Nat /\ data_len' \in Nat BY <1>1, <1>2, <1>3
    <3>3. start_pos' + data_len' = start_pos + data_len BY <1>1, <1>2, <1>3
    <3>. QED BY <1>2, <3>1, <3>2, <3>3
  <2>2. partial_data' \in Seq(Nat) /\ stopped' \in BOOLEAN BY <1>1 DEF IInv, TypeOK
  <2>3. expected_bytes' \in 0 .. MaxMessageSize BY <1>1, FramerAssumption
  <2>. QED BY <1>1, <1>3, <2>1, <2>2, <2>3 DEF IInv, TypeOK
<1>5. ParsingInv'
  <2>1. Done' - start_pos' = Done - start_pos BY <1>1, <1>2, <1>3
  <2>2. data' = Bytes(Done - start_pos, rcvd)' BY <1>1, <1>2, <2>1 DEF Bytes
  <2>3. start_pos' <= Done' /\ Done' <= rcvd' BY <1>1, <1>2, <1>3
  <2>. QED BY <1>1, <2>2, <2>3 DEF ParsingInv
<1>6. WaitingInv' BY <1>1 DEF WaitingInv
<1>. QED BY <1>3, <1>4, <1>5, <1>6 DEF IInv

(* ParsedInv: a chunk is used up exactly when nothing is left to wait for. *)
LEMMA ParsedInv ==
    ASSUME IInv, Parsed
    PROVE  IInv'
<1>1. /\ pc = "parsing" /\ data_len = 0 /\ pc' \in {"down", "waiting"}
      /\ partial_data' = IF expected_bytes > 0 THEN partial_data ELSE << >>
      /\ UNCHANGED << ends, rcvd, data, start_pos, data_len, expected_bytes,
                      stopped, delivered, sessions >>
  BY DEF Parsed, Leave
<1>2. Done = rcvd /\ Len(data) = start_pos /\ start_pos \in Nat BY <1>1, InHand
<1>3. expected_bytes = 0
  <2>1. expected_bytes \in Nat BY FramerAssumption DEF IInv, TypeOK
  <2>. QED BY <1>1, <1>2, <2>1 DEF IInv, ParsingInv
<1>4. TypeOK' BY <1>1, <1>3 DEF IInv, TypeOK
<1>5. FramedExactly' BY <1>1 DEF IInv, FramedExactly, Message, Start
<1>6. Done' = Done BY <1>1 DEF Done, Start
<1>7. WaitingInv' BY <1>1, <1>2, <1>3, <1>6 DEF WaitingInv
<1>8. ParsingInv' BY <1>1 DEF ParsingInv
<1>. QED BY <1>4, <1>5, <1>7, <1>8 DEF IInv

(* NextInv: every step of the receive loop keeps the invariant. *)
LEMMA NextInv == IInv /\ [Next]_vars => IInv'
<1> SUFFICES ASSUME IInv, [Next]_vars PROVE IInv' OBVIOUS
<1>1. CASE Connect
  <2>1. /\ ends' \in Streams /\ rcvd' = 0 /\ delivered' = << >> /\ data' = << >>
        /\ start_pos' = 0 /\ data_len' = 0 /\ pc' = "waiting" /\ stopped' = FALSE
        /\ partial_data' = << >> /\ expected_bytes' = 0
        /\ sessions < MaxSessions /\ sessions' = sessions + 1
    BY <1>1 DEF Connect, ResetFrameState
  <2>2. ends'[Len(ends')] \in Nat
    <3>1. Len(ends') \in Nat \ {0} /\ \A i \in 1 .. Len(ends') : ends'[i] \in Nat
      BY <2>1, StreamFacts
    <3>. QED BY <3>1
  <2>3. sessions' \in 0 .. MaxSessions BY <2>1, FramerAssumption DEF IInv, TypeOK
  <2>4. TypeOK'
    <3>1. << >> \in Seq(Nat) /\ << >> \in Seq(Seq(Nat)) /\ Len(<< >>) = 0 OBVIOUS
    <3>2. 0 \in 0 .. MaxMessageSize BY FramerAssumption
    <3>3. rcvd' \in 0 .. ends'[Len(ends')] BY <2>1, <2>2
    <3>4. /\ data' \in Seq(Nat) /\ partial_data' \in Seq(Nat)
          /\ delivered' \in Seq(Seq(Nat)) /\ start_pos' \in Nat /\ data_len' \in Nat
          /\ start_pos' + data_len' = Len(data')
      BY <2>1, <3>1
    <3>5. /\ expected_bytes' \in 0 .. MaxMessageSize /\ stopped' \in BOOLEAN
          /\ pc' \in {"down", "waiting", "parsing"}
      BY <2>1, <3>2
    <3>. QED BY <2>1, <2>3, <3>3, <3>4, <3>5 DEF TypeOK
  <2>5. FramedExactly' BY <2>1 DEF FramedExactly
  <2>6. Done' = 0 BY <2>1 DEF Done, Start
  <2>7. ParsingInv' /\ WaitingInv' BY <2>1, <2>6 DEF ParsingInv, WaitingInv
  <2>. QED BY <2>4, <2>5, <2>7 DEF IInv
<1>2. ASSUME NEW n \in 1 .. MaxMessages * MaxLen, Receive(n) PROVE IInv'
  BY <1>2, ReceiveInv
<1>3. CASE KeepHeader
  <2>1. HeaderLen \in 1 .. MaxMessageSize BY FramerAssumption
  <2>. QED BY <1>3, <2>1, KeepInv DEF KeepHeader
<1>4. CASE KeepBody
  <2>1. pc = "parsing" /\ data_len > 0
    BY <1>4, FramerAssumption DEF KeepBody, HeaderHere, IInv, TypeOK
  <2>2. MsgLen \in Nat BY <2>1, AtBoundary
  <2>3. MsgLen \in 1 .. MaxMessageSize
    BY <1>4, <2>2, FramerAssumption DEF KeepBody, LengthValid
  <2>. QED BY <1>4, <2>1, <2>3, KeepInv DEF KeepBody
<1>5. ASSUME FramedExactly', HangUp, delivered' \in Seq(Seq(Nat)),
             UNCHANGED << ends, rcvd, data, start_pos, data_len, sessions >>
      PROVE  IInv'
  BY <1>5, DownInv
<1>6. UNCHANGED << ends, delivered >> => FramedExactly' /\ delivered' \in Seq(Seq(Nat))
  BY DEF IInv, TypeOK, FramedExactly, Message, Start
<1>7. CASE BadLength BY <1>5, <1>6, <1>7 DEF BadLength
<1>8. ASSUME NEW closes \in BOOLEAN, Dispatch(closes) PROVE IInv'
  BY <1>8, DispatchInv
<1>9. CASE DispatchFails BY <1>5, <1>9, TakenWhole DEF DispatchFails
<1>10. CASE Parsed BY <1>10, ParsedInv
<1>11. CASE LoseConnection BY <1>5, <1>6, <1>11 DEF LoseConnection
<1>12. CASE UNCHANGED vars
  BY <1>6, <1>12 DEF vars, IInv, TypeOK, ParsingInv, WaitingInv, Done, Start, Bytes, Length
<1>. QED
  BY <1>1, <1>2, <1>3, <1>4, <1>7, <1>8, <1>9, <1>10, <1>11, <1>12 DEF Next

(* Invariant: the inductive invariant holds in every reachable state. *)
THEOREM Invariant == Spec => []IInv
BY InitInv, NextInv, PTL DEF Spec

(* TypeCorrect: the type invariant of the framer holds always. *)
THEOREM TypeCorrect == Spec => []TypeOK
<1>1. IInv => TypeOK BY DEF IInv
<1>. QED BY <1>1, Invariant, PTL

(* WireOrder: for every stream, every way recv() can cut it, handlers that *)
(* close the connection and sessions that end in the middle of a message,  *)
(* the messages dispatched are those of the stream, whole, once, in order. *)
THEOREM WireOrder == Spec => []FramedExactly
<1>1. IInv => FramedExactly BY DEF IInv
<1>. QED BY <1>1, Invariant, PTL

(* Prompt: the receive thread never waits for more bytes while it holds a  *)
(* complete message.                                                       *)
THEOREM Prompt == Spec => []NothingHeldBack
<1>1. IInv => NothingHeldBack
  <2> SUFFICES ASSUME IInv, pc = "waiting", NEW i \in DOMAIN ends,
                      ends[i] <= rcvd, Length(i) >= HeaderLen, ~ (i <= Len(delivered))
               PROVE  FALSE
    BY DEF NothingHeldBack
  <2>1. /\ Len(delivered) \in Nat /\ Len(delivered) <= Len(ends)
        /\ Done \in Nat /\ ends \in Streams /\ rcvd \in Nat /\ HeaderLen \in Nat
    <3>1. Len(ends) \in Nat \ {0} /\ \A j \in 1 .. Len(ends) : ends[j] \in Nat
      BY StreamFacts DEF IInv, TypeOK
    <3>2. rcvd \in Nat BY <3>1 DEF IInv, TypeOK
    <3>. QED BY <3>2, Position, FramerAssumption DEF IInv, TypeOK
  <2>2. i \in 1 .. Len(ends) /\ Len(ends) \in Nat /\ ends[i] \in Nat
    BY <2>1, StreamFacts
  <2>3. Start(i) \in Nat /\ Start(i) < ends[i] BY <2>1, <2>2, StartFacts
  <2>4. Done <= Start(i)
    <3>1. CASE i = Len(delivered) + 1 BY <2>1, <3>1 DEF Done
    <3>2. CASE i # Len(delivered) + 1
      <4>1. Len(delivered) + 1 \in 1 .. Len(ends) /\ Len(delivered) + 1 < i
        BY <2>1, <2>2, <3>2
      <4>2. ends[Len(delivered) + 1] <= Start(i) BY <2>1, <2>2, <4>1, StartFacts
      <4>3. Done < ends[Len(delivered) + 1] BY <2>1, <4>1, StartFacts DEF Done
      <4>4. ends[Len(delivered) + 1] \in Nat BY <2>1, <4>1, StreamFacts
      <4>. QED BY <2>1, <2>3, <4>2, <4>3, <4>4
    <3>. QED BY <3>1, <3>2
  <2>5. Done < rcvd BY <2>1, <2>2, <2>3, <2>4
  <2>6. CASE rcvd < Done + HeaderLen
    <3>1. ends[i] - Start(i) >= HeaderLen BY DEF Length
    <3>. QED BY <2>1, <2>2, <2>3, <2>4, <2>6, <3>1
  <2>7. CASE /\ Len(delivered) + 1 \in DOMAIN ends
             /\ rcvd < Done + Length(Len(delivered) + 1)
    <3>1. Len(delivered) + 1 \in 1 .. Len(ends) BY <2>1, <2>7, StreamFacts
    <3>2. ends[Len(delivered) + 1] \in Nat BY <2>1, <3>1, StreamFacts
    <3>3. rcvd < ends[Len(delivered) + 1] BY <2>1, <2>7, <3>2 DEF Length, Done
    <3>4. CASE i = Len(delivered) + 1 BY <2>1, <2>2, <3>2, <3>3, <3>4
    <3>5. CASE i # Len(delivered) + 1
      <4>1. Len(delivered) + 1 < i BY <2>1, <2>2, <3>5
      <4>2. ends[Len(delivered) + 1] < ends[i] BY <2>1, <2>2, <3>1, <4>1, StreamFacts
      <4>. QED BY <2>1, <2>2, <3>2, <3>3, <4>2
    <3>. QED BY <3>4, <3>5
  <2>. QED BY <2>1, <2>5, <2>6, <2>7 DEF IInv, WaitingInv
<1>. QED BY <1>1, Invariant, PTL

(* Bounded: whatever lengths headers declare, less than one message of the *)
(* largest size accepted is kept.                                          *)
THEOREM Bounded == Spec => []BoundedBuffer
<1>1. IInv => BoundedBuffer
  <2> SUFFICES ASSUME IInv, pc = "waiting"
               PROVE  /\ Len(partial_data) < MaxMessageSize
                      /\ Len(partial_data) > 0 => Len(partial_data) < expected_bytes
    BY DEF BoundedBuffer
  <2>1. /\ Done \in Nat /\ rcvd \in Nat /\ expected_bytes \in 0 .. MaxMessageSize
        /\ MaxMessageSize \in Nat \ {0}
    <3>1. Len(ends) \in Nat \ {0} /\ \A j \in 1 .. Len(ends) : ends[j] \in Nat
      BY StreamFacts DEF IInv, TypeOK
    <3>2. rcvd \in Nat BY <3>1 DEF IInv, TypeOK
    <3>. QED BY <3>2, Position, FramerAssumption DEF IInv, TypeOK
  <2>2. CASE partial_data = << >>
    <3>1. Len(partial_data) = 0 BY <2>2
    <3>. QED BY <2>1, <3>1
  <2>3. CASE /\ Done < rcvd /\ rcvd < Done + expected_bytes
             /\ partial_data = Bytes(Done, rcvd)
    <3>0. Done <= rcvd BY <2>1, <2>3
    <3>1. Len(partial_data) = rcvd - Done BY <2>1, <2>3, <3>0, BytesSeq
    <3>. QED BY <2>1, <2>3, <3>1
  <2>. QED BY <2>2, <2>3 DEF IInv, WaitingInv
<1>. QED BY <1>1, Invariant, PTL
=============================================================================
