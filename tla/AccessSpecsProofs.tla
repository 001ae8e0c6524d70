-------------------------- MODULE AccessSpecsProofs -------------------------
(***************************************************************************)
(* Theorems about AccessSpecs, for any identifiers, operations and number  *)
(* of calls, with a reader that may reject anything and requests that may  *)
(* time out.                                                               *)
(*                                                                         *)
(* Several chains of requests may be under way at once (disable, delete,   *)
(* add, enable), one in each phase.  They stay out of each other's way     *)
(* because responses come in the order of the requests: Wired says which   *)
(* of two outstanding requests is answered first.                          *)
(***************************************************************************)
EXTENDS AccessSpecs, SequenceTheorems, TLAPS

Operations == {access.op : access \in Accesses} \cup {""}
States     == {"INVENTORYING", "SENT_DELETE_ACCESSSPEC", "SENT_DELETE_ROSPEC", "DISCONNECTED"}
Callbacks  == {"add_accessspec_cb", "disable_accessspec_cb", "start_next_accessspec_cb",
               "send_delete_accessspec_cb", "stop_all_rospecs_cb"}
Names      == Requests \cup {"ENABLE_ACCESSSPEC"}
AccessT    == [id : Ids \cup {0}, op : Operations, stop : Int]
RequestT   == [cb : Callbacks, access : AccessT]
Pendings   == [Requests -> {NoRequest} \cup RequestT]
MessageT   == [name : Names, access : AccessT, live : BOOLEAN]
AnswerT    == [name : Names, ok : BOOLEAN, live : BOOLEAN]
SpecT      == [op : Operations, counted : BOOLEAN, enabled : BOOLEAN]
HandlerT   == [state : States, pending : Pendings, raised : BOOLEAN, out : Seq(MessageT)]

TypeOK ==
    /\ client \in [state : States, pending : Pendings]
    /\ toReader \in Seq(MessageT) /\ toClient \in Seq(AnswerT)
    /\ reader \in [specs : [Ids -> SpecT], rospec : BOOLEAN]
    /\ want \in [Ids -> SpecT]
    /\ {stopping, calm, sound} \subseteq BOOLEAN
    /\ calls \in Nat

(* Names for the parts of a handler's result. *)
Put(p, n, v)         == [p EXCEPT ![n] = v]
Request(cb, access)  == [cb |-> cb, access |-> access]
Waited(n, access)    == Message(n, access, TRUE)
Unwaited(n, access)  == Message(n, access, FALSE)
Accepted(n)          == [name |-> n, ok |-> TRUE, live |-> TRUE]

(* A live message of a name at a place of the wire: the answers under way  *)
(* (r) come before the requests under way (q).                             *)
Places(r, q) == 1 .. Len(r) + Len(q)
LiveAt(r, q, i, n) ==
    IF i <= Len(r) THEN r[i].live /\ r[i].name = n
    ELSE q[i - Len(r)].live /\ q[i - Len(r)].name = n

(* Every outstanding request, and nothing else, has one live message on    *)
(* the wire.                                                               *)
Tracked(r, q, p) ==
    /\ \A i \in Places(r, q) : \A n \in Names :
          LiveAt(r, q, i, n) => n \in Requests /\ p[n] # NoRequest
    /\ \A i, j \in Places(r, q) : \A n \in Names :
          LiveAt(r, q, i, n) /\ LiveAt(r, q, j, n) => i = j
    /\ \A n \in Requests : p[n] # NoRequest => \E i \in Places(r, q) : LiveAt(r, q, i, n)

(* Of two outstanding requests of different chains, the later phase is     *)
(* answered first.                                                         *)
Wired(r, q) ==
    \A i, j \in Places(r, q) :
       /\ LiveAt(r, q, i, "DELETE_ACCESSSPEC") /\ LiveAt(r, q, j, "DISABLE_ACCESSSPEC") => i < j
       /\ LiveAt(r, q, i, "ADD_ACCESSSPEC") /\ LiveAt(r, q, j, "DELETE_ACCESSSPEC") => i < j

(* Which callback waits for which response, before disconnect(). *)
ChainCallbacks(p) ==
    /\ p["DELETE_ROSPEC"] = NoRequest
    /\ p["ADD_ACCESSSPEC"] # NoRequest => p["ADD_ACCESSSPEC"].cb = "add_accessspec_cb"
    /\ p["DISABLE_ACCESSSPEC"] # NoRequest =>
          p["DISABLE_ACCESSSPEC"].cb = "disable_accessspec_cb"
    /\ p["DELETE_ACCESSSPEC"] # NoRequest =>
          p["DELETE_ACCESSSPEC"].cb = "start_next_accessspec_cb"

(* What a chain will add can be built. *)
ChainsSound(p) ==
    \A n \in {"DISABLE_ACCESSSPEC", "DELETE_ACCESSSPEC"} :
        p[n] # NoRequest => Buildable(p[n].access)

Chaining(r, q, c, snd) ==
    /\ c.state = "INVENTORYING"
    /\ Tracked(r, q, c.pending) /\ Wired(r, q)
    /\ ChainCallbacks(c.pending)
    /\ snd => ChainsSound(c.pending)

(* A request of a chain that waited for a response of this name. *)
Chained(name, request, snd) ==
    \/ name = "ADD_ACCESSSPEC" /\ request.cb = "add_accessspec_cb"
    \/ name = "DISABLE_ACCESSSPEC" /\ request.cb = "disable_accessspec_cb"
          /\ (snd => Buildable(request.access))
    \/ name = "DELETE_ACCESSSPEC" /\ request.cb = "start_next_accessspec_cb"
          /\ (snd => Buildable(request.access))

(* The phase a callback goes on to is free of other chains. *)
Free(name, p) ==
    /\ name = "DISABLE_ACCESSSPEC" => p["DELETE_ACCESSSPEC"] = NoRequest
    /\ name = "DELETE_ACCESSSPEC" => p["ADD_ACCESSSPEC"] = NoRequest

ChainInv == Connected /\ ~stopping => Chaining(toClient, toReader, client, sound)

(* The phases of the polite stop. *)
NoneLive(s)    == \A i \in 1 .. Len(s) : ~ s[i].live
OnlyLast(s, m) == s # << >> /\ s[Len(s)] = m /\ \A i \in 1 .. Len(s) - 1 : ~ s[i].live
Only(p, n, cb) ==
    \A m \in Requests : IF m = n THEN p[m] # NoRequest /\ p[m].cb = cb ELSE p[m] = NoRequest
NoSpecs == \A id \in Ids : reader.specs[id] = Absent

Deleting ==
    /\ client.state = "SENT_DELETE_ACCESSSPEC"
    /\ Only(client.pending, "DELETE_ACCESSSPEC", "send_delete_accessspec_cb")
    /\ NoneLive(toClient) /\ OnlyLast(toReader, Waited("DELETE_ACCESSSPEC", All))
Deleted ==
    /\ client.state = "SENT_DELETE_ACCESSSPEC"
    /\ Only(client.pending, "DELETE_ACCESSSPEC", "send_delete_accessspec_cb")
    /\ NoSpecs /\ toReader = << >>
    /\ OnlyLast(toClient, Accepted("DELETE_ACCESSSPEC"))
Stopping ==
    /\ client.state = "SENT_DELETE_ROSPEC"
    /\ Only(client.pending, "DELETE_ROSPEC", "stop_all_rospecs_cb")
    /\ NoSpecs /\ toClient = << >>
    /\ toReader = << Waited("DELETE_ROSPEC", All) >>
Stopped ==
    /\ client.state = "SENT_DELETE_ROSPEC"
    /\ Only(client.pending, "DELETE_ROSPEC", "stop_all_rospecs_cb")
    /\ NoSpecs /\ ~reader.rospec /\ toReader = << >>
    /\ toClient = << Accepted("DELETE_ROSPEC") >>
Closed ==
    /\ client.state = "DISCONNECTED"
    /\ NoSpecs /\ ~reader.rospec /\ toReader = << >>

StopInv == stopping /\ calm => Deleting \/ Deleted \/ Stopping \/ Stopped \/ Closed

IInv == TypeOK /\ SessionSurvives /\ ChainInv /\ StopInv

-----------------------------------------------------------------------------
(* Lemmas about the wire.                                                   *)

(* PlaceAppend: a request sent comes after everything else. *)
LEMMA PlaceAppend ==
    ASSUME NEW r \in Seq(AnswerT), NEW q \in Seq(MessageT), NEW m \in MessageT
    PROVE  /\ Len(r) \in Nat /\ Len(q) \in Nat
           /\ Len(Append(q, m)) = Len(q) + 1 /\ Append(q, m) \in Seq(MessageT)
           /\ \A i \in Places(r, q) : \A n :
                 LiveAt(r, Append(q, m), i, n) <=> LiveAt(r, q, i, n)
           /\ \A n : LiveAt(r, Append(q, m), Len(r) + Len(q) + 1, n) <=> m.live /\ m.name = n
<1> DEFINE q2 == Append(q, m)
<1>1. /\ Len(r) \in Nat /\ Len(q) \in Nat /\ Len(q2) = Len(q) + 1 /\ q2 \in Seq(MessageT)
      /\ \A i \in 1 .. Len(q) : q2[i] = q[i]
      /\ q2[Len(q) + 1] = m
  OBVIOUS
<1> HIDE DEF q2
<1>2. ASSUME NEW i \in Places(r, q), NEW n
      PROVE  LiveAt(r, q2, i, n) <=> LiveAt(r, q, i, n)
  <2>1. CASE i <= Len(r) BY <2>1 DEF LiveAt
  <2>2. CASE ~ (i <= Len(r))
    <3>1. i - Len(r) \in 1 .. Len(q) BY <1>1, <2>2 DEF Places
    <3>. QED BY <1>1, <2>2, <3>1 DEF LiveAt
  <2>. QED BY <2>1, <2>2
<1>3. ASSUME NEW n
      PROVE  LiveAt(r, q2, Len(r) + Len(q) + 1, n) <=> m.live /\ m.name = n
  <2>1. ~ (Len(r) + Len(q) + 1 <= Len(r)) /\ (Len(r) + Len(q) + 1) - Len(r) = Len(q) + 1
    BY <1>1
  <2>. QED BY <1>1, <2>1 DEF LiveAt
<1>. QED BY <1>1, <1>2, <1>3 DEF q2

(* PlaceTail: taking the first answer moves everything up. *)
LEMMA PlaceTail ==
    ASSUME NEW r \in Seq(AnswerT), NEW q \in Seq(MessageT), r # << >>
    PROVE  /\ Len(r) \in Nat \ {0} /\ Len(q) \in Nat
           /\ Tail(r) \in Seq(AnswerT) /\ Len(Tail(r)) = Len(r) - 1
           /\ Head(r) = r[1]
           /\ \A i \in Places(Tail(r), q) : \A n :
                 LiveAt(Tail(r), q, i, n) <=> LiveAt(r, q, i + 1, n)
           /\ \A n : LiveAt(r, q, 1, n) <=> Head(r).live /\ Head(r).name = n
<1> DEFINE t == Tail(r)
<1>1. /\ Len(r) \in Nat \ {0} /\ Len(q) \in Nat /\ t \in Seq(AnswerT)
      /\ Len(t) = Len(r) - 1 /\ \A i \in 1 .. Len(t) : t[i] = r[i + 1]
      /\ Head(r) = r[1]
  BY HeadTailProperties, LenProperties
<1> HIDE DEF t
<1>2. ASSUME NEW i \in Places(t, q), NEW n
      PROVE  LiveAt(t, q, i, n) <=> LiveAt(r, q, i + 1, n)
  <2>0. i \in Nat /\ i >= 1 BY <1>1 DEF Places
  <2>1. CASE i <= Len(t)
    <3>1. i + 1 <= Len(r) /\ i \in 1 .. Len(t) BY <1>1, <2>0, <2>1
    <3>. QED BY <1>1, <2>1, <3>1 DEF LiveAt
  <2>2. CASE ~ (i <= Len(t))
    <3>1. ~ (i + 1 <= Len(r)) /\ (i + 1) - Len(r) = i - Len(t) BY <1>1, <2>0, <2>2
    <3>. QED BY <2>2, <3>1 DEF LiveAt
  <2>. QED BY <2>1, <2>2
<1>3. \A n : LiveAt(r, q, 1, n) <=> Head(r).live /\ Head(r).name = n
  BY <1>1 DEF LiveAt
<1>. QED BY <1>1, <1>2, <1>3 DEF t

(* PlaceMove: answering a request leaves it where it is. *)
LEMMA PlaceMove ==
    ASSUME NEW r \in Seq(AnswerT), NEW q \in Seq(MessageT), q # << >>,
           NEW ok \in BOOLEAN
    PROVE  LET r2 == Append(r, Answer(Head(q), ok))
           IN  /\ r2 \in Seq(AnswerT) /\ Tail(q) \in Seq(MessageT)
               /\ Places(r2, Tail(q)) = Places(r, q)
               /\ \A i \in Places(r, q) : \A n :
                     LiveAt(r2, Tail(q), i, n) <=> LiveAt(r, q, i, n)
<1> DEFINE a  == Answer(Head(q), ok)
           r2 == Append(r, a)
           t  == Tail(q)
<1>1. /\ Len(q) \in Nat \ {0} /\ Len(r) \in Nat /\ t \in Seq(MessageT)
      /\ Len(t) = Len(q) - 1 /\ \A i \in 1 .. Len(t) : t[i] = q[i + 1]
      /\ Head(q) = q[1] /\ q[1] \in MessageT
  BY HeadTailProperties, LenProperties
<1>2. a \in AnswerT /\ a.name = q[1].name /\ a.live = q[1].live
  BY <1>1 DEF Answer, AnswerT, MessageT
<1> HIDE DEF a, t
<1>3. /\ r2 \in Seq(AnswerT) /\ Len(r2) = Len(r) + 1
      /\ \A i \in 1 .. Len(r) : r2[i] = r[i]
      /\ r2[Len(r) + 1] = a
  BY <1>2
<1> HIDE DEF r2
<1>4. Len(r2) + Len(t) = Len(r) + Len(q) BY <1>1, <1>3
<1>5. Places(r2, t) = Places(r, q) BY <1>4 DEF Places
<1>6. ASSUME NEW i \in Places(r, q), NEW n
      PROVE  LiveAt(r2, t, i, n) <=> LiveAt(r, q, i, n)
  <2>0. i \in Nat /\ i >= 1 /\ i <= Len(r) + Len(q) BY <1>1 DEF Places
  <2>1. CASE i <= Len(r)
    <3>1. i \in 1 .. Len(r) /\ i <= Len(r2) BY <1>1, <1>3, <2>0, <2>1
    <3>. QED BY <1>3, <2>1, <3>1 DEF LiveAt
  <2>2. CASE i = Len(r) + 1
    <3>1. i <= Len(r2) /\ ~ (i <= Len(r)) /\ i - Len(r) = 1 BY <1>1, <1>3, <2>2
    <3>. QED BY <1>2, <1>3, <2>2, <3>1 DEF LiveAt
  <2>3. CASE i > Len(r) + 1
    <3>1. /\ ~ (i <= Len(r2)) /\ ~ (i <= Len(r))
          /\ i - Len(r2) \in 1 .. Len(t) /\ (i - Len(r2)) + 1 = i - Len(r)
      BY <1>1, <1>3, <2>0, <2>3
    <3>2. t[i - Len(r2)] = q[i - Len(r)] BY <1>1, <3>1
    <3>. QED BY <3>1, <3>2 DEF LiveAt
  <2>4. i <= Len(r) \/ i = Len(r) + 1 \/ i > Len(r) + 1 BY <1>1, <2>0
  <2>. QED BY <2>1, <2>2, <2>3, <2>4
<1>. QED BY <1>1, <1>3, <1>5, <1>6 DEF a, r2, t

(* PlaceLate: the answer to a request that timed out counts no more. *)
LEMMA PlaceLate ==
    ASSUME NEW r \in Seq(AnswerT), NEW q \in Seq(MessageT), NEW name
    PROVE  LET r2 == MarkLate(r, name)
               q2 == MarkLate(q, name)
           IN  /\ r2 \in Seq(AnswerT) /\ q2 \in Seq(MessageT)
               /\ Places(r2, q2) = Places(r, q)
               /\ \A i \in Places(r, q) : \A n :
                     LiveAt(r2, q2, i, n) <=> LiveAt(r, q, i, n) /\ n # name
<1> DEFINE r2 == MarkLate(r, name)
           q2 == MarkLate(q, name)
<1>1. /\ Len(r) \in Nat /\ DOMAIN r = 1 .. Len(r) /\ \A i \in 1 .. Len(r) : r[i] \in AnswerT
      /\ Len(q) \in Nat /\ DOMAIN q = 1 .. Len(q) /\ \A i \in 1 .. Len(q) : q[i] \in MessageT
  OBVIOUS
<1>2. /\ r2 \in [1 .. Len(r) -> AnswerT]
      /\ \A i \in 1 .. Len(r) :
            r2[i].name = r[i].name /\ (r2[i].live <=> r[i].live /\ r[i].name # name)
  BY <1>1 DEF MarkLate, AnswerT
<1>3. /\ q2 \in [1 .. Len(q) -> MessageT]
      /\ \A i \in 1 .. Len(q) :
            q2[i].name = q[i].name /\ (q2[i].live <=> q[i].live /\ q[i].name # name)
  BY <1>1 DEF MarkLate, MessageT
<1> HIDE DEF r2, q2
<1>4. /\ r2 \in Seq(AnswerT) /\ Len(r2) = Len(r)
      /\ q2 \in Seq(MessageT) /\ Len(q2) = Len(q)
  <2>1. r2 \in Seq(AnswerT) /\ Len(r2) = Len(r)
    <3>1. Len(r) \in Nat /\ r2 \in [1 .. Len(r) -> AnswerT] BY <1>1, <1>2
    <3>. QED BY <3>1
  <2>2. q2 \in Seq(MessageT) /\ Len(q2) = Len(q)
    <3>1. Len(q) \in Nat /\ q2 \in [1 .. Len(q) -> MessageT] BY <1>1, <1>3
    <3>. QED BY <3>1
  <2>. QED BY <2>1, <2>2
<1>5. ASSUME NEW i \in Places(r, q), NEW n
      PROVE  LiveAt(r2, q2, i, n) <=> LiveAt(r, q, i, n) /\ n # name
  <2>1. CASE i <= Len(r)
    <3>1. i \in 1 .. Len(r) BY <1>1, <2>1 DEF Places
    <3>. QED BY <1>2, <1>4, <2>1, <3>1 DEF LiveAt
  <2>2. CASE ~ (i <= Len(r))
    <3>1. i - Len(r) \in 1 .. Len(q) BY <1>1, <2>2 DEF Places
    <3>. QED BY <1>3, <1>4, <2>2, <3>1 DEF LiveAt
  <2>. QED BY <2>1, <2>2
<1>. QED BY <1>4, <1>5 DEF r2, q2, Places

-----------------------------------------------------------------------------
(* Lemmas about outstanding requests and the wire.                          *)

(* SentTracked: a request sent under a free name is tracked, and keeps the  *)
(* order unless a later phase of another chain is outstanding.              *)
LEMMA SentTracked ==
    ASSUME NEW r \in Seq(AnswerT), NEW q \in Seq(MessageT), NEW p \in Pendings,
           NEW m \in MessageT, NEW v, v # NoRequest, m.live, m.name \in Requests,
           Tracked(r, q, p), p[m.name] = NoRequest
    PROVE  /\ Tracked(r, Append(q, m), Put(p, m.name, v))
           /\ /\ Wired(r, q)
              /\ m.name = "DELETE_ACCESSSPEC" => p["DISABLE_ACCESSSPEC"] = NoRequest
              /\ m.name = "ADD_ACCESSSPEC" => p["DELETE_ACCESSSPEC"] = NoRequest
              => Wired(r, Append(q, m))
<1> DEFINE q2 == Append(q, m)
           p2 == Put(p, m.name, v)
           last == Len(r) + Len(q) + 1
<1>1. /\ Len(r) \in Nat /\ Len(q) \in Nat /\ Len(q2) = Len(q) + 1
      /\ \A i \in Places(r, q) : \A n : LiveAt(r, q2, i, n) <=> LiveAt(r, q, i, n)
      /\ \A n : LiveAt(r, q2, last, n) <=> m.name = n
  BY PlaceAppend
<1>2. /\ \A i \in Places(r, q2) : i \in Places(r, q) \/ i = last
      /\ \A i \in Places(r, q) : i \in Places(r, q2) /\ i < last
      /\ last \in Places(r, q2)
  BY <1>1 DEF Places
<1>3. \A n \in Requests : p2[n] = IF n = m.name THEN v ELSE p[n] BY DEF Pendings, Put
<1> HIDE DEF q2, p2, last
<1>0. m.name \in Names BY DEF Names
<1>4. \A i \in Places(r, q) : ~ LiveAt(r, q2, i, m.name) BY <1>0, <1>1 DEF Tracked
<1>5. Tracked(r, q2, p2)
  <2>1. ASSUME NEW i \in Places(r, q2), NEW n \in Names, LiveAt(r, q2, i, n)
        PROVE  n \in Requests /\ p2[n] # NoRequest
    <3>1. CASE i = last BY <1>1, <1>3, <2>1, <3>1
    <3>2. CASE i \in Places(r, q) BY <1>1, <1>3, <2>1, <3>2 DEF Tracked
    <3>. QED BY <1>2, <3>1, <3>2
  <2>2. ASSUME NEW i \in Places(r, q2), NEW j \in Places(r, q2), NEW n \in Names,
               LiveAt(r, q2, i, n), LiveAt(r, q2, j, n)
        PROVE  i = j
    <3>1. CASE n = m.name BY <1>2, <1>4, <2>2, <3>1
    <3>2. CASE n # m.name
      <4>1. i # last /\ j # last BY <1>1, <2>2, <3>2
      <4>2. i \in Places(r, q) /\ j \in Places(r, q) BY <1>2, <4>1
      <4>. QED BY <1>1, <2>2, <4>2 DEF Tracked
    <3>. QED BY <3>1, <3>2
  <2>3. ASSUME NEW n \in Requests, p2[n] # NoRequest
        PROVE  \E i \in Places(r, q2) : LiveAt(r, q2, i, n)
    <3>1. CASE n = m.name BY <1>1, <1>2, <3>1
    <3>2. CASE n # m.name
      <4>1. PICK i \in Places(r, q) : LiveAt(r, q, i, n) BY <1>3, <2>3, <3>2 DEF Tracked
      <4>. QED BY <1>1, <1>2, <4>1
    <3>. QED BY <3>1, <3>2
  <2>. QED BY <2>1, <2>2, <2>3 DEF Tracked
<1>6. ASSUME Wired(r, q),
             m.name = "DELETE_ACCESSSPEC" => p["DISABLE_ACCESSSPEC"] = NoRequest,
             m.name = "ADD_ACCESSSPEC" => p["DELETE_ACCESSSPEC"] = NoRequest
      PROVE  Wired(r, q2)
  <2>1. ASSUME NEW a, NEW b, NEW i \in Places(r, q2), NEW j \in Places(r, q2),
               b \in Names, a # b, m.name = a => p[b] = NoRequest,
               \A x, y \in Places(r, q) : LiveAt(r, q, x, a) /\ LiveAt(r, q, y, b) => x < y,
               LiveAt(r, q2, i, a), LiveAt(r, q2, j, b)
        PROVE  i < j
    <3>1. CASE i = last
      <4>1. m.name = a BY <1>1, <2>1, <3>1
      <4>2. j # last BY <1>1, <2>1, <4>1
      <4>3. j \in Places(r, q) /\ LiveAt(r, q, j, b) BY <1>1, <1>2, <2>1, <4>2
      <4>4. p[b] # NoRequest BY <2>1, <4>3 DEF Tracked
      <4>. QED BY <2>1, <4>1, <4>4
    <3>2. CASE i \in Places(r, q) /\ j = last BY <1>2, <3>2
    <3>3. CASE i \in Places(r, q) /\ j \in Places(r, q) BY <1>1, <2>1, <3>3
    <3>. QED BY <1>2, <3>1, <3>2, <3>3
  <2>2. ASSUME NEW i \in Places(r, q2), NEW j \in Places(r, q2)
        PROVE  /\ LiveAt(r, q2, i, "DELETE_ACCESSSPEC") /\ LiveAt(r, q2, j, "DISABLE_ACCESSSPEC")
                     => i < j
               /\ LiveAt(r, q2, i, "ADD_ACCESSSPEC") /\ LiveAt(r, q2, j, "DELETE_ACCESSSPEC")
                     => i < j
    <3>1. LiveAt(r, q2, i, "DELETE_ACCESSSPEC") /\ LiveAt(r, q2, j, "DISABLE_ACCESSSPEC") => i < j
      <4>1. \A x, y \in Places(r, q) :
              LiveAt(r, q, x, "DELETE_ACCESSSPEC") /\ LiveAt(r, q, y, "DISABLE_ACCESSSPEC")
                => x < y
        BY <1>6 DEF Wired
      <4>. QED BY <1>6, <2>1, <4>1 DEF Names, Requests
    <3>2. LiveAt(r, q2, i, "ADD_ACCESSSPEC") /\ LiveAt(r, q2, j, "DELETE_ACCESSSPEC") => i < j
      <4>1. \A x, y \in Places(r, q) :
              LiveAt(r, q, x, "ADD_ACCESSSPEC") /\ LiveAt(r, q, y, "DELETE_ACCESSSPEC")
                => x < y
        BY <1>6 DEF Wired
      <4>. QED BY <1>6, <2>1, <4>1 DEF Names, Requests
    <3>. QED BY <3>1, <3>2
  <2>. QED BY <2>2 DEF Wired
<1>. QED BY <1>5, <1>6 DEF q2, p2

(* UntrackedSent: a message nobody waits for changes nothing. *)
LEMMA UntrackedSent ==
    ASSUME NEW r \in Seq(AnswerT), NEW q \in Seq(MessageT), NEW p \in Pendings,
           NEW m \in MessageT, ~ m.live, Tracked(r, q, p)
    PROVE  Tracked(r, Append(q, m), p) /\ (Wired(r, q) => Wired(r, Append(q, m)))
<1> DEFINE q2 == Append(q, m)
           last == Len(r) + Len(q) + 1
<1>1. /\ Len(r) \in Nat /\ Len(q) \in Nat /\ Len(q2) = Len(q) + 1
      /\ \A i \in Places(r, q) : \A n : LiveAt(r, q2, i, n) <=> LiveAt(r, q, i, n)
      /\ \A n : ~ LiveAt(r, q2, last, n)
  BY PlaceAppend
<1>2. /\ \A i \in Places(r, q2) : i \in Places(r, q) \/ i = last
      /\ \A i \in Places(r, q) : i \in Places(r, q2)
  BY <1>1 DEF Places
<1> HIDE DEF q2, last
<1>3. \A i \in Places(r, q2) : \A n :
        LiveAt(r, q2, i, n) => i \in Places(r, q) /\ LiveAt(r, q, i, n)
  BY <1>1, <1>2
<1>4. Tracked(r, q2, p) BY <1>1, <1>2, <1>3 DEF Tracked
<1>5. Wired(r, q) => Wired(r, q2) BY <1>3 DEF Wired
<1>. QED BY <1>4, <1>5 DEF q2

(* Answered: the first answer, when live, is to an outstanding request that *)
(* no other waits behind.                                                   *)
LEMMA Answered ==
    ASSUME NEW r \in Seq(AnswerT), NEW q \in Seq(MessageT), NEW p \in Pendings,
           r # << >>, Head(r).live, Tracked(r, q, p)
    PROVE  /\ Head(r).name \in Requests /\ p[Head(r).name] # NoRequest
           /\ Tracked(Tail(r), q, Put(p, Head(r).name, NoRequest))
           /\ Wired(r, q) => Wired(Tail(r), q)
           /\ Wired(r, q) => Free(Head(r).name, p)
<1> DEFINE t == Tail(r)
           n0 == Head(r).name
           p2 == Put(p, n0, NoRequest)
<1>1. /\ Len(r) \in Nat \ {0} /\ Len(q) \in Nat /\ Len(t) = Len(r) - 1
      /\ \A i \in Places(t, q) : \A n : LiveAt(t, q, i, n) <=> LiveAt(r, q, i + 1, n)
      /\ \A n : LiveAt(r, q, 1, n) <=> n0 = n
  BY PlaceTail
<1>2. n0 \in Names
  <2>1. Head(r) \in AnswerT OBVIOUS
  <2>. QED BY <2>1 DEF AnswerT
<1> HIDE DEF t, n0
<1>3. 1 \in Places(r, q) /\ \A i \in Places(t, q) : i + 1 \in Places(r, q) /\ i \in Nat /\ i # 0
  BY <1>1 DEF Places
<1>4. \A i \in Places(r, q) : i = 1 \/ (i - 1 \in Places(t, q) /\ (i - 1) + 1 = i)
  BY <1>1 DEF Places
<1>5. n0 \in Requests /\ p[n0] # NoRequest BY <1>1, <1>2, <1>3 DEF Tracked
<1>6. \A n \in Requests : p2[n] = IF n = n0 THEN NoRequest ELSE p[n] BY DEF Pendings, Put
<1> HIDE DEF p2
<1>7. \A i \in Places(t, q) : ~ LiveAt(t, q, i, n0)
  <2> SUFFICES ASSUME NEW i \in Places(t, q), LiveAt(t, q, i, n0) PROVE FALSE OBVIOUS
  <2>1. LiveAt(r, q, i + 1, n0) /\ LiveAt(r, q, 1, n0) BY <1>1
  <2>2. i + 1 = 1 BY <1>2, <1>3, <2>1 DEF Tracked
  <2>. QED BY <1>3, <2>2
<1>8. Tracked(t, q, p2)
  <2>1. ASSUME NEW i \in Places(t, q), NEW n \in Names, LiveAt(t, q, i, n)
        PROVE  n \in Requests /\ p2[n] # NoRequest
    <3>1. LiveAt(r, q, i + 1, n) /\ n # n0 BY <1>1, <1>7, <2>1
    <3>. QED BY <1>3, <1>6, <3>1 DEF Tracked
  <2>2. ASSUME NEW i \in Places(t, q), NEW j \in Places(t, q), NEW n \in Names,
               LiveAt(t, q, i, n), LiveAt(t, q, j, n)
        PROVE  i = j
    <3>1. i + 1 = j + 1 BY <1>1, <1>3, <2>2 DEF Tracked
    <3>. QED BY <1>3, <3>1
  <2>3. ASSUME NEW n \in Requests, p2[n] # NoRequest
        PROVE  \E i \in Places(t, q) : LiveAt(t, q, i, n)
    <3>1. n # n0 /\ p[n] # NoRequest BY <1>6, <2>3
    <3>2. PICK i \in Places(r, q) : LiveAt(r, q, i, n) BY <3>1 DEF Tracked
    <3>3. i # 1 BY <1>1, <3>1, <3>2
    <3>. QED BY <1>1, <1>4, <3>2, <3>3
  <2>. QED BY <2>1, <2>2, <2>3 DEF Tracked
<1>9. ASSUME Wired(r, q) PROVE Wired(t, q)
  <2>1. ASSUME NEW i \in Places(t, q), NEW j \in Places(t, q)
        PROVE  /\ LiveAt(t, q, i, "DELETE_ACCESSSPEC") /\ LiveAt(t, q, j, "DISABLE_ACCESSSPEC")
                     => i + 1 < j + 1
               /\ LiveAt(t, q, i, "ADD_ACCESSSPEC") /\ LiveAt(t, q, j, "DELETE_ACCESSSPEC")
                     => i + 1 < j + 1
    BY <1>1, <1>3, <1>9 DEF Wired
  <2>2. \A i, j \in Places(t, q) : i + 1 < j + 1 => i < j BY <1>3
  <2>. QED BY <2>1, <2>2 DEF Wired
<1>10. ASSUME NEW b \in Requests, p[b] # NoRequest, b \in Names,
              \A i, j \in Places(r, q) : LiveAt(r, q, i, b) /\ LiveAt(r, q, j, n0) => i < j
       PROVE  FALSE
  <2>1. PICK i \in Places(r, q) : LiveAt(r, q, i, b) BY <1>10 DEF Tracked
  <2>2. i < 1 BY <1>1, <1>3, <1>10, <2>1
  <2>3. i >= 1 BY <1>1 DEF Places
  <2>4. i \in Int BY <1>1 DEF Places
  <2>. QED BY <2>2, <2>3, <2>4
<1>11. Wired(r, q) /\ n0 = "DISABLE_ACCESSSPEC" => p["DELETE_ACCESSSPEC"] = NoRequest
  <2> SUFFICES ASSUME Wired(r, q), n0 = "DISABLE_ACCESSSPEC", p["DELETE_ACCESSSPEC"] # NoRequest
               PROVE  FALSE
    OBVIOUS
  <2>1. "DELETE_ACCESSSPEC" \in Requests /\ "DELETE_ACCESSSPEC" \in Names BY DEF Requests, Names
  <2>2. \A i, j \in Places(r, q) :
          LiveAt(r, q, i, "DELETE_ACCESSSPEC") /\ LiveAt(r, q, j, n0) => i < j
    BY DEF Wired
  <2>. QED BY <1>10, <2>1, <2>2
<1>12. Wired(r, q) /\ n0 = "DELETE_ACCESSSPEC" => p["ADD_ACCESSSPEC"] = NoRequest
  <2> SUFFICES ASSUME Wired(r, q), n0 = "DELETE_ACCESSSPEC", p["ADD_ACCESSSPEC"] # NoRequest
               PROVE  FALSE
    OBVIOUS
  <2>1. "ADD_ACCESSSPEC" \in Requests /\ "ADD_ACCESSSPEC" \in Names BY DEF Requests, Names
  <2>2. \A i, j \in Places(r, q) :
          LiveAt(r, q, i, "ADD_ACCESSSPEC") /\ LiveAt(r, q, j, n0) => i < j
    BY DEF Wired
  <2>. QED BY <1>10, <2>1, <2>2
<1>13. Wired(r, q) => Free(n0, p) BY <1>11, <1>12 DEF Free
<1>. QED BY <1>5, <1>8, <1>9, <1>13 DEF t, n0, p2

(* IgnoredAnswer: an answer nobody waits for changes nothing. *)
LEMMA IgnoredAnswer ==
    ASSUME NEW r \in Seq(AnswerT), NEW q \in Seq(MessageT), NEW p \in Pendings,
           r # << >>, ~ Head(r).live, Tracked(r, q, p)
    PROVE  Tracked(Tail(r), q, p) /\ (Wired(r, q) => Wired(Tail(r), q))
<1> DEFINE t == Tail(r)
<1>1. /\ Len(r) \in Nat \ {0} /\ Len(q) \in Nat /\ Len(t) = Len(r) - 1
      /\ \A i \in Places(t, q) : \A n : LiveAt(t, q, i, n) <=> LiveAt(r, q, i + 1, n)
      /\ \A n : ~ LiveAt(r, q, 1, n)
  BY PlaceTail
<1> HIDE DEF t
<1>3. \A i \in Places(t, q) : i + 1 \in Places(r, q) /\ i \in Nat
  BY <1>1 DEF Places
<1>4. \A i \in Places(r, q) : i = 1 \/ (i - 1 \in Places(t, q) /\ (i - 1) + 1 = i)
  BY <1>1 DEF Places
<1>5. Tracked(t, q, p)
  <2>1. ASSUME NEW i \in Places(t, q), NEW n \in Names, LiveAt(t, q, i, n)
        PROVE  n \in Requests /\ p[n] # NoRequest
    BY <1>1, <1>3, <2>1 DEF Tracked
  <2>2. ASSUME NEW i \in Places(t, q), NEW j \in Places(t, q), NEW n \in Names,
               LiveAt(t, q, i, n), LiveAt(t, q, j, n)
        PROVE  i = j
    <3>1. i + 1 = j + 1 BY <1>1, <1>3, <2>2 DEF Tracked
    <3>. QED BY <1>3, <3>1
  <2>3. ASSUME NEW n \in Requests, p[n] # NoRequest
        PROVE  \E i \in Places(t, q) : LiveAt(t, q, i, n)
    <3>1. PICK i \in Places(r, q) : LiveAt(r, q, i, n) BY <2>3 DEF Tracked
    <3>. QED BY <1>1, <1>4, <3>1
  <2>. QED BY <2>1, <2>2, <2>3 DEF Tracked
<1>6. ASSUME Wired(r, q) PROVE Wired(t, q)
  <2>1. ASSUME NEW i \in Places(t, q), NEW j \in Places(t, q)
        PROVE  /\ LiveAt(t, q, i, "DELETE_ACCESSSPEC") /\ LiveAt(t, q, j, "DISABLE_ACCESSSPEC")
                     => i + 1 < j + 1
               /\ LiveAt(t, q, i, "ADD_ACCESSSPEC") /\ LiveAt(t, q, j, "DELETE_ACCESSSPEC")
                     => i + 1 < j + 1
    BY <1>1, <1>3, <1>6 DEF Wired
  <2>2. \A i, j \in Places(t, q) : i + 1 < j + 1 => i < j BY <1>3
  <2>. QED BY <2>1, <2>2 DEF Wired
<1>. QED BY <1>5, <1>6 DEF t

(* AnswerSent: the reader's answer takes the place of the request. *)
LEMMA AnswerSent ==
    ASSUME NEW r \in Seq(AnswerT), NEW q \in Seq(MessageT), NEW p, q # << >>,
           NEW ok \in BOOLEAN, Tracked(r, q, p), Wired(r, q)
    PROVE  /\ Tracked(Append(r, Answer(Head(q), ok)), Tail(q), p)
           /\ Wired(Append(r, Answer(Head(q), ok)), Tail(q))
<1> DEFINE r2 == Append(r, Answer(Head(q), ok))
           t  == Tail(q)
<1>1. /\ Places(r2, t) = Places(r, q)
      /\ \A i \in Places(r, q) : \A n : LiveAt(r2, t, i, n) <=> LiveAt(r, q, i, n)
  BY PlaceMove
<1> HIDE DEF r2, t
<1>2. Tracked(r2, t, p) BY <1>1 DEF Tracked
<1>3. Wired(r2, t) BY <1>1 DEF Wired
<1>. QED BY <1>2, <1>3 DEF r2, t

(* GivenUp: a request that timed out is no longer waited for. *)
LEMMA GivenUp ==
    ASSUME NEW r \in Seq(AnswerT), NEW q \in Seq(MessageT), NEW p \in Pendings,
           NEW name \in Requests, Tracked(r, q, p), Wired(r, q)
    PROVE  /\ Tracked(MarkLate(r, name), MarkLate(q, name), Put(p, name, NoRequest))
           /\ Wired(MarkLate(r, name), MarkLate(q, name))
<1> DEFINE r2 == MarkLate(r, name)
           q2 == MarkLate(q, name)
           p2 == Put(p, name, NoRequest)
<1>1. /\ Places(r2, q2) = Places(r, q)
      /\ \A i \in Places(r, q) : \A n :
            LiveAt(r2, q2, i, n) <=> LiveAt(r, q, i, n) /\ n # name
  BY PlaceLate
<1>2. \A n \in Requests : p2[n] = IF n = name THEN NoRequest ELSE p[n] BY DEF Pendings, Put
<1> HIDE DEF r2, q2, p2
<1>3. Tracked(r2, q2, p2)
  <2>1. ASSUME NEW i \in Places(r, q), NEW n \in Names, LiveAt(r2, q2, i, n)
        PROVE  n \in Requests /\ p2[n] # NoRequest
    BY <1>1, <1>2, <2>1 DEF Tracked
  <2>2. ASSUME NEW i \in Places(r, q), NEW j \in Places(r, q), NEW n \in Names,
               LiveAt(r2, q2, i, n), LiveAt(r2, q2, j, n)
        PROVE  i = j
    BY <1>1, <2>2 DEF Tracked
  <2>3. ASSUME NEW n \in Requests, p2[n] # NoRequest
        PROVE  \E i \in Places(r, q) : LiveAt(r2, q2, i, n)
    BY <1>1, <1>2, <2>3 DEF Tracked
  <2>. QED BY <1>1, <2>1, <2>2, <2>3 DEF Tracked
<1>4. Wired(r2, q2) BY <1>1 DEF Wired
<1>. QED BY <1>3, <1>4 DEF r2, q2, p2

(* NoneOutstanding: when nothing is outstanding nothing on the wire is live. *)
LEMMA NoneOutstanding ==
    ASSUME NEW r \in Seq(AnswerT), NEW q \in Seq(MessageT), NEW p,
           Tracked(r, q, p), \A n \in Requests : p[n] = NoRequest
    PROVE  NoneLive(r) /\ NoneLive(q)
<1>0. /\ Len(r) \in Nat /\ \A i \in 1 .. Len(r) : r[i] \in AnswerT
      /\ Len(q) \in Nat /\ \A i \in 1 .. Len(q) : q[i] \in MessageT
  OBVIOUS
<1>1. /\ Len(r) \in Nat /\ \A i \in 1 .. Len(r) : r[i].name \in Names
      /\ Len(q) \in Nat /\ \A i \in 1 .. Len(q) : q[i].name \in Names
  <2>1. \A x \in AnswerT : x.name \in Names BY DEF AnswerT
  <2>2. \A x \in MessageT : x.name \in Names BY DEF MessageT
  <2>. QED BY <1>0, <2>1, <2>2
<1>2. \A i \in Places(r, q) : \A n \in Names : ~ LiveAt(r, q, i, n) BY DEF Tracked
<1>3. ASSUME NEW i \in 1 .. Len(r) PROVE ~ r[i].live
  <2>1. i \in Places(r, q) /\ i <= Len(r) BY <1>1 DEF Places
  <2>. QED BY <1>1, <1>2, <2>1 DEF LiveAt
<1>4. ASSUME NEW i \in 1 .. Len(q) PROVE ~ q[i].live
  <2>1. /\ Len(r) + i \in Places(r, q) /\ ~ (Len(r) + i <= Len(r))
        /\ (Len(r) + i) - Len(r) = i
    BY <1>1 DEF Places
  <2>. QED BY <1>1, <1>2, <2>1 DEF LiveAt
<1>. QED BY <1>3, <1>4 DEF NoneLive

-----------------------------------------------------------------------------
(* Lemmas about the handlers.                                               *)

(* Joined: what a handler wrote follows what is under way. *)
LEMMA Joined ==
    ASSUME NEW q \in Seq(MessageT)
    PROVE  q \o << >> = q /\ \A m \in MessageT : q \o << m >> = Append(q, m)
OBVIOUS

LEMMA Typed ==
    /\ NoRequest \notin RequestT /\ All \in AccessT /\ Absent \in SpecT
    /\ "INVENTORYING" \in States /\ "DISCONNECTED" \in States
    /\ \A n \in Requests : n \in Names
    /\ \A n \in Names : \A a \in AccessT : \A live \in BOOLEAN : Message(n, a, live) \in MessageT
<1>1. "" \in Operations BY DEF Operations
<1>2. NoRequest \notin RequestT
  <2> SUFFICES ASSUME NoRequest \in RequestT PROVE FALSE OBVIOUS
  <2>1. NoRequest.cb \in Callbacks BY DEF RequestT
  <2>2. NoRequest.cb = "" BY DEF NoRequest
  <2>. QED BY <2>1, <2>2 DEF Callbacks
<1>3. All \in AccessT
  <2>1. 0 \in Ids \cup {0} /\ 0 \in Int OBVIOUS
  <2>. QED BY <1>1, <2>1, Zenon DEF All, AccessT
<1>4. Absent \in SpecT BY <1>1 DEF Absent, SpecT
<1>5. "INVENTORYING" \in States /\ "DISCONNECTED" \in States BY DEF States
<1>6. \A n \in Requests : n \in Names BY DEF Names
<1>7. \A n \in Names : \A a \in AccessT : \A live \in BOOLEAN : Message(n, a, live) \in MessageT
  BY DEF Message, MessageT
<1>. QED BY <1>2, <1>3, <1>4, <1>5, <1>6, <1>7

(* Sending: a request whose name is free is registered and written, another *)
(* one raises and does nothing.                                             *)
LEMMA Sending ==
    ASSUME NEW c \in HandlerT, NEW name \in Requests, NEW access \in AccessT,
           NEW cb \in Callbacks, NEW state \in States
    PROVE  LET d == send_request(c, name, access, cb, state)
           IN  /\ d \in HandlerT
               /\ c.pending[name] # NoRequest =>
                     /\ d.state = c.state /\ d.pending = c.pending /\ d.out = c.out /\ d.raised
               /\ c.pending[name] = NoRequest =>
                     /\ d.state = state /\ d.raised = c.raised
                     /\ d.pending = Put(c.pending, name, Request(cb, access))
                     /\ d.out = Append(c.out, Waited(name, access))
<1> DEFINE m == Waited(name, access)
           v == Request(cb, access)
           p == Put(c.pending, name, v)
           o == Append(c.out, m)
<1>1. m \in MessageT BY Typed DEF Waited
<1>2. c.out \in Seq(MessageT) /\ c.pending \in Pendings /\ c.state \in States
      /\ c.raised \in BOOLEAN
  BY DEF HandlerT
<1>3. v \in RequestT BY DEF RequestT, Request
<1> HIDE DEF m, v
<1>4. o \in Seq(MessageT) BY <1>1, <1>2
<1>5. p \in Pendings BY <1>2, <1>3 DEF Pendings, Put
<1> HIDE DEF p, o
<1>6. CASE c.pending[name] # NoRequest
  BY <1>6 DEF send_request, Raise, HandlerT
<1>7. CASE c.pending[name] = NoRequest
  <2>1. send_request(c, name, access, cb, state)
          = [c EXCEPT !.pending = p, !.state = state, !.out = o]
    BY <1>7 DEF send_request, HandlerT, p, o, m, v, Put, Waited, Request
  <2>. QED BY <1>2, <1>4, <1>5, <1>7, <2>1 DEF HandlerT, p, o, m, v
<1>. QED BY <1>6, <1>7

(* Untracked: a message nobody waits for is written, unless its response is *)
(* waited for by a request.                                                 *)
LEMMA Untracked ==
    ASSUME NEW c \in HandlerT, NEW name \in Names, NEW access \in AccessT
    PROVE  LET d == sendMessage(c, name, access)
           IN  /\ d \in HandlerT /\ d.state = c.state /\ d.pending = c.pending
               /\ name \in Requests /\ c.pending[name] # NoRequest => d.raised /\ d.out = c.out
               /\ ~ (name \in Requests /\ c.pending[name] # NoRequest) =>
                     d.raised = c.raised /\ d.out = Append(c.out, Unwaited(name, access))
<1> DEFINE m == Unwaited(name, access)
           o == Append(c.out, m)
<1>1. m \in MessageT BY Typed DEF Unwaited
<1>2. c.out \in Seq(MessageT) BY DEF HandlerT
<1> HIDE DEF m
<1>3. o \in Seq(MessageT) BY <1>1, <1>2
<1> HIDE DEF o
<1>4. CASE name \in Requests /\ c.pending[name] # NoRequest
  BY <1>4 DEF sendMessage, Raise, HandlerT
<1>5. CASE ~ (name \in Requests /\ c.pending[name] # NoRequest)
  <2>1. sendMessage(c, name, access) = [c EXCEPT !.out = o]
    BY <1>5 DEF sendMessage, HandlerT, o, m, Unwaited
  <2>. QED BY <1>3, <1>5, <2>1 DEF HandlerT, o, m
<1>. QED BY <1>4, <1>5

(* HungUp: hanging up forgets the requests and writes nothing. *)
LEMMA HungUp ==
    ASSUME NEW c \in HandlerT
    PROVE  HangUp(c) \in HandlerT /\ HangUp(c).state = "DISCONNECTED" /\ HangUp(c).out = c.out
<1>1. [n \in Requests |-> NoRequest] \in Pendings BY DEF Pendings
<1>2. "DISCONNECTED" \in States BY Typed
<1>. QED BY <1>1, <1>2 DEF HangUp, HandlerT

(* CompletedTyped: a callback leaves a client, hangs up or sends one thing. *)
LEMMA CompletedTyped ==
    ASSUME NEW c \in HandlerT, NEW request \in RequestT, NEW ok \in BOOLEAN
    PROVE  /\ Completed(c, request, ok) \in HandlerT
           /\ c.state = "DISCONNECTED" /\ ~ok => Completed(c, request, ok).state = "DISCONNECTED"
<1>0. request.access \in AccessT /\ request.cb \in Callbacks BY DEF RequestT
<1>1. /\ c \in HandlerT /\ c.state \in States /\ [c EXCEPT !.raised = TRUE] \in HandlerT
      /\ [c EXCEPT !.raised = TRUE].state = c.state
  BY DEF HandlerT
<1>2. CASE request.cb = "add_accessspec_cb"
  <2>1. "ENABLE_ACCESSSPEC" \in Names BY DEF Names
  <2>2. Completed(c, request, ok) = add_accessspec_cb(c, request.access, ok)
    BY <1>2 DEF Completed
  <2>3. LET d == sendMessage(c, "ENABLE_ACCESSSPEC", request.access)
        IN d \in HandlerT /\ d.state = c.state
    BY <1>0, <2>1, Untracked
  <2>. QED BY <1>1, <2>2, <2>3 DEF add_accessspec_cb
<1>3. CASE request.cb = "disable_accessspec_cb"
  <2>1. "DELETE_ACCESSSPEC" \in Requests /\ "start_next_accessspec_cb" \in Callbacks
    BY DEF Requests, Callbacks
  <2>2. Completed(c, request, ok) = disable_accessspec_cb(c, request.access, ok)
    BY <1>3 DEF Completed
  <2>3. LET d == send_request(c, "DELETE_ACCESSSPEC", request.access, "start_next_accessspec_cb",
                              c.state)
        IN d \in HandlerT /\ d.state = c.state
    BY <1>0, <1>1, <2>1, Sending
  <2>. QED BY <2>2, <2>3 DEF disable_accessspec_cb
<1>4. CASE request.cb = "start_next_accessspec_cb"
  <2>1. "ADD_ACCESSSPEC" \in Requests /\ "add_accessspec_cb" \in Callbacks
    BY DEF Requests, Callbacks
  <2>2. Completed(c, request, ok) = startAccess(c, request.access)
    BY <1>4 DEF Completed, start_next_accessspec_cb
  <2>3. LET d == send_request(c, "ADD_ACCESSSPEC", request.access, "add_accessspec_cb", c.state)
        IN d \in HandlerT /\ d.state = c.state
    BY <1>0, <1>1, <2>1, Sending
  <2>. QED BY <1>1, <2>2, <2>3 DEF startAccess, Raise
<1>5. CASE request.cb = "send_delete_accessspec_cb"
  <2>1. "DELETE_ROSPEC" \in Requests /\ "stop_all_rospecs_cb" \in Callbacks
        /\ "SENT_DELETE_ROSPEC" \in States
    BY DEF Requests, Callbacks, States
  <2>2. Completed(c, request, ok) = send_delete_accessspec_cb(c, ok)
    BY <1>5 DEF Completed
  <2>3. stopAllROSpecs(c) \in HandlerT BY <2>1, Sending, Typed DEF stopAllROSpecs
  <2>. QED BY <1>5, <2>2, <2>3, HungUp DEF send_delete_accessspec_cb
<1>6. CASE request.cb = "stop_all_rospecs_cb"
  BY <1>6, HungUp DEF Completed
<1>. QED BY <1>0, <1>2, <1>3, <1>4, <1>5, <1>6 DEF Callbacks

(* ChainGoesOn: a callback of a chain keeps the chains in order, and raises only *)
(* when the next phase is taken by another chain or cannot be built.         *)
LEMMA ChainGoesOn ==
    ASSUME NEW r \in Seq(AnswerT), NEW q \in Seq(MessageT), NEW c \in HandlerT,
           NEW name \in Requests, NEW request \in RequestT, NEW ok \in BOOLEAN,
           NEW snd \in BOOLEAN,
           c.out = << >>, ~ c.raised, c.pending[name] = NoRequest, Chaining(r, q, c, snd),
           Chained(name, request, snd)
    PROVE  LET d == Completed(c, request, ok)
           IN  /\ Chaining(r, q \o d.out, d, snd)
               /\ snd /\ Free(name, c.pending) => ~ d.raised
<1> DEFINE d == Completed(c, request, ok)
           a == request.access
<1>0. /\ a \in AccessT /\ c.pending \in Pendings /\ c.state \in States
      /\ {"ADD_ACCESSSPEC", "DISABLE_ACCESSSPEC", "DELETE_ACCESSSPEC"} \subseteq Requests
      /\ {"add_accessspec_cb", "disable_accessspec_cb", "start_next_accessspec_cb"} \subseteq Callbacks
      /\ "ENABLE_ACCESSSPEC" \in Names /\ "ENABLE_ACCESSSPEC" \notin Requests
  BY DEF RequestT, HandlerT, Requests, Callbacks, Names
<1>1. ASSUME d.out = << >>, d.state = c.state, d.pending = c.pending
      PROVE  Chaining(r, q \o d.out, d, snd)
  <2>1. q \o d.out = q BY <1>1, Joined
  <2>. QED BY <1>1, <2>1 DEF Chaining
<1>2. CASE name = "ADD_ACCESSSPEC"
  <2>1. d = IF ok THEN sendMessage(c, "ENABLE_ACCESSSPEC", a) ELSE c
    BY <1>2 DEF Completed, add_accessspec_cb, Chained
  <2>2. CASE ~ok BY <1>1, <2>1, <2>2
  <2>3. CASE ok
    <3> DEFINE m == Unwaited("ENABLE_ACCESSSPEC", a)
    <3>1. m \in MessageT /\ ~ m.live BY <1>0, Typed DEF Message, Unwaited
    <3>2. /\ d.state = c.state /\ d.pending = c.pending /\ ~ d.raised
          /\ d.out = Append(<< >>, m)
      <4>1. LET e == sendMessage(c, "ENABLE_ACCESSSPEC", a)
            IN  /\ e.state = c.state /\ e.pending = c.pending /\ e.raised = c.raised
                /\ e.out = Append(c.out, m)
        <5> HIDE DEF a
        <5>. QED BY <1>0, Untracked
      <4>. QED BY <2>1, <2>3, <4>1
    <3>3. d.out = << m >> BY <3>2
    <3> HIDE DEF m
    <3>4. q \o d.out = Append(q, m) BY <3>1, <3>3, Joined
    <3>5. Tracked(r, Append(q, m), c.pending) /\ Wired(r, Append(q, m))
      BY <1>0, <3>1, UntrackedSent DEF Chaining
    <3>. QED BY <3>2, <3>4, <3>5 DEF Chaining
  <2>. QED BY <2>2, <2>3
<1>3. ASSUME NEW n \in {"ADD_ACCESSSPEC", "DELETE_ACCESSSPEC"}, NEW cb \in Callbacks,
             d = send_request(c, n, a, cb, c.state),
             n = "ADD_ACCESSSPEC" => cb = "add_accessspec_cb" /\ name = "DELETE_ACCESSSPEC",
             n = "DELETE_ACCESSSPEC" =>
                cb = "start_next_accessspec_cb" /\ name = "DISABLE_ACCESSSPEC",
             snd => Buildable(a)
      PROVE  Chaining(r, q \o d.out, d, snd) /\ (d.raised => c.pending[n] # NoRequest)
  <2>0. n \in Requests /\ n \in Names BY <1>0, Typed
  <2>9. LET e == send_request(c, n, a, cb, c.state)
        IN  /\ c.pending[n] # NoRequest =>
                  e.state = c.state /\ e.pending = c.pending /\ e.out = c.out
            /\ c.pending[n] = NoRequest =>
                  /\ e.state = c.state /\ e.raised = c.raised
                  /\ e.pending = Put(c.pending, n, Request(cb, a))
                  /\ e.out = Append(c.out, Waited(n, a))
    <3> HIDE DEF a
    <3>. QED BY <1>0, <2>0, Sending
  <2>1. CASE c.pending[n] # NoRequest
    <3>1. d.out = << >> /\ d.state = c.state /\ d.pending = c.pending
      BY <1>3, <2>1, <2>9
    <3>. QED BY <1>1, <2>1, <3>1
  <2>2. CASE c.pending[n] = NoRequest
    <3> DEFINE m == Waited(n, a)
               v == Request(cb, a)
               p == Put(c.pending, n, v)
    <3>1. /\ d.state = c.state /\ ~ d.raised /\ d.pending = p /\ d.out = Append(<< >>, m)
      BY <1>3, <2>2, <2>9
    <3>2. d.out = << m >> BY <3>1
    <3>3. m \in MessageT /\ m.live = TRUE /\ m.name = n BY <1>0, <2>0, Typed DEF Message, Waited
    <3>4. v \in RequestT /\ v.cb = cb /\ v.access = a BY <1>0 DEF RequestT, Request
    <3>5. v # NoRequest BY <3>4, Typed
    <3> HIDE DEF m, v
    <3>6. \A x \in Requests : p[x] = IF x = n THEN v ELSE c.pending[x]
      BY <1>0 DEF Pendings, Put
    <3> HIDE DEF p
    <3>7. Tracked(r, Append(q, m), p)
      BY <1>0, <2>2, <3>3, <3>5, SentTracked DEF Chaining, p
    <3>8. Wired(r, Append(q, m))
      <4>1. n = "DELETE_ACCESSSPEC" => c.pending["DISABLE_ACCESSSPEC"] = NoRequest BY <1>3
      <4>2. n = "ADD_ACCESSSPEC" => c.pending["DELETE_ACCESSSPEC"] = NoRequest BY <1>3
      <4>. QED BY <1>0, <2>2, <3>3, <3>5, <4>1, <4>2, SentTracked DEF Chaining, p
    <3>9. q \o d.out = Append(q, m) BY <3>2, <3>3, Joined
    <3>10. ChainCallbacks(p)
      <4>1. "DELETE_ROSPEC" \in Requests /\ n # "DELETE_ROSPEC" /\ n # "DISABLE_ACCESSSPEC"
        BY DEF Requests
      <4>2. ChainCallbacks(c.pending) BY DEF Chaining
      <4>. QED BY <1>0, <1>3, <3>4, <3>6, <4>1, <4>2 DEF ChainCallbacks
    <3>11. snd => ChainsSound(p)
      <4>1. snd => ChainsSound(c.pending) BY DEF Chaining
      <4>. QED BY <1>0, <1>3, <3>4, <3>6, <4>1 DEF ChainsSound
    <3>. QED BY <3>1, <3>7, <3>8, <3>9, <3>10, <3>11 DEF Chaining
  <2>. QED BY <2>1, <2>2
<1>4. CASE name = "DISABLE_ACCESSSPEC"
  <2>1. d = send_request(c, "DELETE_ACCESSSPEC", a, "start_next_accessspec_cb", c.state)
    BY <1>4 DEF Completed, disable_accessspec_cb, Chained
  <2>2. Chaining(r, q \o d.out, d, snd) /\ (d.raised => c.pending["DELETE_ACCESSSPEC"] # NoRequest)
    <3>1. snd => Buildable(a) BY <1>4 DEF Chained
    <3>. QED BY <1>0, <1>3, <1>4, <2>1, <3>1
  <2>. QED BY <1>4, <2>2 DEF Free
<1>5. CASE name = "DELETE_ACCESSSPEC"
  <2>1. d = startAccess(c, a) BY <1>5 DEF Completed, start_next_accessspec_cb, Chained
  <2>9. snd => Buildable(a) BY <1>5 DEF Chained
  <2>2. CASE ~ Buildable(a)
    <3>1. d = [c EXCEPT !.raised = TRUE] BY <2>1, <2>2 DEF startAccess, Raise
    <3>2. d.out = << >> /\ d.state = c.state /\ d.pending = c.pending BY <3>1 DEF HandlerT
    <3>. QED BY <1>1, <1>5, <2>2, <2>9, <3>2
  <2>3. CASE Buildable(a)
    <3>1. d = send_request(c, "ADD_ACCESSSPEC", a, "add_accessspec_cb", c.state)
      BY <2>1, <2>3 DEF startAccess
    <3>2. Chaining(r, q \o d.out, d, snd) /\ (d.raised => c.pending["ADD_ACCESSSPEC"] # NoRequest)
      BY <1>0, <1>3, <1>5, <2>3, <3>1
    <3>. QED BY <1>5, <3>2 DEF Free
  <2>. QED BY <2>2, <2>3
<1>. QED BY <1>2, <1>4, <1>5 DEF Chained

(* Processed: a response runs the callback of the request it answers, which *)
(* is no longer waited for.                                                 *)
Cleared(c, name) == [c EXCEPT !.pending[name] = NoRequest]

LEMMA Processed ==
    ASSUME NEW c \in HandlerT, NEW name \in Names, NEW ok \in BOOLEAN
    PROVE  /\ name \notin Requests \/ c.pending[name] = NoRequest =>
                 processDeferreds(c, name, ok) = c
           /\ name \in Requests /\ c.pending[name] # NoRequest =>
                 /\ c.pending[name] \in RequestT
                 /\ Cleared(c, name) \in HandlerT
                 /\ Cleared(c, name).state = c.state /\ Cleared(c, name).raised = c.raised
                 /\ Cleared(c, name).out = c.out
                 /\ Cleared(c, name).pending = Put(c.pending, name, NoRequest)
                 /\ processDeferreds(c, name, ok)
                       = Completed(Cleared(c, name), c.pending[name], ok)
           /\ processDeferreds(c, name, ok) \in HandlerT
<1>1. CASE name \notin Requests \/ c.pending[name] = NoRequest
  BY <1>1 DEF processDeferreds
<1>2. CASE name \in Requests /\ c.pending[name] # NoRequest
  <2>1. c.pending \in Pendings /\ c.pending[name] \in RequestT BY <1>2 DEF HandlerT, Pendings
  <2>2. Put(c.pending, name, NoRequest) \in Pendings BY <2>1 DEF Pendings, Put
  <2>3. Cleared(c, name) = [c EXCEPT !.pending = Put(c.pending, name, NoRequest)]
    BY DEF Cleared, Put, HandlerT
  <2>4. /\ Cleared(c, name) \in HandlerT
        /\ Cleared(c, name).state = c.state /\ Cleared(c, name).raised = c.raised
        /\ Cleared(c, name).out = c.out
        /\ Cleared(c, name).pending = Put(c.pending, name, NoRequest)
    BY <2>2, <2>3 DEF HandlerT
  <2>5. processDeferreds(c, name, ok) = Completed(Cleared(c, name), c.pending[name], ok)
    BY <1>2 DEF processDeferreds, Cleared
  <2>6. processDeferreds(c, name, ok) \in HandlerT
    BY <2>1, <2>4, <2>5, CompletedTyped
  <2>. QED BY <1>2, <2>1, <2>4, <2>5, <2>6
<1>. QED BY <1>1, <1>2

(* Started: startAccess raises, or sends the request to add the AccessSpec. *)
LEMMA Started ==
    ASSUME NEW c \in HandlerT, NEW access \in AccessT
    PROVE  LET d == startAccess(c, access)
           IN  /\ d \in HandlerT /\ d.state = c.state
               /\ ~ Buildable(access) =>
                     d.raised /\ d.pending = c.pending /\ d.out = c.out
               /\ Buildable(access) =>
                     d = send_request(c, "ADD_ACCESSSPEC", access, "add_accessspec_cb", c.state)
<1>1. "ADD_ACCESSSPEC" \in Requests /\ "add_accessspec_cb" \in Callbacks BY DEF Requests, Callbacks
<1>2. c.state \in States BY DEF HandlerT
<1>3. CASE Buildable(access)
  <2>1. startAccess(c, access)
          = send_request(c, "ADD_ACCESSSPEC", access, "add_accessspec_cb", c.state)
    BY <1>3 DEF startAccess
  <2>2. LET d == send_request(c, "ADD_ACCESSSPEC", access, "add_accessspec_cb", c.state)
        IN d \in HandlerT /\ d.state = c.state
    BY <1>1, <1>2, Sending
  <2>. QED BY <1>3, <2>1, <2>2
<1>4. CASE ~ Buildable(access)
  <2>1. startAccess(c, access) = [c EXCEPT !.raised = TRUE] BY <1>4 DEF startAccess, Raise
  <2>. QED BY <1>4, <2>1 DEF HandlerT
<1>. QED BY <1>3, <1>4

-----------------------------------------------------------------------------
(* Type correctness.                                                        *)

LEMMA BeginTyped ==
    ASSUME TypeOK
    PROVE  /\ Begin \in HandlerT
           /\ Begin.state = client.state /\ Begin.pending = client.pending
           /\ Begin.out = << >> /\ ~ Begin.raised
<1>1. << >> \in Seq(MessageT) OBVIOUS
<1>. QED BY <1>1 DEF Begin, HandlerT, TypeOK

LEMMA EndTyped ==
    ASSUME TypeOK, NEW c \in HandlerT, End(c)
    PROVE  /\ client' \in [state : States, pending : Pendings] /\ toReader' \in Seq(MessageT)
           /\ client'.state = c.state /\ client'.pending = c.pending
           /\ toReader' = toReader \o c.out
<1>1. c.out \in Seq(MessageT) /\ c.state \in States /\ c.pending \in Pendings BY DEF HandlerT
<1>2. client' = [state |-> c.state, pending |-> c.pending] /\ toReader' = toReader \o c.out
  BY DEF End
<1>3. toReader \in Seq(MessageT) BY DEF TypeOK
<1>4. toReader \o c.out \in Seq(MessageT) BY <1>1, <1>3, ConcatProperties
<1>. QED BY <1>1, <1>2, <1>4

LEMMA AccessTyped ==
    ASSUME NEW access \in Accesses
    PROVE  /\ access \in AccessT /\ access.id \in Ids
           /\ LET clamped == [access EXCEPT !.stop = IF @ < 0 THEN 0 ELSE @]
              IN  clamped \in AccessT /\ clamped.id \in Ids
<1>1. access \in [id : Ids, op : STRING, stop : Int] BY AccessAssumption
<1>2. access.op \in Operations BY DEF Operations
<1>3. (IF access.stop < 0 THEN 0 ELSE access.stop) \in Int BY <1>1
<1>. QED BY <1>1, <1>2, <1>3 DEF AccessT

LEMMA AskedTyped ==
    ASSUME TypeOK, NEW c \in HandlerT, NEW access \in AccessT, Asked(c, access)
    PROVE  want' \in [Ids -> SpecT] /\ sound' \in BOOLEAN
<1> DEFINE v == [op |-> access.op, counted |-> access.stop > 0, enabled |-> TRUE]
<1>1. v \in SpecT BY DEF SpecT, AccessT
<1> HIDE DEF v
<1>2. want \in [Ids -> SpecT] BY DEF TypeOK
<1>3. want' = want \/ want' = [want EXCEPT ![access.id] = v] BY DEF Asked, v
<1>4. sound' \in BOOLEAN BY DEF Asked
<1>. QED BY <1>1, <1>2, <1>3, <1>4

LEMMA ObeyTyped ==
    ASSUME TypeOK, NEW m \in MessageT
    PROVE  Obey(m) \in [specs : [Ids -> SpecT], rospec : BOOLEAN]
<1>1. /\ reader \in [specs : [Ids -> SpecT], rospec : BOOLEAN]
      /\ m.access \in AccessT /\ m.name \in Names
  BY DEF TypeOK, MessageT
<1> DEFINE id == m.access.id
           v  == [op |-> m.access.op, counted |-> m.access.stop > 0, enabled |-> FALSE]
<1>2. v \in SpecT BY <1>1 DEF SpecT, AccessT
<1> HIDE DEF v
<1>8. \A f \in [Ids -> SpecT] :
        [reader EXCEPT !.specs = f] \in [specs : [Ids -> SpecT], rospec : BOOLEAN]
  BY <1>1
<1> DEFINE specs == reader.specs
<1>9. specs \in [Ids -> SpecT] BY <1>1
<1>3. CASE m.name = "ADD_ACCESSSPEC"
  <2> DEFINE f == [specs EXCEPT ![id] = v]
  <2>1. f \in [Ids -> SpecT] BY <1>2, <1>9
  <2>2. Obey(m) = [reader EXCEPT !.specs = f] BY <1>3 DEF Obey, v
  <2> HIDE DEF f
  <2>. QED BY <1>8, <2>1, <2>2
<1>4. CASE m.name \in {"ENABLE_ACCESSSPEC", "DISABLE_ACCESSSPEC"}
  <2> DEFINE e == m.name = "ENABLE_ACCESSSPEC"
             f == [specs EXCEPT ![id] = [@ EXCEPT !.enabled = e]]
  <2>1. f \in [Ids -> SpecT] BY <1>9 DEF SpecT
  <2>2. Obey(m) = [reader EXCEPT !.specs = f]
    <3>1. CASE m.name = "ENABLE_ACCESSSPEC" BY <1>1, <3>1 DEF Obey
    <3>2. CASE m.name = "DISABLE_ACCESSSPEC" BY <1>1, <3>2 DEF Obey
    <3>. QED BY <1>4, <3>1, <3>2
  <2> HIDE DEF f
  <2>. QED BY <1>8, <2>1, <2>2
<1>6. CASE m.name = "DELETE_ACCESSSPEC"
  <2> DEFINE f == [i \in Ids |-> IF id \in {0, i} THEN Absent ELSE specs[i]]
  <2>1. f \in [Ids -> SpecT] BY <1>9, Typed
  <2>2. Obey(m) = [reader EXCEPT !.specs = f] BY <1>6 DEF Obey
  <2> HIDE DEF f
  <2>. QED BY <1>8, <2>1, <2>2
<1>7. CASE m.name = "DELETE_ROSPEC"
  <2>1. Obey(m) = [reader EXCEPT !.rospec = FALSE] BY <1>7 DEF Obey
  <2>. QED BY <1>1, <2>1
<1>. QED BY <1>1, <1>3, <1>4, <1>6, <1>7 DEF Names, Requests

LEMMA RejectedTyped ==
    ASSUME TypeOK, toReader # << >>, NEW ok \in BOOLEAN
    PROVE  /\ Head(toReader) \in MessageT /\ Tail(toReader) \in Seq(MessageT)
           /\ Answer(Head(toReader), ok) \in AnswerT
           /\ Append(toClient, Answer(Head(toReader), ok)) \in Seq(AnswerT)
<1> DEFINE m == Head(toReader)
           a == Answer(m, ok)
<1>1. toReader \in Seq(MessageT) /\ toClient \in Seq(AnswerT) BY DEF TypeOK
<1>2. m \in MessageT /\ Tail(toReader) \in Seq(MessageT) BY <1>1
<1>3. a \in AnswerT BY <1>2 DEF Answer, AnswerT, MessageT
<1> HIDE DEF m, a
<1>4. Append(toClient, a) \in Seq(AnswerT) BY <1>1, <1>3
<1>. QED BY <1>2, <1>3, <1>4 DEF a, m

LEMMA TypeStep == TypeOK /\ [Next]_vars => TypeOK'
<1> SUFFICES ASSUME TypeOK, [Next]_vars PROVE TypeOK' OBVIOUS
<1> USE BeginTyped
<1>0. /\ toReader \in Seq(MessageT) /\ toClient \in Seq(AnswerT)
      /\ client \in [state : States, pending : Pendings]
      /\ reader \in [specs : [Ids -> SpecT], rospec : BOOLEAN] /\ want \in [Ids -> SpecT]
      /\ stopping \in BOOLEAN /\ calm \in BOOLEAN /\ sound \in BOOLEAN /\ calls \in Nat
  BY DEF TypeOK
<1>1. ASSUME NEW access \in Accesses, StartAccessSpec(access) PROVE TypeOK'
  <2> DEFINE clamped == [access EXCEPT !.stop = IF @ < 0 THEN 0 ELSE @]
             c == startAccess(Begin, clamped)
  <2>1. clamped \in AccessT BY AccessTyped
  <2>2. End(c) /\ Asked(c, clamped) /\ calls' = calls + 1
        /\ UNCHANGED <<toClient, reader, stopping, calm>>
    BY <1>1 DEF StartAccessSpec, Call
  <2> HIDE DEF clamped
  <2>3. c \in HandlerT BY <2>1, Started
  <2> HIDE DEF c
  <2>4. client' \in [state : States, pending : Pendings] /\ toReader' \in Seq(MessageT)
    BY <2>2, <2>3, EndTyped
  <2>5. want' \in [Ids -> SpecT] /\ sound' \in BOOLEAN BY <2>1, <2>2, <2>3, AskedTyped
  <2>. QED BY <1>0, <2>2, <2>4, <2>5 DEF TypeOK
<1>2. ASSUME NEW access \in Accesses, NextAccess(access) PROVE TypeOK'
  <2> DEFINE c == nextAccess(Begin, access)
  <2>1. access \in AccessT BY AccessTyped
  <2>2. End(c) /\ Asked(c, access) /\ calls' = calls + 1
        /\ UNCHANGED <<toClient, reader, stopping, calm>>
    BY <1>2 DEF NextAccess, Call
  <2>3. c \in HandlerT
    <3>1. "DISABLE_ACCESSSPEC" \in Requests /\ "disable_accessspec_cb" \in Callbacks
          /\ Begin.state \in States
      BY DEF Requests, Callbacks, HandlerT
    <3>. QED BY <2>1, <3>1, Sending DEF nextAccess
  <2> HIDE DEF c
  <2>4. client' \in [state : States, pending : Pendings] /\ toReader' \in Seq(MessageT)
    BY <2>2, <2>3, EndTyped
  <2>5. want' \in [Ids -> SpecT] /\ sound' \in BOOLEAN BY <2>1, <2>2, <2>3, AskedTyped
  <2>. QED BY <1>0, <2>2, <2>4, <2>5 DEF TypeOK
<1>3. ASSUME NEW id \in Ids, SendDeleteAccessSpec(id) PROVE TypeOK'
  <2> DEFINE a == [All EXCEPT !.id = id]
             c == sendMessage(Begin, "DELETE_ACCESSSPEC", a)
  <2>1. a \in AccessT BY Typed DEF AccessT
  <2>2. /\ End(c) /\ calls' = calls + 1
        /\ want' = IF c.raised THEN want ELSE [want EXCEPT ![id] = Absent]
        /\ UNCHANGED <<toClient, reader, stopping, calm, sound>>
    BY <1>3 DEF SendDeleteAccessSpec, Call
  <2> HIDE DEF a
  <2>3. c \in HandlerT
    <3>1. "DELETE_ACCESSSPEC" \in Names BY DEF Requests, Names
    <3>. QED BY <2>1, <3>1, Untracked
  <2> HIDE DEF c
  <2>4. client' \in [state : States, pending : Pendings] /\ toReader' \in Seq(MessageT)
    BY <2>2, <2>3, EndTyped
  <2>5. want' \in [Ids -> SpecT] BY <1>0, <2>2, Typed
  <2>. QED BY <1>0, <2>2, <2>4, <2>5 DEF TypeOK
<1>4. CASE Disconnect
  <2> DEFINE c == stopPolitely(Begin)
  <2>2. End(c) /\ calls' = calls + 1 /\ stopping' = TRUE
        /\ UNCHANGED <<toClient, reader, want, calm, sound>>
    BY <1>4 DEF Disconnect, Call
  <2>3. c \in HandlerT
    <3>1. "DELETE_ACCESSSPEC" \in Requests /\ "send_delete_accessspec_cb" \in Callbacks
          /\ "SENT_DELETE_ACCESSSPEC" \in States
      BY DEF Requests, Callbacks, States
    <3>. QED BY <3>1, Sending, Typed DEF stopPolitely
  <2> HIDE DEF c
  <2>4. client' \in [state : States, pending : Pendings] /\ toReader' \in Seq(MessageT)
    BY <2>2, <2>3, EndTyped
  <2>. QED BY <1>0, <2>2, <2>4 DEF TypeOK
<1>5. CASE Receive
  <2> DEFINE m == Head(toClient)
             c == IF m.live THEN processDeferreds(Begin, m.name, m.ok) ELSE Begin
             d == IF c.raised THEN HangUp(c) ELSE c
  <2>1. /\ toClient # << >> /\ toClient' = Tail(toClient) /\ End(d)
        /\ UNCHANGED <<reader, want, stopping, calm, calls, sound>>
    BY <1>5 DEF Receive
  <2>2. m \in AnswerT /\ Tail(toClient) \in Seq(AnswerT) BY <1>0, <2>1
  <2>3. m.name \in Names /\ m.ok \in BOOLEAN BY <2>2 DEF AnswerT
  <2> HIDE DEF m
  <2>4. c \in HandlerT BY <2>3, Processed
  <2> HIDE DEF c
  <2>5. d \in HandlerT BY <2>4, HungUp
  <2> HIDE DEF d
  <2>6. client' \in [state : States, pending : Pendings] /\ toReader' \in Seq(MessageT)
    BY <2>1, <2>5, EndTyped
  <2>. QED BY <1>0, <2>1, <2>2, <2>6 DEF TypeOK
<1>6. ASSUME NEW name \in Requests, RequestTimeout(name) PROVE TypeOK'
  <2> DEFINE c == processDeferreds(Begin, name, FALSE)
             q == MarkLate(toReader, name)
  <2>1. /\ client' = [state |-> c.state, pending |-> c.pending]
        /\ toReader' = q \o c.out /\ toClient' = MarkLate(toClient, name) /\ calm' = FALSE
        /\ UNCHANGED <<reader, want, stopping, calls, sound>>
    BY <1>6 DEF RequestTimeout
  <2>2. c \in HandlerT BY Processed, Typed
  <2>3. c.state \in States /\ c.pending \in Pendings /\ c.out \in Seq(MessageT)
    BY <2>2 DEF HandlerT
  <2>4. q \in Seq(MessageT) /\ MarkLate(toClient, name) \in Seq(AnswerT) BY <1>0, PlaceLate
  <2> HIDE DEF c, q
  <2>5. q \o c.out \in Seq(MessageT) BY <2>3, <2>4, ConcatProperties
  <2>6. client' \in [state : States, pending : Pendings] BY <2>1, <2>3
  <2>. QED BY <1>0, <2>1, <2>4, <2>5, <2>6 DEF TypeOK
<1>7. CASE ReaderHandles
  <2> DEFINE m == Head(toReader)
             ok == Acceptable(m)
  <2>1. /\ toReader # << >> /\ toReader' = Tail(toReader)
        /\ reader' = Obey(m) \/ reader' = reader
        /\ toClient' = Append(toClient, Answer(m, ok)) \/ toClient' = toClient
        /\ UNCHANGED <<client, want, stopping, calm, calls, sound>>
    BY <1>7 DEF ReaderHandles
  <2>2. ok \in BOOLEAN
    <3>1. m \in MessageT BY <2>1, RejectedTyped
    <3>. QED BY <3>1 DEF Acceptable, MessageT, Names, Requests
  <2> HIDE DEF ok
  <2>3. /\ m \in MessageT /\ Tail(toReader) \in Seq(MessageT)
        /\ Append(toClient, Answer(m, ok)) \in Seq(AnswerT)
    BY <2>1, <2>2, RejectedTyped
  <2>4. reader' \in [specs : [Ids -> SpecT], rospec : BOOLEAN] BY <1>0, <2>1, <2>3, ObeyTyped
  <2>. QED BY <1>0, <2>1, <2>3, <2>4 DEF TypeOK
<1>8. CASE ReaderRejects
  <2>1. /\ toReader # << >> /\ toReader' = Tail(toReader) /\ calm' = FALSE
        /\ toClient' = Append(toClient, Answer(Head(toReader), FALSE)) \/ toClient' = toClient
        /\ UNCHANGED <<client, reader, want, stopping, calls, sound>>
    BY <1>8 DEF ReaderRejects
  <2>. QED BY <1>0, <2>1, RejectedTyped DEF TypeOK
<1>9. ASSUME NEW id \in Ids, CountReached(id) PROVE TypeOK'
  <2> DEFINE f == [reader.specs EXCEPT ![id] = Absent]
  <2>1. f \in [Ids -> SpecT] BY <1>0, Typed
  <2>2. reader' = [reader EXCEPT !.specs = f] BY <1>9 DEF CountReached
  <2> HIDE DEF f
  <2>3. reader' \in [specs : [Ids -> SpecT], rospec : BOOLEAN] BY <1>0, <2>1, <2>2
  <2>. QED BY <1>0, <1>9, <2>3 DEF TypeOK, CountReached
<1>10. CASE UNCHANGED vars BY <1>10 DEF TypeOK, vars
<1>. QED BY <1>1, <1>2, <1>3, <1>4, <1>5, <1>6, <1>7, <1>8, <1>9, <1>10 DEF Next

-----------------------------------------------------------------------------
(* The chains of requests.                                                  *)

(* ClearedChains: a request answered or given up leaves the others. *)
LEMMA ClearedChains ==
    ASSUME NEW r, NEW q, NEW r2, NEW q2, NEW c \in HandlerT, NEW snd \in BOOLEAN,
           NEW name \in Requests, c.pending[name] # NoRequest, Chaining(r, q, c, snd),
           Tracked(r2, q2, Put(c.pending, name, NoRequest)), Wired(r2, q2)
    PROVE  LET d == Cleared(c, name)
               v == c.pending[name]
           IN  /\ Chaining(r2, q2, d, snd) /\ d.pending[name] = NoRequest
               /\ Free(name, c.pending) => Free(name, d.pending)
               /\ Chained(name, v, snd)
<1> DEFINE d == Cleared(c, name)
           v == c.pending[name]
           p == Put(c.pending, name, NoRequest)
<1>1. c.pending \in Pendings /\ name \in Names BY DEF HandlerT, Names
<1>2. /\ d.pending = p /\ d.state = c.state
  <2>1. FALSE \in BOOLEAN OBVIOUS
  <2>. QED BY <1>1, <2>1, Processed
<1>3. \A n \in Requests : p[n] = IF n = name THEN NoRequest ELSE c.pending[n]
  BY <1>1 DEF Put, Pendings
<1>4. ChainCallbacks(c.pending) /\ (snd => ChainsSound(c.pending)) BY DEF Chaining
<1> HIDE DEF p, d
<1>5. ChainCallbacks(p) BY <1>3, <1>4 DEF ChainCallbacks, Requests
<1>6. snd => ChainsSound(p) BY <1>3, <1>4 DEF ChainsSound, Requests
<1>7. Chaining(r2, q2, d, snd) BY <1>2, <1>5, <1>6 DEF Chaining, p
<1>8. d.pending[name] = NoRequest BY <1>2, <1>3
<1>9. Free(name, c.pending) => Free(name, d.pending)
  BY <1>2, <1>3 DEF Free, Requests
<1>10. Chained(name, v, snd)
  <2>1. name \in {"ADD_ACCESSSPEC", "DISABLE_ACCESSSPEC", "DELETE_ACCESSSPEC"}
    BY <1>4 DEF ChainCallbacks, Requests
  <2>2. CASE name = "ADD_ACCESSSPEC" BY <1>4, <2>2 DEF ChainCallbacks, Chained
  <2>3. CASE name = "DISABLE_ACCESSSPEC"
    BY <1>4, <2>3 DEF ChainCallbacks, ChainsSound, Chained
  <2>4. CASE name = "DELETE_ACCESSSPEC"
    BY <1>4, <2>4 DEF ChainCallbacks, ChainsSound, Chained
  <2>. QED BY <2>1, <2>2, <2>3, <2>4
<1>. QED BY <1>7, <1>8, <1>9, <1>10 DEF d

(* Kept: what a call or a callback leaves is what the next state has. *)
LEMMA Kept ==
    ASSUME TypeOK, NEW c \in HandlerT, End(c), NEW r, NEW snd,
           Chaining(r, toReader \o c.out, c, snd)
    PROVE  Chaining(r, toReader', client', snd) /\ client'.state = "INVENTORYING"
<1>1. /\ client'.state = c.state /\ client'.pending = c.pending
      /\ toReader' = toReader \o c.out
  BY EndTyped
<1>. QED BY <1>1 DEF Chaining

(* Survived: the state of a session that is not stopping says the rest. *)
LEMMA Survived ==
    ASSUME Chaining(toClient, toReader, client, sound)'
    PROVE  (SessionSurvives /\ ChainInv)'
<1>1. client'.state = "INVENTORYING" BY DEF Chaining
<1>2. client'.state # "DISCONNECTED" BY <1>1
<1>. QED BY <1>2 DEF SessionSurvives, ChainInv

LEMMA ChainStep ==
    ASSUME ~ AnyTime
    PROVE  TypeOK /\ SessionSurvives /\ ChainInv /\ [Next]_vars => (SessionSurvives /\ ChainInv)'
<1> SUFFICES ASSUME TypeOK, SessionSurvives, ChainInv, [Next]_vars
             PROVE  (SessionSurvives /\ ChainInv)'
  OBVIOUS
<1> USE BeginTyped
<1>0. /\ toReader \in Seq(MessageT) /\ toClient \in Seq(AnswerT)
      /\ client \in [state : States, pending : Pendings]
      /\ stopping \in BOOLEAN /\ sound \in BOOLEAN
      /\ client.pending \in Pendings
  BY DEF TypeOK
<1>00. Connected /\ ~stopping =>
          Chaining(toClient, toReader, Begin, sound) /\ Begin.state = "INVENTORYING"
  BY DEF ChainInv, Chaining
<1>1. ASSUME NEW access \in Accesses, StartAccessSpec(access)
      PROVE  (SessionSurvives /\ ChainInv)'
  <2> DEFINE clamped == [access EXCEPT !.stop = IF @ < 0 THEN 0 ELSE @]
             c == startAccess(Begin, clamped)
  <2>1. clamped \in AccessT BY AccessTyped
  <2>2. /\ End(c) /\ Connected /\ ~stopping /\ Idle /\ UNCHANGED <<toClient, stopping>>
        /\ sound' = (sound /\ (c.raised \/ Buildable(clamped)))
    BY <1>1 DEF StartAccessSpec, Call, Opportune, Asked
  <2> HIDE DEF clamped
  <2>3. c \in HandlerT /\ c.state = Begin.state BY <2>1, Started
  <2>4. Chaining(toClient, toReader \o c.out, c, sound')
    <3>1. CASE ~ Buildable(clamped)
      <4>1. c.pending = Begin.pending /\ c.out = << >> BY <2>1, <3>1, Started
      <4>2. toReader \o c.out = toReader BY <1>0, <4>1, Joined
      <4>. QED BY <1>00, <2>2, <2>3, <4>1, <4>2 DEF Chaining
    <3>2. CASE Buildable(clamped)
      <4> DEFINE r == Request("start_next_accessspec_cb", clamped)
                 d == Completed(Begin, r, TRUE)
      <4>1. r \in RequestT /\ r.access = clamped /\ r.cb = "start_next_accessspec_cb"
        BY <2>1 DEF Request, RequestT, Callbacks
      <4>2. d = c BY <4>1 DEF Completed, start_next_accessspec_cb
      <4>3. Begin.pending["DELETE_ACCESSSPEC"] = NoRequest BY <2>2 DEF Idle, Requests
      <4>4. Chaining(toClient, toReader \o d.out, d, sound)
        <5> HIDE DEF r
        <5> DEFINE name == "DELETE_ACCESSSPEC"
        <5>1. name \in Requests BY DEF Requests
        <5>2. Chained(name, r, sound) BY <3>2, <4>1 DEF Chained
        <5> HIDE DEF name
        <5>. QED BY <1>0, <1>00, <2>2, <4>1, <4>3, <5>1, <5>2, ChainGoesOn DEF name
      <4>. QED BY <1>0, <2>2, <3>2, <4>2, <4>4 DEF Chaining
    <3>. QED BY <3>1, <3>2
  <2> HIDE DEF c
  <2>5. Chaining(toClient, toReader', client', sound') BY <2>2, <2>3, <2>4, Kept
  <2>. QED BY <2>2, <2>5, Survived
<1>2. ASSUME NEW access \in Accesses, NextAccess(access)
      PROVE  (SessionSurvives /\ ChainInv)'
  <2> DEFINE c == nextAccess(Begin, access)
             p == client.pending
             n == "DISABLE_ACCESSSPEC"
             v == Request("disable_accessspec_cb", access)
             m == Waited(n, access)
  <2>1. access \in AccessT BY AccessTyped
  <2>2. /\ End(c) /\ Connected /\ ~stopping /\ UNCHANGED <<toClient, stopping>>
        /\ sound' = (sound /\ (c.raised \/ Buildable(access)))
    BY <1>2 DEF NextAccess, Call, Opportune, Asked
  <2>3. /\ c \in HandlerT
        /\ p[n] # NoRequest => c.state = Begin.state /\ c.pending = p /\ c.out = << >>
        /\ p[n] = NoRequest =>
              /\ c.state = Begin.state /\ ~ c.raised
              /\ c.pending = Put(p, n, v) /\ c.out = Append(<< >>, m)
    <3>1. n \in Requests /\ "disable_accessspec_cb" \in Callbacks /\ Begin.state \in States
      BY DEF Requests, Callbacks, HandlerT
    <3>2. c = send_request(Begin, n, access, "disable_accessspec_cb", Begin.state)
      BY DEF nextAccess
    <3> HIDE DEF c, n, v, m
    <3>. QED BY <2>1, <3>1, <3>2, Sending DEF v, m
  <2> HIDE DEF c
  <2>4. Chaining(toClient, toReader \o c.out, c, sound')
    <3>1. CASE p[n] # NoRequest
      <4>1. toReader \o c.out = toReader BY <1>0, <2>3, <3>1, Joined
      <4>. QED BY <1>0, <1>00, <2>2, <2>3, <3>1, <4>1 DEF Chaining
    <3>2. CASE p[n] = NoRequest
      <4>0. n \in Requests /\ n \in Names /\ n # "DELETE_ACCESSSPEC" /\ n # "ADD_ACCESSSPEC"
            /\ n # "DELETE_ROSPEC"
        BY DEF Requests, Names
      <4>1. m \in MessageT /\ m.live /\ m.name = n BY <2>1, <4>0, Typed DEF Waited, Message
      <4>2. v \in RequestT /\ v.cb = "disable_accessspec_cb" /\ v.access = access
        BY <2>1 DEF Request, RequestT, Callbacks
      <4>3. v # NoRequest BY <4>2, Typed
      <4>4. toReader \o c.out = Append(toReader, m)
        <5>1. c.out = << m >> BY <2>3, <3>2
        <5> HIDE DEF m
        <5>. QED BY <1>0, <4>1, <5>1, Joined
      <4>5. \A x \in Requests : Put(p, n, v)[x] = IF x = n THEN v ELSE p[x]
        BY <1>0 DEF Put, Pendings
      <4>6. /\ Tracked(toClient, toReader, p) /\ Wired(toClient, toReader)
            /\ ChainCallbacks(p) /\ (sound => ChainsSound(p)) /\ Begin.state = "INVENTORYING"
        BY <1>00, <2>2 DEF Chaining
      <4> HIDE DEF m, v, p
      <4>7. Tracked(toClient, Append(toReader, m), Put(p, n, v))
            /\ Wired(toClient, Append(toReader, m))
        <5>1. p \in Pendings /\ p[m.name] = NoRequest BY <1>0, <3>2, <4>1 DEF p
        <5> HIDE DEF n
        <5>. QED BY <1>0, <4>0, <4>1, <4>3, <4>6, <5>1, SentTracked
      <4>8. ChainCallbacks(Put(p, n, v))
        <5>1. {"ADD_ACCESSSPEC", "DELETE_ACCESSSPEC", "DELETE_ROSPEC"} \subseteq Requests
          BY DEF Requests
        <5>. QED BY <4>0, <4>2, <4>5, <4>6, <5>1 DEF ChainCallbacks
      <4>9. sound' => ChainsSound(Put(p, n, v))
        <5>1. sound' => sound /\ Buildable(access) BY <2>2, <2>3, <3>2 DEF p
        <5>2. "DELETE_ACCESSSPEC" \in Requests BY DEF Requests
        <5>. QED BY <4>0, <4>2, <4>5, <4>6, <5>1, <5>2 DEF ChainsSound
      <4>. QED BY <2>3, <3>2, <4>4, <4>6, <4>7, <4>8, <4>9 DEF Chaining, p, v
    <3>. QED BY <3>1, <3>2
  <2>5. Chaining(toClient, toReader', client', sound') BY <2>2, <2>3, <2>4, Kept
  <2>. QED BY <2>2, <2>5, Survived
<1>3. ASSUME NEW id \in Ids, SendDeleteAccessSpec(id) PROVE (SessionSurvives /\ ChainInv)'
  <2> DEFINE a == [All EXCEPT !.id = id]
             c == sendMessage(Begin, "DELETE_ACCESSSPEC", a)
             m == Unwaited("DELETE_ACCESSSPEC", a)
  <2>1. a \in AccessT BY Typed DEF AccessT
  <2>2. /\ End(c) /\ Connected /\ ~stopping /\ Idle
        /\ UNCHANGED <<toClient, stopping, sound>>
    BY <1>3 DEF SendDeleteAccessSpec, Call, Opportune
  <2> HIDE DEF a
  <2>3. /\ c \in HandlerT /\ c.state = Begin.state /\ c.pending = Begin.pending
        /\ c.out = Append(<< >>, m)
    <3>1. "DELETE_ACCESSSPEC" \in Names /\ Begin.pending["DELETE_ACCESSSPEC"] = NoRequest
      BY <2>2 DEF Names, Requests, Idle
    <3>. QED BY <2>1, <3>1, Untracked
  <2>4. m \in MessageT /\ ~ m.live BY <2>1, Typed DEF Unwaited, Message, Names, Requests
  <2>5. c.out = << m >> BY <2>3
  <2> HIDE DEF c, m
  <2>6. toReader \o c.out = Append(toReader, m) BY <1>0, <2>4, <2>5, Joined
  <2>7. Chaining(toClient, toReader \o c.out, c, sound)
    <3>1. Tracked(toClient, toReader, client.pending) /\ Wired(toClient, toReader)
      BY <1>00, <2>2 DEF Chaining
    <3>2. Tracked(toClient, Append(toReader, m), client.pending)
          /\ Wired(toClient, Append(toReader, m))
      BY <1>0, <2>4, <3>1, UntrackedSent
    <3>. QED BY <1>00, <2>2, <2>3, <2>6, <3>2 DEF Chaining
  <2>8. Chaining(toClient, toReader', client', sound) BY <2>2, <2>3, <2>7, Kept
  <2>. QED BY <2>2, <2>8, Survived
<1>4. CASE Disconnect
  BY <1>4 DEF Disconnect, SessionSurvives, ChainInv
<1>5. CASE Receive
  <2> DEFINE m == Head(toClient)
             c == IF m.live THEN processDeferreds(Begin, m.name, m.ok) ELSE Begin
             d == IF c.raised THEN HangUp(c) ELSE c
  <2>1. /\ Connected /\ toClient # << >> /\ toClient' = Tail(toClient) /\ End(d)
        /\ UNCHANGED <<stopping, sound>>
    BY <1>5 DEF Receive
  <2>2. CASE stopping BY <2>1, <2>2 DEF SessionSurvives, ChainInv
  <2>3. CASE ~stopping /\ ~m.live
    <3>1. c = Begin BY <2>3
    <3>2. Tracked(toClient, toReader, client.pending) /\ Wired(toClient, toReader)
      BY <1>00, <2>1, <2>3 DEF Chaining
    <3>3. Tracked(Tail(toClient), toReader, client.pending) /\ Wired(Tail(toClient), toReader)
      BY <1>0, <2>1, <2>3, <3>2, IgnoredAnswer
    <3>4. toReader \o Begin.out = toReader BY <1>0, Joined
    <3>5. Chaining(Tail(toClient), toReader \o Begin.out, Begin, sound)
      BY <1>00, <2>1, <2>3, <3>3, <3>4 DEF Chaining
    <3>6. End(Begin) BY <2>1, <3>1
    <3>7. Chaining(Tail(toClient), toReader', client', sound) BY <3>5, <3>6, Kept
    <3>. QED BY <2>1, <3>7, Survived
  <2>4. CASE ~stopping /\ m.live
    <3> DEFINE n == m.name
               ok == m.ok
               b == Cleared(Begin, n)
               v == Begin.pending[n]
    <3>1. m \in AnswerT BY <1>0, <2>1
    <3>2. n \in Names /\ ok \in BOOLEAN BY <3>1 DEF AnswerT
    <3>3. Chaining(toClient, toReader, Begin, sound) BY <1>00, <2>1, <2>4
    <3>4. /\ n \in Requests /\ Begin.pending[n] # NoRequest
          /\ Tracked(Tail(toClient), toReader, Put(Begin.pending, n, NoRequest))
          /\ Wired(Tail(toClient), toReader)
          /\ Free(n, Begin.pending)
      <4>1. Tracked(toClient, toReader, Begin.pending) /\ Wired(toClient, toReader)
            /\ Begin.pending \in Pendings
        BY <1>0, <3>3 DEF Chaining
      <4>. QED BY <1>0, <2>1, <2>4, <4>1, Answered
    <3> HIDE DEF m, n, ok
    <3>5. c = processDeferreds(Begin, n, ok) BY <2>4 DEF n, ok
    <3> HIDE DEF c
    <3>6. v \in RequestT /\ b \in HandlerT /\ ~ b.raised /\ b.out = << >>
          /\ c = Completed(b, v, ok) /\ c \in HandlerT
      BY <3>2, <3>4, <3>5, Processed
    <3>7. /\ Chaining(Tail(toClient), toReader, b, sound) /\ b.pending[n] = NoRequest
          /\ Free(n, Begin.pending) => Free(n, b.pending)
          /\ Chained(n, v, sound)
      BY <1>0, <3>3, <3>4, ClearedChains
    <3> HIDE DEF b, v
    <3>8. /\ Chaining(Tail(toClient), toReader \o c.out, c, sound)
          /\ sound /\ Free(n, b.pending) => ~ c.raised
      <4>1. Tail(toClient) \in Seq(AnswerT) BY <1>0, <2>1
      <4>. QED BY <1>0, <3>2, <3>4, <3>6, <3>7, <4>1, ChainGoesOn
    <3>9. c.raised => ~sound BY <3>4, <3>7, <3>8
    <3>10. CASE c.raised
      <4>1. d \in HandlerT /\ d.state = "DISCONNECTED" BY <3>6, <3>10, HungUp
      <4>2. client'.state = "DISCONNECTED" BY <2>1, <4>1, EndTyped
      <4>. QED BY <2>1, <3>9, <3>10, <4>2 DEF SessionSurvives, ChainInv, Connected
    <3>11. CASE ~c.raised
      <4>1. End(c) BY <2>1, <3>11
      <4>2. Chaining(Tail(toClient), toReader', client', sound) BY <3>6, <3>8, <4>1, Kept
      <4>. QED BY <2>1, <4>2, Survived
    <3>. QED BY <3>10, <3>11
  <2>. QED BY <2>2, <2>3, <2>4
<1>6. ASSUME NEW name \in Requests, RequestTimeout(name) PROVE (SessionSurvives /\ ChainInv)'
  <2> DEFINE c == processDeferreds(Begin, name, FALSE)
             b == Cleared(Begin, name)
             v == Begin.pending[name]
             q == MarkLate(toReader, name)
             r == MarkLate(toClient, name)
  <2>1. /\ Begin.pending[name] # NoRequest
        /\ client' = [state |-> c.state, pending |-> c.pending]
        /\ toReader' = q \o c.out /\ toClient' = r
        /\ UNCHANGED <<stopping, sound>>
    BY <1>6 DEF RequestTimeout
  <2>2. name \in Names /\ FALSE \in BOOLEAN BY Typed
  <2>3. v \in RequestT /\ b \in HandlerT /\ ~ b.raised /\ b.out = << >> /\ b.state = Begin.state
        /\ c = Completed(b, v, FALSE) /\ c \in HandlerT
    BY <2>1, <2>2, Processed
  <2>4. CASE stopping BY <2>1, <2>4 DEF SessionSurvives, ChainInv
  <2>5. CASE ~Connected
    <3>1. b.state = "DISCONNECTED" BY <2>3, <2>5 DEF Connected
    <3>2. Completed(b, v, FALSE).state = "DISCONNECTED" BY <2>2, <2>3, <3>1, CompletedTyped
    <3>3. client'.state = "DISCONNECTED" BY <2>1, <2>3, <3>2
    <3>. QED BY <2>1, <2>5, <3>3 DEF SessionSurvives, ChainInv, Connected
  <2>6. CASE ~stopping /\ Connected
    <3>3. Chaining(toClient, toReader, Begin, sound) BY <1>00, <2>6
    <3>4. Tracked(r, q, Put(Begin.pending, name, NoRequest)) /\ Wired(r, q)
      <4>1. Tracked(toClient, toReader, Begin.pending) /\ Wired(toClient, toReader)
            /\ Begin.pending \in Pendings
        BY <1>0, <3>3 DEF Chaining
      <4>. QED BY <1>0, <4>1, GivenUp
    <3>5. r \in Seq(AnswerT) /\ q \in Seq(MessageT) BY <1>0, PlaceLate
    <3> HIDE DEF r, q, c
    <3>7. /\ Chaining(r, q, b, sound) /\ b.pending[name] = NoRequest
          /\ Chained(name, v, sound)
      BY <1>0, <2>1, <3>3, <3>4, ClearedChains
    <3> HIDE DEF b, v
    <3>8. Chaining(r, q \o c.out, c, sound) BY <1>0, <2>2, <2>3, <3>5, <3>7, ChainGoesOn
    <3>9. client'.state = c.state /\ client'.pending = c.pending BY <2>1
    <3>10. Chaining(r, q \o c.out, client', sound) BY <3>8, <3>9 DEF Chaining
    <3>. QED BY <2>1, <3>10, Survived
  <2>. QED BY <2>4, <2>5, <2>6
<1>7. ASSUME NEW ok \in BOOLEAN, toReader # << >>, toReader' = Tail(toReader),
             toClient' = IF Connected THEN Append(toClient, Answer(Head(toReader), ok)) ELSE toClient,
             UNCHANGED <<client, stopping, sound>>
      PROVE  (SessionSurvives /\ ChainInv)'
  <2>1. SessionSurvives' BY <1>7 DEF SessionSurvives
  <2>2. CASE stopping \/ ~Connected
    BY <1>7, <2>1, <2>2 DEF ChainInv, Connected
  <2>3. CASE ~stopping /\ Connected
    <3>1. Chaining(toClient, toReader, client, sound) BY <2>3 DEF ChainInv
    <3>2. toClient' = Append(toClient, Answer(Head(toReader), ok)) BY <1>7, <2>3
    <3>3. Tracked(toClient', Tail(toReader), client.pending) /\ Wired(toClient', Tail(toReader))
      <4>1. Tracked(toClient, toReader, client.pending) /\ Wired(toClient, toReader)
        BY <3>1 DEF Chaining
      <4>. QED BY <1>0, <1>7, <3>2, <4>1, AnswerSent
    <3>4. Chaining(toClient', toReader', client', sound') BY <1>7, <3>1, <3>3 DEF Chaining
    <3>. QED BY <3>4, Survived
  <2>. QED BY <2>2, <2>3
<1>8. CASE ReaderHandles
  <2> DEFINE ok == Acceptable(Head(toReader))
  <2>1. ok \in BOOLEAN
    <3>1. Head(toReader) \in MessageT BY <1>0, <1>8 DEF ReaderHandles
    <3>. QED BY <3>1 DEF Acceptable, MessageT, Names, Requests
  <2>2. /\ toReader # << >> /\ toReader' = Tail(toReader)
        /\ toClient' = IF Connected THEN Append(toClient, Answer(Head(toReader), ok)) ELSE toClient
        /\ UNCHANGED <<client, stopping, sound>>
    BY <1>8 DEF ReaderHandles
  <2> HIDE DEF ok
  <2>. QED BY <1>7, <2>1, <2>2
<1>9. CASE ReaderRejects
  <2>1. /\ toReader # << >> /\ toReader' = Tail(toReader)
        /\ toClient' = IF Connected THEN Append(toClient, Answer(Head(toReader), FALSE)) ELSE toClient
        /\ UNCHANGED <<client, stopping, sound>>
    BY <1>9 DEF ReaderRejects
  <2>. QED BY <1>7, <2>1
<1>10. ASSUME UNCHANGED <<client, toReader, toClient, stopping, sound>>
       PROVE  (SessionSurvives /\ ChainInv)'
  BY <1>10 DEF SessionSurvives, ChainInv, Connected, Chaining
<1>11. ASSUME NEW id \in Ids, CountReached(id) PROVE (SessionSurvives /\ ChainInv)'
  BY <1>10, <1>11 DEF CountReached
<1>12. CASE UNCHANGED vars BY <1>10, <1>12 DEF vars
<1>. QED BY <1>1, <1>2, <1>3, <1>4, <1>5, <1>6, <1>8, <1>9, <1>11, <1>12 DEF Next

-----------------------------------------------------------------------------
(* The polite stop.                                                         *)

(* Split: the head and the tail of what is under way. *)
LEMMA Split ==
    ASSUME NEW S, NEW q \in Seq(S), q # << >>
    PROVE  /\ Len(q) \in Nat \ {0} /\ Head(q) = q[1] /\ Head(q) \in S /\ Tail(q) \in Seq(S)
           /\ Len(Tail(q)) = Len(q) - 1 /\ \A i \in 1 .. Len(q) - 1 : Tail(q)[i] = q[i + 1]
           /\ Len(q) = 1 => Tail(q) = << >>
           /\ Len(q) # 1 => Tail(q) # << >>
<1> DEFINE t == Tail(q)
<1>1. /\ Len(q) \in Nat \ {0} /\ Head(q) = q[1] /\ Head(q) \in S /\ t \in Seq(S)
      /\ Len(t) = Len(q) - 1 /\ \A i \in 1 .. Len(q) - 1 : t[i] = q[i + 1]
  BY HeadTailProperties, LenProperties
<1> HIDE DEF t
<1>2. Len(<< >>) = 0 OBVIOUS
<1>3. t # << >> => Len(t) \in Nat \ {0} BY <1>1, EmptySeq
<1>4. Len(q) = 1 => t = << >> BY <1>1, <1>3
<1>5. Len(q) # 1 => t # << >> BY <1>1, <1>2
<1>. QED BY <1>1, <1>4, <1>5 DEF t

(* LastTaken: what is under way is taken until only the last is left. *)
LEMMA LastTaken ==
    ASSUME NEW S, NEW q \in Seq(S), NEW m, OnlyLast(q, m)
    PROVE  \/ Head(q) = m /\ Tail(q) = << >>
           \/ ~ Head(q).live /\ OnlyLast(Tail(q), m)
<1> DEFINE t == Tail(q)
<1>0. q # << >> BY DEF OnlyLast
<1>1. /\ Len(q) \in Nat \ {0} /\ Head(q) = q[1] /\ Len(t) = Len(q) - 1
      /\ \A i \in 1 .. Len(q) - 1 : t[i] = q[i + 1]
      /\ Len(q) = 1 => t = << >>
      /\ Len(q) # 1 => t # << >>
  BY <1>0, Split
<1>2. q[Len(q)] = m /\ \A i \in 1 .. Len(q) - 1 : ~ q[i].live BY DEF OnlyLast
<1> HIDE DEF t
<1>3. CASE Len(q) = 1 BY <1>1, <1>2, <1>3 DEF t
<1>4. CASE Len(q) # 1
  <2>1. 1 \in 1 .. Len(q) - 1 /\ Len(q) - 1 \in 1 .. Len(q) - 1 BY <1>1, <1>4
  <2>2. ~ Head(q).live BY <1>1, <1>2, <2>1
  <2>3. t[Len(t)] = m
    <3>1. t[Len(t)] = q[(Len(q) - 1) + 1] BY <1>1, <2>1
    <3>2. (Len(q) - 1) + 1 = Len(q) BY <1>1
    <3>. QED BY <1>2, <3>1, <3>2
  <2>4. ASSUME NEW i \in 1 .. Len(t) - 1 PROVE ~ t[i].live
    <3>1. i \in 1 .. Len(q) - 1 /\ i + 1 \in 1 .. Len(q) - 1 BY <1>1
    <3>. QED BY <1>1, <1>2, <3>1
  <2>. QED BY <1>1, <1>4, <2>2, <2>3, <2>4 DEF OnlyLast, t
<1>. QED BY <1>3, <1>4

(* LastAdded: something comes after what nobody waits for. *)
LEMMA LastAdded ==
    ASSUME NEW S, NEW q \in Seq(S), NEW m \in S, NoneLive(q)
    PROVE  OnlyLast(Append(q, m), m) /\ (~ m.live => NoneLive(Append(q, m)))
<1> DEFINE a == Append(q, m)
<1>1. /\ Len(q) \in Nat /\ Len(a) = Len(q) + 1 /\ a # << >>
      /\ \A i \in 1 .. Len(q) : a[i] = q[i]
      /\ a[Len(q) + 1] = m
  BY AppendProperties, LenProperties
<1> HIDE DEF a
<1>2. \A i \in 1 .. Len(q) : ~ a[i].live BY <1>1 DEF NoneLive
<1>3. OnlyLast(a, m)
  <2>1. Len(a) - 1 = Len(q) BY <1>1
  <2>. QED BY <1>1, <1>2, <2>1 DEF OnlyLast
<1>4. ~ m.live => NoneLive(a)
  <2>1. \A i \in 1 .. Len(a) : i \in 1 .. Len(q) \/ i = Len(q) + 1 BY <1>1
  <2>. QED BY <1>1, <1>2, <2>1 DEF NoneLive
<1>. QED BY <1>3, <1>4 DEF a

(* NoneTaken: what is under way is taken, and nobody waits for it. *)
LEMMA NoneTaken ==
    ASSUME NEW S, NEW q \in Seq(S), q # << >>, NoneLive(q)
    PROVE  ~ Head(q).live /\ NoneLive(Tail(q))
<1> DEFINE t == Tail(q)
<1>1. /\ Len(q) \in Nat \ {0} /\ Head(q) = q[1] /\ Len(t) = Len(q) - 1
      /\ \A i \in 1 .. Len(q) - 1 : t[i] = q[i + 1]
  BY Split
<1> HIDE DEF t
<1>2. ~ Head(q).live
  <2>1. 1 \in 1 .. Len(q) BY <1>1
  <2>. QED BY <1>1, <2>1 DEF NoneLive
<1>3. ASSUME NEW i \in 1 .. Len(t) PROVE ~ t[i].live
  <2>1. i \in 1 .. Len(q) - 1 /\ i + 1 \in 1 .. Len(q) BY <1>1
  <2>. QED BY <1>1, <2>1 DEF NoneLive
<1>. QED BY <1>2, <1>3 DEF NoneLive, t

(* SameClient: nobody waited for the answer. *)
LEMMA SameClient ==
    ASSUME TypeOK, End(Begin)
    PROVE  /\ client'.state = client.state /\ client'.pending = client.pending
           /\ toReader' = toReader
<1>1. toReader \o << >> = toReader BY Joined DEF TypeOK
<1>. QED BY <1>1, BeginTyped, EndTyped

LEMMA WaitedFields ==
    /\ \A n, a : Waited(n, a).name = n /\ Waited(n, a).access = a /\ Waited(n, a).live = TRUE
    /\ All.id = 0
BY DEF Waited, Message, All

(* OnlyPut: the one request that is outstanding. *)
LEMMA OnlyPut ==
    ASSUME NEW p \in Pendings, NEW n \in Requests, NEW v \in RequestT,
           \A x \in Requests : p[x] = NoRequest
    PROVE  Only(Put(p, n, v), n, v.cb)
<1>1. \A x \in Requests : Put(p, n, v)[x] = IF x = n THEN v ELSE NoRequest BY DEF Put, Pendings
<1>. QED BY <1>1, Typed DEF Only

LEMMA StopStep ==
    ASSUME ~ AnyTime
    PROVE  IInv /\ [Next]_vars => StopInv'
<1> SUFFICES ASSUME IInv, [Next]_vars, stopping', calm'
             PROVE  (Deleting \/ Deleted \/ Stopping \/ Stopped \/ Closed)'
  BY DEF StopInv
<1>0. /\ TypeOK /\ toReader \in Seq(MessageT) /\ toClient \in Seq(AnswerT)
      /\ client \in [state : States, pending : Pendings] /\ client.pending \in Pendings
      /\ reader \in [specs : [Ids -> SpecT], rospec : BOOLEAN]
      /\ stopping \in BOOLEAN /\ calm \in BOOLEAN
      /\ Begin \in HandlerT /\ Begin.state = client.state /\ Begin.pending = client.pending
      /\ Begin.out = << >> /\ ~ Begin.raised
  BY BeginTyped DEF IInv, TypeOK
<1>01. {"DELETE_ACCESSSPEC", "DELETE_ROSPEC"} \subseteq Requests
       /\ "DELETE_ACCESSSPEC" \in Names /\ "DELETE_ROSPEC" \in Names
       /\ "DELETE_ACCESSSPEC" # "DELETE_ROSPEC"
  BY DEF Requests, Names
<1>02. {"send_delete_accessspec_cb", "stop_all_rospecs_cb"} \subseteq Callbacks
       /\ {"SENT_DELETE_ACCESSSPEC", "SENT_DELETE_ROSPEC"} \subseteq States
  BY DEF Callbacks, States
<1>03. stopping /\ calm => Deleting \/ Deleted \/ Stopping \/ Stopped \/ Closed
  BY DEF IInv, StopInv
<1>1. ASSUME NEW access \in Accesses, StartAccessSpec(access) PROVE FALSE
  BY <1>1 DEF StartAccessSpec, Call, Opportune
<1>2. ASSUME NEW access \in Accesses, NextAccess(access) PROVE FALSE
  BY <1>2 DEF NextAccess, Call, Opportune
<1>3. ASSUME NEW id \in Ids, SendDeleteAccessSpec(id) PROVE FALSE
  BY <1>3 DEF SendDeleteAccessSpec, Call, Opportune
<1>4. CASE Disconnect
  <2> DEFINE n == "DELETE_ACCESSSPEC"
             c == stopPolitely(Begin)
             v == Request("send_delete_accessspec_cb", All)
             m == Waited(n, All)
  <2>1. /\ ~stopping /\ Connected /\ Idle /\ End(c) /\ toClient' = toClient
    BY <1>4 DEF Disconnect, Call, Opportune
  <2>2. NoneLive(toClient) /\ NoneLive(toReader)
    <3>1. Tracked(toClient, toReader, client.pending)
      BY <2>1 DEF IInv, ChainInv, Chaining
    <3>. QED BY <1>0, <2>1, <3>1, NoneOutstanding DEF Idle
  <2>3. v \in RequestT /\ v.cb = "send_delete_accessspec_cb"
    BY <1>02, Typed DEF Request, RequestT
  <2>4. m \in MessageT BY <1>01, Typed DEF Waited
  <2>5. /\ c \in HandlerT /\ c.state = "SENT_DELETE_ACCESSSPEC"
        /\ c.pending = Put(client.pending, n, v) /\ c.out = Append(<< >>, m)
    <3>1. c = send_request(Begin, n, All, "send_delete_accessspec_cb", "SENT_DELETE_ACCESSSPEC")
      BY DEF stopPolitely
    <3>2. Begin.pending[n] = NoRequest BY <1>0, <1>01, <2>1 DEF Idle
    <3>3. n \in Requests /\ "send_delete_accessspec_cb" \in Callbacks
          /\ "SENT_DELETE_ACCESSSPEC" \in States /\ All \in AccessT
      BY <1>01, <1>02, Typed
    <3> HIDE DEF c, n, v, m
    <3>. QED BY <1>0, <3>1, <3>2, <3>3, Sending DEF v, m
  <2>6. c.out = << m >> BY <2>5
  <2> HIDE DEF c, v, m
  <2>7. toReader \o c.out = Append(toReader, m) BY <1>0, <2>4, <2>6, Joined
  <2>8. /\ client'.state = "SENT_DELETE_ACCESSSPEC" /\ client'.pending = Put(client.pending, n, v)
        /\ toReader' = Append(toReader, m)
    BY <1>0, <2>1, <2>5, <2>7, EndTyped
  <2>9. OnlyLast(toReader', m) BY <1>0, <2>2, <2>4, <2>8, LastAdded
  <2>10. Only(client'.pending, n, "send_delete_accessspec_cb")
    BY <1>0, <1>01, <2>1, <2>3, <2>8, OnlyPut DEF Idle
  <2>11. NoneLive(toClient') BY <2>1, <2>2
  <2>12. Deleting' BY <2>8, <2>9, <2>10, <2>11 DEF Deleting, m
  <2>. QED BY <2>12
<1>5. CASE Receive
  <2> DEFINE h == Head(toClient)
             c == IF h.live THEN processDeferreds(Begin, h.name, h.ok) ELSE Begin
             d == IF c.raised THEN HangUp(c) ELSE c
  <2>1. /\ Connected /\ toClient # << >> /\ toClient' = Tail(toClient) /\ End(d)
        /\ stopping /\ calm /\ reader' = reader
    BY <1>5 DEF Receive
  <2>2. ASSUME ~ h.live
        PROVE  /\ client'.state = client.state /\ client'.pending = client.pending
               /\ toReader' = toReader
    <3>1. d = Begin BY <1>0, <2>2
    <3>. QED BY <1>0, <2>1, <3>1, SameClient
  <2>3. ASSUME NEW n \in Requests, NEW cb \in Callbacks, h = Accepted(n),
               Only(client.pending, n, cb)
        PROVE  \E b \in HandlerT, v \in RequestT :
                  /\ v.cb = cb /\ c = Completed(b, v, TRUE)
                  /\ b.out = << >> /\ ~ b.raised
                  /\ \A x \in Requests : b.pending[x] = NoRequest
    <3> DEFINE b == Cleared(Begin, n)
               v == Begin.pending[n]
    <3>1. h.live /\ h.name = n /\ h.ok = TRUE BY <2>3 DEF Accepted
    <3>2. n \in Names /\ TRUE \in BOOLEAN BY Typed
    <3>3. Begin.pending[n] # NoRequest /\ v.cb = cb BY <1>0, <2>3 DEF Only
    <3>4. c = processDeferreds(Begin, n, TRUE) BY <3>1
    <3> HIDE DEF h, c
    <3>5. /\ v \in RequestT /\ b \in HandlerT /\ ~ b.raised /\ b.out = << >>
          /\ b.pending = Put(Begin.pending, n, NoRequest) /\ c = Completed(b, v, TRUE)
      BY <1>0, <3>2, <3>3, <3>4, Processed
    <3>6. \A x \in Requests : Put(client.pending, n, NoRequest)[x] = NoRequest
      BY <1>0, <2>3 DEF Put, Only, Pendings
    <3> HIDE DEF b, v
    <3>. QED BY <1>0, <3>3, <3>5, <3>6
  <2>4. CASE Deleting
    <3>1. ~ h.live /\ NoneLive(Tail(toClient)) BY <1>0, <2>1, <2>4, NoneTaken DEF Deleting
    <3>2. Deleting' BY <2>1, <2>2, <2>4, <3>1 DEF Deleting
    <3>. QED BY <3>2
  <2>5. CASE Deleted
    <3> DEFINE a == Accepted("DELETE_ACCESSSPEC")
    <3>1. OnlyLast(toClient, a) BY <2>5 DEF Deleted
    <3>2. (h = a /\ Tail(toClient) = << >>) \/ (~ h.live /\ OnlyLast(Tail(toClient), a))
      <4> HIDE DEF a
      <4>. QED BY <1>0, <3>1, LastTaken
    <3>3. CASE ~ h.live /\ OnlyLast(Tail(toClient), a)
      <4>1. Deleted' BY <2>1, <2>2, <2>5, <3>3 DEF Deleted, NoSpecs
      <4>. QED BY <4>1
    <3>4. CASE h = a /\ Tail(toClient) = << >>
      <4>1. PICK b \in HandlerT, v \in RequestT :
               /\ v.cb = "send_delete_accessspec_cb" /\ c = Completed(b, v, TRUE)
               /\ b.out = << >> /\ ~ b.raised
               /\ \A x \in Requests : b.pending[x] = NoRequest
        <5>1. Only(client.pending, "DELETE_ACCESSSPEC", "send_delete_accessspec_cb")
          BY <2>5 DEF Deleted
        <5> HIDE DEF h, c
        <5>. QED BY <1>01, <1>02, <2>3, <3>4, <5>1
      <4> HIDE DEF h, c
      <4> DEFINE n == "DELETE_ROSPEC"
                 w == Request("stop_all_rospecs_cb", All)
                 m == Waited(n, All)
      <4>2. c = send_request(b, n, All, "stop_all_rospecs_cb", "SENT_DELETE_ROSPEC")
        BY <4>1 DEF Completed, send_delete_accessspec_cb, stopAllROSpecs
      <4>3. n \in Requests /\ "stop_all_rospecs_cb" \in Callbacks
            /\ "SENT_DELETE_ROSPEC" \in States /\ All \in AccessT
        BY <1>01, <1>02, Typed
      <4>4. w \in RequestT /\ w.cb = "stop_all_rospecs_cb" BY <4>3 DEF Request, RequestT
      <4> HIDE DEF n, w, m
      <4>5. /\ c \in HandlerT /\ c.state = "SENT_DELETE_ROSPEC" /\ ~ c.raised
            /\ c.pending = Put(b.pending, n, w) /\ c.out = Append(<< >>, m)
        <5>1. b.pending[n] = NoRequest /\ ~ b.raised /\ b.out = << >> BY <4>1, <4>3
        <5>2. LET e == send_request(b, n, All, "stop_all_rospecs_cb", "SENT_DELETE_ROSPEC")
              IN  /\ e \in HandlerT /\ e.state = "SENT_DELETE_ROSPEC" /\ e.raised = b.raised
                  /\ e.pending = Put(b.pending, n, w) /\ e.out = Append(b.out, m)
          BY <4>3, <5>1, Sending DEF w, m
        <5>. QED BY <4>2, <5>1, <5>2
      <4>6. c.out = << m >> BY <4>5
      <4>7. d = c BY <4>5
      <4>8. b.pending \in Pendings BY DEF HandlerT
      <4>9. Only(c.pending, n, "stop_all_rospecs_cb") BY <4>1, <4>3, <4>4, <4>5, <4>8, OnlyPut
      <4>10. toReader = << >> BY <2>5 DEF Deleted
      <4>11. toReader \o c.out = << m >> BY <4>6, <4>10
      <4>12. /\ client'.state = "SENT_DELETE_ROSPEC" /\ client'.pending = c.pending
             /\ toReader' = << m >>
        <5>1. End(c) BY <2>1, <4>7
        <5>. QED BY <1>0, <4>5, <4>11, <5>1, EndTyped
      <4>13. NoSpecs' BY <2>1, <2>5 DEF Deleted, NoSpecs
      <4>14. Stopping' BY <2>1, <3>4, <4>9, <4>12, <4>13 DEF Stopping, n, m
      <4>. QED BY <4>14
    <3>. QED BY <3>2, <3>3, <3>4
  <2>6. CASE Stopping BY <2>1, <2>6 DEF Stopping
  <2>7. CASE Stopped
    <3>1. h = Accepted("DELETE_ROSPEC") /\ Tail(toClient) = << >> BY <2>7 DEF Stopped
    <3>2. PICK b \in HandlerT, v \in RequestT :
             /\ v.cb = "stop_all_rospecs_cb" /\ c = Completed(b, v, TRUE)
             /\ b.out = << >> /\ ~ b.raised
             /\ \A x \in Requests : b.pending[x] = NoRequest
      <4>1. Only(client.pending, "DELETE_ROSPEC", "stop_all_rospecs_cb")
        BY <2>7 DEF Stopped
      <4> HIDE DEF h, c
      <4>. QED BY <1>01, <1>02, <2>3, <3>1, <4>1
    <3> HIDE DEF h, c
    <3>3. c = HangUp(b) BY <3>2 DEF Completed
    <3>4. c \in HandlerT /\ c.state = "DISCONNECTED" /\ c.out = << >> BY <3>2, <3>3, HungUp
    <3>5. d \in HandlerT /\ d.state = "DISCONNECTED" /\ d.out = << >> BY <3>4, HungUp
    <3> HIDE DEF d
    <3>6. toReader \o << >> = << >> BY <1>0, <2>7, Joined DEF Stopped
    <3>7. client'.state = "DISCONNECTED" /\ toReader' = << >> BY <1>0, <2>1, <3>5, <3>6, EndTyped
    <3>8. Closed' BY <2>1, <2>7, <3>7 DEF Stopped, Closed, NoSpecs
    <3>. QED BY <3>8
  <2>8. CASE Closed BY <2>1, <2>8 DEF Closed, Connected
  <2>. QED BY <1>03, <2>1, <2>4, <2>5, <2>6, <2>7, <2>8
<1>6. ASSUME NEW name \in Requests, RequestTimeout(name) PROVE FALSE
  BY <1>6 DEF RequestTimeout
<1>7. CASE ReaderHandles
  <2> DEFINE h == Head(toReader)
             ok == Acceptable(h)
  <2>1. /\ toReader # << >> /\ toReader' = Tail(toReader)
        /\ reader' = IF ok THEN Obey(h) ELSE reader
        /\ toClient' = IF Connected THEN Append(toClient, Answer(h, ok)) ELSE toClient
        /\ client' = client /\ stopping /\ calm
    BY <1>7 DEF ReaderHandles
  <2>2. CASE Deleting
    <3> DEFINE m == Waited("DELETE_ACCESSSPEC", All)
    <3>1. OnlyLast(toReader, m) /\ Connected /\ NoneLive(toClient)
      BY <2>2 DEF Deleting, Connected
    <3>2. (h = m /\ Tail(toReader) = << >>) \/ (~ h.live /\ OnlyLast(Tail(toReader), m))
      <4> HIDE DEF m
      <4>. QED BY <1>0, <3>1, LastTaken
    <3>3. ok \in BOOLEAN
      <4>1. h \in MessageT BY <1>0, <2>1, RejectedTyped
      <4>. QED BY <4>1 DEF Acceptable, MessageT, Names, Requests
    <3>4. Answer(h, ok) \in AnswerT BY <1>0, <2>1, <3>3, RejectedTyped
    <3>5. OnlyLast(toClient', Answer(h, ok)) /\ (~ Answer(h, ok).live => NoneLive(toClient'))
      <4> DEFINE a == Answer(h, ok)
      <4>1. toClient' = Append(toClient, a) BY <2>1, <3>1
      <4> HIDE DEF a
      <4>2. a \in AnswerT BY <3>4 DEF a
      <4>3. OnlyLast(toClient', a) /\ (~ a.live => NoneLive(toClient'))
        BY <1>0, <3>1, <4>1, <4>2, LastAdded
      <4>. QED BY <4>3 DEF a
    <3>6. CASE ~ h.live /\ OnlyLast(Tail(toReader), m)
      <4>1. ~ Answer(h, ok).live BY <3>6 DEF Answer
      <4>2. Deleting' BY <2>1, <2>2, <3>5, <3>6, <4>1 DEF Deleting
      <4>. QED BY <4>2
    <3>7. CASE h = m /\ Tail(toReader) = << >>
      <4>1. /\ h.name = "DELETE_ACCESSSPEC" /\ h.live = TRUE /\ h.access.id = 0
        BY <3>7, WaitedFields
      <4>2. ok = TRUE BY <4>1, AccessAssumption DEF Acceptable
      <4>3. Answer(h, ok) = Accepted("DELETE_ACCESSSPEC") BY <4>1, <4>2 DEF Answer, Accepted
      <4>4. reader' = [reader EXCEPT !.specs = [i \in Ids |-> Absent]]
        BY <2>1, <4>1, <4>2 DEF Obey
      <4>5. NoSpecs' BY <1>0, <4>4 DEF NoSpecs
      <4>6. Deleted' BY <2>1, <2>2, <3>5, <3>7, <4>3, <4>5 DEF Deleting, Deleted
      <4>. QED BY <4>6
    <3>. QED BY <3>2, <3>6, <3>7
  <2>3. CASE Deleted BY <2>1, <2>3 DEF Deleted
  <2>4. CASE Stopping
    <3>1. h = Waited("DELETE_ROSPEC", All) /\ Tail(toReader) = << >> /\ Connected /\ toClient = << >>
      BY <2>4 DEF Stopping, Connected
    <3>2. h.name = "DELETE_ROSPEC" /\ h.live = TRUE BY <3>1, WaitedFields
    <3>3. ok = TRUE BY <3>2 DEF Acceptable
    <3>4. Answer(h, ok) = Accepted("DELETE_ROSPEC") BY <3>2, <3>3 DEF Answer, Accepted
    <3>5. reader' = [reader EXCEPT !.rospec = FALSE] BY <2>1, <3>2, <3>3 DEF Obey
    <3>6. NoSpecs' /\ ~ reader'.rospec BY <1>0, <2>4, <3>5 DEF Stopping, NoSpecs
    <3>7. toClient' = << Accepted("DELETE_ROSPEC") >> BY <2>1, <3>1, <3>4
    <3>8. Stopped' BY <2>1, <2>4, <3>1, <3>6, <3>7 DEF Stopping, Stopped
    <3>. QED BY <3>8
  <2>5. CASE Stopped BY <2>1, <2>5 DEF Stopped
  <2>6. CASE Closed BY <2>1, <2>6 DEF Closed
  <2>. QED BY <1>03, <2>1, <2>2, <2>3, <2>4, <2>5, <2>6
<1>8. CASE ReaderRejects BY <1>8 DEF ReaderRejects
<1>9. ASSUME UNCHANGED <<client, toReader, toClient, stopping, calm>>,
             NoSpecs => NoSpecs', reader'.rospec = reader.rospec
      PROVE  (Deleting \/ Deleted \/ Stopping \/ Stopped \/ Closed)'
  <2>1. stopping /\ calm BY <1>9
  <2>2. CASE Deleting
    <3>1. Deleting' BY <1>9, <2>2 DEF Deleting
    <3>. QED BY <3>1
  <2>3. CASE Deleted
    <3>1. Deleted' BY <1>9, <2>3 DEF Deleted
    <3>. QED BY <3>1
  <2>4. CASE Stopping
    <3>1. Stopping' BY <1>9, <2>4 DEF Stopping
    <3>. QED BY <3>1
  <2>5. CASE Stopped
    <3>1. Stopped' BY <1>9, <2>5 DEF Stopped
    <3>. QED BY <3>1
  <2>6. CASE Closed
    <3>1. Closed' BY <1>9, <2>6 DEF Closed
    <3>. QED BY <3>1
  <2>. QED BY <1>03, <2>1, <2>2, <2>3, <2>4, <2>5, <2>6
<1>10. ASSUME NEW id \in Ids, CountReached(id)
       PROVE  (Deleting \/ Deleted \/ Stopping \/ Stopped \/ Closed)'
  <2>1. reader' = [reader EXCEPT !.specs[id] = Absent]
        /\ UNCHANGED <<client, toReader, toClient, stopping, calm>>
    BY <1>10 DEF CountReached
  <2>2. (NoSpecs => NoSpecs') /\ reader'.rospec = reader.rospec BY <1>0, <2>1 DEF NoSpecs
  <2>. QED BY <1>9, <2>1, <2>2
<1>11. CASE UNCHANGED vars
  <2>1. (NoSpecs => NoSpecs') /\ reader'.rospec = reader.rospec BY <1>11 DEF vars, NoSpecs
  <2>. QED BY <1>9, <1>11, <2>1 DEF vars
<1>. QED BY <1>1, <1>2, <1>3, <1>4, <1>5, <1>6, <1>7, <1>8, <1>10, <1>11 DEF Next

-----------------------------------------------------------------------------
(* The theorems.                                                            *)

LEMMA InitInv == Init => IInv
<1> SUFFICES ASSUME Init PROVE IInv OBVIOUS
<1>1. << >> \in Seq(MessageT) /\ << >> \in Seq(AnswerT) /\ Len(<< >>) = 0 OBVIOUS
<1>2. /\ client.state = "INVENTORYING" /\ client.pending = [n \in Requests |-> NoRequest]
      /\ toReader = << >> /\ toClient = << >> /\ ~stopping
  BY DEF Init
<1>3. TypeOK
  <2>1. client.pending \in Pendings BY <1>2 DEF Pendings
  <2>2. client \in [state : States, pending : Pendings] BY <2>1, Typed DEF Init
  <2>3. reader \in [specs : [Ids -> SpecT], rospec : BOOLEAN] /\ want \in [Ids -> SpecT]
    BY Typed DEF Init
  <2>. QED BY <1>1, <2>2, <2>3 DEF Init, TypeOK
<1>4. SessionSurvives BY <1>2 DEF SessionSurvives
<1>5. Chaining(toClient, toReader, client, sound)
  <2>1. Places(toClient, toReader) = {}
    <3>1. Len(toClient) = 0 /\ Len(toReader) = 0 BY <1>1, <1>2
    <3>. QED BY <3>1 DEF Places
  <2>2. Tracked(toClient, toReader, client.pending) BY <1>2, <2>1 DEF Tracked
  <2>3. Wired(toClient, toReader) BY <2>1 DEF Wired
  <2>4. ChainCallbacks(client.pending) /\ ChainsSound(client.pending)
    BY <1>2 DEF ChainCallbacks, ChainsSound, Requests
  <2>. QED BY <1>2, <2>2, <2>3, <2>4 DEF Chaining
<1>6. ChainInv BY <1>5 DEF ChainInv
<1>7. StopInv BY <1>2 DEF StopInv
<1>. QED BY <1>3, <1>4, <1>6, <1>7 DEF IInv

(* TypeCorrect: the state has its types, however the application behaves.   *)
THEOREM TypeCorrect == Spec => []TypeOK
<1>1. Init => TypeOK BY InitInv DEF IInv
<1>. QED BY <1>1, TypeStep, PTL DEF Spec

(* Invariant: the inductive invariant, for an application that keeps to     *)
(* Opportune.                                                               *)
THEOREM Invariant ==
    ASSUME ~ AnyTime
    PROVE  Spec => []IInv
<1>1. IInv /\ [Next]_vars => IInv' BY TypeStep, ChainStep, StopStep DEF IInv
<1>. QED BY <1>1, InitInv, PTL DEF Spec

(* Survives: chains of requests, however many overlap, never end a session: *)
(* a callback that sends the next request finds its name free, because the  *)
(* reader answers in order.  Only disconnect() and an operation that        *)
(* startAccess does not accept end it.                                      *)
THEOREM Survives ==
    ASSUME ~ AnyTime
    PROVE  Spec => []SessionSurvives
<1>1. IInv => SessionSurvives BY DEF IInv
<1>. QED BY <1>1, Invariant, PTL

(* StopsPolitely: disconnect() leaves neither AccessSpecs nor ROSpecs at a  *)
(* reader that accepted its requests.                                       *)
THEOREM StopsPolitely ==
    ASSUME ~ AnyTime
    PROVE  Spec => []StopLeavesNothing
<1>1. IInv => StopLeavesNothing
  BY DEF IInv, StopInv, StopLeavesNothing, Deleting, Deleted, Stopping, Stopped, Closed, NoSpecs
<1>. QED BY <1>1, Invariant, PTL

----------------------------------------------------------------------------
(* The last access in force. That the reader ends up with what was asked    *)
(* for last, however the chains of nextAccess overlap, needs the history of *)
(* each chain: which request it waits for, what the messages still on their *)
(* way will do, and what the application has asked for since (Lasting).     *)

(* What an application asks for, as the reader will keep it, before it is   *)
(* enabled and after.                                                       *)
SpecOf(access) == [op |-> access.op, counted |-> access.stop > 0, enabled |-> TRUE]
Off(spec)      == [op |-> spec.op, counted |-> spec.counted, enabled |-> FALSE]

Real(spec)     == spec.enabled = TRUE /\ spec.op # ""

Waiting(p, n, id) == p[n] # NoRequest /\ p[n].access.id = id
DeletedBy(q, id, k) == \E j \in 1 .. k : q[j].name = "DELETE_ACCESSSPEC" /\ q[j].access.id = id
Without(q, id, i) == \A j \in i + 1 .. Len(q) : q[j].access.id # id

(* Every message is about an identifier, and a live one is the request its  *)
(* client waits for.                                                        *)
Matched(q, p) ==
    /\ \A i \in 1 .. Len(q) :
          /\ q[i].access.id \in Ids
          /\ q[i].live => q[i].access = p[q[i].name].access
          /\ q[i].name \in {"ADD_ACCESSSPEC", "DISABLE_ACCESSSPEC"} => q[i].live
    /\ \A n \in Requests : p[n] # NoRequest => p[n].access.id \in Ids

(* An AccessSpec is added where there is none by then. *)
Vacant(q, specs) ==
    \A i \in 1 .. Len(q) :
        q[i].name = "ADD_ACCESSSPEC" =>
            specs[q[i].access.id] = Absent \/ DeletedBy(q, q[i].access.id, i - 1)

(* A chain told that its AccessSpec is deleted finds it still so. *)
Emptied(r, q, p, specs) ==
    \A i \in 1 .. Len(r) :
        r[i].live /\ r[i].name = "DELETE_ACCESSSPEC" =>
            /\ specs[p["DELETE_ACCESSSPEC"].access.id] = Absent
            /\ \A j \in 1 .. Len(q) : q[j].name # "ADD_ACCESSSPEC"

Added(r) == \A i \in 1 .. Len(r) : r[i].live /\ r[i].name = "ADD_ACCESSSPEC" => r[i].ok

(* The last request for an identifier is its ADD: nothing comes after it.   *)
Adding(q, specs, wish, id) ==
    \/ \E i \in 1 .. Len(q) : q[i].name = "ADD_ACCESSSPEC" /\ q[i].access.id = id /\ Without(q, id, i)
    \/ specs[id] = Off(wish) /\ Without(q, id, 0)

(* No request for an identifier is outstanding: what is on its way brings   *)
(* about what was asked for.                                                *)
Landing(q, specs, wish, id) ==
    \/ wish = Absent /\ (specs[id] = Absent \/ DeletedBy(q, id, Len(q)))
    \/ /\ Real(wish)
       /\ \A i \in 1 .. Len(q) : q[i].access.id = id => q[i].name = "ENABLE_ACCESSSPEC"
       /\ \/ specs[id] = wish
          \/ wish.counted /\ specs[id] = Absent
          \/ /\ specs[id] = Off(wish)
             /\ \E i \in 1 .. Len(q) : q[i].access.id = id

(* The request asked for last is the one in the earliest phase. *)
Underway(q, p, specs, wish, id) ==
    /\ Waiting(p, "DISABLE_ACCESSSPEC", id) => wish = SpecOf(p["DISABLE_ACCESSSPEC"].access)
    /\ ~ Waiting(p, "DISABLE_ACCESSSPEC", id) =>
          /\ Waiting(p, "DELETE_ACCESSSPEC", id) => wish = SpecOf(p["DELETE_ACCESSSPEC"].access)
          /\ ~ Waiting(p, "DELETE_ACCESSSPEC", id) =>
                /\ Waiting(p, "ADD_ACCESSSPEC", id) =>
                      /\ wish = SpecOf(p["ADD_ACCESSSPEC"].access) /\ Real(wish)
                      /\ Adding(q, specs, wish, id)
                /\ ~ Waiting(p, "ADD_ACCESSSPEC", id) => Landing(q, specs, wish, id)

Lasting(r, q, p, specs, wanted) ==
    /\ Matched(q, p) /\ Vacant(q, specs) /\ Emptied(r, q, p, specs) /\ Added(r)
    /\ \A id \in Ids : Underway(q, p, specs, wanted[id], id)

LastInv ==
    Connected /\ ~stopping /\ calm =>
        Lasting(toClient, toReader, client.pending, reader.specs, want)

-----------------------------------------------------------------------------
(* Lemmas about the invariant.                                              *)

(* LiveOutstanding: what is live on the wire is outstanding, once.          *)
LEMMA LiveOutstanding ==
    ASSUME NEW r \in Seq(AnswerT), NEW q \in Seq(MessageT), NEW p, Tracked(r, q, p)
    PROVE  /\ \A i \in 1 .. Len(r) : r[i].live => r[i].name \in Requests /\ p[r[i].name] # NoRequest
           /\ \A i \in 1 .. Len(q) : q[i].live => q[i].name \in Requests /\ p[q[i].name] # NoRequest
           /\ \A i \in 1 .. Len(r), j \in 1 .. Len(q) :
                 r[i].live /\ q[j].live => r[i].name # q[j].name
           /\ \A i, j \in 1 .. Len(q) : q[i].live /\ q[j].live /\ q[i].name = q[j].name => i = j
<1>1. /\ Len(r) \in Nat /\ \A i \in 1 .. Len(r) : r[i].name \in Names
      /\ Len(q) \in Nat /\ \A i \in 1 .. Len(q) : q[i].name \in Names
  <2>0. /\ Len(r) \in Nat /\ \A i \in 1 .. Len(r) : r[i] \in AnswerT
        /\ Len(q) \in Nat /\ \A i \in 1 .. Len(q) : q[i] \in MessageT
    OBVIOUS
  <2>1. \A x \in AnswerT : x.name \in Names BY DEF AnswerT
  <2>2. \A x \in MessageT : x.name \in Names BY DEF MessageT
  <2>. QED BY <2>0, <2>1, <2>2
<1>2. ASSUME NEW i \in 1 .. Len(r), r[i].live
      PROVE  i \in Places(r, q) /\ LiveAt(r, q, i, r[i].name)
  BY <1>1, <1>2 DEF Places, LiveAt
<1>3. ASSUME NEW j \in 1 .. Len(q), q[j].live
      PROVE  Len(r) + j \in Places(r, q) /\ LiveAt(r, q, Len(r) + j, q[j].name)
  <2>1. Len(r) + j \in Places(r, q) /\ ~ (Len(r) + j <= Len(r)) /\ (Len(r) + j) - Len(r) = j
    BY <1>1 DEF Places
  <2>. QED BY <1>3, <2>1 DEF LiveAt
<1>4. \A i \in 1 .. Len(r) : r[i].live => r[i].name \in Requests /\ p[r[i].name] # NoRequest
  BY <1>1, <1>2 DEF Tracked
<1>5. \A i \in 1 .. Len(q) : q[i].live => q[i].name \in Requests /\ p[q[i].name] # NoRequest
  BY <1>1, <1>3 DEF Tracked
<1>6. ASSUME NEW i \in 1 .. Len(r), NEW j \in 1 .. Len(q), r[i].live, q[j].live,
             r[i].name = q[j].name
      PROVE  FALSE
  <2>1. i = Len(r) + j BY <1>1, <1>2, <1>3, <1>6 DEF Tracked
  <2>. QED BY <1>1, <2>1
<1>7. ASSUME NEW i \in 1 .. Len(q), NEW j \in 1 .. Len(q), q[i].live, q[j].live,
             q[i].name = q[j].name
      PROVE  i = j
  <2>1. Len(r) + i = Len(r) + j BY <1>1, <1>3, <1>7 DEF Tracked
  <2>. QED BY <1>1, <2>1
<1>. QED BY <1>4, <1>5, <1>6, <1>7

(* AddedFirst: when a DELETE has been answered no ADD is under way, nor when *)
(* it comes next.                                                           *)
LEMMA AddedFirst ==
    ASSUME NEW r \in Seq(AnswerT), NEW q \in Seq(MessageT), NEW p, Tracked(r, q, p), Wired(r, q),
           Matched(q, p)
    PROVE  /\ \A i \in 1 .. Len(r), j \in 1 .. Len(q) :
                 r[i].live /\ r[i].name = "DELETE_ACCESSSPEC" => q[j].name # "ADD_ACCESSSPEC"
           /\ \A i, j \in 1 .. Len(q) :
                 q[i].live /\ q[i].name = "DELETE_ACCESSSPEC" /\ q[j].name = "ADD_ACCESSSPEC" => j < i
<1>1. Len(r) \in Nat /\ Len(q) \in Nat OBVIOUS
<1>2. ASSUME NEW i \in 1 .. Len(r), r[i].live
      PROVE  i \in Places(r, q) /\ LiveAt(r, q, i, r[i].name)
  BY <1>1, <1>2 DEF Places, LiveAt
<1>3. ASSUME NEW j \in 1 .. Len(q), q[j].live
      PROVE  Len(r) + j \in Places(r, q) /\ LiveAt(r, q, Len(r) + j, q[j].name)
  <2>1. Len(r) + j \in Places(r, q) /\ ~ (Len(r) + j <= Len(r)) /\ (Len(r) + j) - Len(r) = j
    BY <1>1 DEF Places
  <2>. QED BY <1>3, <2>1 DEF LiveAt
<1>4. \A j \in 1 .. Len(q) : q[j].name = "ADD_ACCESSSPEC" => q[j].live BY DEF Matched
<1>5. ASSUME NEW i \in 1 .. Len(r), NEW j \in 1 .. Len(q),
             r[i].live, r[i].name = "DELETE_ACCESSSPEC", q[j].name = "ADD_ACCESSSPEC"
      PROVE  FALSE
  <2>1. Len(r) + j < i BY <1>2, <1>3, <1>4, <1>5 DEF Wired
  <2>. QED BY <1>1, <2>1
<1>6. ASSUME NEW i \in 1 .. Len(q), NEW j \in 1 .. Len(q),
             q[i].live, q[i].name = "DELETE_ACCESSSPEC", q[j].name = "ADD_ACCESSSPEC"
      PROVE  j < i
  <2>1. Len(r) + j < Len(r) + i BY <1>3, <1>4, <1>6 DEF Wired
  <2>. QED BY <1>1, <2>1
<1>. QED BY <1>5, <1>6

(* Sent: a message sent comes last.                                         *)
LEMMA Sent ==
    ASSUME NEW q \in Seq(MessageT), NEW m \in MessageT
    PROVE  /\ Len(q) \in Nat /\ Len(Append(q, m)) = Len(q) + 1
           /\ \A i \in 1 .. Len(q) : Append(q, m)[i] = q[i] /\ i \in 1 .. Len(q) + 1 /\ i # Len(q) + 1
           /\ Append(q, m)[Len(q) + 1] = m /\ Len(q) + 1 \in 1 .. Len(q) + 1
           /\ \A i \in 1 .. Len(q) + 1 : i \in 1 .. Len(q) \/ i = Len(q) + 1
           /\ \A id : \A k \in 0 .. Len(q) : DeletedBy(Append(q, m), id, k) <=> DeletedBy(q, id, k)
<1> DEFINE q2 == Append(q, m)
<1>1. /\ Len(q) \in Nat /\ Len(q2) = Len(q) + 1
      /\ \A i \in 1 .. Len(q) : q2[i] = q[i]
      /\ q2[Len(q) + 1] = m
  OBVIOUS
<1> HIDE DEF q2
<1>2. \A k \in 0 .. Len(q) : \A j \in 1 .. k : j \in 1 .. Len(q) BY <1>1
<1>3. \A id : \A k \in 0 .. Len(q) : DeletedBy(q2, id, k) <=> DeletedBy(q, id, k)
  BY <1>1, <1>2 DEF DeletedBy
<1>4. \A i \in 1 .. Len(q) : i \in 1 .. Len(q) + 1 /\ i # Len(q) + 1 BY <1>1
<1>5. Len(q) + 1 \in 1 .. Len(q) + 1 /\ \A i \in 1 .. Len(q) + 1 : i \in 1 .. Len(q) \/ i = Len(q) + 1
  BY <1>1
<1>. QED BY <1>1, <1>3, <1>4, <1>5 DEF q2

(* Elsewhere: a message about one identifier changes nothing for another.    *)
LEMMA Elsewhere ==
    ASSUME NEW q \in Seq(MessageT), NEW m \in MessageT, NEW p, NEW p2, NEW specs, NEW wish, NEW id,
           m.access.id # id,
           \A n \in Requests : p2[n] = p[n] \/ (~ Waiting(p, n, id) /\ ~ Waiting(p2, n, id)),
           Underway(q, p, specs, wish, id)
    PROVE  Underway(Append(q, m), p2, specs, wish, id)
<1> DEFINE q2 == Append(q, m)
<1>1. /\ Len(q) \in Nat /\ Len(q2) = Len(q) + 1
      /\ \A i \in 1 .. Len(q) : q2[i] = q[i] /\ i \in 1 .. Len(q) + 1 /\ i # Len(q) + 1
      /\ q2[Len(q) + 1] = m
      /\ \A i \in 1 .. Len(q) + 1 : i \in 1 .. Len(q) \/ i = Len(q) + 1
      /\ DeletedBy(q2, id, Len(q)) <=> DeletedBy(q, id, Len(q))
  BY Sent
<1> HIDE DEF q2
<1>2. \A n \in Requests : /\ Waiting(p2, n, id) <=> Waiting(p, n, id)
                          /\ Waiting(p, n, id) => p2[n] = p[n]
  BY DEF Waiting
<1>3. {"ADD_ACCESSSPEC", "DISABLE_ACCESSSPEC", "DELETE_ACCESSSPEC"} \subseteq Requests BY DEF Requests
<1>4. \A i \in 0 .. Len(q) : Without(q, id, i) => Without(q2, id, i)
  <2> SUFFICES ASSUME NEW i \in 0 .. Len(q), Without(q, id, i), NEW j \in i + 1 .. Len(q) + 1
               PROVE  q2[j].access.id # id
    BY <1>1 DEF Without
  <2>1. (j \in i + 1 .. Len(q) /\ j \in 1 .. Len(q)) \/ j = Len(q) + 1 BY <1>1
  <2>. QED BY <1>1, <2>1 DEF Without
<1>5. Adding(q, specs, wish, id) => Adding(q2, specs, wish, id)
  <2>1. ASSUME NEW i \in 1 .. Len(q), q[i].name = "ADD_ACCESSSPEC", q[i].access.id = id,
               Without(q, id, i)
        PROVE  Adding(q2, specs, wish, id)
    <3>1. i \in 0 .. Len(q) BY <1>1
    <3>. QED BY <1>1, <1>4, <2>1, <3>1 DEF Adding
  <2>2. 0 \in 0 .. Len(q) BY <1>1
  <2>. QED BY <1>4, <2>1, <2>2 DEF Adding
<1>6. Landing(q, specs, wish, id) => Landing(q2, specs, wish, id)
  <2>1. DeletedBy(q2, id, Len(q)) => DeletedBy(q2, id, Len(q2)) BY <1>1 DEF DeletedBy
  <2>. QED BY <1>1, <2>1 DEF Landing
<1>. QED BY <1>2, <1>3, <1>5, <1>6 DEF Underway, q2

(* What sending a message m must leave right: the registered requests go     *)
(* from p to p2, the answers under way from r to r2, and what is wanted from *)
(* w to w2.                                                                 *)
Concerns(p, p2, id) ==
    \A n \in Requests :
        \/ p2[n] = p[n]
        \/ /\ p[n] # NoRequest => p[n].access.id = id
           /\ p2[n] # NoRequest => p2[n].access.id = id
Fits(r, r2, q, m, p, p2, specs) ==
    /\ \A i \in 1 .. Len(r2) : \E j \in 1 .. Len(r) : r2[i] = r[j]
    /\ m.access.id \in Ids
    /\ m.live => m.access = p2[m.name].access
    /\ m.name \in {"ADD_ACCESSSPEC", "DISABLE_ACCESSSPEC"} => m.live
    /\ Concerns(p, p2, m.access.id)
    /\ \A j \in 1 .. Len(q) : q[j].live => p2[q[j].name] = p[q[j].name]
    /\ \A i \in 1 .. Len(r2) : r2[i].live /\ r2[i].name = "DELETE_ACCESSSPEC" =>
           p2["DELETE_ACCESSSPEC"] = p["DELETE_ACCESSSPEC"] /\ m.name # "ADD_ACCESSSPEC"
    /\ m.name = "ADD_ACCESSSPEC" =>
           specs[m.access.id] = Absent \/ DeletedBy(q, m.access.id, Len(q))

(* SentLasts: sending a message about an identifier keeps the invariant when *)
(* it is right about that identifier.                                       *)
LEMMA SentLasts ==
    ASSUME NEW r \in Seq(AnswerT), NEW q \in Seq(MessageT), NEW m \in MessageT, NEW p, NEW p2,
           NEW r2 \in Seq(AnswerT), NEW specs, NEW w, NEW w2,
           Lasting(r, q, p, specs, w), Fits(r, r2, q, m, p, p2, specs),
           \A id \in Ids : id # m.access.id => w2[id] = w[id],
           Underway(Append(q, m), p2, specs, w2[m.access.id], m.access.id)
    PROVE  Lasting(r2, Append(q, m), p2, specs, w2)
<1> DEFINE q2 == Append(q, m)
<1>1. /\ Len(q) \in Nat /\ Len(q2) = Len(q) + 1
      /\ \A i \in 1 .. Len(q) : q2[i] = q[i] /\ i \in 1 .. Len(q) + 1 /\ i # Len(q) + 1
      /\ q2[Len(q) + 1] = m
      /\ \A i \in 1 .. Len(q) + 1 : i \in 1 .. Len(q) \/ i = Len(q) + 1
      /\ \A id : \A k \in 0 .. Len(q) : DeletedBy(q2, id, k) <=> DeletedBy(q, id, k)
  BY Sent
<1>2. /\ Matched(q, p) /\ Vacant(q, specs) /\ Emptied(r, q, p, specs) /\ Added(r)
      /\ \A id \in Ids : Underway(q, p, specs, w[id], id)
  BY DEF Lasting
<1>3. ASSUME NEW id \in Ids PROVE Underway(q2, p2, specs, w2[id], id)
  <2>1. CASE id = m.access.id BY <2>1
  <2>2. CASE id # m.access.id
    <3>1. \A n \in Requests : p2[n] = p[n] \/ (~ Waiting(p, n, id) /\ ~ Waiting(p2, n, id))
      BY <2>2 DEF Waiting, Fits, Concerns
    <3>2. Underway(q, p, specs, w[id], id) /\ w2[id] = w[id] BY <1>2, <2>2
    <3> HIDE DEF Underway
    <3>. QED BY <2>2, <3>1, <3>2, Elsewhere
  <2>. QED BY <2>1, <2>2
<1> HIDE DEF q2
<1>4. Matched(q2, p2)
  <2>1. ASSUME NEW i \in 1 .. Len(q) + 1
        PROVE  /\ q2[i].access.id \in Ids
               /\ q2[i].live => q2[i].access = p2[q2[i].name].access
               /\ q2[i].name \in {"ADD_ACCESSSPEC", "DISABLE_ACCESSSPEC"} => q2[i].live
    <3>1. CASE i = Len(q) + 1 BY <1>1, <3>1 DEF Fits
    <3>2. CASE i \in 1 .. Len(q) BY <1>1, <1>2, <3>2 DEF Matched, Fits
    <3>. QED BY <1>1, <3>1, <3>2
  <2>2. ASSUME NEW n \in Requests, p2[n] # NoRequest PROVE p2[n].access.id \in Ids
    BY <1>2, <2>2 DEF Matched, Fits, Concerns
  <2>. QED BY <1>1, <2>1, <2>2 DEF Matched
<1>5. Vacant(q2, specs)
  <2> SUFFICES ASSUME NEW i \in 1 .. Len(q) + 1, q2[i].name = "ADD_ACCESSSPEC"
               PROVE  specs[q2[i].access.id] = Absent \/ DeletedBy(q2, q2[i].access.id, i - 1)
    BY <1>1 DEF Vacant
  <2>1. i - 1 \in 0 .. Len(q) BY <1>1
  <2>2. CASE i = Len(q) + 1
    <3>1. i - 1 = Len(q) BY <1>1, <2>2
    <3>. QED BY <1>1, <2>1, <2>2, <3>1 DEF Fits
  <2>3. CASE i \in 1 .. Len(q) BY <1>1, <1>2, <2>1, <2>3 DEF Vacant
  <2>. QED BY <1>1, <2>2, <2>3
<1>6. Emptied(r2, q2, p2, specs)
  <2> SUFFICES ASSUME NEW i \in 1 .. Len(r2), r2[i].live, r2[i].name = "DELETE_ACCESSSPEC"
               PROVE  /\ specs[p2["DELETE_ACCESSSPEC"].access.id] = Absent
                      /\ \A j \in 1 .. Len(q) + 1 : q2[j].name # "ADD_ACCESSSPEC"
    BY <1>1 DEF Emptied
  <2>1. PICK j \in 1 .. Len(r) : r2[i] = r[j] BY DEF Fits
  <2>2. /\ specs[p["DELETE_ACCESSSPEC"].access.id] = Absent
        /\ \A k \in 1 .. Len(q) : q[k].name # "ADD_ACCESSSPEC"
    BY <1>2, <2>1 DEF Emptied
  <2>. QED BY <1>1, <2>2 DEF Fits
<1>7. Added(r2) BY <1>2 DEF Added, Fits
<1>. QED BY <1>3, <1>4, <1>5, <1>6, <1>7 DEF Lasting, q2

(* FewerAnswers: an answer nobody waits for makes no difference.             *)
LEMMA FewerAnswers ==
    ASSUME NEW r \in Seq(AnswerT), NEW q, NEW p, NEW specs, NEW w, Lasting(r, q, p, specs, w),
           r # << >>
    PROVE  Lasting(Tail(r), q, p, specs, w)
<1> DEFINE t == Tail(r)
<1>1. /\ \A i \in 1 .. Len(t) : i + 1 \in 1 .. Len(r) /\ t[i] = r[i + 1]
  <2>1. Len(r) \in Nat \ {0} /\ Len(t) = Len(r) - 1 /\ \A i \in 1 .. Len(t) : t[i] = r[i + 1]
    BY HeadTailProperties, LenProperties
  <2> HIDE DEF t
  <2>. QED BY <2>1
<1> HIDE DEF t
<1>2. Emptied(t, q, p, specs) /\ Added(t) BY <1>1 DEF Lasting, Emptied, Added
<1>. QED BY <1>2 DEF Lasting, t

(* Fields of what is sent and registered. *)
LEMMA SentFields ==
    ASSUME NEW n \in Names, NEW a \in AccessT
    PROVE  /\ Waited(n, a) \in MessageT /\ Waited(n, a).name = n /\ Waited(n, a).access = a
           /\ Waited(n, a).live
           /\ Unwaited(n, a) \in MessageT /\ Unwaited(n, a).name = n /\ Unwaited(n, a).access = a
           /\ ~ Unwaited(n, a).live
           /\ \A cb \in Callbacks : /\ Request(cb, a).access = a /\ Request(cb, a).cb = cb
                                    /\ Request(cb, a) # NoRequest
<1>1. Waited(n, a) \in MessageT /\ Unwaited(n, a) \in MessageT BY Typed DEF Waited, Unwaited
<1>2. \A cb \in Callbacks : Request(cb, a) # NoRequest
  <2>1. \A cb \in Callbacks : Request(cb, a) \in RequestT BY DEF Request, RequestT
  <2>. QED BY <2>1, Typed
<1>. QED BY <1>1, <1>2 DEF Waited, Unwaited, Message, Request

LEMMA ChainNames ==
    /\ {"ADD_ACCESSSPEC", "DISABLE_ACCESSSPEC", "DELETE_ACCESSSPEC"} \subseteq Requests
    /\ {"ADD_ACCESSSPEC", "DISABLE_ACCESSSPEC", "DELETE_ACCESSSPEC", "ENABLE_ACCESSSPEC"} \subseteq Names
    /\ {"add_accessspec_cb", "disable_accessspec_cb", "start_next_accessspec_cb"} \subseteq Callbacks
    /\ "ENABLE_ACCESSSPEC" \notin Requests
    /\ \A n \in Requests : n \in {"ADD_ACCESSSPEC", "DISABLE_ACCESSSPEC", "DELETE_ACCESSSPEC",
                                  "DELETE_ROSPEC"}
BY DEF Requests, Names, Callbacks

LEMMA RealSpecs ==
    /\ \A a \in AccessT : SpecOf(a) \in SpecT /\ (Buildable(a) => Real(SpecOf(a)))
    /\ \A spec \in SpecT : Real(spec) =>
          /\ spec # Absent /\ Off(spec) # Absent /\ Off(spec).enabled = FALSE
          /\ [spec EXCEPT !.enabled = TRUE] = spec
          /\ [Off(spec) EXCEPT !.enabled = TRUE] = spec
    /\ ~ Real(Absent) /\ Absent.enabled = FALSE
<1>1. ASSUME NEW a \in AccessT PROVE SpecOf(a) \in SpecT BY DEF SpecOf, SpecT, AccessT
<1>2. ASSUME NEW a \in AccessT, Buildable(a) PROVE Real(SpecOf(a))
  BY <1>2, AccessAssumption DEF Real, SpecOf, Buildable
<1>3. ASSUME NEW spec \in SpecT, Real(spec)
      PROVE  /\ spec # Absent /\ Off(spec) # Absent /\ Off(spec).enabled = FALSE
             /\ [spec EXCEPT !.enabled = TRUE] = spec
             /\ [Off(spec) EXCEPT !.enabled = TRUE] = spec
  <2>1. /\ spec.op # "" /\ Off(spec).op = spec.op /\ Absent.op = ""
        /\ Off(spec).enabled = FALSE
    BY <1>3 DEF Real, SpecT, Off, Absent
  <2>2. spec # Absent /\ Off(spec) # Absent BY <2>1
  <2>3. [spec EXCEPT !.enabled = TRUE] = spec BY <1>3 DEF Real, SpecT
  <2>4. [Off(spec) EXCEPT !.enabled = TRUE] = spec
    <3> DEFINE off == Off(spec)
               on  == [off EXCEPT !.enabled = TRUE]
    <3>1. /\ off \in SpecT /\ off.op = spec.op /\ off.counted = spec.counted
      BY DEF Off, SpecT
    <3>2. spec.enabled = TRUE BY <1>3 DEF Real
    <3> HIDE DEF off
    <3>3. /\ on \in SpecT /\ on.op = off.op /\ on.counted = off.counted /\ on.enabled = TRUE
      BY <3>1 DEF SpecT
    <3> HIDE DEF on
    <3>4. on = spec BY <3>1, <3>2, <3>3 DEF SpecT
    <3>. QED BY <3>4 DEF on, off
  <2>. QED BY <2>1, <2>2, <2>3, <2>4
<1>4. ~ Real(Absent) /\ Absent.enabled = FALSE
  <2>1. Absent.op = "" /\ Absent.enabled = FALSE BY DEF Absent
  <2>. QED BY <2>1 DEF Real
<1>. QED BY <1>1, <1>2, <1>3, <1>4

(* StartLasts: startAccess on an identifier that is free adds its AccessSpec *)
(* where there is none.                                                     *)
LEMMA StartLasts ==
    ASSUME NEW r \in Seq(AnswerT), NEW q \in Seq(MessageT), NEW p \in Pendings, NEW specs,
           NEW w \in [Ids -> SpecT], Lasting(r, q, p, specs, w), Tracked(r, q, p),
           \A n \in Requests : p[n] = NoRequest,
           NEW a \in AccessT, a.id \in Ids, Buildable(a), w[a.id] = Absent
    PROVE  Lasting(r, Append(q, Waited("ADD_ACCESSSPEC", a)),
                   Put(p, "ADD_ACCESSSPEC", Request("add_accessspec_cb", a)), specs,
                   [w EXCEPT ![a.id] = SpecOf(a)])
<1> DEFINE m  == Waited("ADD_ACCESSSPEC", a)
           v  == Request("add_accessspec_cb", a)
           p2 == Put(p, "ADD_ACCESSSPEC", v)
           w2 == [w EXCEPT ![a.id] = SpecOf(a)]
           q2 == Append(q, m)
<1>1. /\ m \in MessageT /\ m.name = "ADD_ACCESSSPEC" /\ m.access = a /\ m.live
      /\ v.access = a /\ v # NoRequest
  <2>1. "ADD_ACCESSSPEC" \in Names /\ "add_accessspec_cb" \in Callbacks BY ChainNames
  <2>. QED BY <2>1, SentFields
<1> HIDE DEF m, v
<1>2. \A n \in Requests : p2[n] = IF n = "ADD_ACCESSSPEC" THEN v ELSE p[n] BY DEF Put, Pendings
<1>3. \A id \in Ids : w2[id] = IF id = a.id THEN SpecOf(a) ELSE w[id] BY DEF SpecT
<1> HIDE DEF p2, w2
<1>4. /\ \A i \in 1 .. Len(r) : ~ r[i].live
      /\ \A i \in 1 .. Len(q) : ~ q[i].live
  BY LiveOutstanding
<1>5. specs[a.id] = Absent \/ DeletedBy(q, a.id, Len(q))
  <2>1. Underway(q, p, specs, w[a.id], a.id) BY DEF Lasting
  <2>2. Landing(q, specs, w[a.id], a.id) BY <2>1, ChainNames DEF Underway, Waiting
  <2>. QED BY <2>2, RealSpecs DEF Landing
<1>6. Underway(q2, p2, specs, w2[a.id], a.id)
  <2>1. /\ Len(q) \in Nat /\ Len(q2) = Len(q) + 1 /\ q2[Len(q) + 1] = m
        /\ Len(q) + 1 \in 1 .. Len(q) + 1
    BY <1>1, Sent
  <2> HIDE DEF q2
  <2>2. Without(q2, a.id, Len(q) + 1) BY <2>1 DEF Without
  <2>3. Adding(q2, specs, w2[a.id], a.id) BY <1>1, <2>1, <2>2 DEF Adding
  <2>4. ~ Waiting(p2, "DISABLE_ACCESSSPEC", a.id) /\ ~ Waiting(p2, "DELETE_ACCESSSPEC", a.id)
    BY <1>2, ChainNames DEF Waiting
  <2>5. p2["ADD_ACCESSSPEC"] = v BY <1>2, ChainNames
  <2>6. w2[a.id] = SpecOf(p2["ADD_ACCESSSPEC"].access) BY <1>1, <1>3, <2>5
  <2>7. Waiting(p2, "ADD_ACCESSSPEC", a.id) BY <1>1, <2>5 DEF Waiting
  <2>8. Real(w2[a.id]) BY <1>3, RealSpecs
  <2>. QED BY <2>3, <2>4, <2>6, <2>7, <2>8 DEF Underway
<1>7. \A i \in 1 .. Len(r) : \E j \in 1 .. Len(r) : r[i] = r[j] OBVIOUS
<1>8. Concerns(p, p2, m.access.id) BY <1>1, <1>2 DEF Concerns
<1>9. m.live => m.access = p2[m.name].access BY <1>1, <1>2, ChainNames
<1>10. Fits(r, r, q, m, p, p2, specs) BY <1>1, <1>4, <1>5, <1>7, <1>8, <1>9 DEF Fits
<1>11. \A id \in Ids : id # m.access.id => w2[id] = w[id] BY <1>1, <1>3
<1>12. Underway(Append(q, m), p2, specs, w2[m.access.id], m.access.id) BY <1>1, <1>6
<1> HIDE DEF q2
<1>13. Lasting(r, Append(q, m), p2, specs, w2) BY <1>1, <1>10, <1>11, <1>12, SentLasts
<1>. QED BY <1>13 DEF m, v, p2, w2

(* NextLasts: nextAccess starts a chain, and its operation is the last one. *)
LEMMA NextLasts ==
    ASSUME NEW r \in Seq(AnswerT), NEW q \in Seq(MessageT), NEW p \in Pendings, NEW specs,
           NEW w \in [Ids -> SpecT], Lasting(r, q, p, specs, w), Tracked(r, q, p),
           p["DISABLE_ACCESSSPEC"] = NoRequest,
           NEW a \in AccessT, a.id \in Ids
    PROVE  Lasting(r, Append(q, Waited("DISABLE_ACCESSSPEC", a)),
                   Put(p, "DISABLE_ACCESSSPEC", Request("disable_accessspec_cb", a)), specs,
                   [w EXCEPT ![a.id] = SpecOf(a)])
<1> DEFINE m  == Waited("DISABLE_ACCESSSPEC", a)
           v  == Request("disable_accessspec_cb", a)
           p2 == Put(p, "DISABLE_ACCESSSPEC", v)
           w2 == [w EXCEPT ![a.id] = SpecOf(a)]
           q2 == Append(q, m)
<1>1. /\ m \in MessageT /\ m.name = "DISABLE_ACCESSSPEC" /\ m.access = a /\ m.live
      /\ v.access = a /\ v # NoRequest
  <2>1. "DISABLE_ACCESSSPEC" \in Names /\ "disable_accessspec_cb" \in Callbacks BY ChainNames
  <2>. QED BY <2>1, SentFields
<1> HIDE DEF m, v
<1>2. \A n \in Requests : p2[n] = IF n = "DISABLE_ACCESSSPEC" THEN v ELSE p[n] BY DEF Put, Pendings
<1>3. \A id \in Ids : w2[id] = IF id = a.id THEN SpecOf(a) ELSE w[id] BY DEF SpecT
<1> HIDE DEF p2, w2
<1>4. \A i \in 1 .. Len(q) : q[i].live => q[i].name \in Requests /\ q[i].name # "DISABLE_ACCESSSPEC"
  BY LiveOutstanding
<1>5. Waiting(p2, "DISABLE_ACCESSSPEC", a.id) /\ p2["DISABLE_ACCESSSPEC"].access = a
  BY <1>1, <1>2, ChainNames DEF Waiting
<1>6. Underway(q2, p2, specs, w2[a.id], a.id) BY <1>3, <1>5 DEF Underway
<1>7. \A i \in 1 .. Len(r) : \E j \in 1 .. Len(r) : r[i] = r[j] OBVIOUS
<1>8. Concerns(p, p2, m.access.id) BY <1>1, <1>2 DEF Concerns
<1>9. m.live => m.access = p2[m.name].access BY <1>1, <1>5
<1>10. \A j \in 1 .. Len(q) : q[j].live => p2[q[j].name] = p[q[j].name] BY <1>2, <1>4
<1>11. p2["DELETE_ACCESSSPEC"] = p["DELETE_ACCESSSPEC"] BY <1>2, ChainNames
<1>12. Fits(r, r, q, m, p, p2, specs) BY <1>1, <1>7, <1>8, <1>9, <1>10, <1>11 DEF Fits
<1>13. \A id \in Ids : id # m.access.id => w2[id] = w[id] BY <1>1, <1>3
<1>14. Underway(Append(q, m), p2, specs, w2[m.access.id], m.access.id) BY <1>1, <1>6
<1> HIDE DEF q2
<1>15. Lasting(r, Append(q, m), p2, specs, w2) BY <1>1, <1>12, <1>13, <1>14, SentLasts
<1>. QED BY <1>15 DEF m, v, p2, w2

(* DeleteLasts: the untracked delete of an AccessSpec leaves none.          *)
LEMMA DeleteLasts ==
    ASSUME NEW r \in Seq(AnswerT), NEW q \in Seq(MessageT), NEW p \in Pendings, NEW specs,
           NEW w \in [Ids -> SpecT], Lasting(r, q, p, specs, w),
           \A n \in Requests : p[n] = NoRequest,
           NEW a \in AccessT, a.id \in Ids
    PROVE  Lasting(r, Append(q, Unwaited("DELETE_ACCESSSPEC", a)), p, specs,
                   [w EXCEPT ![a.id] = Absent])
<1> DEFINE m  == Unwaited("DELETE_ACCESSSPEC", a)
           w2 == [w EXCEPT ![a.id] = Absent]
           q2 == Append(q, m)
<1>1. m \in MessageT /\ m.name = "DELETE_ACCESSSPEC" /\ m.access = a /\ ~ m.live
  <2>1. "DELETE_ACCESSSPEC" \in Names BY ChainNames
  <2>. QED BY <2>1, SentFields
<1> HIDE DEF m
<1>2. \A id \in Ids : w2[id] = IF id = a.id THEN Absent ELSE w[id] OBVIOUS
<1> HIDE DEF w2
<1>3. Underway(q2, p, specs, w2[a.id], a.id)
  <2>1. /\ Len(q) \in Nat /\ Len(q2) = Len(q) + 1 /\ q2[Len(q) + 1] = m
        /\ Len(q) + 1 \in 1 .. Len(q) + 1
    BY <1>1, Sent
  <2> HIDE DEF q2
  <2>2. DeletedBy(q2, a.id, Len(q2)) BY <1>1, <2>1 DEF DeletedBy
  <2>3. Landing(q2, specs, w2[a.id], a.id) BY <1>2, <2>2 DEF Landing
  <2>. QED BY <2>3, ChainNames DEF Underway, Waiting
<1>4. \A i \in 1 .. Len(r) : \E j \in 1 .. Len(r) : r[i] = r[j] OBVIOUS
<1>5. Concerns(p, p, m.access.id) BY DEF Concerns
<1>6. Fits(r, r, q, m, p, p, specs) BY <1>1, <1>4, <1>5 DEF Fits
<1>7. \A id \in Ids : id # m.access.id => w2[id] = w[id] BY <1>1, <1>2
<1>8. Underway(Append(q, m), p, specs, w2[m.access.id], m.access.id) BY <1>1, <1>3
<1> HIDE DEF q2
<1>9. Lasting(r, Append(q, m), p, specs, w2) BY <1>1, <1>6, <1>7, <1>8, SentLasts
<1>. QED BY <1>9 DEF m, w2

(* Taken: the answer taken was the only message about its request.          *)
LEMMA Taken ==
    ASSUME NEW r \in Seq(AnswerT), NEW q \in Seq(MessageT), NEW p \in Pendings,
           r # << >>, Head(r).live, Tracked(r, q, p)
    PROVE  LET n == Head(r).name
               t == Tail(r)
           IN  /\ t \in Seq(AnswerT) /\ 1 \in 1 .. Len(r) /\ Head(r) = r[1]
               /\ n \in Requests /\ p[n] # NoRequest /\ p[n] \in RequestT
               /\ \A i \in 1 .. Len(t) : \E j \in 1 .. Len(r) : t[i] = r[j]
               /\ \A i \in 1 .. Len(t) : t[i].live => t[i].name # n /\ p[t[i].name] # NoRequest
               /\ \A j \in 1 .. Len(q) : q[j].live =>
                     q[j].name # n /\ q[j].name \in Requests /\ p[q[j].name] # NoRequest
<1> DEFINE n == Head(r).name
           t == Tail(r)
           p2 == Put(p, n, NoRequest)
<1>1. /\ Len(r) \in Nat \ {0} /\ t \in Seq(AnswerT) /\ Head(r) = r[1]
      /\ Len(t) = Len(r) - 1 /\ \A i \in 1 .. Len(t) : t[i] = r[i + 1]
  BY HeadTailProperties, LenProperties
<1>2. n \in Requests /\ p[n] # NoRequest /\ Tracked(t, q, p2) BY Answered
<1>3. p[n] \in RequestT BY <1>2 DEF Pendings
<1>4. \A x \in Requests : p2[x] # NoRequest => x # n /\ p[x] # NoRequest BY DEF Put, Pendings
<1> HIDE DEF n, t, p2
<1>5. /\ \A i \in 1 .. Len(t) : t[i].live => t[i].name \in Requests /\ p2[t[i].name] # NoRequest
      /\ \A i \in 1 .. Len(q) : q[i].live => q[i].name \in Requests /\ p2[q[i].name] # NoRequest
  <2>1. t \in Seq(AnswerT) /\ Tracked(t, q, p2) BY <1>1, <1>2
  <2>2. \A i \in 1 .. Len(t) : t[i].live => t[i].name \in Requests /\ p2[t[i].name] # NoRequest
    BY <2>1, LiveOutstanding
  <2>3. \A i \in 1 .. Len(q) : q[i].live => q[i].name \in Requests /\ p2[q[i].name] # NoRequest
    BY <2>1, LiveOutstanding
  <2>. QED BY <2>2, <2>3
<1>6. \A i \in 1 .. Len(t) : \E j \in 1 .. Len(r) : t[i] = r[j]
  <2> SUFFICES ASSUME NEW i \in 1 .. Len(t) PROVE \E j \in 1 .. Len(r) : t[i] = r[j] OBVIOUS
  <2>1. i + 1 \in 1 .. Len(r) BY <1>1
  <2>. QED BY <1>1, <2>1
<1>7. 1 \in 1 .. Len(r) BY <1>1
<1>. QED BY <1>1, <1>2, <1>3, <1>4, <1>5, <1>6, <1>7 DEF n, t

(* EnableLasts: the AccessSpec that was added is as asked for, once enabled. *)
LEMMA EnableLasts ==
    ASSUME NEW r \in Seq(AnswerT), NEW q \in Seq(MessageT), NEW p \in Pendings, NEW specs,
           NEW w, Lasting(r, q, p, specs, w), Tracked(r, q, p),
           r # << >>, Head(r).live, Head(r).name = "ADD_ACCESSSPEC"
    PROVE  LET a == p["ADD_ACCESSSPEC"].access
           IN  /\ Head(r).ok
               /\ Lasting(Tail(r), Append(q, Unwaited("ENABLE_ACCESSSPEC", a)),
                          Put(p, "ADD_ACCESSSPEC", NoRequest), specs, w)
<1> DEFINE a  == p["ADD_ACCESSSPEC"].access
           m  == Unwaited("ENABLE_ACCESSSPEC", a)
           p2 == Put(p, "ADD_ACCESSSPEC", NoRequest)
           t  == Tail(r)
           q2 == Append(q, m)
<1>1. /\ t \in Seq(AnswerT) /\ 1 \in 1 .. Len(r) /\ Head(r) = r[1]
      /\ p["ADD_ACCESSSPEC"] # NoRequest /\ p["ADD_ACCESSSPEC"] \in RequestT
      /\ \A i \in 1 .. Len(t) : \E j \in 1 .. Len(r) : t[i] = r[j]
      /\ \A j \in 1 .. Len(q) : q[j].live =>
            q[j].name # "ADD_ACCESSSPEC" /\ q[j].name \in Requests
  BY Taken
<1>2. a \in AccessT /\ a.id \in Ids
  <2>1. a \in AccessT BY <1>1 DEF RequestT
  <2>. QED BY <1>1, <2>1, ChainNames DEF Lasting, Matched
<1>3. Head(r).ok BY <1>1 DEF Lasting, Added
<1>4. \A n \in Requests : p2[n] = IF n = "ADD_ACCESSSPEC" THEN NoRequest ELSE p[n]
  BY DEF Put, Pendings
<1>5. Underway(q, p, specs, w[a.id], a.id) /\ Matched(q, p) BY <1>2 DEF Lasting
<1>6. Waiting(p, "ADD_ACCESSSPEC", a.id) BY <1>1 DEF Waiting
<1> HIDE DEF a, t, p2
<1>7. /\ m \in MessageT /\ m.name = "ENABLE_ACCESSSPEC" /\ m.access = a /\ ~ m.live
  <2>1. "ENABLE_ACCESSSPEC" \in Names BY ChainNames
  <2>. QED BY <1>2, <2>1, SentFields
<1> HIDE DEF m
<1>8. /\ Len(q) \in Nat /\ Len(q2) = Len(q) + 1 /\ q2[Len(q) + 1] = m
      /\ \A i \in 1 .. Len(q) : q2[i] = q[i]
      /\ Len(q) + 1 \in 1 .. Len(q) + 1
      /\ \A i \in 1 .. Len(q) + 1 : i \in 1 .. Len(q) \/ i = Len(q) + 1
  BY <1>7, Sent
<1> HIDE DEF q2
<1>9. Underway(q2, p2, specs, w[a.id], a.id)
  <2>1. \A n \in {"DISABLE_ACCESSSPEC", "DELETE_ACCESSSPEC"} : p2[n] = p[n]
    BY <1>4, ChainNames
  <2>2. ~ Waiting(p2, "ADD_ACCESSSPEC", a.id) BY <1>4, ChainNames DEF Waiting
  <2>3. ASSUME ~ Waiting(p, "DISABLE_ACCESSSPEC", a.id), ~ Waiting(p, "DELETE_ACCESSSPEC", a.id)
        PROVE  Landing(q2, specs, w[a.id], a.id)
    <3>1. Real(w[a.id]) /\ Adding(q, specs, w[a.id], a.id)
      BY <1>5, <1>6, <2>3 DEF Underway
    <3>2. ~ \E i \in 1 .. Len(q) : q[i].name = "ADD_ACCESSSPEC"
      BY <1>1, <1>5 DEF Matched
    <3>3. specs[a.id] = Off(w[a.id]) /\ Without(q, a.id, 0) BY <3>1, <3>2 DEF Adding
    <3>4. \A i \in 1 .. Len(q) : q[i].access.id # a.id BY <3>3 DEF Without
    <3>5. \A i \in 1 .. Len(q2) : q2[i].access.id = a.id => q2[i].name = "ENABLE_ACCESSSPEC"
      BY <1>7, <1>8, <3>4
    <3>6. \E i \in 1 .. Len(q2) : q2[i].access.id = a.id BY <1>7, <1>8
    <3>. QED BY <3>1, <3>3, <3>5, <3>6 DEF Landing
  <2>. QED BY <1>5, <2>1, <2>2, <2>3 DEF Underway, Waiting
<1>10. Concerns(p, p2, a.id) BY <1>4, <1>6 DEF Concerns, Waiting
<1>11. p2["DELETE_ACCESSSPEC"] = p["DELETE_ACCESSSPEC"] BY <1>4, ChainNames
<1>12. \A j \in 1 .. Len(q) : q[j].live => p2[q[j].name] = p[q[j].name] BY <1>1, <1>4
<1>13. Fits(r, t, q, m, p, p2, specs)
  BY <1>1, <1>2, <1>7, <1>10, <1>11, <1>12 DEF Fits
<1>14. Underway(Append(q, m), p2, specs, w[m.access.id], m.access.id) BY <1>7, <1>9 DEF q2
<1>15. Lasting(t, Append(q, m), p2, specs, w) BY <1>1, <1>7, <1>13, <1>14, SentLasts
<1>. QED BY <1>3, <1>15 DEF a, m, t, p2

(* DisabledLasts: the chain goes on to delete, whatever the answer. *)
LEMMA DisabledLasts ==
    ASSUME NEW r \in Seq(AnswerT), NEW q \in Seq(MessageT), NEW p \in Pendings, NEW specs,
           NEW w, Lasting(r, q, p, specs, w), Tracked(r, q, p),
           r # << >>, Head(r).live, Head(r).name = "DISABLE_ACCESSSPEC",
           p["DELETE_ACCESSSPEC"] = NoRequest
    PROVE  LET a == p["DISABLE_ACCESSSPEC"].access
           IN  Lasting(Tail(r), Append(q, Waited("DELETE_ACCESSSPEC", a)),
                       Put(Put(p, "DISABLE_ACCESSSPEC", NoRequest), "DELETE_ACCESSSPEC",
                           Request("start_next_accessspec_cb", a)), specs, w)
<1> DEFINE a  == p["DISABLE_ACCESSSPEC"].access
           v  == Request("start_next_accessspec_cb", a)
           m  == Waited("DELETE_ACCESSSPEC", a)
           p2 == Put(Put(p, "DISABLE_ACCESSSPEC", NoRequest), "DELETE_ACCESSSPEC", v)
           t  == Tail(r)
           q2 == Append(q, m)
<1>1. /\ t \in Seq(AnswerT)
      /\ p["DISABLE_ACCESSSPEC"] # NoRequest /\ p["DISABLE_ACCESSSPEC"] \in RequestT
      /\ \A i \in 1 .. Len(t) : \E j \in 1 .. Len(r) : t[i] = r[j]
      /\ \A i \in 1 .. Len(t) : t[i].live => p[t[i].name] # NoRequest
      /\ \A j \in 1 .. Len(q) : q[j].live =>
            /\ q[j].name # "DISABLE_ACCESSSPEC" /\ q[j].name \in Requests
            /\ p[q[j].name] # NoRequest
  BY Taken
<1>2. a \in AccessT /\ a.id \in Ids
  <2>1. a \in AccessT BY <1>1 DEF RequestT
  <2>. QED BY <1>1, <2>1, ChainNames DEF Lasting, Matched
<1>3. Underway(q, p, specs, w[a.id], a.id) BY <1>2 DEF Lasting
<1>4. Waiting(p, "DISABLE_ACCESSSPEC", a.id) BY <1>1 DEF Waiting
<1>5. w[a.id] = SpecOf(a) BY <1>3, <1>4 DEF Underway
<1>6. \A n \in Requests : p2[n] = IF n = "DELETE_ACCESSSPEC" THEN v
                                  ELSE IF n = "DISABLE_ACCESSSPEC" THEN NoRequest ELSE p[n]
  BY DEF Put, Pendings
<1> HIDE DEF a, t, p2
<1>7. /\ m \in MessageT /\ m.name = "DELETE_ACCESSSPEC" /\ m.access = a /\ m.live
      /\ v.access = a /\ v # NoRequest
  <2>1. "DELETE_ACCESSSPEC" \in Names /\ "start_next_accessspec_cb" \in Callbacks BY ChainNames
  <2>. QED BY <1>2, <2>1, SentFields
<1> HIDE DEF m, v
<1>8. Underway(q2, p2, specs, w[a.id], a.id)
  <2>1. ~ Waiting(p2, "DISABLE_ACCESSSPEC", a.id) BY <1>6, ChainNames DEF Waiting
  <2>2. Waiting(p2, "DELETE_ACCESSSPEC", a.id) /\ p2["DELETE_ACCESSSPEC"].access = a
    BY <1>6, <1>7, ChainNames DEF Waiting
  <2>. QED BY <1>5, <2>1, <2>2 DEF Underway
<1> HIDE DEF q2
<1>9. Concerns(p, p2, a.id) BY <1>4, <1>6, <1>7 DEF Concerns, Waiting
<1>10. \A j \in 1 .. Len(q) : q[j].live => p2[q[j].name] = p[q[j].name] BY <1>1, <1>6
<1>11. p2["DELETE_ACCESSSPEC"] = v BY <1>6, ChainNames
<1>12. Fits(r, t, q, m, p, p2, specs)
  BY <1>1, <1>2, <1>7, <1>9, <1>10, <1>11 DEF Fits
<1>13. Underway(Append(q, m), p2, specs, w[m.access.id], m.access.id) BY <1>7, <1>8 DEF q2
<1>14. Lasting(t, Append(q, m), p2, specs, w) BY <1>1, <1>7, <1>12, <1>13, SentLasts
<1>. QED BY <1>14 DEF a, m, t, p2, v

(* ReplacedLasts: the chain goes on to add its AccessSpec where there is    *)
(* none.                                                                    *)
LEMMA ReplacedLasts ==
    ASSUME NEW r \in Seq(AnswerT), NEW q \in Seq(MessageT), NEW p \in Pendings, NEW specs,
           NEW w, Lasting(r, q, p, specs, w), Tracked(r, q, p),
           r # << >>, Head(r).live, Head(r).name = "DELETE_ACCESSSPEC",
           p["ADD_ACCESSSPEC"] = NoRequest, Buildable(p["DELETE_ACCESSSPEC"].access)
    PROVE  LET a == p["DELETE_ACCESSSPEC"].access
           IN  Lasting(Tail(r), Append(q, Waited("ADD_ACCESSSPEC", a)),
                       Put(Put(p, "DELETE_ACCESSSPEC", NoRequest), "ADD_ACCESSSPEC",
                           Request("add_accessspec_cb", a)), specs, w)
<1> DEFINE a  == p["DELETE_ACCESSSPEC"].access
           v  == Request("add_accessspec_cb", a)
           m  == Waited("ADD_ACCESSSPEC", a)
           p2 == Put(Put(p, "DELETE_ACCESSSPEC", NoRequest), "ADD_ACCESSSPEC", v)
           t  == Tail(r)
           q2 == Append(q, m)
<1>1. /\ t \in Seq(AnswerT) /\ 1 \in 1 .. Len(r) /\ Head(r) = r[1]
      /\ p["DELETE_ACCESSSPEC"] # NoRequest /\ p["DELETE_ACCESSSPEC"] \in RequestT
      /\ \A i \in 1 .. Len(t) : \E j \in 1 .. Len(r) : t[i] = r[j]
      /\ \A i \in 1 .. Len(t) : t[i].live => t[i].name # "DELETE_ACCESSSPEC"
      /\ \A j \in 1 .. Len(q) : q[j].live =>
            /\ q[j].name # "DELETE_ACCESSSPEC" /\ q[j].name \in Requests
            /\ p[q[j].name] # NoRequest
  BY Taken
<1>2. a \in AccessT /\ a.id \in Ids
  <2>1. a \in AccessT BY <1>1 DEF RequestT
  <2>. QED BY <1>1, <2>1, ChainNames DEF Lasting, Matched
<1>3. Underway(q, p, specs, w[a.id], a.id) BY <1>2 DEF Lasting
<1>4. Waiting(p, "DELETE_ACCESSSPEC", a.id) BY <1>1 DEF Waiting
<1>5. ~ Waiting(p, "DISABLE_ACCESSSPEC", a.id) => w[a.id] = SpecOf(a) /\ Real(w[a.id])
  BY <1>2, <1>3, <1>4, RealSpecs DEF Underway
<1>6. specs[a.id] = Absent BY <1>1 DEF Lasting, Emptied
<1>7. \A n \in Requests : p2[n] = IF n = "ADD_ACCESSSPEC" THEN v
                                  ELSE IF n = "DELETE_ACCESSSPEC" THEN NoRequest ELSE p[n]
  BY DEF Put, Pendings
<1> HIDE DEF a, t, p2
<1>8. /\ m \in MessageT /\ m.name = "ADD_ACCESSSPEC" /\ m.access = a /\ m.live
      /\ v.access = a /\ v # NoRequest
  <2>1. "ADD_ACCESSSPEC" \in Names /\ "add_accessspec_cb" \in Callbacks BY ChainNames
  <2>. QED BY <1>2, <2>1, SentFields
<1> HIDE DEF m, v
<1>9. Underway(q2, p2, specs, w[a.id], a.id)
  <2>1. p2["DISABLE_ACCESSSPEC"] = p["DISABLE_ACCESSSPEC"] BY <1>7, ChainNames
  <2>2. ~ Waiting(p2, "DELETE_ACCESSSPEC", a.id) BY <1>7, ChainNames DEF Waiting
  <2>3. p2["ADD_ACCESSSPEC"] = v BY <1>7, ChainNames
  <2>4. Adding(q2, specs, w[a.id], a.id)
    <3>1. /\ Len(q) \in Nat /\ Len(q2) = Len(q) + 1 /\ q2[Len(q) + 1] = m
          /\ Len(q) + 1 \in 1 .. Len(q) + 1
      BY <1>8, Sent
    <3> HIDE DEF q2
    <3>2. Without(q2, a.id, Len(q) + 1) BY <3>1 DEF Without
    <3>. QED BY <1>8, <3>1, <3>2 DEF Adding
  <2>5. Waiting(p2, "DISABLE_ACCESSSPEC", a.id) <=> Waiting(p, "DISABLE_ACCESSSPEC", a.id)
    BY <2>1 DEF Waiting
  <2>6. Waiting(p2, "ADD_ACCESSSPEC", a.id) /\ p2["ADD_ACCESSSPEC"].access = a
    BY <1>8, <2>3 DEF Waiting
  <2>. QED BY <1>3, <1>5, <2>1, <2>2, <2>4, <2>5, <2>6 DEF Underway
<1> HIDE DEF q2
<1>10. Concerns(p, p2, a.id) BY <1>4, <1>7, <1>8 DEF Concerns, Waiting
<1>11. \A j \in 1 .. Len(q) : q[j].live => p2[q[j].name] = p[q[j].name] BY <1>1, <1>7
<1>12. m.live => m.access = p2[m.name].access BY <1>7, <1>8, ChainNames
<1>13. Fits(r, t, q, m, p, p2, specs)
  BY <1>1, <1>2, <1>6, <1>8, <1>10, <1>11, <1>12 DEF Fits
<1>14. Underway(Append(q, m), p2, specs, w[m.access.id], m.access.id) BY <1>8, <1>9 DEF q2
<1>15. Lasting(t, Append(q, m), p2, specs, w) BY <1>1, <1>8, <1>13, <1>14, SentLasts
<1>. QED BY <1>15 DEF a, m, t, p2, v

(* Handled: what the reader does with a request, accepted or not.            *)
Treated(h, ok, specs, specs2) ==
    LET id == h.access.id
    IN  /\ \A i \in Ids : i # id => specs2[i] = specs[i]
        /\ h.name = "ADD_ACCESSSPEC" =>
              /\ specs[id] = Absent => ok
              /\ specs2[id] = IF ok THEN Off(SpecOf(h.access)) ELSE specs[id]
        /\ h.name = "DELETE_ACCESSSPEC" => specs2[id] = Absent
        /\ h.name = "ENABLE_ACCESSSPEC" =>
              specs2[id] = IF specs[id] = Absent THEN Absent ELSE [specs[id] EXCEPT !.enabled = TRUE]
        /\ h.name \notin {"ADD_ACCESSSPEC", "DELETE_ACCESSSPEC"} /\ specs[id] = Absent =>
              specs2[id] = Absent

(* Shifted: taking the first request moves the others up. *)
LEMMA Shifted ==
    ASSUME NEW q \in Seq(MessageT), q # << >>
    PROVE  LET t == Tail(q)
           IN  /\ t \in Seq(MessageT) /\ Len(q) \in Nat /\ Len(t) \in Nat /\ Len(t) + 1 = Len(q)
               /\ 1 \in 1 .. Len(q) /\ Head(q) = q[1] /\ Head(q) \in MessageT
               /\ \A i \in 1 .. Len(t) : i + 1 \in 1 .. Len(q) /\ t[i] = q[i + 1] /\ i + 1 # 1
               /\ \A i \in 1 .. Len(q) : i = 1 \/ (i - 1 \in 1 .. Len(t) /\ t[i - 1] = q[i])
               /\ \A id, k : k \in 0 .. Len(t) /\ DeletedBy(q, id, k + 1) =>
                     \/ DeletedBy(t, id, k)
                     \/ Head(q).name = "DELETE_ACCESSSPEC" /\ Head(q).access.id = id
               /\ \A id : /\ \A i \in 1 .. Len(q) : Without(q, id, i) => Without(t, id, i - 1)
                          /\ Without(q, id, 0) => Without(t, id, 0) /\ Head(q).access.id # id
<1> DEFINE t == Tail(q)
<1>1. /\ Len(q) \in Nat \ {0} /\ t \in Seq(MessageT) /\ Len(t) = Len(q) - 1
      /\ \A i \in 1 .. Len(t) : t[i] = q[i + 1]
      /\ Head(q) = q[1] /\ q[1] \in MessageT
  BY HeadTailProperties, LenProperties
<1> HIDE DEF t
<1>2. /\ Len(t) \in Nat /\ Len(t) + 1 = Len(q) /\ 1 \in 1 .. Len(q)
      /\ \A i \in 1 .. Len(t) : i + 1 \in 1 .. Len(q) /\ i + 1 # 1
      /\ \A i \in 1 .. Len(q) : i = 1 \/ (i - 1 \in 1 .. Len(t) /\ (i - 1) + 1 = i)
  BY <1>1
<1>3. \A i \in 1 .. Len(q) : i = 1 \/ (i - 1 \in 1 .. Len(t) /\ t[i - 1] = q[i])
  <2> SUFFICES ASSUME NEW i \in 1 .. Len(q), i # 1
               PROVE  i - 1 \in 1 .. Len(t) /\ t[i - 1] = q[i]
    OBVIOUS
  <2>1. i - 1 \in 1 .. Len(t) /\ (i - 1) + 1 = i BY <1>2
  <2>. QED BY <1>1, <2>1
<1>4. ASSUME NEW id, NEW k \in 0 .. Len(t), DeletedBy(q, id, k + 1),
             ~ (Head(q).name = "DELETE_ACCESSSPEC" /\ Head(q).access.id = id)
      PROVE  DeletedBy(t, id, k)
  <2>1. PICK j \in 1 .. k + 1 : q[j].name = "DELETE_ACCESSSPEC" /\ q[j].access.id = id
    BY <1>4 DEF DeletedBy
  <2>2. j # 1 BY <1>1, <1>4, <2>1
  <2>3. j \in 1 .. Len(q) /\ j - 1 \in 1 .. k BY <1>2, <2>2
  <2>. QED BY <1>3, <2>1, <2>2, <2>3 DEF DeletedBy
<1>5. ASSUME NEW id, NEW i \in 1 .. Len(q), Without(q, id, i)
      PROVE  Without(t, id, i - 1)
  <2> SUFFICES ASSUME NEW j \in (i - 1) + 1 .. Len(t) PROVE t[j].access.id # id
    BY DEF Without
  <2>1. j \in 1 .. Len(t) /\ j + 1 \in i + 1 .. Len(q) BY <1>2
  <2>. QED BY <1>1, <1>5, <2>1 DEF Without
<1>6. ASSUME NEW id, Without(q, id, 0)
      PROVE  Without(t, id, 0) /\ Head(q).access.id # id
  <2>1. \A j \in 1 .. Len(q) : q[j].access.id # id
    <3>1. 0 + 1 = 1 OBVIOUS
    <3>. QED BY <1>6, <3>1 DEF Without
  <2>2. \A j \in 1 .. Len(t) : t[j].access.id # id BY <1>1, <1>2, <2>1
  <2>. QED BY <1>1, <1>2, <2>1, <2>2 DEF Without
<1>. QED BY <1>1, <1>2, <1>3, <1>4, <1>5, <1>6 DEF t

(* StillUnderway: the reader handles a request, whoever it is about. *)
LEMMA StillUnderway ==
    ASSUME NEW q \in Seq(MessageT), q # << >>, NEW p \in Pendings, NEW ok \in BOOLEAN,
           NEW specs \in [Ids -> SpecT], NEW specs2, NEW wish \in SpecT, NEW id \in Ids,
           Head(q).name = "ADD_ACCESSSPEC" /\ Head(q).access.id = id =>
               /\ p["ADD_ACCESSSPEC"] # NoRequest /\ p["ADD_ACCESSSPEC"].access = Head(q).access
               /\ ok,
           Treated(Head(q), ok, specs, specs2), Underway(q, p, specs, wish, id)
    PROVE  Underway(Tail(q), p, specs2, wish, id)
<1> DEFINE t == Tail(q)
           h == Head(q)
<1>1. /\ Len(q) \in Nat /\ Len(t) \in Nat /\ Len(t) + 1 = Len(q)
      /\ 1 \in 1 .. Len(q) /\ h = q[1]
      /\ \A i \in 1 .. Len(t) : i + 1 \in 1 .. Len(q) /\ t[i] = q[i + 1]
      /\ \A i \in 1 .. Len(q) : i = 1 \/ (i - 1 \in 1 .. Len(t) /\ t[i - 1] = q[i])
      /\ DeletedBy(q, id, Len(t) + 1) =>
            DeletedBy(t, id, Len(t)) \/ (h.name = "DELETE_ACCESSSPEC" /\ h.access.id = id)
      /\ \A i \in 1 .. Len(q) : Without(q, id, i) => Without(t, id, i - 1)
      /\ Without(q, id, 0) => Without(t, id, 0) /\ h.access.id # id
  <2>1. Len(t) \in 0 .. Len(t)
    <3>1. Len(t) \in Nat BY Shifted
    <3> HIDE DEF t
    <3>. QED BY <3>1
  <2>. QED BY <2>1, Shifted
<1> HIDE DEF t, h
<1>2. ASSUME Waiting(p, "ADD_ACCESSSPEC", id), wish = SpecOf(p["ADD_ACCESSSPEC"].access),
             Adding(q, specs, wish, id)
      PROVE  Adding(t, specs2, wish, id)
  <2>1. ASSUME NEW i \in 1 .. Len(q), q[i].name = "ADD_ACCESSSPEC", q[i].access.id = id,
               Without(q, id, i)
        PROVE  Adding(t, specs2, wish, id)
    <3>1. CASE i = 1
      <4>1. h.name = "ADD_ACCESSSPEC" /\ h.access.id = id BY <1>1, <2>1, <3>1
      <4>2. p["ADD_ACCESSSPEC"].access = h.access /\ ok BY <4>1 DEF h
      <4>3. specs2[id] = Off(wish) BY <1>2, <4>1, <4>2 DEF Treated, h
      <4>4. Without(t, id, 0)
        <5>1. Without(t, id, 1 - 1) /\ 1 - 1 = 0 BY <1>1, <2>1, <3>1
        <5>. QED BY <5>1
      <4>. QED BY <4>3, <4>4 DEF Adding
    <3>2. CASE i # 1
      <4>1. i - 1 \in 1 .. Len(t) /\ t[i - 1] = q[i] /\ Without(t, id, i - 1) BY <1>1, <2>1, <3>2
      <4>. QED BY <2>1, <4>1 DEF Adding
    <3>. QED BY <3>1, <3>2
  <2>2. ASSUME specs[id] = Off(wish), Without(q, id, 0)
        PROVE  Adding(t, specs2, wish, id)
    <3>1. Without(t, id, 0) /\ h.access.id # id BY <1>1, <2>2
    <3>2. specs2[id] = specs[id] BY <3>1 DEF Treated, h
    <3>. QED BY <2>2, <3>1, <3>2 DEF Adding
  <2>. QED BY <1>2, <2>1, <2>2 DEF Adding
<1>3. ASSUME ~ Waiting(p, "ADD_ACCESSSPEC", id), Landing(q, specs, wish, id)
      PROVE  Landing(t, specs2, wish, id)
  <2>1. ~ (h.name = "ADD_ACCESSSPEC" /\ h.access.id = id) BY <1>3 DEF Waiting, h
  <2>2. specs[id] = Absent => specs2[id] = Absent BY <2>1 DEF Treated, h
  <2>3. CASE wish = Absent /\ (specs[id] = Absent \/ DeletedBy(q, id, Len(q)))
    <3>1. CASE specs[id] = Absent BY <2>2, <2>3, <3>1 DEF Landing
    <3>2. CASE DeletedBy(q, id, Len(q))
      <4>1. DeletedBy(t, id, Len(t)) \/ (h.name = "DELETE_ACCESSSPEC" /\ h.access.id = id)
        BY <1>1, <3>2
      <4>2. h.name = "DELETE_ACCESSSPEC" /\ h.access.id = id => specs2[id] = Absent
        BY DEF Treated, h
      <4>. QED BY <2>3, <4>1, <4>2 DEF Landing
    <3>. QED BY <2>3, <3>1, <3>2
  <2>4. CASE /\ Real(wish)
             /\ \A i \in 1 .. Len(q) : q[i].access.id = id => q[i].name = "ENABLE_ACCESSSPEC"
             /\ \/ specs[id] = wish
                \/ wish.counted /\ specs[id] = Absent
                \/ /\ specs[id] = Off(wish)
                   /\ \E i \in 1 .. Len(q) : q[i].access.id = id
    <3>1. \A i \in 1 .. Len(t) : t[i].access.id = id => t[i].name = "ENABLE_ACCESSSPEC"
      BY <1>1, <2>4
    <3>2. CASE h.access.id # id
      <4>1. specs2[id] = specs[id] BY <3>2 DEF Treated, h
      <4>2. (\E i \in 1 .. Len(q) : q[i].access.id = id) =>
               \E i \in 1 .. Len(t) : t[i].access.id = id
        BY <1>1, <3>2
      <4>. QED BY <2>4, <3>1, <4>1, <4>2 DEF Landing
    <3>3. CASE h.access.id = id
      <4>1. h.name = "ENABLE_ACCESSSPEC" BY <1>1, <2>4, <3>3
      <4>2. specs2[id] = IF specs[id] = Absent THEN Absent ELSE [specs[id] EXCEPT !.enabled = TRUE]
        BY <3>3, <4>1 DEF Treated, h
      <4>3. /\ wish # Absent /\ Off(wish) # Absent
            /\ [wish EXCEPT !.enabled = TRUE] = wish
            /\ [Off(wish) EXCEPT !.enabled = TRUE] = wish
        BY <2>4, RealSpecs
      <4>6. CASE specs[id] = wish BY <2>4, <3>1, <4>2, <4>3, <4>6 DEF Landing
      <4>7. CASE wish.counted /\ specs[id] = Absent BY <2>4, <3>1, <4>2, <4>7 DEF Landing
      <4>8. CASE specs[id] = Off(wish) BY <2>4, <3>1, <4>2, <4>3, <4>8 DEF Landing
      <4>. QED BY <2>4, <4>6, <4>7, <4>8
    <3>. QED BY <3>2, <3>3
  <2>. QED BY <1>3, <2>3, <2>4 DEF Landing
<1>. QED BY <1>2, <1>3 DEF Underway, t

(* HandledLasts: the reader handles a request.                               *)
LEMMA HandledLasts ==
    ASSUME NEW r \in Seq(AnswerT), NEW q \in Seq(MessageT), q # << >>, NEW p \in Pendings,
           NEW ok \in BOOLEAN, NEW specs \in [Ids -> SpecT], NEW specs2,
           NEW w \in [Ids -> SpecT],
           Lasting(r, q, p, specs, w), Tracked(r, q, p), Wired(r, q),
           Treated(Head(q), ok, specs, specs2)
    PROVE  Lasting(Append(r, Answer(Head(q), ok)), Tail(q), p, specs2, w)
<1> DEFINE t == Tail(q)
           h == Head(q)
           a == Answer(h, ok)
           r2 == Append(r, a)
<1>1. /\ Len(q) \in Nat /\ Len(t) \in Nat /\ Len(t) + 1 = Len(q)
      /\ 1 \in 1 .. Len(q) /\ h = q[1] /\ h \in MessageT
      /\ \A i \in 1 .. Len(t) : i + 1 \in 1 .. Len(q) /\ t[i] = q[i + 1] /\ i + 1 # 1
      /\ \A id, k : k \in 0 .. Len(t) /\ DeletedBy(q, id, k + 1) =>
            DeletedBy(t, id, k) \/ (h.name = "DELETE_ACCESSSPEC" /\ h.access.id = id)
  BY Shifted
<1>2. a \in AnswerT /\ a.name = h.name /\ a.live = h.live /\ a.ok = ok
  BY <1>1 DEF Answer, AnswerT, MessageT
<1> HIDE DEF a
<1>3. /\ Len(r) \in Nat /\ \A i \in 1 .. Len(r2) : i \in 1 .. Len(r) \/ r2[i] = a
      /\ \A i \in 1 .. Len(r) : r2[i] = r[i]
  <2>1. /\ Len(r) \in Nat /\ Len(r2) = Len(r) + 1 /\ r2[Len(r) + 1] = a
        /\ \A i \in 1 .. Len(r) : r2[i] = r[i]
    BY <1>2
  <2> HIDE DEF r2
  <2>2. \A i \in 1 .. Len(r2) : i \in 1 .. Len(r) \/ i = Len(r) + 1 BY <2>1
  <2>. QED BY <2>1, <2>2
<1> HIDE DEF r2, t, h
<1>4. /\ Matched(q, p) /\ Vacant(q, specs) /\ Emptied(r, q, p, specs) /\ Added(r)
      /\ \A id \in Ids : Underway(q, p, specs, w[id], id)
  BY DEF Lasting
<1>5. /\ h.access.id \in Ids /\ (h.live => h.access = p[h.name].access)
      /\ h.name = "ADD_ACCESSSPEC" => h.live
      /\ h.live => h.name \in Requests /\ p[h.name] # NoRequest
      /\ \A i \in 1 .. Len(t) : h.name = "ADD_ACCESSSPEC" => t[i].name # "ADD_ACCESSSPEC"
      /\ h.live /\ h.name = "DELETE_ACCESSSPEC" =>
            \A i \in 1 .. Len(t) : t[i].name # "ADD_ACCESSSPEC"
  <2>1. /\ h.access.id \in Ids /\ (h.live => h.access = p[h.name].access)
        /\ \A i \in 1 .. Len(q) : q[i].name = "ADD_ACCESSSPEC" => q[i].live
    BY <1>1, <1>4 DEF Matched
  <2>2. /\ \A i \in 1 .. Len(q) : q[i].live => q[i].name \in Requests /\ p[q[i].name] # NoRequest
        /\ \A i, j \in 1 .. Len(q) : q[i].live /\ q[j].live /\ q[i].name = q[j].name => i = j
    BY LiveOutstanding
  <2>3. \A i, j \in 1 .. Len(q) :
          q[i].live /\ q[i].name = "DELETE_ACCESSSPEC" /\ q[j].name = "ADD_ACCESSSPEC" => j < i
    BY <1>4, AddedFirst
  <2>4. \A i \in 1 .. Len(t) : ~ (i + 1 < 1) BY <1>1
  <2>5. h.name = "ADD_ACCESSSPEC" => h.live BY <1>1, <2>1
  <2>6. h.live => h.name \in Requests /\ p[h.name] # NoRequest BY <1>1, <2>2
  <2>7. ASSUME NEW i \in 1 .. Len(t), h.name = "ADD_ACCESSSPEC", t[i].name = "ADD_ACCESSSPEC"
        PROVE  FALSE
    <3>1. q[1].live /\ q[i + 1].live /\ q[1].name = q[i + 1].name BY <1>1, <2>1, <2>7
    <3>2. 1 = i + 1 BY <1>1, <2>2, <3>1
    <3>. QED BY <1>1, <3>2
  <2>8. ASSUME NEW i \in 1 .. Len(t), h.live, h.name = "DELETE_ACCESSSPEC",
               t[i].name = "ADD_ACCESSSPEC"
        PROVE  FALSE
    <3>1. i + 1 < 1 BY <1>1, <2>3, <2>8
    <3>. QED BY <2>4, <3>1
  <2>. QED BY <2>1, <2>5, <2>6, <2>7, <2>8
<1>6. h.name = "ADD_ACCESSSPEC" => ok
  <2>1. h.name = "ADD_ACCESSSPEC" =>
           specs[h.access.id] = Absent \/ DeletedBy(q, h.access.id, 1 - 1)
    BY <1>1, <1>4 DEF Vacant
  <2>2. \A id : ~ DeletedBy(q, id, 1 - 1) BY DEF DeletedBy
  <2>. QED BY <2>1, <2>2 DEF Treated, h
<1>7. \A id \in Ids : h.name # "ADD_ACCESSSPEC" \/ h.access.id # id =>
         (specs[id] = Absent => specs2[id] = Absent)
  BY DEF Treated, h
<1>8. ASSUME NEW id \in Ids PROVE Underway(t, p, specs2, w[id], id)
  <2>1. h.name = "ADD_ACCESSSPEC" =>
           p["ADD_ACCESSSPEC"] # NoRequest /\ p["ADD_ACCESSSPEC"].access = h.access /\ ok
    BY <1>5, <1>6
  <2>2. Underway(q, p, specs, w[id], id) /\ w[id] \in SpecT BY <1>4
  <2>. QED BY <2>1, <2>2, StillUnderway DEF t, h
<1>9. Matched(t, p) BY <1>1, <1>4 DEF Matched
<1>10. Vacant(t, specs2)
  <2> SUFFICES ASSUME NEW i \in 1 .. Len(t), t[i].name = "ADD_ACCESSSPEC"
               PROVE  specs2[t[i].access.id] = Absent \/ DeletedBy(t, t[i].access.id, i - 1)
    BY DEF Vacant
  <2> DEFINE id == t[i].access.id
  <2>1. id \in Ids BY <1>9 DEF Matched
  <2>2. specs[id] = Absent \/ DeletedBy(q, id, (i + 1) - 1) BY <1>1, <1>4 DEF Vacant
  <2>3. (i + 1) - 1 = (i - 1) + 1 /\ i - 1 \in 0 .. Len(t) BY <1>1
  <2>4. h.name # "ADD_ACCESSSPEC" BY <1>5
  <2>5. CASE specs[id] = Absent BY <1>7, <2>1, <2>4, <2>5
  <2>6. CASE DeletedBy(q, id, (i + 1) - 1)
    <3>1. DeletedBy(t, id, i - 1) \/ (h.name = "DELETE_ACCESSSPEC" /\ h.access.id = id)
      BY <1>1, <2>3, <2>6
    <3>2. h.name = "DELETE_ACCESSSPEC" /\ h.access.id = id => specs2[id] = Absent
      BY DEF Treated, h
    <3>. QED BY <3>1, <3>2
  <2>. QED BY <2>2, <2>5, <2>6
<1>11. Emptied(r2, t, p, specs2)
  <2> SUFFICES ASSUME NEW i \in 1 .. Len(r2), r2[i].live, r2[i].name = "DELETE_ACCESSSPEC"
               PROVE  /\ specs2[p["DELETE_ACCESSSPEC"].access.id] = Absent
                      /\ \A j \in 1 .. Len(t) : t[j].name # "ADD_ACCESSSPEC"
    BY DEF Emptied
  <2>1. CASE i \in 1 .. Len(r)
    <3>0. r[i].live /\ r[i].name = "DELETE_ACCESSSPEC" BY <1>3, <2>1
    <3>1. /\ specs[p["DELETE_ACCESSSPEC"].access.id] = Absent
          /\ \A j \in 1 .. Len(q) : q[j].name # "ADD_ACCESSSPEC"
      BY <1>4, <2>1, <3>0 DEF Emptied
    <3>2. p["DELETE_ACCESSSPEC"] # NoRequest
      BY <2>1, <3>0, LiveOutstanding
    <3>3. p["DELETE_ACCESSSPEC"].access.id \in Ids BY <1>4, <3>2, ChainNames DEF Matched
    <3>. QED BY <1>1, <1>7, <3>1, <3>3
  <2>2. CASE r2[i] = a
    <3>1. h.live /\ h.name = "DELETE_ACCESSSPEC" BY <1>2, <2>2
    <3>2. specs2[h.access.id] = Absent BY <3>1 DEF Treated, h
    <3>. QED BY <1>5, <3>1, <3>2
  <2>. QED BY <1>3, <2>1, <2>2
<1>12. Added(r2)
  <2> SUFFICES ASSUME NEW i \in 1 .. Len(r2), r2[i].live, r2[i].name = "ADD_ACCESSSPEC"
               PROVE  r2[i].ok
    BY DEF Added
  <2>1. CASE i \in 1 .. Len(r) BY <1>3, <1>4, <2>1 DEF Added
  <2>2. CASE r2[i] = a BY <1>2, <1>6, <2>2
  <2>. QED BY <1>3, <2>1, <2>2
<1>. QED BY <1>8, <1>9, <1>10, <1>11, <1>12 DEF Lasting, t, r2, a, h

(* CountLasts: the reader removes an AccessSpec whose count is reached.     *)
LEMMA CountLasts ==
    ASSUME NEW r \in Seq(AnswerT), NEW q \in Seq(MessageT), NEW p \in Pendings,
           NEW specs \in [Ids -> SpecT], NEW w \in [Ids -> SpecT],
           Lasting(r, q, p, specs, w), Tracked(r, q, p),
           NEW x \in Ids, specs[x].enabled, specs[x].counted
    PROVE  Lasting(r, q, p, [specs EXCEPT ![x] = Absent], w)
<1> DEFINE specs2 == [specs EXCEPT ![x] = Absent]
<1>1. \A id \in Ids : specs2[id] = IF id = x THEN Absent ELSE specs[id] OBVIOUS
<1> HIDE DEF specs2
<1>2. \A id \in Ids : specs[id] = Absent => specs2[id] = Absent BY <1>1
<1>3. /\ Matched(q, p) /\ Vacant(q, specs) /\ Emptied(r, q, p, specs) /\ Added(r)
      /\ \A id \in Ids : Underway(q, p, specs, w[id], id)
  BY DEF Lasting
<1>4. Vacant(q, specs2) BY <1>2, <1>3 DEF Vacant, Matched
<1>5. Emptied(r, q, p, specs2)
  <2> SUFFICES ASSUME NEW i \in 1 .. Len(r), r[i].live, r[i].name = "DELETE_ACCESSSPEC"
               PROVE  /\ specs2[p["DELETE_ACCESSSPEC"].access.id] = Absent
                      /\ \A j \in 1 .. Len(q) : q[j].name # "ADD_ACCESSSPEC"
    BY DEF Emptied
  <2>1. p["DELETE_ACCESSSPEC"] # NoRequest BY LiveOutstanding
  <2>2. p["DELETE_ACCESSSPEC"].access.id \in Ids BY <1>3, <2>1, ChainNames DEF Matched
  <2>. QED BY <1>2, <1>3, <2>2 DEF Emptied
<1>6. ASSUME NEW id \in Ids PROVE Underway(q, p, specs2, w[id], id)
  <2>0. Underway(q, p, specs, w[id], id) /\ w[id] \in SpecT BY <1>3
  <2>1. CASE id # x
    <3>1. specs2[id] = specs[id] BY <1>1, <2>1
    <3>. QED BY <2>0, <3>1 DEF Underway, Adding, Landing
  <2>2. CASE id = x
    <3>1. specs2[id] = Absent /\ specs[id].enabled /\ specs[id].counted BY <1>1, <2>2
    <3>2. Real(w[id]) => specs[id] # Off(w[id]) BY <2>0, <3>1, RealSpecs
    <3>3. Real(w[id]) /\ Adding(q, specs, w[id], id) => Adding(q, specs2, w[id], id)
      BY <3>2 DEF Adding
    <3>4. Landing(q, specs, w[id], id) => Landing(q, specs2, w[id], id)
      BY <3>1, <3>2 DEF Landing
    <3>. QED BY <2>0, <3>3, <3>4 DEF Underway
  <2>. QED BY <2>1, <2>2
<1>. QED BY <1>3, <1>4, <1>5, <1>6 DEF Lasting, specs2

(* Written: what a handler wrote is on the wire, and what it registered is  *)
(* pending.                                                                 *)
LEMMA Written ==
    ASSUME TypeOK, NEW c \in HandlerT, End(c)
    PROVE  /\ client'.pending = c.pending /\ client'.state = c.state
           /\ c.out = << >> => toReader' = toReader
           /\ \A m \in MessageT : c.out = Append(<< >>, m) => toReader' = Append(toReader, m)
<1>1. client'.pending = c.pending /\ client'.state = c.state /\ toReader' = toReader \o c.out
  BY EndTyped
<1>2. toReader \in Seq(MessageT) BY DEF TypeOK
<1>3. toReader \o << >> = toReader BY <1>2, Joined
<1>4. \A m \in MessageT : toReader \o << m >> = Append(toReader, m) BY <1>2, Joined
<1>5. \A m : Append(<< >>, m) = << m >> OBVIOUS
<1>. QED BY <1>1, <1>3, <1>4, <1>5

(* Undisturbed: a state alike, or with one answer less.                     *)
LEMMA Undisturbed ==
    ASSUME TypeOK, Lasting(toClient, toReader, client.pending, reader.specs, want),
           client'.pending = client.pending, toReader' = toReader, reader' = reader, want' = want,
           toClient' = toClient \/ (toClient # << >> /\ toClient' = Tail(toClient))
    PROVE  Lasting(toClient, toReader, client.pending, reader.specs, want)'
<1>1. toClient \in Seq(AnswerT) BY DEF TypeOK
<1>2. Lasting(toClient', toReader, client.pending, reader.specs, want) BY <1>1, FewerAnswers
<1>3. Lasting(toClient', toReader', client'.pending, reader'.specs, want') BY <1>2
<1>. QED BY <1>3

(* TreatedRight: what the reader does is as Treated says. *)
LEMMA TreatedRight ==
    ASSUME TypeOK, NEW h \in MessageT, h.access.id \in Ids
    PROVE  Treated(h, Acceptable(h), reader.specs, (IF Acceptable(h) THEN Obey(h) ELSE reader).specs)
<1> DEFINE id == h.access.id
           ok == Acceptable(h)
           reader2 == IF ok THEN Obey(h) ELSE reader
           specs  == reader.specs
           specs2 == reader2.specs
<1>1. /\ reader \in [specs : [Ids -> SpecT], rospec : BOOLEAN] /\ specs \in [Ids -> SpecT]
      /\ h.name \in Names /\ h.access \in AccessT
  BY DEF TypeOK, MessageT
<1>2. CASE h.name = "ADD_ACCESSSPEC"
  <2>1. ok <=> specs[id] = Absent BY <1>2 DEF Acceptable
  <2>2. CASE ~ ok
    <3>1. specs2 = specs BY <2>2
    <3> HIDE DEF ok, specs2
    <3>. QED BY <1>2, <2>1, <2>2, <3>1 DEF Treated, ok, specs2
  <2>3. CASE ok
    <3> DEFINE v == [op |-> h.access.op, counted |-> h.access.stop > 0, enabled |-> FALSE]
    <3>1. Obey(h) = [reader EXCEPT !.specs = [specs EXCEPT ![id] = v]] BY <1>2 DEF Obey
    <3>2. v = Off(SpecOf(h.access))
      <4>1. SpecOf(h.access).op = h.access.op /\ SpecOf(h.access).counted = (h.access.stop > 0)
        BY DEF SpecOf
      <4>. QED BY <4>1, Zenon DEF Off
    <3> HIDE DEF v
    <3>3. specs2 = [specs EXCEPT ![id] = v] BY <1>1, <2>3, <3>1
    <3> HIDE DEF specs2, specs
    <3>4. specs2[id] = v /\ \A i \in Ids : i # id => specs2[i] = specs[i] BY <1>1, <3>3
    <3>. QED BY <1>2, <2>3, <3>2, <3>4 DEF Treated, specs, specs2, ok
  <2>. QED BY <2>2, <2>3
<1>3. ASSUME NEW e \in BOOLEAN, ok <=> specs[id] # Absent,
             Obey(h) = [reader EXCEPT !.specs[id].enabled = e]
      PROVE  /\ \A i \in Ids : i # id => specs2[i] = specs[i]
             /\ specs2[id] = IF specs[id] = Absent THEN Absent ELSE [specs[id] EXCEPT !.enabled = e]
  <2>1. CASE ~ ok BY <1>3, <2>1
  <2>2. CASE ok
    <3> DEFINE v == [specs[id] EXCEPT !.enabled = e]
    <3>1. Obey(h) = [reader EXCEPT !.specs = [specs EXCEPT ![id] = v]] BY <1>1, <1>3
    <3> HIDE DEF v
    <3>2. specs2 = [specs EXCEPT ![id] = v] BY <1>1, <2>2, <3>1
    <3> HIDE DEF specs2, specs
    <3>3. specs2[id] = v /\ \A i \in Ids : i # id => specs2[i] = specs[i] BY <1>1, <3>2
    <3>. QED BY <1>3, <2>2, <3>3 DEF v
  <2>. QED BY <2>1, <2>2
<1>4. CASE h.name = "ENABLE_ACCESSSPEC"
  <2>1. (ok <=> specs[id] # Absent) /\ Obey(h) = [reader EXCEPT !.specs[id].enabled = TRUE]
    BY <1>4 DEF Acceptable, Obey
  <2>2. /\ \A i \in Ids : i # id => specs2[i] = specs[i]
        /\ specs2[id] = IF specs[id] = Absent THEN Absent
                        ELSE [specs[id] EXCEPT !.enabled = TRUE]
    BY <1>3, <2>1
  <2> HIDE DEF specs2, ok
  <2>. QED BY <1>4, <2>2 DEF Treated, specs2, ok
<1>5. CASE h.name = "DISABLE_ACCESSSPEC"
  <2>1. (ok <=> specs[id] # Absent) /\ Obey(h) = [reader EXCEPT !.specs[id].enabled = FALSE]
    BY <1>5 DEF Acceptable, Obey
  <2>2. /\ \A i \in Ids : i # id => specs2[i] = specs[i]
        /\ specs[id] = Absent => specs2[id] = Absent
    BY <1>3, <2>1
  <2> HIDE DEF specs2, ok
  <2>. QED BY <1>5, <2>2 DEF Treated, specs2, ok
<1>6. CASE h.name = "DELETE_ACCESSSPEC"
  <2>1. ok <=> specs[id] # Absent BY <1>6 DEF Acceptable
  <2>2. Obey(h) = [reader EXCEPT !.specs = [i \in Ids |-> IF id \in {0, i} THEN Absent ELSE specs[i]]]
    BY <1>6 DEF Obey
  <2>3. ok => specs2 = [i \in Ids |-> IF id \in {0, i} THEN Absent ELSE specs[i]] BY <1>1, <2>2
  <2>4. ~ ok => specs2 = specs OBVIOUS
  <2> HIDE DEF specs2, specs, ok
  <2>5. specs2[id] = Absent /\ \A i \in Ids : i # id => specs2[i] = specs[i]
    BY <2>1, <2>3, <2>4, AccessAssumption
  <2>. QED BY <1>6, <2>5 DEF Treated, specs2, specs, ok
<1>7. CASE h.name = "DELETE_ROSPEC"
  <2>1. Obey(h) = [reader EXCEPT !.rospec = FALSE] BY <1>7 DEF Obey
  <2>2. specs2 = specs BY <1>1, <2>1
  <2> HIDE DEF specs2, ok
  <2>. QED BY <1>7, <2>2 DEF Treated, specs2, ok
<1>. QED BY <1>1, <1>2, <1>4, <1>5, <1>6, <1>7 DEF Names, Requests

LEMMA LastStep ==
    ASSUME ~ AnyTime
    PROVE  IInv /\ LastInv /\ [Next]_vars => LastInv'
<1> SUFFICES ASSUME IInv, LastInv, [Next]_vars, Connected', ~stopping', calm'
             PROVE  Lasting(toClient, toReader, client.pending, reader.specs, want)'
  BY DEF LastInv
<1>0. /\ TypeOK /\ toReader \in Seq(MessageT) /\ toClient \in Seq(AnswerT)
      /\ client.pending \in Pendings /\ client.state \in States
      /\ reader \in [specs : [Ids -> SpecT], rospec : BOOLEAN] /\ reader.specs \in [Ids -> SpecT]
      /\ want \in [Ids -> SpecT]
      /\ Begin \in HandlerT /\ Begin.state = client.state /\ Begin.pending = client.pending
      /\ Begin.out = << >> /\ ~ Begin.raised
  BY BeginTyped DEF IInv, TypeOK
<1>01. client'.state # "DISCONNECTED" BY DEF Connected
<1>02. ASSUME Connected, ~stopping
       PROVE  /\ client.state = "INVENTORYING"
              /\ Tracked(toClient, toReader, client.pending) /\ Wired(toClient, toReader)
              /\ ChainCallbacks(client.pending)
  BY <1>02 DEF IInv, ChainInv, Chaining
<1>03. Connected /\ ~stopping /\ calm =>
          Lasting(toClient, toReader, client.pending, reader.specs, want)
  BY DEF LastInv
<1>1. ASSUME NEW access \in Accesses, StartAccessSpec(access)
      PROVE  Lasting(toClient, toReader, client.pending, reader.specs, want)'
  <2> DEFINE a == [access EXCEPT !.stop = IF @ < 0 THEN 0 ELSE @]
             c == startAccess(Begin, a)
             v == Request("add_accessspec_cb", a)
             m == Waited("ADD_ACCESSSPEC", a)
  <2>1. /\ Connected /\ ~stopping /\ calm /\ Idle /\ want[access.id] = Absent
        /\ End(c) /\ Asked(c, a) /\ toClient' = toClient /\ reader' = reader
    BY <1>1 DEF StartAccessSpec, Call, Opportune
  <2>2. a \in AccessT /\ a.id \in Ids /\ a.id = access.id
    <3>1. a.id = access.id BY AccessAssumption
    <3>. QED BY <3>1, AccessTyped
  <2> HIDE DEF a
  <2>3. /\ c \in HandlerT
        /\ ~ Buildable(a) => c.raised /\ c.pending = client.pending /\ c.out = << >>
        /\ Buildable(a) => c = send_request(Begin, "ADD_ACCESSSPEC", a, "add_accessspec_cb",
                                            Begin.state)
    BY <1>0, <2>2, Started
  <2> HIDE DEF c
  <2>4. CASE ~ Buildable(a)
    <3>1. want' = want BY <2>1, <2>3, <2>4 DEF Asked
    <3>2. toReader' = toReader /\ client'.pending = client.pending
      BY <1>0, <2>1, <2>3, <2>4, Written
    <3>. QED BY <1>0, <1>03, <2>1, <3>1, <3>2, Undisturbed
  <2>5. CASE Buildable(a)
    <3>1. Begin.pending["ADD_ACCESSSPEC"] = NoRequest BY <1>0, <2>1, ChainNames DEF Idle
    <3>2. /\ "ADD_ACCESSSPEC" \in Requests /\ "ADD_ACCESSSPEC" \in Names
          /\ "add_accessspec_cb" \in Callbacks
      BY ChainNames
    <3>3. ~ c.raised /\ c.pending = Put(client.pending, "ADD_ACCESSSPEC", v) /\ c.out = Append(<< >>, m)
      BY <1>0, <2>2, <2>3, <2>5, <3>1, <3>2, Sending
    <3>4. m \in MessageT BY <2>2, <3>2, SentFields
    <3> HIDE DEF v, m
    <3>5. toReader' = Append(toReader, m)
          /\ client'.pending = Put(client.pending, "ADD_ACCESSSPEC", v)
      BY <1>0, <2>1, <2>3, <3>3, <3>4, Written
    <3>6. want' = [want EXCEPT ![a.id] = SpecOf(a)] BY <2>1, <3>3 DEF Asked, SpecOf
    <3>7. Lasting(toClient, Append(toReader, m), Put(client.pending, "ADD_ACCESSSPEC", v),
                  reader.specs, [want EXCEPT ![a.id] = SpecOf(a)])
      BY <1>0, <1>02, <1>03, <2>1, <2>2, <2>5, StartLasts DEF Idle, v, m
    <3>. QED BY <2>1, <3>5, <3>6, <3>7
  <2>. QED BY <2>4, <2>5
<1>2. ASSUME NEW access \in Accesses, NextAccess(access)
      PROVE  Lasting(toClient, toReader, client.pending, reader.specs, want)'
  <2> DEFINE c == nextAccess(Begin, access)
             v == Request("disable_accessspec_cb", access)
             m == Waited("DISABLE_ACCESSSPEC", access)
  <2>1. /\ Connected /\ ~stopping /\ calm
        /\ End(c) /\ Asked(c, access) /\ toClient' = toClient /\ reader' = reader
    BY <1>2 DEF NextAccess, Call, Opportune
  <2>2. access \in AccessT /\ access.id \in Ids BY AccessTyped
  <2>3. /\ "DISABLE_ACCESSSPEC" \in Requests /\ "DISABLE_ACCESSSPEC" \in Names
        /\ "disable_accessspec_cb" \in Callbacks
    BY ChainNames
  <2>4. /\ c \in HandlerT
        /\ client.pending["DISABLE_ACCESSSPEC"] # NoRequest =>
              c.raised /\ c.pending = client.pending /\ c.out = << >>
        /\ client.pending["DISABLE_ACCESSSPEC"] = NoRequest =>
              /\ ~ c.raised /\ c.pending = Put(client.pending, "DISABLE_ACCESSSPEC", v)
              /\ c.out = Append(<< >>, m)
    BY <1>0, <2>2, <2>3, Sending DEF nextAccess
  <2>5. m \in MessageT BY <2>2, <2>3, SentFields
  <2> HIDE DEF c, v, m
  <2>6. CASE client.pending["DISABLE_ACCESSSPEC"] # NoRequest
    <3>1. want' = want BY <2>1, <2>4, <2>6 DEF Asked
    <3>2. toReader' = toReader /\ client'.pending = client.pending
      BY <1>0, <2>1, <2>4, <2>6, Written
    <3>. QED BY <1>0, <1>03, <2>1, <3>1, <3>2, Undisturbed
  <2>7. CASE client.pending["DISABLE_ACCESSSPEC"] = NoRequest
    <3>1. toReader' = Append(toReader, m)
          /\ client'.pending = Put(client.pending, "DISABLE_ACCESSSPEC", v)
      BY <1>0, <2>1, <2>4, <2>5, <2>7, Written
    <3>2. want' = [want EXCEPT ![access.id] = SpecOf(access)]
      BY <2>1, <2>4, <2>7 DEF Asked, SpecOf
    <3>3. Lasting(toClient, Append(toReader, m), Put(client.pending, "DISABLE_ACCESSSPEC", v),
                  reader.specs, [want EXCEPT ![access.id] = SpecOf(access)])
      BY <1>0, <1>02, <1>03, <2>1, <2>2, <2>7, NextLasts DEF v, m
    <3>. QED BY <2>1, <3>1, <3>2, <3>3
  <2>. QED BY <2>6, <2>7
<1>3. ASSUME NEW id \in Ids, SendDeleteAccessSpec(id)
      PROVE  Lasting(toClient, toReader, client.pending, reader.specs, want)'
  <2> DEFINE a == [All EXCEPT !.id = id]
             c == sendMessage(Begin, "DELETE_ACCESSSPEC", a)
             m == Unwaited("DELETE_ACCESSSPEC", a)
  <2>1. /\ Connected /\ ~stopping /\ calm /\ Idle
        /\ End(c) /\ toClient' = toClient /\ reader' = reader
        /\ want' = IF c.raised THEN want ELSE [want EXCEPT ![id] = Absent]
    BY <1>3 DEF SendDeleteAccessSpec, Call, Opportune
  <2>2. a \in AccessT /\ a.id = id BY Typed DEF AccessT, All
  <2>3. "DELETE_ACCESSSPEC" \in Requests /\ "DELETE_ACCESSSPEC" \in Names BY ChainNames
  <2> HIDE DEF a
  <2>4. Begin.pending["DELETE_ACCESSSPEC"] = NoRequest BY <1>0, <2>1, <2>3 DEF Idle
  <2>5. /\ c \in HandlerT /\ c.pending = client.pending /\ ~ c.raised
        /\ c.out = Append(<< >>, m)
    BY <1>0, <2>2, <2>3, <2>4, Untracked
  <2>6. m \in MessageT BY <2>2, <2>3, SentFields
  <2> HIDE DEF c, m
  <2>7. toReader' = Append(toReader, m) /\ client'.pending = client.pending
    BY <1>0, <2>1, <2>5, <2>6, Written
  <2>8. want' = [want EXCEPT ![a.id] = Absent] BY <2>1, <2>2, <2>5
  <2>9. Lasting(toClient, Append(toReader, m), client.pending, reader.specs,
                [want EXCEPT ![a.id] = Absent])
    BY <1>0, <1>03, <2>1, <2>2, DeleteLasts DEF Idle, m
  <2>. QED BY <2>1, <2>7, <2>8, <2>9
<1>4. ASSUME Disconnect PROVE FALSE BY <1>4 DEF Disconnect
<1>5. CASE Receive
  <2> DEFINE h == Head(toClient)
             c == IF h.live THEN processDeferreds(Begin, h.name, h.ok) ELSE Begin
             d == IF c.raised THEN HangUp(c) ELSE c
  <2>1. /\ Connected /\ ~stopping /\ calm /\ toClient # << >> /\ toClient' = Tail(toClient) /\ End(d)
        /\ reader' = reader /\ want' = want
    BY <1>5 DEF Receive
  <2>2. CASE ~ h.live
    <3>1. d = Begin BY <1>0, <2>2
    <3>2. client'.pending = client.pending /\ toReader' = toReader
      BY <1>0, <2>1, <3>1, SameClient
    <3>. QED BY <1>0, <1>03, <2>1, <3>2, Undisturbed
  <2>3. CASE h.live
    <3> DEFINE n == h.name
               p == client.pending
               b == Cleared(Begin, n)
               a == p[n].access
    <3>1. Tracked(toClient, toReader, p) /\ ChainCallbacks(p)
          /\ Lasting(toClient, toReader, p, reader.specs, want)
      BY <1>02, <1>03, <2>1
    <3>2. n \in Requests /\ p[n] # NoRequest /\ p[n] \in RequestT
      <4> HIDE DEF p
      <4>. QED BY <1>0, <2>1, <2>3, <3>1, Taken DEF p
    <3>3. n \in Names /\ h.ok \in BOOLEAN /\ a \in AccessT
      <4>1. h \in AnswerT BY <1>0, <2>1
      <4>. QED BY <3>2, <4>1 DEF AnswerT, RequestT
    <3>4. c = processDeferreds(Begin, n, h.ok) BY <2>3
    <3> HIDE DEF h, c
    <3>5. /\ b \in HandlerT /\ ~ b.raised /\ b.out = << >> /\ b.state = client.state
          /\ b.pending = Put(p, n, NoRequest) /\ c = Completed(b, p[n], h.ok) /\ c \in HandlerT
      BY <1>0, <3>2, <3>3, <3>4, Processed
    <3> HIDE DEF b, a, n, p
    <3>6. ~ c.raised /\ d = c
      <4>1. c.raised => HangUp(c) \in HandlerT /\ HangUp(c).state = "DISCONNECTED"
        BY <3>5, HungUp
      <4>2. c.raised => client'.state = "DISCONNECTED" BY <1>0, <2>1, <4>1, Written
      <4>. QED BY <1>01, <4>2
    <3>7. End(c) BY <2>1, <3>6
    <3>8. \A x \in Requests : b.pending[x] = IF x = n THEN NoRequest ELSE p[x]
      BY <1>0, <3>5 DEF Put, Pendings, p
    <3>9. CASE n = "ADD_ACCESSSPEC"
      <4> DEFINE m == Unwaited("ENABLE_ACCESSSPEC", a)
      <4>1. /\ h.ok
            /\ Lasting(Tail(toClient), Append(toReader, m), Put(p, n, NoRequest), reader.specs, want)
        BY <1>0, <2>1, <2>3, <3>1, <3>9, EnableLasts DEF a, h, n, p
      <4>2. c = sendMessage(b, "ENABLE_ACCESSSPEC", a)
        <5>1. p[n].cb = "add_accessspec_cb" BY <3>1, <3>2, <3>9 DEF ChainCallbacks
        <5>. QED BY <3>5, <4>1, <5>1 DEF Completed, add_accessspec_cb, a
      <4>3. "ENABLE_ACCESSSPEC" \in Names /\ "ENABLE_ACCESSSPEC" \notin Requests BY ChainNames
      <4>4. c.pending = b.pending /\ c.out = Append(<< >>, m)
        BY <3>3, <3>5, <4>2, <4>3, Untracked
      <4>5. m \in MessageT BY <3>3, <4>3, SentFields
      <4> HIDE DEF m
      <4>6. toReader' = Append(toReader, m) /\ client'.pending = Put(p, n, NoRequest)
        BY <1>0, <3>5, <3>7, <4>4, <4>5, Written
      <4>. QED BY <2>1, <4>1, <4>6
    <3>10. CASE n = "DISABLE_ACCESSSPEC"
      <4> DEFINE m == Waited("DELETE_ACCESSSPEC", a)
                 v == Request("start_next_accessspec_cb", a)
      <4>1. c = send_request(b, "DELETE_ACCESSSPEC", a, "start_next_accessspec_cb", b.state)
        <5>1. p[n].cb = "disable_accessspec_cb" BY <3>1, <3>2, <3>10 DEF ChainCallbacks
        <5>. QED BY <3>5, <5>1 DEF Completed, disable_accessspec_cb, a
      <4>2. /\ "DELETE_ACCESSSPEC" \in Names /\ "DELETE_ACCESSSPEC" \in Requests
            /\ "start_next_accessspec_cb" \in Callbacks /\ b.state \in States
        BY <1>0, <3>5, ChainNames
      <4>3. b.pending["DELETE_ACCESSSPEC"] = NoRequest
        BY <3>3, <3>5, <3>6, <4>1, <4>2, Sending
      <4>4. c.pending = Put(b.pending, "DELETE_ACCESSSPEC", v) /\ c.out = Append(<< >>, m)
        BY <3>3, <3>5, <4>1, <4>2, <4>3, Sending
      <4>5. p["DELETE_ACCESSSPEC"] = NoRequest BY <3>8, <3>10, <4>2, <4>3
      <4>6. Lasting(Tail(toClient), Append(toReader, m),
                    Put(Put(p, n, NoRequest), "DELETE_ACCESSSPEC", v), reader.specs, want)
        BY <1>0, <2>1, <2>3, <3>1, <3>10, <4>5, DisabledLasts DEF a, h, n, p
      <4>7. m \in MessageT BY <3>3, <4>2, SentFields
      <4> HIDE DEF m, v
      <4>8. toReader' = Append(toReader, m)
            /\ client'.pending = Put(Put(p, n, NoRequest), "DELETE_ACCESSSPEC", v)
        BY <1>0, <3>5, <3>7, <4>4, <4>7, Written
      <4>. QED BY <2>1, <4>6, <4>8
    <3>11. CASE n = "DELETE_ACCESSSPEC"
      <4> DEFINE m == Waited("ADD_ACCESSSPEC", a)
                 v == Request("add_accessspec_cb", a)
      <4>1. c = startAccess(b, a)
        <5>1. p[n].cb = "start_next_accessspec_cb" BY <3>1, <3>2, <3>11 DEF ChainCallbacks
        <5>. QED BY <3>5, <5>1 DEF Completed, start_next_accessspec_cb, a
      <4>2. /\ "ADD_ACCESSSPEC" \in Names /\ "ADD_ACCESSSPEC" \in Requests
            /\ "add_accessspec_cb" \in Callbacks /\ b.state \in States
        BY <1>0, <3>5, ChainNames
      <4>3. Buildable(a) /\ c = send_request(b, "ADD_ACCESSSPEC", a, "add_accessspec_cb", b.state)
        BY <3>3, <3>5, <3>6, <4>1, Started
      <4>4. b.pending["ADD_ACCESSSPEC"] = NoRequest
        BY <3>3, <3>5, <3>6, <4>2, <4>3, Sending
      <4>5. c.pending = Put(b.pending, "ADD_ACCESSSPEC", v) /\ c.out = Append(<< >>, m)
        BY <3>3, <3>5, <4>2, <4>3, <4>4, Sending
      <4>6. p["ADD_ACCESSSPEC"] = NoRequest BY <3>8, <3>11, <4>2, <4>4
      <4>7. Lasting(Tail(toClient), Append(toReader, m),
                    Put(Put(p, n, NoRequest), "ADD_ACCESSSPEC", v), reader.specs, want)
        BY <1>0, <2>1, <2>3, <3>1, <3>11, <4>3, <4>6, ReplacedLasts DEF a, h, n, p
      <4>8. m \in MessageT BY <3>3, <4>2, SentFields
      <4> HIDE DEF m, v
      <4>9. toReader' = Append(toReader, m)
            /\ client'.pending = Put(Put(p, n, NoRequest), "ADD_ACCESSSPEC", v)
        BY <1>0, <3>5, <3>7, <4>5, <4>8, Written
      <4>. QED BY <2>1, <4>7, <4>9
    <3>12. n # "DELETE_ROSPEC" BY <3>1, <3>2 DEF ChainCallbacks
    <3>. QED BY <3>2, <3>9, <3>10, <3>11, <3>12, ChainNames
  <2>. QED BY <2>2, <2>3
<1>6. ASSUME NEW name \in Requests, RequestTimeout(name) PROVE FALSE
  BY <1>6 DEF RequestTimeout
<1>7. CASE ReaderHandles
  <2> DEFINE h == Head(toReader)
             ok == Acceptable(h)
             reader2 == IF ok THEN Obey(h) ELSE reader
  <2>1. /\ toReader # << >> /\ toReader' = Tail(toReader) /\ reader' = reader2
        /\ toClient' = IF Connected THEN Append(toClient, Answer(h, ok)) ELSE toClient
        /\ client' = client /\ want' = want /\ ~stopping /\ calm
    BY <1>7 DEF ReaderHandles
  <2>2. Connected BY <1>01, <2>1 DEF Connected
  <2>3. h \in MessageT /\ ok \in BOOLEAN
    <3>1. h \in MessageT BY <1>0, <2>1
    <3>. QED BY <3>1 DEF Acceptable, MessageT, Names, Requests
  <2>4. h.access.id \in Ids
    <3>1. 1 \in 1 .. Len(toReader) /\ h = toReader[1] BY <1>0, <2>1, Shifted
    <3>. QED BY <1>03, <2>1, <2>2, <3>1 DEF Lasting, Matched
  <2>5. Treated(h, ok, reader.specs, reader2.specs) BY <1>0, <2>3, <2>4, TreatedRight
  <2> HIDE DEF ok, reader2
  <2>6. Lasting(Append(toClient, Answer(h, ok)), Tail(toReader), client.pending, reader2.specs, want)
    BY <1>0, <1>02, <1>03, <2>1, <2>2, <2>3, <2>5, HandledLasts
  <2>. QED BY <2>1, <2>2, <2>6
<1>8. ASSUME ReaderRejects PROVE FALSE BY <1>8 DEF ReaderRejects
<1>9. ASSUME NEW id \in Ids, CountReached(id)
      PROVE  Lasting(toClient, toReader, client.pending, reader.specs, want)'
  <2>1. /\ reader.specs[id].enabled /\ reader.specs[id].counted
        /\ reader' = [reader EXCEPT !.specs[id] = Absent]
        /\ UNCHANGED <<client, toReader, toClient, want, stopping, calm>>
    BY <1>9 DEF CountReached
  <2>2. reader'.specs = [reader.specs EXCEPT ![id] = Absent] BY <1>0, <2>1
  <2>3. Connected /\ ~stopping /\ calm BY <1>01, <2>1 DEF Connected
  <2>4. Lasting(toClient, toReader, client.pending, [reader.specs EXCEPT ![id] = Absent], want)
    BY <1>0, <1>02, <1>03, <2>1, <2>3, CountLasts
  <2>. QED BY <2>1, <2>2, <2>4
<1>10. CASE UNCHANGED vars
  <2>1. /\ Connected /\ ~stopping /\ calm /\ client' = client /\ toReader' = toReader
        /\ toClient' = toClient /\ reader' = reader /\ want' = want
    BY <1>01, <1>10 DEF vars, Connected
  <2>. QED BY <1>0, <1>03, <2>1, Undisturbed
<1>. QED BY <1>1, <1>2, <1>3, <1>4, <1>5, <1>6, <1>7, <1>8, <1>9, <1>10 DEF Next

LEMMA InitLast == Init => LastInv
<1> SUFFICES ASSUME Init
             PROVE  Lasting(toClient, toReader, client.pending, reader.specs, want)
  BY DEF LastInv
<1>1. /\ toReader = << >> /\ toClient = << >> /\ Len(<< >>) = 0
      /\ \A n \in Requests : client.pending[n] = NoRequest
      /\ \A id \in Ids : reader.specs[id] = Absent /\ want[id] = Absent
  BY DEF Init
<1>2. \A i \in 1 .. 0 : FALSE OBVIOUS
<1>3. /\ Matched(toReader, client.pending) /\ Vacant(toReader, reader.specs)
      /\ Emptied(toClient, toReader, client.pending, reader.specs) /\ Added(toClient)
  BY <1>1, <1>2 DEF Matched, Vacant, Emptied, Added
<1>4. \A id \in Ids : Underway(toReader, client.pending, reader.specs, want[id], id)
  BY <1>1, ChainNames DEF Underway, Waiting, Landing
<1>. QED BY <1>3, <1>4 DEF Lasting

(* LastInForce: startAccess, nextAccess and the untracked delete may follow *)
(* and overlap as Opportune lets them, for any identifiers, operations and  *)
(* counts: once nothing is in flight, and unless a request was rejected or  *)
(* timed out, the reader runs what was asked for last, for each identifier. *)
THEOREM LastInForce ==
    ASSUME ~ AnyTime
    PROVE  Spec => []LastAccessInForce
<1>1. IInv /\ LastInv => LastAccessInForce
  <2> SUFFICES ASSUME IInv, LastInv, Quiet, calm, client.state = "INVENTORYING", NEW id \in Ids
               PROVE  \/ reader.specs[id] = want[id]
                      \/ want[id].counted /\ reader.specs[id] = Absent
    BY DEF LastAccessInForce
  <2>1. Connected BY DEF Connected
  <2>2. ~ stopping
    BY DEF IInv, StopInv, Deleting, Deleted, Stopping, Stopped, Closed
  <2>3. Underway(toReader, client.pending, reader.specs, want[id], id)
    BY <2>1, <2>2 DEF LastInv, Lasting
  <2>4. Landing(toReader, reader.specs, want[id], id)
    BY <2>3, ChainNames DEF Quiet, Idle, Underway, Waiting
  <2>5. toReader = << >> /\ Len(<< >>) = 0 /\ \A i \in 1 .. 0 : FALSE BY DEF Quiet
  <2>. QED BY <2>4, <2>5 DEF Landing, DeletedBy
<1>2. Init => IInv /\ LastInv BY InitInv, InitLast
<1>3. IInv /\ LastInv /\ [Next]_vars => (IInv /\ LastInv)'
  BY LastStep, TypeStep, ChainStep, StopStep DEF IInv
<1>. QED BY <1>1, <1>2, <1>3, PTL DEF Spec
=============================================================================
