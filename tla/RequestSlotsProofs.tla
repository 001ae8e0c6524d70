------------------------- MODULE RequestSlotsProofs ------------------------
(***************************************************************************)
(* Request correlation implements RequestSlots: with all its keys, timers  *)
(* and threads, PendingRequests behaves as one slot per response name, for *)
(* every value of the constants and whatever the reader answers.  The      *)
(* books of PendingRequestsProofs make every step a step of RequestSlots   *)
(* or a stutter.                                                           *)
(***************************************************************************)
EXTENDS PendingRequestsProofs

(* The refinement mapping of PendingRequests, by name. *)
Sole(C)   == IF C = {} THEN 0 ELSE CHOOSE c \in C : TRUE
SlotOf    == [n \in Names |-> Sole(deferreds[n])]
Withdrawn == (1 .. nreq) \ (Called \cup Listed)

(* SoleValue: the slot of one listed callback is that callback. *)
LEMMA SoleValue == ASSUME NEW c PROVE Sole({c}) = c /\ Sole({}) = 0
BY DEF Sole

(* SlotValue: the slot of a name holds the callback listed under it. *)
LEMMA SlotValue ==
    ASSUME Books, NEW n \in Names
    PROVE  /\ SlotOf[n] = 0 <=> deferreds[n] = {}
           /\ \A c \in deferreds[n] : SlotOf[n] = c /\ deferreds[n] = {c}
           /\ SlotOf[n] # 0 => SlotOf[n] \in deferreds[n]
<1> USE DEF Books
<1>1. deferreds[n] \subseteq Callbacks BY DEF TypeOK
<1>2. 0 \notin Callbacks BY DEF Callbacks
<1>3. CASE deferreds[n] = {} BY <1>3 DEF SlotOf, Sole
<1>4. CASE deferreds[n] # {}
  <2>1. SlotOf[n] = CHOOSE c \in deferreds[n] : TRUE BY <1>4 DEF SlotOf, Sole
  <2>2. SlotOf[n] \in deferreds[n] BY <1>4, <2>1
  <2>3. \A c \in deferreds[n] : c = SlotOf[n] BY <2>2 DEF ListedInv
  <2>. QED BY <1>1, <1>2, <1>4, <2>2, <2>3
<1>. QED BY <1>3, <1>4

(* ListedFacts: a listed callback has been handed out, has not run and is  *)
(* listed under one name only.                                             *)
LEMMA ListedFacts ==
    ASSUME Books
    PROVE  /\ Listed \subseteq (1 .. nreq) \ Called
           /\ Called \subseteq 1 .. nreq
           /\ \A n, m \in Names : \A c : c \in deferreds[n] /\ c \in deferreds[m] => n = m
<1> USE DEF Books
<1>1. ASSUME NEW n \in Names, NEW c \in deferreds[n]
      PROVE  c \in 1 .. nreq /\ c \notin Called
  <2>1. runs[c] = 0 /\ c <= nreq BY <1>1 DEF ListedInv
  <2>2. c \in Callbacks BY <1>1 DEF TypeOK
  <2>. QED BY <2>1, <2>2 DEF TypeOK, Callbacks, Called
<1>2. Listed \subseteq (1 .. nreq) \ Called BY <1>1 DEF Listed
<1>3. Called \subseteq 1 .. nreq
  <2>1. \A c \in Called : c \in Callbacks /\ ~ (c > nreq)
    BY DEF Called, FreshInv, TypeOK
  <2>. QED BY <2>1 DEF TypeOK, Callbacks
<1>4. \A n, m \in Names : \A c : c \in deferreds[n] /\ c \in deferreds[m] => n = m
  BY DEF ListedInv
<1>. QED BY <1>2, <1>3, <1>4

-----------------------------------------------------------------------------
(* SlotsStutter: a step that touches no callback leaves every slot alone. *)
LEMMA SlotsStutter ==
    ASSUME UNCHANGED << deferreds, runs, nreq >>
    PROVE  UNCHANGED << SlotOf, Called, Withdrawn >>
BY DEF SlotOf, Called, Withdrawn, Listed

(* Unlisted: unlisting c under n frees that slot, and no other. *)
LEMMA Unlisted ==
    ASSUME Books, NEW n \in Names, NEW c \in deferreds[n],
           deferreds' = [deferreds EXCEPT ![n] = @ \ {c}]
    PROVE  /\ SlotOf[n] = c /\ SlotOf[n] # 0
           /\ SlotOf' = [SlotOf EXCEPT ![n] = 0]
           /\ Listed' = Listed \ {c}
<1> USE DEF Books
<1>1. deferreds[n] = {c} /\ SlotOf[n] = c /\ SlotOf[n] # 0 BY SlotValue
<1>2. \A m \in Names : deferreds'[m] = IF m = n THEN {} ELSE deferreds[m]
  BY <1>1 DEF TypeOK
<1>3. SlotOf' = [SlotOf EXCEPT ![n] = 0] BY <1>2, SoleValue DEF SlotOf
<1>4. Listed' = Listed \ {c}
  BY <1>1, <1>2, ListedFacts DEF Listed
<1>. QED BY <1>1, <1>3, <1>4

(* RanOnce: calling one callback adds it to those called. *)
LEMMA RanOnce ==
    ASSUME TypeOK, NEW c \in Callbacks, runs' = Run({c})
    PROVE  Called' = Called \cup {c}
<1>1. \A d \in Callbacks : runs'[d] = IF d = c THEN runs[d] + 1 ELSE runs[d]
  BY DEF Run
<1>2. runs[c] \in Nat BY DEF TypeOK
<1>3. \A d \in Callbacks : d \in Called' <=> runs'[d] > 0 BY DEF Called
<1>4. \A d \in Callbacks : d \in Called <=> runs[d] > 0 BY DEF Called
<1>5. Called \subseteq Callbacks /\ Called' \subseteq Callbacks BY DEF Called
<1>6. runs[c] + 1 > 0 BY <1>2
<1>7. \A d \in Callbacks : d \in Called' <=> d = c \/ d \in Called
  BY <1>1, <1>3, <1>4, <1>6
<1>. QED BY <1>5, <1>7

(* CompleteStep: calling the callback that is listed is Complete of its    *)
(* slot.                                                                   *)
LEMMA CompleteStep ==
    ASSUME Books, NEW n \in Names, NEW c \in deferreds[n],
           deferreds' = [deferreds EXCEPT ![n] = @ \ {c}],
           runs' = Run({c}), nreq' = nreq
    PROVE  Slots!Complete(n)
<1> USE DEF Books
<1>1. /\ SlotOf[n] = c /\ SlotOf[n] # 0
      /\ SlotOf' = [SlotOf EXCEPT ![n] = 0]
      /\ Listed' = Listed \ {c}
  BY Unlisted
<1>2. c \in Callbacks BY DEF TypeOK
<1>3. Called' = Called \cup {c} BY <1>2, RanOnce
<1>4. c \in Listed BY DEF Listed
<1>5. Withdrawn' = Withdrawn BY <1>1, <1>3, <1>4 DEF Withdrawn
<1>. QED BY <1>1, <1>3, <1>5 DEF Slots!Complete, Slots!Free, SlotOf, Sole, Withdrawn

(* UnlistedCall: calling a callback that is not listed is LateCall, or a   *)
(* stutter when it had been called.                                        *)
LEMMA UnlistedCall ==
    ASSUME Books, NEW c \in Callbacks, c <= nreq, c \notin Listed,
           deferreds' = deferreds, runs' = Run({c}), nreq' = nreq
    PROVE  Slots!SlotsNext \/ UNCHANGED Slots!svars
<1> USE DEF Books
<1>1. SlotOf' = SlotOf /\ Listed' = Listed BY DEF SlotOf, Listed
<1>2. Called' = Called \cup {c} BY RanOnce
<1>3. c \in 1 .. nreq BY DEF TypeOK, Callbacks
<1>4. CASE c \in Called
  <2>1. Called' = Called /\ Withdrawn' = Withdrawn BY <1>1, <1>2, <1>4 DEF Withdrawn
  <2>. QED BY <1>1, <2>1 DEF Slots!svars, SlotOf, Sole, Withdrawn
<1>5. CASE c \notin Called
  <2>1. c \in Withdrawn /\ Withdrawn' = Withdrawn \ {c}
    BY <1>1, <1>2, <1>3, <1>5 DEF Withdrawn
  <2>2. Slots!LateCall(c)
    BY <1>1, <1>2, <2>1 DEF Slots!LateCall, SlotOf, Sole, Withdrawn
  <2>. QED BY <2>2 DEF Slots!SlotsNext
<1>. QED BY <1>4, <1>5

(* LiveUnlisted: a live request's callback is listed under its name or not *)
(* at all.                                                                 *)
LEMMA LiveUnlisted ==
    ASSUME Books, NEW r \in Live
    PROVE  /\ r.name \in Names /\ r.cb \in Callbacks /\ r.cb <= nreq
           /\ r.cb \notin deferreds[r.name] => r.cb \notin Listed
<1> USE DEF Books
<1>1. r \in Requests /\ r.name \in Names /\ r.cb \in Callbacks
  BY DEF TypeOK, Live, Requests
<1>2. r.cb <= nreq /\ key[r.cb][1] = r.name BY DEF LiveInv, Key
<1>3. \A n \in Names : r.cb \in deferreds[n] => n = r.name BY <1>2 DEF ListedInv
<1>. QED BY <1>1, <1>2, <1>3 DEF Listed

(* CallStep: a live request's callback is unlisted, if it is listed, and   *)
(* called.                                                                 *)
LEMMA CallStep ==
    ASSUME Books, NEW r \in Live, runs' = Run({r.cb}), nreq' = nreq,
           \/ deferreds' = [deferreds EXCEPT ![r.name] = @ \ {r.cb}]
           \/ deferreds' = deferreds /\ r.cb \notin deferreds[r.name]
    PROVE  Slots!SlotsNext \/ UNCHANGED Slots!svars
<1>1. r.name \in Names /\ r.cb \in Callbacks /\ r.cb <= nreq BY LiveUnlisted
<1>2. CASE r.cb \in deferreds[r.name]
  <2>1. deferreds' = [deferreds EXCEPT ![r.name] = @ \ {r.cb}] BY <1>2
  <2>2. Slots!Complete(r.name) BY <1>1, <1>2, <2>1, CompleteStep
  <2>. QED BY <1>1, <2>2 DEF Slots!SlotsNext
<1>3. CASE r.cb \notin deferreds[r.name]
  <2>1. deferreds' = deferreds
    <3>1. CASE deferreds' = [deferreds EXCEPT ![r.name] = @ \ {r.cb}]
      <4>1. deferreds[r.name] \ {r.cb} = deferreds[r.name] BY <1>3
      <4>. QED BY <1>1, <3>1, <4>1 DEF Books, TypeOK
    <3>. QED BY <3>1
  <2>2. r.cb \notin Listed BY <1>3, LiveUnlisted
  <2>. QED BY <1>1, <2>1, <2>2, UnlistedCall
<1>. QED BY <1>2, <1>3

(* RunListedStep: an unmatched response frees the slot of its name, or     *)
(* calls a withdrawn callback, or does nothing.                            *)
LEMMA RunListedStep ==
    ASSUME Books, RunListed
    PROVE  Slots!SlotsNext \/ UNCHANGED Slots!svars
<1>1. rx.step = "unmatched" /\ nreq' = nreq BY DEF RunListed
<1>2. rx # NoResponse BY <1>1 DEF NoResponse
<1>3. CASE IsStale(Key(rx))
  <2>1. UNCHANGED << deferreds, runs, nreq >> BY <1>1, <1>3 DEF RunListed
  <2>. QED BY <2>1, SlotsStutter DEF Slots!svars, SlotOf, Sole, Withdrawn
<1>4. CASE ~ IsStale(Key(rx))
  <2>1. Unlist(Held) /\ runs' = Run(Held) BY <1>4 DEF RunListed
  <2>2. /\ held.shared => deferreds' = [deferreds EXCEPT ![rx.name] = {}]
        /\ ~ held.shared => deferreds' = deferreds
    BY <1>2, <2>1, Emptied
  <2>3. rx.name \in Names /\ \A c \in Held : c \in Callbacks /\ c <= nreq /\ \A d \in Held : c = d
    BY <1>2, HeldFacts
  <2>4. CASE Held = {}
    <3>1. runs' = [c \in Callbacks |-> runs[c]] BY <2>1, <2>4 DEF Run
    <3>2. deferreds' = deferreds
      <4>1. CASE held.shared
        <5>1. deferreds[rx.name] = {} BY <2>4, <4>1 DEF Held
        <5>. QED BY <2>2, <2>3, <4>1, <5>1 DEF Books, TypeOK
      <4>. QED BY <2>2, <4>1
    <3>3. runs' = runs BY <3>1 DEF Books, TypeOK
    <3>. QED BY <1>1, <3>2, <3>3, SlotsStutter DEF Slots!svars, SlotOf, Sole, Withdrawn
  <2>5. ASSUME NEW c \in Held PROVE Slots!SlotsNext \/ UNCHANGED Slots!svars
    <3>1. Held = {c} /\ runs' = Run({c}) BY <2>1, <2>3
    <3>2. CASE held.shared
      <4>1. PICK n \in Names : n = rx.name BY <2>3
      <4>2. deferreds[n] = {c} BY <3>1, <3>2, <4>1 DEF Held
      <4>3. deferreds' = [deferreds EXCEPT ![n] = @ \ {c}] BY <2>2, <3>2, <4>1, <4>2
      <4>4. Slots!Complete(n) BY <1>1, <3>1, <4>2, <4>3, CompleteStep
      <4>. QED BY <4>4 DEF Slots!SlotsNext
    <3>3. CASE ~ held.shared
      <4>1. c \notin Listed BY <3>3 DEF Books, HeldInv, Held, Listed
      <4>. QED BY <1>1, <2>2, <2>3, <3>1, <3>3, <4>1, UnlistedCall
    <3>. QED BY <3>2, <3>3
  <2>. QED BY <2>4, <2>5
<1>. QED BY <1>3, <1>4

(* AbandonStep: unlisting a callback without calling it is Abandon.        *)
LEMMA AbandonStep ==
    ASSUME Books, NEW n \in Names, NEW c \in deferreds[n],
           deferreds' = [deferreds EXCEPT ![n] = @ \ {c}], runs' = runs, nreq' = nreq
    PROVE  Slots!SlotsNext
<1>1. /\ SlotOf[n] = c /\ SlotOf[n] # 0
      /\ SlotOf' = [SlotOf EXCEPT ![n] = 0]
      /\ Listed' = Listed \ {c}
  BY Unlisted
<1>2. Called' = Called BY DEF Called
<1>3. c \in Listed BY DEF Listed
<1>4. Withdrawn' = Withdrawn \cup {c} BY <1>1, <1>2, <1>3, ListedFacts DEF Withdrawn
<1>5. Slots!Abandon(n)
  BY <1>1, <1>2, <1>4 DEF Slots!Abandon, Slots!Free, SlotOf, Sole, Withdrawn
<1>. QED BY <1>5 DEF Slots!SlotsNext

(* SlotsStep: every step of the registry, its timers and its threads is a  *)
(* step of the slots or leaves them alone.                                 *)
LEMMA SlotsStep ==
    ASSUME Books, [Next]_vars
    PROVE  [Slots!SlotsNext]_(Slots!svars)
<1>1. ASSUME UNCHANGED << deferreds, runs, nreq >> PROVE UNCHANGED Slots!svars
  BY <1>1, SlotsStutter DEF Slots!svars, SlotOf, Sole, Withdrawn
<1> USE DEF Books
<1>2. ASSUME NEW n \in Names, Register(n) PROVE Slots!SlotsNext
  <2>1. nreq + 1 \in Callbacks /\ nreq \in Nat
    BY <1>2, BoundsAssumption DEF Register, TypeOK, Callbacks
  <2>2. PICK c \in Callbacks : c = nreq + 1 BY <2>1
  <2>3. /\ deferreds[n] = {} /\ deferreds' = [deferreds EXCEPT ![n] = {c}]
        /\ nreq' = nreq + 1 /\ runs' = runs
    BY <1>2, <2>2 DEF Register, Sendable
  <2>4. \A m \in Names : deferreds'[m] = IF m = n THEN {c} ELSE deferreds[m]
    BY <2>3 DEF TypeOK
  <2>5. SlotOf' = [SlotOf EXCEPT ![n] = c] BY <2>4, SoleValue DEF SlotOf
  <2>6. Called' = Called /\ Listed' = Listed \cup {c}
    BY <2>3, <2>4 DEF Called, Listed
  <2>7. Withdrawn' = Withdrawn
    BY <2>1, <2>2, <2>3, <2>6, ListedFacts DEF Withdrawn
  <2>8. SlotOf[n] = 0 BY <2>3, SlotValue
  <2>9. c \notin Called \cup Withdrawn BY <2>1, <2>2, ListedFacts DEF Withdrawn
  <2>10. \A m \in Names : SlotOf[m] # 0 => SlotOf[m] # c
    <3>1. \A m \in Names : SlotOf[m] # 0 => SlotOf[m] \in Listed
      BY SlotValue DEF Listed
    <3>. QED BY <2>1, <2>2, <3>1, ListedFacts
  <2>11. c \notin Slots!Occupants
    BY <2>10 DEF Slots!Occupants, Slots!Free, SlotOf, Sole
  <2>12. Slots!Take(n, c)
    BY <2>5, <2>6, <2>7, <2>8, <2>9, <2>11 DEF Slots!Take, Slots!Free, SlotOf,
       Sole, Withdrawn
  <2>. QED BY <2>12 DEF Slots!SlotsNext
<1>3. CASE SendFails
  <2>1. /\ deferreds' = [deferreds EXCEPT ![sending.name] = @ \ {sending.cb}]
        /\ nreq' = nreq /\ runs' = runs /\ sending # NoRequest
    BY <1>3 DEF SendFails
  <2>2. sending.name \in Names BY <2>1 DEF TypeOK, Requests
  <2>3. CASE sending.cb \notin deferreds[sending.name]
    <3>1. deferreds' = deferreds BY <2>1, <2>2, <2>3 DEF TypeOK
    <3>. QED BY <1>1, <2>1, <3>1
  <2>4. CASE sending.cb \in deferreds[sending.name]
    BY <2>1, <2>2, <2>4, AbandonStep
  <2>. QED BY <2>3, <2>4
<1>4. CASE PopExact
  <2>1. PICK r \in pending :
          /\ Key(r) = Key(rx) /\ rx.step = "taken"
          /\ Unlist({r.cb}) /\ runs' = Run({r.cb}) /\ nreq' = nreq
    BY <1>4 DEF PopExact
  <2>2. r \in Live /\ r.name = rx.name BY <2>1 DEF Live, Key
  <2>3. CASE held.shared
    <3>1. deferreds' = [deferreds EXCEPT ![r.name] = @ \ {r.cb}]
      BY <2>1, <2>2, <2>3 DEF Unlist
    <3>. QED BY <2>1, <2>2, <3>1, CallStep
  <2>4. CASE ~ held.shared
    <3>1. deferreds' = deferreds BY <2>1, <2>4 DEF Unlist
    <3>2. r.cb \notin deferreds[r.name] BY <2>1, <2>4 DEF HeldInv
    <3>. QED BY <2>1, <2>2, <3>1, <3>2, CallStep
  <2>. QED BY <2>3, <2>4
<1>5. CASE RunListed BY <1>5, RunListedStep
<1>6. CASE Finish
  <2>1. /\ deferreds' = [deferreds EXCEPT ![rx.name] = IF Held = {} THEN {} ELSE @]
        /\ nreq' = nreq /\ runs' = runs /\ rx.step = "ran"
    BY <1>6 DEF Finish
  <2>2. rx.name \in Names BY <2>1 DEF TypeOK, Responses, NoResponse
  <2>3. CASE Held = {} /\ deferreds[rx.name] # {}
    <3>1. PICK c \in deferreds[rx.name] : TRUE BY <2>3
    <3>2. deferreds[rx.name] \ {c} = {} BY <2>2, <3>1, SlotValue
    <3>3. deferreds' = [deferreds EXCEPT ![rx.name] = @ \ {c}] BY <2>1, <2>3, <3>2
    <3>. QED BY <2>1, <2>2, <3>3, AbandonStep
  <2>4. CASE ~ (Held = {} /\ deferreds[rx.name] # {})
    <3>1. deferreds' = deferreds BY <2>1, <2>2, <2>4 DEF TypeOK
    <3>. QED BY <1>1, <2>1, <3>1
  <2>. QED BY <2>3, <2>4
<1>7. ASSUME NEW r \in expired, OnRequestTimeout(r)
      PROVE  Slots!SlotsNext \/ UNCHANGED Slots!svars
  <2>1. /\ deferreds' = [deferreds EXCEPT ![r.name] = @ \ {r.cb}]
        /\ runs' = Run({r.cb}) /\ nreq' = nreq
    BY <1>7 DEF OnRequestTimeout
  <2>2. r \in Live BY DEF Live
  <2>. QED BY <2>1, <2>2, CallStep
<1>8. CASE ClearDeferreds
  <2>1. deferreds' = [n \in Names |-> {}] /\ runs' = runs /\ nreq' = nreq
    BY <1>8 DEF ClearDeferreds
  <2>2. SlotOf' = [n \in Names |-> 0] BY <2>1, SoleValue DEF SlotOf
  <2>3. Listed' = {} /\ Called' = Called BY <2>1 DEF Listed, Called
  <2>4. Slots!Occupants = Listed
    <3>1. \A n \in Names : SlotOf[n] # 0 => SlotOf[n] \in Listed
      BY SlotValue DEF Listed
    <3>2. \A n \in Names : \A c \in deferreds[n] : SlotOf[n] = c /\ SlotOf[n] # 0
      BY SlotValue
    <3>3. Slots!Occupants = { SlotOf[n] : n \in Names } \ {0}
      BY DEF Slots!Occupants, Slots!Free, SlotOf, Sole
    <3>. QED BY <3>1, <3>2, <3>3 DEF Listed
  <2>5. Withdrawn' = Withdrawn \cup Listed
    BY <2>1, <2>3, ListedFacts DEF Withdrawn
  <2>6. Slots!AbandonAll
    BY <2>2, <2>3, <2>4, <2>5 DEF Slots!AbandonAll, Slots!Free, SlotOf, Sole, Withdrawn
  <2>. QED BY <2>6 DEF Slots!SlotsNext
<1>9. CASE UNCHANGED << deferreds, runs, nreq >> BY <1>1, <1>9
<1>10. ASSUME \/ Transmit
              \/ \E n \in Untracked : SendUntracked(n)
              \/ \E n \in Names, id \in Ids : HandleMessage(n, id)
              \/ TakeList \/ PopNothing \/ DropMessage
              \/ \E r \in armed : TimerFires(r)
              \/ \E r \in fired : Expire(r)
              \/ CloseSocket \/ CancelAll \/ Reconnect
       PROVE  UNCHANGED << deferreds, runs, nreq >>
  BY <1>10 DEF Transmit, SendUntracked, HandleMessage, TakeList, PopNothing, DropMessage,
     TimerFires, Expire, CloseSocket, CancelAll, Reconnect, registry, history
<1> DEFINE Quiet == UNCHANGED << deferreds, runs, nreq >>
<1>11. \/ \E n \in Names : Register(n)
       \/ SendFails \/ PopExact \/ RunListed \/ Finish \/ ClearDeferreds
       \/ \E r \in expired : OnRequestTimeout(r)
       \/ Quiet
  <2>1. CASE UNCHANGED vars BY <2>1 DEF vars
  <2>2. CASE Next
    <3> HIDE DEF Quiet
    <3>1. UNCHANGED << deferreds, runs, nreq >> => Quiet BY DEF Quiet
    <3>. QED BY <1>10, <2>2, <3>1 DEF Next, ProcessDeferreds
  <2>. QED BY <2>1, <2>2
<1>. QED
  BY <1>2, <1>3, <1>4, <1>5, <1>6, <1>7, <1>8, <1>9, <1>11

(* SlotsStart: the client starts with every slot free. *)
LEMMA SlotsStart == Init => Slots!SlotsInit
<1> SUFFICES ASSUME Init PROVE Slots!SlotsInit OBVIOUS
<1>1. Called = {} /\ Withdrawn = {} BY DEF Init, Called, Withdrawn
<1>2. SlotOf = [n \in Names |-> 0] BY SoleValue DEF Init, SlotOf
<1>. QED BY <1>1, <1>2 DEF Slots!SlotsInit, Slots!Free, SlotOf, Sole, Withdrawn

(***************************************************************************)
(* RefinesSlots: the request layer implements RequestSlots, whatever the   *)
(* reader answers: a response name is taken by one request at a time and   *)
(* freed by its completion, its failed write, the end of the session or    *)
(* the dispatch of an older response; only a withdrawn callback may still  *)
(* be called.                                                              *)
(***************************************************************************)
THEOREM RefinesSlots == Spec => ImplementsSlots
<1>1. Init => Slots!SlotsInit BY SlotsStart
<1>2. Books /\ [Next]_vars => [Slots!SlotsNext]_(Slots!svars) BY SlotsStep
<1>. QED
  BY <1>1, <1>2, BooksKept, PTL DEF Spec, ImplementsSlots, Slots!SlotsSpec
=============================================================================
