---------------------------- MODULE LLRPMessage ----------------------------
(***************************************************************************)
(* LLRPMessage of sllurp/llrp.py: serialize, deserialize and isSuccess, on *)
(* messages a reader puts together from any parameters of the registry,    *)
(* well formed or not, and on the parameters the client encodes itself.    *)
(*                                                                         *)
(* The reader is external: it writes a parameter in the layout the client's*)
(* decoder expects (the encoder's, for a parameter the client only sends). *)
(* A part it adds may be spoilt: the body is one byte short or long, a     *)
(* code has no name, an inner count promises more than the body holds, the *)
(* type is one the registry does not know.                                 *)
(***************************************************************************)
EXTENDS ROSpecBuilder, FiniteSets

CONSTANTS Anchors,        \* parameters the reader puts around the one under test
          Samples,        \* parameters under test
          Replies,        \* messages the reader sends
          Readers,        \* readers, by their capabilities
          Configs,        \* configurations to try on each reader
          MaxParts        \* parameters in one message

VARIABLES reply,          \* name of the message the reader is putting together
          parts,          \* its parameters: [nm, form, v, wire]
          got,            \* what deserialize made of it
          reader,         \* the reader of the session
          capabilities,   \* what it told the client of itself
          sent            \* what the client encoded: [nm, v, wire]

vars == <<reply, parts, got, reader, capabilities, sent>>

-----------------------------------------------------------------------------
(* Messages.                                                                *)

MsgId == <<0, 0, 0, 7>>

serialize(nm, dict) ==
  LET row == Message_struct[nm]
      custom == nm = "CUSTOM_MESSAGE"
      body == EncodeBody(row, dict)
  IN IF nm \notin DOMAIN Message_struct THEN LLRPError
     ELSE IF ~row.enc.is THEN LLRPError
     ELSE Ok(msg_header_encode(row.id.type, Len(body), MsgId,
               IF custom THEN dict["VendorID"][2] ELSE Bytes(row.id.vendor, 4),
               IF custom THEN dict["Subtype"][2] ELSE Bytes(row.id.subtype, 1)) \o body, <<>>)

Failed == [r |-> "LLRPError", name |-> "", v |-> Empty]

(* Message decoders: RO_ACCESS_REPORT always shows a list of reports, a      *)
(* response must hold a status that could be decoded.                        *)
MessageOf(nm, all) ==
  IF \/ all.r # "ok"
     \/ Message_struct[nm].dec = "status" /\ "LLRPStatus" \notin DOMAIN all.v
  THEN Failed ELSE [r |-> "ok", name |-> nm, v |-> all.v]

DecodeMessage(nm, body) ==
  LET row == Message_struct[nm]
      dict == IF row.dec = "report" THEN "TagReportData" :> <<"pars", <<>>>> ELSE Empty
  IN IF row.dec = "none" THEN Failed
     ELSE MessageOf(nm, decode_all_parameters(body, row.n, dict))

(* A custom message the registry does not know is a CUSTOM_MESSAGE.          *)
DeserializeBody(data, h, id) ==
  IF \/ h.r # "ok"
     \/ h.length > Len(data)
     \/ id \notin DOMAIN Message_Type2Name /\ h.type # TYPE_CUSTOM
  THEN Failed
  ELSE DecodeMessage(IF id \in DOMAIN Message_Type2Name THEN Message_Type2Name[id]
                     ELSE "CUSTOM_MESSAGE", SubSeq(data, h.hdr + 1, h.length))

DeserializeAs(data, h) == DeserializeBody(data, h, <<h.type, h.vendor, h.subtype>>)

deserialize(data) == DeserializeAs(data, msg_header_decode(data))

Is(par, key, code) == key \in DOMAIN par[2] /\ par[2][key] = <<"name", code>>

isSuccess(msg) ==
  LET event == msg.v["ReaderEventNotificationData"]
  IN /\ msg.r = "ok"
     /\ IF msg.name = "READER_EVENT_NOTIFICATION"
        THEN /\ "ReaderEventNotificationData" \in DOMAIN msg.v
             /\ IF "ConnectionAttemptEvent" \in DOMAIN event[2]
                THEN Is(event[2]["ConnectionAttemptEvent"], "Status", 0)
                ELSE /\ "AntennaEvent" \in DOMAIN event[2]
                     /\ Is(event[2]["AntennaEvent"], "EventType", 1)
        ELSE "LLRPStatus" \in DOMAIN msg.v /\ Is(msg.v["LLRPStatus"], "StatusCode", 0)

-----------------------------------------------------------------------------
(* The reader.                                                              *)

RECURSIVE Written(_, _)

Octets(i, w, salt) == [j \in 1..w |-> (16 * i + j + 101 * salt) % 256]

LowCode(codes) == CHOOSE c \in codes : \A d \in codes : c <= d
HighCode(codes) == CHOOSE c \in codes : \A d \in codes : c >= d

SampleItem(item, i, salt) ==
  CASE item.k = "int" -> item.f :> <<"num", Octets(i, item.w, salt)>>
    [] item.k = "bits" -> [f \in {item.fs[j][1] : j \in DOMAIN item.fs} |->
         LET j == CHOOSE x \in DOMAIN item.fs : item.fs[x][1] = f
         IN <<"flag", (j + salt) % 2^item.fs[j][2]>>]
    [] item.k = "code" -> item.f :>
         <<"name", IF salt = 0 THEN LowCode(item.codes) ELSE HighCode(item.codes)>>
    [] item.k \in {"list", "blob"} ->
         (IF item.count = "" THEN Empty ELSE item.count :> <<"num", Bytes(2, item.cw)>>) @@
         item.f :> IF item.k = "blob" THEN <<"bytes", Octets(i, 2 * item.w, salt)>>
                   ELSE <<"list", <<Octets(i, item.w, salt), Octets(i + 1, item.w, salt)>>>>
    [] item.k = "rest" -> item.f :> <<"bytes", Octets(i, 12, salt)>>
    [] item.k = "hexbits" -> item.f :> <<"hex", <<10, 11, 12>>>>
    [] item.k = "embed" -> item.f :> <<"named", <<>>>>
    [] OTHER -> Empty

Sample(lay, salt) ==
  FoldLeftDomain(LAMBDA acc, i : acc @@ SampleItem(lay[i], i, salt), Empty, lay)

Layout(nm) == IF Param_struct[nm].dec.is THEN Param_struct[nm].dec.lay ELSE Param_struct[nm].enc.lay

(* What the reader means, and what the client's caller asks for.             *)
ReaderFields(nm, salt) == Sample(Layout(nm), salt)
ClientFields(nm, salt) ==
  LET dict == Sample(Param_struct[nm].enc.lay, salt) @@ Sample(Layout(nm), salt)
  IN [k \in DOMAIN dict \ {""} |-> dict[k]]

Value(dict) == IF "" \in DOMAIN dict THEN dict[""] ELSE <<"par", dict>>

(* A parameter that may hold others holds each usable one once, twice when   *)
(* it may repeat (salt 1).                                                   *)
Kids(nm, usable, Fill(_, _), salt) ==
  LET row == Param_struct[nm]
      own == {kid \in usable : \E i \in DOMAIN row.auto : row.auto[i][1] = kid}
  IN IF salt = 0 THEN Empty
     ELSE [kid \in own |->
             IF kid \in row.n
             THEN <<"pars", <<Value(Fill(kid, 1)), Value(Fill(kid, 0))>>>>
             ELSE Value(Fill(kid, 1))]

Decodable == {nm \in DOMAIN Param_struct : Param_struct[nm].dec.is}

Wrapped(nm, body) ==
  LET id == Param_struct[nm].id
  IN IF id.tv THEN <<128 + id.type>> \o body
     ELSE IF id.type = TYPE_CUSTOM
     THEN Bytes(TYPE_CUSTOM, 2) \o Bytes(12 + Len(body), 2) \o Bytes(id.vendor, 4)
          \o Bytes(id.subtype, 4) \o body
     ELSE Bytes(id.type, 2) \o Bytes(4 + Len(body), 2) \o body

WrittenItem(item, dict) ==
  IF item.k = "drop" THEN Octets(1, item.w, 0) ELSE PackItem(item, dict)

WrittenFields(nm, dict) ==
  FlattenSeq([i \in 1..Len(Layout(nm)) |-> WrittenItem(Layout(nm)[i], dict)])

WrittenKids(nm, dict) ==
  LET auto == Param_struct[nm].auto
  IN FlattenSeq([i \in 1..Len(auto) |->
       LET kid == auto[i][1]
       IN IF kid \notin DOMAIN dict THEN <<>>
          ELSE IF dict[kid][1] = "pars"
          THEN FlattenSeq([j \in 1..Len(dict[kid][2]) |-> Written(kid, dict[kid][2][j])])
          ELSE Written(kid, dict[kid])])

Written(nm, v) ==
  LET dict == IF v[1] = "par" THEN v[2] ELSE "" :> v
  IN Wrapped(nm, WrittenFields(nm, dict) \o WrittenKids(nm, dict))


(* Ways to write a parameter, <<way, salt, kid>>.  Whole: with its fields    *)
(* only, with all the parameters it may hold, or with one of them.  Spoilt:  *)
(* its own bytes are wrong but its header tells their number.                *)
Plain == {<<"bare", s, "">> : s \in 0..1}
Whole == Plain \cup {<<"full", s, "">> : s \in 0..1} \cup {<<"one", s, kid>> : s \in 0..1, kid \in Decodable}
Spoilt == {<<way, 0, "">> : way \in {"short", "long", "odd", "promising"}}

ReaderKids(nm, form) ==
  CASE form[1] = "full" -> Kids(nm, Decodable, ReaderFields, form[2])
    [] form[1] = "one" -> Kids(nm, {form[3]}, ReaderFields, form[2])
    [] OTHER -> Empty

ReaderValue(nm, form) ==
  Value(ReaderFields(nm, form[2]) @@
        IF Param_struct[nm].dec.tail = "walk" THEN ReaderKids(nm, form) ELSE Empty)

Fits(nm, form) ==
  LET row == Param_struct[nm]
      HasKind(kinds) == \E i \in DOMAIN Layout(nm) : Layout(nm)[i].k \in kinds
  IN CASE form[1] = "bare" -> TRUE
       [] form[1] \in {"full", "one"} -> row.dec.tail = "walk" /\ DOMAIN ReaderKids(nm, form) # {}
       [] form[1] = "short" -> ~row.id.tv /\ WrittenFields(nm, ReaderFields(nm, 0)) # <<>>
       [] form[1] = "long" -> ~row.id.tv
       [] form[1] = "odd" -> HasKind({"code"})
       [] form[1] = "promising" -> HasKind({"list", "blob"})

(* A code without a name; a count that promises more than there is.          *)
SpoiltItem(item, dict, way) ==
  CASE way = "odd" /\ item.k = "code" -> [j \in 1..item.w |-> 255]
    [] way = "promising" /\ item.k \in {"list", "blob"} -> <<0, 9>> \o From(PackItem(item, dict), 2)
    [] OTHER -> WrittenItem(item, dict)

SpoiltBody(nm, way) ==
  LET dict == ReaderFields(nm, 0)
      body == FlattenSeq([i \in 1..Len(Layout(nm)) |-> SpoiltItem(Layout(nm)[i], dict, way)])
  IN CASE way = "short" -> Front(body)
       [] way = "long" -> Append(body, 5)
       [] OTHER -> body

(* A parameter of a type the registry does not know.                         *)
UnknownType == "UnknownType"

Forms ==
  [nm \in DOMAIN Param_struct |-> {form \in Whole \cup (IF nm \in Decodable THEN Spoilt ELSE {}) :
                                      Fits(nm, form)}] @@
  UnknownType :> {<<"bare", 0, "">>}

Part(nm, form) ==
  [nm |-> nm, form |-> form,
   v |-> IF nm = UnknownType THEN Empty ELSE ReaderValue(nm, form),
   wire |-> IF nm = UnknownType THEN Bytes(999, 2) \o Bytes(6, 2) \o <<1, 2>>
            ELSE IF form \in Spoilt THEN Wrapped(nm, SpoiltBody(nm, form[1]))
            ELSE Written(nm, ReaderValue(nm, form))]

MessageWire(nm, body) ==
  LET id == Message_struct[nm].id
  IN msg_header_encode(id.type, Len(body), MsgId, Bytes(id.vendor, 4), Bytes(id.subtype, 1)) \o body

(* A reader's capabilities: its antennas, its power table as <<index, power>> *)
(* pairs, its RF modes as <<identifier, least Tari, greatest Tari>> and, as an *)
(* option, the bytes of Zebra's advanced capabilities.                        *)
Told(n, w) == <<"num", Bytes(n, w)>>
PowerEntry(p) == <<"par", "Index" :> Told(p[1], 2) @@ "TransmitPowerValue" :> Told(p[2], 2)>>
ModeEntry(mode) ==
  <<"par", "ModeIdentifier" :> Told(mode[1], 4) @@ "MinTari" :> Told(mode[2], 4) @@
           "MaxTari" :> Told(mode[3], 4) @@ ReaderFields("UHFC1G2RFModeTableEntry", 0)>>
Regulatory(rd) ==
  <<"par", ReaderFields("RegulatoryCapabilities", 0) @@ "UHFBandCapabilities" :> <<"par",
     "TransmitPowerLevelTableEntry" :>
        <<"pars", [i \in DOMAIN rd.powers |-> PowerEntry(rd.powers[i])]>> @@
     "UHFC1G2RFModeTable" :> <<"par", "UHFC1G2RFModeTableEntry" :>
        <<"pars", [i \in DOMAIN rd.modes |-> ModeEntry(rd.modes[i])]>>>>>>>>

CapabilitiesWire(rd) ==
  MessageWire("GET_READER_CAPABILITIES_RESPONSE",
    Written("LLRPStatus", <<"par", ReaderFields("LLRPStatus", 0)>>)
    \o Written("GeneralDeviceCapabilities",
         <<"par", "MaxNumberOfAntennaSupported" :> Told(rd.max_ant, 2) @@
                  ReaderFields("GeneralDeviceCapabilities", 0)>>)
    \o Written("RegulatoryCapabilities", Regulatory(rd))
    \o FlattenSeq([i \in DOMAIN rd.advanced |->
         Bytes(TYPE_CUSTOM, 2) \o Bytes(12 + Len(rd.advanced[i]), 2)
         \o Bytes(VENDOR_ID_MOTOROLA, 4) \o Bytes(110, 4) \o rd.advanced[i]]))

-----------------------------------------------------------------------------
(* The client's own parameters.                                             *)

Encodable == {nm \in DOMAIN Param_struct : Param_struct[nm].enc.is}

(* Encoder and decoder of these use different values, or the encoder leaves  *)
(* something out: see the README.                                            *)
Asymmetric ==
  {"ROSpec", "ROSpecStartTrigger", "AISpecStopTrigger", "KeepaliveSpec", "AccessReportSpec",
   "GPIPortCurrentState", "ReaderEventNotificationSpec", "ImpinjIntelligentAntennaManagement",
   "ImpinjAntennaEventConfiguration", "CustomParameter"}

Symmetric == (Encodable \cap Decodable) \ Asymmetric

ClientKids(nm, salt) ==
  IF Param_struct[nm].enc.sub THEN Kids(nm, Symmetric, ClientFields, salt) ELSE Empty

ClientValue(nm, salt) == Value(ClientFields(nm, salt) @@ ClientKids(nm, salt))

-----------------------------------------------------------------------------
(* Steps.                                                                   *)

NoReply == "none"
NoReader == [max_ant |-> 0]
Nothing == [r |-> "none", name |-> "", v |-> Empty]
REFUSED == "ReaderConfigurationError"
NotSent == [nm |-> "", v |-> Empty, wire |-> <<>>]

Init ==
  /\ reply = NoReply
  /\ parts = <<>>
  /\ got = Nothing
  /\ reader = NoReader
  /\ capabilities = Empty
  /\ sent = NotSent

Begin(nm) ==
  /\ reply = NoReply /\ reader = NoReader /\ sent = NotSent
  /\ reply' = nm
  /\ UNCHANGED <<parts, got, reader, capabilities, sent>>

(* The reader adds a parameter: one under test in the second place, anchors  *)
(* around it.                                                                *)
AddAnchor(nm, form) ==
  /\ reply # NoReply /\ got = Nothing
  /\ Len(parts) < MaxParts /\ Len(parts) # 1
  /\ parts' = Append(parts, Part(nm, form))
  /\ UNCHANGED <<reply, got, reader, capabilities, sent>>

AddSample(nm, form) ==
  /\ reply # NoReply /\ got = Nothing /\ Len(parts) = 1
  /\ parts' = Append(parts, Part(nm, form))
  /\ UNCHANGED <<reply, got, reader, capabilities, sent>>

Receive ==
  /\ reply # NoReply /\ got = Nothing
  /\ got' = deserialize(MessageWire(reply, FlattenSeq([i \in 1..Len(parts) |-> parts[i].wire])))
  /\ UNCHANGED <<reply, parts, reader, capabilities, sent>>

Encode(nm, salt) ==
  /\ reply = NoReply /\ reader = NoReader /\ sent = NotSent
  /\ LET v == ClientValue(nm, salt)
     IN sent' = [nm |-> nm, v |-> v, wire |-> encode_param(nm, v)]
  /\ UNCHANGED <<reply, parts, got, reader, capabilities>>

(* The reader answers GET_READER_CAPABILITIES.                                *)
Capabilities(rd) ==
  /\ reply = NoReply /\ reader = NoReader /\ sent = NotSent
  /\ reader' = rd
  /\ capabilities' = deserialize(CapabilitiesWire(rd)).v
  /\ UNCHANGED <<reply, parts, got, sent>>

(* The client builds the ROSpec of a configuration, or finds that it asks for *)
(* what the reader cannot do.                                                 *)
Configure(c) ==
  LET valid == validate(c)
      settings == parseCapabilities(valid, capabilities)
  IN /\ reader # NoReader /\ sent = NotSent
     /\ ValidConfig(c)
     /\ \/ /\ settings = {}
           /\ sent' = [nm |-> REFUSED, v |-> valid, wire |-> <<>>]
        \/ \E s \in settings :
             sent' = [nm |-> "ADD_ROSPEC", v |-> valid,
                      wire |-> serialize("ADD_ROSPEC", "ROSpec" :> getROSpec(valid, s)).v]
     /\ UNCHANGED <<reply, parts, got, reader, capabilities>>

Next ==
  \/ \E nm \in Replies : Begin(nm)
  \/ \E nm \in Anchors, form \in Plain : AddAnchor(nm, form)
  \/ reply # NoReply /\ \E nm \in Samples[reply] : \E form \in Forms[nm] : AddSample(nm, form)
  \/ Receive
  \/ \E nm \in Encodable \ {"CustomParameter"}, salt \in 0..1 : Encode(nm, salt)
  \/ \E rd \in Readers : Capabilities(rd)
  \/ reader # NoReader /\ \E c \in Configs[reader] : Configure(c)

Spec == Init /\ [][Next]_vars

-----------------------------------------------------------------------------
(* What a message says, computed from the values the reader meant.          *)

IsWhole(p) == p.form \in Whole
IsShown(p) == p.nm \in Decodable

(* EPC-96 is also shown under the general name.                              *)
Shown(p) ==
  IF p.nm = "TagReportData" /\ "EPC-96" \in DOMAIN p.v[2]
  THEN <<"par", ("EPC" :> p.v[2]["EPC-96"]) @@ p.v[2]>> ELSE p.v

ErrorOf(p) ==
  LET id == IF p.nm = UnknownType THEN Tlv(999) ELSE Param_struct[p.nm].id
  IN [Name |-> IF p.nm = UnknownType THEN "" ELSE p.nm, Type |-> id.type,
      VendorID |-> Bytes(id.vendor, 4), Subtype |-> Bytes(id.subtype, 4),
      DecodeError |-> IF p.nm = UnknownType THEN "UnknownParameter" ELSE "DecodeFunctionMissing",
      Data |-> From(p.wire, IF id.type = TYPE_CUSTOM THEN 12 ELSE 4)]

Understood(ps, msg) ==
  LET shown == SelectSeq(ps, IsShown)
      errors == SelectSeq(ps, LAMBDA p : ~IsShown(p))
      Of(nm) == SelectSeq(shown, LAMBDA p : p.nm = nm)
      All(seq, Op(_)) == [i \in 1..Len(seq) |-> Op(seq[i])]
  IN [nm \in {shown[i].nm : i \in DOMAIN shown} |->
        IF nm \in Message_struct[msg].n THEN <<"pars", All(Of(nm), Shown)>>
        ELSE Shown(Last(Of(nm)))] @@
     (IF errors = <<>> THEN Empty
      ELSE DECODE_ERROR_PARNAME :> <<"errors", All(errors, ErrorOf)>>) @@
     (IF Message_struct[msg].dec = "report" THEN "TagReportData" :> <<"pars", <<>>>> ELSE Empty)

(* decode_all_parameters on a message all of whose parameters are well        *)
(* formed: each is found under its name with the value the reader meant, a    *)
(* repeatable one as the list of all its occurrences in order, any other as   *)
(* its last occurrence; one the registry cannot decode is kept with its       *)
(* bytes as a decode error; a response without status is refused.             *)
DecodedAsSent ==
  LET whole == \A i \in DOMAIN parts : IsWhole(parts[i])
      refused == Message_struct[reply].dec = "status" /\ \A i \in DOMAIN parts : parts[i].nm # "LLRPStatus"
  IN got # Nothing /\ whole =>
       got = IF refused THEN Failed ELSE [r |-> "ok", name |-> reply, v |-> Understood(parts, reply)]

(* decode_param slices the body before it decodes it: bad content inside one  *)
(* parameter never changes what the parameters around it decode to, nor adds  *)
(* any; it gets the message refused, or the parameter is shown or kept as a   *)
(* decode error.  Fixed fields that are cut short always get it refused.      *)
DamageContained ==
  LET bad == {i \in DOMAIN parts : ~IsWhole(parts[i])}
      others == Understood(SelectSeq(parts, IsWhole), reply)
      own == {parts[i].nm : i \in bad} \cup {DECODE_ERROR_PARNAME}
      Kept(nm) == /\ DECODE_ERROR_PARNAME \in DOMAIN got.v
                  /\ \E e \in ToSet(got.v[DECODE_ERROR_PARNAME][2]) : e.Name = nm
  IN got.r = "ok" =>
       /\ DOMAIN got.v \ own = DOMAIN others \ own
       /\ \A nm \in DOMAIN got.v \ own : got.v[nm] = others[nm]
       /\ \A i \in bad : /\ parts[i].nm \in DOMAIN got.v \/ Kept(parts[i].nm)
                         /\ parts[i].form[1] = "short" => ~FixedSize(Layout(parts[i].nm))

(* isSuccess is the reader's own word: a response counts as a success exactly *)
(* when its last status says so with a code that has a name, an event when    *)
(* its connection attempt, or else its antenna event, does.                   *)
SuccessIsReal ==
  LET Of(nm) == SelectSeq(parts, LAMBDA p : p.nm = nm)
      Says(p) ==
        CASE p.form[1] = "odd" -> FALSE
          [] p.form[1] # "odd" /\ p.nm = "LLRPStatus" -> Is(p.v, "StatusCode", 0)
          [] OTHER -> IF "ConnectionAttemptEvent" \in DOMAIN p.v[2]
                      THEN Is(p.v[2]["ConnectionAttemptEvent"], "Status", 0)
                      ELSE "AntennaEvent" \in DOMAIN p.v[2] /\ Is(p.v[2]["AntennaEvent"], "EventType", 1)
      said == Of(IF reply = "READER_EVENT_NOTIFICATION" THEN "ReaderEventNotificationData"
                 ELSE "LLRPStatus")
  IN got.r = "ok" => (isSuccess(got) <=> said # <<>> /\ Says(Last(said)))

(* encode_param and decode_param agree: what the client packs is one          *)
(* parameter, its header tells its length, and where the registry has both    *)
(* directions the decoder returns the dictionary the encoder was given.       *)
EncodedAsMeant ==
  sent.nm \in Encodable =>
    LET back == decode_param(sent.wire)
    IN /\ back.length = Len(sent.wire)
       /\ sent.nm \in Symmetric => back.r = "ok" /\ back.name = sent.nm /\ back.v = sent.v

VendorNames == {nm \in DOMAIN Param_struct : Param_struct[nm].id.type = TYPE_CUSTOM}

(* What the reader offers, and what may be asked of it.  Power index 0 asks   *)
(* for the strongest; a reader without table has the one index 0.             *)
Advertised ==
  IF reader.powers = <<>> THEN {<<0, 0>>} ELSE ToSet(reader.powers)

RightPower(c, antid, p) ==
  CASE Has(c.tx_power_dbm) ->
         \A q \in Advertised :
            Gap(p[2], It(c.tx_power_dbm)[antid]) <= Gap(q[2], It(c.tx_power_dbm)[antid])
    [] ~Has(c.tx_power_dbm) /\ c.tx_power[antid] = 0 ->
         \A q \in Advertised : q[2] <= p[2]
    [] OTHER -> p[1] = c.tx_power[antid]

ModeOffered(c) ==
  \E mode \in ToSet(reader.modes) :
    mode[1] = It(c.mode_identifier) /\ (c.tari = 0 \/ c.tari \in mode[2]..mode[3])

TimedReports(c) ==
  /\ Has(reader.advanced) /\ Len(It(reader.advanced)) >= 5 /\ BitAt(It(reader.advanced), 35) = 1
  /\ c.rf_telemetry_mode = "off" /\ It(c.dedup_seconds) \in 1..600
  /\ ~Has(c.report_every_n_tags) /\ ~Has(c.ro_report_every_n_tags)

Feasible(c) ==
  /\ \A a \in ToSet(c.antennas) :
       /\ a <= reader.max_ant
       /\ \E p \in Advertised : RightPower(c, a, p)
  /\ Has(c.mode_identifier) => ModeOffered(c)
  /\ Has(c.dedup_seconds) /\ c.dedup_backend = "hardware" => TimedReports(c)

(* What the decoder shows of a ROSpec, against the configuration it is for.   *)
Errors(dict) ==
  IF DECODE_ERROR_PARNAME \in DOMAIN dict THEN dict[DECODE_ERROR_PARNAME][2] ELSE <<>>
Vendor(dict) == DOMAIN dict \cap VendorNames

CommandAsConfigured(c, command) ==
  /\ Len(Errors(command)) = Cardinality(c.tag_filter_mask)
  /\ "C1G2RFControl" \in DOMAIN command <=> Has(c.mode_identifier)
  /\ Has(c.mode_identifier) =>
       /\ Num(command["C1G2RFControl"], "ModeIndex") = It(c.mode_identifier)
       /\ Num(command["C1G2RFControl"], "Tari") = c.tari
  /\ "ImpinjInventorySearchMode" \in Vendor(command) <=> Has(c.impinj_search_mode)
  /\ "ImpinjFixedFrequencyList" \in Vendor(command) => c.impinj_fixed_frequency

AntennaAsConfigured(c, antid, conf) ==
  /\ conf["AntennaID"][2] = Bytes(antid, 2)
  /\ \E p \in Advertised : /\ conf["RFTransmitter"][2]["TransmitPower"][2] = Bytes(p[1], 2)
                           /\ RightPower(c, antid, p)
  /\ CommandAsConfigured(c, conf["C1G2InventoryCommand"][2][1][2])

AntennasAsConfigured(c, ai, confs) ==
  /\ ai["AntennaID"][2] = [i \in DOMAIN c.antennas |-> Bytes(c.antennas[i], 2)]
  /\ DOMAIN confs = DOMAIN c.antennas
  /\ \A i \in DOMAIN confs : AntennaAsConfigured(c, c.antennas[i], confs[i][2])
  /\ "TagObservationTrigger" \in DOMAIN ai["AISpecStopTrigger"][2] <=> Has(c.report_every_n_tags)

ReportAsConfigured(c, report) ==
  LET timed == Has(c.dedup_seconds) /\ c.dedup_backend # "memory" /\ TimedReports(c)
  IN /\ report["N"][2] = IF timed THEN Bytes(It(c.dedup_seconds), 2)
                         ELSE IF Has(c.ro_report_every_n_tags) THEN c.ro_report_every_n_tags
                         ELSE <<0, 0>>
     /\ Len(Errors(report)) = IF timed THEN 1 ELSE 0
     /\ "ImpinjTagReportContentSelector" \in Vendor(report) <=> Has(c.impinj_tag_content_selector)
     /\ "MotoTagReportContentSelector" \in Vendor(report) <=> Has(c.zebra_tag_content_selector)

AsConfigured(c, ros) ==
  LET ai == ros["AISpec"][2][1][2]
      stop == ros["ROBoundarySpec"][2]["ROSpecStopTrigger"][2]
  IN /\ AntennasAsConfigured(c, ai, ai["InventoryParameterSpec"][2][1][2]["AntennaConfiguration"][2])
     /\ stop["DurationTriggerValue"][2] = IF Has(c.duration) THEN c.duration ELSE Bytes(0, 4)
     /\ ReportAsConfigured(c, ros["ROReportSpec"][2])

(* A configuration is refused exactly when the reader cannot do what it asks. *)
(* Otherwise the ROSpec a reader finds in ADD_ROSPEC is the one asked for:    *)
(* the antennas in order, one configuration for each with an advertised power *)
(* that is the one chosen or the nearest to it, the RF mode with a Tari it    *)
(* allows; the duration as stop trigger, a tag count taking over the AISpec's;*)
(* the report cadence, or Zebra's timed trigger in its place when the reader  *)
(* has it; one filter for each mask; and no vendor parameter a reader of      *)
(* another make could receive by accident.                                    *)
ROSpecAsConfigured ==
  /\ sent.nm = REFUSED => ~Feasible(sent.v)
  /\ sent.nm = "ADD_ROSPEC" =>
       /\ Feasible(sent.v)
       /\ AsConfigured(sent.v, decode_all_parameters(From(sent.wire, 10), {}, Empty).v["ROSpec"][2])

=============================================================================
