---------------------------- MODULE LLRPRegistry ----------------------------
(***************************************************************************)
(* The protocol registry of sllurp/llrp_proto.py after its post-processing *)
(* and the corrections of sllurp/_protocol_fixes.py: for every parameter   *)
(* and message its identity, the layout its encoder packs, the layout its  *)
(* decoder unpacks and the sub-parameters it may hold.  The two layouts of *)
(* a parameter are transcribed separately, from its encoder and from its   *)
(* decoder, so that LLRPCodec can compare them.                            *)
(*                                                                         *)
(* A layout is a sequence of items.  An item that carries a value names    *)
(* the dictionary key it is stored under; the empty name stands for a      *)
(* decoder that returns the bare value instead of a dictionary.  The name  *)
(* tables (ROSpecState_Name2Type and the like) are the sets of codes they  *)
(* know: what matters is which code has a name.                            *)
(***************************************************************************)
EXTENDS Integers, Sequences, SequencesExt, TLC

-----------------------------------------------------------------------------
(* Identities: type, vendor, subtype and whether the header is the one-byte *)
(* TV form.                                                                 *)

TYPE_CUSTOM == 1023
VENDOR_ID_IMPINJ == 25882
VENDOR_ID_MOTOROLA == 161

Tlv(t) == [type |-> t, vendor |-> 0, subtype |-> 0, tv |-> FALSE]
Tv(t) == [type |-> t, vendor |-> 0, subtype |-> 0, tv |-> TRUE]
Impinj(s) == [type |-> TYPE_CUSTOM, vendor |-> VENDOR_ID_IMPINJ, subtype |-> s, tv |-> FALSE]
Moto(s) == [type |-> TYPE_CUSTOM, vendor |-> VENDOR_ID_MOTOROLA, subtype |-> s, tv |-> FALSE]

(* Items: the struct letters, flag bits from the most significant bit down, *)
(* coded names, counted lists and byte strings.                             *)

B(f) == [k |-> "int", f |-> f, w |-> 1]
H(f) == [k |-> "int", f |-> f, w |-> 2]
I(f) == [k |-> "int", f |-> f, w |-> 4]
Q(f) == [k |-> "int", f |-> f, w |-> 8]
Zero(w) == [k |-> "zero", w |-> w]
Fields(w, fs) == [k |-> "bits", w |-> w, fs |-> fs]
Bits(w, fs) == Fields(w, [i \in 1..Len(fs) |-> <<fs[i], 1>>])
Top(f) == Fields(1, <<<<f, 2>>>>)

(* other: what the decoder does with a code that has no name.               *)
Code(f, w, codes, other) == [k |-> "code", f |-> f, w |-> w, codes |-> codes, other |-> other]

(* count: the key the count is stored under, if any; cut: read by slicing,  *)
(* which shortens silently; opt: the key is left out when the count is 0.   *)
Each(f, count, cw, w, cut, opt) ==
  [k |-> "list", f |-> f, count |-> count, cw |-> cw, w |-> w, cut |-> cut, opt |-> opt]
Blob(f, count, cw, unit, cut, opt) ==
  [k |-> "blob", f |-> f, count |-> count, cw |-> cw, w |-> unit, cut |-> cut, opt |-> opt]
Rest(f) == [k |-> "rest", f |-> f]
Drop(w) == [k |-> "drop", w |-> w]
HexBits(f) == [k |-> "hexbits", f |-> f]
Embed(f) == [k |-> "embed", f |-> f]
Truthy == [k |-> "truthy"]

(* Encoders: the packed fields, then (sub) the declared sub-parameters.      *)
(* Decoders: the fields, then the tail is walked as parameters, must be      *)
(* empty (struct unpack of the whole body) or is ignored.                    *)

Packs(lay) == [is |-> TRUE, lay |-> lay, sub |-> FALSE]
PacksAll(lay) == [is |-> TRUE, lay |-> lay, sub |-> TRUE]
Exactly(lay) == [is |-> TRUE, lay |-> lay, tail |-> "exact"]
Prefix(lay) == [is |-> TRUE, lay |-> lay, tail |-> "ignore"]
Walks(lay) == [is |-> TRUE, lay |-> lay, tail |-> "walk"]
NoEncoder == [is |-> FALSE, lay |-> <<>>, sub |-> FALSE]
NoDecoder == [is |-> FALSE, lay |-> <<>>, tail |-> "exact"]

(* Post-processing: CustomParameter repeats everywhere; the wire order is    *)
(* the declared fields, then the optional, then the repeated ones.  An entry *)
(* is <<name, is_multiple>>.                                                 *)
AutoFields(fields, o, n) ==
  LET o1 == SelectSeq(o, LAMBDA x : ~Contains(fields, x))
      n1 == SelectSeq(Append(n, "CustomParameter"), LAMBDA x : ~Contains(fields \o o, x))
      all == fields \o o1 \o n1
  IN [i \in 1..Len(all) |-> <<all[i], ~Contains(o, all[i])>>]

Row(id, enc, dec, fields, o, n) ==
  [id |-> id, enc |-> enc, dec |-> dec, auto |-> AutoFields(fields, o, n),
   n |-> ToSet(n) \cup {"CustomParameter"}]
Leaf(id, enc, dec) == Row(id, enc, dec, <<>>, <<>>, <<>>)
Group(id, enc, dec, o) == Row(id, enc, dec, <<>>, o, <<>>)

-----------------------------------------------------------------------------
(* Code tables.                                                             *)

ROSpecState == 0..2
ROSpecStartTriggerType == 0..3
ROSpecStopTriggerType == 0..2
AISpecStopTriggerType == 0..3
TagObservationTriggerType == 0..4
KeepaliveTriggerType == 0..1
ConnEvent == 0..4
ErrorCodes == {0} \cup 100..111 \cup 200..209 \cup {300, 301, 401}
EventState == 0..9
ROReportTriggerType == 0..6

-----------------------------------------------------------------------------
(* TV parameters: the size of each known type, and the automatic decoder    *)
(* the registry starts from.                                                *)

TVE_PARAM_FORMATS ==
  <<2, 8, 8, 8, 8, 1, 2, 2, 4, 2, 2, 2, 12, 2, 2, 4, 2, 4, 2, 2>>

TveNames ==
  <<"AntennaID", "FirstSeenTimestampUTC", "FirstSeenTimestampUptime", "LastSeenTimestampUTC",
    "LastSeenTimestampUptime", "PeakRSSI", "ChannelIndex", "TagSeenCount", "ROSpecID",
    "InventoryParameterSpecID", "C1G2CRC", "C1G2PC", "EPC-96", "SpecIndex",
    "ClientRequestOpSpecResult", "AccessSpecID", "OpSpecID", "C1G2SingulationDetails",
    "C1G2XPCW1", "C1G2XPCW2">>

TveParams ==
  [nm \in ToSet(TveNames) |->
     LET t == CHOOSE i \in 1..20 : TveNames[i] = nm
     IN Leaf(Tv(t), NoEncoder, Exactly(<<[k |-> "int", f |-> "", w |-> TVE_PARAM_FORMATS[t]]>>))]

-----------------------------------------------------------------------------
(* Messages.                                                                *)

(* dec: "generic", "status" (an LLRPStatus is required), "report"           *)
(* (TagReportData is always present) or "none".                             *)
Message(id, enc, dec, fields, o, n) ==
  [id |-> id, enc |-> enc, dec |-> dec, auto |-> AutoFields(fields, o, n),
   n |-> ToSet(n) \cup {"CustomParameter"}]
Request(t, lay) == Message(Tlv(t), Packs(lay), "none", <<>>, <<>>, <<>>)
StatusResponse(t) == Message(Tlv(t), NoEncoder, "status", <<>>, <<"LLRPStatus">>, <<>>)

CapabilitiesMessages ==
  "GET_READER_CAPABILITIES" :> Message(Tlv(1), PacksAll(<<B("RequestedData")>>), "none",
     <<>>, <<"ImpinjRequestedData">>, <<>>) @@
  "GET_READER_CAPABILITIES_RESPONSE" :> Message(Tlv(11), NoEncoder, "status", <<>>,
     <<"LLRPStatus", "GeneralDeviceCapabilities", "LLRPCapabilities", "RegulatoryCapabilities",
       "C1G2LLRPCapabilities", "ImpinjDetailedVersion", "ImpinjFrequencyCapabilities",
       "ImpinjAntennaCapabilities", "MotoGeneralCapabilities", "MotoAutonomousCapabilities",
       "MotoTagEventsGenerationCapabilities", "MotoFilterCapabilities",
       "MotoPersistenceCapabilities", "MotoC1G2LLRPCapabilities", "ImpinjxArrayCapabilities">>,
     <<>>)

ConfigMessages ==
  "GET_READER_CONFIG" :> Message(Tlv(2),
     PacksAll(<<H("AntennaID"), B("RequestedData"), H("GPIPortNum"), H("GPOPortNum")>>), "none",
     <<>>, <<"ImpinjRequestedData">>, <<>>) @@
  "GET_READER_CONFIG_RESPONSE" :> Message(Tlv(12), NoEncoder, "status", <<>>,
     <<"LLRPStatus", "Identification", "ReaderEventNotificationSpec", "ROReportSpec",
       "AccessReportSpec", "LLRPConfigurationStateValue", "KeepaliveSpec", "EventsAndReports",
       "ImpinjSubRegulatoryRegion", "ImpinjReaderTemperature", "ImpinjLinkMonitorConfiguration",
       "ImpinjAccessSpecConfiguration", "ImpinjReportBufferConfiguration",
       "ImpinjGPSNMEASentences", "ImpinjAntennaConfiguration", "MotoAutonomousState",
       "MotoDefaultSpec", "MotoFilterList", "MotoPersistenceSaveParams",
       "MotoCustomCommandOptions", "ImpinjBeaconConfiguration", "ImpinjTiltConfiguration",
       "ImpinjPlacementConfiguration", "ImpinjLocationConfig", "ImpinjC1G2LocationConfig",
       "ImpinjLocationReporting", "ImpinjDirectionConfig", "ImpinjC1G2DirectionConfig",
       "ImpinjDirectionReporting", "ImpinjPolarizationControl">>,
     <<"AntennaProperties", "AntennaConfiguration", "GPIPortCurrentState", "GPOWriteData",
       "ImpinjHubConfiguration", "ImpinjAdvancedGPOConfiguration",
       "ImpinjGPIDebounceConfiguration">>) @@
  "SET_READER_CONFIG" :> Message(Tlv(3), PacksAll(<<Bits(1, <<"ResetToFactoryDefaults">>)>>), "none",
     <<"ReaderEventNotificationSpec", "AntennaProperties", "AntennaConfiguration",
       "AccessReportSpec", "KeepaliveSpec", "GPOWriteData", "GPIPortCurrentState",
       "EventsAndReports", "ImpinjAntennaConfiguration">>,
     <<"ReaderEventNotificationSpec", "ROReportSpec", "AccessReportSpec", "KeepaliveSpec",
       "EventsAndReports", "ImpinjAntennaConfiguration">>,
     <<"AntennaProperties", "AntennaConfiguration", "GPOWriteData", "GPIPortCurrentState">>) @@
  "SET_READER_CONFIG_RESPONSE" :> StatusResponse(13)

ROSpecMessages ==
  "ENABLE_EVENTS_AND_REPORTS" :> Request(64, <<>>) @@
  "ADD_ROSPEC" :> Message(Tlv(20), PacksAll(<<>>), "none", <<>>, <<"ROSpec">>, <<>>) @@
  "ADD_ROSPEC_RESPONSE" :> StatusResponse(30) @@
  "DELETE_ROSPEC" :> Request(21, <<I("ROSpecID")>>) @@
  "DELETE_ROSPEC_RESPONSE" :> StatusResponse(31) @@
  "START_ROSPEC" :> Request(22, <<I("ROSpecID")>>) @@
  "START_ROSPEC_RESPONSE" :> StatusResponse(32) @@
  "STOP_ROSPEC" :> Request(23, <<I("ROSpecID")>>) @@
  "STOP_ROSPEC_RESPONSE" :> StatusResponse(33) @@
  "ENABLE_ROSPEC" :> Request(24, <<I("ROSpecID")>>) @@
  "ENABLE_ROSPEC_RESPONSE" :> StatusResponse(34) @@
  "DISABLE_ROSPEC" :> Request(25, <<I("ROSpecID")>>) @@
  "DISABLE_ROSPEC_RESPONSE" :> StatusResponse(35)

ReportMessages ==
  "RO_ACCESS_REPORT" :> Message(Tlv(61), NoEncoder, "report", <<>>, <<>>, <<"TagReportData">>) @@
  "KEEPALIVE" :> Message(Tlv(62), NoEncoder, "generic", <<>>, <<>>, <<>>) @@
  "KEEPALIVE_ACK" :> Request(72, <<>>) @@
  "READER_EVENT_NOTIFICATION" :> Message(Tlv(63), PacksAll(<<>>), "generic",
     <<>>, <<"ReaderEventNotificationData">>, <<>>) @@
  "CLOSE_CONNECTION" :> Request(14, <<>>) @@
  "CLOSE_CONNECTION_RESPONSE" :> StatusResponse(4)

AccessMessages ==
  "ADD_ACCESSSPEC" :> Message(Tlv(40), PacksAll(<<>>), "none", <<>>, <<"AccessSpec">>, <<>>) @@
  "ADD_ACCESSSPEC_RESPONSE" :> StatusResponse(50) @@
  "DELETE_ACCESSSPEC" :> Request(41, <<I("AccessSpecID")>>) @@
  "DELETE_ACCESSSPEC_RESPONSE" :> StatusResponse(51) @@
  "ENABLE_ACCESSSPEC" :> Request(42, <<I("AccessSpecID")>>) @@
  "ENABLE_ACCESSSPEC_RESPONSE" :> StatusResponse(52) @@
  "DISABLE_ACCESSSPEC" :> Request(43, <<I("AccessSpecID")>>) @@
  "DISABLE_ACCESSSPEC_RESPONSE" :> StatusResponse(53)

VendorMessages ==
  "ERROR_MESSAGE" :> StatusResponse(100) @@
  "CUSTOM_MESSAGE" :> Message(Tlv(TYPE_CUSTOM), Packs(<<Rest("Payload")>>), "generic",
     <<>>, <<>>, <<>>) @@
  "IMPINJ_ENABLE_EXTENSIONS" :> Message(Impinj(21), Packs(<<Zero(4)>>), "none", <<>>, <<>>, <<>>) @@
  "IMPINJ_ENABLE_EXTENSIONS_RESPONSE" :> Message(Impinj(22), NoEncoder, "status",
     <<>>, <<"LLRPStatus">>, <<>>)

-----------------------------------------------------------------------------
(* Capabilities.                                                            *)

TimestampParams ==
  "UTCTimestamp" :> Leaf(Tlv(128), Packs(<<Q("Microseconds")>>), Exactly(<<Q("Microseconds")>>)) @@
  "Uptime" :> Leaf(Tlv(129), Packs(<<Q("Microseconds")>>), Exactly(<<Q("Microseconds")>>))

RegulatoryParams ==
  "RegulatoryCapabilities" :> Group(Tlv(143),
     PacksAll(<<H("CountryCode"), H("CommunicationsStandard")>>),
     Walks(<<H("CountryCode"), H("CommunicationsStandard")>>), <<"UHFBandCapabilities">>) @@
  "UHFBandCapabilities" :> Row(Tlv(144), NoEncoder, Walks(<<>>), <<>>,
     <<"TransmitPowerLevelTableEntry", "FrequencyInformation", "UHFC1G2RFModeTable",
       "RFSurveyFrequencyCapabilities">>, <<"TransmitPowerLevelTableEntry">>) @@
  "TransmitPowerLevelTableEntry" :> Leaf(Tlv(145), NoEncoder,
     Exactly(<<H("Index"), H("TransmitPowerValue")>>)) @@
  "FrequencyInformation" :> Row(Tlv(146), NoEncoder, Walks(<<Bits(1, <<"Hopping">>)>>),
     <<"FrequencyHopTable", "FixedFrequencyTable">>, <<"FixedFrequencyTable">>,
     <<"FrequencyHopTable">>) @@
  "FrequencyHopTable" :> Leaf(Tlv(147), NoEncoder,
     Prefix(<<B("HopTableId"), Zero(1), Each("Frequency", "NumHops", 2, 4, FALSE, TRUE)>>)) @@
  "FixedFrequencyTable" :> Leaf(Tlv(148), NoEncoder,
     Prefix(<<Each("Frequency", "NumFrequencies", 2, 4, FALSE, TRUE)>>))

AirProtocolParams ==
  "C1G2LLRPCapabilities" :> Leaf(Tlv(327), NoEncoder, Exactly(
     <<Bits(1, <<"CanSupportBlockErase", "CanSupportBlockWrite", "CanSupportBlockPermalock",
                 "CanSupportTagRecommissioning", "CanSupportUMIMethod2", "CanSupportXPC">>),
       H("MaxNumSelectFiltersPerQuery")>>)) @@
  "UHFC1G2RFModeTable" :> Row(Tlv(328), NoEncoder, Walks(<<>>), <<>>, <<>>,
     <<"UHFC1G2RFModeTableEntry">>) @@
  "UHFC1G2RFModeTableEntry" :> Leaf(Tlv(329), NoEncoder, Exactly(
     <<I("ModeIdentifier"), Bits(1, <<"DR", "EPCHAGTCConformance">>), B("Mod"), B("FLM"), B("M"),
       I("BDR"), I("PIE"), I("MinTari"), I("MaxTari"), I("StepTari")>>)) @@
  "RFSurveyFrequencyCapabilities" :> Leaf(Tlv(365), NoEncoder,
     Exactly(<<I("MinimumFrequency"), I("MaximumFrequency")>>)) @@
  "LLRPCapabilities" :> Leaf(Tlv(142), NoEncoder, Exactly(
     <<Bits(1, <<"CanDoRFSurvey", "CanReportBufferFillWarning", "SupportsClientRequestOpSpec",
                 "CanDoTagInventoryStateAwareSingulation", "SupportsEventAndReportHolding">>),
       B("MaxPriorityLevelSupported"), H("ClientRequestOpSpecTimeout"), I("MaxNumROSpec"),
       I("MaxNumSpecsPerROSpec"), I("MaxNumInventoryParametersSpecsPerAISpec"),
       I("MaxNumAccessSpec"), I("MaxNumOpSpecsPerAccessSpec")>>))

DeviceParams ==
  "GeneralDeviceCapabilities" :> Row(Tlv(137), NoEncoder, Walks(
     <<H("MaxNumberOfAntennaSupported"),
       Bits(2, <<"CanSetAntennaProperties", "HasUTCClockCapability">>),
       I("DeviceManufacturerName"), I("ModelName"),
       Blob("ReaderFirmwareVersion", "FirmwareVersionByteCount", 2, 1, TRUE, FALSE)>>),
     <<"ReceiveSensitivityTableEntry", "PerAntennaReceiveSensitivityRange", "GPIOCapabilities",
       "PerAntennaAirProtocol", "MaximumReceiveSensitivity">>,
     <<"GPIOCapabilities", "MaximumReceiveSensitivity">>,
     <<"ReceiveSensitivityTableEntry", "PerAntennaReceiveSensitivityRange",
       "PerAntennaAirProtocol">>) @@
  "MaximumReceiveSensitivity" :> Leaf(Tlv(363), NoEncoder, Exactly(<<H("MaximumSensitivityValue")>>)) @@
  "ReceiveSensitivityTableEntry" :> Leaf(Tlv(139), NoEncoder,
     Exactly(<<H("Index"), H("ReceiveSensitivityValue")>>)) @@
  "PerAntennaReceiveSensitivityRange" :> Leaf(Tlv(149), NoEncoder, Exactly(
     <<H("AntennaID"), H("ReceiveSensitivityIndexMin"), H("ReceiveSensitivityIndexMax")>>)) @@
  "PerAntennaAirProtocol" :> Leaf(Tlv(140), NoEncoder,
     Prefix(<<H("AntennaID"), Each("ProtocolID", "NumProtocols", 2, 1, FALSE, TRUE)>>)) @@
  "GPIOCapabilities" :> Leaf(Tlv(141), NoEncoder, Exactly(<<H("NumGPIs"), H("NumGPOs")>>))

-----------------------------------------------------------------------------
(* AccessSpecs.                                                             *)

AccessSpecParams ==
  "AccessSpec" :> Group(Tlv(207), PacksAll(
     <<I("AccessSpecID"), H("AntennaID"), B("ProtocolID"), Bits(1, <<"CurrentState">>),
       I("ROSpecID")>>), NoDecoder,
     <<"AccessSpecStopTrigger", "AccessCommand", "AccessReportSpec",
       "ImpinjAccessSpecConfiguration">>)

AccessCommandParams ==
  "AccessSpecStopTrigger" :> Leaf(Tlv(208),
     Packs(<<B("AccessSpecStopTriggerType"), H("OperationCountValue")>>), NoDecoder) @@
  "AccessCommand" :> Leaf(Tlv(209),
     PacksAll(<<Embed("TagSpecParameter"), Embed("OpSpecParameter")>>), NoDecoder) @@
  "C1G2TagSpec" :> Row(Tlv(338), PacksAll(<<>>), NoDecoder, <<>>, <<>>, <<"C1G2TargetTag">>) @@
  "C1G2TargetTag" :> Leaf(Tlv(339), Packs(
     <<Fields(1, <<<<"MB", 2>>, <<"M", 1>>>>), H("Pointer"), HexBits("TagMask"),
       HexBits("TagData")>>), NoDecoder)

OpSpecParams ==
  "C1G2Read" :> Leaf(Tlv(341), Packs(
     <<H("OpSpecID"), I("AccessPassword"), Top("MB"), H("WordPtr"), H("WordCount")>>), NoDecoder) @@
  "C1G2Write" :> Leaf(Tlv(342), Packs(
     <<H("OpSpecID"), I("AccessPassword"), Top("MB"), H("WordPtr"), H("WriteDataWordCount"),
       Rest("WriteData")>>), NoDecoder) @@
  "C1G2Lock" :> Row(Tlv(344), PacksAll(<<H("OpSpecID"), I("AccessPassword")>>), NoDecoder,
     <<>>, <<>>, <<"C1G2LockPayload">>) @@
  "C1G2LockPayload" :> Leaf(Tlv(345), Packs(<<B("Privilege"), B("DataField")>>), NoDecoder) @@
  "C1G2BlockWrite" :> Leaf(Tlv(347), Packs(
     <<H("OpSpecID"), I("AccessPassword"), Top("MB"), H("WordPtr"), H("WriteDataWordCount"),
       Rest("WriteData")>>), NoDecoder) @@
  "AccessReportSpec" :> Leaf(Tlv(239), Packs(<<B("AccessReportTrigger")>>), Exactly(<<B("")>>))

-----------------------------------------------------------------------------
(* ROSpecs.                                                                 *)

ROSpecParams ==
  "ROSpec" :> Row(Tlv(177),
     PacksAll(<<I("ROSpecID"), B("Priority"), Code("CurrentState", 1, ROSpecState, "KeyError")>>),
     Walks(<<I("ROSpecID"), B("Priority"), B("CurrentState")>>),
     <<"ROBoundarySpec", "AISpec", "RFSurveySpec", "LoopSpec", "ROReportSpec">>,
     <<"ROBoundarySpec", "ROReportSpec">>, <<"AISpec", "RFSurveySpec", "LoopSpec">>)

BoundaryParams ==
  "ROBoundarySpec" :> Group(Tlv(178), PacksAll(<<>>), Walks(<<>>),
     <<"ROSpecStartTrigger", "ROSpecStopTrigger">>) @@
  "ROSpecStartTrigger" :> Group(Tlv(179),
     PacksAll(<<Code("ROSpecStartTriggerType", 1, ROSpecStartTriggerType, "KeyError")>>),
     Walks(<<B("ROSpecStartTriggerType")>>), <<"PeriodicTriggerValue", "GPITriggerValue">>) @@
  "PeriodicTriggerValue" :> Group(Tlv(180), PacksAll(<<I("Offset"), I("Period")>>),
     Walks(<<I("Offset"), I("Period")>>), <<"UTCTimestamp">>) @@
  "GPITriggerValue" :> Leaf(Tlv(181),
     Packs(<<H("GPIPortNum"), Bits(1, <<"GPIEvent">>), I("Timeout")>>),
     Prefix(<<H("GPIPortNum"), Bits(1, <<"GPIEvent">>), I("Timeout")>>)) @@
  "ROSpecStopTrigger" :> Group(Tlv(182),
     PacksAll(<<Code("ROSpecStopTriggerType", 1, ROSpecStopTriggerType, "KeyError"),
                I("DurationTriggerValue")>>),
     Walks(<<Code("ROSpecStopTriggerType", 1, ROSpecStopTriggerType, "KeyError"),
             I("DurationTriggerValue")>>), <<"GPITriggerValue">>)

AISpecParams ==
  "AISpec" :> Row(Tlv(183), PacksAll(<<Each("AntennaID", "", 2, 2, FALSE, FALSE)>>),
     Walks(<<Each("AntennaID", "AntennaCount", 2, 2, TRUE, FALSE)>>),
     <<>>, <<"AISpecStopTrigger">>, <<"InventoryParameterSpec">>) @@
  "AISpecStopTrigger" :> Group(Tlv(184),
     PacksAll(<<Code("AISpecStopTriggerType", 1, AISpecStopTriggerType, "KeyError"),
                I("DurationTriggerValue")>>),
     Walks(<<B("AISpecStopTriggerType"), I("DurationTriggerValue")>>),
     <<"GPITriggerValue", "TagObservationTrigger">>) @@
  "TagObservationTrigger" :> Leaf(Tlv(185),
     Packs(<<Code("TriggerType", 1, TagObservationTriggerType, "KeyError"), Zero(1),
             H("NumberOfTags"), H("NumberOfAttempts"), H("T"), I("Timeout")>>),
     Exactly(<<Code("TriggerType", 1, TagObservationTriggerType, "KeyError"), Zero(1),
               H("NumberOfTags"), H("NumberOfAttempts"), H("T"), I("Timeout")>>)) @@
  "InventoryParameterSpec" :> Row(Tlv(186),
     PacksAll(<<H("InventoryParameterSpecID"), B("ProtocolID")>>),
     Walks(<<H("InventoryParameterSpecID"), B("ProtocolID")>>),
     <<>>, <<>>, <<"AntennaConfiguration">>)

-----------------------------------------------------------------------------
(* Reader configuration.                                                    *)

ReaderConfigParams ==
  "LLRPConfigurationStateValue" :> Leaf(Tlv(217), NoEncoder,
     Exactly(<<I("LLRPConfigurationStateValue")>>)) @@
  "Identification" :> Leaf(Tlv(218), NoEncoder,
     Prefix(<<Code("IDType", 1, 0..1, "blank"), Blob("ReaderID", "", 2, 1, TRUE, FALSE)>>)) @@
  "GPOWriteData" :> Leaf(Tlv(219), NoEncoder,
     Exactly(<<H("GPOPortNumber"), Bits(1, <<"GPOData">>)>>)) @@
  "KeepaliveSpec" :> Leaf(Tlv(220), PacksAll(<<B("KeepaliveTriggerType"), I("TimeInterval")>>),
     Exactly(<<Code("KeepaliveTriggerType", 1, KeepaliveTriggerType, "KeyError"),
               I("TimeInterval")>>)) @@
  "AntennaProperties" :> Leaf(Tlv(221), NoEncoder,
     Exactly(<<Bits(1, <<"AntennaConnected">>), H("AntennaID"), H("AntennaGain")>>))

AntennaParams ==
  "AntennaConfiguration" :> Row(Tlv(222), PacksAll(<<H("AntennaID")>>), Walks(<<H("AntennaID")>>),
     <<>>, <<"RFReceiver", "RFTransmitter">>, <<"C1G2InventoryCommand">>) @@
  "RFReceiver" :> Leaf(Tlv(223), Packs(<<H("ReceiverSensitivity")>>),
     Exactly(<<H("ReceiverSensitivity")>>)) @@
  "RFTransmitter" :> Leaf(Tlv(224),
     Packs(<<H("HopTableId"), H("ChannelIndex"), H("TransmitPower")>>),
     Exactly(<<H("HopTableId"), H("ChannelIndex"), H("TransmitPower")>>)) @@
  "GPIPortCurrentState" :> Leaf(Tlv(225),
     Packs(<<H("GPIPortNum"), Bits(1, <<"GPIConfig">>), Zero(1)>>),
     Exactly(<<H("GPIPortNum"), Bits(1, <<"GPIConfig">>), B("GPIState")>>)) @@
  "EventsAndReports" :> Leaf(Tlv(226), NoEncoder,
     Exactly(<<Bits(1, <<"HoldEventsAndReportsUponReconnect">>)>>))

InventoryParams ==
  "C1G2InventoryCommand" :> Row(Tlv(330), PacksAll(<<Bits(1, <<"TagInventoryStateAware">>)>>),
     Walks(<<Bits(1, <<"TagInventoryStateAware">>)>>),
     <<"C1G2Filter", "C1G2RFControl", "C1G2SingulationControl", "ImpinjInventoryConfiguration",
       "ImpinjInventorySearchMode", "ImpinjIntelligentAntennaManagement",
       "ImpinjFixedFrequencyList", "ImpinjReducedPowerFrequencyList", "ImpinjLowDutyCycle",
       "ImpinjRFPowerSweep">>,
     <<"C1G2RFControl", "C1G2SingulationControl", "ImpinjInventoryConfiguration",
       "ImpinjInventorySearchMode", "ImpinjIntelligentAntennaManagement",
       "ImpinjFixedFrequencyList", "ImpinjReducedPowerFrequencyList", "ImpinjLowDutyCycle",
       "ImpinjRFPowerSweep">>, <<"C1G2Filter">>) @@
  "C1G2Filter" :> Group(Tlv(331), PacksAll(<<Top("T")>>), NoDecoder,
     <<"C1G2TagInventoryMask", "C1G2TagInventoryStateAwareFilterAction",
       "C1G2TagInventoryStateUnawareFilterAction">>) @@
  "C1G2TagInventoryMask" :> Leaf(Tlv(332),
     Packs(<<Top("MB"), H("Pointer"), HexBits("TagMask")>>), NoDecoder) @@
  "C1G2RFControl" :> Leaf(Tlv(335), Packs(<<H("ModeIndex"), H("Tari")>>),
     Exactly(<<H("ModeIndex"), H("Tari")>>)) @@
  "C1G2SingulationControl" :> Group(Tlv(336),
     Packs(<<Top("Session"), H("TagPopulation"), I("TagTransitTime")>>),
     Walks(<<Top("Session"), H("TagPopulation"), I("TagTransitTime")>>),
     <<"C1G2TagInventoryStateAwareSingulationAction">>) @@
  "C1G2TagInventoryStateAwareSingulationAction" :> Leaf(Tlv(337), NoEncoder,
     Exactly(<<Bits(1, <<"I", "S", "A">>)>>))

ReportSpecParams ==
  "ROReportSpec" :> Group(Tlv(237),
     PacksAll(<<Code("ROReportTrigger", 1, ROReportTriggerType, "KeyError"), H("N")>>),
     Walks(<<Code("ROReportTrigger", 1, ROReportTriggerType, "KeyError"), H("N")>>),
     <<"TagReportContentSelector", "ImpinjTagReportContentSelector",
       "MotoTagReportContentSelector">>) @@
  "ReaderEventNotificationSpec" :> Row(Tlv(244), Packs(<<Embed("EventNotificationState")>>),
     Walks(<<>>), <<>>, <<>>, <<"EventNotificationState">>) @@
  "EventNotificationState" :> Leaf(Tlv(245),
     Packs(<<Code("EventType", 2, EventState, "KeyError"), Bits(1, <<"NotificationState">>)>>),
     Exactly(<<Code("EventType", 2, EventState, "KeyError"), Bits(1, <<"NotificationState">>)>>))

SelectorParams ==
  LET Selected == Bits(2, <<"EnableROSpecID", "EnableSpecIndex", "EnableInventoryParameterSpecID",
        "EnableAntennaID", "EnableChannelIndex", "EnablePeakRSSI", "EnableFirstSeenTimestamp",
        "EnableLastSeenTimestamp", "EnableTagSeenCount", "EnableAccessSpecID">>)
      Memory == Bits(1, <<"EnableCRC", "EnablePCBits", "EnableXPCBits">>)
  IN "TagReportContentSelector" :> Group(Tlv(238), PacksAll(<<Selected>>), Walks(<<Selected>>),
        <<"C1G2EPCMemorySelector">>) @@
     "C1G2EPCMemorySelector" :> Leaf(Tlv(348), Packs(<<Memory>>), Exactly(<<Memory>>))

-----------------------------------------------------------------------------
(* Tag reports.  A report that carries EPC-96 also stores it as EPC.        *)

TagReportParams ==
  "TagReportData" :> Group(Tlv(240), NoEncoder, Walks(<<>>),
     <<"EPC", "EPC-96", "ROSpecID", "SpecIndex", "InventoryParameterSpecID", "AntennaID",
       "PeakRSSI", "ChannelIndex", "FirstSeenTimestampUTC", "FirstSeenTimestampUptime",
       "LastSeenTimestampUTC", "LastSeenTimestampUptime", "TagSeenCount", "C1G2CRC", "C1G2PC",
       "C1G2XPCW1", "C1G2XPCW2", "AccessSpecID", "C1G2ReadOpSpecResult",
       "C1G2WriteOpSpecResult", "C1G2KillOpSpecResult", "C1G2RecommissionOpSpecResult",
       "C1G2LockOpSpecResult", "C1G2BlockEraseOpSpecResult", "C1G2BlockWriteOpSpecResult",
       "C1G2BlockPermalockOpSpecResult", "C1G2GetBlockPermalockStatusOpSpecResult",
       "ImpinjRFPhaseAngle", "ImpinjPeakRSSI", "ImpinjRFDopplerFrequency",
       "ImpinjSerializedTID", "ImpinjGPSCoordinates", "ImpinjTxPower", "MotoTagPhase">>)

OpSpecResultParams ==
  LET Basic(t) == Leaf(Tlv(t), NoEncoder, Prefix(<<B("Result"), H("OpSpecID")>>))
      Written(t) == Leaf(Tlv(t), NoEncoder,
                         Prefix(<<B("Result"), H("OpSpecID"), H("NumWordsWritten")>>))
      Words(t, f, count) == Leaf(Tlv(t), NoEncoder,
         Prefix(<<B("Result"), H("OpSpecID"), Blob(f, count, 2, 2, TRUE, FALSE)>>))
  IN "C1G2ReadOpSpecResult" :> Words(349, "ReadData", "ReadDataWordCount") @@
     "C1G2WriteOpSpecResult" :> Written(350) @@
     "C1G2KillOpSpecResult" :> Basic(351) @@
     "C1G2RecommissionOpSpecResult" :> Basic(360) @@
     "C1G2LockOpSpecResult" :> Basic(352) @@
     "C1G2BlockEraseOpSpecResult" :> Basic(353) @@
     "C1G2BlockWriteOpSpecResult" :> Written(354) @@
     "C1G2BlockPermalockOpSpecResult" :> Basic(361) @@
     "C1G2GetBlockPermalockStatusOpSpecResult" :> Words(362, "PermalockStatus", "StatusWordCount")

EPCParams ==
  "EPC" :> Leaf(Tlv(241), NoEncoder, Exactly(<<Drop(2), Rest("")>>)) @@
  "EPC-96" :> Leaf(Tv(13), NoEncoder, Exactly(<<Rest("")>>)) @@
  "C1G2SingulationDetails" :> Leaf(Tv(18), Packs(<<H("NumCollisionSlots"), H("NumEmptySlots")>>),
     Exactly(<<H("NumCollisionSlots"), H("NumEmptySlots")>>))

-----------------------------------------------------------------------------
(* Reader events.  AISpecEvent is decoded by _protocol_fixes (LLRPCodec).    *)

EventParams ==
  "HoppingEvent" :> Leaf(Tlv(247), Packs(<<H("HopTableID"), H("NextChannelIndex")>>),
     Exactly(<<H("HopTableID"), H("NextChannelIndex")>>)) @@
  "GPIEvent" :> Leaf(Tlv(248), Packs(<<H("GPIPortNumber"), Bits(1, <<"GPIEvent">>)>>),
     Exactly(<<H("GPIPortNumber"), Bits(1, <<"GPIEvent">>)>>)) @@
  "ROSpecEvent" :> Leaf(Tlv(249),
     Packs(<<Code("EventType", 1, 0..2, "last"), I("ROSpecID"), I("PreemptingROSpecID")>>),
     Exactly(<<Code("EventType", 1, 0..2, "last"), I("ROSpecID"), I("PreemptingROSpecID")>>)) @@
  "ReportBufferLevelWarning" :> Leaf(Tlv(250), Packs(<<B("ReportBufferPercentageFull")>>),
     Exactly(<<B("ReportBufferPercentageFull")>>)) @@
  "ReportBufferOverflowErrorEvent" :> Leaf(Tlv(251), Packs(<<>>), Walks(<<>>)) @@
  "ReaderExceptionEvent" :> Group(Tlv(252),
     PacksAll(<<Blob("Message", "", 2, 1, TRUE, FALSE)>>),
     Walks(<<Blob("Message", "", 2, 1, TRUE, FALSE)>>),
     <<"ROSpecID", "SpecIndex", "InventoryParameterSpec", "AntennaID", "AccessSpecID",
       "OpSpecID", "ImpinjHubConfiguration">>)

SpecEventParams ==
  "RFSurveyEvent" :> Leaf(Tlv(253),
     Packs(<<Code("EventType", 1, 0..1, "last"), I("ROSpecID"), H("SpecIndex")>>),
     Exactly(<<Code("EventType", 1, 0..1, "last"), I("ROSpecID"), H("SpecIndex")>>)) @@
  "AISpecEvent" :> Group(Tlv(254),
     PacksAll(<<Code("EventType", 1, {0}, "LLRPError"), I("ROSpecID"), H("SpecIndex")>>),
     Walks(<<Code("EventType", 1, {0}, "LLRPError"), I("ROSpecID"), H("SpecIndex")>>),
     <<"C1G2SingulationDetails">>) @@
  "AntennaEvent" :> Leaf(Tlv(255), Packs(<<Code("EventType", 1, 0..1, "last"), H("AntennaID")>>),
     Exactly(<<Code("EventType", 1, 0..1, "last"), H("AntennaID")>>)) @@
  "ConnectionAttemptEvent" :> Leaf(Tlv(256), Packs(<<Code("Status", 2, ConnEvent, "KeyError")>>),
     Exactly(<<Code("Status", 2, ConnEvent, "KeyError")>>)) @@
  "ConnectionCloseEvent" :> Leaf(Tlv(257), Packs(<<>>), Walks(<<>>)) @@
  "SpecLoopEvent" :> Leaf(Tlv(356), Packs(<<I("ROSpecID"), I("LoopCount")>>),
     Exactly(<<I("ROSpecID"), I("LoopCount")>>)) @@
  "ReaderEventNotificationData" :> Group(Tlv(246), PacksAll(<<>>), Walks(<<>>),
     <<"UTCTimestamp", "Uptime", "HoppingEvent", "GPIEvent", "ROSpecEvent",
       "ReportBufferLevelWarningEvent", "ReportBufferOverflowErrorEvent",
       "ReaderExceptionEvent", "RFSurveyEvent", "AISpecEvent", "AntennaEvent",
       "ConnectionAttemptEvent", "ConnectionCloseEvent", "SpecLoopEvent",
       "ImpinjAntennaAttemptEvent">>)

StatusParams ==
  "LLRPStatus" :> Group(Tlv(287), NoEncoder,
     Walks(<<Code("StatusCode", 2, ErrorCodes, "absent"),
             Blob("ErrorDescription", "", 2, 1, TRUE, FALSE)>>),
     <<"FieldError", "ParameterError">>) @@
  "FieldError" :> Leaf(Tlv(288), NoEncoder,
     Exactly(<<H("FieldNum"), Code("ErrorCode", 2, ErrorCodes, "number")>>)) @@
  "ParameterError" :> Group(Tlv(289), NoEncoder,
     Walks(<<H("ParameterType"), Code("ErrorCode", 2, ErrorCodes, "number")>>),
     <<"FieldError", "ParameterError">>) @@
  "CustomParameter" :> Leaf(Tlv(TYPE_CUSTOM), Packs(<<Rest("Payload")>>), NoDecoder)

-----------------------------------------------------------------------------
(* Impinj extensions.                                                       *)

ImpinjInventoryParams ==
  "ImpinjRequestedData" :> Leaf(Impinj(21), Packs(<<I("RequestedData")>>), NoDecoder) @@
  "ImpinjSubRegulatoryRegion" :> Leaf(Impinj(22), NoEncoder, Exactly(<<H("RegulatoryRegion")>>)) @@
  "ImpinjInventorySearchMode" :> Leaf(Impinj(23), PacksAll(<<H("InventorySearchMode")>>),
     Walks(<<H("InventorySearchMode")>>)) @@
  "ImpinjFixedFrequencyList" :> Leaf(Impinj(26),
     PacksAll(<<H("FixedFrequencyMode"), Zero(2), Each("ChannelList", "", 2, 2, FALSE, FALSE)>>),
     Prefix(<<H("FixedFrequencyMode"), Zero(2), Each("ChannelList", "", 2, 2, FALSE, FALSE)>>)) @@
  "ImpinjReducedPowerFrequencyList" :> Leaf(Impinj(27), NoEncoder,
     Prefix(<<H("ReducedPowerMode"), Zero(2),
              Each("ReducedPowerChannelList", "", 2, 2, FALSE, FALSE)>>)) @@
  "ImpinjLowDutyCycle" :> Leaf(Impinj(28), NoEncoder,
     Walks(<<H("LowDutyCycleMode"), H("EmptyFieldTimeout"), H("FieldPingInterval")>>))

ImpinjVersionParams ==
  LET Text(f) == Blob(f, "", 2, 1, TRUE, FALSE)
  IN "ImpinjDetailedVersion" :> Group(Impinj(29), NoEncoder,
        Walks(<<Text("ModelName"), Text("SerialNumber"), Text("SoftwareVersion"),
                Text("FirmwareVersion"), Text("FPGAVersion"), Text("PCBAVersion")>>),
        <<"ImpinjHubVersions", "ImpinjArrayVersion", "ImpinjBLEVersion">>) @@
     "ImpinjFrequencyCapabilities" :> Leaf(Impinj(30), NoEncoder,
        Prefix(<<Each("FrequencyList", "NumFrequencies", 2, 4, FALSE, FALSE)>>)) @@
     "ImpinjGPIDebounceConfiguration" :> Leaf(Impinj(36), NoEncoder,
        Exactly(<<H("GPIPortNum"), I("GPIDebounceTimerMSec")>>)) @@
     "ImpinjReaderTemperature" :> Leaf(Impinj(37), NoEncoder, Walks(<<H("Temperature")>>)) @@
     "ImpinjLinkMonitorConfiguration" :> Leaf(Impinj(38), NoEncoder,
        Walks(<<H("LinkMonitorMode"), H("LinkDownThreshold")>>)) @@
     "ImpinjReportBufferConfiguration" :> Leaf(Impinj(39), NoEncoder,
        Walks(<<H("ReportBufferMode")>>)) @@
     "ImpinjAccessSpecConfiguration" :> Group(Impinj(40), NoEncoder, Walks(<<>>),
        <<"ImpinjBlockWriteWordCount", "ImpinjOpSpecRetryCount", "ImpinjAccessSpecOrdering">>) @@
     "ImpinjBlockWriteWordCount" :> Leaf(Impinj(41), NoEncoder, Walks(<<H("WordCount")>>))

ImpinjReportParams ==
  LET Mode(s, f) == Leaf(Impinj(s), Packs(<<H(f)>>), Exactly(<<H(f)>>))
  IN "ImpinjTagReportContentSelector" :> Group(Impinj(50), PacksAll(<<>>), Walks(<<>>),
        <<"ImpinjEnableSerializedTID", "ImpinjEnableRFPhaseAngle", "ImpinjEnablePeakRSSI",
          "ImpinjEnableGPSCoordinates", "ImpinjEnableOptimizedRead",
          "ImpinjEnableRFDopplerFrequency", "ImpinjEnableTxPower">>) @@
     "ImpinjEnableSerializedTID" :> Mode(51, "SerializedTIDMode") @@
     "ImpinjEnableRFPhaseAngle" :> Mode(52, "RFPhaseAngleMode") @@
     "ImpinjEnablePeakRSSI" :> Mode(53, "PeakRSSIMode") @@
     "ImpinjEnableGPSCoordinates" :> Mode(54, "GPSCoordinatesMode") @@
     "ImpinjSerializedTID" :> Leaf(Impinj(55), NoEncoder,
        Walks(<<Blob("TID", "TIDWordCount", 2, 2, TRUE, TRUE)>>)) @@
     "ImpinjRFPhaseAngle" :> Leaf(Impinj(56), NoEncoder, Exactly(<<H("")>>)) @@
     "ImpinjPeakRSSI" :> Leaf(Impinj(57), NoEncoder, Exactly(<<H("")>>)) @@
     "ImpinjGPSCoordinates" :> Leaf(Impinj(58), NoEncoder, Walks(<<I("Latitude"), I("Longitude")>>)) @@
     "ImpinjGPSNMEASentences" :> Group(Impinj(60), NoEncoder, Walks(<<>>),
        <<"ImpinjGGASentence", "ImpinjRMCSentence">>)

(* NMEA sentences: the corrected decoder refuses a count the body cannot     *)
(* hold.                                                                     *)
ImpinjNmeaParams ==
  "ImpinjGGASentence" :> Leaf(Impinj(61), NoEncoder,
     Walks(<<Blob("GGASentence", "", 2, 1, FALSE, FALSE)>>)) @@
  "ImpinjRMCSentence" :> Leaf(Impinj(62), NoEncoder,
     Walks(<<Blob("RMCSentence", "", 2, 1, FALSE, FALSE)>>))

ImpinjModeParams ==
  LET Mode(s, f) == Leaf(Impinj(s), Packs(<<H(f)>>), Exactly(<<H(f)>>))
      Bare(s) == Leaf(Impinj(s), NoEncoder, Exactly(<<H("")>>))
  IN "ImpinjOpSpecRetryCount" :> Leaf(Impinj(63), NoEncoder, Walks(<<H("RetryCount")>>)) @@
     "ImpinjAdvancedGPOConfiguration" :> Leaf(Impinj(64), NoEncoder,
        Walks(<<H("GPOPortNum"), H("GPOMode"), I("GPOPulseDurationMSec")>>)) @@
     "ImpinjEnableOptimizedRead" :> Row(Impinj(65), PacksAll(<<H("OptimizedReadMode")>>),
        Walks(<<H("OptimizedReadMode")>>), <<>>, <<>>, <<"C1G2Read">>) @@
     "ImpinjAccessSpecOrdering" :> Leaf(Impinj(66), NoEncoder, Exactly(<<H("OrderingMode")>>)) @@
     "ImpinjEnableRFDopplerFrequency" :> Mode(67, "RFDopplerFrequencyMode") @@
     "ImpinjRFDopplerFrequency" :> Bare(68) @@
     "ImpinjInventoryConfiguration" :> Leaf(Impinj(69), NoEncoder,
        Walks(<<Bits(1, <<"EnableAntDwellTimeLimit", "EnableSelectGapClose">>)>>)) @@
     "ImpinjEnableTxPower" :> Mode(72, "TxPowerMode") @@
     "ImpinjTxPower" :> Bare(73)

ImpinjHubParams ==
  LET Text(f) == Blob(f, "", 2, 1, TRUE, FALSE)
  IN "ImpinjArrayVersion" :> Leaf(Impinj(1520), NoEncoder,
        Walks(<<Text("SerialNumber"), Text("FirmwareVersion"), Text("PCBAVersion")>>)) @@
     "ImpinjAntennaConfiguration" :> Group(Impinj(1524), PacksAll(<<>>), Walks(<<>>),
        <<"ImpinjAntennaEventConfiguration", "ImpinjAntennaEventHysteresis">>) @@
     "ImpinjAntennaEventHysteresis" :> Leaf(Impinj(1526),
        PacksAll(<<Q("AntennaEventConnected"), Q("AntennaEventDisconnected")>>),
        Walks(<<Q("AntennaEventConnected"), Q("AntennaEventDisconnected")>>)) @@
     "ImpinjHubVersions" :> Row(Impinj(1537), PacksAll(<<>>), Walks(<<>>), <<>>, <<>>,
        <<"ImpinjArrayVersion">>) @@
     "ImpinjHubConfiguration" :> Leaf(Impinj(1538), NoEncoder,
        Prefix(<<H("HubID"), Code("Connected", 2, 0..2, "zero"), Code("Fault", 2, 0..8, "zero")>>))

ImpinjAntennaParams ==
  "ImpinjIntelligentAntennaManagement" :> Leaf(Impinj(1554), Packs(<<Truthy>>),
     Exactly(<<Bits(1, <<"ManagementEnabled">>)>>)) @@
  "ImpinjTIDParity" :> Leaf(Impinj(1566), NoEncoder, Prefix(<<Bits(2, <<"ParityError">>)>>)) @@
  "ImpinjAntennaEventConfiguration" :> Leaf(Impinj(1576), Packs(<<Truthy>>),
     Walks(<<Bits(1, <<"EnableAntennaAttemptNotification">>)>>)) @@
  "ImpinjAntennaAttemptEvent" :> Leaf(Impinj(1577), Packs(<<H("AntennaID")>>),
     Exactly(<<H("AntennaID")>>)) @@
  "ImpinjBLEVersion" :> Leaf(Impinj(1580), NoEncoder,
     Walks(<<Blob("FirmwareVersion", "", 2, 1, TRUE, FALSE)>>)) @@
  "ImpinjRFPowerSweep" :> Leaf(Impinj(1582), NoEncoder,
     Exactly(<<Bits(1, <<"EnableRFPowerSweep">>), H("MinimumPowerLevel"),
               H("PowerLevelStepSize")>>))

-----------------------------------------------------------------------------
(* Zebra (Motorola) extensions.                                             *)

MotoCapabilityParams ==
  LET Caps(s, flags) == Leaf(Moto(s), NoEncoder, Prefix(<<I("Version"), Bits(1, flags)>>))
  IN "MotoGeneralCapabilities" :> Caps(1,
        <<"CanGetGeneralParams", "CanReportPartNumber", "CanReportRadioVersion",
          "CanSupportRadioPowerState", "CanSupportRadioTransmitDelay",
          "CanSupportZebraTrigger">>) @@
     "MotoAutonomousCapabilities" :> Caps(100, <<"CanSupportAutonomousMode">>) @@
     "MotoAutonomousState" :> Leaf(Moto(101), NoEncoder,
        Prefix(<<Bits(1, <<"AutonomousModeState">>)>>)) @@
     "MotoDefaultSpec" :> Row(Moto(102), NoEncoder,
        Walks(<<Bits(1, <<"UseDefaultSpecForAutoMode">>)>>), <<>>, <<"ROSpec">>,
        <<"AccessSpec">>) @@
     "MotoTagEventsGenerationCapabilities" :> Caps(120,
        <<"CanSelectTagEvents", "CanSelectTagReportingFormat", "CanSelectMovingEvent">>)

MotoReportParams ==
  LET Event(f) == Code(f, 1, 0..2, "KeyError")
      Selected == Bits(4, <<"EnableZoneID", "EnableZoneName", "EnableAntennaPhysicalPortConfig",
                            "EnablePhase", "EnableGPS", "EnableMLTReport">>)
  IN "MotoTagEventSelector" :> Leaf(Moto(121), NoEncoder,
        Prefix(<<Event("ReportNewTagEvent"), H("NewTagEventModeratedTimeout"),
                 Event("ReportTagInvisibleEvent"), H("TagInvisibleEventModeratedTimeout"),
                 Event("ReportTagVisibilityChangeEvent"),
                 H("TagVisibilityChangeEventModeratedTimeout")>>)) @@
     "MotoTagReportMode" :> Leaf(Moto(122), NoEncoder, Prefix(<<Event("ReportFormat")>>)) @@
     "MotoTagReportContentSelector" :> Leaf(Moto(708), Packs(<<Selected>>), Prefix(<<Selected>>)) @@
     "MotoTagPhase" :> Leaf(Moto(709), NoEncoder, Prefix(<<H("")>>))

MotoFilterParams ==
  LET Caps(s, flags) == Leaf(Moto(s), NoEncoder, Prefix(<<I("Version"), Bits(1, flags)>>))
      Match(w) == Code("Match", w, 0..3, "KeyError")
  IN "MotoFilterCapabilities" :> Caps(200,
        <<"CanFilterTagsBasedOnRSSI", "CanFilterTagsBasedOnTimeOfDay",
          "CanFilterTagsBasedOnUTCTimeStamp">>) @@
     "MotoUTCTimestamp" :> Leaf(Moto(250), NoEncoder, Walks(<<Q("Microseconds")>>)) @@
     "MotoFilterTimeOfDay" :> Leaf(Moto(251), NoEncoder, Walks(<<Q("Microseconds")>>)) @@
     "MotoFilterTimeRange" :> Row(Moto(252), NoEncoder, Walks(<<B("TimeFormat"), Match(1)>>),
        <<>>, <<>>, <<"MotoFilterTimeFormatChoice">>) @@
     "MotoFilterRSSIRange" :> Row(Moto(253), NoEncoder, Walks(<<Match(2)>>), <<>>, <<>>,
        <<"PeakRSSI">>)

MotoRuleParams ==
  LET Rule(f) == Code(f, 1, 0..2, "KeyError")
  IN "MotoFilterRule" :> Row(Moto(254), NoEncoder, Walks(<<Rule("RuleType")>>), <<>>,
        <<"MotoFilterRSSIRange", "MotoFilterTimeRange">>, <<"MotoFilterTagList">>) @@
     "MotoFilterList" :> Row(Moto(255), NoEncoder, Walks(<<Bits(4, <<"UseFilter">>)>>), <<>>, <<>>,
        <<"MotoFilterRule">>) @@
     "MotoFilterTagList" :> Row(Moto(258), NoEncoder, Walks(<<Rule("Match")>>), <<>>, <<>>,
        <<"EPC">>)

MotoPersistenceParams ==
  LET Caps(s, flags) == Leaf(Moto(s), NoEncoder, Prefix(<<I("Version"), Bits(1, flags)>>))
  IN "MotoPersistenceCapabilities" :> Caps(300,
        <<"CanSaveConfiguration", "CanSaveTags", "CanSaveEvents">>) @@
     "MotoPersistenceSaveParams" :> Leaf(Moto(350), NoEncoder,
        Prefix(<<Bits(1, <<"SaveConfiguration", "SaveTagData", "SaveTagEventData">>)>>)) @@
     "MotoC1G2LLRPCapabilities" :> Caps(400,
        <<"CanSupportBlockPermalock", "CanSupportRecommissioning", "CanWriteUMI",
          "CanSupportNXPCuxtomCommands", "CanSupportFujitsuCuxtomCommands",
          "CanSupportG2V2Commands">>) @@
     "MotoCustomCommandOptions" :> Leaf(Moto(466), NoEncoder,
        Prefix(<<Bits(4, <<"EnableNXPSetAndResetQuietCommands">>)>>))

-----------------------------------------------------------------------------
(* The finished registry.                                                   *)

RegisteredParams ==
  EPCParams @@ TveParams @@ TimestampParams @@ RegulatoryParams @@ AirProtocolParams @@
  DeviceParams @@ AccessSpecParams @@ AccessCommandParams @@ OpSpecParams @@ ROSpecParams @@
  BoundaryParams @@
  AISpecParams @@ ReaderConfigParams @@ AntennaParams @@ InventoryParams @@ ReportSpecParams @@
  SelectorParams @@ TagReportParams @@ OpSpecResultParams @@ EventParams @@ SpecEventParams @@
  StatusParams @@ ImpinjInventoryParams @@ ImpinjVersionParams @@ ImpinjReportParams @@
  ImpinjNmeaParams @@ ImpinjModeParams @@ ImpinjHubParams @@ ImpinjAntennaParams @@
  MotoCapabilityParams @@ MotoReportParams @@ MotoFilterParams @@ MotoRuleParams @@
  MotoPersistenceParams

RegisteredMessages ==
  CapabilitiesMessages @@ ConfigMessages @@ ROSpecMessages @@ ReportMessages @@
  AccessMessages @@ VendorMessages

(* Big-endian bytes of a number that fits TLC's integers.                    *)
Bytes(n, w) == [i \in 1..w |-> (n \div 256^(w - i)) % 256]

(* Vendor and subtype are kept as they are on the wire: the subtype of a     *)
(* parameter has four bytes, that of a message one.                          *)
Identity(id, w) == <<id.type, Bytes(id.vendor, 4), Bytes(id.subtype, w)>>

=============================================================================
