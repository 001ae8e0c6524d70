--------------------------- MODULE ROSpecBuilder ---------------------------
(***************************************************************************)
(* From a reader configuration to the ROSpec that is sent: the part of     *)
(* LLRPReaderConfig.validate that shapes inventory, the LLRPROSpec         *)
(* constructor of sllurp/llrp_proto.py and LLRPClient.getROSpec.           *)
(*                                                                         *)
(* A configuration is a record.  Numbers that are only copied to the wire   *)
(* are options of their bytes.                                             *)
(***************************************************************************)
EXTENDS ReaderCapabilities

Flags(names, on) == [f \in names |-> <<"flag", IF f \in on THEN 1 ELSE 0>>]

-----------------------------------------------------------------------------
(* LLRPReaderConfig.validate.                                               *)

TelemetryFields ==
  {"EnableROSpecID", "EnableAntennaID", "EnableChannelIndex", "EnablePeakRSSI",
   "EnableFirstSeenTimestamp", "EnableLastSeenTimestamp", "EnableTagSeenCount"}
SelectorFields ==
  TelemetryFields \cup {"EnableSpecIndex", "EnableInventoryParameterSpecID", "EnableAccessSpecID"}
ZebraFields ==
  {"EnableZoneID", "EnableZoneName", "EnableAntennaPhysicalPortConfig", "EnablePhase",
   "EnableGPS", "EnableMLTReport"}

(* One power for all antennas, or a power for each.                          *)
PerAntenna(power, antennas) ==
  IF Has(power.all) THEN [a \in ToSet(antennas) |-> It(power.all)] ELSE power.per

ValidConfig(c) ==
  /\ c.antennas # <<>>
  /\ 0 \in ToSet(c.antennas) => Len(c.antennas) = 1
  /\ c.channels # <<>>
  /\ c.automatic \/ Len(c.channels) > 1 => c.impinj_fixed_frequency
  /\ c.dedup_backend = "hardware" /\ Has(c.dedup_seconds) =>
       It(c.dedup_seconds) <= ZEBRA_TIMED_DEDUP_MAX_SECONDS
  /\ ToSet(c.antennas) = DOMAIN PerAntenna(c.tx_power, c.antennas)
  /\ Has(c.tx_power_dbm) => ToSet(c.antennas) = DOMAIN PerAntenna(It(c.tx_power_dbm), c.antennas)

(* tag_content_selector is the set of fields that are on, and so is the one   *)
(* element of zebra_tag_content_selector when it is given.                    *)
validate(c) ==
  [c EXCEPT
     !.tx_power = PerAntenna(@, c.antennas),
     !.tx_power_dbm = IF Has(@) THEN <<PerAntenna(It(@), c.antennas)>> ELSE None,
     !.tag_content_selector = IF c.rf_telemetry_mode = "off" THEN @ ELSE @ \cup TelemetryFields,
     !.zebra_tag_content_selector =
        IF c.rf_telemetry_mode # "zebra" THEN @
        ELSE <<{"EnableAntennaPhysicalPortConfig", "EnablePhase"} \cup UNION ToSet(@)>>]

-----------------------------------------------------------------------------
(* LLRPROSpec, from the configuration c and the settings s that             *)
(* parseCapabilities found for it.                                           *)

Short(n) == <<"num", Bytes(n, 2)>>
Code1(n) == <<"name", n>>
Par(dict) == <<"par", dict>>
When(cond, dict) == IF cond THEN dict ELSE Empty

TagReportContentSelector(c) ==
  Par(Flags(SelectorFields, c.tag_content_selector) @@
      "C1G2EPCMemorySelector" :> Par(Flags({"EnableCRC", "EnablePCBits"}, {})))

ROReportSpec(c) ==
  Par("ROReportTrigger" :> Code1(1) @@
      "N" :> <<"num", IF c.ro_report_every_n_tags = None THEN <<0, 0>>
                      ELSE c.ro_report_every_n_tags>> @@
      "TagReportContentSelector" :> TagReportContentSelector(c) @@
      When(c.impinj_tag_content_selector # None,
           "ImpinjTagReportContentSelector" :> Par(
              "ImpinjEnableRFPhaseAngle" :>
                 Par("RFPhaseAngleMode" :> <<"num", c.impinj_tag_content_selector>>) @@
              "ImpinjEnablePeakRSSI" :>
                 Par("PeakRSSIMode" :> <<"num", c.impinj_tag_content_selector>>) @@
              "ImpinjEnableRFDopplerFrequency" :>
                 Par("RFDopplerFrequencyMode" :> <<"num", c.impinj_tag_content_selector>>))) @@
      When(c.zebra_tag_content_selector # None,
           "MotoTagReportContentSelector" :> Par(Flags(ZebraFields, c.zebra_tag_content_selector[1]))))

(* The filter masks are a set: the same mask is sent once.                    *)
C1G2Filters(masks) ==
  <<"pars", SetToSeq({Par("C1G2TagInventoryMask" :>
                          Par("MB" :> <<"flag", 1>> @@ "Pointer" :> Short(32) @@
                              "TagMask" :> <<"hex", m>>)) : m \in masks})>>

ImpinjFixedFrequencyList(c) ==
  IF c.automatic
  THEN Par("FixedFrequencyMode" :> Short(1) @@ "ChannelList" :> <<"list", <<>>>>)
  ELSE Par("FixedFrequencyMode" :> Short(2) @@
           "ChannelList" :> <<"list", [i \in DOMAIN c.channels |-> Bytes(c.channels[i], 2)]>>)

C1G2InventoryCommand(c, s) ==
  Par("TagInventoryStateAware" :> <<"flag", 0>> @@
      "C1G2SingulationControl" :> Par("Session" :> <<"flag", 2>> @@ "TagPopulation" :> Short(4) @@
                                      "TagTransitTime" :> <<"num", Bytes(0, 4)>>) @@
      When(c.tag_filter_mask # {}, "C1G2Filter" :> C1G2Filters(c.tag_filter_mask)) @@
      When(Has(s.reader_mode),
           "C1G2RFControl" :> Par(
              "ModeIndex" :> Short(Num(It(s.reader_mode), "ModeIdentifier")) @@
              "Tari" :> Short(IF TariFits(c.tari, It(s.reader_mode)) THEN c.tari ELSE 0))) @@
      When(c.impinj_search_mode # None,
           "ImpinjInventorySearchMode" :>
              Par("InventorySearchMode" :> <<"num", c.impinj_search_mode>>)) @@
      When(c.impinj_fixed_frequency /\ (c.automatic \/ Len(c.channels) > 1),
           "ImpinjFixedFrequencyList" :> ImpinjFixedFrequencyList(c)))

(* Faulty variant: every antenna gets the power of the first.                 *)
AntennaConfigurationShared(c, s, antid) ==
  Par("AntennaID" :> Short(antid) @@
      "RFTransmitter" :> Par("HopTableId" :> Short(1) @@ "ChannelIndex" :> Short(c.channels[1]) @@
                             "TransmitPower" :> Short(s.tx_power[c.antennas[1]])) @@
      "C1G2InventoryCommand" :> <<"pars", <<C1G2InventoryCommand(c, s)>>>>)

AntennaConfiguration(c, s, antid) ==
  Par("AntennaID" :> Short(antid) @@
      "RFTransmitter" :> Par("HopTableId" :> Short(1) @@ "ChannelIndex" :> Short(c.channels[1]) @@
                             "TransmitPower" :> Short(s.tx_power[antid])) @@
      "C1G2InventoryCommand" :> <<"pars", <<C1G2InventoryCommand(c, s)>>>>)

StopTrigger(key, c) ==
  key :> Code1(IF c.duration = None THEN 0 ELSE 1) @@
  "DurationTriggerValue" :> <<"num", IF c.duration = None THEN Bytes(0, 4) ELSE c.duration>>

(* A count of tags takes the type over from the duration and keeps its value. *)
AISpecStopTrigger(c) ==
  IF c.report_every_n_tags = None THEN Par(StopTrigger("AISpecStopTriggerType", c))
  ELSE Par("AISpecStopTriggerType" :> Code1(3) @@
           "TagObservationTrigger" :> Par("TriggerType" :> Code1(0) @@
              "NumberOfTags" :> <<"num", c.report_every_n_tags>> @@ "NumberOfAttempts" :> Short(0) @@
              "T" :> Short(0) @@ "Timeout" :> <<"num", c.report_timeout_ms>>) @@
           StopTrigger("AISpecStopTriggerType", c))

LLRPROSpec(c, s) ==
  Par("ROSpecID" :> <<"num", Bytes(1, 4)>> @@ "Priority" :> <<"num", <<0>>>> @@
      "CurrentState" :> Code1(0) @@
      "ROBoundarySpec" :> Par(
         "ROSpecStartTrigger" :> Par("ROSpecStartTriggerType" :> Code1(1)) @@
         "ROSpecStopTrigger" :> Par(StopTrigger("ROSpecStopTriggerType", c))) @@
      "AISpec" :> <<"pars", <<Par(
         "AntennaID" :> <<"list", [i \in DOMAIN c.antennas |-> Bytes(c.antennas[i], 2)]>> @@
         "AISpecStopTrigger" :> AISpecStopTrigger(c) @@
         "InventoryParameterSpec" :> <<"pars", <<Par(
            "InventoryParameterSpecID" :> Short(1) @@ "ProtocolID" :> <<"num", <<1>>>> @@
            "AntennaConfiguration" :> <<"pars",
               [i \in DOMAIN c.antennas |-> AntennaConfiguration(c, s, c.antennas[i])]>>)>>>>)>>>> @@
      "ROReportSpec" :> ROReportSpec(c))

-----------------------------------------------------------------------------
(* LLRPClient.getROSpec: with hardware deduplication the Zebra report        *)
(* trigger replaces the standard one and N holds seconds.                     *)

MOTO_RO_REPORT_TRIGGER == 125

HardwareReportSpec(report, seconds) ==
  Par("ROReportTrigger" :> Code1(0) @@ "N" :> Short(seconds) @@
      "CustomParameter" :> <<"pars", <<Par("VendorID" :> <<"num", Bytes(VENDOR_ID_MOTOROLA, 4)>> @@
         "Subtype" :> <<"num", Bytes(MOTO_RO_REPORT_TRIGGER, 4)>> @@ "Payload" :> <<"bytes", <<1>>>>)>>>> @@
      report[2])

getROSpec(c, s) ==
  LET rospec == LLRPROSpec(c, s)
  IN IF s.dedup_backend_active # "hardware" THEN rospec
     ELSE Par("ROReportSpec" :> HardwareReportSpec(rospec[2]["ROReportSpec"], It(c.dedup_seconds)) @@
              rospec[2])

=============================================================================
