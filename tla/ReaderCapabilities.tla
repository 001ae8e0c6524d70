------------------------- MODULE ReaderCapabilities -------------------------
(***************************************************************************)
(* What LLRPClient takes from GET_READER_CAPABILITIES_RESPONSE before it    *)
(* builds an ROSpec: parseCapabilities with the selection of the transmit   *)
(* power, of the RF mode and of the deduplication backend.                  *)
(*                                                                         *)
(* Capabilities are the dictionary deserialize returned.  In a              *)
(* configuration <<>> stands for an option that is not given and <<x>> for  *)
(* one that is; dBm values are hundredths, as on the wire.                  *)
(***************************************************************************)
EXTENDS LLRPCodec

None == <<>>
Has(option) == option # None
It(option) == option[1]

Num(par, key) == Number(par[2][key][2])
PairsOf(par, key) == IF key \in DOMAIN par[2] THEN par[2][key][2] ELSE <<>>

-----------------------------------------------------------------------------
(* Transmit power.                                                          *)

UHFBand(cap) == cap["RegulatoryCapabilities"][2]["UHFBandCapabilities"]
PowerEntries(cap) == PairsOf(UHFBand(cap), "TransmitPowerLevelTableEntry")

(* Power by index; an index the reader skips holds 0.                        *)
parsePowerTable(entries) ==
  LET indexes == {Num(e, "Index") : e \in ToSet(entries)}
      top == CHOOSE i \in indexes : \A j \in indexes : j <= i
  IN IF entries = <<>> THEN 0 :> 0
     ELSE FoldLeft(LAMBDA table, e : [table EXCEPT ![Num(e, "Index")] = Num(e, "TransmitPowerValue")],
                   [i \in 0..top |-> 0], entries)

ValidIndices(entries) ==
  IF entries = <<>> THEN DOMAIN parsePowerTable(entries)
  ELSE {Num(e, "Index") : e \in ToSet(entries)}

(* max and min over a set keep any of several equals.                        *)
Strongest(entries) ==
  LET table == parsePowerTable(entries)
  IN {i \in ValidIndices(entries) : \A j \in ValidIndices(entries) : table[j] <= table[i]}

Gap(a, b) == IF a < b THEN b - a ELSE a - b
Nearest(entries, dbm) ==
  LET table == parsePowerTable(entries)
  IN {i \in ValidIndices(entries) :
        \A j \in ValidIndices(entries) : Gap(table[i], dbm) <= Gap(table[j], dbm)}

(* The indices each antenna may get; none when the request is refused.  By   *)
(* index 0 the caller asks for the strongest.                                *)
get_tx_power(entries, tx_power) ==
  UNION {LET chosen == [a \in DOMAIN tx_power |-> IF tx_power[a] = 0 THEN top ELSE tx_power[a]]
         IN IF Range(chosen) \subseteq ValidIndices(entries) THEN {chosen} ELSE {}
         : top \in Strongest(entries)}

setTxPowerDbm(entries, dbm) ==
  {f \in [DOMAIN dbm -> ValidIndices(entries)] : \A a \in DOMAIN dbm : f[a] \in Nearest(entries, dbm[a])}

TxPowers(c, cap) ==
  IF Has(c.tx_power_dbm) THEN setTxPowerDbm(PowerEntries(cap), It(c.tx_power_dbm))
  ELSE get_tx_power(PowerEntries(cap), c.tx_power)

-----------------------------------------------------------------------------
(* RF mode: the first entry with the identifier asked for.                  *)

ModeTable(cap) ==
  PairsOf(UHFBand(cap)[2]["UHFC1G2RFModeTable"], "UHFC1G2RFModeTableEntry")

ModesNamed(c, cap) ==
  SelectSeq(ModeTable(cap), LAMBDA mo : Num(mo, "ModeIdentifier") = It(c.mode_identifier))

TariFits(tari, mode) == Num(mode, "MinTari") <= tari /\ tari <= Num(mode, "MaxTari")

(* Option of an option: refused, or the mode in use if any.                  *)
ReaderMode(c, cap) ==
  IF ~Has(c.mode_identifier) THEN <<None>>
  ELSE LET modes == ModesNamed(c, cap)
       IN IF modes = <<>> THEN None
          ELSE IF c.tari # 0 /\ ~TariFits(c.tari, modes[1]) THEN None
          ELSE <<<<modes[1]>>>>

-----------------------------------------------------------------------------
(* Deduplication backend.                                                   *)

ZEBRA_TIMED_DEDUP_MAX_SECONDS == 600
MOTO_ADVANCED_CAPABILITIES == 110

(* The registry has no MotoAdvancedCapabilities: it arrives as a decode       *)
(* error, whose first occurrence counts.                                      *)
_supports_zebra_periodic_tag_reports(cap) ==
  LET errors == IF DECODE_ERROR_PARNAME \in DOMAIN cap THEN cap[DECODE_ERROR_PARNAME][2] ELSE <<>>
      advanced == SelectSeq(errors, LAMBDA e : /\ e.VendorID = Bytes(VENDOR_ID_MOTOROLA, 4)
                                               /\ e.Subtype = Bytes(MOTO_ADVANCED_CAPABILITIES, 4))
      data == advanced[1].Data
  IN advanced # <<>> /\ Len(data) >= 5 /\ (data[5] \div 16) % 2 = 1

HardwareSupported(c, cap) ==
  /\ It(c.dedup_seconds) <= ZEBRA_TIMED_DEDUP_MAX_SECONDS
  /\ _supports_zebra_periodic_tag_reports(cap)
  /\ ~Has(c.report_every_n_tags) /\ ~Has(c.ro_report_every_n_tags)

_select_dedup_backend(c, cap) ==
  CASE ~Has(c.dedup_seconds) -> "disabled"
    [] Has(c.dedup_seconds) /\ c.rf_telemetry_mode # "off" ->
         IF c.dedup_backend = "hardware" THEN "refused" ELSE "memory"
    [] Has(c.dedup_seconds) /\ c.rf_telemetry_mode = "off" ->
         IF c.dedup_backend = "memory" THEN "memory"
         ELSE IF HardwareSupported(c, cap) THEN "hardware"
         ELSE IF c.dedup_backend = "hardware" THEN "refused" ELSE "memory"

-----------------------------------------------------------------------------
(* The settings a configuration may come to with these capabilities, none    *)
(* when ReaderConfigurationError or LLRPError is raised, or the KeyError of a *)
(* reader that lists no RF mode.                                             *)
parseCapabilities(c, cap) ==
  LET mode == ReaderMode(c, cap)
      backend == _select_dedup_backend(c, cap)
      max_ant == Num(cap["GeneralDeviceCapabilities"], "MaxNumberOfAntennaSupported")
  IN IF \/ \E a \in ToSet(c.antennas) : a > max_ant
        \/ ModeTable(cap) = <<>>
        \/ mode = None
        \/ backend = "refused" THEN {}
     ELSE {[tx_power |-> power, reader_mode |-> It(mode), dedup_backend_active |-> backend] :
             power \in TxPowers(c, cap)}

=============================================================================
