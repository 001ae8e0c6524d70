--------------------------- MODULE MCLLRPMessage ---------------------------
EXTENDS LLRPMessage

(* The whole registry.  The LET keeps TLC's coverage statistics from expanding *)
(* the tables at every use.                                                   *)
MCParam_struct == LET rows == RegisteredParams IN rows
MCMessage_struct == LET rows == RegisteredMessages IN rows

MCAnchors == {"LLRPStatus", "AntennaConfiguration"}
MCReplies == {"GET_READER_CONFIG_RESPONSE", "RO_ACCESS_REPORT", "READER_EVENT_NOTIFICATION"}
MCSamples ==
  "GET_READER_CONFIG_RESPONSE" :> DOMAIN Param_struct \cup {UnknownType} @@
  "RO_ACCESS_REPORT" :> {"TagReportData", "ROSpec", UnknownType} @@
  "READER_EVENT_NOTIFICATION" :> {"ReaderEventNotificationData", UnknownType}

(* Readers: one with Zebra's timed reports; one whose index 0 is real and     *)
(* strongest, with a gap in its table; one without power table, and with      *)
(* advanced capabilities too short to hold the flag.                          *)
Zebra == [max_ant |-> 4, powers |-> <<<<1, 1000>>, <<2, 2000>>, <<3, 3000>>>>,
          modes |-> <<<<1, 6250, 25000>>, <<1000, 12500, 12500>>>>,
          advanced |-> <<<<0, 0, 0, 1, 16>>>>]
Gapped == [max_ant |-> 1, powers |-> <<<<0, 3000>>, <<2, 1000>>>>,
           modes |-> <<<<1000, 6250, 25000>>>>, advanced |-> <<<<0, 0, 0, 1, 239>>>>]
Bare == [max_ant |-> 2, powers |-> <<>>, modes |-> <<<<7, 0, 25000>>>>,
         advanced |-> <<<<0, 0, 0, 1>>>>]

All(x) == [all |-> <<x>>, per |-> <<>>]
Each2(x, y) == [all |-> <<>>, per |-> 1 :> x @@ 2 :> y]

(* Three families of configurations: what is inventoried, the vendor options, *)
(* and what depends on the reader.                                            *)
Inventories ==
  [antennas : {<<1>>, <<2, 1>>, <<0>>, <<1, 0>>}, tx_power : {All(0), Each2(1, 2)},
   tx_power_dbm : {<<>>}, mode_identifier : {<<>>, <<1000>>}, tari : {0},
   channels : {<<3>>}, automatic : {FALSE}, impinj_fixed_frequency : {FALSE},
   rf_telemetry_mode : {"off"}, tag_content_selector : {{"EnableChannelIndex"}},
   zebra_tag_content_selector : {<<>>}, impinj_tag_content_selector : {<<>>},
   impinj_search_mode : {<<>>}, tag_filter_mask : {{}, {<<10, 11, 12>>, <<1, 2>>}},
   duration : {<<>>, <<0, 0, 39, 16>>},
   report_every_n_tags : {<<>>, <<0, 5>>}, report_timeout_ms : {<<0, 0, 0, 200>>},
   ro_report_every_n_tags : {<<>>, <<1, 0>>}, dedup_seconds : {<<>>, <<60>>}, dedup_backend : {"auto"}]
VendorOptions ==
  [antennas : {<<2, 1>>}, tx_power : {Each2(1, 2)},
   tx_power_dbm : {<<>>}, mode_identifier : {<<1000>>}, tari : {0},
   channels : {<<3>>, <<3, 5>>}, automatic : BOOLEAN, impinj_fixed_frequency : BOOLEAN,
   rf_telemetry_mode : {"off", "standard", "zebra"},
   tag_content_selector : {{"EnableChannelIndex"}},
   zebra_tag_content_selector : {<<>>, <<{"EnableGPS"}>>},
   impinj_tag_content_selector : {<<>>, <<0, 1>>}, impinj_search_mode : {<<>>, <<0, 2>>},
   tag_filter_mask : {{}}, duration : {<<>>},
   report_every_n_tags : {<<>>}, report_timeout_ms : {<<0, 0, 0, 0>>},
   ro_report_every_n_tags : {<<>>}, dedup_seconds : {<<>>, <<60>>}, dedup_backend : {"auto"}]
ReaderChoices ==
  [antennas : {<<1>>, <<2, 1>>}, tx_power : {All(0), All(1), All(2), Each2(0, 3)},
   tx_power_dbm : {<<>>, <<All(500)>>, <<All(2000)>>, <<Each2(1500, 9999)>>},
   mode_identifier : {<<>>, <<1000>>}, tari : {0, 12500},
   channels : {<<3>>}, automatic : {FALSE}, impinj_fixed_frequency : {FALSE},
   rf_telemetry_mode : {"off", "standard"}, tag_content_selector : {{"EnableChannelIndex"}},
   zebra_tag_content_selector : {<<>>}, impinj_tag_content_selector : {<<>>},
   impinj_search_mode : {<<>>}, tag_filter_mask : {{}}, duration : {<<>>},
   report_every_n_tags : {<<>>}, report_timeout_ms : {<<0, 0, 0, 0>>},
   ro_report_every_n_tags : {<<>>}, dedup_seconds : {<<600>>, <<601>>},
   dedup_backend : {"auto", "hardware", "memory"}]
MCReaders == {Zebra, Gapped, Bare}
MCConfigs ==
  [rd \in MCReaders |-> IF rd = Zebra THEN Inventories \cup VendorOptions \cup ReaderChoices
                       ELSE ReaderChoices]
=============================================================================
