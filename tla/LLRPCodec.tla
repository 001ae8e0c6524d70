----------------------------- MODULE LLRPCodec -----------------------------
(***************************************************************************)
(* The wire format: sllurp/llrp_decoder.py (message and parameter headers) *)
(* and the generic part of sllurp/llrp_proto.py with the corrections of    *)
(* sllurp/_protocol_fixes.py (decode_param, decode_all_parameters,         *)
(* encode_param, encode_all_parameters), for any registry whose rows have  *)
(* the form of those of LLRPRegistry.                                      *)
(*                                                                         *)
(* Bytes are numbers 0..255.  A dictionary is a function on the names of   *)
(* its keys, a value a pair <<tag, content>>:                              *)
(*   "num" and "bytes" (byte sequences: an integer is known by its bytes,  *)
(*   and so is a string or a hexadecimal rendering), "flag" (a bit field), *)
(*   "name" (a code that has a name), "list" (byte sequences), "hex"       *)
(*   (nibbles), "par" (a parameter's dictionary), "pars" (a repeated       *)
(*   parameter), "named" (parameters with their names) and "errors".       *)
(* The outcome "LLRPError" also stands for struct.error, ValueError,       *)
(* TypeError and IndexError, which decode_param turns into LLRPError.      *)
(***************************************************************************)
EXTENDS LLRPRegistry

CONSTANTS Param_struct,    \* the registered parameters, by name
          Message_struct   \* the registered messages, by name

(* The reverse tables.                                                       *)
Param_Type2Name ==
  [id \in {Identity(Param_struct[nm].id, 4) : nm \in DOMAIN Param_struct} |->
     CHOOSE nm \in DOMAIN Param_struct : Identity(Param_struct[nm].id, 4) = id]

Message_Type2Name ==
  [id \in {Identity(Message_struct[nm].id, 1) : nm \in DOMAIN Message_struct} |->
     CHOOSE nm \in DOMAIN Message_struct : Identity(Message_struct[nm].id, 1) = id]

DECODE_ERROR_PARNAME == "SllurpDecodeError"

Empty == <<>>
Number(b) == FoldLeft(LAMBDA acc, x : acc * 256 + x, 0, b)
From(b, i) == SubSeq(b, i + 1, Len(b))
Upto(b, n) == SubSeq(b, 1, IF n < Len(b) THEN n ELSE Len(b))

Ok(v, rest) == [r |-> "ok", v |-> v, rest |-> rest]
Fail(r) == [r |-> r, v |-> Empty, rest |-> <<>>]
LLRPError == Fail("LLRPError")

-----------------------------------------------------------------------------
(* Headers.                                                                 *)

MsgHeader(type, vendor, subtype, hdr, length) ==
  [r |-> "ok", type |-> type, vendor |-> vendor, subtype |-> subtype, hdr |-> hdr,
   length |-> length]
NoHeader(r) == [MsgHeader(0, <<>>, <<>>, 0, 0) EXCEPT !.r = r]

VERSION == 1

msg_header_encode(type, length, msgid, vendor, subtype) ==
  LET custom == type = TYPE_CUSTOM
      size == IF custom THEN 15 ELSE 10
  IN Bytes(VERSION * 1024 + type, 2) \o Bytes(size + length, 4) \o msgid
     \o IF custom THEN vendor \o subtype ELSE <<>>

msg_header_decode(data) ==
  LET type == Number(SubSeq(data, 1, 2)) % 1024
      custom == type = TYPE_CUSTOM
      hdr == IF custom THEN 15 ELSE 10
      length == Number(SubSeq(data, 3, 6))
  IN IF Len(data) < 10 \/ Len(data) < hdr \/ length < hdr THEN NoHeader("LLRPError")
     ELSE MsgHeader(type, IF custom THEN SubSeq(data, 11, 14) ELSE Bytes(0, 4),
                    IF custom THEN SubSeq(data, 15, 15) ELSE Bytes(0, 1), hdr, length)

ParHeader(type, vendor, subtype, hdr, length) == MsgHeader(type, vendor, subtype, hdr, length)

tlv_param_header_decode(data) ==
  LET type == Number(SubSeq(data, 1, 2)) % 1024
      length == Number(SubSeq(data, 3, 4))
  IN CASE Len(data) < 4 -> NoHeader("None")
       [] Len(data) >= 4 /\ length < 4 -> NoHeader("LLRPError")
       [] Len(data) >= 4 /\ length >= 4 /\ type # TYPE_CUSTOM ->
            ParHeader(type, Bytes(0, 4), Bytes(0, 4), 4, length)
       [] Len(data) \in 4..11 /\ length >= 4 /\ type = TYPE_CUSTOM -> NoHeader("None")
       [] Len(data) >= 12 /\ length \in 4..11 /\ type = TYPE_CUSTOM -> NoHeader("LLRPError")
       [] OTHER -> ParHeader(type, SubSeq(data, 5, 8), SubSeq(data, 9, 12), 12, length)

IsTve(data) == data[1] >= 128 /\ data[1] - 128 \in DOMAIN TVE_PARAM_FORMATS

tve_param_header_decode(data) ==
  LET type == data[1] - 128
  IN ParHeader(type, Bytes(0, 4), Bytes(0, 4), 1, 1 + TVE_PARAM_FORMATS[type])

(* A TV type outside the table falls through to the TLV reading.            *)
param_header_decode(data) ==
  IF IsTve(data) THEN tve_param_header_decode(data) ELSE tlv_param_header_decode(data)

-----------------------------------------------------------------------------
(* Unpacking a layout.                                                      *)

(* Size of the part that is unpacked before any value is looked at.         *)
Width(item) ==
  CASE item.k \in {"int", "zero", "drop", "bits", "code"} -> item.w
    [] item.k \in {"list", "blob"} -> item.cw
    [] OTHER -> 0
Lead(lay) == FoldLeft(LAMBDA acc, item : acc + Width(item), 0, lay)
FixedSize(lay) == \A i \in DOMAIN lay : lay[i].k \in {"int", "zero", "drop", "bits", "code"}

BitAt(b, i) == (b[(i \div 8) + 1] \div 2^(7 - (i % 8))) % 2
Field(b, start, w) == FoldLeft(LAMBDA acc, i : acc * 2 + BitAt(b, start + i - 1), 0, [i \in 1..w |-> i])
Start(fs, i) == FoldLeft(LAMBDA acc, f : acc + f[2], 0, SubSeq(fs, 1, i - 1))

UnpackBits(item, b) ==
  [f \in {item.fs[i][1] : i \in DOMAIN item.fs} |->
     LET i == CHOOSE j \in DOMAIN item.fs : item.fs[j][1] = f
     IN <<"flag", Field(b, Start(item.fs, i), item.fs[i][2])>>]

(* Faulty variant: a code without a name is read as the first one.            *)
UnpackCodeLenient(item, b, rest) ==
  Ok(item.f :> <<"name", IF Number(b) \in item.codes THEN Number(b) ELSE 0>>, rest)

UnpackCode(item, b, rest) ==
  LET c == Number(b)
  IN CASE c \in item.codes -> Ok(item.f :> <<"name", c>>, rest)
       [] c \notin item.codes /\ item.other \in {"KeyError", "LLRPError"} -> Fail(item.other)
       [] c \notin item.codes /\ item.other = "absent" -> Ok(Empty, rest)
       [] c \notin item.codes /\ item.other = "number" -> Ok(item.f :> <<"num", b>>, rest)
       [] c \notin item.codes /\ item.other = "zero" -> Ok(item.f :> <<"name", 0>>, rest)
       [] c \notin item.codes /\ item.other = "blank" -> Ok(item.f :> <<"name", -1>>, rest)
       [] c \notin item.codes /\ item.other = "last" ->
            Ok(item.f :> <<"name", CHOOSE x \in item.codes : x + 1 \notin item.codes>>, rest)

(* Counted lists and byte strings: the elements of width w that are there.   *)
UnpackCounted(item, data) ==
  LET n == Number(Upto(data, item.cw))
      rest == From(data, item.cw)
      body == Upto(rest, n * item.w)
      full == IF item.k = "blob" THEN <<"bytes", body>>
              ELSE <<"list", [i \in 1..(Len(body) \div item.w) |->
                                SubSeq(body, (i - 1) * item.w + 1, i * item.w)]>>
      counted == IF item.count = "" THEN Empty ELSE item.count :> <<"num", Bytes(n, item.cw)>>
  IN IF Len(data) < item.cw \/ (Len(rest) < n * item.w /\ ~item.cut) THEN LLRPError
     ELSE Ok(counted @@ (IF item.opt /\ n = 0 THEN Empty ELSE item.f :> full),
             From(rest, n * item.w))

UnpackItem(item, data) ==
  LET b == SubSeq(data, 1, item.w)
      rest == From(data, item.w)
  IN CASE item.k = "int" -> Ok(item.f :> <<"num", b>>, rest)
       [] item.k \in {"zero", "drop"} -> Ok(Empty, rest)
       [] item.k = "bits" -> Ok(UnpackBits(item, b), rest)
       [] item.k = "code" -> UnpackCode(item, b, rest)
       [] item.k \in {"list", "blob"} -> UnpackCounted(item, data)
       [] item.k = "rest" -> Ok(item.f :> <<"bytes", data>>, <<>>)

Merge(acc, got) == IF got.r # "ok" THEN got ELSE Ok(got.v @@ acc.v, got.rest)

Unpack(lay, data) ==
  FoldLeft(LAMBDA acc, item :
             IF acc.r # "ok" THEN acc ELSE Merge(acc, UnpackItem(item, acc.rest)),
           Ok(Empty, data), lay)

(* Faulty variant: a body that is cut short is filled up with zeros.          *)
UnpackFieldsPadded(dec, data) ==
  Unpack(dec.lay, data \o [i \in 1..(Lead(dec.lay) - Len(data)) |-> 0])

(* Struct.unpack checks the length before a decoder looks at a value.        *)
UnpackFields(dec, data) ==
  IF \/ Len(data) < Lead(dec.lay)
     \/ dec.tail = "exact" /\ FixedSize(dec.lay) /\ Len(data) # Lead(dec.lay)
  THEN LLRPError ELSE Unpack(dec.lay, data)

-----------------------------------------------------------------------------
(* Decoding parameters.                                                     *)

RECURSIVE decode_param(_), decode_all_parameters(_, _, _)

(* Faulty variant: a repeated parameter keeps its last occurrence only.       *)
StoreLast(dict, multiple, nm, v) == (nm :> IF multiple THEN <<"pars", <<v>>>> ELSE v) @@ dict

Store(dict, multiple, nm, v) ==
  IF ~multiple THEN (nm :> v) @@ dict
  ELSE (nm :> <<"pars", (IF nm \in DOMAIN dict THEN dict[nm][2] ELSE <<>>) \o <<v>>>>) @@ dict

StoreError(dict, e) ==
  LET old == IF DECODE_ERROR_PARNAME \in DOMAIN dict THEN dict[DECODE_ERROR_PARNAME][2] ELSE <<>>
  IN (DECODE_ERROR_PARNAME :> <<"errors", Append(old, e)>>) @@ dict

(* AISpecEvent also takes its singulation details without their TV header,   *)
(* or behind a two-byte type.                                                *)
IsLegacyDetails(rest) ==
  \/ Len(rest) = 4
  \/ Len(rest) = 6 /\ Number(SubSeq(rest, 1, 2)) = 18

LegacyDetails(rest) ==
  LET body == SubSeq(rest, Len(rest) - 3, Len(rest))
  IN "C1G2SingulationDetails" :> <<"par", "NumCollisionSlots" :> <<"num", SubSeq(body, 1, 2)>> @@
                                          "NumEmptySlots" :> <<"num", SubSeq(body, 3, 4)>>>>

DecodeTail(nm, fields) ==
  LET row == Param_struct[nm]
      rest == fields.rest
  IN CASE fields.r # "ok" -> fields
       [] fields.r = "ok" /\ row.dec.tail = "ignore" -> Ok(fields.v, <<>>)
       [] fields.r = "ok" /\ row.dec.tail = "exact" -> IF rest = <<>> THEN fields ELSE LLRPError
       [] fields.r = "ok" /\ row.dec.tail = "walk" ->
            IF nm = "AISpecEvent" /\ IsLegacyDetails(rest)
            THEN Ok(LegacyDetails(rest) @@ fields.v, <<>>)
            ELSE decode_all_parameters(rest, row.n, fields.v)

(* A report that carries EPC-96 also shows it as EPC.                        *)
AsParameter(nm, all) ==
  IF all.r # "ok" THEN all
  ELSE IF "" \in DOMAIN all.v THEN Ok(all.v[""], <<>>)
  ELSE IF nm = "TagReportData" /\ "EPC-96" \in DOMAIN all.v
  THEN Ok(<<"par", ("EPC" :> all.v["EPC-96"]) @@ all.v>>, <<>>)
  ELSE Ok(<<"par", all.v>>, <<>>)

DecodeBody(nm, data) ==
  LET dec == Param_struct[nm].dec
  IN IF ~dec.is THEN Fail("KeyError")
     ELSE AsParameter(nm, DecodeTail(nm, UnpackFields(dec, data)))

(* What decode_param returns; name = "": the value is a decode error entry.  *)
Decoded(r, name, v, length) == [r |-> r, name |-> name, v |-> v, length |-> length]

DecodeErrorEntry(nm, h, why, body) ==
  Decoded("ok", "", [Name |-> nm, Type |-> h.type, VendorID |-> h.vendor, Subtype |-> h.subtype,
                     DecodeError |-> why, Data |-> body], h.length)

DecodeOutcome(nm, h, body, got) ==
  IF got.r = "KeyError" THEN DecodeErrorEntry(nm, h, "DecodeFunctionMissing", body)
  ELSE Decoded(got.r, nm, got.v, h.length)

DecodeNamed(h, id, body) ==
  IF id \notin DOMAIN Param_Type2Name THEN DecodeErrorEntry("", h, "UnknownParameter", body)
  ELSE DecodeOutcome(Param_Type2Name[id], h, body, DecodeBody(Param_Type2Name[id], body))

DecodeAfterHeader(data, h) ==
  IF h.r # "ok" \/ h.type = 0 \/ h.length > Len(data) THEN Decoded("LLRPError", "", Empty, h.length)
  ELSE DecodeNamed(h, <<h.type, h.vendor, h.subtype>>, SubSeq(data, h.hdr + 1, h.length))

decode_param(data) == DecodeAfterHeader(data, param_header_decode(data))

Collect(dict, n_fields, p) ==
  IF p.name = "" THEN StoreError(dict, p.v) ELSE Store(dict, p.name \in n_fields, p.name, p.v)

DecodeMore(data, n_fields, dict, p) ==
  IF p.r # "ok" THEN LLRPError
  ELSE decode_all_parameters(From(data, p.length), n_fields, Collect(dict, n_fields, p))

decode_all_parameters(data, n_fields, dict) ==
  IF data = <<>> THEN Ok(dict, <<>>) ELSE DecodeMore(data, n_fields, dict, decode_param(data))

-----------------------------------------------------------------------------
(* Encoding parameters.                                                     *)

RECURSIVE encode_param(_, _), encode_all_parameters(_, _)

(* Half a byte per character, padded on the right to a whole byte.           *)
hex_to_bit_array(nibbles) ==
  LET even == IF Len(nibbles) % 2 = 0 THEN nibbles ELSE Append(nibbles, 0)
  IN Bytes(4 * Len(nibbles), 2) \o [i \in 1..(Len(even) \div 2) |-> 16 * even[2 * i - 1] + even[2 * i]]

(* Faulty variant: the fields are not moved to the high bits.                 *)
PackBitsLow(item, dict) ==
  LET Value(i) == IF item.fs[i][1] \in DOMAIN dict THEN dict[item.fs[i][1]][2] ELSE 0
  IN Bytes(FoldLeft(LAMBDA acc, i : acc * 2^item.fs[i][2] + Value(i), 0,
                    [i \in 1..Len(item.fs) |-> i]), item.w)

(* A flag that is not in the dictionary is not set.                          *)
PackBits(item, dict) ==
  LET total == Start(item.fs, Len(item.fs) + 1)
      Value(i) == IF item.fs[i][1] \in DOMAIN dict THEN dict[item.fs[i][1]][2] ELSE 0
      packed == FoldLeft(LAMBDA acc, i : acc * 2^item.fs[i][2] + Value(i), 0,
                         [i \in 1..Len(item.fs) |-> i])
      used == (total + 7) \div 8
  IN Bytes(packed * 2^(8 * used - total), used) \o [i \in 1..(item.w - used) |-> 0]

PackItem(item, dict) ==
  CASE item.k = "int" -> dict[item.f][2]
    [] item.k = "zero" -> [i \in 1..item.w |-> 0]
    [] item.k = "bits" -> PackBits(item, dict)
    [] item.k = "code" -> Bytes(dict[item.f][2], item.w)
    [] item.k = "list" -> Bytes(Len(dict[item.f][2]), item.cw) \o FlattenSeq(dict[item.f][2])
    [] item.k = "blob" -> Bytes(Len(dict[item.f][2]) \div item.w, item.cw) \o dict[item.f][2]
    [] item.k = "rest" -> dict[item.f][2]
    [] item.k = "hexbits" -> hex_to_bit_array(dict[item.f][2])
    [] item.k = "embed" ->
         FlattenSeq([i \in 1..Len(dict[item.f][2]) |->
                       encode_param(dict[item.f][2][i][1], dict[item.f][2][i][2])])
    [] item.k = "truthy" -> <<IF DOMAIN dict = {} THEN 0 ELSE 128>>

EncodeBody(row, dict) ==
  LET packed == FlattenSeq([i \in 1..Len(row.enc.lay) |-> PackItem(row.enc.lay[i], dict)])
  IN IF row.enc.sub THEN packed \o encode_all_parameters(dict, row.auto) ELSE packed

(* An unknown name and a parameter without encoder leave no byte.            *)
encode_param(nm, v) ==
  LET row == Param_struct[nm]
      dict == v[2]
      sub == EncodeBody(row, dict)
      vendor == IF nm = "CustomParameter" THEN dict["VendorID"][2] ELSE Bytes(row.id.vendor, 4)
      subtype == IF nm = "CustomParameter" THEN dict["Subtype"][2] ELSE Bytes(row.id.subtype, 4)
  IN IF nm \notin DOMAIN Param_struct THEN <<>>
     ELSE IF ~row.enc.is THEN <<>>
     ELSE IF row.id.tv THEN <<128 + row.id.type>> \o sub
     ELSE IF row.id.type = TYPE_CUSTOM
     THEN Bytes(TYPE_CUSTOM, 2) \o Bytes(12 + Len(sub), 2) \o vendor \o subtype \o sub
     ELSE Bytes(row.id.type, 2) \o Bytes(4 + Len(sub), 2) \o sub

(* The declared order; a repeated parameter that is not a list is skipped.   *)
encode_all_parameters(dict, auto) ==
  FlattenSeq([i \in 1..Len(auto) |->
    LET nm == auto[i][1]
        v == dict[nm]
    IN CASE nm \notin DOMAIN dict -> <<>>
         [] nm \in DOMAIN dict /\ ~auto[i][2] -> encode_param(nm, v)
         [] nm \in DOMAIN dict /\ auto[i][2] /\ v[1] # "pars" -> <<>>
         [] nm \in DOMAIN dict /\ auto[i][2] /\ v[1] = "pars" ->
              FlattenSeq([j \in 1..Len(v[2]) |-> encode_param(nm, v[2][j])])])

=============================================================================
