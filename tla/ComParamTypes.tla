--------------------------- MODULE ComParamTypes ---------------------------
(***************************************************************************)
(* The communication parameters the wrapper defines                        *)
(* (types/pdu_com_param/single): for each its short name, the D-PDU class  *)
(* it is sent under and the Rust type of its value; the CpVariant a value  *)
(* is converted to for the driver, and its JSON representation.  A u32 is  *)
(* a pair <<high, low>> of 16-bit halves: TLC's integers have 32 bits, the *)
(* durations of the code overflow at 2^32.                                 *)
(***************************************************************************)
EXTENDS Naturals, Sequences

Half == 65536
Word(n) == <<n \div Half, n % Half>>
Ones == <<Half - 1, Half - 1>> \* 0xFFFFFFFF

\* v.wrapping_mul(1000)
Times1000(w) ==
  <<(w[1] * 1000 + (w[2] * 1000) \div Half) % Half, (w[2] * 1000) % Half>>

(***************************************************************************)
(* Values.  n is a sequence of words: one for a number or a flag, one per  *)
(* element for a list, one per character for a name.                       *)
(***************************************************************************)
Of(n)     == [unit |-> "none", n |-> n]
Num(k)    == Of(<<Word(k)>>)
Micros(w) == [unit |-> "Micros", n |-> <<w>>]
Millis(w) == [unit |-> "Millis", n |-> <<w>>]
Secs(w)   == [unit |-> "Secs", n |-> <<w>>]
Flag(b)   == Num(IF b THEN 1 ELSE 0)

Lists == {"bytes", "longs", "timings", "text"}

\* ZERO, DISABLE or empty()
Zero(p) ==
  CASE p.type = "time"   -> Millis(Word(0))
    [] p.type \in Lists -> Of(<<>>)
    [] OTHER             -> Of(<<Word(0)>>)

ToMicros(v) ==
  CASE v.unit = "Micros" -> v.n[1]
    [] v.unit = "Millis" -> Times1000(v.n[1])
    [] v.unit = "Secs"   -> Times1000(Times1000(v.n[1]))

\* The CpVariant of a value, which the driver is given.
Variant(p, v) ==
  CASE p.type = "time"              -> [pdu |-> "Unum32", n |-> <<ToMicros(v)>>]
    [] p.type \in {"u32", "bool"}    -> [pdu |-> "Unum32", n |-> v.n]
    [] p.type = "u8"                 -> [pdu |-> "Unum8", n |-> v.n]
    [] p.type \in {"bytes", "text"}  -> [pdu |-> "ByteField", n |-> v.n]
    [] p.type = "longs"              -> [pdu |-> "LongField", n |-> v.n]
    [] p.type = "timings"            -> [pdu |-> "StructField", n |-> v.n]

(***************************************************************************)
(* JSON values and serde's conversions.                                    *)
(***************************************************************************)
Number(w) == [json |-> "number", n |-> <<w>>]
Array(n)  == [json |-> "array", n |-> n]
Structs(n) == [json |-> IF n = <<>> THEN "array" ELSE "structs", n |-> n]
Text(n)   == [json |-> "string", n |-> n]
Bool(b)   == [json |-> "bool", n |-> <<Word(IF b THEN 1 ELSE 0)>>]

\* Mutant: a duration is written in its own unit.
SerializeOwnUnit(p, v) ==
  CASE p.type \in {"bytes", "longs"} -> Array(v.n)
    [] p.type = "timings"            -> Structs(v.n)
    [] p.type = "text"               -> Text(v.n)
    [] OTHER                         -> Number(v.n[1])

Serialize(p, v) ==
  CASE p.type = "time"               -> Number(ToMicros(v))
    [] p.type \in {"bytes", "longs"} -> Array(v.n)
    [] p.type = "timings"            -> Structs(v.n)
    [] p.type = "text"               -> Text(v.n)
    [] OTHER                         -> Number(v.n[1])

IsU32(w) == w[1] < Half
IsU8(w)  == w[1] = 0 /\ w[2] < 256

\* Mutant: any number is cut to the width of the field.
AcceptsNumbers(p, j) ==
  CASE p.type \in {"bytes", "longs"} -> j.json = "array"
    [] p.type = "timings"            -> j.json = "structs" \/ j = Array(<<>>)
    [] p.type = "text"               -> j.json = "string"
    [] OTHER                         -> j.json = "number"

\* Whether serde_json::from_value() accepts j for the parameter's type.
Accepts(p, j) ==
  CASE p.type = "u8"      -> j.json = "number" /\ IsU8(j.n[1])
    [] p.type = "bytes" ->
         j.json = "array" /\ \A i \in DOMAIN j.n : IsU8(j.n[i])
    [] p.type = "longs" ->
         j.json = "array" /\ \A i \in DOMAIN j.n : IsU32(j.n[i])
    [] p.type = "timings" -> j.json = "structs" \/ j = Array(<<>>)
    [] p.type = "text"    -> j.json = "string"
    [] OTHER              -> j.json = "number" /\ IsU32(j.n[1])

Deserialize(p, j) ==
  CASE p.type = "time" -> Micros(j.n[1])
    [] p.type = "bool" -> Flag(j.n[1] # Word(0))
    [] OTHER           -> Of(j.n)

(***************************************************************************)
(* What the values can be.                                                 *)
(***************************************************************************)
\* A JSON number is a u64: its high half may have more bits.
Words == Nat \X (0 .. Half - 1)
Units == {"none", "Micros", "Millis", "Secs"}

\* The values of a Rust type.
Fits(type, v) ==
  /\ v \in [unit : Units, n : Seq(Words)]
  /\ \A i \in DOMAIN v.n : IF type \in {"u8", "bytes"} THEN IsU8(v.n[i])
                                                      ELSE IsU32(v.n[i])
  /\ type = "bool" => v \in {Flag(TRUE), Flag(FALSE)}
  /\ type = "time" <=> v.unit # "none"
  /\ type \in Lists \/ Len(v.n) = 1

\* The JSON values: one word of a number or a flag, characters of a string, the
\* u32s of the structs.
IsJson(j) ==
  /\ j.n \in Seq(Words)
  /\ j = [json |-> j.json, n |-> j.n]
  /\ j.json \in {"number", "bool"} => Len(j.n) = 1
  /\ j.json \in {"structs", "string"} => \A i \in DOMAIN j.n : IsU32(j.n[i])

-----------------------------------------------------------------------------
Classes == {"BusType", "Com", "ErrHdl", "TesterPresent", "Timing", "UniqueId"}
Types == {"u8", "u32", "bool", "time"} \cup Lists

Param(name, class, type) == [name |-> name, class |-> class, type |-> type]

\* The CAN controller (single/bus_type).
CpBaudrate ==
  Param("CP_Baudrate", "BusType", "u32")
CpBitSamplePoint ==
  Param("CP_BitSamplePoint", "BusType", "u32")
CpCanBaudrateRecord ==
  Param("CP_CanBaudrateRecord", "BusType", "longs")
CpCanFdBaudrate ==
  Param("CP_CANFDBaudrate", "BusType", "u32")
CpCanFdBitSamplePoint ==
  Param("CP_CANFDBitSamplePoint", "BusType", "u32")
CpCanFdSyncJumpWidth ==
  Param("CP_CANFDSyncJumpWidth", "BusType", "u32")
CpListenOnly ==
  Param("CP_ListenOnly", "BusType", "bool")
CpSamplesPerBit ==
  Param("CP_SamplesPerBit", "BusType", "u32")
CpSyncJumpWidth ==
  Param("CP_SyncJumpWidth", "BusType", "u32")
CpTerminationType ==
  Param("CP_TerminationType", "BusType", "u32")

\* Communication (single/com).
CpBlockSize ==
  Param("CP_BlockSize", "Com", "u32")
CpBlockSizeOverride ==
  Param("CP_BlockSizeOverride", "Com", "u32")
CpCanDataSizeOffset ==
  Param("CP_CanDataSizeOffset", "Com", "u32")
CpCanFillerByte ==
  Param("CP_CanFillerByte", "Com", "u8")
CpCanFillerByteHandling ==
  Param("CP_CanFillerByteHandling", "Com", "bool")
CpCanFirstConsecutiveFrameValue ==
  Param("CP_CanFirstConsecutiveFrameValue", "Com", "u32")
CpCanFuncReqExtAddr ==
  Param("CP_CanFuncReqExtAddr", "Com", "u32")
CpCanFuncReqFormat ==
  Param("CP_CanFuncReqFormat", "Com", "u32")
CpCanFuncReqId ==
  Param("CP_CanFuncReqId", "Com", "u32")
CpCanMaxNumWaitFrames ==
  Param("CP_CanMaxNumWaitFrames", "Com", "u32")
CpCanFdTxMaxDataLength ==
  Param("CP_CANFDTxMaxDataLength", "Com", "u32")
CpChangeSpeedCtrl ==
  Param("CP_ChangeSpeedCtrl", "Com", "bool")
CpChangeSpeedMessage ==
  Param("CP_ChangeSpeedMessage", "Com", "bytes")
CpChangeSpeedRate ==
  Param("CP_ChangeSpeedRate", "Com", "u32")
CpChangeSpeedResCtrl ==
  Param("CP_ChangeSpeedResCtrl", "Com", "u32")
CpEnablePerformanceTest ==
  Param("CP_EnablePerformanceTest", "Com", "bool")
CpLoopback ==
  Param("CP_Loopback", "Com", "bool")
CpMaxFirstFrameDataLength ==
  Param("CP_MaxFirstFrameDataLength", "Com", "u32")
CpRequestAddrMode ==
  Param("CP_RequestAddrMode", "Com", "u32")
CpSendRemoteFrame ==
  Param("CP_SendRemoteFrame", "Com", "bool")
CpStartMsgIndEnable ==
  Param("CP_StartMsgIndEnable", "Com", "bool")
CpSwCanHighVoltage ==
  Param("CP_SwCan_HighVoltage", "Com", "bool")
CpTransmitIndEnable ==
  Param("CP_TransmitIndEnable", "Com", "bool")

\* Error handling (single/err_hdl).
CpRc21Completiontimeout ==
  Param("CP_RC21CompletionTimeout", "ErrHdl", "time")
CpRc21Handling ==
  Param("CP_RC21Handling", "ErrHdl", "u32")
CpRc21RequestTime ==
  Param("CP_RC21RequestTime", "ErrHdl", "time")
CpRc23Completiontimeout ==
  Param("CP_RC23CompletionTimeout", "ErrHdl", "time")
CpRc23Handling ==
  Param("CP_RC23Handling", "ErrHdl", "u32")
CpRc23RequestTime ==
  Param("CP_RC23RequestTime", "ErrHdl", "time")
CpRc78Completiontimeout ==
  Param("CP_RC78CompletionTimeout", "ErrHdl", "time")
CpRc78Handling ==
  Param("CP_RC78Handling", "ErrHdl", "u32")
CpRcByteOffset ==
  Param("CP_RCByteOffset", "ErrHdl", "u32")
CpRepeatReqCountApp ==
  Param("CP_RepeatReqCountApp", "ErrHdl", "u32")
CpRepeatReqCountTrans ==
  Param("CP_RepeatReqCountTrans", "ErrHdl", "u32")
CpSuspendQueueOnError ==
  Param("CP_SuspendQueueOnError", "ErrHdl", "bool")

\* Tester present (single/tester_present).
CpTesterPresentAddrMode ==
  Param("CP_TesterPresentAddrMode", "TesterPresent", "u32")
CpTesterPresentExpNegResp ==
  Param("CP_TesterPresentExpNegResp", "TesterPresent", "bytes")
CpTesterPresentExpPosResp ==
  Param("CP_TesterPresentExpPosResp", "TesterPresent", "bytes")
CpTesterPresentHandling ==
  Param("CP_TesterPresentHandling", "TesterPresent", "bool")
CpTesterPresentMessage ==
  Param("CP_TesterPresentMessage", "TesterPresent", "bytes")
CpTesterPresentReqRsp ==
  Param("CP_TesterPresentReqRsp", "TesterPresent", "bool")
CpTesterPresentSendType ==
  Param("CP_TesterPresentSendType", "TesterPresent", "u32")
CpTesterPresentTime ==
  Param("CP_TesterPresentTime", "TesterPresent", "time")

\* Timing (single/timing).
CpAr ==
  Param("CP_Ar", "Timing", "time")
CpAs ==
  Param("CP_As", "Timing", "time")
CpBr ==
  Param("CP_Br", "Timing", "time")
CpBs ==
  Param("CP_Bs", "Timing", "time")
CpCanTransmissionTime ==
  Param("CP_CanTransmissionTime", "Timing", "time")
CpChangeSpeedTxDelay ==
  Param("CP_ChangeSpeedTxDelay", "Timing", "time")
CpCr ==
  Param("CP_Cr", "Timing", "time")
CpCs ==
  Param("CP_Cs", "Timing", "time")
CpCyclicRespTimeout ==
  Param("CP_CyclicRespTimeout", "Timing", "time")
CpModifyTiming ==
  Param("CP_ModifyTiming", "Timing", "bool")
CpP2Max ==
  Param("CP_P2Max", "Timing", "time")
CpP2Min ==
  Param("CP_P2Min", "Timing", "time")
CpP2Star ==
  Param("CP_P2Star", "Timing", "time")
CpP3Func ==
  Param("CP_P3Func", "Timing", "time")
CpP3Min ==
  Param("CP_P3Min", "Timing", "time")
CpP3Phys ==
  Param("CP_P3Phys", "Timing", "time")
CpSessionTimingOverride ==
  Param("CP_SessionTimingOverride", "Timing", "timings")
CpStMin ==
  Param("CP_StMin", "Timing", "time")
CpStMinOverride ==
  Param("CP_StMinOverride", "Timing", "time")

\* The rows of the unique response id table (single/unique).
CpCanPhysReqExtAddr ==
  Param("CP_CanPhysReqExtAddr", "UniqueId", "u32")
CpCanPhysReqFormat ==
  Param("CP_CanPhysReqFormat", "UniqueId", "u32")
CpCanPhysReqId ==
  Param("CP_CanPhysReqId", "UniqueId", "u32")
CpCanRespUudtExtAddr ==
  Param("CP_CanRespUUDTExtAddr", "UniqueId", "u32")
CpCanRespUsdtExtAddr ==
  Param("CP_CanRespUSDTExtAddr", "UniqueId", "u32")
CpCanRespUsdtFormat ==
  Param("CP_CanRespUSDTFormat", "UniqueId", "u32")
CpCanRespUsdtId ==
  Param("CP_CanRespUSDTId", "UniqueId", "u32")
CpCanRespUudtFormat ==
  Param("CP_CanRespUUDTFormat", "UniqueId", "u32")
CpCanRespUudtId ==
  Param("CP_CanRespUUDTId", "UniqueId", "u32")
CpEcuLayerShortName ==
  Param("CP_EcuLayerShortName", "UniqueId", "text")
=============================================================================
