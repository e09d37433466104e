--------------------------- MODULE ComParamStacks ---------------------------
(***************************************************************************)
(* The stacks of communication parameters (types/pdu_com_param/stack): the *)
(* fields of each layer, those that have a setter, those its build_set()   *)
(* and build_table() return, and the presets of the composite stacks.  A   *)
(* composite is the union of its layers.                                   *)
(***************************************************************************)
EXTENDS ComParamTypes

(***************************************************************************)
(* Application layers.                                                     *)
(***************************************************************************)
UdsSet == {
  CpCanTransmissionTime, CpCyclicRespTimeout, CpModifyTiming, CpP2Max,
  CpP2Min, CpP2Star, CpP3Func, CpP3Phys, CpChangeSpeedTxDelay,
  CpSessionTimingOverride, CpRc21Completiontimeout, CpRc21Handling,
  CpRc21RequestTime, CpRc23Completiontimeout, CpRc23Handling,
  CpRc23RequestTime, CpRc78Completiontimeout, CpRc78Handling,
  CpRcByteOffset, CpRepeatReqCountApp, CpSuspendQueueOnError,
  CpChangeSpeedCtrl, CpChangeSpeedMessage, CpChangeSpeedRate,
  CpStartMsgIndEnable, CpSwCanHighVoltage, CpTransmitIndEnable,
  CpChangeSpeedResCtrl, CpEnablePerformanceTest, CpTesterPresentAddrMode,
  CpTesterPresentExpNegResp, CpTesterPresentExpPosResp,
  CpTesterPresentHandling, CpTesterPresentMessage, CpTesterPresentReqRsp,
  CpTesterPresentSendType, CpTesterPresentTime }

UdsFields == UdsSet \cup {CpLoopback}
UdsSetters == UdsFields

KwpSet == {
  CpCyclicRespTimeout, CpModifyTiming, CpP2Max, CpP2Min, CpP2Star, CpP3Min,
  CpChangeSpeedTxDelay, CpRc21Completiontimeout, CpRc21Handling,
  CpRc21RequestTime, CpRc23Completiontimeout, CpRc23Handling,
  CpRc23RequestTime, CpRc78Completiontimeout, CpRc78Handling,
  CpRcByteOffset, CpRepeatReqCountApp, CpSuspendQueueOnError,
  CpChangeSpeedCtrl, CpChangeSpeedMessage, CpChangeSpeedRate,
  CpChangeSpeedResCtrl, CpEnablePerformanceTest, CpLoopback,
  CpStartMsgIndEnable, CpSwCanHighVoltage, CpTransmitIndEnable,
  CpTesterPresentAddrMode, CpTesterPresentExpNegResp,
  CpTesterPresentExpPosResp, CpTesterPresentHandling,
  CpTesterPresentMessage, CpTesterPresentReqRsp, CpTesterPresentSendType,
  CpTesterPresentTime }

KwpFields == KwpSet
KwpSetters == KwpFields

RawCanAppSet == {
  CpChangeSpeedTxDelay, CpCyclicRespTimeout, CpP2Max, CpP2Min, CpP3Func,
  CpP3Phys, CpRepeatReqCountApp, CpChangeSpeedCtrl, CpChangeSpeedMessage,
  CpChangeSpeedRate, CpChangeSpeedResCtrl, CpEnablePerformanceTest,
  CpLoopback, CpSwCanHighVoltage, CpTransmitIndEnable }

RawCanAppFields == RawCanAppSet
RawCanAppSetters == RawCanAppFields \ {CpCyclicRespTimeout}

(***************************************************************************)
(* Transport layers.  The ECU's name selects the row of the table.         *)
(***************************************************************************)
IsoTpSet == {
  CpAr, CpAs, CpBr, CpBs, CpCr, CpCs, CpStMin, CpStMinOverride, CpBlockSize,
  CpBlockSizeOverride, CpCanDataSizeOffset, CpCanFillerByte,
  CpCanFillerByteHandling, CpCanFirstConsecutiveFrameValue,
  CpCanFuncReqExtAddr, CpCanFuncReqFormat, CpCanFuncReqId,
  CpCanMaxNumWaitFrames, CpCanFdTxMaxDataLength, CpMaxFirstFrameDataLength,
  CpRequestAddrMode, CpSendRemoteFrame, CpRepeatReqCountTrans }

IsoTpTable == {
  CpCanPhysReqExtAddr, CpCanPhysReqFormat, CpCanPhysReqId,
  CpCanRespUudtExtAddr, CpCanRespUudtFormat, CpCanRespUudtId,
  CpCanRespUsdtExtAddr, CpCanRespUsdtFormat, CpCanRespUsdtId }

IsoTpFields == IsoTpSet \cup IsoTpTable \cup {CpEcuLayerShortName}
IsoTpSetters == IsoTpFields

RawCanTransportSet == {
  CpCanFillerByte, CpCanFillerByteHandling, CpSendRemoteFrame,
  CpRepeatReqCountTrans }

RawCanTransportTable == {
  CpCanPhysReqExtAddr, CpCanPhysReqFormat, CpCanPhysReqId,
  CpCanRespUudtExtAddr, CpCanRespUudtFormat, CpCanRespUudtId }

RawCanTransportFields ==
  RawCanTransportSet \cup RawCanTransportTable \cup {CpEcuLayerShortName}
RawCanTransportSetters == RawCanTransportFields

(***************************************************************************)
(* Physical layer.                                                         *)
(***************************************************************************)
DwCanSet == {
  CpBaudrate, CpBitSamplePoint, CpCanFdBaudrate, CpCanFdBitSamplePoint,
  CpCanFdSyncJumpWidth, CpCanBaudrateRecord, CpListenOnly, CpSamplesPerBit,
  CpSyncJumpWidth, CpTerminationType }

DwCanFields == DwCanSet
DwCanSetters == DwCanFields

(***************************************************************************)
(* Composites.                                                             *)
(***************************************************************************)
Stacks == {"uds", "kwp", "raw"}

UdsOnIsoTpFields == UdsFields \cup IsoTpFields \cup DwCanFields
KwpOnIsoTpFields == KwpFields \cup IsoTpFields \cup DwCanFields
RawCanFields == RawCanAppFields \cup RawCanTransportFields \cup DwCanFields

Fields(stack) ==
  CASE stack = "uds" -> UdsOnIsoTpFields
    [] stack = "kwp" -> KwpOnIsoTpFields
    [] stack = "raw" -> RawCanFields

Setters(stack) ==
  CASE stack = "uds" -> UdsSetters \cup IsoTpSetters \cup DwCanSetters
    [] stack = "kwp" -> KwpSetters \cup IsoTpSetters \cup DwCanSetters
    [] stack = "raw" ->
         RawCanAppSetters \cup RawCanTransportSetters \cup DwCanSetters

\* build_set()
UdsOnIsoTpSet == UdsSet \cup IsoTpSet \cup DwCanSet
KwpOnIsoTpSet == KwpSet \cup IsoTpSet \cup DwCanSet
RawCanSet == RawCanAppSet \cup RawCanTransportSet \cup DwCanSet

\* Mutant: a composite's build_set() forgets its physical layer.
SetOfUpperLayers(stack) ==
  CASE stack = "uds" -> UdsOnIsoTpSet
    [] stack = "kwp" -> KwpSet \cup IsoTpSet
    [] stack = "raw" -> RawCanSet

SetOf(stack) ==
  CASE stack = "uds" -> UdsOnIsoTpSet
    [] stack = "kwp" -> KwpOnIsoTpSet
    [] stack = "raw" -> RawCanSet

\* build_table()
TableOf(stack) == IF stack = "raw" THEN RawCanTransportTable ELSE IsoTpTable

\* The key of a field in the JSON of its stack.
Key(stack, p) ==
  CASE stack # "raw" /\ p = CpBr -> "CpBr"
    [] stack # "raw" /\ p = CpBs -> "CpBs"
    [] OTHER                     -> p.name

(***************************************************************************)
(* Presets.                                                                *)
(***************************************************************************)
UdsDefaultApp(p) ==
  CASE p \in {CpP2Max, CpP3Func, CpP3Phys} -> Millis(Word(150))
    [] p = CpP2Min -> Millis(Word(25))
    [] p = CpP2Star -> Millis(Word(5050))
    [] p = CpRc21Completiontimeout -> Millis(Word(1300))
    [] p = CpRc21RequestTime -> Millis(Word(10))
    [] p = CpRc78Completiontimeout -> Secs(Word(25))
    [] p = CpRc78Handling -> Num(2)
    [] p = CpRcByteOffset -> Of(<<Ones>>)
    [] p = CpTesterPresentHandling -> Flag(TRUE)
    [] p = CpTesterPresentMessage -> Of(<<Word(62), Word(128)>>)
    [] p = CpTesterPresentSendType -> Num(1)
    [] p = CpTesterPresentTime -> Secs(Word(2))
    [] OTHER -> Zero(p)

UdsDefaultTransport(p) ==
  CASE p \in {CpAr, CpAs, CpBs, CpCr} -> Secs(Word(10))
    [] p = CpBlockSizeOverride -> Num(65535)
    [] p = CpCanDataSizeOffset -> Num(10)
    [] p = CpCanFillerByte -> Num(85)
    [] p = CpCanFillerByteHandling -> Flag(TRUE)
    [] p = CpCanFirstConsecutiveFrameValue -> Num(1)
    [] p \in {CpCanFuncReqFormat, CpCanPhysReqFormat,
              CpCanRespUsdtFormat} -> Num(5)
    [] p = CpCanFuncReqId -> Num(2015)
    [] p = CpCanMaxNumWaitFrames -> Num(255)
    [] p = CpCanPhysReqId -> Num(2016)
    [] p = CpCanRespUsdtId -> Num(2024)
    [] p = CpCanRespUudtId -> Of(<<Ones>>)
    [] p = CpMaxFirstFrameDataLength -> Num(4095)
    [] p = CpRequestAddrMode -> Num(2)
    [] p = CpStMinOverride -> Micros(Ones)
    [] OTHER -> Zero(p)

KwpDefaultApp(p) ==
  CASE p = CpP2Max -> Millis(Word(50))
    [] p = CpP2Min -> Millis(Word(25))
    [] p = CpP2Star -> Secs(Word(5))
    [] p = CpP3Min -> Millis(Word(55))
    [] p = CpRc21Completiontimeout -> Millis(Word(1300))
    [] p = CpRc78Completiontimeout -> Secs(Word(25))
    [] p = CpRcByteOffset -> Of(<<Ones>>)
    [] p = CpTesterPresentExpNegResp -> Of(<<Word(127), Word(62)>>)
    [] p = CpTesterPresentExpPosResp -> Num(126)
    [] p \in {CpTesterPresentHandling, CpTesterPresentReqRsp} -> Flag(TRUE)
    [] p = CpTesterPresentMessage -> Num(62)
    [] p = CpTesterPresentSendType -> Num(1)
    [] p = CpTesterPresentTime -> Secs(Word(2))
    [] OTHER -> Zero(p)

KwpDefaultTransport(p) ==
  CASE p \in {CpAr, CpAs, CpBs, CpCr} -> Secs(Word(1))
    [] p = CpBlockSizeOverride -> Num(65535)
    [] p = CpCanFillerByte -> Num(85)
    [] p = CpCanFillerByteHandling -> Flag(TRUE)
    [] p = CpCanFirstConsecutiveFrameValue -> Num(1)
    [] p \in {CpCanFuncReqFormat, CpCanPhysReqFormat,
              CpCanRespUsdtFormat} -> Num(5)
    [] p = CpCanFuncReqId -> Num(2015)
    [] p = CpCanMaxNumWaitFrames -> Num(255)
    [] p = CpCanPhysReqId -> Num(2016)
    [] p = CpCanRespUsdtId -> Num(2024)
    [] p = CpCanRespUudtId -> Of(<<Ones>>)
    [] p = CpMaxFirstFrameDataLength -> Num(4095)
    [] p = CpRequestAddrMode -> Num(2)
    [] p = CpStMinOverride -> Micros(Ones)
    [] OTHER -> Zero(p)

RawDefaultApp(p) ==
  CASE p = CpP2Max -> Millis(Word(50))
    [] OTHER -> Zero(p)

RawDefaultTransport(p) ==
  CASE p = CpCanPhysReqFormat -> Num(5)
    [] p = CpCanPhysReqId -> Num(2016)
    [] p = CpCanRespUudtId -> Num(2024)
    [] OTHER -> Zero(p)

DefaultPhysical(p) ==
  CASE p = CpBaudrate -> Num(500000)
    [] p \in {CpCanFdBitSamplePoint, CpBitSamplePoint} -> Num(80)
    [] p \in {CpCanFdSyncJumpWidth, CpSyncJumpWidth} -> Num(15)
    [] OTHER -> Zero(p)

UdsOptimized(p) ==
  CASE p = CpP2Max -> Millis(Word(2100))
    [] p = CpP2Star -> Millis(Word(4500))
    [] p \in {CpP3Func, CpP3Phys} -> Millis(Word(50))
    [] p = CpRc21Completiontimeout -> Secs(Word(6))
    [] p \in {CpRc21Handling, CpTesterPresentSendType,
                CpCanFirstConsecutiveFrameValue, CpRequestAddrMode} -> Num(1)
    [] p \in {CpRc21RequestTime, CpRc23RequestTime} -> Millis(Word(200))
    [] p = CpRc78Completiontimeout -> Secs(Word(60))
    [] p = CpRc78Handling -> Num(2)
    [] p \in {CpRcByteOffset, CpCanRespUudtId} -> Of(<<Ones>>)
    [] p = CpRepeatReqCountApp -> Num(3)
    [] p = CpTesterPresentExpNegResp -> Of(<<Word(127), Word(62)>>)
    [] p = CpTesterPresentExpPosResp -> Of(<<Word(126), Word(0)>>)
    [] p \in {CpTesterPresentHandling, CpTesterPresentReqRsp,
                CpCanFillerByteHandling} -> Flag(TRUE)
    [] p = CpTesterPresentMessage -> Of(<<Word(62), Word(0)>>)
    [] p \in {CpTesterPresentTime, CpBs, CpCr} -> Secs(Word(2))
    [] p \in {CpAr, CpAs} -> Secs(Word(1))
    [] p = CpBlockSize -> Num(8)
    [] p = CpBlockSizeOverride -> Num(65535)
    [] p = CpCanFillerByte -> Num(85)
    [] p \in {CpCanFuncReqFormat, CpCanPhysReqFormat,
              CpCanRespUsdtFormat} -> Num(5)
    [] p = CpCanFuncReqId -> Num(1089)
    [] p = CpCanMaxNumWaitFrames -> Num(255)
    [] p = CpCanPhysReqId -> Num(2021)
    [] p = CpCanRespUsdtId -> Num(2029)
    [] p = CpMaxFirstFrameDataLength -> Num(4095)
    [] p = CpStMinOverride -> Micros(Ones)
    [] p = CpBaudrate -> Num(500000)
    [] p \in {CpCanFdBitSamplePoint, CpBitSamplePoint} -> Num(80)
    [] p \in {CpCanFdSyncJumpWidth, CpSyncJumpWidth} -> Num(15)
    [] p = CpCanBaudrateRecord -> Of(<<Word(500000), Word(250000)>>)
    [] OTHER -> Zero(p)

KwpOptimized(p) ==
  CASE p \in {CpP2Max, CpBs, CpCr} -> Millis(Word(150))
    [] p = CpP2Min -> Millis(Word(25))
    [] p = CpP2Star -> Secs(Word(5))
    [] p = CpP3Min -> Millis(Word(55))
    [] p = CpRc21Completiontimeout -> Millis(Word(1300))
    [] p \in {CpRc21Handling, CpTesterPresentSendType,
                CpCanFirstConsecutiveFrameValue, CpRequestAddrMode} -> Num(1)
    [] p \in {CpRc21RequestTime, CpRc23RequestTime} -> Millis(Word(200))
    [] p = CpRc78Completiontimeout -> Secs(Word(60))
    [] p \in {CpRc78Handling, CpRepeatReqCountApp} -> Num(2)
    [] p \in {CpRcByteOffset, CpCanRespUudtId} -> Of(<<Ones>>)
    [] p = CpTesterPresentExpNegResp -> Of(<<Word(127), Word(62)>>)
    [] p = CpTesterPresentExpPosResp -> Num(126)
    [] p \in {CpTesterPresentHandling, CpTesterPresentReqRsp,
                CpCanFillerByteHandling} -> Flag(TRUE)
    [] p = CpTesterPresentMessage -> Num(62)
    [] p = CpTesterPresentTime -> Secs(Word(2))
    [] p \in {CpAr, CpAs} -> Secs(Word(1))
    [] p = CpBlockSizeOverride -> Num(65535)
    [] p = CpBr -> Millis(Word(10))
    [] p = CpCanFillerByte -> Num(85)
    [] p \in {CpCanFuncReqFormat, CpCanPhysReqFormat,
              CpCanRespUsdtFormat} -> Num(5)
    [] p = CpCanFuncReqId -> Num(1088)
    [] p = CpCanMaxNumWaitFrames -> Num(255)
    [] p = CpCanPhysReqId -> Num(2021)
    [] p = CpCanRespUsdtId -> Num(2029)
    [] p = CpMaxFirstFrameDataLength -> Num(4095)
    [] p = CpStMin -> Millis(Word(20))
    [] p = CpStMinOverride -> Micros(Ones)
    [] p = CpBaudrate -> Num(500000)
    [] p \in {CpCanFdBitSamplePoint, CpBitSamplePoint} -> Num(80)
    [] p \in {CpCanFdSyncJumpWidth, CpSyncJumpWidth} -> Num(15)
    [] p = CpCanBaudrateRecord -> Of(<<Word(500000), Word(250000)>>)
    [] OTHER -> Zero(p)

\* Default::default() of each composite and mercedes_benz_optimized().
Preset(stack, optimized, p) ==
  CASE optimized ->
         IF stack = "uds" THEN UdsOptimized(p) ELSE KwpOptimized(p)
    [] ~optimized /\ p \in DwCanFields -> DefaultPhysical(p)
    [] ~optimized /\ stack = "uds" /\ p \notin DwCanFields ->
         IF p \in UdsFields THEN UdsDefaultApp(p) ELSE UdsDefaultTransport(p)
    [] ~optimized /\ stack = "kwp" /\ p \notin DwCanFields ->
         IF p \in KwpFields THEN KwpDefaultApp(p) ELSE KwpDefaultTransport(p)
    [] ~optimized /\ stack = "raw" /\ p \notin DwCanFields ->
         IF p \in RawCanAppFields THEN RawDefaultApp(p)
                                  ELSE RawDefaultTransport(p)
=============================================================================
