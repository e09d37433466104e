---------------------------- MODULE ParamsProofs ----------------------------
(***************************************************************************)
(* Proofs about ComParams, for every choice of the parameters an instance  *)
(* watches, all of a stack's at once among them, where the runs follow a   *)
(* few at a time.                                                          *)
(***************************************************************************)
EXTENDS RawCan, TLAPS

-----------------------------------------------------------------------------
(***************************************************************************)
(* The stacks' definitions: which half a parameter is built into.          *)
(***************************************************************************)
LEMMA AppSetsAreSingle ==
  \A p \in UdsSet \cup KwpSet \cup RawCanAppSet : p.class # "UniqueId"
<1>1. \A p \in UdsSet : p.class # "UniqueId"
  BY DEF UdsSet, Param,
     CpCanTransmissionTime, CpCyclicRespTimeout, CpModifyTiming, CpP2Max,
     CpP2Min, CpP2Star, CpP3Func, CpP3Phys, CpChangeSpeedTxDelay,
     CpSessionTimingOverride, CpRc21Completiontimeout, CpRc21Handling,
     CpRc21RequestTime, CpRc23Completiontimeout, CpRc23Handling,
     CpRc23RequestTime, CpRc78Completiontimeout, CpRc78Handling,
     CpRcByteOffset, CpRepeatReqCountApp, CpSuspendQueueOnError,
     CpChangeSpeedCtrl, CpChangeSpeedMessage, CpChangeSpeedRate,
     CpStartMsgIndEnable, CpSwCanHighVoltage, CpTransmitIndEnable,
     CpChangeSpeedResCtrl, CpEnablePerformanceTest, CpTesterPresentAddrMode,
     CpTesterPresentExpNegResp, CpTesterPresentExpPosResp,
     CpTesterPresentHandling, CpTesterPresentMessage, CpTesterPresentReqRsp,
     CpTesterPresentSendType, CpTesterPresentTime
<1>2. \A p \in KwpSet : p \in UdsSet \cup {CpP3Min, CpLoopback}
  BY DEF KwpSet, UdsSet
<1>3. \A p \in RawCanAppSet : p \in UdsSet \cup {CpLoopback}
  BY DEF RawCanAppSet, UdsSet
<1>4. \A p \in {CpP3Min, CpLoopback} : p.class # "UniqueId"
  BY DEF CpP3Min, CpLoopback, Param
<1> QED
  BY <1>1, <1>2, <1>3, <1>4

LEMMA LowerSetsAreSingle ==
  \A p \in IsoTpSet \cup RawCanTransportSet \cup DwCanSet :
    p.class # "UniqueId"
<1>1. \A p \in IsoTpSet : p.class # "UniqueId"
  BY DEF IsoTpSet, Param,
     CpAr, CpAs, CpBr, CpBs, CpCr, CpCs, CpStMin, CpStMinOverride, CpBlockSize,
     CpBlockSizeOverride, CpCanDataSizeOffset, CpCanFillerByte,
     CpCanFillerByteHandling, CpCanFirstConsecutiveFrameValue,
     CpCanFuncReqExtAddr, CpCanFuncReqFormat, CpCanFuncReqId,
     CpCanMaxNumWaitFrames, CpCanFdTxMaxDataLength, CpMaxFirstFrameDataLength,
     CpRequestAddrMode, CpSendRemoteFrame, CpRepeatReqCountTrans
<1>2. RawCanTransportSet \subseteq IsoTpSet
  BY DEF RawCanTransportSet, IsoTpSet
<1>3. \A p \in DwCanSet : p.class # "UniqueId"
  BY DEF DwCanSet, Param,
     CpBaudrate, CpBitSamplePoint, CpCanFdBaudrate, CpCanFdBitSamplePoint,
     CpCanFdSyncJumpWidth, CpCanBaudrateRecord, CpListenOnly, CpSamplesPerBit,
     CpSyncJumpWidth, CpTerminationType
<1> QED
  BY <1>1, <1>2, <1>3

LEMMA TablesAreUnique ==
  /\ \A p \in IsoTpTable \cup RawCanTransportTable :
       p.class = "UniqueId" /\ p # CpEcuLayerShortName
  /\ CpEcuLayerShortName.class = "UniqueId"
<1>1. \A p \in IsoTpTable : p.class = "UniqueId" /\ p.type = "u32"
  BY DEF IsoTpTable, Param,
     CpCanPhysReqExtAddr, CpCanPhysReqFormat, CpCanPhysReqId,
     CpCanRespUudtExtAddr, CpCanRespUudtFormat, CpCanRespUudtId,
     CpCanRespUsdtExtAddr, CpCanRespUsdtFormat, CpCanRespUsdtId
<1>2. RawCanTransportTable \subseteq IsoTpTable
  BY DEF RawCanTransportTable, IsoTpTable
<1>3. /\ CpEcuLayerShortName.class = "UniqueId"
      /\ CpEcuLayerShortName.type = "text"
  BY DEF CpEcuLayerShortName, Param
<1> QED
  BY <1>1, <1>2, <1>3

\* A stack's build_set() has its parameters of the other classes, but for the
\* loopback of UDS, and its build_table() those of UniqueId but the ECU's name.
LEMMA HalvesAreRight ==
  ASSUME NEW s \in Stacks
  PROVE /\ \A p \in SetOf(s) : p.class # "UniqueId"
        /\ \A p \in TableOf(s) : p.class = "UniqueId"
        /\ \A p \in Fields(s) :
             p.class # "UniqueId" /\ ~(s = "uds" /\ p = CpLoopback) =>
               p \in SetOf(s)
        /\ \A p \in Fields(s) :
             p \in TableOf(s) <=>
               p.class = "UniqueId" /\ p # CpEcuLayerShortName
<1> USE AppSetsAreSingle, LowerSetsAreSingle, TablesAreUnique
<1>1. CpLoopback.class # "UniqueId"
  BY DEF CpLoopback, Param
<1>2. CASE s = "uds"
  BY <1>1, <1>2 DEF SetOf, TableOf, Fields, UdsOnIsoTpSet, UdsOnIsoTpFields,
     UdsFields, IsoTpFields, DwCanFields
<1>3. CASE s = "kwp"
  BY <1>3 DEF SetOf, TableOf, Fields, KwpOnIsoTpSet, KwpOnIsoTpFields,
     KwpFields, IsoTpFields, DwCanFields
<1>4. CASE s = "raw"
  BY <1>4 DEF SetOf, TableOf, Fields, RawCanSet, RawCanFields, RawCanAppFields,
     RawCanTransportFields, DwCanFields
<1> QED
  BY <1>2, <1>3, <1>4 DEF Stacks

-----------------------------------------------------------------------------
(***************************************************************************)
(* The types: what a preset, a setter or JSON puts in a field fits it.     *)
(***************************************************************************)
Durations == {
  CpRc21Completiontimeout, CpRc21RequestTime, CpRc23Completiontimeout,
  CpRc23RequestTime, CpRc78Completiontimeout, CpTesterPresentTime, CpAr,
  CpAs, CpBr, CpBs, CpCanTransmissionTime, CpChangeSpeedTxDelay, CpCr, CpCs,
  CpCyclicRespTimeout, CpP2Max, CpP2Min, CpP2Star, CpP3Func, CpP3Min,
  CpP3Phys, CpStMin, CpStMinOverride }

Flags == {
  CpListenOnly, CpCanFillerByteHandling, CpChangeSpeedCtrl,
  CpEnablePerformanceTest, CpLoopback, CpSendRemoteFrame,
  CpStartMsgIndEnable, CpSwCanHighVoltage, CpTransmitIndEnable,
  CpSuspendQueueOnError, CpTesterPresentHandling, CpTesterPresentReqRsp,
  CpModifyTiming }

Counts == {
  CpBaudrate, CpBitSamplePoint, CpCanFdBaudrate, CpCanFdBitSamplePoint,
  CpCanFdSyncJumpWidth, CpSamplesPerBit, CpSyncJumpWidth, CpTerminationType,
  CpBlockSize, CpBlockSizeOverride, CpCanDataSizeOffset,
  CpCanFirstConsecutiveFrameValue, CpCanFuncReqExtAddr, CpCanFuncReqFormat,
  CpCanFuncReqId, CpCanMaxNumWaitFrames, CpCanFdTxMaxDataLength,
  CpChangeSpeedRate, CpChangeSpeedResCtrl, CpMaxFirstFrameDataLength,
  CpRequestAddrMode, CpRc21Handling, CpRc23Handling, CpRc78Handling,
  CpRcByteOffset, CpRepeatReqCountApp, CpRepeatReqCountTrans,
  CpTesterPresentAddrMode, CpTesterPresentSendType, CpCanPhysReqExtAddr,
  CpCanPhysReqFormat, CpCanPhysReqId, CpCanRespUudtExtAddr,
  CpCanRespUsdtExtAddr, CpCanRespUsdtFormat, CpCanRespUsdtId,
  CpCanRespUudtFormat, CpCanRespUudtId }

ByteLists == {
  CpChangeSpeedMessage, CpTesterPresentExpNegResp,
  CpTesterPresentExpPosResp, CpTesterPresentMessage }

Others == {
  CpCanFillerByte, CpCanBaudrateRecord, CpSessionTimingOverride,
  CpEcuLayerShortName }

LEMMA TypesOfParams ==
  /\ \A p \in Durations : p.type = "time"
  /\ \A p \in Flags : p.type = "bool"
  /\ \A p \in Counts : p.type = "u32"
  /\ \A p \in ByteLists : p.type = "bytes"
  /\ CpCanFillerByte.type = "u8" /\ CpCanBaudrateRecord.type = "longs"
  /\ CpSessionTimingOverride.type = "timings"
  /\ CpEcuLayerShortName.type = "text"
<1>1. \A p \in Durations : p.type = "time"
  BY DEF Durations, Param,
     CpRc21Completiontimeout, CpRc21RequestTime, CpRc23Completiontimeout,
     CpRc23RequestTime, CpRc78Completiontimeout, CpTesterPresentTime, CpAr,
     CpAs, CpBr, CpBs, CpCanTransmissionTime, CpChangeSpeedTxDelay, CpCr, CpCs,
     CpCyclicRespTimeout, CpP2Max, CpP2Min, CpP2Star, CpP3Func, CpP3Min,
     CpP3Phys, CpStMin, CpStMinOverride
<1>2. \A p \in Flags : p.type = "bool"
  BY DEF Flags, Param,
     CpListenOnly, CpCanFillerByteHandling, CpChangeSpeedCtrl,
     CpEnablePerformanceTest, CpLoopback, CpSendRemoteFrame,
     CpStartMsgIndEnable, CpSwCanHighVoltage, CpTransmitIndEnable,
     CpSuspendQueueOnError, CpTesterPresentHandling, CpTesterPresentReqRsp,
     CpModifyTiming
<1>3. \A p \in Counts : p.type = "u32"
  BY DEF Counts, Param,
     CpBaudrate, CpBitSamplePoint, CpCanFdBaudrate, CpCanFdBitSamplePoint,
     CpCanFdSyncJumpWidth, CpSamplesPerBit, CpSyncJumpWidth, CpTerminationType,
     CpBlockSize, CpBlockSizeOverride, CpCanDataSizeOffset,
     CpCanFirstConsecutiveFrameValue, CpCanFuncReqExtAddr, CpCanFuncReqFormat,
     CpCanFuncReqId, CpCanMaxNumWaitFrames, CpCanFdTxMaxDataLength,
     CpChangeSpeedRate, CpChangeSpeedResCtrl, CpMaxFirstFrameDataLength,
     CpRequestAddrMode, CpRc21Handling, CpRc23Handling, CpRc78Handling,
     CpRcByteOffset, CpRepeatReqCountApp, CpRepeatReqCountTrans,
     CpTesterPresentAddrMode, CpTesterPresentSendType, CpCanPhysReqExtAddr,
     CpCanPhysReqFormat, CpCanPhysReqId, CpCanRespUudtExtAddr,
     CpCanRespUsdtExtAddr, CpCanRespUsdtFormat, CpCanRespUsdtId,
     CpCanRespUudtFormat, CpCanRespUudtId
<1>4. \A p \in ByteLists : p.type = "bytes"
  BY DEF ByteLists, Param, CpChangeSpeedMessage, CpTesterPresentExpNegResp,
     CpTesterPresentExpPosResp, CpTesterPresentMessage
<1>5. /\ CpCanFillerByte.type = "u8" /\ CpCanBaudrateRecord.type = "longs"
      /\ CpSessionTimingOverride.type = "timings"
      /\ CpEcuLayerShortName.type = "text"
  BY DEF Param, CpCanFillerByte, CpCanBaudrateRecord, CpSessionTimingOverride,
     CpEcuLayerShortName
<1> QED
  BY <1>1, <1>2, <1>3, <1>4, <1>5

LEMMA FieldsHaveTypes ==
  ASSUME NEW s \in Stacks, NEW p \in Fields(s)
  PROVE p.type \in Types
<1> DEFINE All == Durations \cup Flags \cup Counts \cup ByteLists \cup Others
<1>1. UdsFields \subseteq All
  BY DEF UdsFields, UdsSet, Durations, Flags, Counts, ByteLists, Others
<1>2. KwpFields \subseteq UdsFields \cup {CpP3Min}
  BY DEF KwpFields, KwpSet, UdsFields, UdsSet
<1>3. RawCanAppFields \subseteq UdsFields
  BY DEF RawCanAppFields, RawCanAppSet, UdsFields, UdsSet
<1>4. IsoTpFields \subseteq All
  BY DEF IsoTpFields, IsoTpSet, IsoTpTable, Durations, Flags, Counts, ByteLists,
     Others
<1>5. RawCanTransportFields \subseteq IsoTpFields
  BY DEF RawCanTransportFields, RawCanTransportSet, RawCanTransportTable,
     IsoTpFields, IsoTpSet, IsoTpTable
<1>6. DwCanFields \subseteq All
  BY DEF DwCanFields, DwCanSet, Durations, Flags, Counts, ByteLists, Others
<1>7. CpP3Min \in All
  BY DEF Durations
<1>8. \A q \in All : q.type \in Types
  BY TypesOfParams DEF Others, Types, Lists
<1> HIDE DEF All
<1>9. p \in All
  BY <1>1, <1>2, <1>3, <1>4, <1>5, <1>6, <1>7 DEF Stacks, Fields,
     UdsOnIsoTpFields, KwpOnIsoTpFields, RawCanFields
<1> QED
  BY <1>8, <1>9

LEMMA HalfIsPositive == Half \in Nat \ {0}
  BY SMT DEF Half

LEMMA WordIsWord ==
  ASSUME NEW k \in Nat
  PROVE /\ Word(k) \in Words
        /\ k <= 500000 => IsU32(Word(k))
        /\ k < 256 => IsU8(Word(k))
<1>1. PICK high, low : high = k \div Half /\ low = k % Half
  OBVIOUS
<1>2. high \in Nat /\ low \in 0 .. (Half - 1)
  BY <1>1, HalfIsPositive, SMT
<1>3. k <= 500000 => high < Half
  BY <1>1, SMT DEF Half
<1>4. k < 256 => high = 0 /\ low = k
  BY <1>1, SMT DEF Half
<1>5. Word(k) = <<high, low>>
  BY <1>1 DEF Word
<1> QED
  BY <1>2, <1>3, <1>4, <1>5, SMT DEF Words, IsU32, IsU8

LEMMA OneWordFits ==
  ASSUME NEW w \in Words
  PROVE /\ IsU32(w) => /\ Fits("u32", Of(<<w>>)) /\ Fits("longs", Of(<<w>>))
                       /\ Fits("time", Micros(w)) /\ Fits("time", Millis(w))
                       /\ Fits("time", Secs(w))
        /\ IsU8(w) => Fits("u8", Of(<<w>>)) /\ Fits("bytes", Of(<<w>>))
<1>1. <<w>> \in Seq(Words) /\ Len(<<w>>) = 1 /\ DOMAIN <<w>> = {1} /\ <<w>>[1] = w
  OBVIOUS
<1> DEFINE n == <<w>>
<1> HIDE DEF n
<1>2. n \in Seq(Words) /\ Len(n) = 1 /\ DOMAIN n = {1} /\ n[1] = w
  BY <1>1 DEF n
<1> QED
  BY <1>2 DEF Fits, Of, Micros, Millis, Secs, Units, Lists, n

LEMMA OnesIsU32 == Ones \in Words /\ IsU32(Ones)
<1>1. PICK m : m = Half - 1 /\ m \in 0 .. (Half - 1) /\ m < Half
  BY HalfIsPositive, SMT
<1>2. Ones = <<m, m>>
  BY <1>1 DEF Ones
<1> QED
  BY <1>1, <1>2 DEF Words, IsU32

LEMMA FlagsFit == \A b \in BOOLEAN : Fits("bool", Flag(b))
<1>1. ASSUME NEW b \in BOOLEAN PROVE Fits("bool", Flag(b))
  <2>1. PICK w : w = Word(IF b THEN 1 ELSE 0)
    OBVIOUS
  <2>2. Flag(b) = Of(<<w>>)
    BY <2>1 DEF Flag, Num
  <2>3. w \in Words /\ IsU32(w)
    BY <2>1, WordIsWord
  <2>4. Fits("u32", Of(<<w>>))
    BY <2>3, OneWordFits
  <2>5. Flag(b) \in {Flag(TRUE), Flag(FALSE)}
    OBVIOUS
  <2>6. ASSUME NEW v, Fits("u32", v), v \in {Flag(TRUE), Flag(FALSE)}
        PROVE Fits("bool", v)
    BY <2>6 DEF Fits, Lists
  <2> QED
    BY <2>2, <2>4, <2>5, <2>6
<1> QED
  BY <1>1

LEMMA NumbersFit ==
  ASSUME NEW k \in Nat, k <= 500000
  PROVE /\ Fits("u32", Num(k))
        /\ Fits("time", Millis(Word(k))) /\ Fits("time", Secs(Word(k)))
        /\ k < 256 => Fits("u8", Num(k)) /\ Fits("bytes", Num(k))
<1>1. Word(k) \in Words /\ IsU32(Word(k)) /\ (k < 256 => IsU8(Word(k)))
  BY WordIsWord
<1> QED
  BY <1>1, OneWordFits DEF Num

LEMMA ListsFit ==
  /\ \A type \in Lists : Fits(type, Of(<<>>))
  /\ \A w, x \in Words : IsU32(w) /\ IsU32(x) => Fits("longs", Of(<<w, x>>))
  /\ \A w, x \in Words : IsU8(w) /\ IsU8(x) => Fits("bytes", Of(<<w, x>>))
<1>1. ASSUME NEW type \in Lists, NEW n, n = <<>> PROVE Fits(type, Of(n))
  <2>1. n \in Seq(Words) /\ DOMAIN n = {}
    BY <1>1
  <2>2. type # "time" /\ type # "bool"
    BY DEF Lists
  <2> QED
    BY <2>1, <2>2 DEF Fits, Of, Units
<1>2. ASSUME NEW w \in Words, NEW x \in Words, NEW n, n = <<w, x>>
      PROVE /\ IsU32(w) /\ IsU32(x) => Fits("longs", Of(n))
            /\ IsU8(w) /\ IsU8(x) => Fits("bytes", Of(n))
  <2>1. /\ n \in Seq(Words) /\ DOMAIN n = {1, 2}
        /\ n[1] = w /\ n[2] = x
    BY <1>2
  <2> QED
    BY <2>1 DEF Fits, Of, Units, Lists
<1> QED
  BY <1>1, <1>2

LEMMA ZeroFits ==
  ASSUME NEW p, p.type \in Types
  PROVE Fits(p.type, Zero(p))
<1>1. Word(0) \in Words /\ IsU32(Word(0)) /\ IsU8(Word(0))
  BY WordIsWord
<1>2. /\ Fits("u32", Of(<<Word(0)>>)) /\ Fits("u8", Of(<<Word(0)>>))
      /\ Fits("time", Millis(Word(0)))
  BY <1>1, OneWordFits
<1>3. Fits("bool", Of(<<Word(0)>>))
  BY FlagsFit DEF Flag, Num
<1> QED
  BY <1>2, <1>3, ListsFit DEF Zero, Types, Lists

LEMMA OnesFit == Fits("u32", Of(<<Ones>>)) /\ Fits("time", Micros(Ones))
  BY OnesIsU32, OneWordFits

LEMMA BytesFit ==
  \A k, m \in Nat :
    k < 256 /\ m < 256 => Fits("bytes", Of(<<Word(k), Word(m)>>))
<1>1. ASSUME NEW k \in Nat, k < 256 PROVE Word(k) \in Words /\ IsU8(Word(k))
  BY <1>1, WordIsWord
<1> QED
  BY <1>1, ListsFit

\* What the presets choose from.
PresetDurations == {
  Micros(Ones), Millis(Word(10)), Millis(Word(20)), Millis(Word(25)),
  Millis(Word(50)), Millis(Word(55)), Millis(Word(150)), Millis(Word(200)),
  Millis(Word(1300)), Millis(Word(2100)), Millis(Word(4500)),
  Millis(Word(5050)), Secs(Word(1)), Secs(Word(2)), Secs(Word(5)),
  Secs(Word(6)), Secs(Word(10)), Secs(Word(25)), Secs(Word(60)) }

PresetCounts == {
  Num(1), Num(2), Num(3), Num(5), Num(8), Num(10), Num(15), Num(80),
  Num(255), Num(1088), Num(1089), Num(2015), Num(2016), Num(2021),
  Num(2024), Num(2029), Num(4095), Num(65535), Num(500000), Of(<<Ones>>) }

PresetBytes == {
  Num(62), Num(126), Of(<<Word(62), Word(0)>>), Of(<<Word(62), Word(128)>>),
  Of(<<Word(126), Word(0)>>), Of(<<Word(127), Word(62)>>) }

PresetRecords == {Of(<<Word(500000), Word(250000)>>)}

LEMMA PresetValuesFit ==
  /\ \A v \in PresetDurations : Fits("time", v)
  /\ \A v \in PresetCounts : Fits("u32", v)
  /\ \A v \in PresetBytes : Fits("bytes", v)
  /\ Fits("bool", Flag(TRUE)) /\ Fits("u8", Num(85))
  /\ \A v \in PresetRecords : Fits("longs", v)
<1>1. \A v \in PresetDurations : Fits("time", v)
  BY NumbersFit, OnesFit, SMT DEF PresetDurations
<1>2. \A v \in PresetCounts : Fits("u32", v)
  BY NumbersFit, OnesFit, SMT DEF PresetCounts
<1>3. \A v \in PresetBytes : Fits("bytes", v)
  BY NumbersFit, BytesFit, SMT DEF PresetBytes
<1>4. Fits("bool", Flag(TRUE)) /\ Fits("u8", Num(85))
  <2>1. Fits("bool", Flag(TRUE))
    BY FlagsFit
  <2>2. Fits("u8", Num(85))
    BY NumbersFit, SMT
  <2> QED
    BY <2>1, <2>2
<1>5. \A v \in PresetRecords : Fits("longs", v)
  BY WordIsWord, ListsFit, SMT DEF PresetRecords
<1> QED
  BY <1>1, <1>2, <1>3, <1>4, <1>5, SMT DEF Flag

Chosen(p, v) ==
  \/ v = Zero(p)
  \/ p \in Durations /\ v \in PresetDurations
  \/ p \in Counts /\ v \in PresetCounts
  \/ p \in ByteLists /\ v \in PresetBytes
  \/ p \in Flags /\ v = Flag(TRUE)
  \/ p = CpCanFillerByte /\ v = Num(85)
  \/ p = CpCanBaudrateRecord /\ v \in PresetRecords

LEMMA ChosenFits ==
  ASSUME NEW p, p.type \in Types, NEW v, Chosen(p, v)
  PROVE Fits(p.type, v)
  BY PresetValuesFit, TypesOfParams, ZeroFits, SMT DEF Chosen, Flag

\* The guard on v in the two long ones keeps the prover from putting the whole
\* CASE wherever v occurs.
LEMMA PresetsAreChosen ==
  ASSUME NEW p, p.type \in Types
  PROVE /\ Chosen(p, UdsDefaultApp(p))
        /\ Chosen(p, UdsDefaultTransport(p))
        /\ Chosen(p, KwpDefaultApp(p))
        /\ Chosen(p, KwpDefaultTransport(p))
        /\ Chosen(p, RawDefaultApp(p))
        /\ Chosen(p, RawDefaultTransport(p))
        /\ Chosen(p, DefaultPhysical(p))
        /\ Chosen(p, UdsOptimized(p))
        /\ Chosen(p, KwpOptimized(p))
<1>1. ASSUME NEW v, v = UdsDefaultApp(p) PROVE Chosen(p, v)
  BY <1>1, SMT DEF Chosen, UdsDefaultApp, Durations, PresetDurations,
     Counts, PresetCounts, ByteLists, PresetBytes, Flags, Flag
<1>2. ASSUME NEW v, v = UdsDefaultTransport(p) PROVE Chosen(p, v)
  BY <1>2, SMT DEF Chosen, UdsDefaultTransport, Durations, PresetDurations,
     Counts, PresetCounts, Flags, Flag
<1>3. ASSUME NEW v, v = KwpDefaultApp(p) PROVE Chosen(p, v)
  BY <1>3, SMT DEF Chosen, KwpDefaultApp, Durations, PresetDurations,
     Counts, PresetCounts, ByteLists, PresetBytes, Flags, Flag
<1>4. ASSUME NEW v, v = KwpDefaultTransport(p) PROVE Chosen(p, v)
  BY <1>4, SMT DEF Chosen, KwpDefaultTransport, Durations, PresetDurations,
     Counts, PresetCounts, Flags, Flag
<1>5. ASSUME NEW v, v = RawDefaultApp(p) PROVE Chosen(p, v)
  BY <1>5, SMT DEF Chosen, RawDefaultApp, Durations, PresetDurations, Flag
<1>6. ASSUME NEW v, v = RawDefaultTransport(p) PROVE Chosen(p, v)
  BY <1>6, SMT DEF Chosen, RawDefaultTransport, Counts, PresetCounts, Flag
<1>7. ASSUME NEW v, v = DefaultPhysical(p) PROVE Chosen(p, v)
  BY <1>7, SMT DEF Chosen, DefaultPhysical, Counts, PresetCounts, Flag
<1>8. ASSUME NEW v, p.type \in Types => v = UdsOptimized(p)
      PROVE Chosen(p, v)
  BY <1>8, SMT DEF Chosen, UdsOptimized, Durations, PresetDurations, Counts,
     PresetCounts, ByteLists, PresetBytes, PresetRecords, Flags, Flag
<1>9. ASSUME NEW v, p.type \in Types => v = KwpOptimized(p)
      PROVE Chosen(p, v)
  BY <1>9, SMT DEF Chosen, KwpOptimized, Durations, PresetDurations, Counts,
     PresetCounts, ByteLists, PresetBytes, PresetRecords, Flags, Flag
<1> QED
  BY <1>1, <1>2, <1>3, <1>4, <1>5, <1>6, <1>7, <1>8, <1>9

LEMMA PresetFits ==
  ASSUME NEW s \in Stacks, NEW optimized \in BOOLEAN, NEW p \in Fields(s),
         optimized => s # "raw"
  PROVE Fits(p.type, Preset(s, optimized, p))
<1>1. p.type \in Types
  BY FieldsHaveTypes
<1>2. ASSUME NEW v, v = Preset(s, optimized, p) PROVE Chosen(p, v)
  BY <1>1, <1>2, PresetsAreChosen DEF Preset, Stacks
<1> QED
  BY <1>1, <1>2, ChosenFits

LEMMA Times1000IsU32 ==
  ASSUME NEW w \in Words
  PROVE Times1000(w) \in Words /\ IsU32(Times1000(w))
<1>1. w[1] \in Nat /\ w[2] \in Nat
  BY HalfIsPositive DEF Words
<1>2. PICK a : a = (w[1] * 1000 + ((w[2] * 1000) \div Half)) % Half
  OBVIOUS
<1>3. PICK b : b = (w[2] * 1000) % Half
  OBVIOUS
<1>4. a \in 0 .. Half - 1 /\ b \in 0 .. Half - 1
  <2>1. w[1] * 1000 \in Nat /\ w[2] * 1000 \in Nat
    BY <1>1, SMT
  <2>2. (w[2] * 1000) \div Half \in Nat
    BY <2>1, HalfIsPositive, SMT
  <2> QED
    BY <1>2, <1>3, <2>1, <2>2, HalfIsPositive, SMT
<1>5. Times1000(w) = <<a, b>>
  BY <1>2, <1>3 DEF Times1000
<1> QED
  BY <1>4, <1>5, HalfIsPositive, SMT DEF Words, IsU32

LEMMA OnlyWord ==
  ASSUME NEW n \in Seq(Words), Len(n) = 1
  PROVE n[1] \in Words /\ DOMAIN n = {1} /\ n = <<n[1]>>
  OBVIOUS

LEMMA MicrosAreU32 ==
  ASSUME NEW v, Fits("time", v)
  PROVE ToMicros(v) \in Words /\ IsU32(ToMicros(v))
<1>1. v.n \in Seq(Words) /\ Len(v.n) = 1 /\ v.unit \in Units \ {"none"}
  BY DEF Fits, Lists
<1>2. v.n[1] \in Words /\ IsU32(v.n[1])
  BY <1>1, OnlyWord DEF Fits
<1> QED
  BY <1>1, <1>2, Times1000IsU32 DEF ToMicros, Units

\* A value written as JSON and read back is accepted, and the driver gets the
\* same.
LEMMA RoundTrip ==
  ASSUME NEW p, p.type \in Types, NEW v, Fits(p.type, v)
  PROVE /\ IsJson(Serialize(p, v)) /\ Accepts(p, Serialize(p, v))
        /\ Variant(p, Deserialize(p, Serialize(p, v))) = Variant(p, v)
<1>1. /\ v.n \in Seq(Words)
      /\ p.type \notin Lists => DOMAIN v.n = {1} /\ v.n = <<v.n[1]>>
  BY OnlyWord DEF Fits
<1>2. CASE p.type = "time"
  <2>1. PICK m : m = ToMicros(v) /\ m \in Words /\ IsU32(m)
    BY <1>2, MicrosAreU32
  <2>2. Serialize(p, v) = Number(m) /\ Variant(p, v) = [pdu |-> "Unum32", n |-> <<m>>]
    BY <1>2, <2>1 DEF Serialize, Variant
  <2>3. IsJson(Number(m)) /\ Accepts(p, Number(m)) /\ Deserialize(p, Number(m)) = Micros(m)
    BY <1>2, <2>1 DEF IsJson, Number, Accepts, Deserialize
  <2>4. Variant(p, Micros(m)) = [pdu |-> "Unum32", n |-> <<m>>]
    BY <1>2 DEF Variant, ToMicros, Micros
  <2> QED
    BY <2>2, <2>3, <2>4
<1>3. CASE p.type \in {"u8", "u32", "bool"}
  <2>1. PICK w : w = v.n[1] /\ w \in Words /\ v.n = <<w>> /\ IsU32(w)
                 /\ (p.type = "u8" => IsU8(w))
    BY <1>1, <1>3 DEF Lists, Fits, IsU32, IsU8, Half
  <2>2. Serialize(p, v) = Number(w)
    BY <1>3, <2>1 DEF Serialize
  <2>3. IsJson(Number(w)) /\ Accepts(p, Number(w))
    BY <1>3, <2>1 DEF IsJson, Number, Accepts
  <2>4. Deserialize(p, Number(w)).n = v.n
    <3>1. CASE p.type # "bool"
      BY <1>3, <2>1, <3>1 DEF Deserialize, Number, Of
    <3>2. CASE p.type = "bool"
      <4>1. Word(0) # Word(1)
        BY SMT DEF Word, Half
      <4>2. v \in {Num(0), Num(1)}
        BY <3>2 DEF Fits, Flag
      <4>3. w \in {Word(0), Word(1)}
        BY <2>1, <4>2 DEF Num, Of
      <4>4. Flag(w # Word(0)) = Of(<<w>>)
        BY <4>1, <4>3 DEF Flag, Num
      <4> QED
        BY <2>1, <3>2, <4>4 DEF Deserialize, Number, Of
    <3> QED
      BY <3>1, <3>2
  <2> QED
    BY <1>3, <2>2, <2>3, <2>4 DEF Variant
<1>4. CASE p.type \in Lists
  <2>1. PICK n : n = v.n /\ n \in Seq(Words)
                 /\ (\A i \in DOMAIN n : IsU32(n[i]))
                 /\ (p.type = "bytes" => \A i \in DOMAIN n : IsU8(n[i]))
    BY <1>1, <1>4 DEF Lists, Fits, IsU32, IsU8, Half
  <2>2. CASE p.type \in {"bytes", "longs"}
    BY <2>1, <2>2 DEF Serialize, IsJson, Array, Accepts, Deserialize, Of, Variant
  <2>3. CASE p.type = "timings"
    BY <2>1, <2>3 DEF Serialize, IsJson, Structs, Array, Accepts, Deserialize,
       Of, Variant
  <2>4. CASE p.type = "text"
    BY <2>1, <2>4 DEF Serialize, IsJson, Text, Accepts, Deserialize, Of, Variant
  <2> QED
    BY <1>4, <2>2, <2>3, <2>4 DEF Lists
<1> QED
  BY <1>2, <1>3, <1>4 DEF Types

LEMMA DeserializedFits ==
  ASSUME NEW p, p.type \in Types, NEW j, IsJson(j), Accepts(p, j)
  PROVE Fits(p.type, Deserialize(p, j))
<1>1. j.n \in Seq(Words)
  BY DEF IsJson
<1>2. CASE p.type \in {"time", "u8", "u32", "bool"}
  <2>1. PICK w \in Words : /\ j.n = <<w>> /\ IsU32(w)
                           /\ p.type = "u8" => IsU8(w)
    BY <1>1, <1>2, OnlyWord DEF IsJson, Accepts, IsU32, IsU8, Half
  <2>2. Fits("time", Micros(w)) /\ Fits("u32", Of(<<w>>))
    BY <2>1, OneWordFits
  <2>3. p.type = "u8" => Fits("u8", Of(<<w>>))
    BY <2>1, OneWordFits
  <2>4. Fits("bool", Flag(w # Word(0)))
    BY FlagsFit
  <2> QED
    BY <1>2, <2>1, <2>2, <2>3, <2>4 DEF Deserialize
<1>3. CASE p.type \in Lists
  <2>1. PICK n : n = j.n /\ n \in Seq(Words)
    BY <1>1
  <2>2. \A i \in DOMAIN n : IF p.type = "bytes" THEN IsU8(n[i]) ELSE IsU32(n[i])
    BY <1>3, <2>1 DEF Lists, IsJson, Accepts, Array
  <2>3. Deserialize(p, j) = Of(n)
    BY <1>3, <2>1 DEF Lists, Deserialize
  <2>4. /\ Of(n) \in [unit : Units, n : Seq(Words)]
        /\ Of(n).n = n /\ Of(n).unit = "none"
    BY <2>1 DEF Of, Units
  <2>5. p.type # "time" /\ p.type # "bool" /\ p.type # "u8"
    BY <1>3 DEF Lists
  <2> QED
    BY <1>3, <2>2, <2>3, <2>4, <2>5 DEF Fits
<1> QED
  BY <1>2, <1>3 DEF Types

-----------------------------------------------------------------------------
(***************************************************************************)
(* The inductive invariant, in parts.                                      *)
(***************************************************************************)
Given ==
  /\ stack \in Stacks /\ watched \subseteq Fields(stack)
  /\ supported \subseteq watched /\ DOMAIN driver = watched

\* What was built is of the fields it was built from, if it is to be sent.
Built ==
  /\ DOMAIN set \subseteq watched \cap SetOf(stack)
  /\ DOMAIN table \subseteq watched \cap TableOf(stack)
  /\ IF origin = Empty THEN todo = {} /\ delivered = {}
     ELSE /\ set = [p \in watched \cap SetOf(stack) |-> Variant(p, origin[p])]
          /\ table = [p \in watched \cap TableOf(stack) |->
                       Variant(p, origin[p])]

\* While the set is being sent, and once it is delivered, the driver has the
\* values of the parameters set so far, but for those passed over.
SetSent ==
  /\ todo \subseteq DOMAIN set
  /\ todo # {} => "set" \notin delivered
  /\ todo # {} \/ "set" \in delivered =>
       \A p \in (DOMAIN set \cap supported) \ (todo \cup passed) :
         driver[p] = set[p]
  /\ ~refused

TableSent ==
  "table" \in delivered =>
    /\ driverTable = [row |-> Row(origin), params |-> table]
    /\ \A p \in DOMAIN table :
         /\ <<Row(origin), p>> \in DOMAIN workingTable
         /\ workingTable[<<Row(origin), p>>] = table[p]

Buffered ==
  /\ DOMAIN workingSet \subseteq watched
  /\ \A p \in DOMAIN workingSet : workingSet[p] = driver[p]

IInv == Given /\ Built /\ SetSent /\ TableSent /\ Buffered

LEMMA Initially ==
  ASSUME Init
  PROVE IInv
<1>1. DOMAIN Empty = {}
  BY DEF Empty
<1>2. Given
  BY DEF Init, Given
<1>3. Built /\ SetSent /\ TableSent
  BY <1>1 DEF Init, Built, SetSent, TableSent
<1>4. PICK bus_, proto \in MdfValues : Capture(bus_, proto)
  BY DEF Init
<1>5. /\ DOMAIN workingSet \subseteq watched
      /\ \A p \in DOMAIN workingSet : workingSet[p] = Default(p)
  BY <1>4 DEF Capture, Captured
<1>6. Buffered
  BY <1>5 DEF Init, Buffered
<1> QED
  BY <1>2, <1>3, <1>6 DEF IInv

\* The changes of the stack touch nothing that was built or sent.
LEMMA StackSteps ==
  ASSUME IInv, UNCHANGED <<givenVars, builtVars, sentVars, linkVars>>
  PROVE IInv'
  BY DEF IInv, Given, Built, SetSent, TableSent, Buffered, givenVars,
         builtVars, sentVars, linkVars, Row

LEMMA BuildStep ==
  ASSUME IInv, Build
  PROVE IInv'
<1>1. Given' /\ Buffered'
  BY DEF Build, IInv, Given, Buffered, givenVars, linkVars
<1>2. Built'
  BY DEF Build, IInv, Built, BuildSet, BuildTable, givenVars
<1>3. SetSent' /\ TableSent'
  BY DEF Build, IInv, SetSent, TableSent
<1> QED
  BY <1>1, <1>2, <1>3 DEF IInv

LEMMA RefreshStep ==
  ASSUME IInv, NEW api \in BOOLEAN, NEW R, Refresh(api, R)
  PROVE IInv'
<1>1. Given' /\ Buffered'
  BY DEF Refresh, IInv, Given, Buffered, givenVars, linkVars
<1>2. DOMAIN set' = DOMAIN set
  BY DEF Refresh, Refreshed
<1>3. Built'
  BY <1>2 DEF Refresh, IInv, Built, givenVars
<1>4. SetSent' /\ TableSent'
  BY DEF Refresh, IInv, SetSent, TableSent
<1> QED
  BY <1>1, <1>3, <1>4 DEF IInv

LEMMA SendSetStep ==
  ASSUME IInv, SendSet
  PROVE IInv'
<1>1. Given' /\ Buffered'
  BY DEF SendSet, IInv, Given, Buffered, givenVars, linkVars
<1>2. Built' /\ TableSent'
  BY DEF SendSet, IInv, Built, TableSent, Row, givenVars, builtVars, linkVars
<1>3. SetSent'
  BY DEF SendSet, IInv, SetSent, givenVars, builtVars, linkVars
<1> QED
  BY <1>1, <1>2, <1>3 DEF IInv

LEMMA SkipOneStep ==
  ASSUME IInv, NEW p \in watched, SkipOne(p)
  PROVE IInv'
<1>1. Given' /\ Buffered'
  BY DEF SkipOne, IInv, Given, Buffered, givenVars, linkVars
<1>2. Built' /\ TableSent'
  BY DEF SkipOne, Done, IInv, Built, TableSent, Row, givenVars, builtVars,
         linkVars
<1>3. SetSent'
  BY DEF SkipOne, Done, IInv, SetSent, givenVars, builtVars, linkVars
<1> QED
  BY <1>1, <1>2, <1>3 DEF IInv

LEMMA SetOneStep ==
  ASSUME IInv, NEW p \in watched, SetOne(p)
  PROVE IInv'
<1>1. /\ DOMAIN driver' = watched /\ driver'[p] = set[p]
      /\ \A q \in watched \ {p} : driver'[q] = driver[q]
  BY DEF SetOne, IInv, Given
<1>2. Given'
  BY <1>1 DEF SetOne, IInv, Given, givenVars
<1>3. Buffered'
  BY <1>1 DEF SetOne, IInv, Buffered, Given, givenVars
<1>4. Built' /\ TableSent'
  BY DEF SetOne, Done, IInv, Built, TableSent, Row, givenVars, builtVars
<1>5. SetSent'
  <2>1. UNCHANGED <<watched, supported, set, passed, refused>>
    BY DEF SetOne, givenVars, builtVars
  <2>2. todo # {} /\ todo' = todo \ {p} /\ "set" \notin delivered
    BY DEF SetOne, Done, IInv, SetSent
  <2>3. \A q \in (DOMAIN set \cap supported) \ (todo' \cup passed) :
          driver'[q] = set[q]
    BY <1>1, <2>2 DEF IInv, SetSent, Given
  <2>4. todo' # {} => "set" \notin delivered'
    BY <2>2 DEF SetOne, Done
  <2> QED
    BY <2>1, <2>2, <2>3, <2>4 DEF IInv, SetSent
<1> QED
  BY <1>2, <1>3, <1>4, <1>5 DEF IInv

LEMMA FailOneStep ==
  ASSUME IInv, NEW p \in watched, FailOne(p)
  PROVE IInv'
<1>1. Given' /\ Buffered'
  BY DEF FailOne, IInv, Given, Buffered, givenVars, linkVars
<1>2. Built' /\ TableSent'
  BY DEF FailOne, IInv, Built, TableSent, Row, givenVars, builtVars, linkVars
<1>3. p.class # "UniqueId" /\ "set" \notin delivered
  BY HalvesAreRight DEF FailOne, IInv, Built, SetSent, Given
<1>4. SetSent'
  BY <1>3 DEF FailOne, IInv, SetSent, givenVars, builtVars, linkVars
<1> QED
  BY <1>1, <1>2, <1>4 DEF IInv

\* The buffer's table has what is noted, and keeps the rest.
LEMMA Noted ==
  ASSUME NEW S, Note(S)
  PROVE /\ DOMAIN workingTable \subseteq DOMAIN workingTable'
        /\ \A p \in S : /\ <<Row(origin), p>> \in DOMAIN workingTable'
                       /\ workingTable'[<<Row(origin), p>>] = table[p]
        /\ \A e \in DOMAIN workingTable : e \notin {Row(origin)} \X S =>
             workingTable'[e] = workingTable[e]
<1>1. PICK r : r = Row(origin)
  OBVIOUS
<1> DEFINE new == {r} \X S
<1>2. \A p \in S : <<r, p>> \in new /\ <<r, p>>[2] = p
  OBVIOUS
<1>3. workingTable' = [e \in DOMAIN workingTable \cup new |->
                         IF e \in new THEN table[e[2]] ELSE workingTable[e]]
  BY <1>1 DEF Note
<1> HIDE DEF new
<1>4. /\ DOMAIN workingTable' = DOMAIN workingTable \cup new
      /\ \A e \in new : workingTable'[e] = table[e[2]]
      /\ \A e \in DOMAIN workingTable \ new : workingTable'[e] = workingTable[e]
  BY <1>3
<1> QED
  BY <1>1, <1>2, <1>4 DEF new

LEMMA SendTableStep ==
  ASSUME IInv, NEW ok \in BOOLEAN, SendTable(ok)
  PROVE IInv'
<1>1. Given' /\ Buffered'
  BY DEF SendTable, IInv, Given, Buffered, givenVars
<1>2. Built'
  BY DEF SendTable, IInv, Built, givenVars, builtVars
<1>3. \A p \in DOMAIN table : p.class = "UniqueId"
  BY HalvesAreRight DEF IInv, Built, Given
<1>4. SetSent'
  BY <1>3 DEF SendTable, IInv, SetSent, givenVars, builtVars
<1>5. TableSent'
  <2>1. Row(origin)' = Row(origin) /\ table' = table
    BY DEF SendTable, builtVars, Row
  <2>2. \A p \in DOMAIN table :
          /\ <<Row(origin), p>> \in DOMAIN workingTable'
          /\ workingTable'[<<Row(origin), p>>] = table[p]
    BY Noted DEF SendTable
  <2>3. "table" \in delivered' => ok
    BY DEF SendTable
  <2> QED
    BY <2>1, <2>2, <2>3 DEF SendTable, TableSent
<1> QED
  BY <1>1, <1>2, <1>4, <1>5 DEF IInv

LEMMA SendTableUnsupportedStep ==
  ASSUME IInv, NEW S, SendTableUnsupported(S)
  PROVE IInv'
<1>1. Given' /\ Buffered'
  BY DEF SendTableUnsupported, IInv, Given, Buffered, givenVars
<1>2. Built' /\ SetSent'
  BY DEF SendTableUnsupported, IInv, Built, SetSent, givenVars, builtVars,
         sentVars
<1>3. TableSent'
  <2> SUFFICES ASSUME "table" \in delivered PROVE TableSent'
    BY DEF SendTableUnsupported, TableSent, sentVars
  <2>1. Row(origin)' = Row(origin) /\ table' = table
    BY DEF SendTableUnsupported, builtVars, Row
  <2>2. PICK r : r = Row(origin)
    OBVIOUS
  <2>3. ASSUME NEW p \in DOMAIN table
        PROVE /\ <<r, p>> \in DOMAIN workingTable'
              /\ workingTable'[<<r, p>>] = table[p]
    <3>1. /\ <<r, p>> \in DOMAIN workingTable
          /\ workingTable[<<r, p>>] = table[p]
      BY <2>2 DEF IInv, TableSent
    <3>2. CASE p \in S
      BY <2>2, <3>2, Noted DEF SendTableUnsupported
    <3>3. CASE p \notin S
      <4>1. <<r, p>> \notin {r} \X S
        BY <3>3
      <4> QED
        BY <2>2, <3>1, <4>1, Noted DEF SendTableUnsupported
    <3> QED
      BY <3>2, <3>3
  <2>4. driverTable' = [row |-> r, params |-> table]
    BY <2>2 DEF SendTableUnsupported, IInv, TableSent
  <2> QED
    BY <2>1, <2>2, <2>3, <2>4 DEF TableSent
<1> QED
  BY <1>1, <1>2, <1>3 DEF IInv

LEMMA NextKeeps ==
  ASSUME IInv, [Next]_vars
  PROVE IInv'
<1>1. CASE \/ \E p \in watched : Set(p)
           \/ \E id \in ResponseIds : Receive11(id) \/ Receive29(id)
           \/ \E map \in JsonMaps : Configure(map)
  BY <1>1, StackSteps DEF Set, Receive11, Receive29, Configure, givenVars,
     builtVars, sentVars, linkVars
<1>2. CASE \E api \in BOOLEAN, R \in SUBSET watched : Refresh(api, R)
  BY <1>2, RefreshStep
<1>3. CASE Build \/ SendSet
  BY <1>3, BuildStep, SendSetStep
<1>4. CASE \E p \in watched : SkipOne(p) \/ SetOne(p) \/ FailOne(p)
  BY <1>4, SkipOneStep, SetOneStep, FailOneStep
<1>5. CASE \/ \E ok \in BOOLEAN : SendTable(ok)
           \/ \E S \in SUBSET watched : SendTableUnsupported(S)
  BY <1>5, SendTableStep, SendTableUnsupportedStep
<1>6. CASE UNCHANGED vars
  BY <1>6, StackSteps DEF vars
<1> QED
  BY <1>1, <1>2, <1>3, <1>4, <1>5, <1>6 DEF Next

-----------------------------------------------------------------------------
(***************************************************************************)
(* The fields keep the types of their parameters.                          *)
(***************************************************************************)
FieldsFit ==
  /\ DOMAIN fields = watched
  /\ \A p \in watched : Fits(p.type, fields[p])

Typed ==
  /\ FieldsFit
  /\ panicked \in BOOLEAN /\ refused \in BOOLEAN
  /\ ignored \cup stale \subseteq watched
  /\ delivered \subseteq {"set", "table"}
  /\ passed \subseteq supported
  /\ \A e \in DOMAIN workingTable : e[2] \in watched

LEMMA WatchedHaveTypes ==
  ASSUME Given, NEW p \in watched
  PROVE p.type \in Types
  BY FieldsHaveTypes DEF Given

LEMMA InitiallyTyped ==
  ASSUME Init
  PROVE Typed
<1>1. FieldsFit
  <2>1. PICK optimized \in BOOLEAN :
          /\ optimized => stack # "raw"
          /\ fields = [p \in watched |-> Preset(stack, optimized, p)]
    BY DEF Init
  <2>2. stack \in Stacks /\ watched \subseteq Fields(stack)
    BY DEF Init
  <2>3. ASSUME NEW p \in watched PROVE Fits(p.type, fields[p])
    BY <2>1, <2>2, PresetFits
  <2> QED
    BY <2>1, <2>3 DEF FieldsFit
<1>2. PICK bus_, proto \in MdfValues : Capture(bus_, proto)
  BY DEF Init
<1>3. \A e \in DOMAIN workingTable : e[2] \in watched
  BY <1>2 DEF Capture, Captured
<1> QED
  BY <1>1, <1>3 DEF Init, Typed

LEMMA SetFits ==
  ASSUME IInv, Typed, NEW p \in watched, Set(p)
  PROVE FieldsFit'
<1>1. PICK v \in Inputs[p.type] : fields' = [fields EXCEPT ![p] = v]
  BY DEF Set
<1>2. Fits(p.type, v)
  BY WatchedHaveTypes, ComParamsAssumption DEF IInv
<1> QED
  BY <1>1, <1>2 DEF Set, Typed, FieldsFit, givenVars

LEMMA ReceiveFits ==
  ASSUME IInv, Typed, NEW id \in ResponseIds, Receive11(id) \/ Receive29(id)
  PROVE FieldsFit'
<1>1. \A p \in ReceiveFields : p.type = "u32"
  BY TypesOfParams DEF ReceiveFields, Counts
<1>2. /\ Fits("u32", Num(0)) /\ Fits("u32", Num(2)) /\ Fits("u32", Num(id))
      /\ Fits("u32", Of(<<Ones>>))
  <2>1. Fits("u32", Num(id))
    BY ComParamsAssumption, WordIsWord, OneWordFits DEF Num
  <2> QED
    BY <2>1, NumbersFit, OnesFit, SMT
<1>3. UNCHANGED watched
  BY DEF Receive11, Receive29, givenVars
<1>4. PICK a, b, c :
        /\ fields' = [fields EXCEPT ![CpCanRespUudtFormat] = a,
                                    ![CpCanRespUudtId] = b,
                                    ![CpCanRespUudtExtAddr] = c]
        /\ Fits("u32", a) /\ Fits("u32", b) /\ Fits("u32", c)
  BY <1>2 DEF Receive11, Receive29
<1> QED
  BY <1>1, <1>3, <1>4 DEF Typed, FieldsFit, ReceiveFields

LEMMA ConfigureFits ==
  ASSUME IInv, Typed, NEW map \in JsonMaps, Configure(map)
  PROVE FieldsFit'
<1>1. UNCHANGED watched
  BY DEF Configure, givenVars
<1>2. CASE ~\A p \in watched : Accepts(p, Overlaid(map, p))
  BY <1>1, <1>2 DEF Configure, Typed, FieldsFit
<1>3. CASE \A p \in watched : Accepts(p, Overlaid(map, p))
  <2>1. fields' = [p \in watched |-> Deserialize(p, Overlaid(map, p))]
    BY <1>3 DEF Configure
  <2>2. ASSUME NEW k \in DOMAIN map PROVE map[k] \in JsonValues
    BY DEF JsonMaps
  <2>3. ASSUME NEW p \in watched
        PROVE p.type \in Types /\ IsJson(Overlaid(map, p))
    <3>1. p.type \in Types /\ Fits(p.type, fields[p])
      BY WatchedHaveTypes DEF IInv, Typed, FieldsFit
    <3> QED
      BY <2>2, <3>1, RoundTrip, ComParamsAssumption DEF Overlaid
  <2>4. \A p \in watched : Fits(p.type, Deserialize(p, Overlaid(map, p)))
    BY <1>3, <2>3, DeserializedFits
  <2> QED
    BY <1>1, <2>1, <2>4 DEF FieldsFit
<1> QED
  BY <1>2, <1>3

LEMMA StackStepsTyped ==
  ASSUME IInv, Typed,
         \/ \E p \in watched : Set(p)
         \/ \E id \in ResponseIds : Receive11(id) \/ Receive29(id)
         \/ \E map \in JsonMaps : Configure(map)
  PROVE Typed'
<1>1. FieldsFit'
  BY SetFits, ReceiveFits, ConfigureFits
<1>2. /\ UNCHANGED <<watched, supported, stale, sentVars, workingTable>>
      /\ panicked' \in BOOLEAN /\ ignored' \subseteq watched
  BY DEF Set, Receive11, Receive29, Configure, Typed, givenVars, jsonVars,
         sentVars, linkVars
<1> QED
  BY <1>1, <1>2 DEF Typed, sentVars

LEMMA NextKeepsTyped ==
  ASSUME IInv, Typed, [Next]_vars
  PROVE Typed'
<1>1. CASE \/ \E p \in watched : Set(p)
           \/ \E id \in ResponseIds : Receive11(id) \/ Receive29(id)
           \/ \E map \in JsonMaps : Configure(map)
  BY <1>1, StackStepsTyped
<1>2. ASSUME UNCHANGED <<givenVars, stackVars, jsonVars>>, refused' \in BOOLEAN,
             stale' \subseteq watched, delivered' \subseteq {"set", "table"},
             passed' \subseteq supported,
             \A e \in DOMAIN workingTable' : e[2] \in watched
      PROVE Typed'
  BY <1>2 DEF Typed, FieldsFit, givenVars, stackVars, jsonVars
<1>3. CASE Build \/ SendSet
  BY <1>2, <1>3 DEF Build, SendSet, Typed, linkVars
<1>4. CASE \E api \in BOOLEAN, R \in SUBSET watched : Refresh(api, R)
  BY <1>2, <1>4 DEF Refresh, Typed, linkVars
<1>5. CASE \E p \in watched : SkipOne(p) \/ SetOne(p) \/ FailOne(p)
  BY <1>2, <1>5 DEF SkipOne, SetOne, FailOne, Done, Typed, linkVars
<1>6. CASE \E ok \in BOOLEAN : SendTable(ok)
  <2>1. DOMAIN workingTable' = DOMAIN workingTable
                                 \cup ({Row(origin)} \X DOMAIN table)
    BY <1>6 DEF SendTable, Note
  <2>2. \A e \in DOMAIN workingTable' : e[2] \in watched
    BY <2>1 DEF Typed, IInv, Built
  <2> QED
    BY <1>2, <1>6, <2>2 DEF SendTable, Typed
<1>7. CASE \E S \in SUBSET watched : SendTableUnsupported(S)
  <2>1. PICK S \in SUBSET watched : SendTableUnsupported(S)
    BY <1>7
  <2>2. DOMAIN workingTable' = DOMAIN workingTable \cup ({Row(origin)} \X S)
    BY <2>1 DEF SendTableUnsupported, Note
  <2>3. \A e \in DOMAIN workingTable' : e[2] \in watched
    BY <2>2 DEF Typed
  <2> QED
    BY <1>2, <2>1, <2>3 DEF SendTableUnsupported, Typed, sentVars
<1>8. CASE UNCHANGED vars
  BY <1>2, <1>8 DEF vars, Typed, sentVars, linkVars
<1> QED
  BY <1>1, <1>3, <1>4, <1>5, <1>6, <1>7, <1>8 DEF Next

-----------------------------------------------------------------------------
\* Whatever is set, refreshed, refused or left undone, IInv holds.
THEOREM Inductive == Spec => []IInv
  BY Initially, NextKeeps, PTL DEF Spec

\* The two programs of RawCan take no step with their parameters that one
\* alone could not.
THEOREM RawIsComParams == RawSpec => Spec
<1>1. RawInit => Init
  BY DEF RawInit
<1>2. [RawNext]_<<vars, canVars>> => [Next]_vars
  BY DEF RawNext, Send, OthersSend, Hear
<1> QED
  BY <1>1, <1>2, PTL DEF RawSpec, Spec

\* After a delivered set and a delivered table the driver has the value of
\* every field they were built from, but for what it refused and was passed
\* over.
THEOREM FieldsArrive == Spec => []FieldsReachDriver
<1>1. ASSUME IInv PROVE FieldsReachDriver
  <2>1. ~refused
    BY <1>1 DEF IInv, SetSent
  <2>2. ASSUME "set" \in delivered, NEW p \in (Singles \cap supported) \ passed
        PROVE driver[p] = Variant(p, origin[p])
    <3>1. origin # Empty /\ todo = {}
      BY <1>1, <2>2 DEF IInv, Built, SetSent
    <3>2. p \in watched \cap SetOf(stack)
      BY <1>1, HalvesAreRight DEF Singles, IInv, Given
    <3>3. set[p] = Variant(p, origin[p]) /\ p \in DOMAIN set
      BY <1>1, <3>1, <3>2 DEF IInv, Built
    <3> QED
      BY <1>1, <2>2, <3>1, <3>3 DEF IInv, SetSent
  <2>3. ASSUME "table" \in delivered
        PROVE driverTable = [row |-> Row(origin),
                             params |-> [p \in Unique |-> Variant(p, origin[p])]]
    <3>1. Unique = watched \cap TableOf(stack)
      BY <1>1, HalvesAreRight DEF Unique, IInv, Given
    <3>2. table = [p \in Unique |-> Variant(p, origin[p])]
      BY <1>1, <2>3, <3>1 DEF IInv, Built
    <3> QED
      BY <1>1, <2>3, <3>2 DEF IInv, TableSent
  <2> QED
    BY <2>1, <2>2, <2>3 DEF FieldsReachDriver
<1> QED
  BY <1>1, Inductive, PTL

\* The link's buffer has the driver's value of every parameter it has, and
\* the driver's table under its row.
THEOREM BufferIsTrue == Spec => []BufferShowsDriver
<1>1. ASSUME IInv PROVE BufferShowsDriver
  BY <1>1 DEF IInv, Buffered, TableSent, BufferShowsDriver
<1> QED
  BY <1>1, Inductive, PTL

THEOREM AlwaysTyped == Spec => []Typed
<1>1. Init => Typed
  BY InitiallyTyped
<1>2. IInv /\ Typed /\ [Next]_vars => Typed'
  BY NextKeepsTyped
<1> QED
  BY <1>1, <1>2, Inductive, PTL DEF Spec

\* No preset, no setter given a value of its type and no JSON map puts a value
\* in a field that the Rust type of its parameter cannot hold: the presets of
\* all 82 parameters, and whatever the values found in the JSON.
THEOREM Typing == Spec => []TypeOK
<1>1. ASSUME IInv, Typed PROVE TypeOK
  BY <1>1 DEF IInv, Given, Built, SetSent, Buffered, Typed, FieldsFit, TypeOK
<1> QED
  BY <1>1, Inductive, AlwaysTyped, PTL

\* The JSON of a stack is accepted by its own fields, and the driver gets the
\* same of every field it leaves out: a duration comes back in microseconds,
\* wrapped where the conversion for the driver wraps it.
THEOREM JsonSparesOthers == Spec => []ConfigureSparesOthers
<1>1. ASSUME IInv, Typed PROVE ConfigureSparesOthers
  BY <1>1, WatchedHaveTypes, RoundTrip
     DEF IInv, Typed, FieldsFit, ConfigureSparesOthers
<1> QED
  BY <1>1, Inductive, AlwaysTyped, PTL

=============================================================================
