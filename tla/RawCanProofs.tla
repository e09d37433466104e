---------------------------- MODULE RawCanProofs ----------------------------
(***************************************************************************)
(* Proofs about RawCan, for every identifier of 11 or 29 bits, all data    *)
(* and every table.                                                        *)
(***************************************************************************)
EXTENDS RawCan, SequenceTheorems, TLAPS

-----------------------------------------------------------------------------
(***************************************************************************)
(* The two conversions are inverse.                                        *)
(***************************************************************************)
LEMMA BytesAreBytes ==
  ASSUME NEW raw \in 0..MaxExtended
  PROVE /\ Bytes(raw) \in Seq(Byte) /\ Bytes(raw) \in Seq(Nat)
        /\ Len(Bytes(raw)) = 4
<1>1. raw \div 2^24 \in Byte
  BY DEF MaxExtended, Byte
<1>2. (raw \div 2^16) % 256 \in Byte /\ (raw \div 2^8) % 256 \in Byte
  BY DEF MaxExtended, Byte
<1>3. raw % 256 \in Byte
  BY DEF MaxExtended, Byte
<1> QED
  BY <1>1, <1>2, <1>3 DEF Bytes, Byte

\* from_be_bytes() and the mask give back what to_be_bytes() was given.
LEMMA IdSurvives ==
  ASSUME NEW id, IsId(id), NEW b,
         \A i \in 1..4 : b[i] = Bytes(id.raw)[i]
  PROVE MaskedId(id.kind = "extended", b) = id
<1>1. /\ b[1] = id.raw \div 2^24 /\ b[2] = (id.raw \div 2^16) % 256
      /\ b[3] = (id.raw \div 2^8) % 256 /\ b[4] = id.raw % 256
  BY DEF Bytes
<1>2. CASE id = Standard(id.raw) /\ id.raw \in 0..MaxStandard
  <2>1. (b[3] % 8) * 2^8 + b[4] = id.raw
    BY <1>1, <1>2 DEF MaxStandard
  <2>2. id.kind = "standard"
    BY <1>2 DEF Standard
  <2> QED
    BY <1>2, <2>1, <2>2 DEF MaskedId
<1>3. CASE id = Extended(id.raw) /\ id.raw \in 0..MaxExtended
  <2>1. (b[1] % 32) * 2^24 + b[2] * 2^16 + b[3] * 2^8 + b[4] = id.raw
    <3>1. PICK r \in 0..MaxExtended : r = id.raw
      BY <1>3
    <3>2. /\ b[1] = r \div 16777216 /\ b[2] = (r \div 65536) % 256
          /\ b[3] = (r \div 256) % 256 /\ b[4] = r % 256
      BY <1>1, <3>1, SMT
    <3>3. ((r \div 16777216) % 32) * 16777216 + ((r \div 65536) % 256) * 65536
            + ((r \div 256) % 256) * 256 + (r % 256) = r
      <4>1. r \in Nat /\ r < 32 * 16777216
        BY <3>1, SMT DEF MaxExtended
      <4>2. PICK x \in Nat : x = r \div 256
        BY <4>1, SMT
      <4>3. r = x * 256 + (r % 256) /\ r % 256 \in Nat
        BY <4>1, <4>2, SMT
      <4>4. PICK y \in Nat : y = r \div 65536
        BY <4>1, SMT
      <4>5. y = x \div 256
        BY <4>1, <4>2, <4>4, SMT
      <4>6. x = y * 256 + (x % 256) /\ x % 256 \in Nat
        BY <4>5, SMT
      <4>7. PICK z \in Nat : z = r \div 16777216
        BY <4>1, SMT
      <4>8. z < 32
        BY <4>1, <4>7, SMT
      <4>9. z = y \div 256
        BY <4>1, <4>4, <4>7, SMT
      <4>10. y = z * 256 + (y % 256) /\ y % 256 \in Nat
        BY <4>9, SMT
      <4>11. z % 32 = z
        BY <4>8, SMT
      <4>12. z * 16777216 + (y % 256) * 65536 + (x % 256) * 256 + (r % 256) = r
        <5>1. PICK a \in Nat : a = r % 256
          BY <4>3
        <5>2. PICK d \in Nat : d = x % 256
          BY <4>6
        <5>3. PICK c \in Nat : c = y % 256
          BY <4>10
        <5>4. /\ r = x * 256 + a /\ x = y * 256 + d /\ y = z * 256 + c
          BY <4>3, <4>6, <4>10, <5>1, <5>2, <5>3
        <5> QED
          BY <5>1, <5>2, <5>3, <5>4, SMT
      <4> QED
        BY <4>2, <4>4, <4>7, <4>11, <4>12
    <3> QED
      BY <3>1, <3>2, <3>3, SMT
  <2>2. id.kind = "extended"
    BY <1>3 DEF Extended
  <2> QED
    BY <1>3, <2>1, <2>2 DEF MaskedId
<1> QED
  BY <1>2, <1>3 DEF IsId

LEMMA IdsAreSmall ==
  ASSUME NEW id, IsId(id)
  PROVE id.raw \in 0..MaxExtended
  BY DEF IsId, MaxStandard, MaxExtended

\* What is behind the identifier is the data.
LEMMA DataSurvives ==
  ASSUME NEW h \in Seq(Byte), NEW data \in Seq(Byte)
  PROVE /\ Rest(h \o data, Len(h)) = data
        /\ Len(h \o data) = Len(h) + Len(data)
        /\ \A i \in 1..Len(h) : (h \o data)[i] = h[i]
<1>1. /\ h \o data \in Seq(Byte)
      /\ Len(h \o data) = Len(h) + Len(data)
      /\ \A i \in 1 .. Len(h) + Len(data) :
           (h \o data)[i] = IF i <= Len(h) THEN h[i] ELSE data[i - Len(h)]
  BY ConcatProperties
<1>2. PICK n \in Nat : n = Len(h)
  BY LenProperties
<1>3. PICK m \in Nat : m = Len(data)
  BY LenProperties
<1>4. PICK s \in Seq(Byte) : s = h \o data
  BY <1>1
<1>5. /\ Rest(s, n) \in Seq(Byte) /\ Len(Rest(s, n)) = m
      /\ \A i \in 1..m : Rest(s, n)[i] = s[n + i]
  BY <1>1, <1>2, <1>3, <1>4 DEF Rest
<1>6. \A i \in 1..m : s[n + i] = data[i]
  BY <1>1, <1>2, <1>3, <1>4
<1>7. Rest(s, n) = data
  BY <1>3, <1>5, <1>6, SeqEqual
<1> QED
  BY <1>1, <1>2, <1>4, <1>7

\* A data frame, sent and heard, is the frame it was; the frame a program sends
\* is on the bus as another node's would be.
LEMMA DataFrameSurvives ==
  ASSUME NEW id, IsId(id), NEW data \in Seq(Byte)
  PROVE /\ FromEvent(Event(OnBus(id, FALSE, Len(data), data)))
             = NewData(id, data)
        /\ Transmitted(Sent(Frame(id, FALSE, data)))
             = OnBus(id, FALSE, Len(data), data)
        /\ Transmitted(Sent(Frame(id, TRUE, data)))
             = OnBus(id, FALSE, Len(data), data)
<1>1. PICK h \in Seq(Byte) : h = Bytes(id.raw) /\ Len(h) = 4
  BY IdsAreSmall, BytesAreBytes
<1>2. PICK s \in Seq(Byte) : s = h \o data
  BY ConcatProperties
<1>3. /\ Rest(s, 4) = data /\ Len(s) = 4 + Len(data)
      /\ \A i \in 1..4 : s[i] = h[i]
  BY <1>1, <1>2, DataSurvives
<1>4. PICK m \in Nat : m = Len(data)
  BY LenProperties
<1>5. PICK extended \in BOOLEAN : extended = (id.kind = "extended")
  OBVIOUS
<1>6. MaskedId(extended, s) = id
  BY <1>1, <1>3, <1>5, IdSurvives
<1>7. FromEvent(Event(OnBus(id, FALSE, m, data))) = NewData(id, data)
  <2>1. <<>> \o s = s
    BY ConcatEmptySeq
  <2>2. PICK e : e = Event(OnBus(id, FALSE, m, data))
    OBVIOUS
  <2>3. e.remote = FALSE /\ e.extended = extended /\ e.payload = s
    BY <1>1, <1>2, <1>5, <2>1, <2>2 DEF Event, OnBus
  <2>4. Rest(s, 0) = s
    BY <1>2, SeqEqual DEF Rest
  <2>5. FromEvent(e) = IF Len(s) < 4 THEN None
                       ELSE NewData(MaskedId(extended, s), Rest(s, 4))
    BY <2>3, <2>4 DEF FromEvent
  <2>6. ~(Len(s) < 4)
    BY <1>3, <1>4
  <2> QED
    BY <1>3, <1>6, <2>2, <2>5, <2>6
<1>8. ASSUME NEW remote \in BOOLEAN
      PROVE Transmitted(Sent(Frame(id, remote, data))) = OnBus(id, FALSE, m, data)
  <2>1. PICK f : f = Sent(Frame(id, remote, data))
    OBVIOUS
  <2>2. f.extended = extended /\ f.payload = s
    BY <1>1, <1>2, <1>5, <2>1 DEF Sent, Frame
  <2>3. Len(s) - 4 = m
    BY <1>3, <1>4
  <2> QED
    BY <1>3, <1>6, <2>1, <2>2, <2>3 DEF Transmitted
<1> QED
  BY <1>4, <1>7, <1>8

\* What remains of a payload behind its first n bytes.
LEMMA RestParts ==
  ASSUME NEW s \in Seq(Nat), NEW n \in Nat, n <= Len(s)
  PROVE \A i \in 1 .. Len(s) - n : Rest(s, n)[i] = s[n + i]
BY DEF Rest

\* A remote frame's event has the DLC before the identifier.
LEMMA RemoteFrameSurvives ==
  ASSUME NEW id, IsId(id), NEW dlc \in Nat
  PROVE FromEvent(Event(OnBus(id, TRUE, dlc, <<>>)))
          = IF dlc <= 8 THEN NewRemote(id, dlc) ELSE Panic
<1>1. PICK h \in Seq(Nat) : h = Bytes(id.raw) /\ Len(h) = 4
  BY IdsAreSmall, BytesAreBytes
<1>2. PICK extended \in BOOLEAN : extended = (id.kind = "extended")
  OBVIOUS
<1>3. PICK s : s = (<<dlc>> \o h) \o <<>>
  OBVIOUS
<1>4. /\ s \in Seq(Nat) /\ Len(s) = 5 /\ s[1] = dlc
      /\ \A i \in 1..4 : s[i + 1] = h[i]
  <2>1. PICK d \in Seq(Nat) : d = <<dlc>> /\ Len(d) = 1 /\ d[1] = dlc
    <3>1. <<dlc>> \in Seq(Nat)
      OBVIOUS
    <3>2. Len(<<dlc>>) = 1 /\ <<dlc>>[1] = dlc
      OBVIOUS
    <3> QED
      BY <3>1, <3>2
  <2>2. PICK g \in Seq(Nat) : g = d \o h
    BY <1>1, ConcatProperties
  <2>3. /\ Len(g) = 5
        /\ \A i \in 1..5 : g[i] = IF i <= 1 THEN d[i] ELSE h[i - 1]
    <3>1. /\ Len(d \o h) = Len(d) + Len(h)
          /\ \A i \in 1 .. Len(d) + Len(h) :
               (d \o h)[i] = IF i <= Len(d) THEN d[i] ELSE h[i - Len(d)]
      BY ConcatProperties, Zenon
    <3>2. Len(d) + Len(h) = 5
      BY <1>1, <2>1
    <3>3. /\ Len(g) = Len(d) + Len(h)
          /\ \A i \in 1 .. Len(d) + Len(h) :
               g[i] = IF i <= Len(d) THEN d[i] ELSE h[i - Len(d)]
      BY <2>2, <3>1, Zenon
    <3> QED
      BY <2>1, <3>2, <3>3
  <2>4. s = g
    BY <1>3, <2>1, <2>2, ConcatEmptySeq
  <2>5. g[1] = dlc /\ \A i \in 1..4 : g[i + 1] = h[i]
    BY <2>1, <2>3
  <2> QED
    BY <2>2, <2>3, <2>4, <2>5
<1>5. \A i \in 1..4 : Rest(s, 1)[i] = h[i]
  <2>1. \A i \in 1 .. Len(s) - 1 : Rest(s, 1)[i] = s[1 + i]
    <3>1. s \in Seq(Nat) /\ 1 \in Nat /\ 1 <= Len(s)
      BY <1>4
    <3> QED
      BY <3>1, RestParts, Zenon
  <2>2. \A i \in 1..4 : i \in 1 .. Len(s) - 1 /\ 1 + i = i + 1
    BY <1>4
  <2> QED
    BY <1>4, <2>1, <2>2, Zenon
<1>6. MaskedId(extended, Rest(s, 1)) = id
  BY <1>1, <1>2, <1>5, IdSurvives
<1>7. PICK e : e = Event(OnBus(id, TRUE, dlc, <<>>))
  OBVIOUS
<1>8. e.remote = TRUE /\ e.extended = extended /\ e.payload = s
  BY <1>1, <1>2, <1>3, <1>7 DEF Event, OnBus
<1>9. FromEvent(e) = IF Len(s) < 5 THEN None
                     ELSE IF s[1] <= 8 THEN NewRemote(MaskedId(extended, Rest(s, 1)), s[1])
                     ELSE Panic
  BY <1>8 DEF FromEvent
<1>10. ~(Len(s) < 5)
  BY <1>4
<1> QED
  BY <1>4, <1>6, <1>7, <1>9, <1>10

-----------------------------------------------------------------------------
(***************************************************************************)
(* What is on the bus, and what was heard.                                 *)
(***************************************************************************)
OnTheBus(b, f) ==
  /\ IsId(b.id) /\ b.remote \in BOOLEAN /\ b.data \in Seq(Byte)
  /\ b.dlc \in Nat
  /\ IF b.remote THEN b.data = <<>> ELSE b.dlc = Len(b.data)
  /\ b = OnBus(b.id, b.remote, b.dlc, b.data)
  /\ f # None => /\ f = Frame(f.id, f.remote, f.data) /\ f.remote \in BOOLEAN
                 /\ ~b.remote /\ b.id = f.id /\ b.data = f.data

BusInv == bus # Idle => OnTheBus(bus, sender)

LEMMA SendStep ==
  ASSUME NEW f \in Frames, Send(f)
  PROVE BusInv'
<1>1. /\ IsId(f.id) /\ f.remote \in BOOLEAN /\ f.data \in Seq(Byte)
      /\ f = Frame(f.id, f.remote, f.data)
  BY RawCanAssumption
<1>2. bus' = OnBus(f.id, FALSE, Len(f.data), f.data) /\ sender' = f
  BY <1>1, DataFrameSurvives DEF Send
<1>3. Len(f.data) \in Nat
  BY <1>1, LenProperties
<1>4. /\ bus'.id = f.id /\ bus'.remote = FALSE /\ bus'.data = f.data
      /\ bus'.dlc = Len(f.data)
  BY <1>2 DEF OnBus
<1> QED
  BY <1>1, <1>2, <1>3, <1>4 DEF BusInv, OnTheBus

LEMMA OthersSendStep ==
  ASSUME NEW b \in Traffic, OthersSend(b)
  PROVE BusInv'
  BY RawCanAssumption DEF OthersSend, BusInv, OnTheBus

LEMMA HearStep ==
  ASSUME BusInv, Hear
  PROVE BusInv' /\ FramesArriveWhole'
<1>1. BusInv'
  BY DEF Hear, BusInv
<1>2. CASE heard' = Nothing
  BY <1>1, <1>2 DEF FramesArriveWhole, Nothing, Idle
<1>3. CASE heard' = [frame |-> FromEvent(Event(bus)), bus |-> bus,
                     sender |-> sender]
  <2>1. PICK b : b = bus
    OBVIOUS
  <2>2. OnTheBus(b, sender)
    BY <2>1 DEF Hear, BusInv
  <2>3. /\ heard'.frame = FromEvent(Event(b)) /\ heard'.bus = b
        /\ heard'.sender = sender
    BY <1>3, <2>1
  <2>4. CASE ~b.remote
    <3>1. FromEvent(Event(b)) = NewData(b.id, b.data) /\ b.dlc = Len(b.data)
      BY <2>2, <2>4, DataFrameSurvives DEF OnTheBus
    <3>2. b.dlc <= 8 => heard'.frame = Frame(b.id, FALSE, b.data)
      BY <2>3, <3>1 DEF NewData
    <3>3. b.dlc > 8 => heard'.frame = None
      <4>1. b.dlc > 8 => ~(b.dlc <= 8)
        BY <2>2 DEF OnTheBus
      <4>2. ~(Len(b.data) <= 8) => NewData(b.id, b.data) = None
        BY DEF NewData
      <4> QED
        BY <2>3, <3>1, <4>1, <4>2
    <3>4. /\ heard'.sender # None /\ ~heard'.sender.remote /\ b.dlc <= 8
          => heard'.frame = heard'.sender
      <4> SUFFICES ASSUME sender # None, ~sender.remote, b.dlc <= 8
                   PROVE heard'.frame = sender
        BY <2>3
      <4>1. sender = Frame(b.id, FALSE, b.data)
        BY <2>2 DEF OnTheBus
      <4> QED
        BY <3>2, <4>1
    <3> QED
      BY <1>1, <2>3, <2>4, <3>2, <3>3, <3>4 DEF FramesArriveWhole
  <2>5. CASE b.remote
    <3>1. FromEvent(Event(b)) = IF b.dlc <= 8 THEN NewRemote(b.id, b.dlc)
                                              ELSE Panic
      BY <2>2, <2>5, RemoteFrameSurvives DEF OnTheBus
    <3>2. b.dlc <= 8 =>
            heard'.frame = Frame(b.id, TRUE, [i \in 1..b.dlc |-> 0])
      BY <2>3, <3>1 DEF NewRemote
    <3>3. b.dlc > 8 => heard'.frame = Panic
      BY <2>2, <2>3, <3>1 DEF OnTheBus
    <3>4. heard'.sender = None
      BY <2>2, <2>3, <2>5 DEF OnTheBus
    <3> QED
      BY <1>1, <2>3, <2>5, <3>2, <3>3, <3>4 DEF FramesArriveWhole
  <2> QED
    BY <2>4, <2>5
<1> QED
  BY <1>1, <1>2, <1>3 DEF Hear

\* A data frame of one program is the frame the other hears, whatever its
\* identifier and data, and what others send is heard whole or dropped.
THEOREM FramesSurvive == RawSpec => []FramesArriveWhole
<1>1. RawInit => BusInv /\ FramesArriveWhole
  BY DEF RawInit, BusInv, FramesArriveWhole
<1>2. BusInv /\ FramesArriveWhole /\ [RawNext]_<<vars, canVars>>
        => BusInv' /\ FramesArriveWhole'
  <2> SUFFICES ASSUME BusInv, FramesArriveWhole, [RawNext]_<<vars, canVars>>
               PROVE BusInv' /\ FramesArriveWhole'
    OBVIOUS
  <2>1. CASE UNCHANGED canVars
    BY <2>1 DEF canVars, BusInv, FramesArriveWhole
  <2>2. CASE (\E f \in Frames : Send(f)) \/ (\E b \in Traffic : OthersSend(b))
    <3>1. BusInv'
      BY <2>2, SendStep, OthersSendStep
    <3>2. UNCHANGED heard
      BY <2>2 DEF Send, OthersSend
    <3> QED
      BY <3>1, <3>2 DEF FramesArriveWhole
  <2>3. CASE Hear
    BY <2>3, HearStep
  <2> QED
    BY <2>1, <2>2, <2>3 DEF RawNext
<1> QED
  BY <1>1, <1>2, PTL DEF RawSpec

=============================================================================
