------------------------------- MODULE RawCan -------------------------------
(***************************************************************************)
(* Raw CAN over links set up with a stack of parameters.  Two programs on  *)
(* one bus have set the same parameters: one sends a frame with            *)
(* send_only_raw_can(), the other has a primitive of monitor() and makes   *)
(* frames of its result events.  Other nodes send what they like.  The     *)
(* driver hands the link the frames of the identifier its table names.     *)
(***************************************************************************)
EXTENDS ComParams, CanFrame

CONSTANTS
  Frames,   \* the frames the program builds
  Traffic   \* what other nodes send: see OnBus

VARIABLES
  bus,     \* the frame on the bus
  sender,  \* history: the program's frame it was made from, None if another's
  heard    \* history: what became of the last frame handed to the link

canVars == <<bus, sender, heard>>

Idle == [idle |-> TRUE]
Nothing == [frame |-> None, bus |-> Idle, sender |-> None]

OnBus(id, remote, dlc, data) ==
  [id |-> id, remote |-> remote, dlc |-> dlc, data |-> data]

\* StandardId::new() and ExtendedId::new() take no more.
IsId(id) ==
  \/ id = Standard(id.raw) /\ id.raw \in 0..MaxStandard
  \/ id = Extended(id.raw) /\ id.raw \in 0..MaxExtended

ASSUME RawCanAssumption ==
  /\ \A f \in Frames :
       /\ IsId(f.id) /\ f.remote \in BOOLEAN /\ f.data \in Seq(Byte)
       /\ f = Frame(f.id, f.remote, f.data)
  /\ \A b \in Traffic :
       /\ IsId(b.id) /\ b.remote \in BOOLEAN /\ b.data \in Seq(Byte)
       /\ b.dlc \in Nat
       /\ IF b.remote THEN b.data = <<>> ELSE b.dlc = Len(b.data)
       /\ b = OnBus(b.id, b.remote, b.dlc, b.data)

\* The driver sends the payload of a primitive.
Transmitted(s) ==
  OnBus(MaskedId(s.extended, s.payload), FALSE, Len(s.payload) - 4,
        Rest(s.payload, 4))

\* The driver's result event of a frame; that of a remote frame begins with
\* the DLC.
Event(b) ==
  [remote   |-> b.remote,
   extended |-> b.id.kind = "extended",
   payload  |-> (IF b.remote THEN <<b.dlc>> ELSE <<>>)
                  \o Bytes(b.id.raw) \o b.data]

\* The identifier the driver's table names for responses.
Wanted(id) ==
  LET of(p) == driverTable.params[p].n[1] IN
  IF id.kind = "standard"
  THEN /\ of(CpCanRespUudtFormat) = Word(0)
       /\ of(CpCanRespUudtId) = Word(id.raw)
  ELSE /\ of(CpCanRespUudtFormat) = Word(2)
       /\ of(CpCanRespUudtExtAddr) = Word(id.raw)

Ready == ReceiveFields \subseteq DOMAIN driverTable.params

\* A primitive of send_only_raw_can(f).
Send(f) ==
  /\ Ready /\ bus = Idle
  /\ bus' = Transmitted(Sent(f))
  /\ sender' = f
  /\ UNCHANGED <<vars, heard>>

OthersSend(b) ==
  /\ Ready /\ bus = Idle
  /\ bus' = b
  /\ sender' = None
  /\ UNCHANGED <<vars, heard>>

\* The monitor's listener takes the event.
Hear ==
  /\ bus # Idle
  /\ heard' = IF Wanted(bus.id)
              THEN [frame |-> FromEvent(Event(bus)), bus |-> bus, sender |-> sender]
              ELSE Nothing
  /\ bus' = Idle /\ sender' = None
  /\ UNCHANGED vars

RawInit == Init /\ bus = Idle /\ sender = None /\ heard = Nothing

RawNext ==
  \/ Next /\ UNCHANGED canVars
  \/ \E f \in Frames : Send(f)
  \/ \E b \in Traffic : OthersSend(b)
  \/ Hear

RawSpec == RawInit /\ [][RawNext]_<<vars, canVars>>

-----------------------------------------------------------------------------
\* A data frame one program sends is the frame the other makes of the event,
\* identifier, kind and data; what another node sends becomes a frame of its
\* identifier, kind and length, remote or not; only what a classic frame cannot
\* hold is dropped, and never handed on in part.
FramesArriveWhole ==
  heard # Nothing =>
    LET b == heard.bus IN
    /\ b.dlc <= 8 =>
         heard.frame =
           IF b.remote THEN Frame(b.id, TRUE, [i \in 1..b.dlc |-> 0])
                       ELSE Frame(b.id, FALSE, b.data)
    /\ b.dlc > 8 => heard.frame \in {None, Panic}
    /\ heard.sender # None /\ ~heard.sender.remote /\ b.dlc <= 8 =>
         heard.frame = heard.sender

(***************************************************************************)
(* What the source says and the code does not do.                          *)
(***************************************************************************)
\* "Creates a new remote frame (RTR bit set)": sent, it is one on the bus.
RemoteStaysRemote ==
  \A f \in Frames : f.remote => Transmitted(Sent(f)).remote

\* "internal error: invalid DLC of RTR frame" is not reached.
DlcIsValid == \A b \in Traffic : FromEvent(Event(b)) # Panic

\* The test cmp_id() compares with <, which is PartialOrd, and expects the
\* order of Ord.
OrdersAgree ==
  \A x, y \in {b.id : b \in Traffic} : Less(x, y) <=> Cmp(x, y)

\* Each of these fails alone.  Checked together, as one claim that some of them
\* holds, they are refuted by one behaviour that breaks them all.
SomeClaimHolds ==
  \/ ConfigureIsInfallible
  \/ NamesAreKeys
  \/ RefreshRefreshes
  \/ SetIsComplete
  \/ RemoteStaysRemote
  \/ DlcIsValid
  \/ OrdersAgree
=============================================================================
