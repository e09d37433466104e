------------------------------ MODULE CanFrame ------------------------------
(***************************************************************************)
(* CAN identifiers and frames (utils/can), and the two conversions of the  *)
(* raw CAN protocol: a frame to the payload of a primitive                 *)
(* (send_only_raw_can()) and the payload of a result event to a frame      *)
(* (from_pdu_result_event()).                                              *)
(***************************************************************************)
EXTENDS Integers, Sequences

Standard(raw) == [kind |-> "standard", raw |-> raw]
Extended(raw) == [kind |-> "extended", raw |-> raw]

Byte == 0..255
MaxStandard == 2^11 - 1
MaxExtended == 2^29 - 1

\* Arbitration: the 11 bits both kinds have, the IDE bit, the other 18 bits.
Split(id) ==
  IF id.kind = "standard" THEN <<id.raw, 0, 0>>
                          ELSE <<id.raw \div 2^18, 1, id.raw % 2^18>>

Lexicographic(a, b) ==
  \E i \in DOMAIN a : a[i] < b[i] /\ \A j \in 1..(i - 1) : a[j] = b[j]

\* Ord, written by hand.
Cmp(a, b) == Lexicographic(Split(a), Split(b))

\* PartialOrd, derived: the variants in their order, then what they hold.
Less(a, b) ==
  \/ a.kind = "standard" /\ b.kind = "extended"
  \/ a.kind = b.kind /\ a.raw < b.raw

-----------------------------------------------------------------------------
(***************************************************************************)
(* Frames.  The data of a remote frame is as long as its DLC says.         *)
(***************************************************************************)
Frame(id, remote, data) ==
  [result |-> "frame", id |-> id, remote |-> remote, data |-> data]
None == [result |-> "none"]
Panic == [result |-> "panic"]

NewData(id, data) == IF Len(data) <= 8 THEN Frame(id, FALSE, data) ELSE None

NewRemote(id, dlc) ==
  IF dlc <= 8 THEN Frame(id, TRUE, [i \in 1..dlc |-> 0]) ELSE None

FdLengths == (0..8) \cup {12, 16, 20, 24, 32, 48, 64}

NewFdData(id, data) ==
  IF Len(data) \in FdLengths THEN Frame(id, FALSE, data) ELSE None

\* to_be_bytes(), and from_be_bytes() with the mask of the identifier's kind.
Bytes(raw) ==
  <<raw \div 2^24, (raw \div 2^16) % 256, (raw \div 2^8) % 256, raw % 256>>

\* Mutant: the top byte is dropped with the flags above it.
MaskedLow(extended, b) ==
  IF extended THEN Extended(b[2] * 2^16 + b[3] * 2^8 + b[4])
              ELSE Standard((b[3] % 8) * 2^8 + b[4])

MaskedId(extended, b) ==
  IF extended
  THEN Extended((b[1] % 32) * 2^24 + b[2] * 2^16 + b[3] * 2^8 + b[4])
  ELSE Standard((b[3] % 8) * 2^8 + b[4])

\* send_only_raw_can(): the flag of the identifier's kind is all it sets.
Sent(f) ==
  [extended |-> f.id.kind = "extended", payload |-> Bytes(f.id.raw) \o f.data]

\* from_pdu_result_event()
Rest(s, n) == SubSeq(s, n + 1, Len(s))

FromEvent(e) ==
  LET n  == IF e.remote THEN 1 ELSE 0
      id == MaskedId(e.extended, Rest(e.payload, n))
  IN IF Len(e.payload) < n + 4 THEN None
     ELSE IF ~e.remote THEN NewData(id, Rest(e.payload, 4))
     ELSE IF e.payload[1] <= 8 THEN NewRemote(id, e.payload[1])
                               ELSE Panic
=============================================================================
