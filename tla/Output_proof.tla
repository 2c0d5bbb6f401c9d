---------------------------- MODULE Output_proof -----------------------------
(***************************************************************************)
(* What the muxer puts into the answer. write_packet writes exactly the    *)
(* packets it reserved memory for, for every payload: the invariant says   *)
(* how many packets are still to come. And the chain of buffers, to which  *)
(* they are added, has its end mark: the invariant ties the pointer to the *)
(* chain, it is at the last link, or one behind it after the memory for a  *)
(* link was missing.                                                       *)
(***************************************************************************)
EXTENDS TsPacket, BucketChain, TLAPS

-------------------------------------------------------------------------------
(* The packets of a PES packet (TsPacket). *)

\* The packets that the payload left over takes once the first is written.
PacketsFor(size) == (size + Room - 1) \div Room

\* Before the first packet of a PES packet, and after it.
Starting ==
    pc = "writing" /\ is_start =>
        /\ written = 0 /\ payload_size > 0
        /\ discontinuity <=> packets = 0
        /\ reserved = PacketizedPackets(pcr, packets = 0, stamps, payload_size)

Going ==
    pc = "writing" /\ ~ is_start =>
        /\ written > 0 /\ packets > 0 /\ ~ discontinuity
        /\ reserved = written + PacketsFor(payload_size)

IInv == TypeOK /\ Starting /\ Going /\ PacketFilled

-------------------------------------------------------------------------------
\* One packet less for every Room bytes, and none for nothing.
LEMMA PacketsForStep ==
    /\ PacketsFor(0) = 0
    /\ \A n \in Nat \ {0} : PacketsFor(n) \in Nat \ {0}
    /\ \A n \in Nat \ {0} : PacketsFor(n) = 1 + PacketsFor(n - (IF Room <= n THEN Room ELSE n))
  BY DEF PacketsFor, Room, PacketSize, HeaderSize

LEMMA ReckoningIsPositive ==
    ASSUME NEW first \in BOOLEAN, NEW clock \in BOOLEAN, NEW s \in 0 .. 2, NEW n \in Nat \ {0}
    PROVE  PacketizedPackets(clock, first, s, n) \in Nat \ {0}
  BY DEF PacketizedPackets, Once, FieldSize, PesHeaderSize, Room, PacketSize, HeaderSize

\* What is written first leaves as many packets as were reckoned for the rest.
LEMMA FirstPacket ==
    ASSUME NEW first \in BOOLEAN, NEW clock \in BOOLEAN, NEW s \in 0 .. 2, NEW n \in Nat \ {0}
    PROVE  PacketizedPackets(clock, first, s, n)
             = 1 + PacketsFor(n - (IF Room - Once(clock, first, s) <= n
                                   THEN Room - Once(clock, first, s) ELSE n))
<1> DEFINE cap == Room - Once(clock, first, s)
<1>1. cap \in 1 .. Room
  BY DEF Once, FieldSize, PesHeaderSize, Room, PacketSize, HeaderSize
<1>2. CASE n <= cap
  <2>1. PacketizedPackets(clock, first, s, n) = 1
    BY <1>2 DEF PacketizedPackets
  <2>2. n - (IF cap <= n THEN cap ELSE n) = 0
    BY <1>1, <1>2
  <2> QED  BY <1>1, <2>1, <2>2, PacketsForStep
<1>3. CASE ~ (n <= cap)
  <2>1. PacketizedPackets(clock, first, s, n) = 1 + (n - cap + Room - 1) \div Room
    BY <1>3 DEF PacketizedPackets
  <2>2. n - (IF cap <= n THEN cap ELSE n) = n - cap
    BY <1>1, <1>3
  <2> QED  BY <1>1, <2>1, <2>2 DEF PacketsFor
<1> QED  BY <1>1, <1>2, <1>3

\* The sizes of the parts of the packet being written: the field and the PES
\* header leave room for data, and the stuffing is what the data leaves.
LEMMA Layout ==
    ASSUME IInv, payload_size > 0, pc = "writing"
    PROVE  /\ Field \in {0, 2, 8}
           /\ PesHeader \in {0, 9, 14, 19}
           /\ Data \in 1 .. Room /\ Data <= payload_size
           /\ Stuffing \in 0 .. Room
           /\ FieldWritten = Field + Stuffing
           /\ Flagged <=> discontinuity
           /\ Flagged => Field > 0
           /\ Field + PesHeader + Stuffing + Data = Room
<1>0. payload_size \in Nat /\ packets \in Nat /\ stamps \in 0 .. 2
      /\ pcr \in BOOLEAN /\ is_start \in BOOLEAN /\ discontinuity \in BOOLEAN
  BY DEF IInv, TypeOK
<1>1. Field \in {0, 2, 8} /\ (discontinuity => Field > 0)
  BY <1>0 DEF Field, FieldSize
<1>2. PesHeader \in {0, 9, 14, 19}
  BY <1>0 DEF PesHeader, PesHeaderSize
<1>3. Flagged <=> discontinuity
  BY <1>0 DEF IInv, Starting, Going, Flagged
<1>4. Data \in 1 .. Room /\ Data <= payload_size /\ Field + PesHeader + Data <= Room
  BY <1>0, <1>1, <1>2 DEF Data, Smaller, Room, PacketSize, HeaderSize
<1>5. Stuffing \in 0 .. Room /\ Field + PesHeader + Stuffing + Data = Room
  BY <1>1, <1>2, <1>4 DEF Stuffing, Room, PacketSize, HeaderSize
<1>6. FieldWritten = Field + Stuffing
  BY <1>1, <1>5 DEF FieldWritten, LengthByte, Room, PacketSize, HeaderSize
<1> QED  BY <1>1, <1>2, <1>3, <1>4, <1>5, <1>6

LEMMA InitHolds == Init => IInv
<1> SUFFICES ASSUME Init PROVE IInv
  OBVIOUS
<1>1. Room = 184
  BY DEF Room, PacketSize, HeaderSize
<1>2. packet \in [cc : 0 .. CounterRange - 1, field : 0 .. Room, flagged : BOOLEAN,
                  header : 0 .. Room, data : 0 .. Room]
  <2>1. 0 \in 0 .. CounterRange - 1 /\ 0 \in 0 .. Room /\ FALSE \in BOOLEAN
    BY <1>1, CounterAssumption
  <2> QED  BY <2>1 DEF Init, NoPacket
<1>3. TypeOK
  <2>1. pcr \in BOOLEAN /\ is_start \in BOOLEAN /\ discontinuity \in BOOLEAN
    BY DEF Init
  <2>2. packets \in Nat /\ cc \in 0 .. CounterRange - 1 /\ stamps \in 0 .. 2
    BY CounterAssumption DEF Init
  <2>3. payload_size \in Nat /\ reserved \in Nat /\ written \in Nat /\ pes \in 0 .. MaxPes
    BY CounterAssumption DEF Init
  <2>4. pc \in {"idle", "writing"}
    BY DEF Init
  <2> QED  BY <1>2, <2>1, <2>2, <2>3, <2>4 DEF TypeOK
<1>4. Starting /\ Going
  BY DEF Init, Starting, Going
<1>5. PacketFilled
  BY DEF Init, PacketFilled
<1> QED  BY <1>3, <1>4, <1>5 DEF IInv

LEMMA BeginHolds == IInv /\ Begin => IInv'
<1> SUFFICES ASSUME IInv, Begin PROVE IInv'
  OBVIOUS
<1>1. payload_size' \in Nat \ {0} /\ stamps' \in 0 .. 2 /\ pcr \in BOOLEAN
      /\ (packets = 0) \in BOOLEAN /\ pes' \in 0 .. MaxPes
  BY PayloadAssumption, CounterAssumption DEF IInv, TypeOK, Begin
<1>2. reserved' \in Nat
  <2>1. PICK first : first = (packets = 0) /\ first \in BOOLEAN
    BY <1>1
  <2>2. PICK s \in 0 .. 2 : s = stamps'
    BY <1>1
  <2>3. PICK n \in Nat \ {0} : n = payload_size'
    BY <1>1
  <2>4. PacketizedPackets(pcr, first, s, n) \in Nat
    BY <1>1, <2>1, ReckoningIsPositive
  <2> QED  BY <2>1, <2>2, <2>3, <2>4 DEF Begin
<1>3. TypeOK'
  BY <1>1, <1>2 DEF IInv, TypeOK, Begin
<1>4. Starting'
  <2>1. pcr' = pcr /\ packets' = packets /\ written' = 0 /\ payload_size' > 0
    BY <1>1 DEF Begin
  <2>2. discontinuity' <=> packets' = 0
    BY ZenonT(20), <2>1 DEF Begin
  <2>3. reserved' = PacketizedPackets(pcr', packets' = 0, stamps', payload_size')
    BY ZenonT(20), <2>1 DEF Begin
  <2> QED  BY <2>1, <2>2, <2>3 DEF Starting
<1>5. Going' /\ PacketFilled'
  BY DEF Begin, Going, PacketFilled
<1> QED  BY <1>3, <1>4, <1>5 DEF IInv

LEMMA WritePacketHolds == IInv /\ WritePacket => IInv'
<1> SUFFICES ASSUME IInv, WritePacket PROVE IInv'
  OBVIOUS
<1>0. /\ payload_size \in Nat \ {0} /\ packets \in Nat /\ written \in Nat /\ stamps \in 0 .. 2
      /\ pcr \in BOOLEAN /\ is_start \in BOOLEAN /\ discontinuity \in BOOLEAN
      /\ pc = "writing" /\ reserved \in Nat
  BY DEF IInv, TypeOK, WritePacket
<1>1. /\ Field \in {0, 2, 8} /\ PesHeader \in {0, 9, 14, 19}
      /\ Data \in 1 .. Room /\ Data <= payload_size /\ Stuffing \in 0 .. Room
      /\ FieldWritten = Field + Stuffing
      /\ Flagged <=> discontinuity
      /\ Flagged => Field > 0
      /\ Field + PesHeader + Stuffing + Data = Room
  BY <1>0, Layout
<1>2. packet' = [cc |-> cc, field |-> FieldWritten, flagged |-> Flagged,
                 header |-> PesHeader, data |-> Data]
  BY DEF WritePacket
<1>3. FieldWritten \in 0 .. Room /\ PesHeader \in 0 .. Room /\ Flagged \in BOOLEAN
  <2>1. Room = 184
    BY DEF Room, PacketSize, HeaderSize
  <2>2. FieldWritten \in 0 .. Room /\ PesHeader \in 0 .. Room
    BY <1>1, <2>1
  <2>3. Flagged \in BOOLEAN
    BY DEF Flagged
  <2> QED  BY <2>2, <2>3
<1>4. TypeOK'
  <2>1. cc' \in 0 .. CounterRange - 1
    BY CounterAssumption DEF IInv, TypeOK, WritePacket
  <2>2. packet' \in [cc : 0 .. CounterRange - 1, field : 0 .. Room, flagged : BOOLEAN,
                     header : 0 .. Room, data : 0 .. Room]
    BY <1>1, <1>2, <1>3 DEF IInv, TypeOK
  <2>3. payload_size' \in Nat /\ packets' \in Nat /\ written' \in Nat
    BY <1>0, <1>1 DEF WritePacket, Room, PacketSize, HeaderSize
  <2>4. pcr' \in BOOLEAN /\ is_start' \in BOOLEAN /\ discontinuity' \in BOOLEAN
    BY <1>0 DEF WritePacket
  <2>5. stamps' \in 0 .. 2 /\ reserved' \in Nat /\ pes' \in 0 .. MaxPes /\ pc' \in {"idle", "writing"}
    BY <1>0 DEF IInv, TypeOK, WritePacket
  <2> QED  BY <2>1, <2>2, <2>3, <2>4, <2>5 DEF TypeOK
<1>5. PacketFilled'
  <2>1. PacketSize = HeaderSize + Room
    BY DEF Room, PacketSize, HeaderSize
  <2>2. HeaderSize \in Nat /\ Room \in Nat
    BY DEF Room, PacketSize, HeaderSize
  <2>3. packet'.field = Field + Stuffing /\ packet'.header = PesHeader /\ packet'.data = Data
    BY <1>1, <1>2
  <2>4. HeaderSize + packet'.field + packet'.header + packet'.data = PacketSize
    BY <1>1, <2>1, <2>2, <2>3
  <2>5. packet'.flagged => packet'.field >= 2
    BY <1>1, <1>2, <2>2
  <2>6. packet'.data > 0
    BY <1>1, <2>2, <2>3
  <2> QED  BY <2>4, <2>5, <2>6 DEF PacketFilled
<1>6. Starting'
  BY DEF WritePacket, Starting
<1>7. reserved = written + 1 + PacketsFor(payload_size - Data)
  <2>1. CASE is_start
    <3>1. Data = IF Room - Once(pcr, packets = 0, stamps) <= payload_size
                 THEN Room - Once(pcr, packets = 0, stamps) ELSE payload_size
      <4>1. Field = FieldSize(pcr, packets = 0) /\ PesHeader = PesHeaderSize(stamps)
        BY <1>0, <2>1 DEF Field, FieldSize, PesHeader, IInv, Starting
      <4>2. Room - Field - PesHeader = Room - Once(pcr, packets = 0, stamps)
        BY <1>1, <4>1 DEF Once, Room, PacketSize, HeaderSize
      <4> QED  BY <4>2 DEF Data, Smaller
    <3>2. reserved = PacketizedPackets(pcr, packets = 0, stamps, payload_size) /\ written = 0
      BY <1>0, <2>1 DEF IInv, Starting
    <3>3. (packets = 0) \in BOOLEAN
      OBVIOUS
    <3>4. PacketizedPackets(pcr, packets = 0, stamps, payload_size) = 1 + PacketsFor(payload_size - Data)
      <4>1. PICK first \in BOOLEAN : first = (packets = 0)
        BY <3>3
      <4>2. PacketizedPackets(pcr, first, stamps, payload_size)
              = 1 + PacketsFor(payload_size - (IF Room - Once(pcr, first, stamps) <= payload_size
                                               THEN Room - Once(pcr, first, stamps) ELSE payload_size))
        <5>1. PICK b \in BOOLEAN : b = pcr
          BY <1>0
        <5>2. PICK s \in 0 .. 2 : s = stamps
          BY <1>0
        <5>3. PICK n \in Nat \ {0} : n = payload_size
          BY <1>0
        <5>4. PacketizedPackets(b, first, s, n)
                = 1 + PacketsFor(n - (IF Room - Once(b, first, s) <= n
                                      THEN Room - Once(b, first, s) ELSE n))
          BY ONLY FirstPacket
        <5> QED  BY <5>1, <5>2, <5>3, <5>4
      <4> QED  BY ONLY <3>1, <4>1, <4>2
    <3>5. PacketsFor(payload_size - Data) \in Int
      BY <1>0, <1>1 DEF PacketsFor, Room, PacketSize, HeaderSize
    <3> QED  BY <3>2, <3>4, <3>5
  <2>2. CASE ~ is_start
    <3>1. Field = 0 /\ PesHeader = 0
      BY <1>0, <2>2 DEF Field, FieldSize, PesHeader, IInv, Going
    <3>2. Data = IF Room <= payload_size THEN Room ELSE payload_size
      BY <3>1 DEF Data, Smaller, Room, PacketSize, HeaderSize
    <3>3. reserved = written + PacketsFor(payload_size)
      BY <1>0, <2>2 DEF IInv, Going
    <3>4. PacketsFor(payload_size) = 1 + PacketsFor(payload_size - Data)
      BY <1>0, <3>2, PacketsForStep
    <3>5. PacketsFor(payload_size - Data) \in Int
      BY <1>0, <1>1 DEF PacketsFor, Room, PacketSize, HeaderSize
    <3> QED  BY <1>0, <3>3, <3>4, <3>5
  <2> QED  BY <1>0, <2>1, <2>2
<1>8. Going'
  BY <1>0, <1>7 DEF WritePacket, Going, PacketsFor
<1> QED  BY <1>4, <1>5, <1>6, <1>8 DEF IInv

LEMMA RestHolds == IInv /\ (Return \/ UNCHANGED vars) => IInv'
  BY DEF Return, vars, IInv, TypeOK, Starting, Going, PacketFilled, PacketsFor

\* The counters stay in their ranges: a continuity counter of four bits, and
\* field lengths that fit their byte, for every payload and number of packets.
THEOREM TypeCorrect == Spec => []TypeOK
<1>1. IInv => TypeOK
  BY DEF IInv
<1> QED  BY <1>1, InitHolds, BeginHolds, WritePacketHolds, RestHolds, PTL DEF Spec, Next

\* write_packet writes as many packets as packetized_packets reckons and memory
\* was reserved for, whatever the payload, the time stamps and the stream.
THEOREM MemoryExact == Spec => []ReservedExactly
<1>1. IInv => ReservedExactly
  <2> SUFFICES ASSUME IInv, pc = "writing" PROVE written <= reserved /\ (payload_size = 0 <=> written = reserved)
    BY DEF ReservedExactly
  <2>0. payload_size \in Nat /\ packets \in Nat /\ written \in Nat /\ stamps \in 0 .. 2
        /\ pcr \in BOOLEAN /\ is_start \in BOOLEAN
    BY DEF IInv, TypeOK
  <2>1. CASE is_start
    <3>1. written = 0 /\ payload_size > 0
          /\ reserved = PacketizedPackets(pcr, packets = 0, stamps, payload_size)
      BY <2>1 DEF IInv, Starting
    <3>2. PacketizedPackets(pcr, packets = 0, stamps, payload_size) \in Nat \ {0}
      BY <2>0, <3>1 DEF PacketizedPackets, Once, FieldSize, PesHeaderSize, Room, PacketSize, HeaderSize
    <3> QED  BY <3>1, <3>2
  <2>2. CASE ~ is_start
    <3>1. reserved = written + PacketsFor(payload_size)
      BY <2>2 DEF IInv, Going
    <3> QED  BY <2>0, <3>1, PacketsForStep
  <2> QED  BY <2>0, <2>1, <2>2
<1> QED  BY <1>1, InitHolds, BeginHolds, WritePacketHolds, RestHolds, PTL DEF Spec, Next

\* Every transport stream packet is 188 bytes, and the marks of a stream's first
\* packet are in an adaptation field.
THEOREM PacketsFilled == Spec => []PacketFilled
<1>1. IInv => PacketFilled
  BY DEF IInv
<1> QED  BY <1>1, InitHolds, BeginHolds, WritePacketHolds, RestHolds, PTL DEF Spec, Next

-------------------------------------------------------------------------------
(* The chain of buffers (BucketChain). *)

AtLast ==
    /\ ~ linkFailed => tail = IF chain = <<>> THEN 1 ELSE Len(chain)
    /\ chain # <<>> => tail >= Len(chain)

ChainInv == ChainTypeOK /\ AtLast /\ EndMarked /\ PointerValid

-------------------------------------------------------------------------------
LEMMA UnmarkedIs ==
    ASSUME ChainTypeOK
    PROVE  /\ Unmarked \in Seq(Link) /\ Len(Unmarked) = Len(chain)
           /\ \A k \in 1 .. Len(chain) : k # tail => Unmarked[k] = chain[k]
           /\ tail \in 1 .. Len(chain) => Unmarked[tail].last_buf = FALSE
<1>1. CASE chain = <<>>
  BY <1>1 DEF ChainTypeOK, Unmarked
<1>2. CASE chain # <<>>
  <2>1. Unmarked = [chain EXCEPT ![tail].last_buf = FALSE]
    BY <1>2 DEF Unmarked
  <2>2. DOMAIN chain = 1 .. Len(chain) /\ Len(chain) \in Nat
    BY DEF ChainTypeOK
  <2>3. \A k \in 1 .. Len(chain) : chain[k] \in Link
    BY DEF ChainTypeOK
  <2>4. \A k \in 1 .. Len(chain) : Unmarked[k] \in Link
    <3> SUFFICES ASSUME NEW k \in 1 .. Len(chain) PROVE Unmarked[k] \in Link
      OBVIOUS
    <3>1. \A r \in Link : [r EXCEPT !.last_buf = FALSE] \in Link
      BY DEF Link
    <3>2. Unmarked[k] = IF k = tail THEN [chain[k] EXCEPT !.last_buf = FALSE] ELSE chain[k]
      BY <2>1, <2>2
    <3> QED  BY <2>3, <3>1, <3>2
  <2>5. Unmarked \in Seq(Link) /\ Len(Unmarked) = Len(chain)
    <3>1. DOMAIN Unmarked = 1 .. Len(chain) /\ Unmarked = [k \in 1 .. Len(chain) |-> Unmarked[k]]
      BY <2>1, <2>2
    <3> QED  BY <2>2, <2>4, <3>1
  <2>6. tail \in 1 .. Len(chain) => Unmarked[tail].last_buf = FALSE
    BY <2>1, <2>2, <2>3 DEF Link
  <2> QED  BY <2>1, <2>2, <2>5, <2>6
<1> QED  BY <1>1, <1>2

\* With no link missing, no link of the chain that is added to has the mark.
LEMMA NoMarkLeft ==
    ASSUME ChainTypeOK, AtLast, EndMarked, ~ linkFailed
    PROVE  \A k \in 1 .. Len(chain) : ~ Unmarked[k].last_buf
<1>1. chain # <<>> => tail = Len(chain)
  BY DEF AtLast
<1>2. Len(chain) \in Nat /\ chain \in Seq(Link)
  BY DEF ChainTypeOK
<1>3. \A k \in 1 .. Len(chain) : chain # <<>>
  BY <1>2
<1>4. \A k \in 1 .. Len(chain) : chain[k].last_buf <=> k = Len(chain)
  BY DEF EndMarked
<1> QED  BY <1>1, <1>2, <1>3, <1>4, UnmarkedIs

LEMMA ChainInitHolds == ChainInit => ChainInv
<1> SUFFICES ASSUME ChainInit PROVE ChainInv
  OBVIOUS
<1>1. chain \in Seq(Link) /\ Len(chain) = 0
  BY DEF ChainInit
<1>2. ChainTypeOK
  <2>1. tail \in 1 .. Len(chain) + 1 /\ content_length \in Nat /\ inserts \in Nat
    BY <1>1 DEF ChainInit
  <2>2. linkFailed \in BOOLEAN /\ state \in {"ready", "sent", "crashed"}
    BY DEF ChainInit
  <2> QED  BY <1>1, <2>1, <2>2 DEF ChainTypeOK
<1>3. AtLast
  BY <1>1 DEF ChainInit, AtLast
<1>4. EndMarked /\ PointerValid
  BY <1>1 DEF ChainInit, EndMarked, PointerValid
<1> QED  BY <1>2, <1>3, <1>4 DEF ChainInv

LEMMA NoLinkHolds == ASSUME NEW size \in Sizes, ChainInv, InsertNoLink(size) PROVE ChainInv'
<1>0. ChainTypeOK
  BY DEF ChainInv
<1>1. Unmarked \in Seq(Link) /\ Len(Unmarked) = Len(chain) /\ Len(chain) \in Nat
  <2>1. Len(chain) \in Nat
    BY <1>0 DEF ChainTypeOK
  <2> QED  BY <1>0, <2>1, UnmarkedIs
<1>2. chain' = Unmarked /\ tail' = Advanced /\ linkFailed' = TRUE
  BY DEF InsertNoLink
<1>3. tail' \in 1 .. Len(chain') + 1
  BY <1>1, <1>2 DEF ChainInv, ChainTypeOK, Advanced, InsertNoLink, FollowsNull
<1>4. ChainTypeOK'
  BY <1>1, <1>2, <1>3 DEF ChainInv, ChainTypeOK, InsertNoLink, Called
<1>5. AtLast'
  BY <1>1, <1>2 DEF ChainInv, ChainTypeOK, AtLast, Advanced
<1>6. EndMarked' /\ PointerValid'
  BY <1>2 DEF EndMarked, PointerValid
<1> QED  BY <1>4, <1>5, <1>6 DEF ChainInv

LEMMA InsertHolds == ASSUME NEW size \in Sizes, ChainInv, Insert(size) PROVE ChainInv'
<1> DEFINE new == [size |-> size, last_buf |-> TRUE]
<1>0. ChainTypeOK
  BY DEF ChainInv
<1>1. Unmarked \in Seq(Link) /\ Len(Unmarked) = Len(chain) /\ Len(chain) \in Nat
  <2>1. Len(chain) \in Nat
    BY <1>0 DEF ChainTypeOK
  <2> QED  BY <1>0, <2>1, UnmarkedIs
<1>2. chain' = Append(Unmarked, new) /\ tail' = Advanced /\ linkFailed' = linkFailed /\ state' = state
  BY DEF Insert
<1>3. new \in Link
  BY SizesAssumption DEF Link
<1>4. chain' \in Seq(Link) /\ Len(chain') = Len(chain) + 1 /\ chain' # <<>>
  BY <1>1, <1>2, <1>3
<1>5. \A k \in 1 .. Len(chain) : chain'[k] = Unmarked[k]
  BY <1>1, <1>2
<1>6. chain'[Len(chain')].last_buf = TRUE
  BY <1>1, <1>2, <1>4
<1>7. tail' = IF chain = <<>> THEN tail ELSE tail + 1
  BY <1>2 DEF Advanced
<1>8. chain = <<>> => Len(chain) = 0
  OBVIOUS
<1>9. tail' \in 1 .. Len(chain') + 1
  BY <1>1, <1>4, <1>7, <1>8 DEF ChainInv, ChainTypeOK, Insert, FollowsNull
<1>10. ChainTypeOK'
  <2>1. content_length' \in Nat /\ inserts' \in Nat
    BY SizesAssumption DEF ChainInv, ChainTypeOK, Insert, Called
  <2> QED  BY <1>2, <1>4, <1>9, <2>1 DEF ChainInv, ChainTypeOK
<1>11. AtLast'
  <2>1. tail' >= Len(chain')
    BY <1>1, <1>4, <1>7, <1>8 DEF ChainInv, ChainTypeOK, AtLast
  <2>2. ~ linkFailed => tail' = Len(chain')
    BY <1>1, <1>4, <1>7, <1>8 DEF ChainInv, ChainTypeOK, AtLast
  <2> QED  BY <1>2, <1>4, <2>1, <2>2 DEF AtLast
<1>12. EndMarked'
  <2> SUFFICES ASSUME ~ linkFailed, NEW k \in 1 .. Len(chain')
               PROVE  chain'[k].last_buf <=> k = Len(chain')
    BY <1>2 DEF EndMarked
  <2>1. CASE k = Len(chain')
    BY <1>6, <2>1
  <2>2. CASE k # Len(chain')
    <3>1. k \in 1 .. Len(chain)
      BY <1>1, <1>4, <2>2
    <3> QED  BY <1>5, <2>2, <3>1, NoMarkLeft DEF ChainInv
  <2> QED  BY <2>1, <2>2
<1>13. PointerValid'
  BY <1>2 DEF ChainInv, PointerValid
<1> QED  BY <1>10, <1>11, <1>12, <1>13 DEF ChainInv

LEMMA OthersHold == ChainInv /\ (InsertNoBuffer \/ InsertCrashes \/ Send \/ UNCHANGED chainVars) => ChainInv'
<1> SUFFICES ASSUME ChainInv, InsertNoBuffer \/ InsertCrashes \/ Send \/ UNCHANGED chainVars PROVE ChainInv'
  OBVIOUS
<1>1. chain' = chain /\ tail' = tail /\ linkFailed' = linkFailed /\ content_length' = content_length
  BY DEF InsertNoBuffer, InsertCrashes, Send, chainVars
<1>2. ChainTypeOK'
  BY <1>1 DEF ChainInv, ChainTypeOK, InsertNoBuffer, InsertCrashes, Send, chainVars, Called
<1>3. AtLast' /\ EndMarked'
  BY <1>1 DEF ChainInv, AtLast, EndMarked
<1>4. PointerValid'
  <2>1. CASE InsertCrashes
    <3>1. chain # <<>> /\ tail > Len(chain) /\ Len(chain) \in Nat
      BY <2>1 DEF InsertCrashes, FollowsNull, ChainInv, ChainTypeOK
    <3>2. linkFailed
      BY <3>1 DEF ChainInv, AtLast, ChainTypeOK
    <3> QED  BY <1>1, <3>2 DEF PointerValid
  <2>2. CASE InsertNoBuffer \/ Send \/ UNCHANGED chainVars
    BY <1>1, <2>2 DEF ChainInv, PointerValid, InsertNoBuffer, Send, chainVars
  <2> QED  BY <2>1, <2>2
<1> QED  BY <1>2, <1>3, <1>4 DEF ChainInv

LEMMA ChainNextHolds == ChainInv /\ [ChainNext]_chainVars => ChainInv'
  BY NoLinkHolds, InsertHolds, OthersHold DEF ChainNext

\* The pointer at the last link is never more than one behind the chain.
THEOREM ChainTypeCorrect == ChainSpec => []ChainTypeOK
<1>1. ChainInv => ChainTypeOK
  BY DEF ChainInv
<1> QED  BY <1>1, ChainInitHolds, ChainNextHolds, PTL DEF ChainSpec

\* As long as memory for links is there, the chain has its end mark on the last
\* buffer and on no other, for every number and size of inserts and whatever
\* buffers found no memory.
THEOREM EndMark == ChainSpec => []EndMarked
<1>1. ChainInv => EndMarked
  BY DEF ChainInv
<1> QED  BY <1>1, ChainInitHolds, ChainNextHolds, PTL DEF ChainSpec

\* And a missing link is the only way to follow a NULL pointer.
THEOREM NoNullFollowed == ChainSpec => []PointerValid
<1>1. ChainInv => PointerValid
  BY DEF ChainInv
<1> QED  BY <1>1, ChainInitHolds, ChainNextHolds, PTL DEF ChainSpec

===============================================================================
