------------------------------ MODULE MCTsPacket ------------------------------
(***************************************************************************)
(* TsPacket with the payload sizes up to MaxPayload, which is three        *)
(* packets and more, at which a packet more is needed or the stuffing is   *)
(* down to a byte or two: the first packet holds 162 to 175 bytes.         *)
(***************************************************************************)
EXTENDS TsPacket

CONSTANT MaxPayload

MCPayloadSizes == {1, 2} \cup {n \in 1 .. MaxPayload : n % Room \in 158 .. 178}

===============================================================================
