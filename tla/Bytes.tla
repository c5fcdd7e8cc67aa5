------------------------------- MODULE Bytes -------------------------------
(***************************************************************************)
(* The byte strings of lib/util and the variable length integers of        *)
(* lib/mining.  A byte string is a sequence of bytes, a string of          *)
(* hexadecimal digits a sequence of digits in which -1 stands for any      *)
(* character that is none.                                                *)
(***************************************************************************)
EXTENDS Integers, Sequences

CONSTANT Throws     \* what an operation that throws returns, and no other does

ASSUME ThrowsAssumption ==
  /\ Throws \notin Nat
  /\ Throws \notin [value : Seq(Nat), rest : Seq(Nat)]

(* A number as it lies in memory: w bytes, the lowest first. *)
LittleEndian(n, w) ==
  LET shifted[i \in 0..w] == IF i = 0 THEN n ELSE shifted[i - 1] \div 256
  IN  [i \in 1..w |-> shifted[i - 1] % 256]

Reversed(b) == [i \in 1..Len(b) |-> b[Len(b) + 1 - i]]

Concatenated(parts) ==
  LET joined[i \in 0..Len(parts)] ==
        IF i = 0 THEN <<>> ELSE joined[i - 1] \o parts[i]
  IN  joined[Len(parts)]

(* The number whose bytes are in b, the lowest first. *)
FromBytes(b) ==
  LET upper[i \in 0..Len(b)] ==           \* of the last i bytes
        IF i = 0 THEN 0 ELSE b[Len(b) + 1 - i] + 256 * upper[i - 1]
  IN  upper[Len(b)]

ParseUIntLE(b, w) == IF Len(b) > w THEN Throws ELSE FromBytes(b)

ParseUIntBE(b, w) == ParseUIntLE(Reversed(b), w)

(***************************************************************************)
(* Hexadecimal digits.  Of an odd number of digits the first one is a byte *)
(* of its own; a character that is no digit counts as zero.                *)
(***************************************************************************)
HexValue(d) == IF d \in 0..15 THEN d ELSE 0

(* (Variant: the digits are paired from the front, whatever their number.) *)
FromHexPadded(h) ==
  [i \in 1..((Len(h) + 1) \div 2) |->
     16 * HexValue(h[2 * i - 1])
       + IF 2 * i <= Len(h) THEN HexValue(h[2 * i]) ELSE 0]

FromHex(h) ==
  LET odd == Len(h) % 2
  IN  [i \in 1..((Len(h) + odd) \div 2) |->
         IF odd = 1 /\ i = 1 THEN HexValue(h[1])
         ELSE 16 * HexValue(h[2 * i - 1 - odd]) + HexValue(h[2 * i - odd])]

AsHex(b) ==
  [i \in 1..(2 * Len(b)) |-> IF i % 2 = 1 THEN b[(i + 1) \div 2] \div 16
                                           ELSE b[i \div 2] % 16]

(***************************************************************************)
(* ByteStringReader: what is read and what remains, or Throws.             *)
(***************************************************************************)
Read(buffer, n) ==
  IF Len(buffer) < n THEN Throws
  ELSE [value |-> SubSeq(buffer, 1, n),
        rest  |-> SubSeq(buffer, n + 1, Len(buffer))]

(* A string is preceded by its length, a number of four bytes. *)
ReadString(buffer) ==
  LET size == Read(buffer, 4)
  IN  IF size = Throws THEN Throws
      ELSE Read(size.rest, ParseUIntLE(size.value, 4))

WithLength(b) == LittleEndian(Len(b), 4) \o b

(***************************************************************************)
(* VarInt and VarData.                                                     *)
(***************************************************************************)
VarInt(n) ==
  CASE n < 253 -> <<n>>
    [] n >= 253 /\ n < 65536 -> <<253>> \o LittleEndian(n, 2)
    [] n >= 65536 /\ n \div 65536 < 65536 -> <<254>> \o LittleEndian(n, 4)
    [] OTHER -> <<255>> \o LittleEndian(n, 8)

VarData(b) == VarInt(Len(b)) \o b

(* What another node makes of a VarInt at the front of a byte string. *)
ReadVarInt(b) ==
  LET width == CASE b[1] = 253 -> 2 [] b[1] = 254 -> 4 [] b[1] = 255 -> 8
                 [] OTHER -> 0
  IN  IF width = 0 THEN [value |-> b[1], rest |-> Tail(b)]
      ELSE [value |-> ParseUIntLE(SubSeq(b, 2, width + 1), width),
            rest  |-> SubSeq(b, width + 2, Len(b))]
=============================================================================
