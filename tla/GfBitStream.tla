----------------------------- MODULE GfBitStream -----------------------------
(* The bit streams of common/src/core/bitstream.cpp: GF_BitStream in its five  *)
(* modes. Bits are written into and read from one byte at a time ("current"    *)
(* and "nbBits"), seeks go to whole bytes, a dynamic stream grows. A number is *)
(* its bits, the most significant first.                                       *)
(*                                                                             *)
(* "tape" is what the calls should leave behind, bit by bit, and "place" where *)
(* the next bit is read or written; "readings" pairs what the last call read   *)
(* with what is on the tape there. "astray" is set by the calls whose outcome  *)
(* nobody can rely on, until the next seek: a rewind to the very first bit or  *)
(* from beyond the end, and a peek at the byte after the last one.             *)
EXTENDS Integers, Sequences

CONSTANTS
  Numbers,       \* the numbers that are written and the lengths that are read
  Contents,      \* the contents of the streams that are opened to be read
  RoomSize,      \* the bytes of a stream that is written into a given buffer
  PositionLimit, \* stands for 2^64, at which positions wrap
  MaxBitCalls    \* bound on the calls

Bits == {0, 1}

(* Contents are whole bytes.                                                   *)
ASSUME BitAssumption ==
  /\ Numbers \subseteq Seq(Bits)
  /\ \A bits \in Contents : bits \in Seq(Bits) /\ Len(bits) % 8 = 0
  /\ RoomSize \in Nat /\ PositionLimit \in Nat \ {0}

VARIABLES bs, tape, place, astray, readings, bitCalls

bitVars == <<bs, tape, place, astray, readings, bitCalls>>

Zeros(n) == [i \in 1..n |-> 0]
Ones(n) == [i \in 1..n |-> 1]
BytesOf(n) == 8 * n

NewBs(mode, bits, nbBits) ==
  [mode |-> mode, bits |-> bits, size |-> Len(bits) \div 8, position |-> 0, current |-> <<>>,
   nbBits |-> nbBits, eof |-> FALSE]

Reads(b) == b.mode \in {"read", "file_read"}
InAFile(b) == b.mode \in {"file_read", "file_write"}

Longest(m, n) == IF m > n THEN m ELSE n

(* What should have been read from a place on: the tape; beyond its end zeros  *)
(* in memory, and in a file, whose end fgetc turns into ones, whatever is read. *)
OnTape(b, from, value) ==
  [i \in 1..Len(value) |-> IF from + i <= Len(tape) THEN tape[from + i]
                           ELSE IF b.mode = "read" THEN 0 ELSE value[i]]

Overwritten(bits, from, new) ==
  [i \in 1..(IF new = <<>> THEN Len(bits) ELSE Longest(from + Len(new), Len(bits))) |->
     IF i \in from + 1..from + Len(new) THEN new[i - from]
     ELSE IF i <= Len(bits) THEN bits[i] ELSE 0]

-----------------------------------------------------------------------------
(* Reading.                                                                    *)
ByteAt(b, position) == SubSeq(b.bits, BytesOf(position) + 1, BytesOf(position + 1))

BS_ReadByte(b) ==
  IF BytesOf(b.position) < Len(b.bits) /\ ~b.eof
  THEN [b EXCEPT !.current = ByteAt(b, b.position), !.position = @ + 1, !.nbBits = 0]
  ELSE IF InAFile(b) /\ ~b.eof
       THEN [b EXCEPT !.current = Ones(8), !.position = @ + 1, !.nbBits = 0, !.eof = TRUE]
       ELSE [b EXCEPT !.current = Zeros(8), !.nbBits = 0]

(* gf_bs_read_bit, with the bit that was read behind those read before.        *)
gf_bs_read_bit(r) ==
  LET b == IF r.bs.nbBits = 8 THEN BS_ReadByte(r.bs) ELSE r.bs
  IN [bs |-> [b EXCEPT !.nbBits = @ + 1], value |-> Append(r.value, b.current[b.nbBits + 1])]

gf_bs_read_int(b, nBits) ==
  LET after[n \in 0..nBits] ==
        IF n = 0 THEN [bs |-> b, value |-> <<>>] ELSE gf_bs_read_bit(after[n - 1])
  IN after[nBits]

-----------------------------------------------------------------------------
(* Writing. A full buffer takes no more bytes, a dynamic one grows. The size   *)
(* of a file counts on only when what is written begins at its end.            *)
BytesWritten(b, bits) ==
  LET n == Len(bits) \div 8
  IN [b EXCEPT !.bits = Overwritten(@, BytesOf(b.position), bits),
               !.position = @ + n,
               !.size = IF InAFile(b) THEN @ + IF @ = b.position THEN n ELSE 0
                        ELSE Longest(@, b.position + n)]

Holds(b, n) == b.mode # "write" \/ b.position + n <= b.size

BS_WriteByte(b) ==
  [(IF ~Reads(b) /\ Holds(b, 1) THEN BytesWritten(b, b.current) ELSE b) EXCEPT
     !.current = <<>>, !.nbBits = 0]

BS_WriteBit(b, bit) ==
  LET shifted == [b EXCEPT !.current = Append(@, bit), !.nbBits = @ + 1]
  IN IF shifted.nbBits = 8 THEN BS_WriteByte(shifted) ELSE shifted

gf_bs_write_int(b, bits) ==
  LET after[n \in 0..Len(bits)] ==
        IF n = 0 THEN b ELSE BS_WriteBit(after[n - 1], bits[n])
  IN after[Len(bits)]

(* Bytes go into an aligned buffer together, or not at all.                    *)
gf_bs_write_data(b, bits) ==
  CASE b.nbBits > 0 -> gf_bs_write_int(b, bits)
    [] b.nbBits = 0 /\ Holds(b, Len(bits) \div 8) -> BytesWritten(b, bits)
    [] OTHER -> b

-----------------------------------------------------------------------------
gf_bs_align(b) ==
  CASE Reads(b) -> gf_bs_read_int(b, 8 - b.nbBits).bs
    [] ~Reads(b) /\ b.nbBits > 0 -> gf_bs_write_int(b, Zeros(8 - b.nbBits))
    [] OTHER -> b

BS_SeekIntern(b, offset) ==
  LET there == [b EXCEPT !.position = offset, !.nbBits = IF Reads(b) THEN 8 ELSE 0,
                         !.current = <<>>, !.eof = FALSE]
  IN CASE InAFile(b) \/ offset < b.size -> there
       [] ~InAFile(b) /\ offset >= b.size /\ b.mode = "dynamic" ->
            [there EXCEPT !.bits = @ \o Zeros(BytesOf(offset + 1) - Len(@)),
                          !.size = offset + 1]
       [] OTHER -> b

(* Mutant: the bits of a byte that is not full yet are not written first.      *)
gf_bs_seek_unaligned(b, offset) ==
  IF offset > b.size THEN b ELSE BS_SeekIntern(b, offset)

gf_bs_seek(b, offset) ==
  IF offset > b.size THEN b ELSE BS_SeekIntern(gf_bs_align(b), offset)

(* The stream after the peek, and what was seen.                               *)
gf_bs_peek_bits(b, numBits, byte_offset) ==
  IF b.size < b.position + byte_offset THEN [bs |-> b, value |-> <<>>]
  ELSE LET there == IF byte_offset > 0 THEN gf_bs_seek(b, b.position + byte_offset) ELSE b
           r == gf_bs_read_int(there, numBits)
           back == gf_bs_seek(r.bs, b.position)
       IN [bs |-> [back EXCEPT !.nbBits = b.nbBits, !.current = b.current], value |-> r.value]

gf_bs_skip_bytes(b, n) ==
  IF Reads(b) \/ InAFile(b)
  THEN [gf_bs_align(b) EXCEPT !.position = (@ + n) % PositionLimit, !.eof = FALSE]
  ELSE gf_bs_write_int(gf_bs_align(b), Zeros(BytesOf(n)))

(* The bits that are wanted back, less those of the byte that is being read:   *)
(* whole bytes, and then forward again.                                        *)
gf_bs_rewind_bits(b, n) ==
  LET nbBits == n - b.nbBits
      nbBytes == (nbBits + 8) \div 8
      back == [gf_bs_align(b) EXCEPT !.position = (@ - (nbBytes + 1)) % PositionLimit]
  IN gf_bs_read_int(back, BytesOf(nbBytes) - nbBits).bs

(* A run of ones says how many words of four bits follow the zero.             *)
gf_bs_read_vluimsbf5(b) ==
  LET ones == CHOOSE k \in 0..Len(b.bits) + 8 : gf_bs_read_int(b, k + 1).value = Append(Ones(k), 0)
  IN gf_bs_read_int(gf_bs_read_int(b, ones + 1).bs, 4 * (ones + 1))

-----------------------------------------------------------------------------
Nothing == <<<<>>, <<>>>>

(* gf_bs_new and gf_bs_from_file.                                              *)
BitInit ==
  /\ place = 0 /\ astray = FALSE /\ readings = Nothing /\ bitCalls = 0
  /\ \/ \E mode \in {"read", "file_read"}, bits \in Contents : bs = NewBs(mode, bits, 8)
     \/ \E bits \in Contents : bs = NewBs("file_write", bits, 0)
     \/ bs = NewBs("dynamic", <<>>, 0)
     \/ bs = NewBs("write", Zeros(BytesOf(RoomSize)), 0)
  /\ tape = bs.bits

BitStep == bitCalls < MaxBitCalls /\ bitCalls' = bitCalls + 1

Up(n) == BytesOf((n + 7) \div 8)

(* What is written beyond the end of a buffer is lost, byte by byte.           *)
Kept(p) == IF bs.mode = "write" /\ p >= BytesOf(RoomSize) THEN BytesOf(RoomSize) + (p % 8) ELSE p
Taped(bits) ==
  LET new == Overwritten(tape, place, bits)
  IN IF bs.mode = "write" THEN SubSeq(new, 1, BytesOf(RoomSize)) ELSE new

Puts(b, bits) ==
  /\ bs' = b /\ tape' = Taped(bits) /\ place' = Kept(place + Len(bits))
  /\ UNCHANGED <<astray, readings>>

(* Numbers of any length; and bytes, which an aligned buffer that has no room  *)
(* for all of them refuses.                                                    *)
WriteNumber ==
  /\ BitStep /\ ~Reads(bs)
  /\ \E bits \in Numbers : Puts(gf_bs_write_int(bs, bits), bits)

WriteBytes ==
  /\ BitStep /\ ~Reads(bs)
  /\ \E bits \in {n \in Numbers : Len(n) % 8 = 0} :
       LET b == gf_bs_write_data(bs, bits)
       IN Puts(b, IF bs.nbBits = 0 /\ ~Holds(bs, Len(bits) \div 8) THEN <<>> ELSE bits)

Reading(r, from) ==
  /\ bs' = r.bs
  /\ readings' = IF astray THEN Nothing ELSE <<r.value, OnTape(bs, from, r.value)>>
  /\ UNCHANGED tape

ReadNumber ==
  /\ BitStep /\ Reads(bs)
  /\ \E bits \in Numbers :
       /\ Reading(gf_bs_read_int(bs, Len(bits)), place)
       /\ place' = place + Len(bits) /\ UNCHANGED astray

(* gf_bs_read_data, which reads nothing when there are not as many bytes.      *)
ReadBytes ==
  /\ BitStep /\ Reads(bs)
  /\ \E n \in 1..2 :
       LET there == bs.position + n <= bs.size
       IN /\ Reading(IF there THEN gf_bs_read_int(bs, BytesOf(n)) ELSE [bs |-> bs, value |-> <<>>],
                     place)
          /\ place' = IF there THEN place + BytesOf(n) ELSE place
          /\ UNCHANGED astray

ReadWords ==
  /\ BitStep /\ Reads(bs) /\ ~astray
  /\ LET r == gf_bs_read_vluimsbf5(bs)
         words == Len(r.value) \div 4
     IN /\ Reading(r, place + words)
        /\ place' = place + 5 * words /\ UNCHANGED astray

Peek ==
  /\ BitStep /\ Reads(bs)
  /\ \E n \in {Len(bits) : bits \in Numbers}, byte_offset \in 0..1 :
       LET r == gf_bs_peek_bits(bs, n, byte_offset)
           unserved == bs.mode = "read" /\ byte_offset > 0 /\ bs.position + byte_offset = bs.size
           from == IF byte_offset = 0 THEN place ELSE BytesOf(bs.position + byte_offset)
       IN /\ bs' = r.bs
          /\ readings' = IF astray \/ unserved THEN Nothing
                         ELSE <<r.value, OnTape(bs, from, r.value)>>
          /\ UNCHANGED <<tape, place, astray>>

(* A place beyond the end is refused, the end itself by a reader or a buffer   *)
(* that is full, which are aligned all the same; a dynamic stream gets another *)
(* byte.                                                                       *)
SeekByte ==
  /\ BitStep
  /\ \E offset \in 0..Len(tape) \div 8 :
       LET refused == offset > bs.size
           atEnd == offset = bs.size /\ bs.mode \in {"read", "write"}
           aligned == IF Reads(bs) THEN tape ELSE Taped(Zeros(Up(place) - place))
       IN /\ bs' = gf_bs_seek(bs, offset)
          /\ tape' = CASE refused -> tape
                       [] ~refused /\ bs.mode = "dynamic" ->
                            aligned \o Zeros(Longest(0, BytesOf(offset + 1) - Len(aligned)))
                       [] OTHER -> aligned
          /\ place' = CASE refused -> place
                        [] ~refused /\ atEnd -> Kept(Up(place))
                        [] OTHER -> BytesOf(offset)
          /\ astray' = (astray /\ (refused \/ atEnd))
          /\ UNCHANGED readings

AlignOrSkip ==
  /\ BitStep
  /\ \E n \in 0..2 :
       LET pad == Up(place) - place
           over == IF InAFile(bs) THEN 0 ELSE BytesOf(n)
       IN /\ bs' = IF n = 0 THEN gf_bs_align(bs) ELSE gf_bs_skip_bytes(bs, n)
          /\ tape' = IF Reads(bs) THEN tape ELSE Taped(Zeros(pad + over))
          /\ place' = Kept(Up(place) + BytesOf(n))
          /\ UNCHANGED <<astray, readings>>

Rewind ==
  /\ BitStep /\ bs.mode = "read"
  /\ \E n \in 1..12 :
       /\ n <= place /\ bs.position * 8 >= n
       /\ bs' = gf_bs_rewind_bits(bs, n)
       /\ place' = place - n
       /\ astray' = (astray \/ n = place \/ place > Len(tape))
       /\ UNCHANGED <<tape, readings>>

(* gf_bs_get_content: what was written up to the place, and a reader of it.    *)
TakeContent ==
  /\ BitStep /\ bs.mode = "dynamic"
  /\ bs.position > 0 \/ bs.nbBits > 0
  /\ LET b == gf_bs_align(bs)
     IN bs' = NewBs("read", SubSeq(b.bits, 1, BytesOf(b.position)), 8)
  /\ tape' = SubSeq(Taped(Zeros(Up(place) - place)), 1, Up(place))
  /\ place' = 0 /\ UNCHANGED <<astray, readings>>

BitNext ==
  \/ WriteNumber \/ WriteBytes \/ ReadNumber \/ ReadBytes \/ ReadWords \/ Peek
  \/ SeekByte \/ AlignOrSkip \/ Rewind \/ TakeContent

BitSpec == BitInit /\ [][BitNext]_bitVars

-----------------------------------------------------------------------------
(* Every bit is where the calls put it and is read from there, however writes  *)
(* of odd lengths, seeks, alignments, skips, peeks and rewinds follow on each  *)
(* other: a writer's bytes are the tape's, but for the byte it is filling (and *)
(* what a skip left out before it, which a file gets with it), and a reader    *)
(* reads the tape.                                                             *)
TapeIsKept ==
  /\ readings[1] = readings[2]
  /\ ~Reads(bs) =>
       /\ place = BytesOf(bs.position) + bs.nbBits
       /\ \A i \in 1..Len(tape) :
            IF i \in place - bs.nbBits + 1..place THEN bs.current[i - (place - bs.nbBits)] = tape[i]
            ELSE \/ i \in place + 1..Up(place)
                 \/ IF i > Len(bs.bits) THEN bs.mode = "file_write" /\ bs.nbBits > 0 /\ tape[i] = 0
                    ELSE bs.bits[i] = tape[i]
=============================================================================
