---------------------------- MODULE AccountAddress ----------------------------
(***************************************************************************)
(* From the public key of the operating system to the address the swap     *)
(* code compares: convert_to_stellar_pk (src/crypto.rs), the checksum      *)
(* (swap-utils/src/crc.rs) and the base32 loop (swap-utils/src/format.rs), *)
(* byte by byte.  Bytes are the real ones; a key has KEY_BYTES of them     *)
(* instead of 32, a number that leaves no bits over at the end, as 32 does.*)
(***************************************************************************)
EXTENDS Integers, SequencesExt

CONSTANTS
  KEY_BYTES,     \* STELLAR_COMPRESSED_PK_LEN
  ADDRESS_LEN,   \* the characters of an address, 56 in the code
  BUFFER_BITS,   \* the width of the loop's buffer, 32 in the code
  PublicKeys     \* keys of the operating system: 4, then x, then y

ASSUME KeyAssumption ==
  /\ KEY_BYTES \in Nat \ {0}
  /\ ADDRESS_LEN \in Nat /\ ADDRESS_LEN * 5 = (KEY_BYTES + 3) * 8
  /\ BUFFER_BITS \in Nat /\ BUFFER_BITS >= 12
  \* y is below the prime of the field, which leaves its first bit free
  /\ \A k \in PublicKeys :
       k \in Seq(0..255) /\ Len(k) = 2 * KEY_BYTES + 1 /\ k[KEY_BYTES + 2] < 128

VARIABLES
  pubkey,  \* the key of the operating system
  step,    \* "key", "checksum", "encode" or "done"
  data,    \* version, compressed key, and in the end the checksum
  pos,     \* the bytes read by the loop under way
  crc,
  buffer, bits_in_buffer,
  output

vars == <<pubkey, step, data, pos, crc, buffer, bits_in_buffer, output>>

VERSION == 48  \* 6 << 3

\* Shifts multiply or divide by a power of two.
TwoTo[n \in Nat] == IF n = 0 THEN 1 ELSE 2 * TwoTo[n - 1]

\* The exclusive or of two numbers: the bits in which they differ.
Exclusive[p \in Nat \X Nat] ==
  IF p = <<0, 0>> THEN 0
  ELSE 2 * Exclusive[<<p[1] \div 2, p[2] \div 2>>] + ((p[1] + p[2]) % 2)
Xor(a, b) == Exclusive[<<a, b>>]

\* A faulty conversion that takes the sign from the wrong byte.
SignOfFirst(key) == key[2] % 2

\* The sign of x: the last bit of its last byte.
SignBit(key) == key[KEY_BYTES + 1] % 2

\* convert_to_stellar_pk: y from its last byte on, the sign in the top bit.
ConvertToStellarPk(key) ==
  LET out == [i \in 1..KEY_BYTES |-> key[2 * KEY_BYTES + 2 - i]]
  IN  IF SignBit(key) = 1 THEN [out EXCEPT ![KEY_BYTES] = (@ % 128) + 128] ELSE out

CRC16_TABLE ==
  <<0, 4129, 8258, 12387, 16516, 20645, 24774, 28903, 33032, 37161, 41290, 45419,
    49548, 53677, 57806, 61935, 4657, 528, 12915, 8786, 21173, 17044, 29431, 25302,
    37689, 33560, 45947, 41818, 54205, 50076, 62463, 58334, 9314, 13379, 1056, 5121,
    25830, 29895, 17572, 21637, 42346, 46411, 34088, 38153, 58862, 62927, 50604, 54669,
    13907, 9842, 5649, 1584, 30423, 26358, 22165, 18100, 46939, 42874, 38681, 34616,
    63455, 59390, 55197, 51132, 18628, 22757, 26758, 30887, 2112, 6241, 10242, 14371,
    51660, 55789, 59790, 63919, 35144, 39273, 43274, 47403, 23285, 19156, 31415, 27286,
    6769, 2640, 14899, 10770, 56317, 52188, 64447, 60318, 39801, 35672, 47931, 43802,
    27814, 31879, 19684, 23749, 11298, 15363, 3168, 7233, 60846, 64911, 52716, 56781,
    44330, 48395, 36200, 40265, 32407, 28342, 24277, 20212, 15891, 11826, 7761, 3696,
    65439, 61374, 57309, 53244, 48923, 44858, 40793, 36728, 37256, 33193, 45514, 41451,
    53516, 49453, 61774, 57711, 4224, 161, 12482, 8419, 20484, 16421, 28742, 24679,
    33721, 37784, 41979, 46042, 49981, 54044, 58239, 62302, 689, 4752, 8947, 13010,
    16949, 21012, 25207, 29270, 46570, 42443, 38312, 34185, 62830, 58703, 54572, 50445,
    13538, 9411, 5280, 1153, 29798, 25671, 21540, 17413, 42971, 47098, 34713, 38840,
    59231, 63358, 50973, 55100, 9939, 14066, 1681, 5808, 26199, 30326, 17941, 22068,
    55628, 51565, 63758, 59695, 39368, 35305, 47498, 43435, 22596, 18533, 30726, 26663,
    6336, 2273, 14466, 10403, 52093, 56156, 60223, 64286, 35833, 39896, 43963, 48026,
    19061, 23124, 27191, 31254, 2801, 6864, 10931, 14994, 64814, 60687, 56684, 52557,
    48554, 44427, 40424, 36297, 31782, 27655, 23652, 19525, 15522, 11395, 7392, 3265,
    61215, 65342, 53085, 57212, 44955, 49082, 36825, 40952, 28183, 32310, 20053, 24180,
    11923, 16050, 3793, 7920>>

\* A faulty step that drops the low byte of the checksum so far.
ChecksumStepShort(sum, byte) == CRC16_TABLE[Xor(sum \div 256, byte) + 1]

\* One turn of the loop of checksum.
ChecksumStep(sum, byte) ==
  Xor((sum * 256) % 65536, CRC16_TABLE[Xor(sum \div 256, byte) + 1])

\* A faulty shift, by a symbol and not by a byte.
FillShiftedLess(bits, byte) == ((bits * 32) % TwoTo[BUFFER_BITS]) + byte

\* The buffer of encode_base32 after a byte; what is shifted out is lost.
Fill(bits, byte) == ((bits * 256) % TwoTo[BUFFER_BITS]) + byte

-----------------------------------------------------------------------------
Init ==
  /\ pubkey \in PublicKeys /\ step = "key"
  /\ data = << >> /\ pos = 0 /\ crc = 0
  /\ buffer = 0 /\ bits_in_buffer = 0 /\ output = << >>

\* get_public_key, and the beginning of format_stellar_address.
TakeKey ==
  /\ step = "key" /\ step' = "checksum"
  /\ data' = <<VERSION>> \o ConvertToStellarPk(pubkey)
  /\ UNCHANGED <<pubkey, pos, crc, buffer, bits_in_buffer, output>>

ChecksumByte ==
  /\ step = "checksum" /\ pos < Len(data)
  /\ crc' = ChecksumStep(crc, data[pos + 1])
  /\ pos' = pos + 1
  /\ UNCHANGED <<pubkey, step, data, buffer, bits_in_buffer, output>>

\* The checksum is appended, its low byte first.
AppendChecksum ==
  /\ step = "checksum" /\ pos = Len(data)
  /\ data' = data \o <<crc % 256, crc \div 256>>
  /\ step' = "encode" /\ pos' = 0
  /\ UNCHANGED <<pubkey, crc, buffer, bits_in_buffer, output>>

\* One turn of the outer loop of encode_base32, with its inner loop.
EncodeByte ==
  /\ step = "encode" /\ pos < Len(data)
  /\ LET filled == Fill(buffer, data[pos + 1])
         count  == bits_in_buffer + 8
         symbol(n) == (filled \div TwoTo[count - 5 * n]) % 32
     IN  /\ buffer' = filled
         /\ output' = output \o [n \in 1..(count \div 5) |-> symbol(n)]
         /\ bits_in_buffer' = count % 5
  /\ pos' = pos + 1
  /\ UNCHANGED <<pubkey, step, data, crc>>

\* After the loop: what is left, then the count of characters.
Finish ==
  /\ step = "encode" /\ pos = Len(data)
  /\ output' = IF bits_in_buffer = 0 THEN output
               ELSE Append(output, (buffer * TwoTo[5 - bits_in_buffer]) % 32)
  /\ step' = IF Len(output') = ADDRESS_LEN THEN "done" ELSE "InvalidInput"
  /\ UNCHANGED <<pubkey, data, pos, crc, buffer, bits_in_buffer>>

Next == TakeKey \/ ChecksumByte \/ AppendChecksum \/ EncodeByte \/ Finish

Spec == Init /\ [][Next]_vars

-----------------------------------------------------------------------------
(* Properties. *)

\* The bits of a number, the highest first, and of a sequence of numbers.
Bits(n, width) == [i \in 1..width |-> (n \div TwoTo[width - i]) % 2]
AllBits(numbers, width) ==
  FlattenSeq([i \in DOMAIN numbers |-> Bits(numbers[i], width)])

\* One step of a division by x^16 + x^12 + x^5 + 1: the next bit is taken in.
TakeBit(r, bit) ==
  LET shifted == (2 * r + bit) % 65536
  IN  IF r >= 32768 THEN Xor(shifted, 4129) ELSE shifted

\* What is left of a sequence of bits, and the checksum of a message: what is
\* left of its bits and sixteen zeros.
Divided(bits) ==
  LET left[i \in 0..Len(bits)] == IF i = 0 THEN 0 ELSE TakeBit(left[i - 1], bits[i])
  IN  left[Len(bits)]
Remainder(message) == Divided(AllBits(message, 8) \o [i \in 1..16 |-> 0])

\* The table holds the checksums of single bytes.
ASSUME TableAssumption == \A b \in 0..255 : CRC16_TABLE[b + 1] = Remainder(<<b>>)

\* Between two bytes of checksum's loop the sum from the table is the remainder
\* of the polynomial division of all the bytes read so far.
ChecksumDivides ==
  step = "checksum" => crc = Remainder(SubSeq(data, 1, pos))

\* Between two bytes of encode_base32's loop the characters written and the bits
\* waiting in the buffer are together the bits of the bytes read: none is lost
\* at the buffer's edge and none is written twice.
NothingLost ==
  step \in {"encode", "done"} =>
    AllBits(output, 5) \o Bits(buffer % TwoTo[bits_in_buffer], bits_in_buffer)
      = AllBits(SubSeq(data, 1, pos), 8)

\* An address that was written has all its characters, and no key but the ones
\* with the same y and the same sign of x has the same address.
AddressNamesKey ==
  /\ step # "InvalidInput"
  /\ step = "done" =>
       LET bits == AllBits(output, 5)
       IN  /\ Len(output) = ADDRESS_LEN
           /\ \A i \in 1..KEY_BYTES, b \in 1..8 :
                bits[8 * (KEY_BYTES + 1 - i) + b]
                  = IF i = 1 /\ b = 1 THEN pubkey[KEY_BYTES + 1] % 2
                    ELSE Bits(pubkey[KEY_BYTES + 1 + i], 8)[b]
=============================================================================
