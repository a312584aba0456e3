------------------------------- MODULE Horus -------------------------------
(***************************************************************************)
(* The Horus V2 packets of lib/f_core/radio/protocols/horus/horus.c: Golay *)
(* parity, interleaving, scrambling and the checksum.  A packet is the set *)
(* of the positions, first bit first, that are set; the unique word before *)
(* it, which is neither coded nor looked at, is left out.                  *)
(***************************************************************************)
EXTENDS Golay, SequencesExt

-----------------------------------------------------------------------------
(* The payload goes through the code twelve bits at a time, the rest of it *)
(* as the upper bits of a last word.                                       *)
Words(nbits) == (nbits + 11) \div 12
InWord(nbits, w) == IF w = nbits \div 12 THEN nbits % 12 ELSE 12
Exponent(nbits, w, i) == 22 - (12 - InWord(nbits, w)) + (IF InWord(nbits, w) = 12 THEN 0 ELSE 1) - i
Data(nbits, bits, w) == {Exponent(nbits, w, i) : i \in {i \in 0..(InWord(nbits, w) - 1) : 12 * w + i \in bits}}

(* Where the bit of exponent e of the parity of word w is.                 *)
ParityAt(nbits, w, e) == nbits + 11 * w + (10 - e)

(* horus_l2_get_num_tx_data_bytes, without the unique word.                *)
TxBits(nbits) == 8 * ((nbits + 11 * Words(nbits) + 7) \div 8)

Coded(nbits, bits) ==
  bits \cup UNION {{ParityAt(nbits, w, e) : e \in get_syndrome(Data(nbits, bits, w))} : w \in 0..(Words(nbits) - 1)}

(* The loops of the interleaver and the scrambler start with bit 0 of a    *)
(* byte, which is sent last.                                               *)
Lsb(n) == 8 * (n \div 8) + 7 - (n % 8)

primes == <<2, 3, 5, 7, 11, 13, 17, 19, 23, 29, 31, 37, 41, 43, 47, 53, 59, 61, 67, 71, 73, 79, 83, 89, 97, 101, 103, 107,
  109, 113, 127, 131, 137, 139, 149, 151, 157, 163, 167, 173, 179, 181, 191, 193, 197, 199, 211, 223, 227, 229, 233, 239,
  241, 251, 257, 263, 269, 271, 277, 281, 283, 293, 307, 311, 313, 317, 331, 337, 347, 349, 379, 383, 389, 757, 761, 769, 773>>

(* As if the bits stayed in their order. *)
InOrder(nbits) == 1
Stride(nbits) == Max({primes[i] : i \in {i \in DOMAIN primes : primes[i] < nbits}} \cup {2})

Interleaved(nbits, bits) ==
  LET b == Stride(nbits) IN {Lsb((b * i) % nbits) : i \in {i \in 0..(nbits - 1) : Lsb(i) \in bits}}
Deinterleaved(nbits, bits) ==
  LET b == Stride(nbits) IN {Lsb(i) : i \in {i \in 0..(nbits - 1) : Lsb((b * i) % nbits) \in bits}}

(* The additive scrambler: the bits that go through its register, which    *)
(* starts as 0x4a80, and to which these add fourteen at a time.            *)
Register ==
  LET out[n \in 0..37] ==
        IF n = 0 THEN [i \in 1..15 |-> i - 1 \in {7, 9, 11, 14}]
        ELSE LET r == out[n - 1]  at == 14 * (n - 1) IN r \o [i \in 1..14 |-> r[at + i] # r[at + i + 1]]
  IN out[37]
Key == {Lsb(i) : i \in {i \in 0..513 : Register[i + 16]}}
Scrambled(nbits, bits) == Xor(bits, {k \in Key : k < nbits})

-----------------------------------------------------------------------------
horus_l2_encode_tx_packet(nbits, bits) ==
  LET n == TxBits(nbits) IN Scrambled(n, Interleaved(n, Coded(nbits, bits)))

horus_l2_decode_rx_packet(nbits, bits) ==
  LET n == TxBits(nbits)
      rx == Deinterleaved(n, Scrambled(n, bits))
      words == [w \in 0..(Words(nbits) - 1) |->
                  golay23_decode(Data(nbits, rx, w) \cup {e \in 0..10 : ParityAt(nbits, w, e) \in rx})]
  IN {p \in 0..(nbits - 1) : Exponent(nbits, p \div 12, p % 12) \in words[p \div 12]}
-----------------------------------------------------------------------------
Down(a, n) == {e - n : e \in {e \in a : e >= n}}
Up(a, n) == Shifted(a, n) \cap 0..15

AddByteWithoutFold(crc, byte) ==
  LET x == Xor(Down(crc, 8), byte) IN Xor(Xor(Up(crc, 8), Up(x, 12)), Xor(Up(x, 5), x))
AddByte(crc, byte) ==
  LET y == Xor(Down(crc, 8), byte)
      x == Xor(y, Down(y, 4))
  IN Xor(Xor(Up(crc, 8), Up(x, 12)), Xor(Up(x, 5), x))
gen_crc16(bytes) ==
  LET crc[i \in 0..Len(bytes)] == IF i = 0 THEN 0..15 ELSE LET c == crc[i - 1] IN AddByte(c, bytes[i]) IN crc[Len(bytes)]

(* The checksum is the last two bytes of the struct, the lower one first.  *)
WithChecksum(bytes) == bytes \o <<gen_crc16(bytes) \cap 0..7, Down(gen_crc16(bytes), 8)>>
Bits(bytes) == UNION {{8 * i - 1 - e : e \in bytes[i]} : i \in DOMAIN bytes}
Bytes(n, bits) == [i \in 1..n |-> {e \in 0..7 : 8 * i - 1 - e \in bits}]
horusv2_checksum_verify(bytes) == WithChecksum(SubSeq(bytes, 1, Len(bytes) - 2)) = bytes
=============================================================================
