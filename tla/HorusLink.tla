----------------------------- MODULE HorusLink -----------------------------
(***************************************************************************)
(* One Horus packet through a channel that flips bits, and what a decoder  *)
(* built with CONFIG_HORUSV2_RX makes of it.                               *)
(***************************************************************************)
EXTENDS Horus

CONSTANTS
  SamplePacket,  (* the one of app/samples/horus                            *)
  Contents,      (* what may be sent: sequences of bytes, as sets of bits   *)
  Noises(_)      (* the sets of bits the channel may flip, of that many     *)

VARIABLES
  sent, air,     (* the bytes with their checksum, and the coded bits       *)
  noise, got, pc

vars == <<sent, air, noise, got, pc>>

Init == sent = <<>> /\ air = {} /\ noise = {} /\ got = <<>> /\ pc = "encode"

horusv2_encode ==
  /\ pc = "encode" /\ pc' = "air"
  /\ \E bytes \in Contents :
       sent' = WithChecksum(bytes) /\ air' = horus_l2_encode_tx_packet(8 * Len(sent'), Bits(sent'))
  /\ UNCHANGED <<noise, got>>

(* The sample of the library clears the first five bytes of what is sent,  *)
(* two of which are the unique word, and the last five.                    *)
Wiped == {p \in air : p < 24 \/ p >= TxBits(8 * Len(sent)) - 40}

Disturb ==
  /\ pc = "air" /\ pc' = "decode"
  /\ noise' \in Noises(TxBits(8 * Len(sent))) \cup {Wiped}
  /\ air' = Xor(air, noise')
  /\ UNCHANGED <<sent, got>>

horusv2_decode ==
  /\ pc = "decode" /\ pc' = "decoded"
  /\ got' = Bytes(Len(sent), horus_l2_decode_rx_packet(8 * Len(sent), air))
  /\ UNCHANGED <<sent, air, noise>>

Next == horusv2_encode \/ Disturb \/ horusv2_decode

-----------------------------------------------------------------------------
(* Whichever three bits the channel flips, the packet is decoded to what   *)
(* was sent, in words that are full and in the rest that is not.           *)
CorrectsThree == pc = "decoded" /\ Cardinality(noise) <= 3 => got = sent /\ horusv2_checksum_verify(got)

(* So it is when twenty bits in a row are flipped, anywhere in a packet of *)
(* the size of the struct, and when both ends of the sample's packet are   *)
(* cleared: the interleaver spreads them.                                  *)
SurvivesBursts ==
  /\ pc = "decoded" /\ Len(sent) = 32
  /\ \/ \E first \in noise : noise \subseteq first..(first + 19)
     \/ sent = WithChecksum(SamplePacket)
  => got = sent

(* The checksum that is sent is the CRC16-CCITT the struct names: what is  *)
(* left of the data, ones before it and room for the checksum behind it,   *)
(* after division by x^16 + x^12 + x^5 + 1.  (Stated of short packets.)    *)
Remainder(p, n) ==
  LET left[i \in 0..n] ==
        IF i = 0 THEN p
        ELSE LET r == left[i - 1] IN IF n + 16 - i \in r THEN Xor(r, Shifted({16, 12, 5, 0}, n - i)) ELSE r
  IN left[n]
Ccitt(bytes) ==
  LET n == 8 * Len(bytes) IN
  Remainder(Xor(UNION {Shifted(bytes[i], n + 16 - 8 * i) : i \in DOMAIN bytes}, Shifted(0..15, n)), n)
ChecksumIsCcitt ==
  pc = "air" /\ Len(sent) < 8 => sent = SubSeq(sent, 1, Len(sent) - 2) \o
    LET crc == Ccitt(SubSeq(sent, 1, Len(sent) - 2)) IN <<crc \cap 0..7, Down(crc, 8)>>
=============================================================================
