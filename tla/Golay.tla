------------------------------- MODULE Golay -------------------------------
(***************************************************************************)
(* The (23,12) Golay code of lib/f_core/radio/protocols/horus/golay.c.  A  *)
(* word is the set of the exponents whose bits are set, and an exclusive   *)
(* or of words is their symmetric difference.                              *)
(***************************************************************************)
EXTENDS Naturals, FiniteSets

Xor(a, b) == {e \in a \cup b : (e \in a) # (e \in b)}
Shifted(a, n) == {e + n : e \in a}

GENPOL == {11, 10, 6, 5, 4, 2, 0}

(* The remainder of the division by the generator polynomial, with the bit *)
(* aux from X22 down to X11.                                               *)
get_syndrome(pattern) ==
  LET left[aux \in 11..23] ==
        IF aux = 23 THEN pattern
        ELSE LET p == left[aux + 1] IN IF aux \in p THEN Xor(p, Shifted(GENPOL, aux - 11)) ELSE p
  IN left[11]

golay23_encode(data) ==
  LET temp == Shifted(data, 11) IN temp \cup get_syndrome(temp)

(* As if the triple errors were left out. *)
SingleAndDouble == {{}} \cup {{i, j} : i, j \in 0..22}

(* The error patterns golay23_init goes through.                           *)
Patterns == {{}} \cup {{i, j, k} : i, j, k \in 0..22}

(* An entry that is never written is zero, as the table is static.         *)
SyndromeOf == [e \in Patterns |-> get_syndrome(e)]
decoding_table ==
  LET written == {SyndromeOf[e] : e \in Patterns} IN
  [s \in SUBSET (0..10) |-> IF s \in written THEN CHOOSE e \in Patterns : SyndromeOf[e] = s ELSE {}]

golay23_decode(received_codeword) ==
  Xor(received_codeword, decoding_table[get_syndrome(received_codeword)])
=============================================================================
