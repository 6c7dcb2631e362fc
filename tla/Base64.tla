------------------------------- MODULE Base64 -------------------------------
(***************************************************************************)
(* The encoding of binary data as base64 strings and back:                 *)
(* src/common/libccan/ccan/base64/base64.c, and the codec_data functions   *)
(* of src/shell/plugins/codec.c on top of it.                              *)
(*                                                                         *)
(* A blob is a sequence of bytes.  A string is a sequence of symbols: the  *)
(* six-bit value of a letter of the alphabet, PAD for '=', or NoLetter for *)
(* any other character.  Lengths are size_t outside of codec.c and int in  *)
(* it; IntBits is the width of int, a parameter so that lengths that do    *)
(* not fit can be checked.                                                 *)
(***************************************************************************)
EXTENDS Integers, Sequences, SequencesExt, FiniteSetsExt

CONSTANT IntBits        \* width of int, 32 in the builds of the code

ASSUME IntBitsAssumption == IntBits \in Nat \ {0, 1}

Byte == 0 .. 255
Letter == 0 .. 63
PAD == 64
NoLetter == 65
Symbol == Letter \cup {PAD, NoLetter}

\* NULL or -1: the result of a call that fails.
Failed == [ok |-> FALSE]
Result(v) == [ok |-> TRUE, value |-> v]

\* What an assignment to an int keeps of n.
ToInt(n) == ((n + 2 ^ (IntBits - 1)) % (2 ^ IntBits)) - 2 ^ (IntBits - 1)

\* External: malloc of an int, negative as a size_t beyond any memory.
malloc(n) == n >= 0

-----------------------------------------------------------------------------
base64_encoded_length(srclen) == ((srclen + 2) \div 3) * 4

base64_decoded_length(srclen) == ((srclen + 3) \div 4) * 3

base64_encode_triplet(src) ==
    LET a == src[1]
        b == src[2]
        c == src[3]
    IN  <<a \div 4, (a % 4) * 16 + b \div 16, (b % 16) * 4 + c \div 64, c % 64>>

\* One or two bytes are filled up with zeros, and the letters that hold none
\* of them are replaced by padding.
base64_encode_tail(src) ==
    LET dest == base64_encode_triplet(src \o [i \in 1 .. 3 - Len(src) |-> 0])
    IN  [i \in 1 .. 4 |-> IF i <= 1 + Len(src) THEN dest[i] ELSE PAD]

\* The nth piece of s, counted from 0, where all but the last have size many.
Piece(s, size, n) == SubSeq(s, n * size + 1, Min({Len(s), (n + 1) * size}))
Pieces(s, size) == (Len(s) + size - 1) \div size

Encoding(src) ==
    FlattenSeq([n \in 1 .. Pieces(src, 3) |->
                   LET p == Piece(src, 3, n - 1)
                   IN  IF Len(p) = 3 THEN base64_encode_triplet(p)
                       ELSE base64_encode_tail(p)])

base64_encode(destlen, src) ==
    IF destlen < base64_encoded_length(Len(src)) THEN Failed
    ELSE Result(Encoding(src))

base64_decode_quartet(src) ==
    IF \E i \in 1 .. 4 : src[i] \notin Letter THEN Failed
    ELSE Result(<<src[1] * 4 + src[2] \div 16,
                  (src[2] % 16) * 16 + src[3] \div 4,
                  (src[3] % 4) * 64 + src[4]>>)

\* The last four symbols or fewer: padding at the end is dropped and replaced
\* by the letter for zero.
base64_decode_tail(src) ==
    LET insize == Max({0} \cup {i \in DOMAIN src : src[i] # PAD})
        quartet == base64_decode_quartet([i \in 1 .. 4 |->
                        IF i <= insize THEN src[i] ELSE 0])
    IN  IF insize = 0 THEN Result(<<>>)
        ELSE IF insize = 1 \/ ~quartet.ok THEN Failed
        ELSE Result(SubSeq(quartet.value, 1, insize - 1))

base64_decode(destlen, src) ==
    LET n == Pieces(src, 4)
        piece == [i \in 1 .. n |-> IF i < n THEN base64_decode_quartet(Piece(src, 4, i - 1))
                                   ELSE base64_decode_tail(Piece(src, 4, i - 1))]
    IN  IF \/ destlen < base64_decoded_length(Len(src))
           \/ \E i \in 1 .. n : ~piece[i].ok
        THEN Failed
        ELSE Result(FlattenSeq([i \in 1 .. n |-> piece[i].value]))

-----------------------------------------------------------------------------
\* codec_data_encode: xlength is an int, and a size_t again as destlen.
codec_data_encode(data) ==
    LET xlength == ToInt(base64_encoded_length(Len(data)) + 1)
    IN  IF ~malloc(xlength) THEN Failed ELSE base64_encode(xlength, data)

\* A negative length is not met: json strings are made by codec_data_encode.
codec_data_decode_bufsize(o) == base64_decoded_length(ToInt(Len(o)))

codec_data_decode_tobuf(o, length) == base64_decode(length, SubSeq(o, 1, ToInt(Len(o))))

codec_data_decode(o) == codec_data_decode_tobuf(o, codec_data_decode_bufsize(o))

\* The length fence.c traces, -1 if the data cannot be decoded.
codec_data_length(o) ==
    LET d == codec_data_decode(o) IN IF d.ok THEN Len(d.value) ELSE -1

\* Mutant: every blob may use the room of the first only.
exchange_get_data_first(strings) ==
    LET n == Len(strings)
        bufsize == IF n = 0 THEN 0 ELSE codec_data_decode_bufsize(strings[1])
        chunk == [i \in 1 .. n |-> codec_data_decode_tobuf(strings[i], bufsize)]
    IN  IF \A i \in 1 .. n : chunk[i].ok
        THEN Result(FlattenSeq([i \in 1 .. n |-> chunk[i].value])) ELSE Failed

(***************************************************************************)
(* exchange_get_data of exchange.c: one buffer, as large as all strings    *)
(* may need, and each blob decoded behind the one before it into what is   *)
(* left.                                                                   *)
(***************************************************************************)
exchange_get_data(strings) ==
    LET bufsize == FoldSeq(LAMBDA o, sum : sum + codec_data_decode_bufsize(o), 0, strings)
        Add(out, o) ==
            LET chunk == codec_data_decode_tobuf(o, bufsize - Len(out.value))
            IN  IF ~out.ok \/ ~chunk.ok THEN [ok |-> FALSE, value |-> <<>>]
                ELSE Result(out.value \o chunk.value)
    IN  FoldLeft(Add, Result(<<>>), strings)

=============================================================================
