---------------------------- MODULE ChunkyPlanar ----------------------------
(***************************************************************************)
(* The chunky to planar conversions (src/graphics/c2p_reference.c,         *)
(* c2p_reference_layouts.c, c2p4_reference.c, c2p4_lookup.c,               *)
(* c2p4_mask32.c, c2p4_m68k.c and c2p4_m68k.S).                            *)
(*                                                                         *)
(* Every conversion moves bits and changes none, so an image is symbolic:  *)
(* a bit is the set of the bits of the image whose exclusive or it is, {}  *)
(* for a bit that is 0, and a result found here holds for every image.     *)
(* Bit 0 is the lowest; a byte is a function of 0..7, a word of 0..31.     *)
(*                                                                         *)
(* A call converts layers (one, or the front and the back playfield at     *)
(* once) of a width and a height to planes from the byte at "base":        *)
(*     [backend, layers, width, height, plane_stride, base]                *)
(* A layer is [playfield, format, stride]; its format says where a pixel   *)
(* is: "packed4" two to a byte, "byte4" in the low half of a byte, "fb8"   *)
(* the front playfield in the high half and the back in the low half.      *)
(***************************************************************************)
EXTENDS Integers, Sequences

VARIABLES calls,            \* the conversions asked for, in order
          call,             \* the one at work
          statuses,         \* what those before it (and it) returned
          stage,            \* "validate" or "convert"
          row, column,      \* the group of pixels that is next
          source, target,   \* the address registers of the 68k cores
          planes            \* the eight physical planes, byte by byte

conversionVars ==
    <<calls, call, statuses, stage, row, column, source, target, planes>>

LogicalBits == 0 .. 3
Planes == 0 .. 7
PlaneOf(playfield, b) == 2 * b + (IF playfield = "front" THEN 0 ELSE 1)

-----------------------------------------------------------------------------
(* Bits.                                                                   *)

Zero == {}
Pixel(name, x, y) == [b \in LogicalBits |-> {<<name, x, y, b>>}]
Other(name) == {<<name, 0, 0, 0>>}

Flip(one, two) == (one \ two) \union (two \ one)
Either(one, two) == IF one = Zero \/ two = Zero \/ one = two
                    THEN one \union two
                    ELSE one \union two \union Other("mixed")

Positions(bits) == DOMAIN bits
At(bits, i) == IF i \in Positions(bits) THEN bits[i] ELSE Zero
Left(bits, n) == [i \in Positions(bits) |-> At(bits, i - n)]
Right(bits, n) == [i \in Positions(bits) |-> At(bits, i + n)]
Swap(word) == [i \in 0 .. 31 |-> word[(i + 16) % 32]]
Xor(a, b) == [i \in Positions(a) |-> Flip(a[i], b[i])]
Or(a, b) == [i \in Positions(a) |-> Either(a[i], b[i])]
(* And with a mask of n ones, n zeros, n ones ... from bit 0: 0x55555555,  *)
(* 0x33333333, 0x0f0f0f0f, 0x00ff00ff and 0x0000ffff.                      *)
Stripes(bits, n) ==
    [i \in Positions(bits) |-> IF (i \div n) % 2 = 0 THEN bits[i] ELSE Zero]

(* load_be32, and the bytes of a word from the highest.                    *)
BigEndian(bytes) == [i \in 0 .. 31 |-> bytes[4 - i \div 8][i % 8]]
ByteOf(word, k) == [i \in 0 .. 7 |-> word[8 * (4 - k) + i]]

-----------------------------------------------------------------------------
(* The calls there are: only the reference takes two layers, each of its   *)
(* own playfield, or combined pixels.                                      *)
Backends == {"reference", "lookup", "pair_lut_m68k", "mask32", "mask32_m68k"}
Layers == [playfield : {"front", "back"},
           format : {"packed4", "byte4", "fb8"}, stride : Nat]
ConversionCalls ==
    {c \in [backend : Backends, layers : Seq(Layers), width : Nat,
            height : Nat, plane_stride : Nat, base : Nat] :
        /\ c.layers # <<>>
        /\ \A l, m \in DOMAIN c.layers :
              c.layers[l].playfield = c.layers[m].playfield => l = m
        /\ c.backend # "reference" =>
              /\ Len(c.layers) = 1
              /\ c.layers[1].format \in {"packed4", "byte4"}}

-----------------------------------------------------------------------------
(* What a call reads.                                                      *)

BytesOf(format, pixels) ==
    IF format = "packed4" THEN pixels \div 2 ELSE pixels

(* The byte of a layer at an offset; what lies past the row is slack, and  *)
(* the high half of a byte4 pixel is not part of the image.                *)
SourceByte(layer, width, offset) ==
    LET y == offset \div layer.stride
        at == offset % layer.stride
        half(name, x, i) == Pixel(name, x, y)[i % 4]
    IN [i \in 0 .. 7 |->
        IF at >= BytesOf(layer.format, width) THEN Other("slack")
        ELSE IF layer.format = "packed4"
             THEN half(layer.playfield, 2 * at + (IF i < 4 THEN 1 ELSE 0), i)
        ELSE IF layer.format = "fb8"
             THEN half(IF i < 4 THEN "back" ELSE "front", at, i)
        ELSE IF i < 4 THEN half(layer.playfield, at, i)
        ELSE Other("ignored")]

Bytes(layer, width, address, n) ==
    [k \in 1 .. n |-> SourceByte(layer, width, address + k - 1)]

-----------------------------------------------------------------------------
(* The kernels: the bytes of the four planes made of a group of pixels.    *)

(* pack_pixel, pixel by pixel.                                             *)
Reference(layer, bytes) ==
    LET byte(p) == IF layer.format = "packed4"
                   THEN bytes[p \div 2 + 1] ELSE bytes[p + 1]
        shift(p) == IF \/ layer.format = "packed4" /\ p % 2 = 0
                       \/ layer.format = "fb8" /\ layer.playfield = "front"
                    THEN 4 ELSE 0
    IN [b \in LogicalBits |->
            <<[i \in 0 .. 7 |-> At(byte(7 - i), b + shift(7 - i))]>>]

(* spread_nibble and build_pair_lut: the entry of a pair of pixels.        *)
Spread(nibble) ==
    [i \in 0 .. 31 |->
        IF i % 8 = 7 THEN nibble[(31 - i) \div 8] ELSE Zero]
PairEntry(pair) ==
    Or(Spread(Right(pair, 4)), Right(Spread(Stripes(pair, 4)), 1))

Pairs(layer, bytes) ==
    IF layer.format = "packed4" THEN bytes
    ELSE [k \in 1 .. 4 |-> Or(Left(Stripes(bytes[2 * k - 1], 4), 4),
                              Stripes(bytes[2 * k], 4))]

Lookup(layer, bytes) ==
    LET pairs == Pairs(layer, bytes)
        part(k) == Right(PairEntry(pairs[k]), 2 * (k - 1))
        transpose == Or(Or(Or(part(1), part(2)), part(3)), part(4))
    IN [b \in LogicalBits |-> <<ByteOf(transpose, b + 1)>>]

(* Eight byte4 pixels to a word: pack_byte4_group in C, C2P4_PACK_BYTE4.   *)
PackGroup(bytes) ==
    LET packed[p \in 0 .. 8] ==
            [i \in 0 .. 31 |-> IF p = 0 THEN Zero
                              ELSE IF i < 4 THEN bytes[p][i]
                              ELSE packed[p - 1][i - 4]]
    IN  packed[8]
(* Mutant: bytes are not cleared between the two squeezes.                 *)
MutantPackHalf(bytes) ==
    LET word == Stripes(BigEndian(bytes), 4)
        packed == Or(word, Right(word, 4))
    IN Stripes(Or(packed, Right(packed, 8)), 16)
PackHalf(bytes) ==
    LET squeeze(word, n) ==
            LET masked == Stripes(word, n) IN Or(masked, Right(masked, n))
    IN Stripes(squeeze(squeeze(BigEndian(bytes), 4), 8), 16)
PackGroupM68k(bytes) ==
    Or(Swap(PackHalf(SubSeq(bytes, 1, 4))), PackHalf(SubSeq(bytes, 5, 8)))

(* merge_bits and C2P4_MERGE; the 68k swaps halves where it shifts by 16.  *)
Exchange(words, left, right, n) ==
    LET exchanged == Stripes(Xor(words[left], Right(words[right], n)), n)
    IN [words EXCEPT ![left] = Xor(words[left], exchanged),
                     ![right] = Xor(words[right], Left(exchanged, n))]
ExchangeHalves(words, left, right) ==
    LET exchanged == Stripes(Xor(words[left], Swap(words[right])), 16)
    IN [words EXCEPT ![left] = Xor(words[left], exchanged),
                     ![right] = Xor(words[right], Swap(exchanged))]

Merge(words, left, right, n, m68k) ==
    IF m68k /\ n = 16 THEN ExchangeHalves(words, left, right)
    ELSE Exchange(words, left, right, n)

(* Mutant: the network that halves the distance every time.                *)
MutantPasses == <<<<0, 2, 16>>, <<1, 3, 16>>, <<0, 1, 8>>, <<2, 3, 8>>,
                  <<0, 2, 4>>, <<1, 3, 4>>, <<0, 1, 2>>, <<2, 3, 2>>,
                  <<0, 1, 1>>, <<2, 3, 1>>>>

(* transpose32x4: the words exchanged, and the distance.                   *)
Passes == <<<<0, 1, 8>>, <<2, 3, 8>>, <<0, 1, 2>>, <<2, 3, 2>>,
            <<0, 2, 16>>, <<1, 3, 16>>, <<0, 2, 4>>, <<1, 3, 4>>,
            <<0, 2, 1>>, <<1, 3, 1>>>>

Transposed(words, m68k) ==
    LET after[k \in 0 .. Len(Passes)] ==
            IF k = 0 THEN words
            ELSE Merge(after[k - 1],
                       Passes[k][1], Passes[k][2], Passes[k][3], m68k)
    IN  after[Len(Passes)]

(* Mutant: the words in the order of their numbers.                        *)
MutantStoreOrder == <<3, 2, 1, 0>>

(* store_transposed_block: the word each plane gets.                       *)
StoreOrder == <<3, 1, 2, 0>>

Mask32(layer, bytes, m68k) ==
    LET group(w, n) == SubSeq(bytes, w * n + 1, (w + 1) * n)
        words == [w \in 0 .. 3 |->
                    IF layer.format = "packed4" THEN BigEndian(group(w, 4))
                    ELSE IF m68k THEN PackGroupM68k(group(w, 8))
                    ELSE PackGroup(group(w, 8))]
        transposed == Transposed(words, m68k)
    IN [b \in LogicalBits |->
            [k \in 1 .. 4 |-> ByteOf(transposed[StoreOrder[b + 1]], k)]]

-----------------------------------------------------------------------------
(* One call.                                                               *)

OnM68k(c) == c.backend \in {"pair_lut_m68k", "mask32_m68k"}
GroupPixels(c) == IF c.backend \in {"mask32", "mask32_m68k"} THEN 32 ELSE 8

(* The SIZE_MAX tests of the code are out of reach of any real image.      *)
Validate(c) ==
    IF c.width = 0 \/ c.height = 0 \/ c.width % GroupPixels(c) # 0
    THEN "dimensions"
    ELSE IF \/ \E l \in DOMAIN c.layers :
                    c.layers[l].stride < BytesOf(c.layers[l].format, c.width)
            \/ c.plane_stride < c.width \div 8
    THEN "stride"
    ELSE "ok"

Kernel(c, layer, address) ==
    LET bytes == Bytes(layer, c.width, address,
                       BytesOf(layer.format, GroupPixels(c)))
    IN CASE c.backend = "reference" -> Reference(layer, bytes)
         [] c.backend \in {"lookup", "pair_lut_m68k"} -> Lookup(layer, bytes)
         [] c.backend \in {"mask32", "mask32_m68k"} ->
                Mask32(layer, bytes, OnM68k(c))

(* The 68k cores go on from where the last group ended and skip the rest   *)
(* of a row at its end; the C loops compute every address.                 *)
SourceSkip(c) ==
    c.layers[1].stride - BytesOf(c.layers[1].format, c.width)

(* Mutant: a whole row is skipped after each row.                          *)
MutantTargetSkip(c) == c.plane_stride
TargetSkip(c) == c.plane_stride - c.width \div 8

SourceAddress(c, layer) ==
    IF OnM68k(c) THEN source
    ELSE row * layer.stride + column * BytesOf(layer.format, GroupPixels(c))
TargetAddress(c) ==
    IF OnM68k(c) THEN target
    ELSE c.base + row * c.plane_stride + column * (GroupPixels(c) \div 8)

Stored(c) ==
    LET n == GroupPixels(c) \div 8
        from == TargetAddress(c)
        made == [l \in DOMAIN c.layers |->
                    Kernel(c, c.layers[l], SourceAddress(c, c.layers[l]))]
        to(l) == {PlaneOf(c.layers[l].playfield, b) : b \in LogicalBits}
    IN [p \in Planes |->
        IF \A l \in DOMAIN c.layers : p \notin to(l) THEN planes[p]
        ELSE LET l == CHOOSE k \in DOMAIN c.layers : p \in to(k)
             IN [o \in DOMAIN planes[p] |->
                    IF o \in from .. from + n - 1
                    THEN made[l][p \div 2][o - from + 1]
                    ELSE planes[p][o]]]

Current == calls[call]

ConversionInit(asked, memory) ==
    /\ calls = asked /\ call = 1 /\ statuses = <<>> /\ stage = "validate"
    /\ row = 0 /\ column = 0 /\ source = 0 /\ target = 0
    /\ planes = memory

Refuse ==
    /\ stage = "validate" /\ call <= Len(calls)
    /\ Validate(Current) # "ok"
    /\ statuses' = Append(statuses, Validate(Current))
    /\ call' = call + 1
    /\ UNCHANGED <<calls, stage, row, column, source, target, planes>>

Accept ==
    /\ stage = "validate" /\ call <= Len(calls)
    /\ Validate(Current) = "ok"
    /\ statuses' = Append(statuses, "ok")
    /\ stage' = "convert"
    /\ row' = 0 /\ column' = 0
    /\ source' = 0 /\ target' = Current.base
    /\ UNCHANGED <<calls, call, planes>>

EndOfRow(c) == (column + 1) * GroupPixels(c) = c.width

ConvertGroup ==
    /\ stage = "convert"
    /\ planes' = Stored(Current)
    /\ source' = source
                 + BytesOf(Current.layers[1].format, GroupPixels(Current))
                 + (IF EndOfRow(Current) THEN SourceSkip(Current) ELSE 0)
    /\ target' = target + GroupPixels(Current) \div 8
                 + (IF EndOfRow(Current) THEN TargetSkip(Current) ELSE 0)
    /\ column' = IF EndOfRow(Current) THEN 0 ELSE column + 1
    /\ row' = IF EndOfRow(Current) THEN row + 1 ELSE row
    /\ LET over == EndOfRow(Current) /\ row + 1 = Current.height
       IN /\ stage' = IF over THEN "validate" ELSE "convert"
          /\ call' = IF over THEN call + 1 ELSE call
    /\ UNCHANGED <<calls, statuses>>

ConversionNext == Refuse \/ Accept \/ ConvertGroup

Converted == call > Len(calls)

-----------------------------------------------------------------------------
(* A byte of a plane that an accepted call has to write, and its bit i.    *)
Covers(c, p, o) ==
    /\ \E l \in DOMAIN c.layers, b \in LogicalBits :
            p = PlaneOf(c.layers[l].playfield, b)
    /\ o >= c.base
    /\ (o - c.base) \div c.plane_stride < c.height
    /\ (o - c.base) % c.plane_stride < c.width \div 8
Wanted(c, p, o, i) ==
    Pixel(IF p % 2 = 0 THEN "front" ELSE "back",
          8 * ((o - c.base) % c.plane_stride) + 7 - i,
          (o - c.base) \div c.plane_stride)[p \div 2]
=============================================================================
