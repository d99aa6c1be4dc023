------------------------------- MODULE QrCode -------------------------------
(***************************************************************************)
(* src/lib/qr-code.ts: the symbol through which a pairing URI reaches a    *)
(* phone.  A codeword is the set of its bits that are 1, so that XOR is    *)
(* SymDiff; a module is <<column, row>>.                                   *)
(***************************************************************************)
EXTENDS Integers, Sequences, FiniteSets, FiniteSetsExt, SequencesExt, TLC

VARIABLE symbol         \* the symbol being drawn, or NoSymbol

qrVars == symbol

Levels == {"L", "M", "Q", "H"}
Versions == 1 .. 40

ECC_CODEWORDS_PER_BLOCK ==
    "L" :> <<7, 10, 15, 20, 26, 18, 20, 24, 30, 18, 20, 24, 26, 30, 22, 24, 28, 30, 28, 28, 28, 28, 30, 30,
             26, 28, 30, 30, 30, 30, 30, 30, 30, 30, 30, 30, 30, 30, 30, 30>> @@
    "M" :> <<10, 16, 26, 18, 24, 16, 18, 22, 22, 26, 30, 22, 22, 24, 24, 28, 28, 26, 26, 26, 26, 28, 28, 28,
             28, 28, 28, 28, 28, 28, 28, 28, 28, 28, 28, 28, 28, 28, 28, 28>> @@
    "Q" :> <<13, 22, 18, 26, 18, 24, 18, 22, 20, 24, 28, 26, 24, 20, 30, 24, 28, 28, 26, 30, 28, 30, 30, 30,
             30, 28, 30, 30, 30, 30, 30, 30, 30, 30, 30, 30, 30, 30, 30, 30>> @@
    "H" :> <<17, 28, 22, 16, 22, 28, 26, 26, 24, 28, 24, 28, 22, 24, 24, 30, 28, 28, 26, 28, 30, 24, 30, 30,
             30, 30, 30, 30, 30, 30, 30, 30, 30, 30, 30, 30, 30, 30, 30, 30>>

NUM_ERROR_CORRECTION_BLOCKS ==
    "L" :> <<1, 1, 1, 1, 1, 2, 2, 2, 2, 4, 4, 4, 4, 4, 6, 6, 6, 6, 7, 8, 8, 9, 9, 10, 12, 12, 12, 13, 14,
             15, 16, 17, 18, 19, 19, 20, 21, 22, 24, 25>> @@
    "M" :> <<1, 1, 1, 2, 2, 4, 4, 4, 5, 5, 5, 8, 9, 9, 10, 10, 11, 13, 14, 16, 17, 17, 18, 20, 21, 23, 25,
             26, 28, 29, 31, 33, 35, 37, 38, 40, 43, 45, 47, 49>> @@
    "Q" :> <<1, 1, 2, 2, 4, 4, 6, 6, 8, 8, 8, 10, 12, 16, 12, 17, 16, 18, 21, 20, 23, 23, 25, 27, 29, 34,
             34, 35, 38, 40, 43, 45, 48, 51, 53, 56, 59, 62, 65, 68>> @@
    "H" :> <<1, 1, 2, 4, 4, 4, 5, 6, 8, 8, 11, 11, 16, 16, 18, 16, 19, 21, 25, 25, 25, 34, 30, 32, 35, 37,
             40, 42, 45, 48, 51, 54, 57, 60, 63, 66, 70, 74, 77, 81>>

ECC_FORMAT_BITS == "L" :> {0} @@ "M" :> {} @@ "Q" :> {0, 1} @@ "H" :> {1}

\* The number n as w bits.
Bits(n, w) == {i \in 0 .. w - 1 : (n \div 2^i) % 2 = 1}
Shifted(bits, n) == {i + n : i \in bits}
Span(version) == version * 4 + 17

-----------------------------------------------------------------------------
\* How much a version holds, and how it is split into blocks.
rawDataModules(version) ==
    LET numAlign == version \div 7 + 2 IN
    (16 * version + 128) * version + 64
    - (IF version >= 2 THEN (25 * numAlign - 10) * numAlign - 55 ELSE 0)
    - (IF version >= 7 THEN 36 ELSE 0)

dataCodewordCapacity(version, ecc) ==
    rawDataModules(version) \div 8 - NUM_ERROR_CORRECTION_BLOCKS[ecc][version] * ECC_CODEWORDS_PER_BLOCK[ecc][version]

charCountBits(version) == IF version <= 9 THEN 8 ELSE 16

smallestVersionFor(byteLength, ecc) ==
    LET Fit == {v \in Versions : 4 + charCountBits(v) + byteLength * 8 <= dataCodewordCapacity(v, ecc) * 8} IN
    IF Fit = {} THEN 0 ELSE Min(Fit)

\* The lengths of the data blocks: the longer ones, by one codeword, come last.
blockStructure(version, ecc) ==
    LET raw == rawDataModules(version) \div 8
        numBlocks == NUM_ERROR_CORRECTION_BLOCKS[ecc][version]
        ecPerBlock == ECC_CODEWORDS_PER_BLOCK[ecc][version]
        numShort == numBlocks - (raw % numBlocks)
    IN  [ec |-> ecPerBlock, data |-> [b \in 1 .. numBlocks |-> raw \div numBlocks - ecPerBlock + (IF b <= numShort THEN 0 ELSE 1)]]

-----------------------------------------------------------------------------
\* The field of 256 elements, and the Reed-Solomon code over it.
Reduced(z) == SymDiff(z, IF 8 \in z THEN {0, 2, 3, 4, 8} ELSE {})

Codewords == SUBSET (0 .. 7)

gfMultiply(x, y) ==
    LET z[i \in 0 .. 8, product \in Codewords] ==
            IF i = 0 THEN product
            ELSE z[i - 1, SymDiff(Reduced(Shifted(product, 1)), IF i - 1 \in y THEN x ELSE {})]
    IN  z[8, {}]

\* SubSeq has TLC compute each coefficient once; a function's argument it
\* computes before the call, so that each round starts from a finished value.
Computed(coefficients) == SubSeq(coefficients, 1, Len(coefficients))

reedSolomonGenerator(degree) ==
    LET Grown(g, root) ==
            Computed([j \in 1 .. degree |-> SymDiff(gfMultiply(g[j], root), IF j < degree THEN g[j + 1] ELSE {})])
        after[i \in 0 .. degree, root \in Codewords, g \in Seq(Codewords)] ==
            IF i = degree THEN g ELSE after[i + 1, gfMultiply(root, {1}), Grown(g, root)]
    IN  after[0, {0}, [j \in 1 .. degree |-> IF j = degree THEN {0} ELSE {}]]

reedSolomonRemainder(data, generator) ==
    LET n == Len(generator)
        Divided(r, codeword) ==
            LET factor == SymDiff(codeword, r[1]) IN
            Computed([j \in 1 .. n |-> SymDiff(IF j < n THEN r[j + 1] ELSE {}, gfMultiply(generator[j], factor))])
        after[i \in 0 .. Len(data), r \in Seq(Codewords)] ==
            IF i = Len(data) THEN r ELSE after[i + 1, Divided(r, data[i + 1])]
    IN  after[0, [j \in 1 .. n |-> {}]]

\* Data codewords and their corrections, block by block in turn.
interleave(data, version, ecc) ==
    LET shape == blockStructure(version, ecc)
        lens == shape.data
        start == [b \in DOMAIN lens |-> MapThenSumSet(LAMBDA c : lens[c], 1 .. b - 1)]
        block == Computed([b \in DOMAIN lens |-> SubSeq(data, start[b] + 1, start[b] + lens[b])])
        generator == reedSolomonGenerator(shape.ec)
        ecBlock == Computed([b \in DOMAIN lens |-> reedSolomonRemainder(block[b], generator)])
        Woven(blocks, n) ==
            LET turns == [k \in 1 .. n * Len(lens) |-> <<((k - 1) % Len(lens)) + 1, (k - 1) \div Len(lens) + 1>>]
                taken == SelectSeq(turns, LAMBDA t : t[2] <= Len(blocks[t[1]]))
            IN  [k \in DOMAIN taken |-> blocks[taken[k][1]][taken[k][2]]]
    IN  Woven(block, lens[Len(lens)]) \o Woven(ecBlock, Len(generator))

\* The header, the bytes and the padding, cut into codewords.
bitsToCodewords(bits, capacity) ==
    LET capped == IF Len(bits) + 4 <= capacity * 8 THEN 4 ELSE capacity * 8 - Len(bits)
        ended == bits \o [i \in 1 .. capped |-> 0]
        padded == ended \o [i \in 1 .. (8 - (Len(ended) % 8)) % 8 |-> 0]
        used == Len(padded) \div 8
    IN  Computed([k \in 1 .. capacity |->
            IF k <= used THEN {i \in 0 .. 7 : padded[8 * k - i] = 1}
            ELSE IF (k - used) % 2 = 1 THEN Bits(236, 8) ELSE Bits(17, 8)])

Pushed(value, width) == [i \in 1 .. width |-> IF width - i \in value THEN 1 ELSE 0]
Bytes(data) == [j \in 1 .. 8 * Len(data) |-> IF 7 - ((j - 1) % 8) \in data[(j - 1) \div 8 + 1] THEN 1 ELSE 0]
Header(length, version) == Pushed({2}, 4) \o Pushed(Bits(length, charCountBits(version)), charCountBits(version))

codewordsOf(data, version, ecc) ==
    interleave(bitsToCodewords(Header(Len(data), version) \o Bytes(data), dataCodewordCapacity(version, ecc)), version, ecc)

-----------------------------------------------------------------------------
\* The patterns a scanner finds its way by.
alignmentPatternPositions(version) ==
    IF version = 1 THEN {}
    ELSE LET numAlign == version \div 7 + 2
             steps == numAlign * 2 - 2
             step == IF version = 32 THEN 26 ELSE ((version * 4 + 4 + steps - 1) \div steps) * 2
         IN  {6} \cup {version * 4 + 10 - k * step : k \in 0 .. numAlign - 2}

Around(c, r) == ((c[1] - r) .. (c[1] + r)) \X ((c[2] - r) .. (c[2] + r))
Grid(version) == (0 .. Span(version) - 1) \X (0 .. Span(version) - 1)

\* A drawing is the modules it covers and those of them that are dark.
Over(d, e) == [covers |-> d.covers \cup e.covers, dark |-> d.dark \cup (e.dark \ d.covers)]

drawFinderPatterns(version, C) ==
    [covers |-> UNION {Around(c, 4) : c \in C} \cap Grid(version),
     dark |-> UNION {(Around(c, 3) \ Around(c, 2)) \cup Around(c, 1) : c \in C}]
drawAlignmentPatterns(C) ==
    [covers |-> UNION {Around(c, 2) : c \in C}, dark |-> UNION {(Around(c, 2) \ Around(c, 1)) \cup {c} : c \in C}]

FinderCentres(version) == {<<3, 3>>, <<Span(version) - 4, 3>>, <<3, Span(version) - 4>>}
AlignmentCentres(version) ==
    LET at == alignmentPatternPositions(version)
        last == Span(version) - 7
    IN  (at \X at) \ {<<6, 6>>, <<6, last>>, <<last, 6>>}

\* Format information: level and mask under a BCH code, with bit i in two places.
FormatBits(ecc, mask) ==
    LET data == Shifted(ECC_FORMAT_BITS[ecc], 3) \cup mask
        rem[i \in 0 .. 10] == IF i = 0 THEN data
                              ELSE LET up == Shifted(rem[i - 1], 1) IN
                                   SymDiff(up, IF 10 \in up THEN {0, 1, 2, 4, 5, 8, 10} ELSE {})
    IN  SymDiff(Shifted(data, 10) \cup rem[10], {1, 4, 10, 12, 14})

FirstCopy(i) ==
    IF i <= 5 THEN <<8, i>> ELSE IF i = 6 THEN <<8, 7>> ELSE IF i = 7 THEN <<8, 8>>
    ELSE IF i = 8 THEN <<7, 8>> ELSE <<14 - i, 8>>
SecondCopy(i, version) == IF i < 8 THEN <<Span(version) - 1 - i, 8>> ELSE <<8, Span(version) - 15 + i>>
DarkModule(version) == <<8, Span(version) - 8>>

drawFormatBits(version, bits) ==
    LET At(I) == {FirstCopy(i) : i \in I} \cup {SecondCopy(i, version) : i \in I} \cup {DarkModule(version)} IN
    [covers |-> At(0 .. 14), dark |-> At(bits)]

VersionBits(version) ==
    LET rem[i \in 0 .. 12] == IF i = 0 THEN Bits(version, 6)
                              ELSE LET up == Shifted(rem[i - 1], 1) IN
                                   SymDiff(up, IF 12 \in up THEN {0, 2, 5, 8, 9, 10, 11, 12} ELSE {})
    IN  Shifted(Bits(version, 6), 12) \cup rem[12]

VersionPlace(i, version) == <<Span(version) - 11 + (i % 3), i \div 3>>
drawVersionBits(version) ==
    LET At(I) == {VersionPlace(i, version) : i \in I}
        Both(P) == P \cup {<<p[2], p[1]>> : p \in P}
    IN  IF version < 7 THEN [covers |-> {}, dark |-> {}]
        ELSE [covers |-> Both(At(0 .. 17)), dark |-> Both(At(VersionBits(version)))]

drawTiming(version) ==
    LET line == {p \in Grid(version) : 6 \in {p[1], p[2]}} IN
    [covers |-> line, dark |-> {p \in line : (p[1] + p[2]) % 2 = 0}]

\* Each is drawn over those after it.
drawFunctionPatterns(version) ==
    Over(drawVersionBits(version), Over(drawFormatBits(version, {}),
        Over(drawAlignmentPatterns(AlignmentCentres(version)),
             Over(drawFinderPatterns(version, FinderCentres(version)), drawTiming(version)))))

-----------------------------------------------------------------------------
\* The modules that carry data, in the order the zigzag meets them.
zigzag(version, reserved) ==
    LET size == Span(version)
        right(c) == IF size - 1 - 2 * c <= 6 THEN size - 2 - 2 * c ELSE size - 1 - 2 * c
        cell(n) == LET r == right(n \div (2 * size))
                       vert == (n % (2 * size)) \div 2
                       upward == ((r + 1) \div 2) % 2 = 0
                   IN  <<r - (n % 2), IF upward THEN size - 1 - vert ELSE vert>>
    IN  SelectSeq([n \in 1 .. size * (size - 1) |-> cell(n - 1)], LAMBDA p : p \notin reserved)

drawCodewords(version, reserved, codewords) ==
    LET path == zigzag(version, reserved) IN
    {path[i + 1] : i \in {j \in 0 .. 8 * Len(codewords) - 1 : 7 - (j % 8) \in codewords[j \div 8 + 1]}}

maskBit(mask, x, y) ==
    CASE mask = 0 -> (x + y) % 2 = 0
      [] mask = 1 -> y % 2 = 0
      [] mask = 2 -> x % 3 = 0
      [] mask = 3 -> (x + y) % 3 = 0
      [] mask = 4 -> (x \div 3 + y \div 2) % 2 = 0
      [] mask = 5 -> ((x * y) % 2) + ((x * y) % 3) = 0
      [] mask = 6 -> (((x * y) % 2) + ((x * y) % 3)) % 2 = 0
      [] mask = 7 -> (((x + y) % 2) + ((x * y) % 3)) % 2 = 0

applyMask(version, reserved, dark, mask) ==
    SymDiff(dark, {p \in Grid(version) \ reserved : maskBit(mask, p[1], p[2])})

-----------------------------------------------------------------------------
NoSymbol == [stage |-> "none"]

QrInit == symbol = NoSymbol

\* encodeQrBytes up to the matrix with its function patterns; a payload too long is refused.
LaysOut(data, ecc) ==
    LET version == smallestVersionFor(Len(data), ecc) IN
    /\ symbol = NoSymbol
    /\ version # 0
    /\ LET patterns == drawFunctionPatterns(version) IN
       symbol' = [stage |-> "laid out", version |-> version, ecc |-> ecc, data |-> data,
                  reserved |-> patterns.covers, dark |-> patterns.dark]

\* ... and the rest of it.  The mask is the one with the least penalty, of which nothing is
\* known here: any of the eight.
DrawsData(mask) ==
    LET version == symbol.version
        reserved == symbol.reserved
        filled == drawCodewords(version, reserved, codewordsOf(symbol.data, version, symbol.ecc))
        format == drawFormatBits(version, FormatBits(symbol.ecc, Bits(mask, 3)))
        masked == applyMask(version, reserved, symbol.dark \cup filled, mask)
    IN  /\ symbol.stage = "laid out"
        /\ symbol' = [symbol EXCEPT !.stage = "drawn", !.dark = format.dark \cup (masked \ format.covers)]

-----------------------------------------------------------------------------
(***************************************************************************)
(* A scanner, after the standard: where the data lies and in what order,   *)
(* the codes and the blocks are stated anew; the tables of levels and of   *)
(* masks are the encoder's.                                                *)
(***************************************************************************)
DataModules(version) ==
    LET size == Span(version)
        boxes == UNION {Around(c, 2) : c \in AlignmentCentres(version)}
        corners == ((0 .. 8) \X (0 .. 8)) \cup ((size - 8 .. size - 1) \X (0 .. 8)) \cup ((0 .. 8) \X (size - 8 .. size - 1))
        versions == IF version < 7 THEN {} ELSE ((0 .. 5) \X (size - 11 .. size - 9)) \cup ((size - 11 .. size - 9) \X (0 .. 5))
    IN  {p \in Grid(version) : 6 \notin {p[1], p[2]}} \ (boxes \cup corners \cup versions)

\* The standard's order: strips of two columns from the right, without column 6, by turns upward
\* and downward, and within a strip row by row, the right module first.
Rank(p, version) ==
    LET size == Span(version)
        left == size - 2 - (IF p[1] > 6 THEN p[1] - 1 ELSE p[1])
        strip == left \div 2
    IN  2 * (size * strip + (IF strip % 2 = 0 THEN size - 1 - p[2] ELSE p[2])) + (left % 2)

\* A multiple, as a polynomial over two elements.
Times(q, g) == FoldSet(LAMBDA i, r : SymDiff(Shifted(g, i), r), {}, q)
IsMultiple(word, g, n) == \E q \in SUBSET (0 .. n - 1) : Times(q, g) = word

\* The powers of the field's generator: squares double the exponents.
Residue(z) ==
    LET below[d \in 7 .. 15, y \in SUBSET (0 .. 15)] ==
            IF d = 7 THEN y ELSE below[d - 1, SymDiff(y, IF d \in y THEN {d - 8, d - 6, d - 5, d - 4, d} ELSE {})]
    IN  below[15, z]
power[n \in 0 .. 254] ==
    IF n < 8 THEN {n}
    ELSE IF n % 2 = 0 THEN Residue({2 * i : i \in power[n \div 2]}) ELSE Residue(Shifted(power[n - 1], 1))
Powers == Computed([n \in 1 .. 255 |-> power[n - 1]])

\* A block is a code word if it vanishes at the first powers: each bit of its value there is
\* a sum modulo 2.
Vanishes(block, n) ==
    LET Terms == {t \in (DOMAIN block) \X (0 .. 7) : t[2] \in block[t[1]]} IN
    \A m \in 0 .. 7 :
        Cardinality({t \in Terms : m \in Powers[((n * (Len(block) - t[1]) + t[2]) % 255) + 1]}) % 2 = 0

\* What a scanner takes from the symbol: the format word, the blocks, the text.
ReadsBack ==
    LET version == symbol.version
        dark == symbol.dark
        first == {i \in 0 .. 14 : FirstCopy(i) \in dark}
        second == {i \in 0 .. 14 : SecondCopy(i, version) \in dark}
        word == SymDiff(first, {1, 4, 10, 12, 14})
        mask == CHOOSE k \in 0 .. 7 : Bits(k, 3) = {i \in 0 .. 2 : i + 10 \in word}
        ecc == CHOOSE l \in Levels : ECC_FORMAT_BITS[l] = {i \in 0 .. 1 : i + 13 \in word}
        shape == blockStructure(version, ecc)
        path == zigzag(version, Grid(version) \ DataModules(version))
        lit == [j \in DOMAIN path |-> (path[j] \in dark) # maskBit(mask, path[j][1], path[j][2])]
        codeword == [k \in 1 .. Len(path) \div 8 |-> {i \in 0 .. 7 : lit[8 * k - i]}]
        numBlocks == Len(shape.data)
        short == shape.data[1]
        numShort == Cardinality({b \in 1 .. numBlocks : shape.data[b] = short})
        \* where the i-th codeword of block b stands
        place(b, i) == IF i <= short THEN (i - 1) * numBlocks + b
                       ELSE IF i <= shape.data[b] THEN short * numBlocks + b - numShort
                       ELSE (i - shape.data[b] - 1) * numBlocks + b + dataCodewordCapacity(version, ecc)
        block == Computed([b \in 1 .. numBlocks |-> Computed([i \in 1 .. shape.data[b] + shape.ec |-> codeword[place(b, i)]])])
        data == FlattenSeq([b \in 1 .. numBlocks |-> SubSeq(block[b], 1, shape.data[b])])
        bit(j) == 7 - (j % 8) \in data[j \div 8 + 1]      \* of the text, from 0
        width == IF version <= 9 THEN 8 ELSE 16
        length == MapThenSumSet(LAMBDA j : IF bit(4 + j) THEN 2^(width - 1 - j) ELSE 0, 0 .. width - 1)
    IN  /\ first = second
        /\ IsMultiple(word, {0, 1, 2, 4, 5, 8, 10}, 5)
        /\ Len(path) = rawDataModules(version)
        /\ \A j \in 1 .. Len(path) - 1 : Rank(path[j], version) < Rank(path[j + 1], version)
        /\ ecc = symbol.ecc
        /\ \A b \in 1 .. numBlocks : \A n \in 0 .. shape.ec - 1 : Vanishes(block[b], n)
        /\ {j \in 0 .. 3 : bit(j)} = {1}
        /\ length = Len(symbol.data)
        /\ \A k \in 1 .. length : symbol.data[k] = {i \in 0 .. 7 : bit(4 + width + 8 * k - 1 - i)}

-----------------------------------------------------------------------------
\* A phone reads back exactly the text that was encoded, correcting nothing, whatever the mask:
\* format word, interleaving, corrections, padding and zigzag agree with the standard's reader.
SymbolReadsBack == symbol.stage = "drawn" => ReadsBack

\* The geometry and the tables agree: what the drawn patterns leave free is what the formula of
\* the capacity counts and what a reader takes for data, the blocks of every level use it up, and
\* a version is written in the code that tells it from every other.
GeometryFits == symbol.stage = "laid out" =>
    LET v == symbol.version
        free == Grid(v) \ symbol.reserved
    IN  /\ Cardinality(free) = rawDataModules(v)
        /\ free = DataModules(v)
        /\ \A l \in Levels : LET shape == blockStructure(v, l) IN
              /\ Len(shape.data) * (shape.data[1] + shape.ec) + Cardinality({b \in DOMAIN shape.data : shape.data[b] > shape.data[1]})
                    = rawDataModules(v) \div 8
              /\ \A b \in DOMAIN shape.data : shape.data[b] > 0
        /\ v >= 7 => IsMultiple({i \in 0 .. 17 : VersionPlace(i, v) \in symbol.dark}, {0, 2, 5, 8, 9, 10, 11, 12}, 6)
=============================================================================
