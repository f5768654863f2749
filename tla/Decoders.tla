------------------------------ MODULE Decoders ------------------------------
(***************************************************************************)
(* The receive queue of a Websock and the decoders that read rectangles    *)
(* from it.  A decoder is given a rectangle and may find only part of its  *)
(* bytes: it then keeps what it needs and is called again when more have   *)
(* come.  An operator here is one turn of such a call: it gives the client *)
(* afterwards, whose ret says whether the rectangle is "done", goes on     *)
(* with what is queued ("again"), has to "wait", or cannot be read         *)
(* ("fail").                                                               *)
(***************************************************************************)
EXTENDS Integers, Sequences, FiniteSets, SequencesExt

CONSTANTS
    HextileSize,    \* side of a Hextile tile: 16 in the code
    ZrleSize,       \* side of a ZRLE tile: 64 in the code
    Shown           \* the pixels of the screen, pairs of coordinates

Colours == [1..3 -> 0..255]
Nothing == <<>>

\* The zlib streams: four of Tight, one of Zlib and one of ZRLE.
ZlibStream == 4
ZrleStream == 5

\* What a decoder keeps between two calls, and what the next rectangle needs of the last.
AtRest == [raw |-> 0, rre |-> 0, zlib |-> 0, zrle |-> 0, tiles |-> 0,
           ctl |-> -1, filter |-> -1, colours |-> 0, len |-> 0, segments |-> <<>>]
Remembered == [last |-> 0, bg |-> Nothing, fg |-> Nothing, palette |-> <<>>,
               quant |-> <<>>, huff |-> <<>>,
               streams |-> [s \in 0..5 |-> 0]]

-----------------------------------------------------------------------------
(* The queue *)

\* Mutant of Has: exactly as many bytes are not enough.
HasMore(o, n) == Len(o.rQ) - o.rQi > n
\* Mutant of WaitBack: what was read of the message is not put back.
WaitThere(o, goback) == [o EXCEPT !.ret = "wait"]

\* rQ holds every byte received; rQi is how many were read.
Has(o, n) == Len(o.rQ) - o.rQi >= n
Wait(o) == [o EXCEPT !.ret = "wait"]
WaitBack(o, goback) == [o EXCEPT !.ret = "wait", !.rQi = @ - goback]
Done(o) == [o EXCEPT !.ret = "done"]
Again(o) == [o EXCEPT !.ret = "again"]
Fail(o) == [o EXCEPT !.ret = "fail"]
Peek(o, n) == SubSeq(o.rQ, o.rQi + 1, o.rQi + n)
Skip(o, n) == [o EXCEPT !.rQi = @ + n]

\* The numbers that big-endian bytes stand for.
Shift16(b) == 256 * b[1] + b[2]
Shift32(b) == 16777216 * b[1] + 65536 * b[2] + 256 * b[3] + b[4]
Signed(b) == 16777216 * (IF b[1] < 128 THEN b[1] ELSE b[1] - 256) + 65536 * b[2] + 256 * b[3] + b[4]

-----------------------------------------------------------------------------
(* The screen *)

Covers(at, p) == p[1] \in at[1]..(at[1] + at[3] - 1) /\ p[2] \in at[2]..(at[2] + at[4] - 1)
Offset(at, p) == (p[2] - at[2]) * at[3] + p[1] - at[1] + 1

Painted(fb, at, pixels) == [p \in Shown |-> IF Covers(at, p) THEN pixels[Offset(at, p)] ELSE fb[p]]

BlitImage(o, at, pixels) == [o EXCEPT !.fb = Painted(@, at, pixels)]

FillRect(o, at, colour) == BlitImage(o, at, [i \in 1..(at[3] * at[4]) |-> colour])

CopyImage(o, from, at) ==
    [o EXCEPT !.fb = [p \in Shown |-> IF Covers(at, p)
        THEN @[<<p[1] - at[1] + from[1], p[2] - at[2] + from[2]>>] ELSE @[p]]]

\* Pictures are decoded by the browser and drawn later: what counts here is what it is given.
ImageRect(o, at, data) == [o EXCEPT !.said = Append(@, <<"image", at, data>>)]

\* The colours of n pixels of the given size, and the n-th byte of each.
Pixels(bytes, n, size) == [i \in 1..n |-> SubSeq(bytes, size * (i - 1) + 1, size * (i - 1) + 3)]
Empty(at) == at[3] = 0 \/ at[4] = 0

-----------------------------------------------------------------------------
(* Zlib streams: a block holds the number it has in its stream, then the bytes. *)

Inflates(o, stream, data, expected) ==
    Len(data) = expected + 1 /\ data[1] = o.kept.streams[stream]

Inflated(o, stream) == [o EXCEPT !.kept.streams[stream] = @ + 1]

-----------------------------------------------------------------------------
(* CopyRect, RRE, Raw, Zlib *)

CopyRect(o, at) ==
    IF ~Has(o, 4) THEN Wait(o)
    ELSE IF Empty(at) THEN Done(Skip(o, 4))
    ELSE Done(CopyImage(Skip(o, 4), <<Shift16(SubSeq(Peek(o, 4), 1, 2)), Shift16(SubSeq(Peek(o, 4), 3, 4))>>, at))

\* A call that finds no subrectangle left reads the count and the background.
RreStart(o, at) ==
    IF ~Has(o, 8) THEN Wait(o)
    ELSE LET n == Shift32(Peek(o, 4))
             filled == FillRect(Skip(o, 8), at, SubSeq(Peek(o, 8), 5, 7))
         IN  IF n = 0 THEN Done(filled) ELSE Again([filled EXCEPT !.dec.rre = n])

RreNext(o, at) ==
    IF ~Has(o, 12) THEN Wait(o)
    ELSE LET b == Peek(o, 12)
             part == <<at[1] + Shift16(SubSeq(b, 5, 6)), at[2] + Shift16(SubSeq(b, 7, 8)),
                       Shift16(SubSeq(b, 9, 10)), Shift16(SubSeq(b, 11, 12))>>
             drawn == [FillRect(Skip(o, 12), part, SubSeq(b, 1, 3)) EXCEPT !.dec.rre = @ - 1]
         IN  IF drawn.dec.rre = 0 THEN Done(drawn) ELSE Again(drawn)

Rre(o, at) == IF o.dec.rre = 0 THEN RreStart(o, at) ELSE RreNext(o, at)

\* A line at a time.
RawLine(o, at) ==
    LET left == o.dec.raw
        line == <<at[1], at[2] + at[4] - left, at[3], 1>>
        drawn == BlitImage(Skip(o, 4 * at[3]), line, Pixels(Peek(o, 4 * at[3]), at[3], 4))
        rest == [drawn EXCEPT !.dec.raw = left - 1]
    IN  IF ~Has(o, 4 * at[3]) THEN Wait(o) ELSE IF left = 1 THEN Done(rest) ELSE Again(rest)

Raw(o, at) ==
    IF Empty(at) THEN Done(o) ELSE RawLine(IF o.dec.raw = 0 THEN [o EXCEPT !.dec.raw = at[4]] ELSE o, at)

ZlibData(o, at) ==
    LET n == at[3] * at[4]
        data == Peek(o, o.dec.zlib)
        read == [Inflated(Skip(o, o.dec.zlib), ZlibStream) EXCEPT !.dec.zlib = 0]
    IN  IF ~Has(o, o.dec.zlib) THEN Wait(o)
        ELSE IF ~Inflates(o, ZlibStream, data, 4 * n) THEN Fail(o)
        ELSE Done(BlitImage(read, at, Pixels(Tail(data), n, 4)))

Zlib(o, at) ==
    IF Empty(at) THEN Done(o)
    ELSE IF o.dec.zlib # 0 THEN ZlibData(o, at)
    ELSE IF Has(o, 4) THEN ZlibData([Skip(o, 4) EXCEPT !.dec.zlib = Shift32(Peek(o, 4))], at) ELSE Wait(o)

-----------------------------------------------------------------------------
(* Hextile *)

Bit(n, i) == (n \div 2^i) % 2 = 1
Least(a, b) == IF a < b THEN a ELSE b

\* The number of tiles across n pixels, and the k-th tile, from 0, of a rectangle.
Across(n, size) == (n + size - 1) \div size
Tile(at, k, size) ==
    LET x == (k % Across(at[3], size)) * size
        y == (k \div Across(at[3], size)) * size
    IN  <<at[1] + x, at[2] + y, Least(size, at[3] - x), Least(size, at[4] - y)>>

\* The bytes of a tile; -1 when the count of its subrectangles is still to come.
TileBytes(o, tile) ==
    LET sub == Peek(o, 1)[1]
        plain == 1 + (IF Bit(sub, 1) THEN 4 ELSE 0) + (IF Bit(sub, 2) THEN 4 ELSE 0)
    IN  IF Bit(sub, 0) THEN 1 + 4 * tile[3] * tile[4]
        ELSE IF ~Bit(sub, 3) THEN plain
        ELSE IF ~Has(o, plain + 1) THEN -1
        ELSE plain + 1 + o.rQ[o.rQi + plain + 1] * (IF Bit(sub, 4) THEN 6 ELSE 2)

\* The subrectangles in b are painted in their order over the background.
SubTiles(b, coloured, fg, bg, tile) ==
    LET size == IF coloured THEN 6 ELSE 2
        part(s) == SubSeq(b, 2 + size * (s - 1), 1 + size * s)
        xy(s) == part(s)[size - 1]
        wh(s) == part(s)[size]
        covers(s, p) == Covers(<<xy(s) \div 16, xy(s) % 16, 1 + (wh(s) \div 16), 1 + (wh(s) % 16)>>, p)
        hits(p) == {s \in 1..b[1] : covers(s, p)}
        colour(s) == IF coloured THEN SubSeq(part(s), 1, 3) ELSE fg
    IN  [i \in 1..(tile[3] * tile[4]) |->
            LET p == <<(i - 1) % tile[3], (i - 1) \div tile[3]>>
            IN  IF hits(p) = {} THEN bg
                ELSE colour(CHOOSE s \in hits(p) : \A t \in hits(p) : t <= s)]

\* A whole tile is there.  A blank one repeats the background, unless the last was raw.
HextileTile(o, tile, n) ==
    LET b == Peek(o, n)
        sub == b[1]
        bgEnd == IF Bit(sub, 1) THEN 5 ELSE 1
        fgEnd == IF Bit(sub, 2) THEN bgEnd + 4 ELSE bgEnd
        bg == IF Bit(sub, 1) THEN SubSeq(b, 2, 4) ELSE o.kept.bg
        fg == IF Bit(sub, 2) THEN SubSeq(b, bgEnd + 1, bgEnd + 3) ELSE o.kept.fg
        rest == IF Bit(sub, 3) THEN SubSeq(b, fgEnd + 1, n) ELSE <<0>>
        kept == [Skip(o, n) EXCEPT !.kept.bg = bg, !.kept.fg = fg, !.kept.last = sub]
    IN  IF Bit(sub, 0)
        THEN BlitImage([Skip(o, n) EXCEPT !.kept.last = sub], tile, Pixels(Tail(b), tile[3] * tile[4], 4))
        ELSE IF sub = 0 /\ Bit(o.kept.last, 0) THEN kept
        ELSE BlitImage(kept, tile, SubTiles(rest, Bit(sub, 4), fg, bg, tile))

HextileNext(o, tile) ==
    LET n == TileBytes(o, tile)
        drawn == [HextileTile(o, tile, n) EXCEPT !.dec.tiles = @ - 1]
    IN  IF ~Has(o, 1) THEN Wait(o)
        ELSE IF Peek(o, 1)[1] > 30 THEN Fail(o)
        ELSE IF n = -1 \/ ~Has(o, n) THEN Wait(o)
        ELSE IF o.dec.tiles = 1 THEN Done(drawn) ELSE Again(drawn)

Hextile(o, at) ==
    LET total == Across(at[3], HextileSize) * Across(at[4], HextileSize)
        begun == IF o.dec.tiles = 0 THEN [o EXCEPT !.dec.tiles = total] ELSE o
    IN  IF begun.dec.tiles = 0 THEN Done(o)
        ELSE HextileNext(begun, Tile(at, total - begun.dec.tiles, HextileSize))

-----------------------------------------------------------------------------
(* Tight and TightPNG *)

\* Data preceded by its length in 1 to 3 bytes, of which 3 are waited for.
CompactLength(b) ==
    IF b[1] < 128 THEN [len |-> b[1], size |-> 1]
    ELSE IF b[2] < 128 THEN [len |-> (b[1] % 128) + 128 * b[2], size |-> 2]
    ELSE [len |-> (b[1] % 128) + 128 * (b[2] % 128) + 16384 * b[3], size |-> 3]

\* The data read is left in o.data.
DataBytes(o) ==
    IF Has(o, o.dec.len) THEN Done([Skip(o, o.dec.len) EXCEPT !.dec.len = 0, !.data = Peek(o, o.dec.len)])
    ELSE Wait(o)

ReadData(o) ==
    LET head == CompactLength(Peek(o, 3))
    IN  IF o.dec.len # 0 THEN DataBytes(o)
        ELSE IF Has(o, 3) THEN DataBytes([Skip(o, head.size) EXCEPT !.dec.len = head.len]) ELSE Wait(o)

\* Fewer than 12 bytes are sent as they are, more go through a zlib stream.
Inflate(read, stream, size) ==
    IF read.ret # "done" THEN read
    ELSE IF ~Inflates(read, stream, read.data, size) THEN Fail(read)
    ELSE [Inflated(read, stream) EXCEPT !.data = Tail(@)]

FilterData(o, stream, size) ==
    IF size >= 12 THEN Inflate(ReadData(o), stream, size)
    ELSE IF Has(o, size) THEN Done([Skip(o, size) EXCEPT !.data = Peek(o, size)]) ELSE Wait(o)

\* The rest of a rectangle once its data is there.
Drawn(o, at, pixels) == IF o.ret = "done" THEN [BlitImage(o, at, pixels) EXCEPT !.data = Nothing] ELSE o

CopyPixels(read, at) == Drawn(read, at, Pixels(read.data, at[3] * at[4], 3))

CopyFilter(o, stream, at) ==
    IF Empty(at) THEN Done(o) ELSE CopyPixels(FilterData(o, stream, 3 * at[3] * at[4]), at)

\* One bit per pixel and whole bytes per line with two colours, a byte per pixel with more.
\* The palette is read once; a rectangle without pixels leaves it to the next.
PaletteIndex(data, colours, width, i) ==
    LET x == (i - 1) % width
        row == (i - 1) \div width
    IN  IF colours = 2
        THEN IF Bit(data[row * Across(width, 8) + x \div 8 + 1], 7 - (x % 8)) THEN 1 ELSE 0
        ELSE data[i]

PalettePixels(read, at) ==
    LET index(i) == PaletteIndex(read.data, read.dec.colours, at[3], i)
        colour(k) == SubSeq(read.kept.palette, 3 * k + 1, 3 * k + 3)
    IN  IF read.ret # "done" THEN read
        ELSE [Drawn(read, at, [i \in 1..(at[3] * at[4]) |-> colour(index(i))]) EXCEPT !.dec.colours = 0]

PaletteData(o, stream, at) ==
    LET row == IF o.dec.colours <= 2 THEN Across(at[3], 8) ELSE at[3]
    IN  IF row * at[4] = 0 THEN Done([o EXCEPT !.astray = TRUE]) ELSE PalettePixels(FilterData(o, stream, row * at[4]), at)

PaletteFilter(o, stream, at) ==
    LET n == Peek(o, 1)[1] + 1
        fresh == o.dec.colours = 0
    IN  IF fresh /\ (~Has(o, 1) \/ ~Has(o, 1 + 3 * n)) THEN Wait(o)
        ELSE PaletteData(IF ~fresh THEN o
                         ELSE [Skip(o, 1 + 3 * n) EXCEPT !.dec.colours = n,
                                   !.kept.palette = SubSeq(Peek(o, 1 + 3 * n), 2, 1 + 3 * n)],
                         stream, at)

\* Each byte is the difference to what its neighbours predict.
Clamp(n) == IF n < 0 THEN 0 ELSE IF n > 255 THEN 255 ELSE n
Gradient(data, width, height) ==
    LET value[y \in 0..height, x \in 0..width, c \in 1..3] ==
            IF y = 0 \/ x = 0 THEN 0
            ELSE LET predicted == IF y = 1 THEN value[1, x - 1, c]
                         ELSE Clamp(value[y, x - 1, c] + value[y - 1, x, c] - value[y - 1, x - 1, c])
                 IN  (data[3 * (width * (y - 1) + x - 1) + c] + predicted) % 256
    IN  [i \in 1..(width * height) |->
            [c \in 1..3 |-> value[(i - 1) \div width + 1, ((i - 1) % width) + 1, c]]]

GradientPixels(read, at) == Drawn(read, at, Gradient(read.data, at[3], at[4]))

GradientFilter(o, stream, at) ==
    IF Empty(at) THEN Done(o) ELSE GradientPixels(FilterData(o, stream, 3 * at[3] * at[4]), at)

\* Mutant of Finished: the filter is left for the next rectangle.
FinishedKeeping(o) == o

\* The filter is kept until its rectangle is drawn.
Finished(o) == IF o.ret = "done" THEN [o EXCEPT !.dec.filter = -1] ELSE o

BasicFilter(o, at) ==
    LET stream == o.dec.ctl % 4
    IN  Finished(CASE o.dec.filter = 0 -> CopyFilter(o, stream, at)
                   [] o.dec.filter = 1 -> PaletteFilter(o, stream, at)
                   [] o.dec.filter = 2 -> GradientFilter(o, stream, at)
                   [] OTHER -> Fail(o))

BasicRect(o, at) ==
    IF o.dec.filter # -1 THEN BasicFilter(o, at)
    ELSE IF ~Bit(o.dec.ctl, 2) THEN BasicFilter([o EXCEPT !.dec.filter = 0], at)
    ELSE IF Has(o, 1) THEN BasicFilter([Skip(o, 1) EXCEPT !.dec.filter = Peek(o, 1)[1]], at) ELSE Wait(o)

TightFill(o, at) == IF Has(o, 3) THEN Done(FillRect(Skip(o, 3), at, Peek(o, 3))) ELSE Wait(o)

TightPicture(read, at) ==
    IF read.ret = "done" THEN [ImageRect(read, at, read.data) EXCEPT !.data = Nothing] ELSE read

TightImage(o, at) == TightPicture(ReadData(o), at)

\* The control byte resets streams as it is read, and is kept until the rectangle is drawn.
TightEnd(o) == IF o.ret = "done" THEN [o EXCEPT !.dec.ctl = -1] ELSE o

TightControl(o) ==
    LET b == Peek(o, 1)[1]
    IN  [Skip(o, 1) EXCEPT !.dec.ctl = b \div 16,
            !.kept.streams = [s \in DOMAIN @ |-> IF s \in 0..3 /\ Bit(b, s) THEN 0 ELSE @[s]]]

TightRect(o, at, png) ==
    TightEnd(CASE o.dec.ctl = 8 -> TightFill(o, at)
               [] o.dec.ctl = 9 -> TightImage(o, at)
               [] o.dec.ctl = 10 /\ png -> TightImage(o, at)
               [] o.dec.ctl < 8 /\ ~png -> BasicRect(o, at)
               [] OTHER -> Fail(o))

Tight(o, at, png) ==
    IF o.dec.ctl # -1 THEN TightRect(o, at, png)
    ELSE IF Has(o, 1) THEN TightRect(TightControl(o), at, png) ELSE Wait(o)

-----------------------------------------------------------------------------
(* ZRLE *)

\* Lengths are a sum of bytes that ends with one below 255.  Each gives the value read
\* and how many bytes were.
RleLength(b) ==
    LET last == CHOOSE i \in DOMAIN b : b[i] < 255 /\ \A j \in 1..(i - 1) : b[j] = 255
    IN  [n |-> 255 * (last - 1) + b[last] + 1, used |-> last]

\* One run more: of a colour, or of an index of the palette (Nothing if there is none).
Run(b, palette) ==
    LET indexed == palette # Nothing
        head == IF indexed THEN 1 ELSE 3
        colour == IF indexed THEN palette[(b[1] % 128) + 1] ELSE SubSeq(b, 1, 3)
        length == IF indexed /\ b[1] < 128 THEN [n |-> 1, used |-> 0]
                  ELSE RleLength(SubSeq(b, head + 1, Len(b)))
    IN  [pixels |-> [i \in 1..length.n |-> colour], used |-> head + length.used]

\* n pixels are at most n runs.
Runs(b, palette, n) ==
    LET more(d, i) ==
            LET run == Run(SubSeq(b, d.used + 1, Len(b)), palette)
            IN  IF Len(d.pixels) >= n THEN d
                ELSE [pixels |-> d.pixels \o run.pixels, used |-> d.used + run.used]
    IN  FoldLeft(more, [pixels |-> <<>>, used |-> 0], [i \in 1..n |-> i])

\* Indices of 1, 2 or 4 bits, packed from the left; every line begins a byte.
PackedPalette(b, palette, tile) ==
    LET bits == IF Len(palette) <= 2 THEN 1 ELSE IF Len(palette) <= 4 THEN 2 ELSE 4
        row == Across(tile[3] * bits, 8)
        index(i) == LET x == ((i - 1) % tile[3]) * bits
                        byte == b[((i - 1) \div tile[3]) * row + x \div 8 + 1]
                    IN  byte \div 2^(8 - bits - (x % 8)) % 2^bits
    IN  [pixels |-> [i \in 1..(tile[3] * tile[4]) |-> palette[index(i) + 1]], used |-> row * tile[4]]

\* The tile at the head of the inflated bytes b.
ZrleTile(b, tile) ==
    LET n == tile[3] * tile[4]
        sub == b[1]
        rest == Tail(b)
        colours == IF sub < 128 THEN sub ELSE sub - 128
        palette == Pixels(rest, colours, 3)
        body == SubSeq(rest, 3 * colours + 1, Len(rest))
        plus(d, used) == [d EXCEPT !.used = @ + used]
    IN  CASE sub = 0 -> [pixels |-> Pixels(rest, n, 3), used |-> 1 + 3 * n]
          [] sub = 1 -> [pixels |-> [i \in 1..n |-> SubSeq(rest, 1, 3)], used |-> 4]
          [] sub \in 2..16 -> plus(PackedPalette(body, palette, tile), 1 + 3 * colours)
          [] sub = 128 -> plus(Runs(rest, Nothing, n), 1)
          [] sub \in 130..255 -> plus(Runs(body, palette, n), 1 + 3 * colours)

\* The screen when the tiles in b are painted one after the other.
ZrleTiles(fb, at, b) ==
    LET one(d, tile) ==
            LET next == ZrleTile(SubSeq(b, d.used + 1, Len(b)), tile)
            IN  [fb |-> Painted(d.fb, tile, next.pixels), used |-> d.used + next.used]
        total == Across(at[3], ZrleSize) * Across(at[4], ZrleSize)
    IN  FoldLeft(one, [fb |-> fb, used |-> 0], [k \in 1..total |-> Tile(at, k - 1, ZrleSize)]).fb

ZrleData(o, at) ==
    LET data == Peek(o, o.dec.zrle)
        read == [Inflated(Skip(o, o.dec.zrle), ZrleStream) EXCEPT !.dec.zrle = 0]
    IN  IF ~Has(o, o.dec.zrle) THEN Wait(o)
        ELSE IF data[1] # o.kept.streams[ZrleStream] THEN Fail(o)
        ELSE Done([read EXCEPT !.fb = ZrleTiles(@, at, Tail(data))])

Zrle(o, at) ==
    IF o.dec.zrle # 0 THEN ZrleData(o, at)
    ELSE IF Has(o, 4) THEN ZrleData([Skip(o, 4) EXCEPT !.dec.zrle = Shift32(Peek(o, 4))], at) ELSE Wait(o)

-----------------------------------------------------------------------------
(* JPEG *)

\* Of a scan the length is not known: it ends before the first marker, which is a byte
\* after 255 that is neither 0 nor a restart.  0 when the marker is not there yet.
ScanEnd(o, length) ==
    LET ends == {i \in (o.rQi + 4 + length)..Len(o.rQ) :
                    o.rQ[i - 1] = 255 /\ o.rQ[i] # 0 /\ o.rQ[i] \notin 208..215}
    IN  IF ends = {} THEN 0 ELSE (CHOOSE i \in ends : \A j \in ends : i <= j) - 2 - o.rQi

\* One segment at a time; one that is not whole is left in the queue.
Segment(o) ==
    LET type == Peek(o, 2)[2]
        length == Shift16(SubSeq(Peek(o, 4), 3, 4))
        size == IF type \in 208..217 \/ type = 1 THEN 2
                ELSE IF type = 218 THEN ScanEnd(o, length) ELSE 2 + length
    IN  IF ~Has(o, 2) THEN Wait(o)
        ELSE IF Peek(o, 2)[1] # 255 THEN Fail(o)
        ELSE IF type \in 208..217 \/ type = 1 THEN Done([Skip(o, 2) EXCEPT !.data = Peek(o, 2)])
        ELSE IF ~Has(o, 4) THEN Wait(o)
        ELSE IF length < 2 THEN Fail(o)
        ELSE IF ~Has(o, 2 + length) \/ size = 0 THEN Wait(o)
        ELSE Done([Skip(o, size) EXCEPT !.data = Peek(o, size)])

\* Mutant of Tables: a picture without tables leaves none.
TablesOwn(own, kept) == own

\* The tables to keep after a picture.
Tables(own, kept) == IF own = <<>> THEN kept ELSE own

\* A picture without tables takes those of the last one that had some.
JpegImage(o, at) ==
    LET all == o.dec.segments
        of(t) == SelectSeq(all, LAMBDA s : s[2] = t)
        sof == CHOOSE i \in DOMAIN all : all[i][2] \in {192, 194} /\ \A j \in 1..(i - 1) : all[j][2] \notin {192, 194}
        quant == IF of(219) = <<>> THEN o.kept.quant ELSE <<>>
        huff == IF of(196) = <<>> THEN o.kept.huff ELSE <<>>
        whole == SubSeq(all, 1, sof) \o huff \o quant \o SubSeq(all, sof + 1, Len(all))
    IN  IF ~\E s \in Range(all) : s[2] \in {192, 194} THEN Fail(o)
        ELSE Done([ImageRect(o, at, FlattenSeq(whole)) EXCEPT
                 !.kept.quant = Tables(of(219), @),
                 !.kept.huff = Tables(of(196), @), !.dec.segments = <<>>])

JpegSegment(read, at) ==
    LET more == [read EXCEPT !.dec.segments = Append(@, read.data), !.data = Nothing]
    IN  IF read.ret # "done" THEN read
        ELSE IF read.data[2] = 217 THEN JpegImage(more, at) ELSE Again(more)

Jpeg(o, at) == JpegSegment(Segment(o), at)
=============================================================================
