------------------------------ MODULE VncWire ------------------------------
(***************************************************************************)
(* What a VNC server puts on the wire, and what it means by it.  The       *)
(* server is not part of the repository: it is the reference the client's  *)
(* parsers are checked against.  A script is a sequence of messages; Emit  *)
(* adds one to the bytes, and marks every position between two parts with  *)
(* the screen the server has drawn and the reactions it may expect so far. *)
(***************************************************************************)
EXTENDS Decoders

CONSTANT Back       \* the colour encodings take as background

B16(n) == <<n \div 256, n % 256>>
B32(n) == [i \in 1..4 |-> (n \div 256^(4 - i)) % 256]
Opaque(colour) == colour \o <<0>>
Bits(flags) == SumFunction([i \in DOMAIN flags |-> IF flags[i] THEN 2^(i - 1) ELSE 0])

Codes == [raw |-> 0, copy |-> 1, rre |-> 2, hextile |-> 5, zlib |-> 6, tight |-> 7, zrle |-> 16,
          jpeg |-> 21, last |-> -224, size |-> -223, cursor |-> -239, qemu |-> -258, png |-> -260,
          led |-> -261, name |-> -307, extsize |-> -308, mouse |-> -316, vmware |-> 1464686180]

Blank(viewOnly) ==
    [bytes |-> <<>>, marks |-> {}, pastes |-> <<>>, fb |-> [p \in Shown |-> Back], said |-> <<>>,
     streams |-> Remembered.streams, bg |-> Nothing, fg |-> Nothing, quant |-> <<>>, huff |-> <<>>,
     text |-> Nothing, viewOnly |-> viewOnly, cont |-> FALSE]

Mark(z) == [z EXCEPT !.marks = @ \union {[at |-> Len(z.bytes), fb |-> z.fb, said |-> z.said]}]
Put(z, bytes) == [z EXCEPT !.bytes = @ \o bytes]
Means(z, entry) == [z EXCEPT !.said = Append(@, entry)]
Draws(z, at, px) == [z EXCEPT !.fb = [p \in Shown |-> IF Covers(at, p) THEN px[Offset(at, p)] ELSE @[p]]]

\* The picture's pixels that are not background, and where they are.
Specks(at, px) == SelectSeq([i \in DOMAIN px |-> i], LAMBDA i : px[i] # Back)
Column(at, i) == (i - 1) % at[3]
Row(at, i) == (i - 1) \div at[3]
Spread(Op(_), s) == FlattenSeq([i \in DOMAIN s |-> Op(s[i])])
PartOf(at, px, tile) ==
    [i \in 1..(tile[3] * tile[4]) |->
        px[Offset(at, <<tile[1] + Column(tile, i), tile[2] + Row(tile, i)>>)]]
Tiles(at, size) == [k \in 1..(Across(at[3], size) * Across(at[4], size)) |-> Tile(at, k - 1, size)]

-----------------------------------------------------------------------------
(* Pixels *)

Deflate(z, stream, content) ==
    Put([z EXCEPT !.streams[stream] = @ + 1], <<z.streams[stream]>> \o content)

RreBody(z, r) ==
    LET specks == Specks(r.at, r.px)
        sub(i) == Opaque(r.px[i]) \o B16(Column(r.at, i)) \o B16(Row(r.at, i)) \o B16(1) \o B16(1)
    IN  Put(z, B32(Len(specks)) \o Opaque(Back) \o Spread(sub, specks))

\* "full" colours every subrectangle, "plain" gives a foreground when it changes.
HextileBody(z, r) ==
    LET one(y, tile) ==
            LET px == PartOf(r.at, r.px, tile)
                specks == Specks(tile, px)
                full == r.style = "full"
                newBg == y.bg # Back
                newFg == ~full /\ specks # <<>> /\ y.fg # px[specks[1]]
                where(i) == <<16 * Column(tile, i) + Row(tile, i), 0>>
                sub(i) == (IF full THEN Opaque(px[i]) ELSE <<>>) \o where(i)
            IN  IF r.style = "raw" THEN [Put(y, <<1>> \o Spread(Opaque, px)) EXCEPT !.bg = Nothing, !.fg = Nothing]
                ELSE [Put(y, <<Bits(<<FALSE, newBg, newFg, specks # <<>>, full /\ specks # <<>>>>)>>
                             \o (IF newBg THEN Opaque(Back) ELSE <<>>)
                             \o (IF newFg THEN Opaque(px[specks[1]]) ELSE <<>>)
                             \o (IF specks # <<>> THEN <<Len(specks)>> \o Spread(sub, specks) ELSE <<>>))
                      EXCEPT !.bg = Back, !.fg = IF newFg THEN px[specks[1]] ELSE @]
    IN  FoldLeft(one, z, Tiles(r.at, HextileSize))

\* What a tight filter is given: sent as it is below 12 bytes.
Filtered(z, stream, content) ==
    IF Len(content) < 12 THEN Put(z, content)
    ELSE Deflate(Put(z, <<Len(content) + 1>>), stream, content)

Palette(px) == SetToSeq(Range(px))
IndexIn(palette, colour) == CHOOSE i \in DOMAIN palette : palette[i] = colour
Packed(at, indices, bits) ==
    LET byte(y, b) == SumFunction([x \in {v \in 0..(at[3] - 1) : (v * bits) \div 8 = b} |->
                          indices[y * at[3] + x + 1] * 2^(8 - bits - ((x * bits) % 8))])
    IN  [k \in 1..(at[4] * Across(at[3] * bits, 8)) |->
            byte((k - 1) \div Across(at[3] * bits, 8), (k - 1) % Across(at[3] * bits, 8))]

\* The differences to the prediction from the pixels to the left and above.
Differences(at, px) ==
    LET v(x, y, c) == IF x < 0 \/ y < 0 THEN 0 ELSE px[y * at[3] + x + 1][c]
        diff(i, c) == v(Column(at, i), Row(at, i), c)
            - Clamp(v(Column(at, i) - 1, Row(at, i), c) + v(Column(at, i), Row(at, i) - 1, c)
                        - v(Column(at, i) - 1, Row(at, i) - 1, c))
    IN  FlattenSeq([i \in DOMAIN px |-> [c \in 1..3 |-> diff(i, c) % 256]])

TightBody(z, r) ==
    LET palette == Palette(r.px)
        indices == [i \in DOMAIN r.px |-> IndexIn(palette, r.px[i]) - 1]
        ctl(high) == 16 * high + Bits([s \in 1..4 |-> s - 1 \in r.reset])
        y == [z EXCEPT !.streams = [s \in DOMAIN @ |-> IF s \in r.reset THEN 0 ELSE @[s]]]
    IN  CASE r.style = "fill" -> Put(y, <<ctl(8)>> \o r.px[1])
          [] r.style = "copy" -> Filtered(Put(y, <<ctl(r.stream)>>), r.stream, FlattenSeq(r.px))
          [] r.style = "palette" ->
                 Filtered(Put(y, <<ctl(4 + r.stream), 1, Len(palette) - 1>> \o FlattenSeq(palette)), r.stream,
                          IF Len(palette) = 2 THEN Packed(r.at, indices, 1) ELSE indices)
          [] r.style = "gradient" ->
                 Filtered(Put(y, <<ctl(4 + r.stream), 2>>), r.stream, Differences(r.at, r.px))

\* The picture of a photograph is opaque: n bytes, their length in one or two.
PhotoBody(z, r) ==
    LET data == [i \in 1..r.n |-> i % 256]
        length == IF r.n < 128 THEN <<r.n>> ELSE <<128 + (r.n % 128), r.n \div 128>>
    IN  Means(Put(z, <<IF r.enc = "png" THEN 160 ELSE 144>> \o length \o data), <<"image", r.at, data>>)

ZrleBody(z, r) ==
    LET runs(px) == FoldLeft(LAMBDA s, c : IF s # <<>> /\ s[Len(s)].c = c THEN [s EXCEPT ![Len(s)].n = @ + 1]
                                           ELSE Append(s, [c |-> c, n |-> 1]), <<>>, px)
        tile(t) ==
            LET px == PartOf(r.at, r.px, t)
                palette == Palette(px)
                indices == [i \in DOMAIN px |-> IndexIn(palette, px[i]) - 1]
                run(s) == s.c \o <<s.n - 1>>
                indexRun(s) == IF s.n = 1 THEN <<IndexIn(palette, s.c) - 1>>
                               ELSE <<127 + IndexIn(palette, s.c), s.n - 1>>
            IN  IF Len(palette) = 1 THEN <<1>> \o px[1]
                ELSE CASE r.style = "raw" -> <<0>> \o FlattenSeq(px)
                       [] r.style = "palette" -> <<Len(palette)>> \o FlattenSeq(palette)
                              \o Packed(t, indices, IF Len(palette) = 2 THEN 1 ELSE 2)
                       [] r.style = "runs" -> <<128>> \o Spread(run, runs(px))
                       [] r.style = "indexed" -> <<128 + Len(palette)>> \o FlattenSeq(palette)
                              \o Spread(indexRun, runs(px))
        content == Spread(tile, Tiles(r.at, ZrleSize))
    IN  Deflate(Put(z, B32(Len(content) + 1)), ZrleStream, content)

\* A file with tables of its own, or one that relies on those of the last.
JpegBody(z, r) ==
    LET quant == IF r.tables THEN <<255, 219, 0, 3, r.n>> ELSE <<>>
        huff == IF r.tables THEN <<255, 196, 0, 2>> ELSE <<>>
        file(q, h) == <<255, 216, 255, 192, 0, 2>> \o h \o q
                          \o <<255, 218, 0, 3, 1, 7, 255, 0, 255, 208, 9, 255, 217>>
        y == IF r.tables THEN [z EXCEPT !.quant = quant, !.huff = huff] ELSE z
    IN  Means(Put(y, file(quant, huff)), <<"image", r.at, file(y.quant, y.huff)>>)

-----------------------------------------------------------------------------
(* The rectangles of an update *)

\* A cursor is sent as a picture with a bit for every pixel that is not transparent.
Rgba(px) == Spread(LAMBDA c : c \o <<255>>, px)
CursorBody(z, r) ==
    Means(Put(z, Spread(Opaque, r.px) \o Packed(<<0, 0, r.at[3], r.at[4]>>, [i \in DOMAIN r.px |-> 1], 1)),
          <<"cursor", r.at, Rgba(r.px)>>)

VMwareBody(z, r) ==
    LET masks == [i \in 1..(4 * Len(r.px)) |-> 0]
    IN  Means(Put(z, IF r.style = "alpha" THEN <<1, 0>> \o Rgba(r.px) ELSE <<0, 0>> \o masks \o Spread(Opaque, r.px)),
              <<"cursor", r.at, Rgba(r.px)>>)

Body(z, r) ==
    CASE r.enc = "raw" -> Draws(Put(z, Spread(Opaque, r.px)), r.at, r.px)
      [] r.enc = "copy" -> Draws(Put(z, B16(r.from[1]) \o B16(r.from[2])), r.at,
             [i \in 1..(r.at[3] * r.at[4]) |-> z.fb[<<r.from[1] + Column(r.at, i), r.from[2] + Row(r.at, i)>>]])
      [] r.enc = "rre" -> Draws(RreBody(z, r), r.at, r.px)
      [] r.enc = "hextile" -> Draws(HextileBody(z, r), r.at, r.px)
      [] r.enc = "zlib" -> Draws(Deflate(Put(z, B32(4 * Len(r.px) + 1)), ZlibStream, Spread(Opaque, r.px)), r.at, r.px)
      [] r.enc = "tight" /\ r.style # "photo" -> Draws(TightBody(z, r), r.at, r.px)
      [] r.enc = "png" \/ (r.enc = "tight" /\ r.style = "photo") -> PhotoBody(z, r)
      [] r.enc = "zrle" -> Draws(ZrleBody(z, r), r.at, r.px)
      [] r.enc = "jpeg" -> JpegBody(z, r)
      [] r.enc = "cursor" -> CursorBody(z, r)
      [] r.enc = "vmware" -> VMwareBody(z, r)
      [] r.enc = "name" -> Means(Put(z, B32(Len(r.text)) \o r.text), <<"name", Nothing, r.text>>)
      [] r.enc = "led" -> Means(Put(z, <<4 * r.caps + 2 * r.num>>), <<"locks", Nothing, <<r.caps, r.num>>>>)
      [] r.enc = "extsize" -> Means(Put(z, <<r.screens, 0, 0, 0>> \o [i \in 1..(16 * r.screens) |-> i]),
                                    <<"screens", r.at, <<r.screens>>>>)
      [] r.enc = "size" -> Means(z, <<"size", r.at, Nothing>>)
      [] r.enc \in {"qemu", "mouse"} -> Means(z, <<r.enc, Nothing, Nothing>>)
      [] r.enc = "last" -> z

EmitRect(z, r) ==
    Mark(Body(Put(z, B16(r.at[1]) \o B16(r.at[2]) \o B16(r.at[3]) \o B16(r.at[4]) \o B32(Codes[r.enc])), r))

-----------------------------------------------------------------------------
(* Messages *)

\* A text is a sequence of lines: the user's have one byte between them, the wire's two.
Joined(lines, between) ==
    FoldLeft(LAMBDA s, line : IF s = <<>> THEN line ELSE s \o between \o line, <<>>, lines)
UserText(lines) == Joined(lines, <<10>>)
WireText(lines) == Joined(lines, <<13, 10>>) \o <<0>>

\* Actions of the extended clipboard, and what a client that may speak answers.
Actions == [caps |-> 31, request |-> 2, peek |-> 4, notify |-> 8, provide |-> 16]
Answered(z, m) ==
    CASE m.action = "caps" -> Means(z, <<"caps", Nothing, Nothing>>)
      [] m.action = "request" /\ ~z.viewOnly /\ z.text # Nothing -> Means(z, <<"provide", Nothing, WireText(z.text)>>)
      [] m.action = "peek" /\ ~z.viewOnly ->
             Means(z, <<"notify", Nothing, IF z.text = Nothing THEN <<0>> ELSE <<1>>>>)
      [] m.action = "notify" /\ ~z.viewOnly -> Means(z, <<"request", Nothing, Nothing>>)
      [] m.action = "provide" /\ ~z.viewOnly ->
             Means([z EXCEPT !.text = Nothing], <<"clipboard", Nothing, UserText(m.text)>>)
      [] OTHER -> z

Extended(z, m) ==
    LET text == <<0>> \o B32(Len(WireText(m.text))) \o WireText(m.text)
        body == CASE m.action = "provide" -> text [] m.action = "caps" -> B32(0) [] OTHER -> <<>>
    IN  Answered(Put(z, <<3, 0, 0, 0>> \o B32(-(4 + Len(body))) \o <<Actions[m.action], 0, 0, 1>> \o body), m)

Emit(z, m) ==
    Mark(CASE m.type = "update" ->
             LET last == m.rects # <<>> /\ m.rects[Len(m.rects)].enc = "last"
                 head == Mark(Put(z, <<0, 0>> \o (IF last THEN <<255, 255>> ELSE B16(Len(m.rects)))))
             IN  FoldLeft(EmitRect, head, m.rects)
           [] m.type = "bell" -> Means(Put(z, <<2>>), <<"bell", Nothing, Nothing>>)
           [] m.type = "continuous" ->
                  LET y == [Put(z, <<150>>) EXCEPT !.cont = TRUE]
                  IN  IF z.cont THEN y ELSE Means(y, <<"continuous", Nothing, Nothing>>)
           [] m.type = "cut" ->
                  LET y == Put(z, <<3, 0, 0, 0>> \o B32(Len(m.text)) \o m.text)
                  IN  IF z.viewOnly THEN y ELSE Means(y, <<"clipboard", Nothing, m.text>>)
           [] m.type = "extended" -> Extended(z, m)
           [] m.type = "fence" -> Means(Put(z, <<248, 0, 0, 0, 128, 0, 0, m.flags, Len(m.text)>> \o m.text),
                                        <<"fence", Nothing, <<m.flags % 4>> \o m.text>>)
           [] m.type = "xvp" -> Means(Put(z, <<250, 0, 1, 1>>), <<"xvp", Nothing, <<1>>>>)
           \* The user's part: with the extended clipboard the server is only told.
           [] m.type = "paste" ->
                  LET y == [z EXCEPT !.pastes = Append(@, [at |-> Len(z.bytes), text |-> m.text])]
                  IN  IF z.viewOnly THEN y
                      ELSE Means([y EXCEPT !.text = m.text], <<"notify", Nothing, <<1>>>>))

Told(script, viewOnly) == FoldLeft(Emit, Mark(Blank(viewOnly)), script)
=============================================================================
