---------------------------- MODULE MCRfbStream ----------------------------
(* A screen of 3 by 2 pixels, cut into tiles of 2 by 2.  The rectangles of *)
(* a family follow each other in one update, so that each finds what the   *)
(* others left; then one of every encoding follows the others.             *)
EXTENDS RfbStream

MCShown == (0..2) \X (0..1)
A == <<10, 20, 30>>
B == <<200, 100, 250>>
C == <<7, 255, 7>>
Whole == <<0, 0, 3, 2>>
Corner == <<1, 0, 2, 2>>
Low == <<0, 1, 3, 1>>

Plain == <<A, A, A, A, A, A>>
Speck == <<A, B, A, A, A, A>>
Specks3 == <<A, B, C, B, A, C>>
Small == <<B, B, A, B>>

Of(enc, at, px) == [enc |-> enc, at |-> at, px |-> px]
Styled(enc, at, px, style) == [enc |-> enc, at |-> at, px |-> px, style |-> style]
Tightly(at, px, style, stream, reset) ==
    [enc |-> "tight", at |-> at, px |-> px, style |-> style, stream |-> stream, reset |-> reset]
Photo(enc, n) == [enc |-> enc, at |-> Corner, style |-> "photo", n |-> n]
JpegFile(tables, n) == [enc |-> "jpeg", at |-> Corner, tables |-> tables, n |-> n]
CopyUp == [enc |-> "copy", at |-> <<0, 0, 3, 1>>, from |-> <<0, 1>>]
LastRect == [enc |-> "last", at |-> <<0, 0, 0, 0>>]

Hextiles == {Styled("hextile", Whole, Plain, "plain"), Styled("hextile", Whole, Speck, "plain"),
             Styled("hextile", Whole, Specks3, "full"), Styled("hextile", Low, <<B, A, A>>, "raw"),
             Styled("hextile", Corner, <<B, A, A, B>>, "plain")}
Tights == {Tightly(Whole, Plain, "fill", 0, {0, 1}), Tightly(Low, <<A, B, C>>, "copy", 0, {}),
           Tightly(Corner, Small, "copy", 1, {}), Tightly(Corner, Small, "palette", 2, {}),
           Tightly(Whole, Specks3, "palette", 3, {1}), Tightly(Low, <<C, B, A>>, "gradient", 0, {}),
           Tightly(Corner, <<C, A, A, B>>, "gradient", 1, {3})}
Zrles == {Styled("zrle", Whole, Speck, "raw"), Styled("zrle", Whole, Specks3, "palette"),
          Styled("zrle", Corner, Small, "runs"), Styled("zrle", Whole, Specks3, "indexed")}
Jpegs == {JpegFile(TRUE, 1), JpegFile(TRUE, 2), JpegFile(FALSE, 0)}
Simple == {Of("raw", Corner, Small), Of("rre", Whole, Specks3), Of("rre", Low, <<A, A, A>>),
           Of("zlib", Corner, Small), CopyUp}
Grey == <<5, 5, 5>>
Pseudo == {Of("cursor", <<1, 1, 2, 1>>, <<Grey, Grey>>),
           Styled("vmware", <<0, 1, 1, 1>>, <<Grey>>, "alpha"), Styled("vmware", <<0, 1, 1, 1>>, <<Grey>>, "classic"),
           [enc |-> "name", at |-> <<0, 0, 0, 0>>, text |-> <<76, 97>>],
           [enc |-> "led", at |-> <<0, 0, 0, 0>>, caps |-> 1, num |-> 0],
           [enc |-> "extsize", at |-> <<0, 0, 3, 2>>, screens |-> 2],
           [enc |-> "size", at |-> Whole], [enc |-> "qemu", at |-> <<0, 0, 0, 0>>], [enc |-> "mouse", at |-> <<0, 0, 0, 0>>]}

Update(rects) == [type |-> "update", rects |-> rects]
Pairs == UNION {{<<Update(<<r, s>>)>> : r \in f, s \in f} : f \in {Simple, Hextiles, Tights, Zrles}}
Files == {<<Update(<<JpegFile(TRUE, 1), r, JpegFile(FALSE, 0)>>)>> : r \in Jpegs}
Others == {<<Update(<<r, LastRect>>), Update(<<>>), Update(<<Of("raw", Corner, Small)>>)>> :
              r \in Pseudo \union {Photo("tight", 5), Photo("png", 130)}}

Text == <<<<65>>, <<66, 67>>>>
Extend(action, text) == [type |-> "extended", action |-> action, text |-> text]
Offer == Extend("caps", <<>>)
PasteText == [type |-> "paste", text |-> Text]
Messages ==
    {<<[type |-> "bell"], [type |-> "fence", flags |-> 7, text |-> <<1, 2, 3>>], [type |-> "xvp"]>>,
     <<[type |-> "cut", text |-> <<65, 10>>], [type |-> "continuous"], Update(<<>>), [type |-> "continuous"]>>,
     <<Offer, PasteText, Extend("peek", <<>>), Extend("request", <<>>), Extend("notify", <<>>)>>,
     <<Offer, Extend("peek", <<>>), Extend("request", <<>>), PasteText, Extend("request", <<>>)>>}

\* A text is only provided when it was asked for, which a view-only client does not.
MCSpoken == {<<Offer, PasteText, Extend("notify", <<>>), Extend("provide", Text), Extend("request", <<>>)>>}

MCScripts == Pairs \union Files \union Others \union Messages
ColouredCursor == {<<Update(<<Of("cursor", <<0, 0, 1, 1>>, <<B>>)>>)>>}
=============================================================================
