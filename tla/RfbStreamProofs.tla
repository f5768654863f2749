-------------------------- MODULE RfbStreamProofs --------------------------
(***************************************************************************)
(* What RfbStream guarantees for any scripts of servers and users, tiles   *)
(* and screen: where the stream is cut makes no difference, and nothing of *)
(* a rectangle is left when it is done.  Of each decoder and handler one   *)
(* lemma says that a turn resumes: when it waits, the next turn will do    *)
(* what this one would have done with all the bytes; when it does not, it  *)
(* has done just that.  Another says what it keeps between two turns.      *)
(***************************************************************************)
EXTENDS RfbStream, FiniteSetTheorems, SequenceTheorems, WellFoundedInduction, TLAPS

-----------------------------------------------------------------------------
(* Clients and queues *)

Byte == 0..255

\* What a client is made of, and what its decoders keep.
Fields ==
    {"rQ", "rQi", "ret", "data", "running", "failed", "fb", "said", "dec", "kept", "rects", "rect",
     "viewOnly", "text", "formats", "actions", "cont", "pasted", "astray"}
DecFields == {"raw", "rre", "zlib", "zrle", "tiles", "ctl", "filter", "colours", "len", "segments"}

Shape(c) == c = [f \in Fields |-> c[f]]
DecShape(d) == d = [f \in DecFields |-> d[f]]

Client(c) ==
    /\ Shape(c) /\ DecShape(c.dec)
    /\ c.rQ \in Seq(Byte) /\ c.rQi \in Nat
    /\ c.dec.zlib \in Nat /\ c.dec.zrle \in Nat /\ c.dec.len \in Nat /\ c.dec.colours \in Nat

\* The client with all the bytes of w in its queue, of which the first are there.
With(c, w) == [c EXCEPT !.rQ = w]
Begins(s, w) == Len(s) <= Len(w) /\ \A i \in 1..Len(s) : s[i] = w[i]
Reader(c, w) == Client(c) /\ w \in Seq(Byte) /\ Begins(c.rQ, w)

\* What a decoder keeps, changed.
SetRaw(c, x) == [c EXCEPT !.dec.raw = x]
SetRre(c, x) == [c EXCEPT !.dec.rre = x]
SetZlib(c, x) == [c EXCEPT !.dec.zlib = x]
SetZrle(c, x) == [c EXCEPT !.dec.zrle = x]
SetTiles(c, x) == [c EXCEPT !.dec.tiles = x]
SetCtl(c, x) == [c EXCEPT !.dec.ctl = x]
SetFilter(c, x) == [c EXCEPT !.dec.filter = x]
SetColours(c, x) == [c EXCEPT !.dec.colours = x]
SetLen(c, x) == [c EXCEPT !.dec.len = x]
SetSegments(c, x) == [c EXCEPT !.dec.segments = x]
SetData(c, x) == [c EXCEPT !.data = x]
SetAstray(c) == [c EXCEPT !.astray = TRUE]
SetPalette(c, n, x) == [c EXCEPT !.dec.colours = n, !.kept.palette = x]
SetControl(c, b) ==
    [c EXCEPT !.dec.ctl = b \div 16,
              !.kept.streams = [s \in DOMAIN @ |-> IF s \in 0..3 /\ Bit(b, s) THEN 0 ELSE @[s]]]
SetLast(c, x) == [c EXCEPT !.kept.last = x]
SetTile(c, bg, fg, last) == [c EXCEPT !.kept.bg = bg, !.kept.fg = fg, !.kept.last = last]

\* What reading does to the rest of the client.
Frame(c, n) ==
    /\ Client(n) /\ n.rQ = c.rQ /\ n.running = c.running /\ n.failed = c.failed
    /\ n.rects = c.rects /\ n.rect = c.rect /\ n.pasted = c.pasted /\ n.viewOnly = c.viewOnly
    /\ (n.astray \/ ~c.astray) /\ (~n.astray /\ c.rQi <= Len(c.rQ) => n.rQi <= Len(c.rQ))

\* now is what a turn makes of the client, then what it would with all bytes there, and later
\* what the next one will make of now when they are.
Reads(c, w, now, then, later) ==
    /\ Frame(c, now)
    /\ IF now.ret = "wait" THEN later = then ELSE then = With(now, w)

Place == {<<x, y, width, height>> : x \in Nat, y \in Nat, width \in Nat, height \in Nat}

\* A part of a sequence of bytes is one, and has as many entries as were asked for.
LEMMA Slices ==
  ASSUME NEW s \in Seq(Byte), NEW i \in Nat, NEW n \in Nat, i + n <= Len(s)
  PROVE  /\ SubSeq(s, i + 1, i + n) \in Seq(Byte) /\ Len(SubSeq(s, i + 1, i + n)) = n
         /\ \A j \in 1..n : SubSeq(s, i + 1, i + n)[j] = s[i + j]
  OBVIOUS

\* What is looked at in the queue is there, and the same, when more bytes follow.
LEMMA Queue ==
  ASSUME NEW c, NEW w, Reader(c, w), NEW n \in Nat, Has(c, n)
  PROVE  /\ Has(With(c, w), n) /\ Peek(With(c, w), n) = Peek(c, n)
         /\ Peek(c, n) \in Seq(Byte) /\ Len(Peek(c, n)) = n
         /\ \A i \in 1..n : Peek(c, n)[i] = c.rQ[c.rQi + i] /\ Peek(c, n)[i] \in Byte
         /\ c.rQi + n <= Len(c.rQ)
<1> DEFINE v == With(c, w)
<1>0. c.rQ \in Seq(Byte) /\ w \in Seq(Byte) /\ c.rQi \in Nat
  BY DEF Reader, Client
<1>1. v.rQ = w /\ v.rQi = c.rQi
  BY DEF Reader, Client, Shape, With, Fields
<1>2. c.rQi + n <= Len(c.rQ) /\ Len(c.rQ) <= Len(w) /\ Len(c.rQ) \in Nat /\ Len(w) \in Nat
  BY DEF Reader, Client, Begins, Has
<1>3. Has(v, n)
  BY <1>1, <1>2 DEF Has, Reader, Client
<1>4. Peek(c, n) \in Seq(Byte) /\ Len(Peek(c, n)) = n /\ \A i \in 1..n : Peek(c, n)[i] = c.rQ[c.rQi + i]
  BY <1>0, <1>2, Slices DEF Peek
<1>5. Peek(v, n) \in Seq(Byte) /\ Len(Peek(v, n)) = n /\ \A i \in 1..n : Peek(v, n)[i] = w[c.rQi + i]
  <2>1. Peek(v, n) = SubSeq(w, c.rQi + 1, c.rQi + n)
    BY <1>1 DEF Peek
  <2>2. c.rQi + n <= Len(w)
    BY <1>0, <1>2
  <2>3. /\ SubSeq(w, c.rQi + 1, c.rQi + n) \in Seq(Byte) /\ Len(SubSeq(w, c.rQi + 1, c.rQi + n)) = n
        /\ \A i \in 1..n : SubSeq(w, c.rQi + 1, c.rQi + n)[i] = w[c.rQi + i]
    BY <1>0, <2>2, Slices
  <2> HIDE DEF v
  <2> QED BY <2>1, <2>3
<1>6. \A i \in 1..n : c.rQ[c.rQi + i] = w[c.rQi + i]
  <2>1. \A j \in 1..Len(c.rQ) : c.rQ[j] = w[j]
    BY DEF Reader, Begins
  <2>2. \A i \in 1..n : c.rQi + i \in 1..Len(c.rQ)
    BY <1>0, <1>2
  <2> QED BY <2>1, <2>2
<1>7. \A i \in 1..n : Peek(v, n)[i] = Peek(c, n)[i]
  BY <1>4, <1>5, <1>6
<1>8. Peek(v, n) = Peek(c, n)
  BY <1>4, <1>5, <1>7, SeqEqual
<1>9. \A i \in 1..n : Peek(c, n)[i] \in Byte
  BY <1>4, ElementOfSeq
<1> QED BY <1>2, <1>3, <1>4, <1>8, <1>9

\* Fewer bytes are there when more are.
LEMMA Fewer ==
  ASSUME NEW c, Client(c), NEW n \in Nat, NEW m \in Nat, m <= n, Has(c, n)
  PROVE  Has(c, m)
  BY DEF Has, Client

\* Reading, drawing and the ends of a turn do with a longer queue what they do with this one.
LEMMA Commuting ==
  ASSUME NEW c, NEW w
  PROVE  /\ Wait(With(c, w)) = With(Wait(c), w) /\ Done(With(c, w)) = With(Done(c), w)
         /\ Again(With(c, w)) = With(Again(c), w) /\ Fail(With(c, w)) = With(Fail(c), w)
         /\ \A n : Skip(With(c, w), n) = With(Skip(c, n), w)
         /\ \A at, px : BlitImage(With(c, w), at, px) = With(BlitImage(c, at, px), w)
         /\ \A at, px : FillRect(With(c, w), at, px) = With(FillRect(c, at, px), w)
         /\ \A at, from : CopyImage(With(c, w), from, at) = With(CopyImage(c, from, at), w)
         /\ \A at, data : ImageRect(With(c, w), at, data) = With(ImageRect(c, at, data), w)
         /\ \A s : Inflated(With(c, w), s) = With(Inflated(c, s), w)
<1>1. Wait(With(c, w)) = With(Wait(c), w) /\ Done(With(c, w)) = With(Done(c), w)
  BY DEF With, Wait, Done
<1>2. Again(With(c, w)) = With(Again(c), w) /\ Fail(With(c, w)) = With(Fail(c), w)
  BY DEF With, Again, Fail
<1>3. \A n : Skip(With(c, w), n) = With(Skip(c, n), w)
  BY DEF With, Skip
<1>4. \A at, px : BlitImage(With(c, w), at, px) = With(BlitImage(c, at, px), w)
  BY DEF With, BlitImage
<1>5. \A at, px : FillRect(With(c, w), at, px) = With(FillRect(c, at, px), w)
  BY <1>4 DEF FillRect
<1>6. \A at, from : CopyImage(With(c, w), from, at) = With(CopyImage(c, from, at), w)
  BY DEF With, CopyImage
<1>7. \A at, data : ImageRect(With(c, w), at, data) = With(ImageRect(c, at, data), w)
  BY DEF With, ImageRect
<1>8. \A s : Inflated(With(c, w), s) = With(Inflated(c, s), w)
  BY DEF With, Inflated
<1> QED BY <1>1, <1>2, <1>3, <1>4, <1>5, <1>6, <1>7, <1>8

\* The same, one by one.
LEMMA SkipWith ==
  ASSUME NEW c, NEW w, NEW n
  PROVE  Skip(With(c, w), n) = With(Skip(c, n), w)
  BY Commuting

\* A drawn image does not depend on the queue.
LEMMA BlitWith ==
  ASSUME NEW c, NEW w, NEW at, NEW px
  PROVE  BlitImage(With(c, w), at, px) = With(BlitImage(c, at, px), w)
  BY Commuting

\* Nor does a filled rectangle.
LEMMA FillWith ==
  ASSUME NEW c, NEW w, NEW at, NEW px
  PROVE  FillRect(With(c, w), at, px) = With(FillRect(c, at, px), w)
  BY Commuting

\* Nor does a picture for the browser.
LEMMA ImageWith ==
  ASSUME NEW c, NEW w, NEW at, NEW data
  PROVE  ImageRect(With(c, w), at, data) = With(ImageRect(c, at, data), w)
  BY Commuting

\* Nor does the count of a zlib stream.
LEMMA InflatedWith ==
  ASSUME NEW c, NEW w, NEW s
  PROVE  Inflated(With(c, w), s) = With(Inflated(c, s), w)
  BY Commuting

\* Only the queue of a client that is given more bytes is another.
LEMMA Untouched ==
  ASSUME NEW c, Client(c), NEW w
  PROVE  /\ With(c, w).rQi = c.rQi /\ With(c, w).ret = c.ret /\ With(c, w).data = c.data
         /\ With(c, w).dec = c.dec /\ With(c, w).kept = c.kept /\ With(c, w).rects = c.rects
         /\ With(c, w).rect = c.rect /\ With(c, w).viewOnly = c.viewOnly /\ With(c, w).text = c.text
         /\ With(c, w).actions = c.actions /\ With(c, w).cont = c.cont /\ With(c, w).astray = c.astray
         /\ With(c, w).rQ = w /\ With(c, w).fb = c.fb /\ With(c, w).said = c.said /\ With(c, w).running = c.running
         /\ With(c, w).failed = c.failed /\ With(c, w).pasted = c.pasted /\ With(c, w).formats = c.formats
  BY DEF With, Client, Shape, Fields

\* What one step of a turn leaves alone, and the next, both leave alone.
LEMMA Through ==
  ASSUME NEW a, NEW b, NEW c, Frame(a, b), Frame(b, c)
  PROVE  Frame(a, c)
  BY DEF Frame

\* Whatever the fields that no rectangle needs become, the rest is left alone.
LEMMA Changing ==
  ASSUME NEW c, Client(c), NEW x
  PROVE  /\ Frame(c, [c EXCEPT !.data = x]) /\ Frame(c, [c EXCEPT !.fb = x])
         /\ Frame(c, [c EXCEPT !.said = x]) /\ Frame(c, [c EXCEPT !.kept = x])
         /\ Frame(c, [c EXCEPT !.ret = x]) /\ [c EXCEPT !.ret = x].ret = x
         /\ Frame(c, [c EXCEPT !.text = x]) /\ Frame(c, [c EXCEPT !.formats = x])
         /\ Frame(c, [c EXCEPT !.actions = x]) /\ Frame(c, [c EXCEPT !.cont = x])
<1>1. Frame(c, [c EXCEPT !.data = x]) /\ Frame(c, [c EXCEPT !.fb = x])
  BY DEF Frame, Client, Shape, Fields
<1>2. Frame(c, [c EXCEPT !.said = x]) /\ Frame(c, [c EXCEPT !.kept = x])
  BY DEF Frame, Client, Shape, Fields
<1>3. Frame(c, [c EXCEPT !.ret = x]) /\ [c EXCEPT !.ret = x].ret = x
  BY DEF Frame, Client, Shape, Fields
<1>4. Frame(c, [c EXCEPT !.text = x]) /\ Frame(c, [c EXCEPT !.formats = x])
  BY DEF Frame, Client, Shape, Fields
<1>5. Frame(c, [c EXCEPT !.actions = x]) /\ Frame(c, [c EXCEPT !.cont = x])
  BY DEF Frame, Client, Shape, Fields
<1> QED BY <1>1, <1>2, <1>3, <1>4, <1>5

\* The ends of a turn, what is read and what is drawn leave the rest alone.
LEMMA Frames ==
  ASSUME NEW c, Client(c)
  PROVE  /\ Frame(c, c) /\ Frame(c, Done(c)) /\ Frame(c, Again(c)) /\ Frame(c, Fail(c))
         /\ Done(c).ret = "done" /\ Again(c).ret = "again" /\ Fail(c).ret = "fail"
         /\ c.ret = "wait" => Wait(c) = c
         /\ \A n \in Nat : Has(c, n) => Frame(c, Skip(c, n))
         /\ \A at, px : Frame(c, BlitImage(c, at, px))
         /\ \A at, px : Frame(c, FillRect(c, at, px))
         /\ \A at, from : Frame(c, CopyImage(c, from, at))
         /\ \A at, data : Frame(c, ImageRect(c, at, data))
         /\ \A s : Frame(c, Inflated(c, s))
<1>1. Frame(c, c)
  BY DEF Frame
<1>2. /\ Frame(c, Done(c)) /\ Frame(c, Again(c)) /\ Frame(c, Fail(c))
      /\ Done(c).ret = "done" /\ Again(c).ret = "again" /\ Fail(c).ret = "fail"
  BY Changing DEF Done, Again, Fail
<1>3. c.ret = "wait" => Wait(c) = c
  BY DEF Client, Shape, Fields, Wait
<1>4. ASSUME NEW n \in Nat, Has(c, n)
      PROVE  Frame(c, Skip(c, n))
  <2>1. c.rQi + n <= Len(c.rQ) /\ c.rQi \in Nat /\ c.rQi + n \in Nat /\ Len(c.rQ) \in Nat
    BY <1>4 DEF Client, Has
  <2> QED BY <2>1 DEF Frame, Client, Shape, Fields, Skip
<1>5. \A at, px : Frame(c, BlitImage(c, at, px))
  BY Changing DEF BlitImage
<1>6. \A at, px : Frame(c, FillRect(c, at, px))
  BY <1>5 DEF FillRect
<1>7. \A at, from : Frame(c, CopyImage(c, from, at))
  BY Changing DEF CopyImage
<1>8. \A at, data : Frame(c, ImageRect(c, at, data))
  BY Changing DEF ImageRect
<1>9. \A s : Frame(c, Inflated(c, s))
  BY Changing DEF Inflated
<1> QED BY <1>1, <1>2, <1>3, <1>4, <1>5, <1>6, <1>7, <1>8, <1>9

\* What the decoders keep.
LEMMA Keeping ==
  ASSUME NEW c, Client(c), NEW x
  PROVE  /\ Frame(c, SetRaw(c, x)) /\ Frame(c, SetRre(c, x))
         /\ Frame(c, SetTiles(c, x)) /\ Frame(c, SetCtl(c, x))
         /\ Frame(c, SetFilter(c, x)) /\ Frame(c, SetSegments(c, x))
         /\ x \in Nat => /\ Frame(c, SetZlib(c, x)) /\ Frame(c, SetZrle(c, x))
                         /\ Frame(c, SetLen(c, x)) /\ Frame(c, SetColours(c, x))
<1>1. Frame(c, SetRaw(c, x)) /\ Frame(c, SetRre(c, x))
  BY DEF Frame, Client, Shape, Fields, DecShape, DecFields,
      SetRaw, SetRre, SetZlib, SetZrle, SetTiles, SetCtl, SetFilter, SetColours, SetLen, SetSegments
<1>2. Frame(c, SetTiles(c, x)) /\ Frame(c, SetCtl(c, x))
  BY DEF Frame, Client, Shape, Fields, DecShape, DecFields,
      SetRaw, SetRre, SetZlib, SetZrle, SetTiles, SetCtl, SetFilter, SetColours, SetLen, SetSegments
<1>3. Frame(c, SetFilter(c, x)) /\ Frame(c, SetSegments(c, x))
  BY DEF Frame, Client, Shape, Fields, DecShape, DecFields,
      SetRaw, SetRre, SetZlib, SetZrle, SetTiles, SetCtl, SetFilter, SetColours, SetLen, SetSegments
<1>4. x \in Nat => Frame(c, SetZlib(c, x)) /\ Frame(c, SetZrle(c, x))
  BY DEF Frame, Client, Shape, Fields, DecShape, DecFields,
      SetRaw, SetRre, SetZlib, SetZrle, SetTiles, SetCtl, SetFilter, SetColours, SetLen, SetSegments
<1>5. x \in Nat => Frame(c, SetLen(c, x)) /\ Frame(c, SetColours(c, x))
  BY DEF Frame, Client, Shape, Fields, DecShape, DecFields,
      SetRaw, SetRre, SetZlib, SetZrle, SetTiles, SetCtl, SetFilter, SetColours, SetLen, SetSegments
<1> QED BY <1>1, <1>2, <1>3, <1>4, <1>5

\* What was read so far, and then one thing more.
LEMMA Onward ==
  ASSUME NEW a, NEW b, Frame(a, b), NEW x
  PROVE  /\ Frame(a, Done(b)) /\ Frame(a, Again(b)) /\ Frame(a, Fail(b))
         /\ Done(b).ret = "done" /\ Again(b).ret = "again" /\ Fail(b).ret = "fail"
         /\ \A at, px : Frame(a, BlitImage(b, at, px)) /\ Frame(a, FillRect(b, at, px))
         /\ \A at, from : Frame(a, CopyImage(b, from, at)) /\ Frame(a, ImageRect(b, at, from))
         /\ Frame(a, Inflated(b, x)) /\ Frame(a, [b EXCEPT !.data = x]) /\ Frame(a, [b EXCEPT !.fb = x])
         /\ Frame(a, [b EXCEPT !.kept = x])
         /\ Frame(a, SetRaw(b, x)) /\ Frame(a, SetRre(b, x))
         /\ Frame(a, SetTiles(b, x)) /\ Frame(a, SetCtl(b, x))
         /\ Frame(a, SetFilter(b, x)) /\ Frame(a, SetSegments(b, x))
         /\ x \in Nat => /\ Frame(a, SetZlib(b, x)) /\ Frame(a, SetZrle(b, x))
                         /\ Frame(a, SetLen(b, x)) /\ Frame(a, SetColours(b, x))
<1>1. Client(b)
  BY DEF Frame
<1>2. /\ Frame(a, Done(b)) /\ Frame(a, Again(b)) /\ Frame(a, Fail(b))
      /\ Done(b).ret = "done" /\ Again(b).ret = "again" /\ Fail(b).ret = "fail"
  BY <1>1, Frames, Through
<1>3. \A at, px : Frame(a, BlitImage(b, at, px)) /\ Frame(a, FillRect(b, at, px))
  BY <1>1, Frames, Through
<1>4. \A at, from : Frame(a, CopyImage(b, from, at)) /\ Frame(a, ImageRect(b, at, from))
  BY <1>1, Frames, Through
<1>5. Frame(a, Inflated(b, x)) /\ Frame(a, [b EXCEPT !.data = x]) /\ Frame(a, [b EXCEPT !.fb = x])
  BY <1>1, Frames, Changing, Through
<1>6. Frame(a, [b EXCEPT !.kept = x]) /\ Frame(a, SetRaw(b, x)) /\ Frame(a, SetRre(b, x))
  BY <1>1, Keeping, Changing, Through
<1>7. Frame(a, SetTiles(b, x)) /\ Frame(a, SetCtl(b, x))
  BY <1>1, Keeping, Through
<1>8. Frame(a, SetFilter(b, x)) /\ Frame(a, SetSegments(b, x))
  BY <1>1, Keeping, Through
<1>9. x \in Nat => /\ Frame(a, SetZlib(b, x)) /\ Frame(a, SetZrle(b, x))
                   /\ Frame(a, SetLen(b, x)) /\ Frame(a, SetColours(b, x))
  BY <1>1, Keeping, Through
<1> QED BY <1>2, <1>3, <1>4, <1>5, <1>6, <1>7, <1>8, <1>9

\* The end of a turn.
LEMMA Ending ==
  ASSUME NEW a, NEW b, Frame(a, b)
  PROVE  /\ Frame(a, Done(b)) /\ Frame(a, Again(b)) /\ Frame(a, Fail(b))
         /\ Done(b).ret = "done" /\ Again(b).ret = "again" /\ Fail(b).ret = "fail"
         /\ \A w : Done(With(b, w)) = With(Done(b), w) /\ Again(With(b, w)) = With(Again(b), w)
         /\ \A w : Fail(With(b, w)) = With(Fail(b), w) /\ Wait(With(b, w)) = With(Wait(b), w)
  BY Onward, Commuting

\* The screen can be set before or after the bytes behind are there.
LEMMA FbSet ==
  ASSUME NEW a, NEW w, NEW x
  PROVE  [With(a, w) EXCEPT !.fb = x] = With([a EXCEPT !.fb = x], w)
  BY DEF With

\* So can what a decoder keeps.
LEMMA SetWith ==
  ASSUME NEW c, NEW w, NEW x
  PROVE  /\ SetRaw(With(c, w), x) = With(SetRaw(c, x), w) /\ SetRre(With(c, w), x) = With(SetRre(c, x), w)
         /\ SetZlib(With(c, w), x) = With(SetZlib(c, x), w) /\ SetZrle(With(c, w), x) = With(SetZrle(c, x), w)
         /\ SetTiles(With(c, w), x) = With(SetTiles(c, x), w) /\ SetCtl(With(c, w), x) = With(SetCtl(c, x), w)
         /\ SetFilter(With(c, w), x) = With(SetFilter(c, x), w) /\ SetColours(With(c, w), x) = With(SetColours(c, x), w)
         /\ SetLen(With(c, w), x) = With(SetLen(c, x), w) /\ SetSegments(With(c, w), x) = With(SetSegments(c, x), w)
<1>1. SetRaw(With(c, w), x) = With(SetRaw(c, x), w) /\ SetRre(With(c, w), x) = With(SetRre(c, x), w)
  BY DEF With, SetRaw, SetRre
<1>2. SetZlib(With(c, w), x) = With(SetZlib(c, x), w) /\ SetZrle(With(c, w), x) = With(SetZrle(c, x), w)
  BY DEF With, SetZlib, SetZrle
<1>3. SetTiles(With(c, w), x) = With(SetTiles(c, x), w) /\ SetCtl(With(c, w), x) = With(SetCtl(c, x), w)
  BY DEF With, SetTiles, SetCtl
<1>4. SetFilter(With(c, w), x) = With(SetFilter(c, x), w) /\ SetColours(With(c, w), x) = With(SetColours(c, x), w)
  BY DEF With, SetFilter, SetColours
<1>5. SetLen(With(c, w), x) = With(SetLen(c, x), w) /\ SetSegments(With(c, w), x) = With(SetSegments(c, x), w)
  BY DEF With, SetLen, SetSegments
<1> QED BY <1>1, <1>2, <1>3, <1>4, <1>5

\* Four bytes add up to a natural number.
LEMMA Summing ==
  ASSUME NEW a \in Nat, NEW b \in Nat, NEW c \in Nat, NEW d \in Nat
  PROVE  16777216 * a + 65536 * b + 256 * c + d \in Nat
  BY SMT

\* A number of four bytes is natural.
LEMMA Numbers ==
  ASSUME NEW b \in Seq(Byte), Len(b) >= 4
  PROVE  Shift32(b) \in Nat
<1>1. Len(b) \in Nat
  OBVIOUS
<1>2. 1 \in 1..Len(b) /\ 2 \in 1..Len(b) /\ 3 \in 1..Len(b) /\ 4 \in 1..Len(b)
  BY <1>1
<1>3. b[1] \in Byte /\ b[2] \in Byte /\ b[3] \in Byte /\ b[4] \in Byte
  BY <1>2, ElementOfSeq
<1>4. \A x \in Byte : x \in Nat
  BY DEF Byte
<1>5. b[1] \in Nat /\ b[2] \in Nat /\ b[3] \in Nat /\ b[4] \in Nat
  BY <1>3, <1>4, Zenon
<1> DEFINE b1 == b[1]
           b2 == b[2]
           b3 == b[3]
           b4 == b[4]
<1>6. b1 \in Nat /\ b2 \in Nat /\ b3 \in Nat /\ b4 \in Nat
  BY <1>5
<1>7. Shift32(b) = 16777216 * b1 + 65536 * b2 + 256 * b3 + b4
  BY SMT DEF Shift32
<1> HIDE DEF b1, b2, b3, b4
<1>8. 16777216 * b1 + 65536 * b2 + 256 * b3 + b4 \in Nat
  BY <1>6, Summing, SMT
<1> QED BY <1>7, <1>8, SMT

\* Reading over bytes moves the index and nothing else.
LEMMA Skipped ==
  ASSUME NEW c, Client(c), NEW x
  PROVE  /\ Skip(c, x).ret = c.ret /\ Skip(c, x).dec = c.dec /\ Skip(c, x).kept = c.kept
         /\ Skip(c, x).data = c.data /\ Skip(c, x).rQ = c.rQ /\ Skip(c, x).rQi = c.rQi + x
  BY DEF Skip, Client, Shape, Fields

\* Bytes that are there are read over alike when more follow.
LEMMA Skipping ==
  ASSUME NEW a, NEW b, Frame(a, b), NEW n \in Nat, Has(b, n)
  PROVE  /\ Frame(a, Skip(b, n)) /\ \A w : Skip(With(b, w), n) = With(Skip(b, n), w)
         /\ Skip(b, n).ret = b.ret /\ Skip(b, n).dec = b.dec /\ Skip(b, n).kept = b.kept
         /\ Skip(b, n).data = b.data /\ Skip(b, n).rQ = b.rQ /\ Skip(b, n).rQi = b.rQi + n
<1>1. Client(b)
  BY DEF Frame
<1>2. Frame(b, Skip(b, n))
  BY <1>1, Frames
<1>3. Frame(a, Skip(b, n))
  BY <1>2, Through
<1> QED BY <1>1, <1>3, Skipped, SkipWith

\* What a decoder keeps is all that changes.
LEMMA SettingRaw ==
  ASSUME NEW a, NEW b, Frame(a, b), NEW x
  PROVE  /\ Frame(a, SetRaw(b, x))
         /\ SetRaw(b, x).ret = b.ret /\ SetRaw(b, x).dec.raw = x
         /\ SetRaw(b, x).rQi = b.rQi /\ SetRaw(b, x).rQ = b.rQ
         /\ SetRaw(b, x).kept = b.kept /\ SetRaw(b, x).data = b.data
         /\ \A w : SetRaw(With(b, w), x) = With(SetRaw(b, x), w)
<1>1. Frame(a, SetRaw(b, x))
  BY Onward
<1>2. SetRaw(b, x).ret = b.ret /\ SetRaw(b, x).dec.raw = x /\ SetRaw(b, x).rQi = b.rQi /\ SetRaw(b, x).rQ = b.rQ
  BY DEF SetRaw, Frame, Client, Shape, Fields, DecShape, DecFields
<1>3. SetRaw(b, x).kept = b.kept /\ SetRaw(b, x).data = b.data
  BY DEF SetRaw, Frame, Client, Shape, Fields
<1>4. \A w : SetRaw(With(b, w), x) = With(SetRaw(b, x), w)
  BY DEF SetRaw, With
<1> QED BY <1>1, <1>2, <1>3, <1>4

\* The same of the count of parts.
LEMMA SettingRre ==
  ASSUME NEW a, NEW b, Frame(a, b), NEW x
  PROVE  /\ Frame(a, SetRre(b, x))
         /\ SetRre(b, x).ret = b.ret /\ SetRre(b, x).dec.rre = x
         /\ SetRre(b, x).rQi = b.rQi /\ SetRre(b, x).rQ = b.rQ
         /\ SetRre(b, x).kept = b.kept /\ SetRre(b, x).data = b.data
         /\ \A w : SetRre(With(b, w), x) = With(SetRre(b, x), w)
<1>1. Frame(a, SetRre(b, x))
  BY Onward
<1>2. SetRre(b, x).ret = b.ret /\ SetRre(b, x).dec.rre = x /\ SetRre(b, x).rQi = b.rQi /\ SetRre(b, x).rQ = b.rQ
  BY DEF SetRre, Frame, Client, Shape, Fields, DecShape, DecFields
<1>3. SetRre(b, x).kept = b.kept /\ SetRre(b, x).data = b.data
  BY DEF SetRre, Frame, Client, Shape, Fields
<1>4. \A w : SetRre(With(b, w), x) = With(SetRre(b, x), w)
  BY DEF SetRre, With
<1> QED BY <1>1, <1>2, <1>3, <1>4

\* The same of the length of zlib data.
LEMMA SettingZlib ==
  ASSUME NEW a, NEW b, Frame(a, b), NEW x \in Nat
  PROVE  /\ Frame(a, SetZlib(b, x))
         /\ SetZlib(b, x).ret = b.ret /\ SetZlib(b, x).dec.zlib = x
         /\ SetZlib(b, x).rQi = b.rQi /\ SetZlib(b, x).rQ = b.rQ
         /\ SetZlib(b, x).kept = b.kept /\ SetZlib(b, x).data = b.data
         /\ \A w : SetZlib(With(b, w), x) = With(SetZlib(b, x), w)
<1>1. Frame(a, SetZlib(b, x))
  BY Onward
<1>2. SetZlib(b, x).ret = b.ret /\ SetZlib(b, x).dec.zlib = x /\ SetZlib(b, x).rQi = b.rQi /\ SetZlib(b, x).rQ = b.rQ
  BY DEF SetZlib, Frame, Client, Shape, Fields, DecShape, DecFields
<1>3. SetZlib(b, x).kept = b.kept /\ SetZlib(b, x).data = b.data
  BY DEF SetZlib, Frame, Client, Shape, Fields
<1>4. \A w : SetZlib(With(b, w), x) = With(SetZlib(b, x), w)
  BY DEF SetZlib, With
<1> QED BY <1>1, <1>2, <1>3, <1>4

\* The same of the length of ZRLE data.
LEMMA SettingZrle ==
  ASSUME NEW a, NEW b, Frame(a, b), NEW x \in Nat
  PROVE  /\ Frame(a, SetZrle(b, x))
         /\ SetZrle(b, x).ret = b.ret /\ SetZrle(b, x).dec.zrle = x
         /\ SetZrle(b, x).rQi = b.rQi /\ SetZrle(b, x).rQ = b.rQ
         /\ SetZrle(b, x).kept = b.kept /\ SetZrle(b, x).data = b.data
         /\ \A w : SetZrle(With(b, w), x) = With(SetZrle(b, x), w)
<1>1. Frame(a, SetZrle(b, x))
  BY Onward
<1>2. SetZrle(b, x).ret = b.ret /\ SetZrle(b, x).dec.zrle = x /\ SetZrle(b, x).rQi = b.rQi /\ SetZrle(b, x).rQ = b.rQ
  BY DEF SetZrle, Frame, Client, Shape, Fields, DecShape, DecFields
<1>3. SetZrle(b, x).kept = b.kept /\ SetZrle(b, x).data = b.data
  BY DEF SetZrle, Frame, Client, Shape, Fields
<1>4. \A w : SetZrle(With(b, w), x) = With(SetZrle(b, x), w)
  BY DEF SetZrle, With
<1> QED BY <1>1, <1>2, <1>3, <1>4

\* The same of the count of tiles.
LEMMA SettingTiles ==
  ASSUME NEW a, NEW b, Frame(a, b), NEW x
  PROVE  /\ Frame(a, SetTiles(b, x))
         /\ SetTiles(b, x).ret = b.ret /\ SetTiles(b, x).dec.tiles = x
         /\ SetTiles(b, x).rQi = b.rQi /\ SetTiles(b, x).rQ = b.rQ
         /\ SetTiles(b, x).kept = b.kept /\ SetTiles(b, x).data = b.data
         /\ \A w : SetTiles(With(b, w), x) = With(SetTiles(b, x), w)
<1>1. Frame(a, SetTiles(b, x))
  BY Onward
<1>2. SetTiles(b, x).ret = b.ret /\ SetTiles(b, x).dec.tiles = x /\ SetTiles(b, x).rQi = b.rQi /\ SetTiles(b, x).rQ = b.rQ
  BY DEF SetTiles, Frame, Client, Shape, Fields, DecShape, DecFields
<1>3. SetTiles(b, x).kept = b.kept /\ SetTiles(b, x).data = b.data
  BY DEF SetTiles, Frame, Client, Shape, Fields
<1>4. \A w : SetTiles(With(b, w), x) = With(SetTiles(b, x), w)
  BY DEF SetTiles, With
<1> QED BY <1>1, <1>2, <1>3, <1>4

\* The same of the control byte of Tight.
LEMMA SettingCtl ==
  ASSUME NEW a, NEW b, Frame(a, b), NEW x
  PROVE  /\ Frame(a, SetCtl(b, x))
         /\ SetCtl(b, x).ret = b.ret /\ SetCtl(b, x).dec.ctl = x
         /\ SetCtl(b, x).rQi = b.rQi /\ SetCtl(b, x).rQ = b.rQ
         /\ SetCtl(b, x).kept = b.kept /\ SetCtl(b, x).data = b.data
         /\ \A w : SetCtl(With(b, w), x) = With(SetCtl(b, x), w)
<1>1. Frame(a, SetCtl(b, x))
  BY Onward
<1>2. SetCtl(b, x).ret = b.ret /\ SetCtl(b, x).dec.ctl = x /\ SetCtl(b, x).rQi = b.rQi /\ SetCtl(b, x).rQ = b.rQ
  BY DEF SetCtl, Frame, Client, Shape, Fields, DecShape, DecFields
<1>3. SetCtl(b, x).kept = b.kept /\ SetCtl(b, x).data = b.data
  BY DEF SetCtl, Frame, Client, Shape, Fields
<1>4. \A w : SetCtl(With(b, w), x) = With(SetCtl(b, x), w)
  BY DEF SetCtl, With
<1> QED BY <1>1, <1>2, <1>3, <1>4

\* The same of its filter.
LEMMA SettingFilter ==
  ASSUME NEW a, NEW b, Frame(a, b), NEW x
  PROVE  /\ Frame(a, SetFilter(b, x))
         /\ SetFilter(b, x).ret = b.ret /\ SetFilter(b, x).dec.filter = x
         /\ SetFilter(b, x).rQi = b.rQi /\ SetFilter(b, x).rQ = b.rQ
         /\ SetFilter(b, x).kept = b.kept /\ SetFilter(b, x).data = b.data
         /\ \A w : SetFilter(With(b, w), x) = With(SetFilter(b, x), w)
<1>1. Frame(a, SetFilter(b, x))
  BY Onward
<1>2. SetFilter(b, x).ret = b.ret /\ SetFilter(b, x).dec.filter = x /\ SetFilter(b, x).rQi = b.rQi /\ SetFilter(b, x).rQ = b.rQ
  BY DEF SetFilter, Frame, Client, Shape, Fields, DecShape, DecFields
<1>3. SetFilter(b, x).kept = b.kept /\ SetFilter(b, x).data = b.data
  BY DEF SetFilter, Frame, Client, Shape, Fields
<1>4. \A w : SetFilter(With(b, w), x) = With(SetFilter(b, x), w)
  BY DEF SetFilter, With
<1> QED BY <1>1, <1>2, <1>3, <1>4

\* The same of the size of its palette.
LEMMA SettingColours ==
  ASSUME NEW a, NEW b, Frame(a, b), NEW x \in Nat
  PROVE  /\ Frame(a, SetColours(b, x))
         /\ SetColours(b, x).ret = b.ret /\ SetColours(b, x).dec.colours = x
         /\ SetColours(b, x).rQi = b.rQi /\ SetColours(b, x).rQ = b.rQ
         /\ SetColours(b, x).kept = b.kept /\ SetColours(b, x).data = b.data
         /\ \A w : SetColours(With(b, w), x) = With(SetColours(b, x), w)
<1>1. Frame(a, SetColours(b, x))
  BY Onward
<1>2. /\ SetColours(b, x).ret = b.ret /\ SetColours(b, x).dec.colours = x
      /\ SetColours(b, x).rQi = b.rQi /\ SetColours(b, x).rQ = b.rQ
  BY DEF SetColours, Frame, Client, Shape, Fields, DecShape, DecFields
<1>3. SetColours(b, x).kept = b.kept /\ SetColours(b, x).data = b.data
  BY DEF SetColours, Frame, Client, Shape, Fields
<1>4. \A w : SetColours(With(b, w), x) = With(SetColours(b, x), w)
  BY DEF SetColours, With
<1> QED BY <1>1, <1>2, <1>3, <1>4

\* The same of the length of its data.
LEMMA SettingLen ==
  ASSUME NEW a, NEW b, Frame(a, b), NEW x \in Nat
  PROVE  /\ Frame(a, SetLen(b, x))
         /\ SetLen(b, x).ret = b.ret /\ SetLen(b, x).dec.len = x
         /\ SetLen(b, x).rQi = b.rQi /\ SetLen(b, x).rQ = b.rQ
         /\ SetLen(b, x).kept = b.kept /\ SetLen(b, x).data = b.data
         /\ \A w : SetLen(With(b, w), x) = With(SetLen(b, x), w)
<1>1. Frame(a, SetLen(b, x))
  BY Onward
<1>2. SetLen(b, x).ret = b.ret /\ SetLen(b, x).dec.len = x /\ SetLen(b, x).rQi = b.rQi /\ SetLen(b, x).rQ = b.rQ
  BY DEF SetLen, Frame, Client, Shape, Fields, DecShape, DecFields
<1>3. SetLen(b, x).kept = b.kept /\ SetLen(b, x).data = b.data
  BY DEF SetLen, Frame, Client, Shape, Fields
<1>4. \A w : SetLen(With(b, w), x) = With(SetLen(b, x), w)
  BY DEF SetLen, With
<1> QED BY <1>1, <1>2, <1>3, <1>4

\* What a step of a turn leaves is a client with the same bytes behind it.
LEMMA Behind ==
  ASSUME NEW c, NEW w, Reader(c, w), NEW b, Frame(c, b)
  PROVE  Reader(b, w)
  BY DEF Reader, Frame

-----------------------------------------------------------------------------
(* The decoders: what each makes of a client does not depend on the bytes behind those it reads *)

\* Neither the source of a copy nor the rectangle without pixels is read in parts.
LEMMA CopyRectReads ==
  ASSUME NEW c, NEW w, Reader(c, w), c.ret = "wait", NEW at
  PROVE  Reads(c, w, CopyRect(c, at), CopyRect(With(c, w), at), CopyRect(With(CopyRect(c, at), w), at))
<1> DEFINE v == With(c, w)
<1>0. Client(c)
  BY DEF Reader
<1>1. CASE ~Has(c, 4)
  BY <1>0, <1>1, Frames DEF CopyRect, Reads
<1>2. CASE Has(c, 4)
  <2>1. Has(v, 4) /\ Peek(v, 4) = Peek(c, 4)
    BY <1>2, Queue
  <2>2. CopyRect(v, at) = With(CopyRect(c, at), w)
    <3> DEFINE s == Skip(c, 4)
               sv == Skip(v, 4)
               from == <<Shift16(SubSeq(Peek(c, 4), 1, 2)), Shift16(SubSeq(Peek(c, 4), 3, 4))>>
    <3>1. CopyRect(c, at) = IF Empty(at) THEN Done(s) ELSE Done(CopyImage(s, from, at))
      BY <1>2 DEF CopyRect
    <3>2. CopyRect(v, at) = IF Empty(at) THEN Done(sv) ELSE Done(CopyImage(sv, from, at))
      BY <2>1 DEF CopyRect
    <3>3. sv = With(s, w)
      BY Commuting
    <3> HIDE DEF s, sv, from
    <3>4. Done(With(s, w)) = With(Done(s), w) /\ CopyImage(With(s, w), from, at) = With(CopyImage(s, from, at), w)
      BY Commuting
    <3>5. Done(With(CopyImage(s, from, at), w)) = With(Done(CopyImage(s, from, at)), w)
      BY Commuting
    <3> QED BY <3>1, <3>2, <3>3, <3>4, <3>5
  <2>3. Frame(c, Skip(c, 4))
    BY <1>0, <1>2, Frames
  <2>4. Frame(c, CopyRect(c, at)) /\ CopyRect(c, at).ret = "done"
    BY <1>2, <2>3, Onward DEF CopyRect
  <2> QED BY <2>2, <2>4 DEF Reads
<1> QED BY <1>1, <1>2

\* RRE reads the count of its parts once, and then a part at a time.
LEMMA RreStartReads ==
  ASSUME NEW c, NEW w, Reader(c, w), Has(c, 8), NEW at
  PROVE  /\ Frame(c, RreStart(c, at)) /\ RreStart(c, at).ret # "wait"
         /\ RreStart(With(c, w), at) = With(RreStart(c, at), w)
<1> DEFINE v == With(c, w)
           n == Shift32(Peek(c, 4))
           filled == FillRect(Skip(c, 8), at, SubSeq(Peek(c, 8), 5, 7))
           more == SetRre(filled, n)
<1>0. Client(c)
  BY DEF Reader
<1>1. Has(v, 8) /\ Peek(v, 8) = Peek(c, 8) /\ Has(c, 4)
  BY <1>0, Queue, Fewer
<1>2. Peek(v, 4) = Peek(c, 4)
  BY <1>1, Queue
<1> DEFINE fv == FillRect(Skip(v, 8), at, SubSeq(Peek(c, 8), 5, 7))
<1>3. fv = With(filled, w)
  <2> DEFINE s == Skip(c, 8)
             sv == Skip(v, 8)
             px == SubSeq(Peek(c, 8), 5, 7)
  <2>1. sv = With(s, w)
    BY SkipWith
  <2>2. FillRect(With(s, w), at, px) = With(FillRect(s, at, px), w)
    BY FillWith
  <2> HIDE DEF s, sv, px
  <2> QED BY <2>1, <2>2 DEF s, sv, px
<1>4. SetRre(With(filled, w), n) = With(more, w)
  <2> HIDE DEF filled, n
  <2> QED BY SetWith
<1>5. RreStart(c, at) = IF n = 0 THEN Done(filled) ELSE Again(more)
  BY DEF RreStart, SetRre
<1>6. RreStart(v, at) = IF n = 0 THEN Done(With(filled, w)) ELSE Again(With(more, w))
  <2>1. RreStart(v, at) = IF n = 0 THEN Done(fv) ELSE Again(SetRre(fv, n))
    BY <1>1, <1>2 DEF RreStart, SetRre
  <2> HIDE DEF filled, fv, n, more
  <2> QED BY <1>3, <1>4, <2>1
<1>7. Frame(c, Skip(c, 8))
  BY <1>0, Frames
<1>8. Frame(c, filled)
  BY <1>7, Onward
<1>9. Frame(c, more)
  <2> HIDE DEF filled, n
  <2> QED BY <1>8, SettingRre
<1> HIDE DEF filled, more, n, v
<1>10. Done(With(filled, w)) = With(Done(filled), w) /\ Again(With(more, w)) = With(Again(more), w)
  BY Commuting
<1>12. RreStart(v, at) = With(RreStart(c, at), w)
  BY <1>5, <1>6, <1>10
<1>11. Frame(c, RreStart(c, at)) /\ RreStart(c, at).ret # "wait"
  BY <1>5, <1>8, <1>9, Ending
<1> QED BY <1>11, <1>12 DEF v

\* A part of an RRE rectangle is drawn, or the turn waits and nothing was read.
LEMMA RreNextReads ==
  ASSUME NEW c, NEW w, Reader(c, w), Has(c, 12), NEW at
  PROVE  /\ Frame(c, RreNext(c, at)) /\ RreNext(c, at).ret # "wait"
         /\ RreNext(With(c, w), at) = With(RreNext(c, at), w)
<1> DEFINE v == With(c, w)
           b == Peek(c, 12)
           part == <<at[1] + Shift16(SubSeq(b, 5, 6)), at[2] + Shift16(SubSeq(b, 7, 8)),
                     Shift16(SubSeq(b, 9, 10)), Shift16(SubSeq(b, 11, 12))>>
           filled == FillRect(Skip(c, 12), part, SubSeq(b, 1, 3))
           drawn == SetRre(filled, filled.dec.rre - 1)
<1>0. Client(c)
  BY DEF Reader
<1>1. Has(v, 12) /\ Peek(v, 12) = Peek(c, 12)
  BY Queue
<1>2. FillRect(Skip(v, 12), part, SubSeq(b, 1, 3)) = With(filled, w)
  <2> DEFINE s == Skip(c, 12)
             sv == Skip(v, 12)
             px == SubSeq(b, 1, 3)
  <2>1. sv = With(s, w)
    BY SkipWith
  <2>2. FillRect(With(s, w), part, px) = With(FillRect(s, part, px), w)
    BY FillWith
  <2> HIDE DEF part, b
  <2> QED BY <2>1, <2>2
<1>3. Frame(c, Skip(c, 12))
  BY <1>0, Frames
<1>4. Frame(c, filled)
  BY <1>3, Onward
<1>5. Client(filled)
  BY <1>4 DEF Frame
<1>6. SetRre(With(filled, w), With(filled, w).dec.rre - 1) = With(drawn, w)
  <2>1. With(filled, w).dec = filled.dec
    BY <1>5, Untouched
  <2> HIDE DEF filled
  <2> QED BY <2>1, SetWith
<1>7. RreNext(c, at) = IF drawn.dec.rre = 0 THEN Done(drawn) ELSE Again(drawn)
  BY DEF RreNext, SetRre
<1>8. RreNext(v, at) = IF With(drawn, w).dec.rre = 0 THEN Done(With(drawn, w)) ELSE Again(With(drawn, w))
  <2> DEFINE fv == FillRect(Skip(v, 12), part, SubSeq(b, 1, 3))
             dv == SetRre(fv, fv.dec.rre - 1)
  <2>1. RreNext(v, at) = IF dv.dec.rre = 0 THEN Done(dv) ELSE Again(dv)
    BY <1>1 DEF RreNext, SetRre
  <2>2. dv = With(drawn, w)
    <3> HIDE DEF fv, filled
    <3> QED BY <1>2, <1>6 DEF fv
  <2> HIDE DEF dv, drawn
  <2> QED BY <2>1, <2>2
<1>9. Frame(c, drawn)
  <2> HIDE DEF filled
  <2> QED BY <1>4, SettingRre
<1>10. Client(drawn)
  BY <1>9 DEF Frame
<1> HIDE DEF drawn
<1>11. With(drawn, w).dec = drawn.dec
  BY <1>10, Untouched
<1>12. RreNext(v, at) = With(RreNext(c, at), w)
  <2>1. Done(With(drawn, w)) = With(Done(drawn), w) /\ Again(With(drawn, w)) = With(Again(drawn), w)
    BY Commuting
  <2> QED BY <1>7, <1>8, <1>11, <2>1
<1>13. Frame(c, RreNext(c, at)) /\ RreNext(c, at).ret # "wait"
  BY <1>7, <1>9, Ending
<1> QED BY <1>12, <1>13

\* A turn of RRE does what it would with all bytes there.
LEMMA RreReads ==
  ASSUME NEW c, NEW w, Reader(c, w), c.ret = "wait", NEW at
  PROVE  Reads(c, w, Rre(c, at), Rre(With(c, w), at), Rre(With(Rre(c, at), w), at))
<1>0. Client(c) /\ With(c, w).dec = c.dec
  BY Untouched DEF Reader
<1>1. CASE c.dec.rre = 0 /\ Has(c, 8)
  BY <1>0, <1>1, RreStartReads DEF Rre, Reads
<1>2. CASE c.dec.rre # 0 /\ Has(c, 12)
  BY <1>0, <1>2, RreNextReads DEF Rre, Reads
<1>3. CASE c.dec.rre = 0 /\ ~Has(c, 8)
  <2>1. Rre(c, at) = c
    BY <1>0, <1>3, Frames DEF Rre, RreStart
  <2> QED BY <1>0, <2>1, Frames DEF Reads
<1>4. CASE c.dec.rre # 0 /\ ~Has(c, 12)
  <2>1. Rre(c, at) = c
    BY <1>0, <1>4, Frames DEF Rre, RreNext
  <2> QED BY <1>0, <2>1, Frames DEF Reads
<1> QED BY <1>1, <1>2, <1>3, <1>4

\* Raw pixels come a line at a time.
LEMMA RawLineReads ==
  ASSUME NEW c, NEW w, Reader(c, w), c.ret = "wait", NEW at, at[3] \in Nat, c.dec.raw # 0
  PROVE  /\ Reads(c, w, RawLine(c, at), RawLine(With(c, w), at), RawLine(With(RawLine(c, at), w), at))
         /\ RawLine(c, at).ret = "wait" => RawLine(c, at) = c
<1> DEFINE v == With(c, w)
           n == 4 * at[3]
           left == c.dec.raw
           line == <<at[1], at[2] + at[4] - left, at[3], 1>>
           drawn == BlitImage(Skip(c, n), line, Pixels(Peek(c, n), at[3], 4))
           rest == SetRaw(drawn, left - 1)
<1>0. Client(c) /\ n \in Nat /\ v.dec = c.dec
  BY Untouched DEF Reader
<1>1. CASE ~Has(c, n)
  <2>1. RawLine(c, at) = c
    BY <1>0, <1>1, Frames DEF RawLine, SetRaw
  <2> QED BY <1>0, <2>1, Frames DEF Reads
<1>2. CASE Has(c, n)
  <2>1. Has(v, n) /\ Peek(v, n) = Peek(c, n)
    BY <1>0, <1>2, Queue
  <2> DEFINE pixels == Pixels(Peek(c, n), at[3], 4)
             dv == BlitImage(Skip(v, n), line, pixels)
  <2>2. dv = With(drawn, w)
    <3> DEFINE s == Skip(c, n)
               sv == Skip(v, n)
    <3>1. sv = With(s, w)
      BY SkipWith
    <3> HIDE DEF line, pixels, n, s, sv
    <3>2. BlitImage(With(s, w), line, pixels) = With(BlitImage(s, line, pixels), w)
      BY BlitWith
    <3> QED BY <3>1, <3>2 DEF s, sv, pixels
  <2>3. SetRaw(With(drawn, w), left - 1) = With(rest, w)
    <3> HIDE DEF drawn, left
    <3> QED BY SetWith
  <2>4. RawLine(c, at) = IF left = 1 THEN Done(rest) ELSE Again(rest)
    BY <1>2 DEF RawLine, SetRaw
  <2>5. RawLine(v, at) = IF left = 1 THEN Done(With(rest, w)) ELSE Again(With(rest, w))
    <3>1. RawLine(v, at) = IF left = 1 THEN Done(SetRaw(dv, left - 1))
                           ELSE Again(SetRaw(dv, left - 1))
      BY <1>0, <2>1 DEF RawLine, SetRaw
    <3> HIDE DEF dv, drawn, rest, left
    <3> QED BY <2>2, <2>3, <3>1
  <2>6. Frame(c, Skip(c, n))
    BY <1>0, <1>2, Frames
  <2>7. Frame(c, drawn)
    BY <2>6, Onward
  <2>8. Frame(c, rest)
    <3> HIDE DEF drawn, left
    <3> QED BY <2>7, Onward
  <2> HIDE DEF rest
  <2>9. RawLine(v, at) = With(RawLine(c, at), w)
    <3>1. Done(With(rest, w)) = With(Done(rest), w) /\ Again(With(rest, w)) = With(Again(rest), w)
      BY Commuting
    <3> QED BY <2>4, <2>5, <3>1
  <2>10. Frame(c, RawLine(c, at)) /\ RawLine(c, at).ret # "wait"
    BY <2>4, <2>8, Ending
  <2> QED BY <2>9, <2>10 DEF Reads
<1> QED BY <1>1, <1>2

\* So does a turn of Raw.
LEMMA RawReads ==
  ASSUME NEW c, NEW w, Reader(c, w), c.ret = "wait", NEW at, at[3] \in Nat
  PROVE  Reads(c, w, Raw(c, at), Raw(With(c, w), at), Raw(With(Raw(c, at), w), at))
<1> DEFINE v == With(c, w)
           b == IF c.dec.raw = 0 THEN SetRaw(c, at[4]) ELSE c
<1>0. Client(c) /\ v.dec = c.dec
  BY Untouched DEF Reader
<1>1. CASE Empty(at)
  <2>1. Raw(c, at) = Done(c) /\ Raw(v, at) = With(Done(c), w)
    BY <1>1, Commuting DEF Raw, SetRaw
  <2> QED BY <1>0, <2>1, Frames DEF Reads
<1>2. CASE ~Empty(at)
  <2>1. Frame(c, b) /\ b.ret = "wait"
    <3> DEFINE h == at[4]
    <3> HIDE DEF h
    <3>1. Frame(c, c) /\ Frame(c, SetRaw(c, h)) /\ SetRaw(c, h).ret = c.ret
      BY <1>0, Frames, SettingRaw
    <3> QED BY <3>1 DEF h
  <2>2. b.dec.raw # 0
    <3> DEFINE h == at[4]
    <3>1. h # 0
      BY <1>2 DEF Empty
    <3> HIDE DEF h
    <3>2. SetRaw(c, h).dec.raw = h
      BY <1>0, Frames, SettingRaw
    <3> QED BY <3>1, <3>2 DEF h
  <2>3. (IF v.dec.raw = 0 THEN SetRaw(v, at[4]) ELSE v) = With(b, w)
    <3> DEFINE h == at[4]
    <3> HIDE DEF h
    <3>1. SetRaw(With(c, w), h) = With(SetRaw(c, h), w)
      BY SetWith
    <3> QED BY <1>0, <3>1 DEF h
  <2>4. Raw(c, at) = RawLine(b, at) /\ Raw(v, at) = RawLine(With(b, w), at)
    BY <1>2, <2>3 DEF Raw, SetRaw
  <2> HIDE DEF b
  <2>5. /\ Reads(b, w, RawLine(b, at), RawLine(With(b, w), at), RawLine(With(RawLine(b, at), w), at))
        /\ RawLine(b, at).ret = "wait" => RawLine(b, at) = b
    BY <2>1, <2>2, Behind, RawLineReads
  <2>6. ASSUME Raw(c, at).ret = "wait"
        PROVE  Raw(With(Raw(c, at), w), at) = Raw(v, at)
    <3>1. Raw(c, at) = b
      BY <2>4, <2>5, <2>6
    <3>2. With(b, w).dec = b.dec
      BY <2>1, Untouched DEF Frame
    <3> QED BY <1>2, <2>2, <2>4, <3>1, <3>2 DEF Raw, SetRaw
  <2>7. Frame(c, Raw(c, at))
    BY <2>1, <2>4, <2>5, Through DEF Reads
  <2> QED BY <2>4, <2>5, <2>6, <2>7 DEF Reads
<1> QED BY <1>1, <1>2

\* Zlib reads the length of its data once, and then the data.
LEMMA ZlibDataReads ==
  ASSUME NEW c, NEW w, Reader(c, w), c.ret = "wait", NEW at
  PROVE  /\ Reads(c, w, ZlibData(c, at), ZlibData(With(c, w), at), ZlibData(With(ZlibData(c, at), w), at))
         /\ ZlibData(c, at).ret = "wait" => ZlibData(c, at) = c /\ ~Has(c, c.dec.zlib)
<1> DEFINE v == With(c, w)
           n == c.dec.zlib
           size == at[3] * at[4]
           data == Peek(c, n)
           read == SetZlib(Inflated(Skip(c, n), ZlibStream), 0)
           drawn == Done(BlitImage(read, at, Pixels(Tail(data), size, 4)))
<1>0. Client(c) /\ v.dec = c.dec /\ v.kept = c.kept /\ n \in Nat
  BY Untouched DEF Reader, Client
<1>1. CASE ~Has(c, n)
  <2>1. ZlibData(c, at) = c
    BY <1>0, <1>1, Frames DEF ZlibData, SetZlib
  <2> QED BY <1>0, <1>1, <2>1, Frames DEF Reads
<1>2. CASE Has(c, n)
  <2>1. Has(v, n) /\ Peek(v, n) = data
    BY <1>0, <1>2, Queue
  <2>2. SetZlib(Inflated(Skip(v, n), ZlibStream), 0) = With(read, w)
    <3> DEFINE s == Skip(c, n)
               sv == Skip(v, n)
    <3>1. sv = With(s, w)
      BY SkipWith
    <3> HIDE DEF s, sv
    <3>2. Inflated(sv, ZlibStream) = With(Inflated(s, ZlibStream), w)
      BY <3>1, InflatedWith
    <3> DEFINE t == Inflated(s, ZlibStream)
               tv == Inflated(sv, ZlibStream)
    <3> HIDE DEF t, tv
    <3>3. SetZlib(tv, 0) = With(SetZlib(t, 0), w)
      BY <3>2, SetWith DEF t, tv
    <3> QED BY <3>3 DEF s, sv, t, tv
  <2>3. Inflates(v, ZlibStream, data, 4 * size) <=> Inflates(c, ZlibStream, data, 4 * size)
    BY <1>0 DEF Inflates
  <2>4. ZlibData(c, at) = IF ~Inflates(c, ZlibStream, data, 4 * size) THEN Fail(c) ELSE drawn
    BY <1>2 DEF ZlibData, SetZlib
  <2>5. Done(BlitImage(With(read, w), at, Pixels(Tail(data), size, 4))) = With(drawn, w)
    BY Commuting
  <2>6. ZlibData(v, at) = IF ~Inflates(c, ZlibStream, data, 4 * size) THEN With(Fail(c), w) ELSE With(drawn, w)
    BY <1>0, <2>1, <2>2, <2>3, <2>5, Commuting DEF ZlibData, SetZlib
  <2>7. Frame(c, Skip(c, n))
    BY <1>0, <1>2, Frames
  <2>8. Frame(c, Inflated(Skip(c, n), ZlibStream))
    BY <2>7, Onward
  <2>9. Frame(c, read)
    BY <2>8, Onward
  <2>10. Frame(c, BlitImage(read, at, Pixels(Tail(data), size, 4)))
    BY <2>9, Onward
  <2>11. Frame(c, drawn) /\ drawn.ret = "done" /\ Frame(c, Fail(c)) /\ Fail(c).ret = "fail"
    BY <1>0, <2>10, Onward, Frames
  <2> HIDE DEF drawn
  <2> QED BY <2>4, <2>6, <2>11 DEF Reads
<1> QED BY <1>1, <1>2

\* So does a turn of Zlib.
LEMMA ZlibReads ==
  ASSUME NEW c, NEW w, Reader(c, w), c.ret = "wait", NEW at
  PROVE  Reads(c, w, Zlib(c, at), Zlib(With(c, w), at), Zlib(With(Zlib(c, at), w), at))
<1> DEFINE v == With(c, w)
           n == Shift32(Peek(c, 4))
           b == SetZlib(Skip(c, 4), n)
<1>0. Client(c) /\ v.dec = c.dec
  BY Untouched DEF Reader
<1>1. CASE Empty(at)
  <2>1. Zlib(c, at) = Done(c) /\ Zlib(v, at) = With(Done(c), w)
    BY <1>1, Commuting DEF Zlib, SetZlib
  <2> QED BY <1>0, <2>1, Frames DEF Reads
<1>2. CASE ~Empty(at) /\ c.dec.zlib # 0
  <2>1. Zlib(c, at) = ZlibData(c, at) /\ Zlib(v, at) = ZlibData(v, at)
    BY <1>0, <1>2 DEF Zlib, SetZlib
  <2>2. /\ Reads(c, w, ZlibData(c, at), ZlibData(v, at), ZlibData(With(ZlibData(c, at), w), at))
        /\ ZlibData(c, at).ret = "wait" => ZlibData(c, at) = c
    BY ZlibDataReads
  <2> QED BY <2>1, <2>2 DEF Reads
<1>3. CASE ~Empty(at) /\ c.dec.zlib = 0 /\ ~Has(c, 4)
  BY <1>0, <1>3, Frames DEF Zlib, Reads, SetZlib
<1>4. CASE ~Empty(at) /\ c.dec.zlib = 0 /\ Has(c, 4)
  <2>1. Has(v, 4) /\ Peek(v, 4) = Peek(c, 4) /\ n \in Nat
    BY <1>4, Queue, Numbers
  <2>2. Frame(c, Skip(c, 4)) /\ Skip(c, 4).ret = "wait"
    BY <1>0, <1>4, Frames, Skipping
  <2>3. Frame(c, b) /\ b.ret = "wait" /\ b.dec.zlib = n /\ b.rQi = c.rQi + 4 /\ b.rQ = c.rQ
    <3>1. Client(Skip(c, 4))
      BY <2>2 DEF Frame
    <3> DEFINE s == Skip(c, 4)
    <3>2. s.rQi = c.rQi + 4 /\ s.rQ = c.rQ
      BY <1>0, Skipped
    <3> HIDE DEF s, n
    <3>3. Frame(c, SetZlib(s, n))
      BY <2>1, <2>2, SettingZlib DEF s
    <3>4. /\ SetZlib(s, n).ret = s.ret /\ SetZlib(s, n).dec.zlib = n
          /\ SetZlib(s, n).rQi = s.rQi /\ SetZlib(s, n).rQ = s.rQ
      BY <2>1, <2>2, SettingZlib DEF s
    <3> QED BY <2>2, <3>2, <3>3, <3>4 DEF s
  <2>4. SetZlib(Skip(v, 4), Shift32(Peek(v, 4))) = With(b, w)
    <3> DEFINE s == Skip(c, 4)
               sv == Skip(v, 4)
    <3>1. sv = With(s, w)
      BY SkipWith
    <3> HIDE DEF s, sv, n
    <3>2. SetZlib(sv, n) = With(SetZlib(s, n), w)
      BY <3>1, SetWith
    <3> QED BY <2>1, <3>2 DEF s, sv, n
  <2>5. Zlib(c, at) = ZlibData(b, at) /\ Zlib(v, at) = ZlibData(With(b, w), at)
    BY <1>0, <1>4, <2>1, <2>4 DEF Zlib, SetZlib
  <2> HIDE DEF b
  <2>6. /\ Reads(b, w, ZlibData(b, at), ZlibData(With(b, w), at), ZlibData(With(ZlibData(b, at), w), at))
        /\ ZlibData(b, at).ret = "wait" => ZlibData(b, at) = b /\ ~Has(b, b.dec.zlib)
    BY <2>3, Behind, ZlibDataReads
  <2>7. Frame(c, Zlib(c, at))
    BY <2>3, <2>5, <2>6, Through DEF Reads
  <2>8. ASSUME Zlib(c, at).ret = "wait"
        PROVE  Zlib(With(Zlib(c, at), w), at) = Zlib(v, at)
    <3>1. Zlib(c, at) = b /\ ~Has(b, b.dec.zlib)
      BY <2>5, <2>6, <2>8
    <3>2. With(b, w).dec = b.dec
      BY <2>3, Untouched DEF Frame
    <3>3. Has(b, 0)
      BY <1>0, <1>4, <2>3 DEF Has, Client
    <3>4. b.dec.zlib # 0
      BY <3>1, <3>3
    <3> QED BY <1>4, <2>5, <3>1, <3>2, <3>4 DEF Zlib, SetZlib
  <2> QED BY <2>5, <2>6, <2>7, <2>8 DEF Reads
<1> QED BY <1>1, <1>2, <1>3, <1>4

\* ZRLE does as Zlib, and draws a tile after the other.
LEMMA ZrleDataReads ==
  ASSUME NEW c, NEW w, Reader(c, w), c.ret = "wait", NEW at
  PROVE  /\ Reads(c, w, ZrleData(c, at), ZrleData(With(c, w), at), ZrleData(With(ZrleData(c, at), w), at))
         /\ ZrleData(c, at).ret = "wait" => ZrleData(c, at) = c /\ ~Has(c, c.dec.zrle)
<1> DEFINE v == With(c, w)
           n == c.dec.zrle
           data == Peek(c, n)
           read == SetZrle(Inflated(Skip(c, n), ZrleStream), 0)
           drawn == [read EXCEPT !.fb = ZrleTiles(read.fb, at, Tail(data))]
<1>0. Client(c) /\ v.dec = c.dec /\ v.kept = c.kept /\ n \in Nat
  BY Untouched DEF Reader, Client
<1>1. CASE ~Has(c, n)
  <2>1. ZrleData(c, at) = c
    BY <1>0, <1>1, Frames DEF ZrleData, SetZrle
  <2> QED BY <1>0, <1>1, <2>1, Frames DEF Reads
<1>2. CASE Has(c, n)
  <2>1. Has(v, n) /\ Peek(v, n) = data
    BY <1>0, <1>2, Queue
  <2>2. SetZrle(Inflated(Skip(v, n), ZrleStream), 0) = With(read, w)
    <3> DEFINE s == Skip(c, n)
               sv == Skip(v, n)
    <3>1. sv = With(s, w)
      BY SkipWith
    <3> HIDE DEF s, sv
    <3>2. Inflated(sv, ZrleStream) = With(Inflated(s, ZrleStream), w)
      BY <3>1, InflatedWith
    <3> DEFINE t == Inflated(s, ZrleStream)
               tv == Inflated(sv, ZrleStream)
    <3> HIDE DEF t, tv
    <3>3. SetZrle(tv, 0) = With(SetZrle(t, 0), w)
      BY <3>2, SetWith DEF t, tv
    <3> QED BY <3>3 DEF s, sv, t, tv
  <2>3. ZrleData(c, at) = IF data[1] # c.kept.streams[ZrleStream] THEN Fail(c) ELSE Done(drawn)
    BY <1>2 DEF ZrleData, SetZrle
  <2>4. Frame(c, Skip(c, n))
    BY <1>0, <1>2, Frames
  <2>5. Frame(c, Inflated(Skip(c, n), ZrleStream))
    BY <2>4, Onward
  <2>6. Frame(c, read)
    BY <2>5, Onward
  <2>7. Frame(c, drawn)
    <3> HIDE DEF read
    <3> QED BY <2>6, Onward
  <2>8. [With(read, w) EXCEPT !.fb = ZrleTiles(With(read, w).fb, at, Tail(data))] = With(drawn, w)
    <3>1. With(read, w).fb = read.fb
      <4> HIDE DEF read
      <4> QED BY <2>6, Untouched DEF Frame
    <3> DEFINE image == ZrleTiles(read.fb, at, Tail(data))
    <3>2. [With(read, w) EXCEPT !.fb = image] = With([read EXCEPT !.fb = image], w)
      <4> HIDE DEF image, read
      <4> QED BY FbSet
    <3> QED BY <3>1, <3>2
  <2>9. ZrleData(v, at) = IF data[1] # c.kept.streams[ZrleStream] THEN With(Fail(c), w) ELSE With(Done(drawn), w)
    <3> DEFINE rv == SetZrle(Inflated(Skip(v, n), ZrleStream), 0)
    <3>1. ZrleData(v, at) = IF data[1] # c.kept.streams[ZrleStream] THEN Fail(v)
                            ELSE Done([rv EXCEPT !.fb = ZrleTiles(rv.fb, at, Tail(data))])
      BY <1>0, <2>1 DEF ZrleData, SetZrle
    <3> HIDE DEF drawn, read, rv
    <3>2. rv = With(read, w)
      BY <2>2 DEF rv
    <3>3. Done(With(drawn, w)) = With(Done(drawn), w) /\ Fail(v) = With(Fail(c), w)
      BY Commuting
    <3> QED BY <2>8, <3>1, <3>2, <3>3
  <2>10. Frame(c, Done(drawn)) /\ Done(drawn).ret = "done" /\ Frame(c, Fail(c)) /\ Fail(c).ret = "fail"
    BY <1>0, <2>7, Onward, Frames
  <2> HIDE DEF drawn
  <2> QED BY <2>3, <2>9, <2>10 DEF Reads
<1> QED BY <1>1, <1>2

\* So does a turn of ZRLE.
LEMMA ZrleReads ==
  ASSUME NEW c, NEW w, Reader(c, w), c.ret = "wait", NEW at
  PROVE  Reads(c, w, Zrle(c, at), Zrle(With(c, w), at), Zrle(With(Zrle(c, at), w), at))
<1> DEFINE v == With(c, w)
           n == Shift32(Peek(c, 4))
           b == SetZrle(Skip(c, 4), n)
<1>0. Client(c) /\ v.dec = c.dec
  BY Untouched DEF Reader
<1>1. CASE c.dec.zrle # 0
  <2>1. Zrle(c, at) = ZrleData(c, at) /\ Zrle(v, at) = ZrleData(v, at)
    BY <1>0, <1>1 DEF Zrle, SetZrle
  <2>2. /\ Reads(c, w, ZrleData(c, at), ZrleData(v, at), ZrleData(With(ZrleData(c, at), w), at))
        /\ ZrleData(c, at).ret = "wait" => ZrleData(c, at) = c
    BY ZrleDataReads
  <2> QED BY <2>1, <2>2 DEF Reads
<1>2. CASE c.dec.zrle = 0 /\ ~Has(c, 4)
  BY <1>0, <1>2, Frames DEF Zrle, Reads, SetZrle
<1>3. CASE c.dec.zrle = 0 /\ Has(c, 4)
  <2>1. Has(v, 4) /\ Peek(v, 4) = Peek(c, 4) /\ n \in Nat
    BY <1>3, Queue, Numbers
  <2>2. Frame(c, Skip(c, 4)) /\ Skip(c, 4).ret = "wait"
    BY <1>0, <1>3, Frames, Skipping
  <2>3. Frame(c, b) /\ b.ret = "wait" /\ b.dec.zrle = n /\ b.rQi = c.rQi + 4 /\ b.rQ = c.rQ
    <3>1. Client(Skip(c, 4))
      BY <2>2 DEF Frame
    <3> DEFINE s == Skip(c, 4)
    <3>2. s.rQi = c.rQi + 4 /\ s.rQ = c.rQ
      BY <1>0, Skipped
    <3> HIDE DEF s, n
    <3>3. Frame(c, SetZrle(s, n))
      BY <2>1, <2>2, SettingZrle DEF s
    <3>4. /\ SetZrle(s, n).ret = s.ret /\ SetZrle(s, n).dec.zrle = n
          /\ SetZrle(s, n).rQi = s.rQi /\ SetZrle(s, n).rQ = s.rQ
      BY <2>1, <2>2, SettingZrle DEF s
    <3> QED BY <2>2, <3>2, <3>3, <3>4 DEF s
  <2>4. SetZrle(Skip(v, 4), Shift32(Peek(v, 4))) = With(b, w)
    <3> DEFINE s == Skip(c, 4)
               sv == Skip(v, 4)
    <3>1. sv = With(s, w)
      BY SkipWith
    <3> HIDE DEF s, sv, n
    <3>2. SetZrle(sv, n) = With(SetZrle(s, n), w)
      BY <3>1, SetWith
    <3> QED BY <2>1, <3>2 DEF s, sv, n
  <2>5. Zrle(c, at) = ZrleData(b, at) /\ Zrle(v, at) = ZrleData(With(b, w), at)
    BY <1>0, <1>3, <2>1, <2>4 DEF Zrle, SetZrle
  <2> HIDE DEF b
  <2>6. /\ Reads(b, w, ZrleData(b, at), ZrleData(With(b, w), at), ZrleData(With(ZrleData(b, at), w), at))
        /\ ZrleData(b, at).ret = "wait" => ZrleData(b, at) = b /\ ~Has(b, b.dec.zrle)
    BY <2>3, Behind, ZrleDataReads
  <2>7. Frame(c, Zrle(c, at))
    BY <2>3, <2>5, <2>6, Through DEF Reads
  <2>8. ASSUME Zrle(c, at).ret = "wait"
        PROVE  Zrle(With(Zrle(c, at), w), at) = Zrle(v, at)
    <3>1. Zrle(c, at) = b /\ ~Has(b, b.dec.zrle)
      BY <2>5, <2>6, <2>8
    <3>2. With(b, w).dec = b.dec
      BY <2>3, Untouched DEF Frame
    <3>3. Has(b, 0)
      BY <1>0, <1>3, <2>3 DEF Has, Client
    <3>4. b.dec.zrle # 0
      BY <3>1, <3>3
    <3> QED BY <1>3, <2>5, <3>1, <3>2, <3>4 DEF Zrle, SetZrle
  <2> QED BY <2>5, <2>6, <2>7, <2>8 DEF Reads
<1> QED BY <1>1, <1>2, <1>3

\* Hextile: no tile is smaller than nothing.
TilesIn(at) == Across(at[3], HextileSize) * Across(at[4], HextileSize)

\* The number of tiles across is natural, and the last begins inside.
LEMMA AcrossNat ==
  ASSUME NEW n \in Nat, NEW size \in Nat \ {0}
  PROVE  Across(n, size) \in Nat /\ Across(n, size) * size <= n + size - 1
  BY Z3 DEF Across

\* The k-th tile of a grid has a row and a column in it.
LEMMA Grid ==
  ASSUME NEW a \in Nat, NEW b \in Nat, NEW k \in Nat, k < a * b
  PROVE  a > 0 /\ k % a \in 0..(a - 1) /\ k \div a \in 0..(b - 1)
<1>1. a > 0
  <2> SUFFICES ASSUME a = 0 PROVE FALSE
    OBVIOUS
  <2>1. a * b = 0
    OBVIOUS
  <2> QED BY <2>1
<1>2. k % a \in 0..(a - 1) /\ k \div a \in Nat /\ a * (k \div a) <= k
  BY <1>1, Z3
<1>3. k \div a < b
  <2> DEFINE q == k \div a
  <2> SUFFICES ASSUME q >= b PROVE FALSE
    BY <1>2
  <2> HIDE DEF q
  <2>1. q \in Nat /\ a * q <= k
    BY <1>2 DEF q
  <2>2. PICK d \in Nat : q = b + d
    BY <2>1
  <2>3. a * q = a * b + a * d
    BY <2>2
  <2>4. a * d \in Nat
    OBVIOUS
  <2> QED BY <2>1, <2>3, <2>4
<1> QED BY <1>1, <1>2, <1>3

\* A tile in the grid begins before the end of the line.
LEMMA Inside ==
  ASSUME NEW n \in Nat, NEW size \in Nat \ {0}, NEW x \in 0..(Across(n, size) - 1)
  PROVE  n - x * size \in Nat /\ n - x * size > 0
<1> DEFINE a == Across(n, size)
<1>1. a \in Nat /\ a * size <= n + size - 1
  BY AcrossNat
<1> HIDE DEF a
<1>2. x \in 0..(a - 1)
  BY DEF a
<1>3. PICK d \in Nat : a = x + 1 + d
  BY <1>1, <1>2
<1>4. a * size = x * size + size + d * size
  BY <1>3
<1>5. d * size \in Nat /\ x * size \in Nat
  BY <1>2
<1> QED BY <1>1, <1>4, <1>5

\* The sides of a tile in the grid are natural numbers.
LEMMA TileSize ==
  ASSUME NEW at \in Place, NEW size \in Nat \ {0}, NEW k \in Nat,
         k < Across(at[3], size) * Across(at[4], size)
  PROVE  Tile(at, k, size)[3] \in Nat /\ Tile(at, k, size)[4] \in Nat
<1> DEFINE a == Across(at[3], size)
           b == Across(at[4], size)
<1>1. at[3] \in Nat /\ at[4] \in Nat
  BY DEF Place
<1>2. a \in Nat /\ b \in Nat
  BY <1>1, AcrossNat
<1>3. k % a \in 0..(a - 1) /\ k \div a \in 0..(b - 1)
  <2> HIDE DEF a, b
  <2> QED BY <1>2, Grid DEF a, b
<1>4. at[3] - (k % a) * size \in Nat /\ at[4] - (k \div a) * size \in Nat
  BY <1>1, <1>3, Inside
<1> QED BY <1>4 DEF Tile, Least

\* How long a tile is shows in its first bytes.
LEMMA TileBytesReads ==
  ASSUME NEW c, NEW w, Reader(c, w), Has(c, 1), NEW tile, tile[3] \in Nat, tile[4] \in Nat
  PROVE  /\ TileBytes(c, tile) \in Nat \union {-1}
         /\ TileBytes(c, tile) # -1 => TileBytes(With(c, w), tile) = TileBytes(c, tile)
<1> DEFINE v == With(c, w)
           sub == Peek(c, 1)[1]
           plain == 1 + (IF Bit(sub, 1) THEN 4 ELSE 0) + (IF Bit(sub, 2) THEN 4 ELSE 0)
           each == IF Bit(sub, 4) THEN 6 ELSE 2
<1>0. Client(c) /\ v.rQ = w /\ v.rQi = c.rQi
  BY Untouched DEF Reader
<1>1. Has(v, 1) /\ Peek(v, 1) = Peek(c, 1)
  BY Queue
<1>2. plain \in Nat /\ plain + 1 \in Nat /\ each \in Nat /\ 1 + 4 * tile[3] * tile[4] \in Nat
  OBVIOUS
<1>3. TileBytes(c, tile) = IF Bit(sub, 0) THEN 1 + 4 * tile[3] * tile[4]
        ELSE IF ~Bit(sub, 3) THEN plain
        ELSE IF ~Has(c, plain + 1) THEN -1
        ELSE plain + 1 + c.rQ[c.rQi + plain + 1] * each
  BY DEF TileBytes
<1>4. TileBytes(v, tile) = IF Bit(sub, 0) THEN 1 + 4 * tile[3] * tile[4]
        ELSE IF ~Bit(sub, 3) THEN plain
        ELSE IF ~Has(v, plain + 1) THEN -1
        ELSE plain + 1 + w[c.rQi + plain + 1] * each
  BY <1>0, <1>1 DEF TileBytes
<1> HIDE DEF plain, each, sub
<1>5. ASSUME Has(c, plain + 1)
      PROVE  Has(v, plain + 1) /\ c.rQ[c.rQi + plain + 1] \in Nat
                /\ c.rQ[c.rQi + plain + 1] = w[c.rQi + plain + 1]
  <2>1. Has(v, plain + 1) /\ Peek(v, plain + 1) = Peek(c, plain + 1)
    BY <1>2, <1>5, Queue
  <2>2. plain + 1 \in 1..(plain + 1) /\ c.rQi \in Nat
    BY <1>0, <1>2 DEF Client
  <2>3. c.rQi + (plain + 1) <= Len(c.rQ) /\ Len(c.rQ) <= Len(w)
            /\ \A i \in 1..Len(c.rQ) : c.rQ[i] = w[i]
    BY <1>2, <1>5, Queue DEF Reader, Begins
  <2>4. Peek(c, plain + 1)[plain + 1] = c.rQ[c.rQi + (plain + 1)] /\ Peek(c, plain + 1)[plain + 1] \in Byte
    BY <1>2, <1>5, <2>2, Queue
  <2>5. c.rQ \in Seq(Byte) /\ Len(c.rQ) \in Nat
    BY <1>0 DEF Client
  <2> DEFINE k == c.rQi + plain + 1
  <2>6. k = c.rQi + (plain + 1) /\ k \in 1..Len(c.rQ)
    <3> DEFINE l == Len(c.rQ)
               q == c.rQi
    <3>1. q \in Nat /\ l \in Nat /\ q + (plain + 1) <= l
      BY <2>2, <2>3, <2>5
    <3> HIDE DEF l, q
    <3>2. q + plain + 1 = q + (plain + 1) /\ q + plain + 1 \in 1..l
      BY <1>2, <3>1
    <3> QED BY <3>2 DEF l, q
  <2>7. c.rQ[k] \in Byte /\ c.rQ[k] = w[k]
    BY <2>3, <2>4, <2>6
  <2> HIDE DEF k
  <2>8. Byte \subseteq Nat
    BY DEF Byte
  <2> QED BY <2>1, <2>7, <2>8 DEF k
<1>6. TileBytes(c, tile) \in Nat \union {-1}
  BY <1>2, <1>3, <1>5
<1>7. TileBytes(c, tile) # -1 => TileBytes(v, tile) = TileBytes(c, tile)
  BY <1>2, <1>3, <1>4, <1>5
<1> QED BY <1>6, <1>7

\* What Hextile remembers of a tile leaves the rest alone, whatever the queue.
LEMMA Colouring ==
  ASSUME NEW a, NEW b, Frame(a, b), NEW w, NEW x, NEW y, NEW z
  PROVE  /\ Frame(a, SetLast(b, x))
         /\ Frame(a, SetTile(b, x, y, z))
         /\ SetLast(With(b, w), x) = With(SetLast(b, x), w)
         /\ SetTile(With(b, w), x, y, z)
                = With(SetTile(b, x, y, z), w)
<1>1. Frame(b, SetLast(b, x))
  BY DEF SetLast, Frame, Client, Shape, Fields
<1>2. Frame(b, SetTile(b, x, y, z))
  BY DEF SetTile, Frame, Client, Shape, Fields
<1>3. SetLast(With(b, w), x) = With(SetLast(b, x), w)
  BY DEF With, SetLast
<1>4. SetTile(With(b, w), x, y, z)
        = With(SetTile(b, x, y, z), w)
  BY DEF With, SetTile
<1> QED BY <1>1, <1>2, <1>3, <1>4, Through

\* A tile that is there is drawn alike when more bytes follow.
LEMMA HextileTileReads ==
  ASSUME NEW c, NEW w, Reader(c, w), NEW n \in Nat, Has(c, n), NEW tile
  PROVE  /\ Frame(c, HextileTile(c, tile, n))
         /\ HextileTile(With(c, w), tile, n) = With(HextileTile(c, tile, n), w)
<1> DEFINE v == With(c, w)
           b == Peek(c, n)
           sub == b[1]
           bgEnd == IF Bit(sub, 1) THEN 5 ELSE 1
           fgEnd == IF Bit(sub, 2) THEN bgEnd + 4 ELSE bgEnd
           bg == IF Bit(sub, 1) THEN SubSeq(b, 2, 4) ELSE c.kept.bg
           fg == IF Bit(sub, 2) THEN SubSeq(b, bgEnd + 1, bgEnd + 3) ELSE c.kept.fg
           rest == IF Bit(sub, 3) THEN SubSeq(b, fgEnd + 1, n) ELSE <<0>>
           kept == SetTile(Skip(c, n), bg, fg, sub)
           plain == SetLast(Skip(c, n), sub)
           pixels == Pixels(Tail(b), tile[3] * tile[4], 4)
           painted == SubTiles(rest, Bit(sub, 4), fg, bg, tile)
<1>0. Client(c) /\ v.kept = c.kept /\ Peek(v, n) = b
  BY Untouched, Queue DEF Reader
<1>1. HextileTile(c, tile, n) = IF Bit(sub, 0) THEN BlitImage(plain, tile, pixels)
        ELSE IF sub = 0 /\ Bit(c.kept.last, 0) THEN kept ELSE BlitImage(kept, tile, painted)
  BY DEF HextileTile, SetLast, SetTile
<1>2. Frame(c, Skip(c, n))
  BY <1>0, Frames
<1>3. Skip(v, n) = With(Skip(c, n), w)
  BY Commuting
<1>4. HextileTile(v, tile, n) =
        IF Bit(sub, 0) THEN BlitImage(SetLast(With(Skip(c, n), w), sub), tile, pixels)
        ELSE IF sub = 0 /\ Bit(c.kept.last, 0)
             THEN SetTile(With(Skip(c, n), w), bg, fg, sub)
             ELSE BlitImage(SetTile(With(Skip(c, n), w), bg, fg, sub),
                            tile, painted)
  <2> HIDE DEF pixels
  <2> QED BY <1>0, <1>3 DEF HextileTile, SetLast, SetTile, pixels
<1> HIDE DEF bg, fg, sub, pixels, painted
<1> DEFINE s == Skip(c, n)
<1> HIDE DEF s
<1>5. /\ Frame(c, SetLast(s, sub))
      /\ Frame(c, SetTile(s, bg, fg, sub))
      /\ SetLast(With(s, w), sub) = With(SetLast(s, sub), w)
      /\ SetTile(With(s, w), bg, fg, sub)
            = With(SetTile(s, bg, fg, sub), w)
  <2>1. Frame(c, s)
    BY <1>2 DEF s
  <2> HIDE DEF bg, fg, sub
  <2> DEFINE x == bg
             y == fg
             z == sub
  <2> HIDE DEF x, y, z
  <2>2. /\ Frame(c, SetLast(s, z))
        /\ Frame(c, SetTile(s, x, y, z))
        /\ SetLast(With(s, w), z) = With(SetLast(s, z), w)
        /\ SetTile(With(s, w), x, y, z)
              = With(SetTile(s, x, y, z), w)
    BY <2>1, Colouring
  <2> QED BY <2>2 DEF x, y, z
<1>6. /\ Frame(c, plain) /\ Frame(c, kept)
      /\ SetLast(With(Skip(c, n), w), sub) = With(plain, w)
      /\ SetTile(With(Skip(c, n), w), bg, fg, sub) = With(kept, w)
  BY <1>5 DEF s
<1> HIDE DEF plain, kept
<1>7. Frame(c, HextileTile(c, tile, n))
  <2>1. Frame(c, BlitImage(plain, tile, pixels)) /\ Frame(c, BlitImage(kept, tile, painted))
    BY <1>6, Onward
  <2> QED BY <1>1, <1>6, <2>1
<1>8. HextileTile(v, tile, n) = With(HextileTile(c, tile, n), w)
  <2>1. /\ BlitImage(With(plain, w), tile, pixels) = With(BlitImage(plain, tile, pixels), w)
        /\ BlitImage(With(kept, w), tile, painted) = With(BlitImage(kept, tile, painted), w)
    BY BlitWith
  <2> QED BY <1>1, <1>4, <1>6, <2>1
<1> QED BY <1>7, <1>8

\* A tile of Hextile is drawn, or the turn waits and nothing was read.
LEMMA HextileNextReads ==
  ASSUME NEW c, NEW w, Reader(c, w), c.ret = "wait", NEW tile, tile[3] \in Nat, tile[4] \in Nat
  PROVE  /\ Reads(c, w, HextileNext(c, tile), HextileNext(With(c, w), tile),
                  HextileNext(With(HextileNext(c, tile), w), tile))
         /\ HextileNext(c, tile).ret = "wait" => HextileNext(c, tile) = c
<1> DEFINE v == With(c, w)
           n == TileBytes(c, tile)
           painted == HextileTile(c, tile, n)
           drawn == SetTiles(painted, painted.dec.tiles - 1)
<1>0. Client(c) /\ v.dec = c.dec /\ Wait(c) = c
  BY Untouched, Frames DEF Reader
<1>1. CASE ~Has(c, 1)
  <2>1. HextileNext(c, tile) = c
    BY <1>0, <1>1 DEF HextileNext, SetTiles
  <2> QED BY <1>0, <2>1, Frames DEF Reads
<1>2. CASE Has(c, 1) /\ Peek(c, 1)[1] > 30
  <2>1. Has(v, 1) /\ Peek(v, 1) = Peek(c, 1)
    BY <1>2, Queue
  <2>2. HextileNext(c, tile) = Fail(c) /\ HextileNext(v, tile) = With(Fail(c), w)
    BY <1>2, <2>1, Commuting DEF HextileNext, SetTiles
  <2> QED BY <1>0, <2>2, Frames DEF Reads
<1>3. CASE Has(c, 1) /\ ~(Peek(c, 1)[1] > 30) /\ (n = -1 \/ ~Has(c, n))
  <2>1. HextileNext(c, tile) = c
    BY <1>0, <1>3 DEF HextileNext, SetTiles
  <2> QED BY <1>0, <2>1, Frames DEF Reads
<1>4. CASE Has(c, 1) /\ ~(Peek(c, 1)[1] > 30) /\ n # -1 /\ Has(c, n)
  <2>1. n \in Nat /\ TileBytes(v, tile) = n
    BY <1>4, TileBytesReads
  <2>2. Has(v, 1) /\ Peek(v, 1) = Peek(c, 1) /\ Has(v, n)
    BY <1>4, <2>1, Queue
  <2>3. HextileNext(c, tile) = IF c.dec.tiles = 1 THEN Done(drawn) ELSE Again(drawn)
    BY <1>4 DEF HextileNext, SetTiles
  <2>4. Frame(c, painted) /\ HextileTile(v, tile, n) = With(painted, w)
    <3> HIDE DEF n
    <3> QED BY <1>4, <2>1, HextileTileReads
  <2>5. Frame(c, drawn)
    <3> HIDE DEF painted
    <3> QED BY <2>4, Onward
  <2>6. SetTiles(With(painted, w), With(painted, w).dec.tiles - 1) = With(drawn, w)
    <3>1. With(painted, w).dec = painted.dec
      BY <2>4, Untouched DEF Frame
    <3> HIDE DEF painted
    <3> QED BY <3>1, SetWith
  <2>7. HextileNext(v, tile) = IF c.dec.tiles = 1 THEN Done(With(drawn, w)) ELSE Again(With(drawn, w))
    BY <1>0, <1>4, <2>1, <2>2, <2>4, <2>6 DEF HextileNext, SetTiles
  <2> HIDE DEF drawn
  <2>8. HextileNext(v, tile) = With(HextileNext(c, tile), w)
    <3>1. Done(With(drawn, w)) = With(Done(drawn), w) /\ Again(With(drawn, w)) = With(Again(drawn), w)
      BY Commuting
    <3> QED BY <2>3, <2>7, <3>1
  <2>9. Frame(c, HextileNext(c, tile)) /\ HextileNext(c, tile).ret # "wait"
    BY <2>3, <2>5, Ending
  <2> QED BY <2>8, <2>9 DEF Reads
<1> QED BY <1>1, <1>2, <1>3, <1>4

\* Hextile counts its tiles once, and reads one after the other.
LEMMA HextileReads ==
  ASSUME NEW c, NEW w, Reader(c, w), c.ret = "wait", NEW at \in Place,
         c.dec.tiles \in Nat, c.dec.tiles <= TilesIn(at)
  PROVE  Reads(c, w, Hextile(c, at), Hextile(With(c, w), at), Hextile(With(Hextile(c, at), w), at))
<1> DEFINE v == With(c, w)
           total == TilesIn(at)
           b == IF c.dec.tiles = 0 THEN SetTiles(c, total) ELSE c
           tile == Tile(at, total - b.dec.tiles, HextileSize)
<1>0. Client(c) /\ v.dec = c.dec
  BY Untouched DEF Reader
<1>1. Frame(c, b) /\ b.ret = "wait" /\ b.dec.tiles = IF c.dec.tiles = 0 THEN total ELSE c.dec.tiles
  <2> HIDE DEF total
  <2>1. /\ Frame(c, c) /\ Frame(c, SetTiles(c, total))
        /\ SetTiles(c, total).ret = c.ret /\ SetTiles(c, total).dec.tiles = total
    BY <1>0, Frames, SettingTiles
  <2> QED BY <2>1
<1>2. (IF v.dec.tiles = 0 THEN SetTiles(v, total) ELSE v) = With(b, w)
  <2> HIDE DEF total
  <2>1. SetTiles(With(c, w), total) = With(SetTiles(c, total), w)
    BY SetWith
  <2> QED BY <1>0, <2>1
<1>3. With(b, w).dec = b.dec
  <2> HIDE DEF b
  <2> QED BY <1>1, Untouched DEF Frame
<1>4. Hextile(c, at) = IF b.dec.tiles = 0 THEN Done(c) ELSE HextileNext(b, tile)
  BY DEF Hextile, TilesIn, SetTiles
<1>5. Hextile(v, at) = IF b.dec.tiles = 0 THEN Done(v) ELSE HextileNext(With(b, w), tile)
  <2> DEFINE bv == IF v.dec.tiles = 0 THEN SetTiles(v, total) ELSE v
  <2>1. Hextile(v, at) = IF bv.dec.tiles = 0 THEN Done(v)
                         ELSE HextileNext(bv, Tile(at, total - bv.dec.tiles, HextileSize))
    BY DEF Hextile, TilesIn, SetTiles
  <2> HIDE DEF b, bv
  <2> QED BY <1>2, <1>3, <2>1 DEF bv
<1> HIDE DEF b
<1>6. CASE b.dec.tiles = 0
  <2>1. Hextile(c, at) = Done(c) /\ Hextile(v, at) = With(Done(c), w)
    BY <1>4, <1>5, <1>6, Commuting
  <2> QED BY <1>0, <2>1, Frames DEF Reads
<1>7. CASE b.dec.tiles # 0
  <2>1. tile[3] \in Nat /\ tile[4] \in Nat
    <3>1. at[3] \in Nat /\ at[4] \in Nat
      BY DEF Place
    <3>2. HextileSize \in Nat \ {0}
      BY StreamAssumption
    <3>3. Across(at[3], HextileSize) \in Nat /\ Across(at[4], HextileSize) \in Nat
      BY <3>1, <3>2, AcrossNat
    <3>4. total \in Nat
      BY <3>3 DEF TilesIn
    <3>5. total - b.dec.tiles \in Nat /\ total - b.dec.tiles < total
      BY <1>1, <1>7, <3>4
    <3> QED BY <3>2, <3>5, TileSize DEF TilesIn
  <2> HIDE DEF tile
  <2>2. /\ Reads(b, w, HextileNext(b, tile), HextileNext(With(b, w), tile),
                 HextileNext(With(HextileNext(b, tile), w), tile))
        /\ HextileNext(b, tile).ret = "wait" => HextileNext(b, tile) = b
    BY <1>1, <2>1, Behind, HextileNextReads
  <2>3. Frame(c, Hextile(c, at))
    BY <1>1, <1>4, <1>7, <2>2, Through DEF Reads
  <2>4. ASSUME Hextile(c, at).ret = "wait"
        PROVE  Hextile(With(Hextile(c, at), w), at) = Hextile(v, at)
    <3>1. Hextile(c, at) = b
      BY <1>4, <1>7, <2>2, <2>4
    <3>2. Hextile(With(b, w), at) = HextileNext(With(b, w), tile)
      BY <1>3, <1>7 DEF Hextile, TilesIn, tile, SetTiles
    <3> QED BY <1>5, <1>7, <3>1, <3>2
  <2> QED BY <1>4, <1>5, <1>7, <2>2, <2>3, <2>4 DEF Reads
<1> QED BY <1>6, <1>7

\* The same of a turn that may find bytes that no server of the protocol sends.
Resumes(c, w, now, then, later) ==
    /\ Frame(c, now)
    /\ ~now.astray => IF now.ret = "wait" THEN later = then ELSE then = With(now, w)

\* A turn that reads only what a server of the protocol sends is a case of this.
LEMMA Resuming ==
  ASSUME NEW c, NEW w, NEW now, NEW then, NEW later, Reads(c, w, now, then, later)
  PROVE  Resumes(c, w, now, then, later)
  BY DEF Reads, Resumes

\* A turn that gives what another gives after something was read or noted.
LEMMA Before ==
  ASSUME NEW c, NEW w, NEW b, Frame(c, b),
         NEW now, NEW then, NEW later, Resumes(b, w, now, then, later),
         NEW last, now.ret = "wait" => last = later
  PROVE  Resumes(c, w, now, then, last)
<1>1. Frame(c, now)
  BY Through DEF Resumes
<1> QED BY <1>1 DEF Resumes

\* A turn that does something more when it does not wait.
LEMMA After ==
  ASSUME NEW c, NEW w, NEW now, NEW then, NEW later, Resumes(c, w, now, then, later),
         NEW h, NEW hv, NEW hl, Frame(now, h),
         now.ret = "wait" => h = now,
         now.ret # "wait" => h.ret # "wait",
         now.ret = "wait" /\ then = later => hv = hl,
         then = With(now, w) => hv = With(h, w)
  PROVE  Resumes(c, w, h, hv, hl)
<1>1. Frame(c, h)
  BY Through DEF Resumes
<1>2. ASSUME ~h.astray, h.ret = "wait"
      PROVE  hl = hv
  BY <1>2 DEF Resumes, Frame
<1>3. ASSUME ~h.astray, h.ret # "wait"
      PROVE  hv = With(h, w)
  BY <1>3 DEF Resumes, Frame
<1> QED BY <1>1, <1>2, <1>3 DEF Resumes

\* A turn without enough bytes.
LEMMA Waiting ==
  ASSUME NEW c, Client(c), NEW w, NEW now, now = c, NEW then, NEW later, later = then
  PROVE  c.ret = "wait" => Resumes(c, w, now, then, later)
  BY Frames DEF Resumes

\* A turn that gets somewhere.
LEMMA Going ==
  ASSUME NEW c, NEW w, NEW now, Frame(c, now), now.ret # "wait", NEW then, then = With(now, w), NEW later
  PROVE  Resumes(c, w, now, then, later)
  BY DEF Resumes

\* The data handed on does not depend on the queue, and leaves the rest alone.
LEMMA DataWith ==
  ASSUME NEW a, NEW b, Frame(a, b), NEW x
  PROVE  /\ Frame(a, SetData(b, x)) /\ \A w : SetData(With(b, w), x) = With(SetData(b, x), w)
         /\ SetData(b, x).ret = b.ret /\ SetData(b, x).dec = b.dec /\ SetData(b, x).kept = b.kept
         /\ SetData(b, x).data = x
<1>1. Frame(a, SetData(b, x))
  BY Onward DEF SetData
<1>2. \A w : SetData(With(b, w), x) = With(SetData(b, x), w)
  BY DEF SetData, With
<1>3. /\ SetData(b, x).ret = b.ret /\ SetData(b, x).dec = b.dec /\ SetData(b, x).kept = b.kept
      /\ SetData(b, x).data = x
  BY DEF SetData, Frame, Client, Shape, Fields
<1> QED BY <1>1, <1>2, <1>3

\* Of what the decoders keep, all but what Tight keeps; and what it keeps until a rectangle is drawn.
Others(d) == <<d.raw, d.rre, d.zlib, d.zrle, d.tiles, d.segments>>
Alike(c, n) == Others(n.dec) = Others(c.dec) /\ n.dec.ctl = c.dec.ctl /\ n.dec.filter = c.dec.filter

\* The end of a turn leaves the decoders alone.
LEMMA Endings ==
  ASSUME NEW b, Client(b)
  PROVE  /\ Done(b).dec = b.dec /\ Again(b).dec = b.dec /\ Fail(b).dec = b.dec
         /\ Done(b).data = b.data /\ Done(b).kept = b.kept
  BY DEF Done, Again, Fail, Client, Shape, Fields

\* Data whose length is known is read whole, or the turn waits.
LEMMA DataBytesReads ==
  ASSUME NEW c, NEW w, Reader(c, w), c.ret = "wait"
  PROVE  /\ Resumes(c, w, DataBytes(c), DataBytes(With(c, w)), DataBytes(With(DataBytes(c), w)))
         /\ DataBytes(c).ret \in {"wait", "done"}
         /\ DataBytes(c).ret = "wait" => DataBytes(c) = c /\ ~Has(c, c.dec.len)
         /\ Alike(c, DataBytes(c)) /\ DataBytes(c).dec.colours = c.dec.colours
         /\ DataBytes(c).ret = "done" => DataBytes(c).dec.len = 0
<1> DEFINE v == With(c, w)
           n == c.dec.len
           data == Peek(c, n)
           s == Skip(c, n)
           l == SetLen(s, 0)
           d == SetData(l, data)
<1>0. Client(c) /\ v.dec = c.dec /\ n \in Nat
  BY Untouched DEF Reader, Client
<1>1. CASE ~Has(c, n)
  <2>1. DataBytes(c) = c
    BY <1>0, <1>1, Frames DEF DataBytes
  <2>2. Resumes(c, w, DataBytes(c), DataBytes(With(c, w)), DataBytes(With(DataBytes(c), w)))
    BY <1>0, <2>1, Waiting
  <2> QED BY <1>1, <2>1, <2>2 DEF Alike
<1>2. CASE Has(c, n)
  <2>1. Has(v, n) /\ Peek(v, n) = data
    BY <1>0, <1>2, Queue
  <2>2. DataBytes(c) = Done(d)
    BY <1>2 DEF DataBytes, SetData, SetLen
  <2>3. DataBytes(v) = Done(SetData(SetLen(Skip(v, n), 0), data))
    BY <1>0, <2>1 DEF DataBytes, SetData, SetLen
  <2>4. Frame(c, s) /\ s.dec = c.dec /\ Skip(v, n) = With(s, w)
    BY <1>0, <1>2, Frames, Skipping
  <2> HIDE DEF s
  <2>5. Frame(c, l) /\ l.dec.len = 0 /\ SetLen(With(s, w), 0) = With(l, w)
    BY <2>4, SettingLen
  <2>6. Alike(c, l) /\ l.dec.colours = c.dec.colours
    BY <2>4 DEF Alike, Others, SetLen, Frame, Client, Shape, Fields, DecShape, DecFields
  <2> HIDE DEF l, data
  <2>7. /\ Frame(c, d) /\ d.dec = l.dec /\ SetData(With(l, w), data) = With(d, w)
    BY <2>5, DataWith
  <2> HIDE DEF d
  <2>8. Frame(c, Done(d)) /\ Done(d).ret = "done" /\ Done(With(d, w)) = With(Done(d), w) /\ Done(d).dec = d.dec
    BY <2>7, Ending, Endings DEF Frame
  <2>9. DataBytes(v) = With(DataBytes(c), w)
    BY <2>2, <2>3, <2>4, <2>5, <2>7, <2>8
  <2>10. Resumes(c, w, DataBytes(c), DataBytes(v), DataBytes(With(DataBytes(c), w)))
    BY <2>2, <2>8, <2>9, Going
  <2> QED BY <2>2, <2>5, <2>6, <2>7, <2>8, <2>10 DEF Alike
<1> QED BY <1>1, <1>2

\* A compact length is natural, and takes one to three bytes.
LEMMA Compact ==
  ASSUME NEW b \in Seq(Byte), Len(b) >= 3
  PROVE  CompactLength(b).len \in Nat /\ CompactLength(b).size \in 1..3
<1>1. Len(b) \in Nat
  OBVIOUS
<1>2. 1 \in 1..Len(b) /\ 2 \in 1..Len(b) /\ 3 \in 1..Len(b)
  BY <1>1
<1>3. b[1] \in Byte /\ b[2] \in Byte /\ b[3] \in Byte
  BY <1>2, ElementOfSeq
<1> DEFINE x == b[1]
           y == b[2]
           z == b[3]
<1>4. x \in 0..255 /\ y \in 0..255 /\ z \in 0..255
  BY <1>3 DEF Byte
<1>5. CompactLength(b) = IF x < 128 THEN [len |-> x, size |-> 1]
        ELSE IF y < 128 THEN [len |-> (x % 128) + 128 * y, size |-> 2]
        ELSE [len |-> (x % 128) + 128 * (y % 128) + 16384 * z, size |-> 3]
  BY DEF CompactLength
<1> HIDE DEF x, y, z
<1>6. x % 128 \in Nat /\ y % 128 \in Nat
  BY <1>4
<1>7. (x % 128) + 128 * y \in Nat /\ (x % 128) + 128 * (y % 128) + 16384 * z \in Nat
  <2> DEFINE p == x % 128
             q == y % 128
  <2> HIDE DEF p, q
  <2>1. p \in Nat /\ q \in Nat
    BY <1>6 DEF p, q
  <2>2. p + 128 * y \in Nat /\ p + 128 * q + 16384 * z \in Nat
    BY <1>4, <2>1
  <2> QED BY <2>2 DEF p, q
<1>8. CASE x < 128
  BY <1>4, <1>5, <1>8
<1>9. CASE ~(x < 128) /\ y < 128
  <2>1. CompactLength(b) = [len |-> (x % 128) + 128 * y, size |-> 2]
    BY <1>5, <1>9
  <2> QED BY <1>7, <2>1
<1>10. CASE ~(x < 128) /\ ~(y < 128)
  <2>1. CompactLength(b) = [len |-> (x % 128) + 128 * (y % 128) + 16384 * z, size |-> 3]
    BY <1>5, <1>10
  <2> QED BY <1>7, <2>1
<1> QED BY <1>8, <1>9, <1>10

\* The length of data is read once, then the data.
LEMMA ReadDataReads ==
  ASSUME NEW c, NEW w, Reader(c, w), c.ret = "wait"
  PROVE  /\ Resumes(c, w, ReadData(c), ReadData(With(c, w)), ReadData(With(ReadData(c), w)))
         /\ ReadData(c).ret \in {"wait", "done"}
         /\ Alike(c, ReadData(c)) /\ ReadData(c).dec.colours = c.dec.colours
         /\ ReadData(c).ret = "done" => ReadData(c).dec.len = 0
<1> DEFINE v == With(c, w)
           head == CompactLength(Peek(c, 3))
           n == head.len
           size == head.size
           s == Skip(c, size)
           b == SetLen(s, n)
<1>0. Client(c) /\ v.dec = c.dec
  BY Untouched DEF Reader
<1>1. CASE c.dec.len # 0
  <2>1. ReadData(c) = DataBytes(c) /\ ReadData(v) = DataBytes(v)
    BY <1>0, <1>1 DEF ReadData
  <2>2. /\ Resumes(c, w, DataBytes(c), DataBytes(v), DataBytes(With(DataBytes(c), w)))
        /\ DataBytes(c).ret = "wait" => DataBytes(c) = c
    BY DataBytesReads
  <2>3. Resumes(c, w, ReadData(c), ReadData(v), ReadData(With(ReadData(c), w)))
    <3>1. DataBytes(c).ret = "wait" => ReadData(With(ReadData(c), w)) = DataBytes(With(DataBytes(c), w))
      BY <2>1, <2>2
    <3> QED BY <1>0, <2>1, <2>2, <3>1, Frames, Before
  <2> QED BY <2>1, <2>3, DataBytesReads
<1>2. CASE c.dec.len = 0 /\ ~Has(c, 3)
  <2>1. ReadData(c) = c
    BY <1>0, <1>2, Frames DEF ReadData
  <2>2. Resumes(c, w, ReadData(c), ReadData(With(c, w)), ReadData(With(ReadData(c), w)))
    BY <1>0, <2>1, Waiting
  <2> QED BY <2>1, <2>2 DEF Alike
<1>3. CASE c.dec.len = 0 /\ Has(c, 3)
  <2>1. Has(v, 3) /\ Peek(v, 3) = Peek(c, 3) /\ n \in Nat /\ size \in 1..3
    BY <1>3, Queue, Compact
  <2>2. Has(c, size) /\ size \in Nat
    BY <1>0, <1>3, <2>1, Fewer
  <2>3. ReadData(c) = DataBytes(b)
    BY <1>3 DEF ReadData, SetLen
  <2>4. ReadData(v) = DataBytes(SetLen(Skip(v, size), n))
    BY <1>0, <1>3, <2>1 DEF ReadData, SetLen
  <2> HIDE DEF head
  <2>5. Frame(c, s) /\ s.ret = "wait" /\ s.dec = c.dec /\ s.rQ = c.rQ /\ s.rQi = c.rQi + size /\ Skip(v, size) = With(s, w)
    <3> HIDE DEF size
    <3> QED BY <1>0, <2>2, Frames, Skipping
  <2> HIDE DEF s, n
  <2>6. /\ Frame(c, b) /\ b.ret = s.ret /\ b.dec.len = n /\ SetLen(With(s, w), n) = With(b, w)
        /\ b.rQ = s.rQ /\ b.rQi = s.rQi
    BY <2>1, <2>5, SettingLen
  <2>7. Alike(c, b) /\ b.dec.colours = c.dec.colours
    BY <2>5 DEF Alike, Others, SetLen, Frame, Client, Shape, Fields, DecShape, DecFields
  <2> HIDE DEF b
  <2>8. Reader(b, w) /\ Client(b)
    BY <2>6, Behind DEF Frame
  <2>9. /\ Resumes(b, w, DataBytes(b), DataBytes(With(b, w)), DataBytes(With(DataBytes(b), w)))
        /\ DataBytes(b).ret = "wait" => DataBytes(b) = b /\ ~Has(b, b.dec.len)
        /\ DataBytes(b).ret \in {"wait", "done"}
        /\ Alike(b, DataBytes(b)) /\ DataBytes(b).dec.colours = b.dec.colours
        /\ DataBytes(b).ret = "done" => DataBytes(b).dec.len = 0
    BY <2>5, <2>6, <2>8, DataBytesReads
  <2>10. ASSUME DataBytes(b).ret = "wait"
         PROVE  ReadData(With(DataBytes(b), w)) = DataBytes(With(DataBytes(b), w))
    <3>1. DataBytes(b) = b /\ ~Has(b, b.dec.len)
      BY <2>9, <2>10
    <3>2. With(b, w).dec = b.dec
      BY <2>8, Untouched
    <3>3. Has(b, 0)
      <4>1. c.rQi + size <= Len(c.rQ) /\ c.rQi \in Nat /\ Len(c.rQ) \in Nat
        BY <1>0, <2>2 DEF Has, Client
      <4> QED BY <2>2, <2>5, <2>6, <4>1 DEF Has
    <3>4. b.dec.len # 0
      BY <3>1, <3>3
    <3> QED BY <3>1, <3>2, <3>4 DEF ReadData
  <2>11. ReadData(v) = DataBytes(With(b, w))
    BY <2>4, <2>5, <2>6
  <2>12. Resumes(c, w, ReadData(c), ReadData(v), ReadData(With(ReadData(c), w)))
    BY <2>3, <2>6, <2>9, <2>10, <2>11, Before
  <2> QED BY <2>3, <2>7, <2>9, <2>12 DEF Alike
<1> QED BY <1>1, <1>2, <1>3

\* The count of a zlib stream is no part of what a decoder keeps between turns.
LEMMA InflatedKeeps ==
  ASSUME NEW b, Client(b), NEW s
  PROVE  Inflated(b, s).dec = b.dec /\ Inflated(b, s).data = b.data /\ Inflated(b, s).ret = b.ret
  BY DEF Inflated, Client, Shape, Fields

\* Data that is there is inflated alike whatever the queue, or was not there.
LEMMA InflateReads ==
  ASSUME NEW r, Client(r), NEW w, NEW stream, NEW size
  PROVE  /\ Frame(r, Inflate(r, stream, size)) /\ Inflate(r, stream, size).dec = r.dec
         /\ Inflate(With(r, w), stream, size) = With(Inflate(r, stream, size), w)
         /\ r.ret # "done" => Inflate(r, stream, size) = r
         /\ r.ret = "done" => Inflate(r, stream, size).ret \in {"done", "fail"}
<1> DEFINE v == With(r, w)
           i == Inflated(r, stream)
           d == SetData(i, Tail(r.data))
<1>1. v.ret = r.ret /\ v.data = r.data /\ v.kept = r.kept
  BY Untouched
<1>2. i.dec = r.dec /\ i.data = r.data /\ i.ret = r.ret /\ Frame(r, i)
  BY InflatedKeeps, Frames
<1>3. Inflated(v, stream) = With(i, w)
  BY InflatedWith
<1>4. With(i, w).data = i.data
  BY <1>2, Untouched DEF Frame
<1>5. Inflate(r, stream, size) =
        IF r.ret # "done" THEN r ELSE IF ~Inflates(r, stream, r.data, size) THEN Fail(r) ELSE SetData(i, Tail(i.data))
  BY DEF Inflate, SetData
<1>6. Inflate(v, stream, size) =
        IF r.ret # "done" THEN v ELSE IF ~Inflates(r, stream, r.data, size) THEN Fail(v)
        ELSE SetData(With(i, w), Tail(With(i, w).data))
  BY <1>1, <1>3 DEF Inflate, SetData, Inflates
<1> HIDE DEF i
<1> DEFINE x == Tail(r.data)
<1> HIDE DEF x
<1>7. Frame(r, SetData(i, x)) /\ SetData(i, x).ret = i.ret /\ SetData(i, x).dec = i.dec
        /\ SetData(With(i, w), x) = With(SetData(i, x), w)
  BY <1>2, DataWith
<1>8. Frame(r, r) /\ Frame(r, Fail(r)) /\ Fail(r).ret = "fail" /\ Fail(r).dec = r.dec /\ Fail(v) = With(Fail(r), w)
  BY Frames, Endings, Commuting
<1>9. /\ Inflate(r, stream, size) =
            IF r.ret # "done" THEN r ELSE IF ~Inflates(r, stream, r.data, size) THEN Fail(r) ELSE SetData(i, x)
      /\ Inflate(v, stream, size) =
            IF r.ret # "done" THEN v ELSE IF ~Inflates(r, stream, r.data, size) THEN Fail(v) ELSE SetData(With(i, w), x)
  BY <1>2, <1>4, <1>5, <1>6 DEF x
<1> QED BY <1>2, <1>7, <1>8, <1>9

\* The data of a filter is read whole, or the turn waits; a length is owed only in between.
LEMMA FilterDataReads ==
  ASSUME NEW c, NEW w, Reader(c, w), c.ret = "wait", NEW stream, NEW size \in Nat
  PROVE  /\ Resumes(c, w, FilterData(c, stream, size), FilterData(With(c, w), stream, size),
                    FilterData(With(FilterData(c, stream, size), w), stream, size))
         /\ FilterData(c, stream, size).ret \in {"wait", "done", "fail"}
         /\ Alike(c, FilterData(c, stream, size)) /\ FilterData(c, stream, size).dec.colours = c.dec.colours
         /\ size < 12 => FilterData(c, stream, size).dec.len = c.dec.len
         /\ size >= 12 /\ FilterData(c, stream, size).ret = "done" => FilterData(c, stream, size).dec.len = 0
<1> DEFINE v == With(c, w)
           now == FilterData(c, stream, size)
<1>0. Client(c) /\ v.dec = c.dec
  BY Untouched DEF Reader
<1>1. CASE size >= 12
  <2> DEFINE r == ReadData(c)
             rv == ReadData(v)
             rl == ReadData(With(r, w))
             h == Inflate(r, stream, size)
             hv == Inflate(rv, stream, size)
             hl == Inflate(ReadData(With(h, w)), stream, size)
  <2>1. /\ Resumes(c, w, r, rv, rl) /\ r.ret \in {"wait", "done"} /\ Alike(c, r) /\ r.dec.colours = c.dec.colours
        /\ r.ret = "done" => r.dec.len = 0
    BY ReadDataReads
  <2>2. now = h /\ FilterData(v, stream, size) = hv /\ FilterData(With(now, w), stream, size) = hl
    BY <1>1 DEF FilterData
  <2>3. Client(r)
    BY <2>1 DEF Resumes, Frame
  <2> HIDE DEF r
  <2>4. /\ Frame(r, h) /\ h.dec = r.dec /\ Inflate(With(r, w), stream, size) = With(h, w)
        /\ r.ret # "done" => h = r
        /\ r.ret = "done" => h.ret \in {"done", "fail"}
    BY <2>3, InflateReads
  <2>5. Resumes(c, w, h, hv, hl)
    <3>1. r.ret = "wait" => h = r
      BY <2>4
    <3>2. r.ret # "wait" => h.ret # "wait"
      BY <2>1, <2>4
    <3>3. rv = With(r, w) => hv = With(h, w)
      BY <2>4
    <3>4. r.ret = "wait" /\ rv = rl => hv = hl
      BY <3>1
    <3> HIDE DEF rv, rl, h, hv, hl
    <3> QED BY <2>1, <2>4, <3>1, <3>2, <3>3, <3>4, After
  <2> QED BY <1>1, <2>1, <2>2, <2>4, <2>5 DEF Alike
<1>2. CASE ~(size >= 12) /\ ~Has(c, size)
  <2>1. now = c
    BY <1>0, <1>2, Frames DEF FilterData
  <2>2. Resumes(c, w, now, FilterData(v, stream, size), FilterData(With(now, w), stream, size))
    BY <1>0, <2>1, Waiting
  <2> QED BY <1>2, <2>1, <2>2 DEF Alike
<1>3. CASE ~(size >= 12) /\ Has(c, size)
  <2> DEFINE data == Peek(c, size)
             s == Skip(c, size)
             d == SetData(s, data)
  <2>1. Has(v, size) /\ Peek(v, size) = data
    BY <1>3, Queue
  <2>2. now = Done(d) /\ FilterData(v, stream, size) = Done(SetData(Skip(v, size), data))
    BY <1>3, <2>1 DEF FilterData, SetData
  <2>3. Frame(c, s) /\ s.dec = c.dec /\ Skip(v, size) = With(s, w)
    BY <1>0, <1>3, Frames, Skipping
  <2> HIDE DEF s, data
  <2>4. Frame(c, d) /\ d.dec = s.dec /\ SetData(With(s, w), data) = With(d, w)
    BY <2>3, DataWith
  <2> HIDE DEF d
  <2>5. Frame(c, Done(d)) /\ Done(d).ret = "done" /\ Done(d).dec = d.dec /\ Done(With(d, w)) = With(Done(d), w)
    BY <2>4, Ending, Endings DEF Frame
  <2>6. Resumes(c, w, now, FilterData(v, stream, size), FilterData(With(now, w), stream, size))
    BY <2>2, <2>3, <2>4, <2>5, Going
  <2> QED BY <1>3, <2>2, <2>3, <2>4, <2>5, <2>6 DEF Alike
<1> QED BY <1>1, <1>2, <1>3

\* What is done with the data that a filter was given.
LEMMA DrawnReads ==
  ASSUME NEW r, Client(r), NEW w, NEW at, NEW pixels
  PROVE  /\ Frame(r, Drawn(r, at, pixels)) /\ Drawn(r, at, pixels).dec = r.dec /\ Drawn(r, at, pixels).ret = r.ret
         /\ Drawn(With(r, w), at, pixels) = With(Drawn(r, at, pixels), w)
         /\ r.ret # "done" => Drawn(r, at, pixels) = r
<1> DEFINE v == With(r, w)
           b == BlitImage(r, at, pixels)
           d == SetData(b, Nothing)
<1>1. v.ret = r.ret
  BY Untouched
<1>2. Frame(r, b) /\ BlitImage(v, at, pixels) = With(b, w)
  BY Frames, BlitWith
<1>3. b.ret = r.ret /\ b.dec = r.dec
  BY DEF BlitImage, Client, Shape, Fields
<1>4. /\ Drawn(r, at, pixels) = IF r.ret = "done" THEN d ELSE r
      /\ Drawn(v, at, pixels) = IF r.ret = "done" THEN SetData(BlitImage(v, at, pixels), Nothing) ELSE v
  BY <1>1 DEF Drawn, SetData
<1> HIDE DEF b
<1>5. Frame(r, d) /\ d.ret = b.ret /\ d.dec = b.dec /\ SetData(With(b, w), Nothing) = With(d, w)
  BY <1>2, DataWith
<1>6. Frame(r, r)
  BY Frames
<1> HIDE DEF d
<1> QED BY <1>2, <1>3, <1>4, <1>5, <1>6

\* What a filter promises.
Filtering(c, w, size, now, then, later) ==
    /\ Resumes(c, w, now, then, later) /\ now.ret \in {"wait", "done", "fail"} /\ Alike(c, now)
    /\ size < 12 => now.dec.len = c.dec.len
    /\ size >= 12 /\ now.ret = "done" => now.dec.len = 0

\* The copy filter draws its rectangle once its data is there.
LEMMA CopyFilterReads ==
  ASSUME NEW c, NEW w, Reader(c, w), c.ret = "wait", NEW stream, NEW at \in Place
  PROVE  /\ Empty(at) => /\ Resumes(c, w, CopyFilter(c, stream, at), CopyFilter(With(c, w), stream, at),
                                    CopyFilter(With(CopyFilter(c, stream, at), w), stream, at))
                         /\ CopyFilter(c, stream, at) = Done(c)
         /\ ~Empty(at) =>
                /\ Filtering(c, w, 3 * at[3] * at[4], CopyFilter(c, stream, at), CopyFilter(With(c, w), stream, at),
                             CopyFilter(With(CopyFilter(c, stream, at), w), stream, at))
                /\ CopyFilter(c, stream, at).dec.colours = c.dec.colours
<1> DEFINE v == With(c, w)
           now == CopyFilter(c, stream, at)
           size == 3 * at[3] * at[4]
<1>0. Client(c) /\ size \in Nat
  BY DEF Reader, Place
<1>1. CASE Empty(at)
  <2>1. now = Done(c) /\ CopyFilter(v, stream, at) = With(Done(c), w)
    BY <1>1, Commuting DEF CopyFilter
  <2>2. Frame(c, Done(c)) /\ Done(c).ret = "done"
    BY <1>0, Frames
  <2> QED BY <1>1, <2>1, <2>2, Going
<1>2. CASE ~Empty(at)
  <2> DEFINE r == FilterData(c, stream, size)
             rv == FilterData(v, stream, size)
             rl == FilterData(With(r, w), stream, size)
             h == CopyPixels(r, at)
             hv == CopyPixels(rv, at)
             hl == CopyPixels(FilterData(With(h, w), stream, size), at)
  <2>1. now = h /\ CopyFilter(v, stream, at) = hv /\ CopyFilter(With(now, w), stream, at) = hl
    BY <1>2 DEF CopyFilter
  <2>2. /\ Resumes(c, w, r, rv, rl) /\ r.ret \in {"wait", "done", "fail"} /\ Alike(c, r) /\ r.dec.colours = c.dec.colours
        /\ size < 12 => r.dec.len = c.dec.len
        /\ size >= 12 /\ r.ret = "done" => r.dec.len = 0
    <3> HIDE DEF size
    <3> QED BY <1>0, FilterDataReads
  <2>3. Client(r)
    BY <2>2 DEF Resumes, Frame
  <2> HIDE DEF r
  <2>4. With(r, w).data = r.data
    BY <2>3, Untouched
  <2>5. /\ Frame(r, h) /\ h.dec = r.dec /\ h.ret = r.ret /\ CopyPixels(With(r, w), at) = With(h, w)
        /\ r.ret # "done" => h = r
    BY <2>3, <2>4, DrawnReads DEF CopyPixels
  <2>6. Resumes(c, w, h, hv, hl)
    <3>1. r.ret = "wait" => h = r
      BY <2>5
    <3>2. rv = With(r, w) => hv = With(h, w)
      BY <2>5
    <3>3. r.ret = "wait" /\ rv = rl => hv = hl
      BY <3>1
    <3> HIDE DEF rv, rl, h, hv, hl
    <3> QED BY <2>2, <2>5, <3>1, <3>2, <3>3, After
  <2> HIDE DEF size, h, hv, hl
  <2> QED BY <1>2, <2>1, <2>2, <2>5, <2>6 DEF Alike, Filtering, size
<1> QED BY <1>1, <1>2

\* So does the gradient filter.
LEMMA GradientFilterReads ==
  ASSUME NEW c, NEW w, Reader(c, w), c.ret = "wait", NEW stream, NEW at \in Place
  PROVE  /\ Empty(at) => /\ Resumes(c, w, GradientFilter(c, stream, at), GradientFilter(With(c, w), stream, at),
                                    GradientFilter(With(GradientFilter(c, stream, at), w), stream, at))
                         /\ GradientFilter(c, stream, at) = Done(c)
         /\ ~Empty(at) =>
                /\ Filtering(c, w, 3 * at[3] * at[4], GradientFilter(c, stream, at), GradientFilter(With(c, w), stream, at),
                             GradientFilter(With(GradientFilter(c, stream, at), w), stream, at))
                /\ GradientFilter(c, stream, at).dec.colours = c.dec.colours
<1> DEFINE v == With(c, w)
           now == GradientFilter(c, stream, at)
           size == 3 * at[3] * at[4]
<1>0. Client(c) /\ size \in Nat
  BY DEF Reader, Place
<1>1. CASE Empty(at)
  <2>1. now = Done(c) /\ GradientFilter(v, stream, at) = With(Done(c), w)
    BY <1>1, Commuting DEF GradientFilter
  <2>2. Frame(c, Done(c)) /\ Done(c).ret = "done"
    BY <1>0, Frames
  <2> QED BY <1>1, <2>1, <2>2, Going
<1>2. CASE ~Empty(at)
  <2> DEFINE r == FilterData(c, stream, size)
             rv == FilterData(v, stream, size)
             rl == FilterData(With(r, w), stream, size)
             h == GradientPixels(r, at)
             hv == GradientPixels(rv, at)
             hl == GradientPixels(FilterData(With(h, w), stream, size), at)
  <2>1. now = h /\ GradientFilter(v, stream, at) = hv /\ GradientFilter(With(now, w), stream, at) = hl
    BY <1>2 DEF GradientFilter
  <2>2. /\ Resumes(c, w, r, rv, rl) /\ r.ret \in {"wait", "done", "fail"} /\ Alike(c, r) /\ r.dec.colours = c.dec.colours
        /\ size < 12 => r.dec.len = c.dec.len
        /\ size >= 12 /\ r.ret = "done" => r.dec.len = 0
    <3> HIDE DEF size
    <3> QED BY <1>0, FilterDataReads
  <2>3. Client(r)
    BY <2>2 DEF Resumes, Frame
  <2> HIDE DEF r
  <2>4. With(r, w).data = r.data
    BY <2>3, Untouched
  <2>5. /\ Frame(r, h) /\ h.dec = r.dec /\ h.ret = r.ret /\ GradientPixels(With(r, w), at) = With(h, w)
        /\ r.ret # "done" => h = r
    BY <2>3, <2>4, DrawnReads DEF GradientPixels
  <2>6. Resumes(c, w, h, hv, hl)
    <3>1. r.ret = "wait" => h = r
      BY <2>5
    <3>2. rv = With(r, w) => hv = With(h, w)
      BY <2>5
    <3>3. r.ret = "wait" /\ rv = rl => hv = hl
      BY <3>1
    <3> HIDE DEF rv, rl, h, hv, hl
    <3> QED BY <2>2, <2>5, <3>1, <3>2, <3>3, After
  <2> HIDE DEF size, h, hv, hl
  <2> QED BY <1>2, <2>1, <2>2, <2>5, <2>6 DEF Alike, Filtering, size
<1> QED BY <1>1, <1>2

\* The palette is read once, and kept until its rectangle is drawn.
PaletteSize(colours, at) == (IF colours <= 2 THEN Across(at[3], 8) ELSE at[3]) * at[4]

\* The data of a palette filter has a natural size.
LEMMA PaletteSizeNat ==
  ASSUME NEW at \in Place, NEW colours
  PROVE  PaletteSize(colours, at) \in Nat
<1>1. at[3] \in Nat /\ at[4] \in Nat /\ 8 \in Nat \ {0}
  BY DEF Place
<1>2. Across(at[3], 8) \in Nat
  BY <1>1, AcrossNat
<1> QED BY <1>1, <1>2 DEF PaletteSize

\* The palette filter draws once its data is there, and forgets the palette.
LEMMA PalettePixelsReads ==
  ASSUME NEW r, Client(r), NEW w, NEW at
  PROVE  /\ Frame(r, PalettePixels(r, at)) /\ PalettePixels(r, at).ret = r.ret
         /\ Alike(r, PalettePixels(r, at)) /\ PalettePixels(r, at).dec.len = r.dec.len
         /\ PalettePixels(With(r, w), at) = With(PalettePixels(r, at), w)
         /\ r.ret # "done" => PalettePixels(r, at) = r
         /\ r.ret = "done" => PalettePixels(r, at).dec.colours = 0
<1> DEFINE v == With(r, w)
           pixels == [i \in 1..(at[3] * at[4]) |->
                        LET k == PaletteIndex(r.data, r.dec.colours, at[3], i)
                        IN  SubSeq(r.kept.palette, 3 * k + 1, 3 * k + 3)]
           d == Drawn(r, at, pixels)
           e == SetColours(d, 0)
<1>1. v.ret = r.ret /\ v.data = r.data /\ v.kept = r.kept /\ v.dec = r.dec
  BY Untouched
<1>2. PalettePixels(r, at) = IF r.ret # "done" THEN r ELSE e
  BY DEF PalettePixels, SetColours
<1>3. PalettePixels(v, at) = IF r.ret # "done" THEN v ELSE SetColours(Drawn(v, at, pixels), 0)
  BY <1>1 DEF PalettePixels, SetColours
<1>4. Frame(r, d) /\ d.dec = r.dec /\ d.ret = r.ret /\ Drawn(v, at, pixels) = With(d, w)
  <2> HIDE DEF pixels
  <2> QED BY DrawnReads
<1> HIDE DEF d
<1>5. Frame(r, e) /\ e.ret = d.ret /\ e.dec.colours = 0 /\ SetColours(With(d, w), 0) = With(e, w)
  BY <1>4, SettingColours
<1>6. Alike(d, e) /\ e.dec.len = d.dec.len
  BY <1>4 DEF Alike, Others, SetColours, Frame, Client, Shape, Fields, DecShape, DecFields
<1>7. Frame(r, r) /\ Alike(r, r)
  BY Frames DEF Alike
<1> HIDE DEF e
<1> QED BY <1>2, <1>3, <1>4, <1>5, <1>6, <1>7 DEF Alike

\* A turn of the palette filter that has its palette does what it would with all bytes there.
LEMMA PaletteDataReads ==
  ASSUME NEW c, NEW w, Reader(c, w), c.ret = "wait", NEW stream, NEW at \in Place
  PROVE  /\ PaletteSize(c.dec.colours, at) = 0 =>
                /\ Resumes(c, w, PaletteData(c, stream, at), PaletteData(With(c, w), stream, at),
                           PaletteData(With(PaletteData(c, stream, at), w), stream, at))
                /\ PaletteData(c, stream, at).ret = "done" /\ PaletteData(c, stream, at).astray
                /\ Alike(c, PaletteData(c, stream, at))
         /\ PaletteSize(c.dec.colours, at) # 0 =>
                /\ Filtering(c, w, PaletteSize(c.dec.colours, at), PaletteData(c, stream, at),
                             PaletteData(With(c, w), stream, at),
                             PaletteData(With(PaletteData(c, stream, at), w), stream, at))
                /\ PaletteData(c, stream, at).ret = "wait" => PaletteData(c, stream, at).dec.colours = c.dec.colours
                /\ PaletteData(c, stream, at).ret = "done" => PaletteData(c, stream, at).dec.colours = 0
<1> DEFINE v == With(c, w)
           now == PaletteData(c, stream, at)
           size == PaletteSize(c.dec.colours, at)
<1>0. Client(c) /\ v.dec = c.dec
  BY Untouched DEF Reader
<1>1. size \in Nat
  BY PaletteSizeNat
<1>2. /\ now = IF size = 0 THEN Done(SetAstray(c)) ELSE PalettePixels(FilterData(c, stream, size), at)
      /\ PaletteData(v, stream, at) = IF size = 0 THEN Done(SetAstray(v))
                                      ELSE PalettePixels(FilterData(v, stream, size), at)
  BY <1>0 DEF PaletteData, PaletteSize, SetAstray
<1>3. CASE size = 0
  <2> DEFINE a == SetAstray(c)
  <2>1. SetAstray(v) = With(a, w)
    BY DEF SetAstray, With
  <2>2. Frame(c, a) /\ a.dec = c.dec
    BY <1>0 DEF SetAstray, Frame, Client, Shape, Fields
  <2>3. a.astray
    BY <1>0 DEF SetAstray, Client, Shape, Fields
  <2> HIDE DEF a
  <2>4. /\ Frame(c, Done(a)) /\ Done(a).ret = "done" /\ Done(With(a, w)) = With(Done(a), w) /\ Done(a).dec = a.dec
    BY <2>2, Ending, Endings DEF Frame
  <2>5. Frame(a, Done(a))
    BY <2>2, Frames DEF Frame
  <2>6. Done(a).astray
    BY <2>3, <2>5 DEF Frame
  <2>7. now = Done(a) /\ PaletteData(v, stream, at) = With(Done(a), w)
    BY <1>2, <1>3, <2>1, <2>4 DEF a
  <2>8. Resumes(c, w, now, PaletteData(v, stream, at), PaletteData(With(now, w), stream, at))
    BY <2>4, <2>7, Going
  <2> QED BY <1>3, <2>2, <2>4, <2>6, <2>7, <2>8 DEF Alike
<1>4. CASE size # 0
  <2> DEFINE r == FilterData(c, stream, size)
             rv == FilterData(v, stream, size)
             rl == FilterData(With(r, w), stream, size)
             h == PalettePixels(r, at)
             hv == PalettePixels(rv, at)
             hl == PaletteData(With(h, w), stream, at)
  <2>1. now = h /\ PaletteData(v, stream, at) = hv /\ PaletteData(With(now, w), stream, at) = hl
    BY <1>2, <1>4
  <2>2. /\ Resumes(c, w, r, rv, rl) /\ r.ret \in {"wait", "done", "fail"} /\ Alike(c, r) /\ r.dec.colours = c.dec.colours
        /\ size < 12 => r.dec.len = c.dec.len
        /\ size >= 12 /\ r.ret = "done" => r.dec.len = 0
    <3> HIDE DEF size
    <3> QED BY <1>1, FilterDataReads
  <2>3. Client(r)
    BY <2>2 DEF Resumes, Frame
  <2>4. PaletteData(With(r, w), stream, at) = PalettePixels(rl, at)
    <3>1. With(r, w).dec = r.dec
      BY <2>3, Untouched
    <3> QED BY <1>4, <2>2, <3>1 DEF PaletteData, PaletteSize
  <2> HIDE DEF r
  <2>5. /\ Frame(r, h) /\ h.ret = r.ret /\ PalettePixels(With(r, w), at) = With(h, w)
        /\ Alike(r, h) /\ h.dec.len = r.dec.len
        /\ r.ret # "done" => h = r
        /\ r.ret = "done" => h.dec.colours = 0
    BY <2>3, PalettePixelsReads
  <2>6. Resumes(c, w, h, hv, hl)
    <3>1. r.ret = "wait" => h = r
      BY <2>5
    <3>2. rv = With(r, w) => hv = With(h, w)
      BY <2>5
    <3>3. r.ret = "wait" /\ rv = rl => hv = hl
      BY <2>4, <3>1
    <3> HIDE DEF rv, rl, h, hv, hl
    <3> QED BY <2>2, <2>5, <3>1, <3>2, <3>3, After
  <2> HIDE DEF size, h, hv, hl
  <2> QED BY <1>4, <2>1, <2>2, <2>5, <2>6 DEF Alike, Filtering, size
<1> QED BY <1>3, <1>4

\* A palette that was read leaves the rest alone.
LEMMA PaletteKeeps ==
  ASSUME NEW a, NEW b, Frame(a, b), NEW n \in Nat, NEW x
  PROVE  /\ Frame(a, SetPalette(b, n, x)) /\ \A w : SetPalette(With(b, w), n, x) = With(SetPalette(b, n, x), w)
         /\ SetPalette(b, n, x).ret = b.ret /\ SetPalette(b, n, x).dec.colours = n
         /\ SetPalette(b, n, x).dec.len = b.dec.len /\ Alike(b, SetPalette(b, n, x))
<1>1. Frame(b, SetPalette(b, n, x))
  BY DEF SetPalette, Frame, Client, Shape, Fields, DecShape, DecFields
<1>2. \A w : SetPalette(With(b, w), n, x) = With(SetPalette(b, n, x), w)
  BY DEF SetPalette, With
<1>3. SetPalette(b, n, x).ret = b.ret
  BY DEF SetPalette, Frame, Client, Shape, Fields
<1>4. SetPalette(b, n, x).dec.colours = n /\ SetPalette(b, n, x).dec.len = b.dec.len
  BY DEF SetPalette, Frame, Client, Shape, Fields, DecShape, DecFields
<1>5. Alike(b, SetPalette(b, n, x))
  BY DEF Alike, Others, SetPalette, Frame, Client, Shape, Fields, DecShape, DecFields
<1> QED BY <1>1, <1>2, <1>3, <1>4, <1>5, Through

\* Data is owed only when a palette is there, and it is long enough for a length.
PaletteOwes(d, at) == d.len # 0 => d.colours # 0 /\ PaletteSize(d.colours, at) >= 12

\* Such a turn leaves a length only with a palette, and neither when it is done.
LEMMA PaletteDataOwes ==
  ASSUME NEW c, NEW w, Reader(c, w), c.ret = "wait", NEW stream, NEW at \in Place,
         PaletteOwes(c.dec, at), c.dec.colours # 0
  PROVE  LET now == PaletteData(c, stream, at)
         IN  /\ now.ret = "wait" => PaletteOwes(now.dec, at) /\ now.dec.colours = c.dec.colours
             /\ now.ret = "done" /\ ~now.astray => now.dec.len = 0 /\ now.dec.colours = 0
<1> DEFINE now == PaletteData(c, stream, at)
           size == PaletteSize(c.dec.colours, at)
<1>1. CASE size = 0
  BY <1>1, PaletteDataReads
<1>2. CASE size # 0
  <2>0. size \in Nat
    BY PaletteSizeNat
  <2>1. /\ size < 12 => now.dec.len = c.dec.len
        /\ size >= 12 /\ now.ret = "done" => now.dec.len = 0
        /\ now.ret = "wait" => now.dec.colours = c.dec.colours
        /\ now.ret = "done" => now.dec.colours = 0
    BY <1>2, PaletteDataReads DEF Filtering
  <2> HIDE DEF now, size
  <2>2. size < 12 => c.dec.len = 0
    BY <2>0 DEF PaletteOwes, size
  <2> QED BY <2>0, <2>1, <2>2 DEF PaletteOwes, now, size
<1> QED BY <1>1, <1>2

\* The palette is read once, whatever the number of turns for the data.
LEMMA PaletteFilterReads ==
  ASSUME NEW c, NEW w, Reader(c, w), c.ret = "wait", NEW stream, NEW at \in Place
  PROVE  /\ Resumes(c, w, PaletteFilter(c, stream, at), PaletteFilter(With(c, w), stream, at),
                    PaletteFilter(With(PaletteFilter(c, stream, at), w), stream, at))
         /\ PaletteFilter(c, stream, at).ret \in {"wait", "done", "fail"}
         /\ Alike(c, PaletteFilter(c, stream, at))
         /\ PaletteOwes(c.dec, at) =>
                /\ PaletteFilter(c, stream, at).ret = "wait" => PaletteOwes(PaletteFilter(c, stream, at).dec, at)
                /\ PaletteFilter(c, stream, at).ret = "done" /\ ~PaletteFilter(c, stream, at).astray =>
                       PaletteFilter(c, stream, at).dec.len = 0 /\ PaletteFilter(c, stream, at).dec.colours = 0
<1> DEFINE v == With(c, w)
           now == PaletteFilter(c, stream, at)
           n == Peek(c, 1)[1] + 1
           m == 1 + 3 * n
           s == Skip(c, m)
           x == SubSeq(Peek(c, m), 2, m)
           b == SetPalette(s, n, x)
           d == PaletteData(b, stream, at)
<1>0. Client(c) /\ v.dec = c.dec
  BY Untouched DEF Reader
<1>d. ASSUME NEW b1, Reader(b1, w), b1.ret = "wait"
      PROVE  /\ Resumes(b1, w, PaletteData(b1, stream, at), PaletteData(With(b1, w), stream, at),
                        PaletteData(With(PaletteData(b1, stream, at), w), stream, at))
             /\ PaletteData(b1, stream, at).ret \in {"wait", "done", "fail"}
             /\ Alike(b1, PaletteData(b1, stream, at))
             /\ PaletteData(b1, stream, at).ret = "wait" => PaletteData(b1, stream, at).dec.colours = b1.dec.colours
  BY <1>d, PaletteDataReads DEF Filtering
<1>1. CASE c.dec.colours # 0
  <2> DEFINE e == PaletteData(c, stream, at)
  <2>1. now = e /\ PaletteFilter(v, stream, at) = PaletteData(v, stream, at)
    BY <1>0, <1>1 DEF PaletteFilter
  <2>2. /\ Resumes(c, w, e, PaletteData(v, stream, at), PaletteData(With(e, w), stream, at))
        /\ e.ret \in {"wait", "done", "fail"} /\ Alike(c, e)
        /\ e.ret = "wait" => e.dec.colours = c.dec.colours
    BY <1>d
  <2>3. PaletteOwes(c.dec, at) =>
            /\ e.ret = "wait" => PaletteOwes(e.dec, at)
            /\ e.ret = "done" /\ ~e.astray => e.dec.len = 0 /\ e.dec.colours = 0
    BY <1>1, PaletteDataOwes
  <2>4. Client(e)
    BY <2>2 DEF Resumes, Frame
  <2>5. e.ret = "wait" => PaletteFilter(With(e, w), stream, at) = PaletteData(With(e, w), stream, at)
    <3>1. With(e, w).dec = e.dec
      BY <2>4, Untouched
    <3> HIDE DEF e
    <3> QED BY <1>1, <2>2, <3>1 DEF PaletteFilter
  <2>6. Frame(c, c)
    BY <1>0, Frames
  <2> HIDE DEF e
  <2>7. Resumes(c, w, e, PaletteData(v, stream, at), PaletteFilter(With(e, w), stream, at))
    BY <2>2, <2>5, <2>6, Before
  <2> QED BY <2>1, <2>2, <2>3, <2>7
<1>2. CASE c.dec.colours = 0 /\ (~Has(c, 1) \/ ~Has(c, m))
  <2>1. now = c
    BY <1>0, <1>2, Frames DEF PaletteFilter
  <2>2. Resumes(c, w, now, PaletteFilter(v, stream, at), PaletteFilter(With(now, w), stream, at))
    BY <1>0, <2>1, Waiting
  <2> QED BY <2>1, <2>2 DEF Alike
<1>3. CASE c.dec.colours = 0 /\ Has(c, 1) /\ Has(c, m)
  <2>1. Has(v, 1) /\ Peek(v, 1) = Peek(c, 1) /\ n \in Nat /\ n # 0
    <3>1. Has(v, 1) /\ Peek(v, 1) = Peek(c, 1) /\ Peek(c, 1)[1] \in Byte
      BY <1>3, Queue
    <3> QED BY <3>1 DEF Byte
  <2>2. m \in Nat
    <3> HIDE DEF n
    <3> QED BY <2>1
  <2>3. Has(v, m) /\ Peek(v, m) = Peek(c, m)
    <3> HIDE DEF m
    <3> QED BY <1>3, <2>2, Queue
  <2>4. now = d /\ PaletteFilter(v, stream, at) = PaletteData(SetPalette(Skip(v, m), n, x), stream, at)
    BY <1>0, <1>3, <2>1, <2>3 DEF PaletteFilter, SetPalette
  <2> HIDE DEF n, m, x
  <2>5. Frame(c, s) /\ s.dec = c.dec /\ s.ret = "wait" /\ Skip(v, m) = With(s, w)
    BY <1>0, <1>3, <2>2, Frames, Skipping
  <2> HIDE DEF s
  <2>6. /\ Frame(c, b) /\ SetPalette(With(s, w), n, x) = With(b, w)
        /\ b.ret = s.ret /\ b.dec.colours = n /\ b.dec.len = s.dec.len /\ Alike(s, b)
    BY <2>1, <2>5, PaletteKeeps
  <2> HIDE DEF b
  <2>7. Reader(b, w) /\ b.ret = "wait"
    BY <2>5, <2>6, Behind
  <2>8. /\ Resumes(b, w, d, PaletteData(With(b, w), stream, at), PaletteData(With(d, w), stream, at))
        /\ d.ret \in {"wait", "done", "fail"} /\ Alike(b, d)
        /\ d.ret = "wait" => d.dec.colours = b.dec.colours
    BY <1>d, <2>7
  <2>9. PaletteOwes(c.dec, at) =>
            /\ d.ret = "wait" => PaletteOwes(d.dec, at)
            /\ d.ret = "done" /\ ~d.astray => d.dec.len = 0 /\ d.dec.colours = 0
    <3>1. PaletteOwes(c.dec, at) => PaletteOwes(b.dec, at)
      BY <1>3, <2>5, <2>6 DEF PaletteOwes
    <3>2. b.dec.colours # 0
      BY <2>1, <2>6
    <3> QED BY <2>7, <3>1, <3>2, PaletteDataOwes
  <2>10. Client(d)
    BY <2>8 DEF Resumes, Frame
  <2>11. d.ret = "wait" => PaletteFilter(With(d, w), stream, at) = PaletteData(With(d, w), stream, at)
    <3>1. With(d, w).dec = d.dec
      BY <2>10, Untouched
    <3> HIDE DEF d
    <3> QED BY <2>1, <2>6, <2>8, <3>1 DEF PaletteFilter
  <2> HIDE DEF d
  <2>12. Resumes(c, w, d, PaletteData(With(b, w), stream, at), PaletteFilter(With(d, w), stream, at))
    BY <2>6, <2>8, <2>11, Before
  <2>13. PaletteFilter(v, stream, at) = PaletteData(With(b, w), stream, at)
    BY <2>4, <2>5, <2>6
  <2>14. Alike(c, d)
    BY <2>5, <2>6, <2>8 DEF Alike
  <2> QED BY <2>4, <2>8, <2>9, <2>12, <2>13, <2>14
<1> QED BY <1>1, <1>2, <1>3

\* The filter is kept until the rectangle is drawn.
LEMMA FinishedReads ==
  ASSUME NEW r, Client(r), NEW w
  PROVE  /\ Frame(r, Finished(r)) /\ Finished(r).ret = r.ret /\ Finished(With(r, w)) = With(Finished(r), w)
         /\ r.ret # "done" => Finished(r) = r
         /\ Others(Finished(r).dec) = Others(r.dec) /\ Finished(r).dec.ctl = r.dec.ctl
         /\ Finished(r).dec.len = r.dec.len /\ Finished(r).dec.colours = r.dec.colours
         /\ r.ret = "done" => Finished(r).dec.filter = -1
<1> DEFINE v == With(r, w)
           d == SetFilter(r, -1)
<1>1. v.ret = r.ret /\ Frame(r, r)
  BY Untouched, Frames
<1>2. Finished(r) = (IF r.ret = "done" THEN d ELSE r) /\ Finished(v) = (IF r.ret = "done" THEN SetFilter(v, -1) ELSE v)
  BY <1>1 DEF Finished, SetFilter
<1>3. Frame(r, d) /\ d.ret = r.ret /\ d.dec.filter = -1 /\ SetFilter(v, -1) = With(d, w)
  BY <1>1, SettingFilter
<1>4. /\ Others(d.dec) = Others(r.dec) /\ d.dec.ctl = r.dec.ctl
      /\ d.dec.len = r.dec.len /\ d.dec.colours = r.dec.colours
  BY DEF Others, SetFilter, Client, Shape, Fields, DecShape, DecFields
<1> HIDE DEF d
<1> QED BY <1>1, <1>2, <1>3, <1>4

\* What may be owed of a rectangle in mid filter.
TightOwes(d, at) ==
    /\ d.filter = -1 => d.colours = 0 /\ d.len = 0
    /\ d.filter \in {0, 2} => d.colours = 0 /\ (d.len # 0 => ~Empty(at) /\ 3 * at[3] * at[4] >= 12)
    /\ d.filter = 1 => PaletteOwes(d, at)

Drawing(c, now, at) ==
    /\ now.ret \in {"wait", "done", "fail"}
    /\ Others(now.dec) = Others(c.dec) /\ now.dec.ctl = c.dec.ctl
    /\ TightOwes(c.dec, at) =>
        /\ now.ret = "wait" => TightOwes(now.dec, at)
        /\ now.ret = "done" /\ ~now.astray => now.dec.filter = -1 /\ now.dec.colours = 0 /\ now.dec.len = 0

\* The other filters leave a length only while they wait.
LEMMA FilteringOwes ==
  ASSUME NEW c, NEW w, NEW now, NEW then, NEW later, NEW at \in Place, ~Empty(at),
         Filtering(c, w, 3 * at[3] * at[4], now, then, later), c.dec.filter \in {0, 2},
         now.dec.colours = c.dec.colours
  PROVE  TightOwes(c.dec, at) =>
             /\ now.ret = "wait" => TightOwes(now.dec, at)
             /\ now.ret = "done" => now.dec.len = 0 /\ now.dec.colours = 0
<1> DEFINE size == 3 * at[3] * at[4]
<1>1. size \in Nat
  BY DEF Place
<1>2. /\ size < 12 => now.dec.len = c.dec.len
      /\ size >= 12 /\ now.ret = "done" => now.dec.len = 0
      /\ now.dec.filter = c.dec.filter
  BY DEF Filtering, Alike
<1>3. ASSUME TightOwes(c.dec, at)
      PROVE  c.dec.colours = 0 /\ (c.dec.len # 0 => size >= 12)
  BY <1>3 DEF TightOwes
<1>4. TightOwes(c.dec, at) /\ now.ret = "done" => now.dec.len = 0
  <2> HIDE DEF size
  <2> QED BY <1>1, <1>2, <1>3
<1>5. TightOwes(c.dec, at) => (now.dec.len # 0 => size >= 12)
  <2> HIDE DEF size
  <2> QED BY <1>1, <1>2, <1>3
<1>6. TightOwes(c.dec, at) => TightOwes(now.dec, at)
  BY <1>2, <1>3, <1>5 DEF TightOwes
<1> QED BY <1>3, <1>4, <1>6

Filter(c, at) ==
    CASE c.dec.filter = 0 -> CopyFilter(c, c.dec.ctl % 4, at)
      [] c.dec.filter = 1 -> PaletteFilter(c, c.dec.ctl % 4, at)
      [] c.dec.filter = 2 -> GradientFilter(c, c.dec.ctl % 4, at)
      [] OTHER -> Fail(c)

\* Whatever the filter, a turn of it resumes and leaves only what the next needs.
LEMMA FilterReads ==
  ASSUME NEW c, NEW w, Reader(c, w), c.ret = "wait", NEW at \in Place
  PROVE  /\ Resumes(c, w, Filter(c, at), Filter(With(c, w), at), Filter(With(Filter(c, at), w), at))
         /\ Filter(c, at).ret \in {"wait", "done", "fail"}
         /\ Alike(c, Filter(c, at))
         /\ TightOwes(c.dec, at) =>
                /\ Filter(c, at).ret = "wait" => TightOwes(Filter(c, at).dec, at)
                /\ Filter(c, at).ret = "done" /\ ~Filter(c, at).astray =>
                       Filter(c, at).dec.len = 0 /\ Filter(c, at).dec.colours = 0
<1> DEFINE v == With(c, w)
           stream == c.dec.ctl % 4
           now == Filter(c, at)
<1>0. Client(c) /\ v.dec = c.dec /\ Frame(c, c)
  BY Untouched, Frames DEF Reader
<1>1. ASSUME Frame(c, now), Alike(c, now)
      PROVE  With(now, w).dec.filter = c.dec.filter /\ With(now, w).dec.ctl = c.dec.ctl
  <2>1. Client(now)
    BY <1>1 DEF Frame
  <2>2. With(now, w).dec = now.dec
    BY <2>1, Untouched
  <2> HIDE DEF now
  <2> QED BY <1>1, <2>2 DEF Alike
<1>2. CASE c.dec.filter = 0
  <2> DEFINE e == CopyFilter(c, stream, at)
             el == CopyFilter(With(e, w), stream, at)
  <2>1. now = e /\ Filter(v, at) = CopyFilter(v, stream, at)
    BY <1>0, <1>2 DEF Filter
  <2>2. /\ Resumes(c, w, e, CopyFilter(v, stream, at), el) /\ e.ret \in {"wait", "done", "fail"} /\ Alike(c, e)
        /\ TightOwes(c.dec, at) =>
                /\ e.ret = "wait" => TightOwes(e.dec, at)
                /\ e.ret = "done" /\ ~e.astray => e.dec.len = 0 /\ e.dec.colours = 0
    <3>1. CASE Empty(at)
      <4>1. Resumes(c, w, e, CopyFilter(v, stream, at), el) /\ e = Done(c)
        BY <3>1, CopyFilterReads
      <4>2. Done(c).ret = "done" /\ Done(c).dec = c.dec
        BY <1>0, Frames, Endings
      <4> HIDE DEF e, el
      <4> QED BY <1>2, <3>1, <4>1, <4>2 DEF Alike, TightOwes
    <3>2. CASE ~Empty(at)
      <4>1. /\ Filtering(c, w, 3 * at[3] * at[4], e, CopyFilter(v, stream, at), el)
            /\ e.dec.colours = c.dec.colours
        BY <3>2, CopyFilterReads
      <4>2. TightOwes(c.dec, at) =>
                /\ e.ret = "wait" => TightOwes(e.dec, at)
                /\ e.ret = "done" => e.dec.len = 0 /\ e.dec.colours = 0
        <5> HIDE DEF e, el
        <5> QED BY <1>2, <3>2, <4>1, FilteringOwes
      <4> HIDE DEF e, el
      <4> QED BY <4>1, <4>2 DEF Filtering
    <3> QED BY <3>1, <3>2
  <2>3. Filter(With(now, w), at) = el
    <3>1. With(now, w).dec.filter = 0 /\ With(now, w).dec.ctl % 4 = stream
      BY <1>1, <1>2, <2>1, <2>2 DEF Resumes
    <3> QED BY <2>1, <3>1 DEF Filter
  <2> HIDE DEF e, el, now
  <2> QED BY <2>1, <2>2, <2>3 DEF now
<1>3. CASE c.dec.filter = 2
  <2> DEFINE e == GradientFilter(c, stream, at)
             el == GradientFilter(With(e, w), stream, at)
  <2>1. now = e /\ Filter(v, at) = GradientFilter(v, stream, at)
    BY <1>0, <1>3 DEF Filter
  <2>2. /\ Resumes(c, w, e, GradientFilter(v, stream, at), el) /\ e.ret \in {"wait", "done", "fail"} /\ Alike(c, e)
        /\ TightOwes(c.dec, at) =>
                /\ e.ret = "wait" => TightOwes(e.dec, at)
                /\ e.ret = "done" /\ ~e.astray => e.dec.len = 0 /\ e.dec.colours = 0
    <3>1. CASE Empty(at)
      <4>1. Resumes(c, w, e, GradientFilter(v, stream, at), el) /\ e = Done(c)
        BY <3>1, GradientFilterReads
      <4>2. Done(c).ret = "done" /\ Done(c).dec = c.dec
        BY <1>0, Frames, Endings
      <4> HIDE DEF e, el
      <4> QED BY <1>3, <3>1, <4>1, <4>2 DEF Alike, TightOwes
    <3>2. CASE ~Empty(at)
      <4>1. /\ Filtering(c, w, 3 * at[3] * at[4], e, GradientFilter(v, stream, at), el)
            /\ e.dec.colours = c.dec.colours
        BY <3>2, GradientFilterReads
      <4>2. TightOwes(c.dec, at) =>
                /\ e.ret = "wait" => TightOwes(e.dec, at)
                /\ e.ret = "done" => e.dec.len = 0 /\ e.dec.colours = 0
        <5> HIDE DEF e, el
        <5> QED BY <1>3, <3>2, <4>1, FilteringOwes
      <4> HIDE DEF e, el
      <4> QED BY <4>1, <4>2 DEF Filtering
    <3> QED BY <3>1, <3>2
  <2>3. Filter(With(now, w), at) = el
    <3>1. With(now, w).dec.filter = 2 /\ With(now, w).dec.ctl % 4 = stream
      BY <1>1, <1>3, <2>1, <2>2 DEF Resumes
    <3> QED BY <2>1, <3>1 DEF Filter
  <2> HIDE DEF e, el, now
  <2> QED BY <2>1, <2>2, <2>3 DEF now
<1>4. CASE c.dec.filter = 1
  <2> DEFINE e == PaletteFilter(c, stream, at)
             el == PaletteFilter(With(e, w), stream, at)
  <2>1. now = e /\ Filter(v, at) = PaletteFilter(v, stream, at)
    BY <1>0, <1>4 DEF Filter
  <2>2. /\ Resumes(c, w, e, PaletteFilter(v, stream, at), el) /\ e.ret \in {"wait", "done", "fail"} /\ Alike(c, e)
        /\ PaletteOwes(c.dec, at) =>
                /\ e.ret = "wait" => PaletteOwes(e.dec, at)
                /\ e.ret = "done" /\ ~e.astray => e.dec.len = 0 /\ e.dec.colours = 0
    BY PaletteFilterReads
  <2>3. Filter(With(now, w), at) = el
    <3>1. With(now, w).dec.filter = 1 /\ With(now, w).dec.ctl % 4 = stream
      BY <1>1, <1>4, <2>1, <2>2 DEF Resumes
    <3> QED BY <2>1, <3>1 DEF Filter
  <2> HIDE DEF e, el, now
  <2>4. /\ TightOwes(c.dec, at) => PaletteOwes(c.dec, at)
        /\ PaletteOwes(e.dec, at) => TightOwes(e.dec, at)
    BY <1>4, <2>2 DEF Alike, TightOwes
  <2> QED BY <2>1, <2>2, <2>3, <2>4 DEF now
<1>5. CASE c.dec.filter \notin {0, 1, 2}
  <2>1. now = Fail(c) /\ Filter(v, at) = With(Fail(c), w)
    BY <1>0, <1>5, Commuting DEF Filter
  <2>2. Frame(c, Fail(c)) /\ Fail(c).ret = "fail" /\ Fail(c).dec = c.dec
    BY <1>0, Frames, Endings
  <2>3. Resumes(c, w, now, Filter(v, at), Filter(With(now, w), at))
    BY <2>1, <2>2, Going
  <2> QED BY <2>1, <2>2, <2>3 DEF Alike
<1> QED BY <1>2, <1>3, <1>4, <1>5

\* And the filter is forgotten with the last turn of its rectangle.
LEMMA BasicFilterReads ==
  ASSUME NEW c, NEW w, Reader(c, w), c.ret = "wait", NEW at \in Place
  PROVE  /\ Resumes(c, w, BasicFilter(c, at), BasicFilter(With(c, w), at), BasicFilter(With(BasicFilter(c, at), w), at))
         /\ Drawing(c, BasicFilter(c, at), at)
         /\ BasicFilter(c, at).ret = "wait" => BasicFilter(c, at).dec.filter = c.dec.filter
<1> DEFINE v == With(c, w)
           r == Filter(c, at)
           rv == Filter(v, at)
           rl == Filter(With(r, w), at)
           h == Finished(r)
           hv == Finished(rv)
           hl == BasicFilter(With(h, w), at)
<1>1. BasicFilter(c, at) = h /\ BasicFilter(v, at) = hv /\ BasicFilter(With(r, w), at) = Finished(rl)
  BY DEF BasicFilter, Filter
<1>2. /\ Resumes(c, w, r, rv, rl) /\ r.ret \in {"wait", "done", "fail"} /\ Alike(c, r)
      /\ TightOwes(c.dec, at) =>
            /\ r.ret = "wait" => TightOwes(r.dec, at)
            /\ r.ret = "done" /\ ~r.astray => r.dec.len = 0 /\ r.dec.colours = 0
  BY FilterReads
<1> HIDE DEF r, rv, rl
<1>3. Client(r)
  BY <1>2 DEF Resumes, Frame
<1>4. /\ Frame(r, h) /\ h.ret = r.ret /\ Finished(With(r, w)) = With(h, w)
      /\ r.ret # "done" => h = r
      /\ Others(h.dec) = Others(r.dec) /\ h.dec.ctl = r.dec.ctl
      /\ h.dec.len = r.dec.len /\ h.dec.colours = r.dec.colours
      /\ r.ret = "done" => h.dec.filter = -1
  BY <1>3, FinishedReads
<1>5. Resumes(c, w, h, hv, hl)
  <2>1. r.ret = "wait" => h = r
    BY <1>4
  <2>2. rv = With(r, w) => hv = With(h, w)
    BY <1>4
  <2>3. r.ret = "wait" /\ rv = rl => hv = hl
    BY <1>1, <2>1
  <2> HIDE DEF h, hv, hl
  <2> QED BY <1>2, <1>4, <2>1, <2>2, <2>3, After
<1>6. h.astray \/ ~r.astray
  BY <1>4 DEF Frame
<1> HIDE DEF h, hv, hl
<1>7. h.ret = "wait" => h.dec.filter = c.dec.filter
  BY <1>2, <1>4 DEF Alike
<1>8. Drawing(c, h, at)
  BY <1>2, <1>4, <1>6 DEF Alike, Drawing
<1> QED BY <1>1, <1>5, <1>7, <1>8 DEF hl

\* The filter is read once.
LEMMA BasicRectReads ==
  ASSUME NEW c, NEW w, Reader(c, w), c.ret = "wait", NEW at \in Place
  PROVE  /\ Resumes(c, w, BasicRect(c, at), BasicRect(With(c, w), at), BasicRect(With(BasicRect(c, at), w), at))
         /\ Drawing(c, BasicRect(c, at), at)
<1> DEFINE v == With(c, w)
           now == BasicRect(c, at)
<1>0. Client(c) /\ v.dec = c.dec /\ Frame(c, c)
  BY Untouched, Frames DEF Reader
<1>b. ASSUME NEW b, NEW f, f # -1, Frame(c, b), b.ret = "wait", b.dec.filter = f,
             now = BasicFilter(b, at), BasicRect(v, at) = BasicFilter(With(b, w), at)
      PROVE  /\ Resumes(c, w, now, BasicRect(v, at), BasicRect(With(now, w), at))
             /\ Drawing(b, now, at)
  <2> HIDE DEF now
  <2>1. /\ Resumes(b, w, now, BasicFilter(With(b, w), at), BasicFilter(With(now, w), at))
        /\ Drawing(b, now, at)
        /\ now.ret = "wait" => now.dec.filter = f
    BY <1>b, Behind, BasicFilterReads
  <2>2. With(now, w).dec = now.dec
    BY <2>1, Untouched DEF Resumes, Frame
  <2>3. now.ret = "wait" => BasicRect(With(now, w), at) = BasicFilter(With(now, w), at)
    BY <1>b, <2>1, <2>2 DEF BasicRect
  <2>4. Resumes(c, w, now, BasicFilter(With(b, w), at), BasicRect(With(now, w), at))
    BY <1>b, <2>1, <2>3, Before
  <2> QED BY <1>b, <2>1, <2>4
<1>1. CASE c.dec.filter # -1
  <2>1. now = BasicFilter(c, at) /\ BasicRect(v, at) = BasicFilter(With(c, w), at)
    BY <1>0, <1>1 DEF BasicRect
  <2> QED BY <1>0, <1>1, <1>b, <2>1
<1>2. ASSUME NEW s, NEW f, f # -1, Frame(c, s), s.ret = "wait", s.dec = c.dec, c.dec.filter = -1,
             now = BasicFilter(SetFilter(s, f), at), BasicRect(v, at) = BasicFilter(SetFilter(With(s, w), f), at)
      PROVE  /\ Resumes(c, w, now, BasicRect(v, at), BasicRect(With(now, w), at))
             /\ Drawing(c, now, at)
  <2> DEFINE b == SetFilter(s, f)
  <2>1. /\ Frame(c, b) /\ b.ret = "wait" /\ b.dec.filter = f /\ SetFilter(With(s, w), f) = With(b, w)
    BY <1>2, SettingFilter
  <2>2. Others(b.dec) = Others(c.dec) /\ b.dec.ctl = c.dec.ctl /\ b.dec.len = c.dec.len /\ b.dec.colours = c.dec.colours
    BY <1>2 DEF Others, SetFilter, Frame, Client, Shape, Fields, DecShape, DecFields
  <2> HIDE DEF b, now
  <2>3. /\ Resumes(c, w, now, BasicRect(v, at), BasicRect(With(now, w), at))
        /\ Drawing(b, now, at)
    BY <1>2, <1>b, <2>1 DEF b
  <2>4. TightOwes(c.dec, at) => TightOwes(b.dec, at)
    BY <1>2, <2>1, <2>2 DEF TightOwes, PaletteOwes
  <2>5. Drawing(c, now, at)
    BY <2>2, <2>3, <2>4 DEF Drawing
  <2> QED BY <2>3, <2>5
<1>3. CASE c.dec.filter = -1 /\ ~Bit(c.dec.ctl, 2)
  <2>1. now = BasicFilter(SetFilter(c, 0), at) /\ BasicRect(v, at) = BasicFilter(SetFilter(With(c, w), 0), at)
    BY <1>0, <1>3 DEF BasicRect, SetFilter
  <2>2. 0 # -1
    OBVIOUS
  <2> QED BY <1>0, <1>2, <1>3, <2>1, <2>2
<1>4. CASE c.dec.filter = -1 /\ Bit(c.dec.ctl, 2) /\ Has(c, 1)
  <2> DEFINE f == Peek(c, 1)[1]
             s == Skip(c, 1)
  <2>1. Has(v, 1) /\ Peek(v, 1) = Peek(c, 1) /\ f \in Byte
    BY <1>4, Queue
  <2>2. f # -1
    BY <2>1 DEF Byte
  <2>3. Frame(c, s) /\ s.dec = c.dec /\ s.ret = "wait" /\ Skip(v, 1) = With(s, w)
    BY <1>0, <1>4, Skipping
  <2>4. now = BasicFilter(SetFilter(s, f), at) /\ BasicRect(v, at) = BasicFilter(SetFilter(With(s, w), f), at)
    BY <1>0, <1>4, <2>1, <2>3 DEF BasicRect, SetFilter
  <2> HIDE DEF f, s, now
  <2> QED BY <1>2, <1>4, <2>2, <2>3, <2>4 DEF now
<1>5. CASE c.dec.filter = -1 /\ Bit(c.dec.ctl, 2) /\ ~Has(c, 1)
  <2>1. now = c
    BY <1>0, <1>5, Frames DEF BasicRect
  <2>2. Resumes(c, w, now, BasicRect(v, at), BasicRect(With(now, w), at))
    BY <1>0, <2>1, Waiting
  <2> QED BY <2>1, <2>2 DEF Drawing
<1> QED BY <1>1, <1>3, <1>4, <1>5

\* A fill is drawn when its colour is there.
LEMMA TightFillReads ==
  ASSUME NEW c, NEW w, Reader(c, w), c.ret = "wait", NEW at
  PROVE  /\ Resumes(c, w, TightFill(c, at), TightFill(With(c, w), at), TightFill(With(TightFill(c, at), w), at))
         /\ TightFill(c, at).ret \in {"wait", "done"} /\ TightFill(c, at).dec = c.dec
<1> DEFINE v == With(c, w)
           now == TightFill(c, at)
           px == Peek(c, 3)
           s == Skip(c, 3)
           f == FillRect(s, at, px)
<1>0. Client(c)
  BY DEF Reader
<1>1. CASE ~Has(c, 3)
  <2>1. now = c
    BY <1>0, <1>1, Frames DEF TightFill
  <2>2. Resumes(c, w, now, TightFill(v, at), TightFill(With(now, w), at))
    BY <1>0, <2>1, Waiting
  <2> QED BY <2>1, <2>2
<1>2. CASE Has(c, 3)
  <2>1. Has(v, 3) /\ Peek(v, 3) = px
    BY <1>2, Queue
  <2>2. now = Done(f) /\ TightFill(v, at) = Done(FillRect(Skip(v, 3), at, px))
    BY <1>2, <2>1 DEF TightFill
  <2>3. Frame(c, s) /\ s.dec = c.dec /\ Skip(v, 3) = With(s, w)
    BY <1>0, <1>2, Frames, Skipping
  <2> HIDE DEF s, px
  <2>4. Frame(c, f) /\ FillRect(With(s, w), at, px) = With(f, w)
    <3>1. Frame(s, f)
      BY <2>3, Frames DEF Frame
    <3> QED BY <2>3, <3>1, Through, FillWith
  <2>5. f.dec = s.dec
    BY <2>3 DEF FillRect, BlitImage, Frame, Client, Shape, Fields
  <2> HIDE DEF f
  <2>6. Frame(c, Done(f)) /\ Done(f).ret = "done" /\ Done(With(f, w)) = With(Done(f), w) /\ Done(f).dec = f.dec
    BY <2>4, Ending, Endings DEF Frame
  <2>7. Resumes(c, w, now, TightFill(v, at), TightFill(With(now, w), at))
    BY <2>2, <2>3, <2>4, <2>6, Going
  <2> QED BY <2>2, <2>3, <2>5, <2>6, <2>7
<1> QED BY <1>1, <1>2

\* A picture is handed on when its data is there.
LEMMA TightPictureReads ==
  ASSUME NEW r, Client(r), NEW w, NEW at
  PROVE  /\ Frame(r, TightPicture(r, at)) /\ TightPicture(r, at).ret = r.ret /\ TightPicture(r, at).dec = r.dec
         /\ TightPicture(With(r, w), at) = With(TightPicture(r, at), w)
         /\ r.ret # "done" => TightPicture(r, at) = r
<1> DEFINE v == With(r, w)
           x == r.data
           i == ImageRect(r, at, x)
           d == SetData(i, Nothing)
<1>1. v.ret = r.ret /\ v.data = x /\ Frame(r, r)
  BY Untouched, Frames
<1>2. /\ TightPicture(r, at) = IF r.ret = "done" THEN d ELSE r
      /\ TightPicture(v, at) = IF r.ret = "done" THEN SetData(ImageRect(v, at, x), Nothing) ELSE v
  BY <1>1 DEF TightPicture, SetData
<1> HIDE DEF x
<1>3. Frame(r, i) /\ ImageRect(v, at, x) = With(i, w)
  BY Frames, ImageWith
<1>4. i.ret = r.ret /\ i.dec = r.dec
  BY DEF ImageRect, Client, Shape, Fields
<1> HIDE DEF i
<1>5. Frame(r, d) /\ d.ret = i.ret /\ d.dec = i.dec /\ SetData(With(i, w), Nothing) = With(d, w)
  BY <1>3, DataWith
<1> HIDE DEF d
<1> QED BY <1>1, <1>2, <1>3, <1>4, <1>5

\* A picture in Tight is read as data is.
LEMMA TightImageReads ==
  ASSUME NEW c, NEW w, Reader(c, w), c.ret = "wait", NEW at
  PROVE  /\ Resumes(c, w, TightImage(c, at), TightImage(With(c, w), at), TightImage(With(TightImage(c, at), w), at))
         /\ TightImage(c, at).ret \in {"wait", "done"} /\ Alike(c, TightImage(c, at))
         /\ TightImage(c, at).dec.colours = c.dec.colours
         /\ TightImage(c, at).ret = "done" => TightImage(c, at).dec.len = 0
<1> DEFINE v == With(c, w)
           r == ReadData(c)
           rv == ReadData(v)
           rl == ReadData(With(r, w))
           h == TightPicture(r, at)
           hv == TightPicture(rv, at)
           hl == TightPicture(ReadData(With(h, w)), at)
<1>1. TightImage(c, at) = h /\ TightImage(v, at) = hv /\ TightImage(With(h, w), at) = hl
  BY DEF TightImage
<1>2. /\ Resumes(c, w, r, rv, rl) /\ r.ret \in {"wait", "done"} /\ Alike(c, r) /\ r.dec.colours = c.dec.colours
      /\ r.ret = "done" => r.dec.len = 0
  BY ReadDataReads
<1>3. Client(r)
  BY <1>2 DEF Resumes, Frame
<1> HIDE DEF r
<1>4. /\ Frame(r, h) /\ h.ret = r.ret /\ h.dec = r.dec
      /\ TightPicture(With(r, w), at) = With(h, w)
      /\ r.ret # "done" => h = r
  BY <1>3, TightPictureReads
<1>5. Resumes(c, w, h, hv, hl)
  <2>1. r.ret = "wait" => h = r
    BY <1>4
  <2>2. rv = With(r, w) => hv = With(h, w)
    BY <1>4
  <2>3. r.ret = "wait" /\ rv = rl => hv = hl
    BY <2>1
  <2> HIDE DEF rv, rl, h, hv, hl
  <2> QED BY <1>2, <1>4, <2>1, <2>2, <2>3, After
<1> HIDE DEF h, hv, hl
<1> QED BY <1>1, <1>2, <1>4, <1>5 DEF Alike

\* The control byte is kept until the rectangle is drawn.
LEMMA TightEndReads ==
  ASSUME NEW r, Client(r), NEW w
  PROVE  /\ Frame(r, TightEnd(r)) /\ TightEnd(r).ret = r.ret /\ TightEnd(With(r, w)) = With(TightEnd(r), w)
         /\ r.ret # "done" => TightEnd(r) = r
         /\ Others(TightEnd(r).dec) = Others(r.dec) /\ TightEnd(r).dec.filter = r.dec.filter
         /\ TightEnd(r).dec.len = r.dec.len /\ TightEnd(r).dec.colours = r.dec.colours
         /\ r.ret = "done" => TightEnd(r).dec.ctl = -1
<1> DEFINE v == With(r, w)
           d == SetCtl(r, -1)
<1>1. v.ret = r.ret /\ Frame(r, r)
  BY Untouched, Frames
<1>2. TightEnd(r) = (IF r.ret = "done" THEN d ELSE r) /\ TightEnd(v) = (IF r.ret = "done" THEN SetCtl(v, -1) ELSE v)
  BY <1>1 DEF TightEnd, SetCtl
<1>3. Frame(r, d) /\ d.ret = r.ret /\ d.dec.ctl = -1 /\ SetCtl(v, -1) = With(d, w)
  BY <1>1, SettingCtl
<1>4. /\ Others(d.dec) = Others(r.dec) /\ d.dec.filter = r.dec.filter
      /\ d.dec.len = r.dec.len /\ d.dec.colours = r.dec.colours
  BY DEF Others, SetCtl, Client, Shape, Fields, DecShape, DecFields
<1> HIDE DEF d
<1> QED BY <1>1, <1>2, <1>3, <1>4

\* The control byte is read, and resets streams, alike whatever the queue.
LEMMA ControlReads ==
  ASSUME NEW c, NEW w, Reader(c, w), c.ret = "wait", Has(c, 1)
  PROVE  /\ Frame(c, TightControl(c)) /\ TightControl(With(c, w)) = With(TightControl(c), w)
         /\ TightControl(c).ret = "wait" /\ TightControl(c).dec.ctl # -1
         /\ Others(TightControl(c).dec) = Others(c.dec) /\ TightControl(c).dec.filter = c.dec.filter
         /\ TightControl(c).dec.len = c.dec.len /\ TightControl(c).dec.colours = c.dec.colours
<1> DEFINE v == With(c, w)
           b == Peek(c, 1)[1]
           s == Skip(c, 1)
           d == SetControl(s, b)
<1>0. Client(c) /\ Frame(c, c)
  BY Frames DEF Reader
<1>1. Has(v, 1) /\ Peek(v, 1) = Peek(c, 1) /\ b \in Byte
  BY Queue
<1>2. TightControl(c) = d /\ TightControl(v) = SetControl(Skip(v, 1), b)
  BY <1>1 DEF TightControl, SetControl
<1>3. Frame(c, s) /\ s.dec = c.dec /\ s.ret = "wait" /\ Skip(v, 1) = With(s, w)
  BY <1>0, Skipping
<1>4. b \div 16 # -1
  <2> HIDE DEF b
  <2> QED BY <1>1 DEF Byte
<1> HIDE DEF s, b
<1>5. Frame(s, d)
  BY <1>3 DEF SetControl, Frame, Client, Shape, Fields, DecShape, DecFields
<1>6. d.ret = s.ret /\ d.dec.ctl = b \div 16
  BY <1>3 DEF SetControl, Frame, Client, Shape, Fields, DecShape, DecFields
<1>7. /\ Others(d.dec) = Others(s.dec) /\ d.dec.filter = s.dec.filter
      /\ d.dec.len = s.dec.len /\ d.dec.colours = s.dec.colours
  BY <1>3 DEF Others, SetControl, Frame, Client, Shape, Fields, DecShape, DecFields
<1>8. SetControl(With(s, w), b) = With(d, w)
  BY DEF SetControl, With
<1>9. Frame(c, d)
  BY <1>3, <1>5, Through
<1> HIDE DEF d
<1> QED BY <1>2, <1>3, <1>4, <1>6, <1>7, <1>8, <1>9

\* What Tight keeps between two of its turns.
Calm(d) == d.filter = -1 /\ d.colours = 0 /\ d.len = 0
TightMidway(d, at) ==
    /\ d.ctl \in {-1, 8} => Calm(d)
    /\ d.ctl \in {9, 10} => d.filter = -1 /\ d.colours = 0
    /\ d.ctl \notin {-1, 8, 9, 10} => TightOwes(d, at)

ControlBody(c, at, png) ==
    CASE c.dec.ctl = 8 -> TightFill(c, at)
      [] c.dec.ctl = 9 -> TightImage(c, at)
      [] c.dec.ctl = 10 /\ png -> TightImage(c, at)
      [] c.dec.ctl < 8 /\ ~png -> BasicRect(c, at)
      [] OTHER -> Fail(c)

\* Whatever the body of a rectangle is, a turn of it leaves what it needs and no more.
Bodied(c, now, at) ==
    /\ now.ret \in {"wait", "done", "fail"}
    /\ Others(now.dec) = Others(c.dec) /\ now.dec.ctl = c.dec.ctl
    /\ TightMidway(c.dec, at) =>
        /\ now.ret = "wait" => TightMidway(now.dec, at)
        /\ now.ret = "done" /\ ~now.astray => Calm(now.dec)

\* Whatever the control byte, a turn does what it would with all bytes there.
LEMMA BodyReads ==
  ASSUME NEW c, NEW w, Reader(c, w), c.ret = "wait", NEW at \in Place, NEW png \in BOOLEAN, c.dec.ctl # -1
  PROVE  /\ Resumes(c, w, ControlBody(c, at, png), ControlBody(With(c, w), at, png),
                    ControlBody(With(ControlBody(c, at, png), w), at, png))
         /\ Bodied(c, ControlBody(c, at, png), at)
<1> DEFINE v == With(c, w)
           now == ControlBody(c, at, png)
           ctl == c.dec.ctl
<1>0. Client(c) /\ v.dec = c.dec /\ Frame(c, c)
  BY Untouched, Frames DEF Reader
<1>1. ASSUME Frame(c, now), now.dec.ctl = ctl
      PROVE  With(now, w).dec.ctl = ctl
  <2>1. Client(now)
    BY <1>1 DEF Frame
  <2>2. With(now, w).dec = now.dec
    BY <2>1, Untouched
  <2> HIDE DEF now
  <2> QED BY <1>1, <2>2
<1>2. CASE ctl = 8
  <2> DEFINE e == TightFill(c, at)
             el == TightFill(With(e, w), at)
  <2>1. now = e /\ ControlBody(v, at, png) = TightFill(v, at)
    BY <1>0, <1>2 DEF ControlBody
  <2>2. Resumes(c, w, e, TightFill(v, at), el) /\ e.ret \in {"wait", "done"} /\ e.dec = c.dec
    BY TightFillReads
  <2>3. ControlBody(With(now, w), at, png) = el
    <3>1. With(now, w).dec.ctl = 8
      BY <1>1, <1>2, <2>1, <2>2 DEF Resumes
    <3> QED BY <2>1, <3>1 DEF ControlBody
  <2> HIDE DEF e, el, now
  <2>4. Bodied(c, e, at)
    BY <1>2, <2>2 DEF Bodied, TightMidway
  <2> QED BY <2>1, <2>2, <2>3, <2>4 DEF now
<1>3. CASE ctl = 9 \/ (ctl = 10 /\ png)
  <2> DEFINE e == TightImage(c, at)
             el == TightImage(With(e, w), at)
  <2>1. now = e /\ ControlBody(v, at, png) = TightImage(v, at)
    BY <1>0, <1>3 DEF ControlBody
  <2>2. /\ Resumes(c, w, e, TightImage(v, at), el) /\ e.ret \in {"wait", "done"} /\ Alike(c, e)
        /\ e.dec.colours = c.dec.colours
        /\ e.ret = "done" => e.dec.len = 0
    BY TightImageReads
  <2>3. ControlBody(With(now, w), at, png) = el
    <3>1. With(now, w).dec.ctl = ctl
      BY <1>1, <2>1, <2>2 DEF Resumes, Alike
    <3> QED BY <1>3, <2>1, <3>1 DEF ControlBody
  <2> HIDE DEF e, el, now
  <2>4. Bodied(c, e, at)
    BY <1>3, <2>2 DEF Bodied, TightMidway, Alike, Calm
  <2> QED BY <2>1, <2>2, <2>3, <2>4 DEF now
<1>4. CASE ctl # 8 /\ ctl # 9 /\ ~(ctl = 10 /\ png) /\ ctl < 8 /\ ~png
  <2> DEFINE e == BasicRect(c, at)
             el == BasicRect(With(e, w), at)
  <2>1. now = e /\ ControlBody(v, at, png) = BasicRect(v, at)
    BY <1>0, <1>4 DEF ControlBody
  <2>2. Resumes(c, w, e, BasicRect(v, at), el) /\ Drawing(c, e, at)
    BY BasicRectReads
  <2>3. ControlBody(With(now, w), at, png) = el
    <3>1. With(now, w).dec.ctl = ctl
      BY <1>1, <2>1, <2>2 DEF Resumes, Drawing
    <3> QED BY <1>4, <2>1, <3>1 DEF ControlBody
  <2> HIDE DEF e, el, now
  <2>4. Bodied(c, e, at)
    BY <1>4, <2>2 DEF Bodied, TightMidway, Drawing, Calm
  <2> QED BY <2>1, <2>2, <2>3, <2>4 DEF now
<1>5. CASE ctl # 8 /\ ctl # 9 /\ ~(ctl = 10 /\ png) /\ ~(ctl < 8 /\ ~png)
  <2>1. now = Fail(c) /\ ControlBody(v, at, png) = With(Fail(c), w)
    BY <1>0, <1>5, Commuting DEF ControlBody
  <2>2. Frame(c, Fail(c)) /\ Fail(c).ret = "fail" /\ Fail(c).dec = c.dec
    BY <1>0, Frames, Endings
  <2>3. Resumes(c, w, now, ControlBody(v, at, png), ControlBody(With(now, w), at, png))
    BY <2>1, <2>2, Going
  <2> HIDE DEF now
  <2>4. Bodied(c, now, at)
    BY <2>1, <2>2 DEF Bodied
  <2> QED BY <2>3, <2>4 DEF now
<1> QED BY <1>2, <1>3, <1>4, <1>5

\* And the control byte is forgotten with the last turn of its rectangle.
LEMMA TightRectReads ==
  ASSUME NEW c, NEW w, Reader(c, w), c.ret = "wait", NEW at \in Place, NEW png \in BOOLEAN, c.dec.ctl # -1
  PROVE  /\ Resumes(c, w, TightRect(c, at, png), TightRect(With(c, w), at, png),
                    TightRect(With(TightRect(c, at, png), w), at, png))
         /\ TightRect(c, at, png).ret \in {"wait", "done", "fail"}
         /\ Others(TightRect(c, at, png).dec) = Others(c.dec)
         /\ TightRect(c, at, png).ret = "wait" => TightRect(c, at, png).dec.ctl = c.dec.ctl
         /\ TightMidway(c.dec, at) =>
                /\ TightRect(c, at, png).ret = "wait" => TightMidway(TightRect(c, at, png).dec, at)
                /\ TightRect(c, at, png).ret = "done" /\ ~TightRect(c, at, png).astray =>
                       TightRect(c, at, png).dec.ctl = -1 /\ Calm(TightRect(c, at, png).dec)
<1> DEFINE v == With(c, w)
           r == ControlBody(c, at, png)
           rv == ControlBody(v, at, png)
           rl == ControlBody(With(r, w), at, png)
           h == TightEnd(r)
           hv == TightEnd(rv)
           hl == TightRect(With(h, w), at, png)
<1>1. TightRect(c, at, png) = h /\ TightRect(v, at, png) = hv /\ TightRect(With(r, w), at, png) = TightEnd(rl)
  BY DEF TightRect, ControlBody
<1>2. Resumes(c, w, r, rv, rl) /\ Bodied(c, r, at)
  BY BodyReads
<1> HIDE DEF r, rv, rl
<1>3. Client(r)
  BY <1>2 DEF Resumes, Frame
<1>4. /\ Frame(r, h) /\ h.ret = r.ret /\ TightEnd(With(r, w)) = With(h, w)
      /\ r.ret # "done" => h = r
      /\ Others(h.dec) = Others(r.dec) /\ h.dec.filter = r.dec.filter
      /\ h.dec.len = r.dec.len /\ h.dec.colours = r.dec.colours
      /\ r.ret = "done" => h.dec.ctl = -1
  BY <1>3, TightEndReads
<1>5. Resumes(c, w, h, hv, hl)
  <2>1. r.ret = "wait" => h = r
    BY <1>4
  <2>2. rv = With(r, w) => hv = With(h, w)
    BY <1>4
  <2>3. r.ret = "wait" /\ rv = rl => hv = hl
    BY <1>1, <2>1
  <2> HIDE DEF h, hv, hl
  <2> QED BY <1>2, <1>4, <2>1, <2>2, <2>3, After
<1>6. h.astray \/ ~r.astray
  BY <1>4 DEF Frame
<1> HIDE DEF h, hv, hl
<1>7. h.ret \in {"wait", "done", "fail"} /\ Others(h.dec) = Others(c.dec) /\ (h.ret = "wait" => h.dec.ctl = c.dec.ctl)
  BY <1>2, <1>4 DEF Bodied
<1>8. TightMidway(c.dec, at) =>
            /\ h.ret = "wait" => TightMidway(h.dec, at)
            /\ h.ret = "done" /\ ~h.astray => h.dec.ctl = -1 /\ Calm(h.dec)
  BY <1>2, <1>4, <1>6 DEF Bodied, Calm
<1> QED BY <1>1, <1>5, <1>7, <1>8 DEF hl

\* A turn of Tight or TightPNG resumes, and leaves nothing when it is done.
LEMMA TightReads ==
  ASSUME NEW c, NEW w, Reader(c, w), c.ret = "wait", NEW at \in Place, NEW png \in BOOLEAN
  PROVE  /\ Resumes(c, w, Tight(c, at, png), Tight(With(c, w), at, png), Tight(With(Tight(c, at, png), w), at, png))
         /\ Others(Tight(c, at, png).dec) = Others(c.dec)
         /\ Tight(c, at, png).ret \in {"wait", "done", "fail"}
         /\ TightMidway(c.dec, at) =>
                /\ Tight(c, at, png).ret = "wait" => TightMidway(Tight(c, at, png).dec, at)
                /\ Tight(c, at, png).ret = "done" /\ ~Tight(c, at, png).astray =>
                       Tight(c, at, png).dec.ctl = -1 /\ Calm(Tight(c, at, png).dec)
<1> DEFINE v == With(c, w)
           now == Tight(c, at, png)
<1>0. Client(c) /\ v.dec = c.dec /\ Frame(c, c)
  BY Untouched, Frames DEF Reader
<1>1. ASSUME NEW b, Frame(c, b), b.ret = "wait", b.dec.ctl # -1, Others(b.dec) = Others(c.dec),
             now = TightRect(b, at, png), Tight(v, at, png) = TightRect(With(b, w), at, png)
      PROVE  /\ Resumes(c, w, now, Tight(v, at, png), Tight(With(now, w), at, png))
             /\ Others(now.dec) = Others(c.dec) /\ now.ret \in {"wait", "done", "fail"}
             /\ TightMidway(b.dec, at) =>
                    /\ now.ret = "wait" => TightMidway(now.dec, at)
                    /\ now.ret = "done" /\ ~now.astray => now.dec.ctl = -1 /\ Calm(now.dec)
  <2> HIDE DEF now
  <2>1. /\ Resumes(b, w, now, TightRect(With(b, w), at, png), TightRect(With(now, w), at, png))
        /\ now.ret \in {"wait", "done", "fail"} /\ Others(now.dec) = Others(b.dec)
        /\ now.ret = "wait" => now.dec.ctl = b.dec.ctl
        /\ TightMidway(b.dec, at) =>
                /\ now.ret = "wait" => TightMidway(now.dec, at)
                /\ now.ret = "done" /\ ~now.astray => now.dec.ctl = -1 /\ Calm(now.dec)
    BY <1>1, Behind, TightRectReads
  <2>2. With(now, w).dec = now.dec
    BY <2>1, Untouched DEF Resumes, Frame
  <2>3. now.ret = "wait" => Tight(With(now, w), at, png) = TightRect(With(now, w), at, png)
    BY <1>1, <2>1, <2>2 DEF Tight
  <2>4. Resumes(c, w, now, TightRect(With(b, w), at, png), Tight(With(now, w), at, png))
    BY <1>1, <2>1, <2>3, Before
  <2> QED BY <1>1, <2>1, <2>4
<1>2. CASE c.dec.ctl # -1
  <2>1. now = TightRect(c, at, png) /\ Tight(v, at, png) = TightRect(With(c, w), at, png)
    BY <1>0, <1>2 DEF Tight
  <2> QED BY <1>0, <1>1, <1>2, <2>1
<1>3. CASE c.dec.ctl = -1 /\ Has(c, 1)
  <2> DEFINE b == TightControl(c)
  <2>1. /\ Frame(c, b) /\ TightControl(v) = With(b, w) /\ b.ret = "wait" /\ b.dec.ctl # -1
        /\ Others(b.dec) = Others(c.dec) /\ b.dec.filter = c.dec.filter
        /\ b.dec.len = c.dec.len /\ b.dec.colours = c.dec.colours
    BY <1>3, ControlReads
  <2>2. Has(v, 1)
    BY <1>3, Queue
  <2>3. now = TightRect(b, at, png) /\ Tight(v, at, png) = TightRect(With(b, w), at, png)
    BY <1>0, <1>3, <2>1, <2>2 DEF Tight
  <2> HIDE DEF b, now
  <2>4. TightMidway(c.dec, at) => TightMidway(b.dec, at)
    BY <1>3, <2>1 DEF TightMidway, Calm, TightOwes, PaletteOwes
  <2> QED BY <1>1, <2>1, <2>3, <2>4 DEF now
<1>4. CASE c.dec.ctl = -1 /\ ~Has(c, 1)
  <2>1. now = c
    BY <1>0, <1>4, Frames DEF Tight
  <2>2. Resumes(c, w, now, Tight(v, at, png), Tight(With(now, w), at, png))
    BY <1>0, <2>1, Waiting
  <2> QED BY <2>1, <2>2
<1> QED BY <1>2, <1>3, <1>4

\* A set of numbers has a first one.
LEMMA First ==
  ASSUME NEW S, S \subseteq Nat, S # {}
  PROVE  \E k \in S : \A j \in S : k <= j
<1> DEFINE R == OpToRel(<, Nat)
<1>1. IsWellFoundedOn(R, Nat)
  BY NatLessThanWellFounded
<1>2. \A x, y \in Nat : <<x, y>> \in R <=> x < y
  BY DEF OpToRel
<1> HIDE DEF R
<1>3. PICK k \in S : \A j \in S : ~(<<j, k>> \in R)
  BY <1>1, WFMin
<1>4. ASSUME NEW j \in S
      PROVE  k <= j
  <2>1. j \in Nat /\ k \in Nat
    OBVIOUS
  <2>2. ~(<<j, k>> \in R)
    BY <1>3
  <2>3. ~(j < k)
    BY <1>2, <2>1, <2>2
  <2> QED BY <2>1, <2>3
<1> QED BY <1>4

\* The places at which a scan may end, and the first of them.
Marked(q, i) == q[i - 1] = 255 /\ q[i] # 0 /\ q[i] \notin 208..215
EndsOf(c, length) == {i \in (c.rQi + 4 + length)..Len(c.rQ) : Marked(c.rQ, i)}
FirstOf(S) == CHOOSE i \in S : \A j \in S : i <= j

\* A scan ends at the first place at which one may.
LEMMA ScanEndOf ==
  ASSUME NEW c, NEW length
  PROVE  ScanEnd(c, length) = IF EndsOf(c, length) = {} THEN 0 ELSE FirstOf(EndsOf(c, length)) - 2 - c.rQi
  BY DEF ScanEnd, EndsOf, FirstOf, Marked

\* Bytes that come later do not move the end of a scan that was found.
LEMMA ScanEndStays ==
  ASSUME NEW c, NEW w, Reader(c, w), NEW length \in Nat, length >= 2, ScanEnd(c, length) # 0
  PROVE  /\ ScanEnd(With(c, w), length) = ScanEnd(c, length)
         /\ ScanEnd(c, length) \in Nat /\ Has(c, ScanEnd(c, length))
<1> DEFINE v == With(c, w)
           S == EndsOf(c, length)
           T == EndsOf(v, length)
           low == c.rQi + 4 + length
<1>1. v.rQ = w /\ v.rQi = c.rQi
  BY Untouched DEF Reader
<1>2. c.rQi \in Nat /\ Len(c.rQ) \in Nat /\ Len(w) \in Nat /\ Len(c.rQ) <= Len(w) /\ low \in Nat /\ low > 1
  BY DEF Reader, Client, Begins
<1>3. S = {i \in low..Len(c.rQ) : Marked(c.rQ, i)} /\ T = {i \in low..Len(w) : Marked(w, i)}
  BY <1>1 DEF EndsOf
<1> HIDE DEF v, S, T, low
<1>4. ASSUME NEW i \in low..Len(c.rQ)
      PROVE  Marked(c.rQ, i) <=> Marked(w, i)
  <2>1. i \in 1..Len(c.rQ) /\ i - 1 \in 1..Len(c.rQ)
    BY <1>2
  <2>2. c.rQ[i] = w[i] /\ c.rQ[i - 1] = w[i - 1]
    BY <2>1 DEF Reader, Begins
  <2> QED BY <2>2 DEF Marked
<1>5. S # {}
  BY ScanEndOf DEF S
<1>6. S \subseteq Nat /\ T \subseteq Nat
  BY <1>2, <1>3
<1>7. PICK k \in S : \A j \in S : k <= j
  BY <1>5, <1>6, First
<1>8. k \in T
  BY <1>2, <1>3, <1>4
<1>9. \A j \in T : k <= j
  <2>1. SUFFICES ASSUME NEW j \in T PROVE k <= j
    OBVIOUS
  <2>2. CASE j <= Len(c.rQ)
    <3>1. j \in S
      BY <1>2, <1>3, <1>4, <2>2
    <3> QED BY <1>7, <3>1
  <2>3. CASE ~(j <= Len(c.rQ))
    <3>1. k <= Len(c.rQ) /\ k \in Nat /\ j \in Nat
      BY <1>2, <1>3, <1>6
    <3> QED BY <1>2, <2>3, <3>1
  <2> QED BY <2>2, <2>3
<1>10. FirstOf(S) = k /\ FirstOf(T) = k
  <2>1. \A i \in S : (\A j \in S : i <= j) => i = k
    BY <1>6, <1>7
  <2>2. \A i \in T : (\A j \in T : i <= j) => i = k
    BY <1>6, <1>8, <1>9
  <2> QED BY <1>7, <1>8, <1>9, <2>1, <2>2 DEF FirstOf
<1>11. ScanEnd(c, length) = k - 2 - c.rQi /\ ScanEnd(v, length) = k - 2 - c.rQi
  BY <1>1, <1>5, <1>8, <1>10, ScanEndOf DEF S, T, v
<1>12. k - 2 - c.rQi \in Nat /\ k <= Len(c.rQ) /\ k \in Nat
  BY <1>2, <1>3 DEF low
<1> QED BY <1>2, <1>11, <1>12 DEF Has, v

\* So many bytes are taken from the queue.
Piece(c, n) == SetData(Skip(c, n), Peek(c, n))

\* Bytes that are there are taken alike when more follow.
LEMMA PieceReads ==
  ASSUME NEW c, NEW w, Reader(c, w), NEW n \in Nat, Has(c, n)
  PROVE  /\ Frame(c, Done(Piece(c, n))) /\ Done(Piece(c, n)).ret = "done" /\ Done(Piece(c, n)).dec = c.dec
         /\ Done(Piece(With(c, w), n)) = With(Done(Piece(c, n)), w)
<1> DEFINE v == With(c, w)
           b == Peek(c, n)
           s == Skip(c, n)
           d == SetData(s, b)
<1>0. Client(c) /\ Frame(c, c)
  BY Frames DEF Reader
<1>1. Peek(v, n) = b
  BY Queue
<1>2. Frame(c, s) /\ s.dec = c.dec /\ Skip(v, n) = With(s, w)
  BY <1>0, Skipping
<1>3. Piece(c, n) = d /\ Piece(v, n) = SetData(With(s, w), b)
  BY <1>1, <1>2 DEF Piece
<1> HIDE DEF s, b
<1>4. Frame(c, d) /\ SetData(With(s, w), b) = With(d, w) /\ d.dec = s.dec
  BY <1>2, DataWith
<1> HIDE DEF d
<1>5. Frame(c, Done(d)) /\ Done(d).ret = "done" /\ Done(With(d, w)) = With(Done(d), w) /\ Done(d).dec = d.dec
  BY <1>4, Ending, Endings DEF Frame
<1> QED BY <1>2, <1>3, <1>4, <1>5

\* The length that a segment has in its third and fourth byte.
LEMMA LengthIn ==
  ASSUME NEW c, NEW w, Reader(c, w), Has(c, 4)
  PROVE  Shift16(SubSeq(Peek(c, 4), 3, 4)) \in Nat
<1> DEFINE q == Peek(c, 4)
           b == SubSeq(q, 3, 4)
           x == b[1]
           y == b[2]
<1>0. 4 \in Nat
  OBVIOUS
<1>1. q \in Seq(Byte) /\ Len(q) = 4
  BY <1>0, Queue
<1> HIDE DEF q
<1>2. b \in Seq(Byte) /\ Len(b) = 2
  BY <1>1
<1> HIDE DEF b
<1>3. x \in Byte /\ y \in Byte
  BY <1>2, ElementOfSeq
<1>4. Shift16(b) = 256 * x + y
  BY DEF Shift16
<1> HIDE DEF x, y
<1>5. x \in Nat /\ y \in Nat
  BY <1>3 DEF Byte
<1>6. 256 * x + y \in Nat
  BY <1>5
<1>7. Shift16(b) \in Nat
  BY <1>4, <1>6
<1> QED BY <1>7 DEF b, q

Alone(type) == type \in 208..217 \/ type = 1

\* A segment is in the queue or it is left there.
LEMMA SegmentReads ==
  ASSUME NEW c, NEW w, Reader(c, w), c.ret = "wait"
  PROVE  /\ Resumes(c, w, Segment(c), Segment(With(c, w)), Segment(With(Segment(c), w)))
         /\ Segment(c).ret \in {"wait", "done", "fail"} /\ Segment(c).dec = c.dec
         /\ Segment(c).ret = "wait" => Segment(c) = c
<1> DEFINE v == With(c, w)
           two == Peek(c, 2)
           type == two[2]
           length == Shift16(SubSeq(Peek(c, 4), 3, 4))
           size == IF type = 218 THEN ScanEnd(c, length) ELSE 2 + length
           sizev == IF type = 218 THEN ScanEnd(v, length) ELSE 2 + length
<1>0. Client(c) /\ Frame(c, c) /\ 2 \in Nat /\ 4 \in Nat
  BY Frames DEF Reader
<1>1. ASSUME NEW n \in Nat, Has(c, n), Segment(c) = Done(Piece(c, n)), Segment(v) = Done(Piece(v, n))
      PROVE  /\ Resumes(c, w, Segment(c), Segment(v), Segment(With(Segment(c), w)))
             /\ Segment(c).ret = "done" /\ Segment(c).dec = c.dec
  <2>1. /\ Frame(c, Segment(c)) /\ Segment(c).ret = "done" /\ Segment(c).dec = c.dec
        /\ Segment(v) = With(Segment(c), w)
    BY <1>1, PieceReads
  <2> QED BY <2>1, Going
<1>2. ASSUME Segment(c) = Fail(c), Segment(v) = Fail(v)
      PROVE  /\ Resumes(c, w, Segment(c), Segment(v), Segment(With(Segment(c), w)))
             /\ Segment(c).ret = "fail" /\ Segment(c).dec = c.dec
  <2>1. Frame(c, Fail(c)) /\ Fail(c).ret = "fail" /\ Fail(c).dec = c.dec /\ Fail(v) = With(Fail(c), w)
    BY <1>0, Ending, Endings
  <2> QED BY <1>2, <2>1, Going
<1>3. ASSUME Segment(c) = c
      PROVE  Resumes(c, w, Segment(c), Segment(v), Segment(With(Segment(c), w)))
  BY <1>0, <1>3, Waiting
<1>4. CASE ~Has(c, 2)
  <2>1. Segment(c) = c
    BY <1>0, <1>4, Frames DEF Segment
  <2> QED BY <1>3, <2>1
<1>5. CASE Has(c, 2)
  <2>1. Has(v, 2) /\ Peek(v, 2) = two /\ two \in Seq(Byte) /\ Len(two) = 2
    BY <1>0, <1>5, Queue
  <2>2. CASE two[1] # 255
    <3>1. Segment(c) = Fail(c) /\ Segment(v) = Fail(v)
      BY <1>5, <2>1, <2>2 DEF Segment
    <3> QED BY <1>2, <3>1
  <2>3. CASE two[1] = 255 /\ Alone(type)
    <3>1. Segment(c) = Done(Piece(c, 2)) /\ Segment(v) = Done(Piece(v, 2))
      BY <1>5, <2>1, <2>3 DEF Segment, Piece, SetData, Alone
    <3> QED BY <1>0, <1>1, <1>5, <3>1
  <2>4. CASE two[1] = 255 /\ ~Alone(type) /\ ~Has(c, 4)
    <3>1. Segment(c) = c
      BY <1>0, <1>5, <2>4, Frames DEF Segment, Alone
    <3> QED BY <1>3, <3>1
  <2>5. CASE two[1] = 255 /\ ~Alone(type) /\ Has(c, 4)
    <3>1. Has(v, 4) /\ Peek(v, 4) = Peek(c, 4)
      BY <1>0, <2>5, Queue
    <3>2. length \in Nat
      BY <2>5, LengthIn
    <3>3. Segment(c) = IF length < 2 THEN Fail(c) ELSE IF ~Has(c, 2 + length) \/ size = 0 THEN Wait(c)
                       ELSE Done(Piece(c, size))
      BY <1>5, <2>5 DEF Segment, Piece, SetData, Alone
    <3>4. Segment(v) = IF length < 2 THEN Fail(v) ELSE IF ~Has(v, 2 + length) \/ sizev = 0 THEN Wait(v)
                       ELSE Done(Piece(v, sizev))
      BY <2>1, <2>5, <3>1 DEF Segment, Piece, SetData, Alone
    <3> HIDE DEF length, type
    <3>5. CASE length < 2
      BY <1>2, <3>3, <3>4, <3>5
    <3>6. CASE ~(length < 2) /\ (~Has(c, 2 + length) \/ size = 0)
      <4>1. Segment(c) = c
        BY <1>0, <3>3, <3>6, Frames
      <4> QED BY <1>3, <4>1
    <3>7. CASE ~(length < 2) /\ Has(c, 2 + length) /\ size # 0
      <4>1. sizev = size /\ size \in Nat /\ Has(c, size)
        <5>1. CASE type = 218
          BY <3>2, <3>7, <5>1, ScanEndStays
        <5>2. CASE type # 218
          BY <3>2, <3>7, <5>2
        <5> QED BY <5>1, <5>2
      <4>2. Has(v, 2 + length)
        BY <3>2, <3>7, Queue
      <4> HIDE DEF size, sizev
      <4>3. Segment(c) = Done(Piece(c, size)) /\ Segment(v) = Done(Piece(v, size))
        BY <3>3, <3>4, <3>7, <4>1, <4>2
      <4> QED BY <1>1, <4>1, <4>3
    <3> QED BY <3>5, <3>6, <3>7
  <2> QED BY <2>2, <2>3, <2>4, <2>5
<1> QED BY <1>4, <1>5

\* The picture in the segments, with the tables of another where it has none.
OfType(all, t) == SelectSeq(all, LAMBDA s : s[2] = t)
Framed(all) == \E s \in Range(all) : s[2] \in {192, 194}
Picture(all, kept) ==
    LET sof == CHOOSE i \in DOMAIN all : all[i][2] \in {192, 194} /\ \A j \in 1..(i - 1) : all[j][2] \notin {192, 194}
        quant == IF OfType(all, 219) = <<>> THEN kept.quant ELSE <<>>
        huff == IF OfType(all, 196) = <<>> THEN kept.huff ELSE <<>>
        whole == SubSeq(all, 1, sof) \o huff \o quant \o SubSeq(all, sof + 1, Len(all))
    IN  FlattenSeq(whole)

SetTables(c, q, h) == [c EXCEPT !.kept.quant = q, !.kept.huff = h, !.dec.segments = <<>>]
Tabled(c, all) == SetTables(c, Tables(OfType(all, 219), c.kept.quant), Tables(OfType(all, 196), c.kept.huff))
SetMore(c, x) == [c EXCEPT !.dec.segments = Append(@, x), !.data = Nothing]

\* Only this is changed of what the decoders keep.
Only(f, d, e) == \A g \in DecFields : g # f => e[g] = d[g]

\* Whether it is written as one change or as three, the tables are the same.
LEMMA TabledIs ==
  ASSUME NEW c, NEW all
  PROVE  Tabled(c, all) = [c EXCEPT !.kept.quant = Tables(OfType(all, 219), @),
                                    !.kept.huff = Tables(OfType(all, 196), @), !.dec.segments = <<>>]
<1> DEFINE q == OfType(all, 219)
           h == OfType(all, 196)
<1> HIDE DEF q, h
<1>1. SetTables(c, Tables(q, c.kept.quant), Tables(h, c.kept.huff))
        = [c EXCEPT !.kept.quant = Tables(q, @), !.kept.huff = Tables(h, @), !.dec.segments = <<>>]
  BY DEF SetTables
<1> QED BY <1>1 DEF Tabled, q, h

\* The image in those words.
LEMMA JpegImageIs ==
  ASSUME NEW c, NEW at
  PROVE  JpegImage(c, at) = IF ~Framed(c.dec.segments) THEN Fail(c)
             ELSE Done(Tabled(ImageRect(c, at, Picture(c.dec.segments, c.kept)), c.dec.segments))
<1> DEFINE i == ImageRect(c, at, Picture(c.dec.segments, c.kept))
           all == c.dec.segments
<1>1. JpegImage(c, at) = IF ~Framed(all) THEN Fail(c)
        ELSE Done([i EXCEPT !.kept.quant = Tables(OfType(all, 219), @),
                            !.kept.huff = Tables(OfType(all, 196), @), !.dec.segments = <<>>])
  BY Zenon DEF JpegImage, Framed, Picture, OfType
<1> HIDE DEF i, all
<1>2. JpegImage(c, at) = IF ~Framed(all) THEN Fail(c) ELSE Done(Tabled(i, all))
  BY <1>1, TabledIs
<1> QED BY <1>2 DEF i, all

\* The tables that are set do not depend on the queue.
LEMMA TablesWith ==
  ASSUME NEW c, Client(c), NEW q, NEW h
  PROVE  /\ Frame(c, SetTables(c, q, h)) /\ \A w : SetTables(With(c, w), q, h) = With(SetTables(c, q, h), w)
         /\ Only("segments", c.dec, SetTables(c, q, h).dec) /\ SetTables(c, q, h).dec.segments = <<>>
<1>1. \A w : SetTables(With(c, w), q, h) = With(SetTables(c, q, h), w)
  BY DEF SetTables, With
<1>2. Frame(c, SetTables(c, q, h))
  BY DEF SetTables, Frame, Client, Shape, Fields, DecShape, DecFields
<1>3. Only("segments", c.dec, SetTables(c, q, h).dec) /\ SetTables(c, q, h).dec.segments = <<>>
  BY DEF SetTables, Client, Shape, Fields, DecShape, DecFields, Only
<1> QED BY <1>1, <1>2, <1>3

\* Nor do those that a picture leaves to the next.
LEMMA TabledWith ==
  ASSUME NEW c, Client(c), NEW all
  PROVE  /\ Frame(c, Tabled(c, all)) /\ \A w : Tabled(With(c, w), all) = With(Tabled(c, all), w)
         /\ Only("segments", c.dec, Tabled(c, all).dec) /\ Tabled(c, all).dec.segments = <<>>
<1> DEFINE q == Tables(OfType(all, 219), c.kept.quant)
           h == Tables(OfType(all, 196), c.kept.huff)
<1>1. Tabled(c, all) = SetTables(c, q, h) /\ \A w : Tabled(With(c, w), all) = SetTables(With(c, w), q, h)
  <2>1. \A w : With(c, w).kept = c.kept
    BY Untouched
  <2> QED BY <2>1 DEF Tabled
<1> HIDE DEF q, h
<1> QED BY <1>1, TablesWith

\* Nor does a segment that is added.
LEMMA MoreWith ==
  ASSUME NEW c, Client(c), NEW x
  PROVE  /\ Frame(c, SetMore(c, x)) /\ \A w : SetMore(With(c, w), x) = With(SetMore(c, x), w)
         /\ Only("segments", c.dec, SetMore(c, x).dec)
<1>1. \A w : SetMore(With(c, w), x) = With(SetMore(c, x), w)
  BY DEF SetMore, With
<1>2. Frame(c, SetMore(c, x))
  BY DEF SetMore, Frame, Client, Shape, Fields, DecShape, DecFields
<1>3. Only("segments", c.dec, SetMore(c, x).dec)
  BY DEF SetMore, Client, Shape, Fields, DecShape, DecFields, Only
<1> QED BY <1>1, <1>2, <1>3

\* A picture whose segments are there is handed on alike.
LEMMA JpegImageReads ==
  ASSUME NEW c, Client(c), NEW w, NEW at
  PROVE  /\ Frame(c, JpegImage(c, at)) /\ JpegImage(With(c, w), at) = With(JpegImage(c, at), w)
         /\ Only("segments", c.dec, JpegImage(c, at).dec)
         /\ JpegImage(c, at).ret \in {"done", "fail"}
         /\ JpegImage(c, at).ret = "done" => JpegImage(c, at).dec.segments = <<>>
<1> DEFINE v == With(c, w)
           all == c.dec.segments
           x == Picture(all, c.kept)
           i == ImageRect(c, at, x)
           t == Tabled(i, all)
           good == Framed(all)
<1>1. v.dec = c.dec /\ v.kept = c.kept
  BY Untouched
<1>2. JpegImage(c, at) = IF ~good THEN Fail(c) ELSE Done(t)
  BY JpegImageIs
<1>3. JpegImage(v, at) = IF ~good THEN Fail(v) ELSE Done(Tabled(ImageRect(v, at, x), all))
  BY <1>1, JpegImageIs
<1> HIDE DEF good, x, all
<1>4. Frame(c, i) /\ ImageRect(v, at, x) = With(i, w) /\ i.dec = c.dec
  <2>1. Frame(c, i) /\ ImageRect(v, at, x) = With(i, w)
    BY Frames, ImageWith
  <2>2. i.dec = c.dec
    BY DEF ImageRect, Client, Shape, Fields
  <2> QED BY <2>1, <2>2
<1> HIDE DEF i
<1>5. Client(i)
  BY <1>4 DEF Frame
<1>6. /\ Frame(i, t) /\ Tabled(With(i, w), all) = With(t, w) /\ Only("segments", i.dec, t.dec) /\ t.dec.segments = <<>>
  BY <1>5, TabledWith
<1> HIDE DEF t
<1>7. Frame(c, t)
  BY <1>4, <1>6, Through
<1>8. Frame(c, Done(t)) /\ Done(t).ret = "done" /\ Done(With(t, w)) = With(Done(t), w) /\ Done(t).dec = t.dec
  BY <1>7, Ending, Endings DEF Frame
<1>9. Frame(c, Fail(c)) /\ Fail(c).ret = "fail" /\ Fail(v) = With(Fail(c), w) /\ Fail(c).dec = c.dec
  BY Frames, Ending, Endings
<1>10. Only("segments", c.dec, c.dec)
  BY DEF Only
<1>11. CASE good
  BY <1>2, <1>3, <1>4, <1>6, <1>8, <1>11
<1>12. CASE ~good
  BY <1>2, <1>3, <1>9, <1>10, <1>12
<1> QED BY <1>11, <1>12

\* One more segment is kept, and with the last the picture is handed on.
LEMMA JpegSegmentReads ==
  ASSUME NEW r, Client(r), NEW w, NEW at
  PROVE  /\ Frame(r, JpegSegment(r, at)) /\ JpegSegment(With(r, w), at) = With(JpegSegment(r, at), w)
         /\ Only("segments", r.dec, JpegSegment(r, at).dec)
         /\ r.ret # "done" => JpegSegment(r, at) = r
         /\ r.ret = "done" => JpegSegment(r, at).ret \in {"again", "done", "fail"}
         /\ JpegSegment(r, at).ret = "done" => JpegSegment(r, at).dec.segments = <<>>
<1> DEFINE v == With(r, w)
           x == r.data
           m == SetMore(r, x)
           last == x[2] = 217
           j == JpegImage(m, at)
<1>1. v.ret = r.ret /\ v.data = x /\ Frame(r, r)
  BY Untouched, Frames
<1>2. JpegSegment(r, at) = IF r.ret # "done" THEN r ELSE IF last THEN j ELSE Again(m)
  BY DEF JpegSegment, SetMore
<1>3. JpegSegment(v, at) = IF r.ret # "done" THEN v ELSE IF last THEN JpegImage(SetMore(v, x), at) ELSE Again(SetMore(v, x))
  BY <1>1 DEF JpegSegment, SetMore
<1> HIDE DEF last, x
<1>4. Frame(r, m) /\ SetMore(v, x) = With(m, w) /\ Only("segments", r.dec, m.dec)
  BY MoreWith
<1> HIDE DEF m
<1>5. Client(m)
  BY <1>4 DEF Frame
<1>6. /\ Frame(m, j) /\ JpegImage(With(m, w), at) = With(j, w) /\ Only("segments", m.dec, j.dec)
      /\ j.ret \in {"done", "fail"} /\ (j.ret = "done" => j.dec.segments = <<>>)
  BY <1>5, JpegImageReads
<1> HIDE DEF j
<1>7. Frame(r, j) /\ Only("segments", r.dec, j.dec)
  BY <1>4, <1>6, Through DEF Only
<1>8. Frame(r, Again(m)) /\ Again(m).ret = "again" /\ Again(With(m, w)) = With(Again(m), w) /\ Again(m).dec = m.dec
  BY <1>4, <1>5, Ending, Endings
<1>9. Only("segments", r.dec, r.dec)
  BY DEF Only
<1>10. CASE r.ret # "done"
  BY <1>1, <1>2, <1>3, <1>9, <1>10
<1>11. CASE r.ret = "done" /\ last
  BY <1>2, <1>3, <1>4, <1>6, <1>7, <1>11
<1>12. CASE r.ret = "done" /\ ~last
  BY <1>2, <1>3, <1>4, <1>8, <1>12
<1> QED BY <1>10, <1>11, <1>12

\* A picture is gathered a segment at a time, and drawn with the last.
LEMMA JpegReads ==
  ASSUME NEW c, NEW w, Reader(c, w), c.ret = "wait", NEW at
  PROVE  /\ Resumes(c, w, Jpeg(c, at), Jpeg(With(c, w), at), Jpeg(With(Jpeg(c, at), w), at))
         /\ Only("segments", c.dec, Jpeg(c, at).dec)
         /\ Jpeg(c, at).ret = "done" => Jpeg(c, at).dec.segments = <<>>
<1> DEFINE v == With(c, w)
           r == Segment(c)
           rv == Segment(v)
           rl == Segment(With(r, w))
           h == JpegSegment(r, at)
           hv == JpegSegment(rv, at)
           hl == JpegSegment(Segment(With(h, w)), at)
<1>1. Jpeg(c, at) = h /\ Jpeg(v, at) = hv /\ Jpeg(With(h, w), at) = hl
  BY DEF Jpeg
<1>2. /\ Resumes(c, w, r, rv, rl) /\ r.ret \in {"wait", "done", "fail"} /\ r.dec = c.dec
  BY SegmentReads
<1>3. Client(r)
  BY <1>2 DEF Resumes, Frame
<1> HIDE DEF r
<1>4. /\ Frame(r, h) /\ JpegSegment(With(r, w), at) = With(h, w)
      /\ Only("segments", r.dec, h.dec)
      /\ r.ret # "done" => h = r
      /\ r.ret = "done" => h.ret \in {"again", "done", "fail"}
      /\ h.ret = "done" => h.dec.segments = <<>>
  BY <1>3, JpegSegmentReads
<1>5. Resumes(c, w, h, hv, hl)
  <2>1. r.ret = "wait" => h = r
    BY <1>4
  <2>2. rv = With(r, w) => hv = With(h, w)
    BY <1>4
  <2>3. r.ret = "wait" /\ rv = rl => hv = hl
    BY <2>1
  <2>4. r.ret # "wait" => h.ret # "wait"
    <3> HIDE DEF h
    <3> QED BY <1>2, <1>4
  <2> HIDE DEF rv, rl, h, hv, hl
  <2> QED BY <1>2, <1>4, <2>1, <2>2, <2>3, <2>4, After
<1> HIDE DEF h, hv, hl
<1> QED BY <1>1, <1>2, <1>4, <1>5

\* What is said, and the end of a turn.
LEMMA Saying ==
  ASSUME NEW a, NEW b, Frame(a, b), NEW what, NEW at, NEW data
  PROVE  /\ Frame(a, Done(Say(b, what, at, data))) /\ Done(Say(b, what, at, data)).ret = "done"
         /\ Done(Say(b, what, at, data)).dec = b.dec
         /\ \A w : Done(Say(With(b, w), what, at, data)) = With(Done(Say(b, what, at, data)), w)
<1> DEFINE s == Say(b, what, at, data)
<1>1. Frame(b, s)
  <2>1. Client(b)
    BY DEF Frame
  <2>2. \A x : Frame(b, [b EXCEPT !.said = x])
    BY <2>1, Changing
  <2>3. s = [b EXCEPT !.said = Append(b.said, <<what, at, data>>)]
    BY DEF Say
  <2> HIDE DEF s
  <2> QED BY <2>2, <2>3
<1>2. \A w : Say(With(b, w), what, at, data) = With(s, w)
  BY DEF Say, With
<1>3. s.dec = b.dec
  BY DEF Say, Frame, Client, Shape, Fields
<1> HIDE DEF s
<1>4. Frame(a, s) /\ Client(s)
  BY <1>1, Through DEF Frame
<1>5. /\ Frame(a, Done(s)) /\ Done(s).ret = "done" /\ Done(s).dec = s.dec
      /\ \A w : Done(With(s, w)) = With(Done(s), w)
  BY <1>4, Ending, Endings
<1> QED BY <1>2, <1>3, <1>5 DEF s

\* The head of a message is put back.
LEMMA HeadPutBack ==
  ASSUME NEW c, Client(c), c.ret = "wait", NEW n \in Nat
  PROVE  WaitBack(Skip(c, n), n) = c
<1> DEFINE s == Skip(c, n)
           r == WaitBack(s, n)
<1>1. c = [f \in Fields |-> c[f]] /\ c.rQi \in Nat
  BY DEF Client, Shape
<1>2. s = [f \in Fields |-> IF f = "rQi" THEN c.rQi + n ELSE c[f]]
  BY <1>1 DEF Skip, Fields
<1> HIDE DEF s
<1>3. r = [f \in Fields |-> IF f = "rQi" THEN s.rQi - n ELSE IF f = "ret" THEN "wait" ELSE s[f]]
  BY <1>2 DEF WaitBack, Fields
<1> HIDE DEF r
<1>4. s.rQi = c.rQi + n /\ \A f \in Fields : f # "rQi" => s[f] = c[f]
  BY <1>2 DEF Fields
<1>5. s.rQi - n = c.rQi
  BY <1>1, <1>4
<1>6. \A f \in Fields : r[f] = c[f]
  BY <1>3, <1>4, <1>5
<1>7. r = [f \in Fields |-> c[f]]
  BY <1>3, <1>6
<1> QED BY <1>1, <1>7 DEF r, s

\* A client that strays leaves its decoders and the rest alone.
LEMMA Lost ==
  ASSUME NEW c, Client(c), NEW n \in Nat
  PROVE  LET r == Wait(SetAstray(Skip(c, n))) IN r.astray /\ r.dec = c.dec /\ Frame(c, r)
<1> DEFINE s == Skip(c, n)
           a == SetAstray(s)
           r == Wait(a)
<1>1. c.rQi + n \in Nat
  BY DEF Client
<1>2. Shape(s) /\ s.rQi = c.rQi + n /\ \A f \in Fields : f # "rQi" => s[f] = c[f]
  BY <1>1 DEF Client, Shape, Skip, Fields
<1> HIDE DEF s
<1>3. Shape(a) /\ a.astray /\ \A f \in Fields : f # "astray" => a[f] = s[f]
  BY <1>2 DEF Shape, SetAstray, Fields
<1> HIDE DEF a
<1>4. Shape(r) /\ \A f \in Fields : f # "ret" => r[f] = a[f]
  BY <1>3 DEF Shape, Wait, Fields
<1> HIDE DEF r
<1>5. r.astray /\ r.rQi \in Nat
  BY <1>1, <1>2, <1>3, <1>4 DEF Fields
<1>6. \A f \in Fields : f \notin {"rQi", "astray", "ret"} => r[f] = c[f]
  BY <1>2, <1>3, <1>4
<1>7. /\ r.dec = c.dec /\ r.rQ = c.rQ /\ r.running = c.running /\ r.failed = c.failed
      /\ r.rects = c.rects /\ r.rect = c.rect /\ r.pasted = c.pasted /\ r.viewOnly = c.viewOnly
  BY <1>6 DEF Fields
<1>8. Client(r)
  BY <1>4, <1>5, <1>7 DEF Client
<1>9. Frame(c, r)
  BY <1>5, <1>7, <1>8 DEF Frame
<1> QED BY <1>5, <1>7, <1>9 DEF r, a, s

\* A turn that leaves the decoders alone.
Quiet(c, w, now, then, later) == Resumes(c, w, now, then, later) /\ now.dec = c.dec

\* A turn that says something of what it read.
LEMMA Speaks ==
  ASSUME NEW c, NEW w, NEW b, Frame(c, b), b.dec = c.dec, NEW what, NEW at, NEW data, NEW now, NEW then, NEW later,
         now = Done(Say(b, what, at, data)), then = Done(Say(With(b, w), what, at, data))
  PROVE  Quiet(c, w, now, then, later)
  BY Saying, Going DEF Quiet

\* A turn that waits and read nothing.
LEMMA Left ==
  ASSUME NEW c, Client(c), c.ret = "wait", NEW w, NEW now, now = c, NEW then, NEW later, later = then
  PROVE  Quiet(c, w, now, then, later)
  BY Waiting DEF Quiet

\* Of a turn that strays nothing is promised but that the decoders are left alone.
LEMMA Strayed ==
  ASSUME NEW c, NEW w, NEW now, Frame(c, now), now.astray, now.dec = c.dec, NEW then, NEW later
  PROVE  Quiet(c, w, now, then, later)
  BY DEF Quiet, Resumes

\* A cursor is read whole, or the turn waits.
LEMMA CursorReads ==
  ASSUME NEW c, NEW w, Reader(c, w), c.ret = "wait", NEW at \in Place
  PROVE  Quiet(c, w, Cursor(c, at), Cursor(With(c, w), at), Cursor(With(Cursor(c, at), w), at))
<1> DEFINE v == With(c, w)
           pixels == 4 * at[3] * at[4]
           size == pixels + Across(at[3], 8) * at[4]
           b == Skip(c, size)
           data == CursorRgba(Peek(c, pixels), SubSeq(Peek(c, size), pixels + 1, size), at)
<1>0. Client(c) /\ Frame(c, c)
  BY Frames DEF Reader
<1>1. pixels \in Nat /\ size \in Nat /\ pixels <= size
  <2>1. at[3] \in Nat /\ at[4] \in Nat
    BY DEF Place
  <2>2. 8 \in Nat \ {0}
    OBVIOUS
  <2>3. Across(at[3], 8) \in Nat
    BY <2>1, <2>2, AcrossNat
  <2> DEFINE n == Across(at[3], 8)
             x == at[3]
             y == at[4]
  <2> HIDE DEF n, x, y
  <2>4. n \in Nat /\ x \in Nat /\ y \in Nat
    BY <2>1, <2>3 DEF n, x, y
  <2>5. 4 * x \in Nat
    BY <2>4
  <2>6. 4 * x * y \in Nat /\ n * y \in Nat
    BY <2>4, <2>5
  <2>7. 4 * x * y + n * y \in Nat /\ 4 * x * y <= 4 * x * y + n * y
    BY <2>6
  <2> QED BY <2>6, <2>7 DEF n, x, y
<1>2. Cursor(c, at) = IF ~Has(c, size) THEN Wait(c) ELSE Done(Say(b, "cursor", at, data))
  BY DEF Cursor
<1> DEFINE datav == CursorRgba(Peek(v, pixels), SubSeq(Peek(v, size), pixels + 1, size), at)
<1>3. Cursor(v, at) = IF ~Has(v, size) THEN Wait(v) ELSE Done(Say(Skip(v, size), "cursor", at, datav))
  BY DEF Cursor
<1> HIDE DEF pixels, size
<1>4. CASE ~Has(c, size)
  <2>1. Cursor(c, at) = c
    BY <1>0, <1>2, <1>4, Frames
  <2> QED BY <1>0, <2>1, Left
<1>5. CASE Has(c, size)
  <2>1. Has(c, pixels)
    BY <1>0, <1>1, <1>5, Fewer
  <2>2. Has(v, size) /\ Peek(v, size) = Peek(c, size) /\ Peek(v, pixels) = Peek(c, pixels)
    BY <1>1, <1>5, <2>1, Queue
  <2>3. datav = data
    BY <2>2
  <2>4. Frame(c, b) /\ b.dec = c.dec /\ Skip(v, size) = With(b, w)
    BY <1>0, <1>1, <1>5, Skipping
  <2> HIDE DEF b, data, datav
  <2>5. Cursor(v, at) = Done(Say(With(b, w), "cursor", at, data))
    BY <1>3, <2>2, <2>3, <2>4
  <2>6. Cursor(c, at) = Done(Say(b, "cursor", at, data))
    BY <1>2, <1>5
  <2> QED BY <2>4, <2>5, <2>6, Speaks
<1> QED BY <1>4, <1>5

\* Of two bytes that are skipped one was waited for.
LEMMA Beyond ==
  ASSUME NEW c, Client(c), NEW m \in Nat, NEW n \in Nat, Has(Skip(c, m), n)
  PROVE  Has(c, m) /\ Has(c, m + n)
<1>1. Skip(c, m).rQ = c.rQ /\ Skip(c, m).rQi = c.rQi + m
  BY Skipped
<1> QED BY <1>1 DEF Has, Client

\* A text or a picture that follows what was skipped.
LEMMA Following ==
  ASSUME NEW c, NEW w, Reader(c, w), NEW m \in Nat, NEW n \in Nat, Has(Skip(c, m), n)
  PROVE  /\ Frame(c, Skip(c, m)) /\ Reader(Skip(c, m), w) /\ Skip(With(c, w), m) = With(Skip(c, m), w)
         /\ Skip(c, m).dec = c.dec /\ Skip(c, m).ret = c.ret
         /\ Has(Skip(With(c, w), m), n) /\ Peek(Skip(With(c, w), m), n) = Peek(Skip(c, m), n)
         /\ Frame(c, Skip(Skip(c, m), n)) /\ Skip(Skip(c, m), n).dec = c.dec
         /\ Skip(Skip(With(c, w), m), n) = With(Skip(Skip(c, m), n), w)
<1> DEFINE b == Skip(c, m)
<1>1. Client(c) /\ Frame(c, c)
  BY Frames DEF Reader
<1>2. Has(c, m)
  BY <1>1, Beyond
<1>3. Frame(c, b) /\ b.dec = c.dec /\ b.ret = c.ret /\ Skip(With(c, w), m) = With(b, w)
  BY <1>1, <1>2, Skipping
<1>4. Has(b, n)
  OBVIOUS
<1> HIDE DEF b
<1>5. Reader(b, w)
  BY <1>3, Behind
<1>6. Has(With(b, w), n) /\ Peek(With(b, w), n) = Peek(b, n)
  BY <1>4, <1>5, Queue
<1>7. Frame(c, Skip(b, n)) /\ Skip(b, n).dec = b.dec /\ Skip(With(b, w), n) = With(Skip(b, n), w)
  BY <1>3, <1>4, Skipping
<1> QED BY <1>3, <1>5, <1>6, <1>7 DEF b

\* So is a cursor of VMware, whose type byte is put back, but for one of an unknown type.
LEMMA VMwareCursorReads ==
  ASSUME NEW c, NEW w, Reader(c, w), c.ret = "wait", NEW at \in Place
  PROVE  Quiet(c, w, VMwareCursor(c, at), VMwareCursor(With(c, w), at), VMwareCursor(With(VMwareCursor(c, at), w), at))
<1> DEFINE v == With(c, w)
           n == 4 * at[3] * at[4]
           type == Peek(c, 1)[1]
           b == Skip(c, 2)
           bv == Skip(v, 2)
           and(o1) == ClassicRgba(Peek(o1, n), SubSeq(Peek(o1, 2 * n), n + 1, 2 * n), n \div 4)
           now == VMwareCursor(c, at)
           then == VMwareCursor(v, at)
<1>0. Client(c) /\ Frame(c, c) /\ 1 \in Nat /\ 2 \in Nat
  BY Frames DEF Reader
<1>1. n \in Nat /\ 2 * n \in Nat /\ n <= 2 * n
  <2> DEFINE x == at[3]
             y == at[4]
  <2>1. x \in Nat /\ y \in Nat
    BY DEF Place
  <2> HIDE DEF x, y
  <2>2. 4 * x \in Nat
    BY <2>1
  <2>3. 4 * x * y \in Nat
    BY <2>1, <2>2
  <2> DEFINE z == 4 * x * y
  <2> HIDE DEF z
  <2>4. z \in Nat
    BY <2>3 DEF z
  <2>5. 2 * z \in Nat /\ z <= 2 * z
    BY <2>4
  <2> QED BY <2>3, <2>5 DEF x, y, z
<1>2. CASE ~Has(c, 1)
  <2>1. now = c
    BY <1>0, <1>2, Frames DEF VMwareCursor
  <2> QED BY <1>0, <2>1, Left
<1>3. CASE Has(c, 1)
  <2>1. Has(v, 1) /\ Peek(v, 1) = Peek(c, 1)
    BY <1>0, <1>3, Queue
  <2>2. now = IF type = 0
              THEN IF ~Has(b, 2 * n) THEN WaitBack(b, 2) ELSE Done(Say(Skip(b, 2 * n), "cursor", at, and(b)))
              ELSE IF type = 1
              THEN IF ~Has(b, n) THEN WaitBack(b, 2) ELSE Done(Say(Skip(b, n), "cursor", at, Peek(b, n)))
              ELSE Wait(SetAstray(b))
    BY <1>3 DEF VMwareCursor, SetAstray
  <2>3. then = IF type = 0
              THEN IF ~Has(bv, 2 * n) THEN WaitBack(bv, 2) ELSE Done(Say(Skip(bv, 2 * n), "cursor", at, and(bv)))
              ELSE IF type = 1
              THEN IF ~Has(bv, n) THEN WaitBack(bv, 2) ELSE Done(Say(Skip(bv, n), "cursor", at, Peek(bv, n)))
              ELSE Wait(SetAstray(bv))
    BY <2>1 DEF VMwareCursor, SetAstray
  <2>4. WaitBack(b, 2) = c
    BY <1>0, HeadPutBack
  <2> HIDE DEF type, now, then, n
  <2>5. CASE (type = 0 /\ ~Has(b, 2 * n)) \/ (type = 1 /\ ~Has(b, n))
    <3>1. now = c
      BY <2>2, <2>4, <2>5
    <3> QED BY <1>0, <3>1, Left DEF now, then
  <2>6. CASE type = 0 /\ Has(b, 2 * n)
    <3>1. /\ Frame(c, b) /\ Reader(b, w) /\ bv = With(b, w)
          /\ Has(bv, 2 * n) /\ Peek(bv, 2 * n) = Peek(b, 2 * n)
          /\ Frame(c, Skip(b, 2 * n)) /\ Skip(b, 2 * n).dec = c.dec
          /\ Skip(bv, 2 * n) = With(Skip(b, 2 * n), w)
      BY <1>0, <1>1, <2>6, Following
    <3> HIDE DEF b, bv
    <3>2. Has(b, n)
      BY <1>1, <2>6, <3>1, Fewer DEF Reader
    <3>3. Peek(bv, n) = Peek(b, n)
      BY <1>1, <3>1, <3>2, Queue
    <3>4. and(bv) = and(b)
      BY <3>1, <3>3
    <3> HIDE DEF and
    <3>5. now = Done(Say(Skip(b, 2 * n), "cursor", at, and(b)))
      BY <2>2, <2>6
    <3>6. then = Done(Say(With(Skip(b, 2 * n), w), "cursor", at, and(b)))
      BY <2>3, <2>6, <3>1, <3>4
    <3> QED BY <3>1, <3>5, <3>6, Speaks DEF now, then
  <2>7. CASE type = 1 /\ Has(b, n)
    <3>1. /\ Frame(c, b) /\ bv = With(b, w)
          /\ Has(bv, n) /\ Peek(bv, n) = Peek(b, n)
          /\ Frame(c, Skip(b, n)) /\ Skip(b, n).dec = c.dec
          /\ Skip(bv, n) = With(Skip(b, n), w)
      BY <1>0, <1>1, <2>7, Following
    <3> HIDE DEF b, bv
    <3>5. now = Done(Say(Skip(b, n), "cursor", at, Peek(b, n)))
      BY <2>2, <2>7
    <3>6. then = Done(Say(With(Skip(b, n), w), "cursor", at, Peek(b, n)))
      BY <2>3, <2>7, <3>1
    <3> QED BY <3>1, <3>5, <3>6, Speaks DEF now, then
  <2>8. CASE type # 0 /\ type # 1
    <3>1. now = Wait(SetAstray(b))
      BY <2>2, <2>8
    <3>2. now.astray /\ now.dec = c.dec /\ Frame(c, now)
      BY <1>0, <3>1, Lost
    <3> QED BY <3>2, Strayed DEF now, then
  <2> QED BY <2>5, <2>6, <2>7, <2>8
<1> QED BY <1>2, <1>3

\* So is the name of the desktop; its length is put back.
LEMMA DesktopNameReads ==
  ASSUME NEW c, NEW w, Reader(c, w), c.ret = "wait"
  PROVE  Quiet(c, w, DesktopName(c), DesktopName(With(c, w)), DesktopName(With(DesktopName(c), w)))
<1> DEFINE v == With(c, w)
           b == Skip(c, 4)
           bv == Skip(v, 4)
           n == Shift32(Peek(c, 4))
           now == DesktopName(c)
           then == DesktopName(v)
<1>0. Client(c) /\ Frame(c, c) /\ 4 \in Nat
  BY Frames DEF Reader
<1>1. CASE ~Has(c, 4)
  <2>1. now = c
    BY <1>0, <1>1, Frames, SMT DEF DesktopName
  <2> QED BY <1>0, <2>1, Left
<1>2. CASE Has(c, 4)
  <2>1. Has(v, 4) /\ Peek(v, 4) = Peek(c, 4) /\ n \in Nat
    BY <1>0, <1>2, Queue, Numbers, SMT
  <2>2. now = IF ~Has(b, n) THEN WaitBack(b, 4) ELSE Done(Say(Skip(b, n), "name", Nothing, Peek(b, n)))
    BY <1>2, SMT DEF DesktopName
  <2>3. then = IF ~Has(bv, n) THEN WaitBack(bv, 4) ELSE Done(Say(Skip(bv, n), "name", Nothing, Peek(bv, n)))
    BY <2>1, SMT DEF DesktopName
  <2>4. WaitBack(b, 4) = c
    BY <1>0, HeadPutBack, SMT
  <2> HIDE DEF n, now, then
  <2>5. CASE ~Has(b, n)
    <3>1. now = c
      BY <2>2, <2>4, <2>5
    <3> QED BY <1>0, <3>1, Left DEF now, then
  <2>6. CASE Has(b, n)
    <3>1. /\ bv = With(b, w)
          /\ Has(bv, n) /\ Peek(bv, n) = Peek(b, n)
          /\ Frame(c, Skip(b, n)) /\ Skip(b, n).dec = c.dec
          /\ Skip(bv, n) = With(Skip(b, n), w)
      BY <1>0, <2>1, <2>6, Following
    <3> HIDE DEF b, bv
    <3>5. now = Done(Say(Skip(b, n), "name", Nothing, Peek(b, n)))
      BY <2>2, <2>6
    <3>6. then = Done(Say(With(Skip(b, n), w), "name", Nothing, Peek(b, n)))
      BY <2>3, <2>6, <3>1
    <3> QED BY <3>1, <3>5, <3>6, Speaks DEF now, then
  <2> QED BY <2>5, <2>6
<1> QED BY <1>1, <1>2

\* So is the state of the locks.
LEMMA LedReads ==
  ASSUME NEW c, NEW w, Reader(c, w), c.ret = "wait"
  PROVE  Quiet(c, w, Led(c), Led(With(c, w)), Led(With(Led(c), w)))
<1> DEFINE v == With(c, w)
           f(x) == <<IF Bit(x, 2) THEN 1 ELSE 0, IF Bit(x, 1) THEN 1 ELSE 0>>
           b == Skip(c, 1)
           data == f(Peek(c, 1)[1])
<1>0. Client(c) /\ Frame(c, c) /\ 1 \in Nat
  BY Frames DEF Reader
<1>1. CASE ~Has(c, 1)
  <2>1. Led(c) = c
    BY <1>0, <1>1, Frames DEF Led
  <2> QED BY <1>0, <2>1, Left
<1>2. CASE Has(c, 1)
  <2>1. Has(v, 1) /\ Peek(v, 1) = Peek(c, 1)
    BY <1>0, <1>2, Queue
  <2>2. Frame(c, b) /\ b.dec = c.dec /\ Skip(v, 1) = With(b, w)
    BY <1>0, <1>2, Skipping
  <2>3. Led(c) = Done(Say(b, "locks", Nothing, data))
    BY <1>2 DEF Led
  <2>4. Led(v) = Done(Say(Skip(v, 1), "locks", Nothing, data))
    BY <2>1 DEF Led
  <2> HIDE DEF b, data
  <2> QED BY <2>2, <2>3, <2>4, Speaks
<1> QED BY <1>1, <1>2

\* So are the screens; their number is only looked at.
LEMMA ExtendedDesktopSizeReads ==
  ASSUME NEW c, NEW w, Reader(c, w), c.ret = "wait", NEW at
  PROVE  Quiet(c, w, ExtendedDesktopSize(c, at), ExtendedDesktopSize(With(c, w), at),
               ExtendedDesktopSize(With(ExtendedDesktopSize(c, at), w), at))
<1> DEFINE v == With(c, w)
           screens == Peek(c, 1)[1]
           n == 4 + 16 * screens
           b == Skip(c, n)
<1>0. Client(c) /\ Frame(c, c) /\ 1 \in Nat /\ 4 \in Nat /\ 1 <= 4
  BY Frames DEF Reader
<1>1. CASE ~Has(c, 4) \/ ~Has(c, n)
  <2>1. ExtendedDesktopSize(c, at) = c
    BY <1>0, <1>1, Frames DEF ExtendedDesktopSize
  <2> QED BY <1>0, <2>1, Left
<1>2. CASE Has(c, 4) /\ Has(c, n)
  <2>1. Has(c, 1)
    BY <1>0, <1>2, Fewer
  <2>2. Has(v, 1) /\ Peek(v, 1) = Peek(c, 1) /\ screens \in Byte /\ Has(v, 4)
    BY <1>0, <1>2, <2>1, Queue
  <2>3. n \in Nat
    <3> HIDE DEF screens
    <3> QED BY <2>2 DEF Byte
  <2>4. ExtendedDesktopSize(c, at) = Done(Say(b, "screens", at, <<screens>>))
    BY <1>2 DEF ExtendedDesktopSize
  <2>5. ExtendedDesktopSize(v, at) =
            IF ~Has(v, 4) \/ ~Has(v, n) THEN Wait(v) ELSE Done(Say(Skip(v, n), "screens", at, <<screens>>))
    BY <2>2 DEF ExtendedDesktopSize
  <2> HIDE DEF n, screens
  <2>6. Has(v, n)
    BY <1>2, <2>3, Queue
  <2>7. Frame(c, b) /\ b.dec = c.dec /\ Skip(v, n) = With(b, w)
    BY <1>0, <1>2, <2>3, Skipping
  <2> HIDE DEF b
  <2>8. ExtendedDesktopSize(v, at) = Done(Say(With(b, w), "screens", at, <<screens>>))
    BY <2>2, <2>5, <2>6, <2>7
  <2> QED BY <2>4, <2>7, <2>8, Speaks
<1> QED BY <1>1, <1>2

\* What a decoder keeps is left alone by what is drawn, and by the end of its turn.
LEMMA DecFb ==
  ASSUME NEW c, Shape(c), NEW x
  PROVE  Shape([c EXCEPT !.fb = x]) /\ [c EXCEPT !.fb = x].dec = c.dec
  BY DEF Shape, Fields

\* Reading over bytes is one of those.
LEMMA DecSkip ==
  ASSUME NEW c, Shape(c), NEW n
  PROVE  Shape(Skip(c, n)) /\ Skip(c, n).dec = c.dec
  BY DEF Shape, Fields, Skip

\* A drawn image is.
LEMMA DecBlit ==
  ASSUME NEW c, Shape(c), NEW at, NEW px
  PROVE  Shape(BlitImage(c, at, px)) /\ BlitImage(c, at, px).dec = c.dec
  BY DEF Shape, Fields, BlitImage

\* A filled rectangle is.
LEMMA DecFill ==
  ASSUME NEW c, Shape(c), NEW at, NEW px
  PROVE  Shape(FillRect(c, at, px)) /\ FillRect(c, at, px).dec = c.dec
  BY DecBlit DEF FillRect

\* A copy is.
LEMMA DecCopy ==
  ASSUME NEW c, Shape(c), NEW from, NEW at
  PROVE  Shape(CopyImage(c, from, at)) /\ CopyImage(c, from, at).dec = c.dec
<1> DEFINE x == [p \in Shown |-> IF Covers(at, p)
        THEN c.fb[<<p[1] - at[1] + from[1], p[2] - at[2] + from[2]>>] ELSE c.fb[p]]
<1>1. CopyImage(c, from, at) = [c EXCEPT !.fb = x]
  BY DEF CopyImage
<1> HIDE DEF x
<1> QED BY <1>1, DecFb

\* The count of a zlib stream is.
LEMMA DecInflated ==
  ASSUME NEW c, Shape(c), NEW s
  PROVE  Shape(Inflated(c, s)) /\ Inflated(c, s).dec = c.dec
  BY DEF Shape, Fields, Inflated

\* Every end of a turn is.
LEMMA DecEnd ==
  ASSUME NEW c, Shape(c)
  PROVE  /\ Shape(Done(c)) /\ Done(c).dec = c.dec /\ Done(c).ret = "done"
         /\ Shape(Again(c)) /\ Again(c).dec = c.dec /\ Again(c).ret = "again"
         /\ Shape(Fail(c)) /\ Fail(c).dec = c.dec /\ Fail(c).ret = "fail"
         /\ Shape(Wait(c)) /\ Wait(c).dec = c.dec /\ Wait(c).ret = "wait"
<1>1. /\ Shape(Done(c)) /\ Done(c).dec = c.dec /\ Done(c).ret = "done"
      /\ Shape(Again(c)) /\ Again(c).dec = c.dec /\ Again(c).ret = "again"
  BY DEF Shape, Fields, Done, Again
<1>2. /\ Shape(Fail(c)) /\ Fail(c).dec = c.dec /\ Fail(c).ret = "fail"
      /\ Shape(Wait(c)) /\ Wait(c).dec = c.dec /\ Wait(c).ret = "wait"
  BY DEF Shape, Fields, Fail, Wait
<1> QED BY <1>1, <1>2

\* One thing that a decoder keeps is set, and no other.
LEMMA DecSet ==
  ASSUME NEW c, Shape(c), DecShape(c.dec), NEW x
  PROVE  /\ Shape(SetRaw(c, x)) /\ DecShape(SetRaw(c, x).dec) /\ Only("raw", c.dec, SetRaw(c, x).dec) /\ SetRaw(c, x).dec.raw = x
         /\ Shape(SetRre(c, x)) /\ DecShape(SetRre(c, x).dec) /\ Only("rre", c.dec, SetRre(c, x).dec) /\ SetRre(c, x).dec.rre = x
         /\ Shape(SetZlib(c, x)) /\ DecShape(SetZlib(c, x).dec)
         /\ Only("zlib", c.dec, SetZlib(c, x).dec) /\ SetZlib(c, x).dec.zlib = x
         /\ Shape(SetZrle(c, x)) /\ DecShape(SetZrle(c, x).dec)
         /\ Only("zrle", c.dec, SetZrle(c, x).dec) /\ SetZrle(c, x).dec.zrle = x
         /\ Shape(SetTiles(c, x)) /\ DecShape(SetTiles(c, x).dec)
         /\ Only("tiles", c.dec, SetTiles(c, x).dec) /\ SetTiles(c, x).dec.tiles = x
<1>1. Shape(SetRaw(c, x)) /\ DecShape(SetRaw(c, x).dec) /\ Only("raw", c.dec, SetRaw(c, x).dec) /\ SetRaw(c, x).dec.raw = x
  BY DEF Shape, Fields, DecShape, DecFields, Only, SetRaw
<1>2. Shape(SetRre(c, x)) /\ DecShape(SetRre(c, x).dec) /\ Only("rre", c.dec, SetRre(c, x).dec) /\ SetRre(c, x).dec.rre = x
  BY DEF Shape, Fields, DecShape, DecFields, Only, SetRre
<1>3. Shape(SetZlib(c, x)) /\ DecShape(SetZlib(c, x).dec) /\ Only("zlib", c.dec, SetZlib(c, x).dec) /\ SetZlib(c, x).dec.zlib = x
  BY DEF Shape, Fields, DecShape, DecFields, Only, SetZlib
<1>4. Shape(SetZrle(c, x)) /\ DecShape(SetZrle(c, x).dec) /\ Only("zrle", c.dec, SetZrle(c, x).dec) /\ SetZrle(c, x).dec.zrle = x
  BY DEF Shape, Fields, DecShape, DecFields, Only, SetZrle
<1>5. /\ Shape(SetTiles(c, x)) /\ DecShape(SetTiles(c, x).dec)
      /\ Only("tiles", c.dec, SetTiles(c, x).dec) /\ SetTiles(c, x).dec.tiles = x
  BY DEF Shape, Fields, DecShape, DecFields, Only, SetTiles
<1> QED BY <1>1, <1>2, <1>3, <1>4, <1>5

\* Two changes of one thing are a change of that thing.
LEMMA OnlyOn ==
  ASSUME NEW f, NEW d, NEW e, NEW g, Only(f, d, e), Only(f, e, g)
  PROVE  Only(f, d, g)
  BY DEF Only

\* No change is a change of that thing only.
LEMMA OnlySelf ==
  ASSUME NEW f, NEW d
  PROVE  Only(f, d, d)
  BY DEF Only

\* CopyRect keeps nothing.
LEMMA CopyRectKeeps ==
  ASSUME NEW c, Client(c), NEW at
  PROVE  CopyRect(c, at).dec = c.dec /\ CopyRect(c, at).ret \in {"wait", "done"}
<1> DEFINE s == Skip(c, 4)
<1> DEFINE from == <<Shift16(SubSeq(Peek(c, 4), 1, 2)), Shift16(SubSeq(Peek(c, 4), 3, 4))>>
           i == CopyImage(s, from, at)
<1>1. CopyRect(c, at) = IF ~Has(c, 4) THEN Wait(c) ELSE IF Empty(at) THEN Done(s) ELSE Done(i)
  BY DEF CopyRect
<1>2. Shape(c) /\ Shape(s) /\ s.dec = c.dec
  BY DecSkip DEF Client
<1> HIDE DEF from, s
<1>3. Shape(i) /\ i.dec = c.dec
  BY <1>2, DecCopy
<1> HIDE DEF i
<1>4. /\ Done(s).dec = c.dec /\ Done(i).dec = c.dec /\ Wait(c).dec = c.dec
      /\ Done(s).ret = "done" /\ Done(i).ret = "done" /\ Wait(c).ret = "wait"
  BY <1>2, <1>3, DecEnd
<1> QED BY <1>1, <1>4

\* RRE keeps the parts left, none at the end.
LEMMA RreKeeps ==
  ASSUME NEW c, Client(c), NEW at
  PROVE  /\ Only("rre", c.dec, Rre(c, at).dec) /\ Rre(c, at).ret \in {"wait", "again", "done"}
         /\ Rre(c, at).ret = "done" => Rre(c, at).dec.rre = 0
<1>0. Shape(c) /\ DecShape(c.dec) /\ Wait(c).dec = c.dec /\ Wait(c).ret = "wait" /\ Only("rre", c.dec, c.dec)
  BY DecEnd, OnlySelf DEF Client
<1>1. CASE c.dec.rre = 0
  <2> DEFINE n == Shift32(Peek(c, 4))
             s == Skip(c, 8)
             px == SubSeq(Peek(c, 8), 5, 7)
             b == FillRect(s, at, px)
             m == SetRre(b, n)
  <2>1. Rre(c, at) = IF ~Has(c, 8) THEN Wait(c) ELSE IF n = 0 THEN Done(b) ELSE Again(m)
    BY <1>1, SMT DEF Rre, RreStart, SetRre
  <2> HIDE DEF n, px
  <2>2. Shape(s) /\ s.dec = c.dec
    BY <1>0, DecSkip
  <2> HIDE DEF s
  <2>3. Shape(b) /\ b.dec = c.dec
    BY <2>2, DecFill
  <2> HIDE DEF b
  <2>4. Shape(m) /\ Only("rre", b.dec, m.dec)
    BY <1>0, <2>3, DecSet
  <2> HIDE DEF m
  <2>5. Done(b).dec = b.dec /\ Done(b).ret = "done" /\ Again(m).dec = m.dec /\ Again(m).ret = "again"
    BY <2>3, <2>4, DecEnd
  <2> QED BY <1>0, <1>1, <2>1, <2>3, <2>4, <2>5
<1>2. CASE c.dec.rre # 0
  <2> DEFINE x == Peek(c, 12)
             s == Skip(c, 12)
             px == SubSeq(x, 1, 3)
             part == <<at[1] + Shift16(SubSeq(x, 5, 6)), at[2] + Shift16(SubSeq(x, 7, 8)),
                       Shift16(SubSeq(x, 9, 10)), Shift16(SubSeq(x, 11, 12))>>
             b == FillRect(s, part, px)
             m == SetRre(b, b.dec.rre - 1)
  <2>1. Rre(c, at) = IF ~Has(c, 12) THEN Wait(c) ELSE IF m.dec.rre = 0 THEN Done(m) ELSE Again(m)
    BY <1>2 DEF Rre, RreNext, SetRre
  <2> HIDE DEF part, px
  <2>2. Shape(s) /\ s.dec = c.dec
    BY <1>0, DecSkip
  <2> HIDE DEF s
  <2>3. Shape(b) /\ b.dec = c.dec
    BY <2>2, DecFill
  <2> HIDE DEF b
  <2>4. Shape(m) /\ Only("rre", b.dec, m.dec)
    BY <1>0, <2>3, DecSet
  <2> HIDE DEF m
  <2>5. /\ Done(m).dec = m.dec /\ Done(m).ret = "done" /\ Again(m).dec = m.dec /\ Again(m).ret = "again"
    BY <2>4, DecEnd
  <2> QED BY <1>0, <2>1, <2>3, <2>4, <2>5
<1> QED BY <1>1, <1>2

\* Raw keeps the lines left, none at the end.
LEMMA RawKeeps ==
  ASSUME NEW c, Client(c), NEW at
  PROVE  /\ Only("raw", c.dec, Raw(c, at).dec) /\ Raw(c, at).ret \in {"wait", "again", "done"}
         /\ Empty(at) => Raw(c, at).dec = c.dec
         /\ Raw(c, at).ret = "done" /\ ~Empty(at) => Raw(c, at).dec.raw = 0
<1>0. Shape(c) /\ DecShape(c.dec) /\ Done(c).dec = c.dec /\ Done(c).ret = "done" /\ Only("raw", c.dec, c.dec)
  BY DecEnd, OnlySelf DEF Client
<1>1. CASE Empty(at)
  <2>1. Raw(c, at) = Done(c)
    BY <1>1 DEF Raw
  <2> QED BY <1>0, <1>1, <2>1
<1>2. CASE ~Empty(at)
  <2> DEFINE b == IF c.dec.raw = 0 THEN SetRaw(c, at[4]) ELSE c
             left == b.dec.raw
             line == <<at[1], at[2] + at[4] - left, at[3], 1>>
             px == Pixels(Peek(b, 4 * at[3]), at[3], 4)
             s == Skip(b, 4 * at[3])
             d == BlitImage(s, line, px)
             m == SetRaw(d, left - 1)
  <2>1. Raw(c, at) = RawLine(b, at)
    BY <1>2 DEF Raw, SetRaw
  <2>2. Shape(b) /\ DecShape(b.dec) /\ Only("raw", c.dec, b.dec)
    BY <1>0, DecSet
  <2>3. RawLine(b, at) = IF ~Has(b, 4 * at[3]) THEN Wait(b) ELSE IF left = 1 THEN Done(m) ELSE Again(m)
    BY DEF RawLine, SetRaw
  <2> HIDE DEF b, line, px
  <2>4. Shape(s) /\ s.dec = b.dec
    BY <2>2, DecSkip
  <2> HIDE DEF s
  <2>5. Shape(d) /\ d.dec = b.dec
    BY <2>4, DecBlit
  <2> HIDE DEF d, left
  <2>6. Shape(m) /\ Only("raw", d.dec, m.dec) /\ m.dec.raw = left - 1
    BY <2>2, <2>5, DecSet
  <2> HIDE DEF m
  <2>7. /\ Done(m).dec = m.dec /\ Done(m).ret = "done" /\ Again(m).dec = m.dec /\ Again(m).ret = "again"
        /\ Wait(b).dec = b.dec /\ Wait(b).ret = "wait"
    BY <2>2, <2>6, DecEnd
  <2>8. Only("raw", c.dec, m.dec)
    BY <2>2, <2>5, <2>6, OnlyOn
  <2>9. left = 1 => left - 1 = 0
    OBVIOUS
  <2> QED BY <1>2, <2>1, <2>2, <2>3, <2>6, <2>7, <2>8, <2>9
<1> QED BY <1>1, <1>2

\* Zlib forgets the length of its data when it has them.
LEMMA ZlibDataKeeps ==
  ASSUME NEW c, Client(c), NEW at
  PROVE  /\ Only("zlib", c.dec, ZlibData(c, at).dec) /\ ZlibData(c, at).ret \in {"wait", "done", "fail"}
         /\ ZlibData(c, at).ret = "done" => ZlibData(c, at).dec.zlib = 0
<1> DEFINE n == c.dec.zlib
           data == Peek(c, n)
           s == Skip(c, n)
           i == Inflated(s, ZlibStream)
           r == SetZlib(i, 0)
           px == Pixels(Tail(data), at[3] * at[4], 4)
           b == BlitImage(r, at, px)
           good == Inflates(c, ZlibStream, data, 4 * (at[3] * at[4]))
<1>1. ZlibData(c, at) = IF ~Has(c, n) THEN Wait(c) ELSE IF ~good THEN Fail(c) ELSE Done(b)
  BY DEF ZlibData, SetZlib
<1> HIDE DEF good, px
<1>2. Shape(c) /\ DecShape(c.dec) /\ Only("zlib", c.dec, c.dec) /\ Shape(s) /\ s.dec = c.dec
  BY DecSkip, OnlySelf DEF Client
<1> HIDE DEF s
<1>3. Shape(i) /\ i.dec = c.dec
  BY <1>2, DecInflated
<1> HIDE DEF i
<1>4. Shape(r) /\ Only("zlib", i.dec, r.dec) /\ r.dec.zlib = 0
  BY <1>2, <1>3, DecSet
<1> HIDE DEF r
<1>5. Shape(b) /\ b.dec = r.dec
  BY <1>4, DecBlit
<1> HIDE DEF b
<1>6. /\ Done(b).dec = b.dec /\ Done(b).ret = "done" /\ Fail(c).dec = c.dec /\ Fail(c).ret = "fail"
      /\ Wait(c).dec = c.dec /\ Wait(c).ret = "wait"
  BY <1>2, <1>5, DecEnd
<1> QED BY <1>1, <1>2, <1>3, <1>4, <1>5, <1>6

\* Zlib keeps a length and nothing else.
LEMMA ZlibKeeps ==
  ASSUME NEW c, NEW w, Reader(c, w), NEW at
  PROVE  /\ Only("zlib", c.dec, Zlib(c, at).dec) /\ Zlib(c, at).ret \in {"wait", "done", "fail"}
         /\ Empty(at) => Zlib(c, at).dec = c.dec
         /\ Zlib(c, at).ret = "done" /\ ~Empty(at) => Zlib(c, at).dec.zlib = 0
<1> DEFINE n == Shift32(Peek(c, 4))
           s == Skip(c, 4)
           b == SetZlib(s, n)
<1>0. /\ Client(c) /\ Shape(c) /\ DecShape(c.dec) /\ Only("zlib", c.dec, c.dec)
      /\ Done(c).dec = c.dec /\ Done(c).ret = "done" /\ Wait(c).dec = c.dec /\ Wait(c).ret = "wait"
  BY DecEnd, OnlySelf DEF Client, Reader
<1>1. CASE Empty(at)
  <2>1. Zlib(c, at) = Done(c)
    BY <1>1 DEF Zlib
  <2> QED BY <1>0, <1>1, <2>1
<1>2. CASE ~Empty(at) /\ c.dec.zlib # 0
  <2>1. Zlib(c, at) = ZlibData(c, at)
    BY <1>2 DEF Zlib
  <2> QED BY <1>0, <1>2, <2>1, ZlibDataKeeps
<1>3. CASE ~Empty(at) /\ c.dec.zlib = 0 /\ ~Has(c, 4)
  <2>1. Zlib(c, at) = Wait(c)
    BY <1>3 DEF Zlib
  <2> QED BY <1>0, <1>3, <2>1
<1>4. CASE ~Empty(at) /\ c.dec.zlib = 0 /\ Has(c, 4)
  <2>1. Zlib(c, at) = ZlibData(b, at)
    BY <1>4, SMT DEF Zlib, SetZlib
  <2>2. n \in Nat
    BY <1>4, Queue, Numbers, SMT
  <2> HIDE DEF n
  <2>3. Frame(c, c) /\ 4 \in Nat
    BY <1>0, Frames
  <2>4. Frame(c, s) /\ s.dec = c.dec
    BY <1>4, <2>3, Skipping
  <2> HIDE DEF s
  <2>5. Frame(c, b) /\ Only("zlib", s.dec, b.dec)
    <3>1. Frame(c, b)
      BY <2>2, <2>4, SettingZlib
    <3>2. Only("zlib", s.dec, b.dec)
      BY <2>4, DecSet DEF Frame, Client
    <3> QED BY <3>1, <3>2
  <2> HIDE DEF b
  <2>6. /\ Only("zlib", b.dec, ZlibData(b, at).dec) /\ ZlibData(b, at).ret \in {"wait", "done", "fail"}
        /\ ZlibData(b, at).ret = "done" => ZlibData(b, at).dec.zlib = 0
    BY <2>5, ZlibDataKeeps DEF Frame
  <2>7. Only("zlib", c.dec, ZlibData(b, at).dec)
    BY <2>4, <2>5, <2>6, OnlyOn
  <2> QED BY <1>4, <2>1, <2>6, <2>7
<1> QED BY <1>1, <1>2, <1>3, <1>4

\* ZRLE forgets the length of its data when it has them.
LEMMA ZrleDataKeeps ==
  ASSUME NEW c, Client(c), NEW at
  PROVE  /\ Only("zrle", c.dec, ZrleData(c, at).dec) /\ ZrleData(c, at).ret \in {"wait", "done", "fail"}
         /\ ZrleData(c, at).ret = "done" => ZrleData(c, at).dec.zrle = 0
<1> DEFINE n == c.dec.zrle
           data == Peek(c, n)
           s == Skip(c, n)
           i == Inflated(s, ZrleStream)
           r == SetZrle(i, 0)
           fb == ZrleTiles(r.fb, at, Tail(data))
           b == [r EXCEPT !.fb = fb]
           bad == data[1] # c.kept.streams[ZrleStream]
<1>1. ZrleData(c, at) = IF ~Has(c, n) THEN Wait(c) ELSE IF bad THEN Fail(c) ELSE Done(b)
  BY DEF ZrleData, SetZrle
<1> HIDE DEF bad, fb
<1>2. Shape(c) /\ DecShape(c.dec) /\ Only("zrle", c.dec, c.dec) /\ Shape(s) /\ s.dec = c.dec
  BY DecSkip, OnlySelf DEF Client
<1> HIDE DEF s
<1>3. Shape(i) /\ i.dec = c.dec
  BY <1>2, DecInflated
<1> HIDE DEF i
<1>4. Shape(r) /\ Only("zrle", i.dec, r.dec) /\ r.dec.zrle = 0
  BY <1>2, <1>3, DecSet
<1> HIDE DEF r
<1>5. Shape(b) /\ b.dec = r.dec
  BY <1>4, DecFb
<1> HIDE DEF b
<1>6. /\ Done(b).dec = b.dec /\ Done(b).ret = "done" /\ Fail(c).dec = c.dec /\ Fail(c).ret = "fail"
      /\ Wait(c).dec = c.dec /\ Wait(c).ret = "wait"
  BY <1>2, <1>5, DecEnd
<1> QED BY <1>1, <1>2, <1>3, <1>4, <1>5, <1>6

\* ZRLE keeps a length and nothing else.
LEMMA ZrleKeeps ==
  ASSUME NEW c, NEW w, Reader(c, w), NEW at
  PROVE  /\ Only("zrle", c.dec, Zrle(c, at).dec) /\ Zrle(c, at).ret \in {"wait", "done", "fail"}
         /\ Zrle(c, at).ret = "done" => Zrle(c, at).dec.zrle = 0
<1> DEFINE n == Shift32(Peek(c, 4))
           s == Skip(c, 4)
           b == SetZrle(s, n)
<1>0. /\ Client(c) /\ Shape(c) /\ DecShape(c.dec) /\ Only("zrle", c.dec, c.dec)
      /\ Wait(c).dec = c.dec /\ Wait(c).ret = "wait"
  BY DecEnd, OnlySelf DEF Client, Reader
<1>2. CASE c.dec.zrle # 0
  <2>1. Zrle(c, at) = ZrleData(c, at)
    BY <1>2 DEF Zrle
  <2> QED BY <1>0, <1>2, <2>1, ZrleDataKeeps
<1>3. CASE c.dec.zrle = 0 /\ ~Has(c, 4)
  <2>1. Zrle(c, at) = Wait(c)
    BY <1>3 DEF Zrle
  <2> QED BY <1>0, <1>3, <2>1
<1>4. CASE c.dec.zrle = 0 /\ Has(c, 4)
  <2>1. Zrle(c, at) = ZrleData(b, at)
    BY <1>4, SMT DEF Zrle, SetZrle
  <2>2. n \in Nat
    BY <1>4, Queue, Numbers, SMT
  <2> HIDE DEF n
  <2>3. Frame(c, c) /\ 4 \in Nat
    BY <1>0, Frames
  <2>4. Frame(c, s) /\ s.dec = c.dec
    BY <1>4, <2>3, Skipping
  <2> HIDE DEF s
  <2>5. Frame(c, b) /\ Only("zrle", s.dec, b.dec)
    <3>1. Frame(c, b)
      BY <2>2, <2>4, SettingZrle
    <3>2. Only("zrle", s.dec, b.dec)
      BY <2>4, DecSet DEF Frame, Client
    <3> QED BY <3>1, <3>2
  <2> HIDE DEF b
  <2>6. /\ Only("zrle", b.dec, ZrleData(b, at).dec) /\ ZrleData(b, at).ret \in {"wait", "done", "fail"}
        /\ ZrleData(b, at).ret = "done" => ZrleData(b, at).dec.zrle = 0
    BY <2>5, ZrleDataKeeps DEF Frame
  <2>7. Only("zrle", c.dec, ZrleData(b, at).dec)
    BY <2>4, <2>5, <2>6, OnlyOn
  <2> QED BY <1>4, <2>1, <2>6, <2>7
<1> QED BY <1>2, <1>3, <1>4

\* A drawn tile leaves alone what is kept between turns.
LEMMA HextileTileKeeps ==
  ASSUME NEW c, Shape(c), NEW tile, NEW n
  PROVE  Shape(HextileTile(c, tile, n)) /\ HextileTile(c, tile, n).dec = c.dec
<1> DEFINE b == Peek(c, n)
           sub == b[1]
           bgEnd == IF Bit(sub, 1) THEN 5 ELSE 1
           fgEnd == IF Bit(sub, 2) THEN bgEnd + 4 ELSE bgEnd
           bg == IF Bit(sub, 1) THEN SubSeq(b, 2, 4) ELSE c.kept.bg
           fg == IF Bit(sub, 2) THEN SubSeq(b, bgEnd + 1, bgEnd + 3) ELSE c.kept.fg
           rest == IF Bit(sub, 3) THEN SubSeq(b, fgEnd + 1, n) ELSE <<0>>
           s == Skip(c, n)
           kept == SetTile(s, bg, fg, sub)
           plain == SetLast(s, sub)
           px == Pixels(Tail(b), tile[3] * tile[4], 4)
           qx == SubTiles(rest, Bit(sub, 4), fg, bg, tile)
           here == HextileTile(c, tile, n)
<1>1. here \in {BlitImage(plain, tile, px), kept, BlitImage(kept, tile, qx)}
  BY DEF HextileTile, SetLast, SetTile
<1> HIDE DEF bg, fg, sub, px, qx
<1>2. Shape(s) /\ s.dec = c.dec
  BY DecSkip
<1> HIDE DEF s
<1>3. Shape(kept) /\ kept.dec = c.dec /\ Shape(plain) /\ plain.dec = c.dec
  BY <1>2 DEF Shape, Fields, SetTile, SetLast
<1> HIDE DEF kept, plain, here
<1>4. Shape(BlitImage(plain, tile, px)) /\ BlitImage(plain, tile, px).dec = c.dec
  BY <1>3, DecBlit
<1>5. Shape(BlitImage(kept, tile, qx)) /\ BlitImage(kept, tile, qx).dec = c.dec
  BY <1>3, DecBlit
<1>6. Shape(here) /\ here.dec = c.dec
  BY <1>1, <1>3, <1>4, <1>5
<1> QED BY <1>6 DEF here

\* Hextile keeps the tiles left, no more than there are, none at the end.
LEMMA HextileKeeps ==
  ASSUME NEW c, Client(c), NEW at \in Place, c.dec.tiles \in Nat, c.dec.tiles <= TilesIn(at)
  PROVE  /\ Only("tiles", c.dec, Hextile(c, at).dec) /\ Hextile(c, at).ret \in {"wait", "again", "done", "fail"}
         /\ Hextile(c, at).dec.tiles \in Nat /\ Hextile(c, at).dec.tiles <= TilesIn(at)
         /\ Hextile(c, at).ret = "done" => Hextile(c, at).dec.tiles = 0
<1> DEFINE total == TilesIn(at)
           b == IF c.dec.tiles = 0 THEN SetTiles(c, total) ELSE c
           tile == Tile(at, total - b.dec.tiles, HextileSize)
           n == TileBytes(b, tile)
           t == HextileTile(b, tile, n)
           d == SetTiles(t, t.dec.tiles - 1)
           now == Hextile(c, at)
<1>0. Shape(c) /\ DecShape(c.dec) /\ Only("tiles", c.dec, c.dec) /\ Done(c).dec = c.dec /\ Done(c).ret = "done"
  BY DecEnd, OnlySelf DEF Client
<1>a. total \in Nat
  <2>1. at[3] \in Nat /\ at[4] \in Nat /\ HextileSize \in Nat \ {0}
    BY StreamAssumption DEF Place
  <2>2. Across(at[3], HextileSize) \in Nat /\ Across(at[4], HextileSize) \in Nat
    BY <2>1, AcrossNat
  <2> QED BY <2>2 DEF TilesIn
<1>1. now = IF b.dec.tiles = 0 THEN Done(c) ELSE HextileNext(b, tile)
  BY DEF Hextile, TilesIn, SetTiles
<1>2. HextileNext(b, tile) = IF ~Has(b, 1) THEN Wait(b)
        ELSE IF Peek(b, 1)[1] > 30 THEN Fail(b)
        ELSE IF n = -1 \/ ~Has(b, n) THEN Wait(b)
        ELSE IF b.dec.tiles = 1 THEN Done(d) ELSE Again(d)
  BY DEF HextileNext, SetTiles
<1> HIDE DEF total
<1>3. Shape(b) /\ DecShape(b.dec) /\ Only("tiles", c.dec, b.dec) /\ b.dec.tiles = IF c.dec.tiles = 0 THEN total ELSE c.dec.tiles
  BY <1>0, DecSet
<1>4. c.dec.tiles <= total
  BY DEF total
<1> HIDE DEF b, tile, n
<1>5. Shape(t) /\ t.dec = b.dec
  BY <1>3, HextileTileKeeps
<1> HIDE DEF t
<1>6. Shape(d) /\ Only("tiles", b.dec, d.dec) /\ d.dec.tiles = b.dec.tiles - 1
  BY <1>3, <1>5, DecSet
<1> HIDE DEF d
<1>7. /\ Done(d).dec = d.dec /\ Done(d).ret = "done" /\ Again(d).dec = d.dec /\ Again(d).ret = "again"
      /\ Wait(b).dec = b.dec /\ Wait(b).ret = "wait" /\ Fail(b).dec = b.dec /\ Fail(b).ret = "fail"
  BY <1>3, <1>6, DecEnd
<1>8. Only("tiles", c.dec, d.dec)
  BY <1>3, <1>6, OnlyOn
<1>9. now \in {Done(c), Wait(b), Fail(b), Done(d), Again(d)}
  BY <1>1, <1>2
<1>10. (now = Done(c) => now.dec.tiles = 0 \/ b.dec.tiles # 0) /\ b.dec.tiles \in Nat /\ b.dec.tiles <= total
  BY <1>a, <1>0, <1>3, <1>4
<1> HIDE DEF now
<1>11. CASE b.dec.tiles = 0
  <2>1. now = Done(c) /\ c.dec.tiles = 0
    BY <1>1, <1>3, <1>11
  <2> QED BY <1>a, <1>0, <2>1 DEF now, total
<1>12. CASE b.dec.tiles # 0
  <2>1. d.dec.tiles \in Nat /\ d.dec.tiles <= total
    BY <1>a, <1>6, <1>10, <1>12
  <2>2. b.dec.tiles = 1 => d.dec.tiles = 0
    BY <1>6
  <2>3. now \in {Wait(b), Fail(b)} \/ (now = Done(d) /\ b.dec.tiles = 1) \/ now = Again(d)
    BY <1>1, <1>2, <1>12
  <2> QED BY <1>3, <1>7, <1>8, <1>10, <2>1, <2>2, <2>3 DEF now, total
<1> QED BY <1>11, <1>12

\* What is kept between two calls for a rectangle is what its own decoder needs.
Midway(d, at, code) ==
    /\ code = Codes.raw => Only("raw", AtRest, d) /\ (Empty(at) => d.raw = 0)
    /\ code = Codes.rre => Only("rre", AtRest, d)
    /\ code = Codes.hextile => Only("tiles", AtRest, d)
    /\ code = Codes.zlib => Only("zlib", AtRest, d) /\ (Empty(at) => d.zlib = 0)
    /\ code \in {Codes.tight, Codes.png} => Others(d) = Others(AtRest) /\ TightMidway(d, at)
    /\ code = Codes.zrle => Only("zrle", AtRest, d)
    /\ code = Codes.jpeg => Only("segments", AtRest, d)
    /\ code \notin {Codes.raw, Codes.rre, Codes.hextile, Codes.zlib, Codes.tight, Codes.png, Codes.zrle, Codes.jpeg} =>
           d = AtRest

Counted(d, at, code) ==
    IF code = Codes.hextile THEN d.tiles \in Nat /\ d.tiles <= TilesIn(at) ELSE d.tiles = 0

\* After a turn for a rectangle either it is done or the next one may go on with it.
Stepped(c, now, at, code) ==
    /\ Counted(c.dec, at, code) =>
           /\ Counted(now.dec, at, code)
           /\ now.ret = "done" => now.dec.tiles = 0
    /\ ~now.astray /\ Midway(c.dec, at, code) =>
           IF now.ret = "done" THEN now.dec = AtRest ELSE now.ret # "fail" => Midway(now.dec, at, code)

\* The codes of the rectangles that draw.
LEMMA Apart ==
  /\ Codes.raw = 0 /\ Codes.copy = 1 /\ Codes.rre = 2 /\ Codes.hextile = 5 /\ Codes.zlib = 6 /\ Codes.tight = 7
  /\ Codes.zrle = 16 /\ Codes.jpeg = 21 /\ Codes.png = -260
  BY SMT DEF Codes

\* The codes of those that do not.
LEMMA Further ==
  /\ Codes.last = -224 /\ Codes.size = -223 /\ Codes.cursor = -239 /\ Codes.qemu = -258
  /\ Codes.led = -261 /\ Codes.name = -307 /\ Codes.extsize = -308 /\ Codes.mouse = -316
  /\ Codes.vmware > 1000
  BY SMT DEF Codes

\* What draws a rectangle, by its code.
LEMMA Drawers ==
  ASSUME NEW c
  PROVE  LET at == c.rect.at
             code == c.rect.code
         IN  /\ code = Codes.raw => HandleRect(c) = Raw(c, at)
             /\ code = Codes.copy => HandleRect(c) = CopyRect(c, at)
             /\ code = Codes.rre => HandleRect(c) = Rre(c, at)
             /\ code = Codes.hextile => HandleRect(c) = Hextile(c, at)
             /\ code = Codes.zlib => HandleRect(c) = Zlib(c, at)
             /\ code = Codes.tight => HandleRect(c) = Tight(c, at, FALSE)
             /\ code = Codes.png => HandleRect(c) = Tight(c, at, TRUE)
             /\ code = Codes.zrle => HandleRect(c) = Zrle(c, at)
             /\ code = Codes.jpeg => HandleRect(c) = Jpeg(c, at)
<1> DEFINE at == c.rect.at
           code == c.rect.code
<1>1. ASSUME code \notin {Codes.last, Codes.vmware, Codes.cursor, Codes.qemu, Codes.name, Codes.size,
                          Codes.extsize, Codes.mouse, Codes.led}
      PROVE  HandleRect(c) = DataRect(c, at, code)
  BY <1>1, SMT DEF HandleRect
<1>2. /\ DataRect(c, at, Codes.raw) = Raw(c, at)
      /\ DataRect(c, at, Codes.copy) = CopyRect(c, at)
      /\ DataRect(c, at, Codes.rre) = Rre(c, at)
      /\ DataRect(c, at, Codes.hextile) = Hextile(c, at)
      /\ DataRect(c, at, Codes.zlib) = Zlib(c, at)
      /\ DataRect(c, at, Codes.zrle) = Zrle(c, at)
      /\ DataRect(c, at, Codes.jpeg) = Jpeg(c, at)
  BY Apart, SMT DEF DataRect
<1>3. code = Codes.raw => HandleRect(c) = Raw(c, at)
  BY <1>1, <1>2, Apart, Further, SMT
<1>4. code = Codes.copy => HandleRect(c) = CopyRect(c, at)
  BY <1>1, <1>2, Apart, Further, SMT
<1>5. code = Codes.rre => HandleRect(c) = Rre(c, at)
  BY <1>1, <1>2, Apart, Further, SMT
<1>6. code = Codes.hextile => HandleRect(c) = Hextile(c, at)
  BY <1>1, <1>2, Apart, Further, SMT
<1>7. code = Codes.zlib => HandleRect(c) = Zlib(c, at)
  BY <1>1, <1>2, Apart, Further, SMT
<1>8. ASSUME code = Codes.tight
      PROVE  HandleRect(c) = Tight(c, at, FALSE)
  <2>1. HandleRect(c) = DataRect(c, at, code)
    BY <1>1, <1>8, Apart, Further, SMT
  <2>2. DataRect(c, at, code) = Tight(c, at, FALSE)
    BY <1>8, Apart, SMT DEF DataRect
  <2> QED BY <2>1, <2>2
<1>9. ASSUME code = Codes.png
      PROVE  HandleRect(c) = Tight(c, at, TRUE)
  <2>1. HandleRect(c) = DataRect(c, at, code)
    BY <1>1, <1>9, Apart, Further, SMT
  <2>2. DataRect(c, at, code) = Tight(c, at, TRUE)
    BY <1>9, Apart, SMT DEF DataRect
  <2> QED BY <2>1, <2>2
<1>10. code = Codes.zrle => HandleRect(c) = Zrle(c, at)
  BY <1>1, <1>2, Apart, Further, SMT
<1>11. code = Codes.jpeg => HandleRect(c) = Jpeg(c, at)
  BY <1>1, <1>2, Apart, Further, SMT
<1> QED BY <1>3, <1>4, <1>5, <1>6, <1>7, <1>8, <1>9, <1>10, <1>11

\* What else a rectangle may be, by its code.
LEMMA Tellers ==
  ASSUME NEW c
  PROVE  LET at == c.rect.at
             code == c.rect.code
         IN  /\ code = Codes.last => HandleRect(c) = Done([c EXCEPT !.rects = 1])
             /\ code = Codes.vmware => HandleRect(c) = VMwareCursor(c, at)
             /\ code = Codes.cursor => HandleRect(c) = Cursor(c, at)
             /\ code = Codes.qemu => HandleRect(c) = Done(Say(c, "qemu", Nothing, Nothing))
             /\ code = Codes.name => HandleRect(c) = DesktopName(c)
             /\ code = Codes.size => HandleRect(c) = Done(Say(c, "size", at, Nothing))
             /\ code = Codes.extsize => HandleRect(c) = ExtendedDesktopSize(c, at)
             /\ code = Codes.mouse => HandleRect(c) = Done(Say(c, "mouse", Nothing, Nothing))
             /\ code = Codes.led => HandleRect(c) = Led(c)
             /\ code \notin {Codes.last, Codes.vmware, Codes.cursor, Codes.qemu, Codes.name, Codes.size,
                             Codes.extsize, Codes.mouse, Codes.led, Codes.raw, Codes.copy, Codes.rre, Codes.hextile,
                             Codes.zlib, Codes.tight, Codes.png, Codes.zrle, Codes.jpeg} => HandleRect(c) = Fail(c)
<1> DEFINE at == c.rect.at
           code == c.rect.code
<1>1. code = Codes.last => HandleRect(c) = Done([c EXCEPT !.rects = 1])
  BY Further, SMT DEF HandleRect
<1>2. code = Codes.vmware => HandleRect(c) = VMwareCursor(c, at)
  BY Further, SMT DEF HandleRect
<1>3. code = Codes.cursor => HandleRect(c) = Cursor(c, at)
  BY Further, SMT DEF HandleRect
<1>4. code = Codes.qemu => HandleRect(c) = Done(Say(c, "qemu", Nothing, Nothing))
  BY Further, SMT DEF HandleRect
<1>5. code = Codes.name => HandleRect(c) = DesktopName(c)
  BY Further, SMT DEF HandleRect
<1>6. code = Codes.size => HandleRect(c) = Done(Say(c, "size", at, Nothing))
  BY Further, SMT DEF HandleRect
<1>7. code = Codes.extsize => HandleRect(c) = ExtendedDesktopSize(c, at)
  BY Further, SMT DEF HandleRect
<1>8. code = Codes.mouse => HandleRect(c) = Done(Say(c, "mouse", Nothing, Nothing))
  BY Further, SMT DEF HandleRect
<1>9. code = Codes.led => HandleRect(c) = Led(c)
  BY Further, SMT DEF HandleRect
<1>10. ASSUME code \notin {Codes.last, Codes.vmware, Codes.cursor, Codes.qemu, Codes.name, Codes.size,
                         Codes.extsize, Codes.mouse, Codes.led, Codes.raw, Codes.copy, Codes.rre, Codes.hextile,
                         Codes.zlib, Codes.tight, Codes.png, Codes.zrle, Codes.jpeg}
       PROVE  HandleRect(c) = Fail(c)
  <2>1. HandleRect(c) = DataRect(c, at, code)
    BY <1>10, SMT DEF HandleRect
  <2>2. /\ code # Codes.raw /\ code # Codes.copy /\ code # Codes.rre /\ code # Codes.hextile
        /\ code # Codes.zlib /\ code # Codes.tight /\ code # Codes.png /\ code # Codes.zrle /\ code # Codes.jpeg
    BY <1>10
  <2> HIDE DEF at, code
  <2>3. DataRect(c, at, code) = Fail(c)
    BY <2>2, Zenon DEF DataRect
  <2> QED BY <2>1, <2>3
<1> QED BY <1>1, <1>2, <1>3, <1>4, <1>5, <1>6, <1>7, <1>8, <1>9, <1>10

\* A decoder that keeps nothing of its own, and nothing else, is at rest.
LEMMA AllRest ==
  ASSUME NEW d, DecShape(d), NEW f \in DecFields, Only(f, AtRest, d), d[f] = AtRest[f]
  PROVE  d = AtRest
<1>1. \A g \in DecFields : d[g] = AtRest[g]
  BY DEF Only
<1>2. AtRest = [g \in DecFields |-> AtRest[g]]
  BY DEF AtRest, DecFields
<1> QED BY <1>1, <1>2 DEF DecShape

\* Tight is at rest when it has no control byte, filter, palette or length.
LEMMA TightRest ==
  ASSUME NEW d, DecShape(d), Others(d) = Others(AtRest), d.ctl = -1, Calm(d)
  PROVE  d = AtRest
<1>1. /\ d.raw = AtRest.raw /\ d.rre = AtRest.rre /\ d.zlib = AtRest.zlib /\ d.zrle = AtRest.zrle
      /\ d.tiles = AtRest.tiles /\ d.segments = AtRest.segments
  BY DEF Others
<1>2. d.ctl = AtRest.ctl /\ d.filter = AtRest.filter /\ d.colours = AtRest.colours /\ d.len = AtRest.len
  BY DEF Calm, AtRest
<1> HIDE DEF AtRest
<1>3. \A g \in DecFields : d[g] = AtRest[g]
  BY <1>1, <1>2 DEF DecFields
<1>4. AtRest = [g \in DecFields |-> AtRest[g]]
  BY DEF AtRest, DecFields
<1> QED BY <1>3, <1>4 DEF DecShape

\* Of a decoder that keeps one thing.
LEMMA OneKept ==
  ASSUME NEW c, NEW now, Client(now), NEW f \in DecFields, Only(f, c.dec, now.dec), Only(f, AtRest, c.dec)
  PROVE  Only(f, AtRest, now.dec) /\ (now.dec[f] = AtRest[f] => now.dec = AtRest)
<1>1. Only(f, AtRest, now.dec)
  BY OnlyOn
<1> QED BY <1>1, AllRest DEF Client

\* A turn for a rectangle that draws nothing leaves the decoders at rest.
LEMMA SameDec ==
  ASSUME NEW c, NEW now, now.dec = c.dec, NEW at, NEW code, code # Codes.hextile,
         code \notin {Codes.raw, Codes.rre, Codes.hextile, Codes.zlib, Codes.tight, Codes.png, Codes.zrle, Codes.jpeg}
  PROVE  Stepped(c, now, at, code)
  BY DEF Stepped, Counted, Midway

\* Of each decoder: a turn resumes, and leaves what the next one needs.
LEMMA RawStep ==
  ASSUME NEW c, NEW w, Reader(c, w), c.ret = "wait", NEW at \in Place
  PROVE  /\ Resumes(c, w, Raw(c, at), Raw(With(c, w), at), Raw(With(Raw(c, at), w), at))
         /\ Stepped(c, Raw(c, at), at, Codes.raw)
<1> DEFINE now == Raw(c, at)
<1>0. Client(c) /\ at[3] \in Nat
  BY DEF Reader, Place
<1>1. Resumes(c, w, now, Raw(With(c, w), at), Raw(With(now, w), at))
  BY <1>0, RawReads, Resuming
<1>2. Only("raw", c.dec, now.dec) /\ (Empty(at) => now.dec = c.dec) /\ (now.ret = "done" /\ ~Empty(at) => now.dec.raw = 0)
  BY <1>0, RawKeeps
<1> HIDE DEF now
<1>3. Client(now) /\ "raw" \in DecFields
  BY <1>1 DEF Resumes, Frame, DecFields
<1>4. Counted(c.dec, at, Codes.raw) => Counted(now.dec, at, Codes.raw) /\ now.dec.tiles = 0
  BY <1>2, Apart DEF Counted, Only, DecFields
<1>5. ASSUME ~now.astray, Midway(c.dec, at, Codes.raw)
      PROVE  IF now.ret = "done" THEN now.dec = AtRest ELSE now.ret # "fail" => Midway(now.dec, at, Codes.raw)
  <2>1. Only("raw", AtRest, c.dec) /\ (Empty(at) => c.dec.raw = 0)
    BY <1>5 DEF Midway
  <2>2. Only("raw", AtRest, now.dec) /\ (now.dec.raw = 0 => now.dec = AtRest)
    <3>1. AtRest.raw = 0
      BY DEF AtRest
    <3> QED BY <1>2, <1>3, <2>1, <3>1, OneKept
  <2>3. CASE now.ret = "done"
    BY <1>2, <2>1, <2>2, <2>3
  <2>4. CASE now.ret # "done"
    <3>1. Only("raw", AtRest, now.dec) /\ (Empty(at) => now.dec.raw = 0)
      BY <1>2, <2>1, <2>2
    <3>2. Midway(now.dec, at, Codes.raw)
      BY <3>1, Apart DEF Midway
    <3> QED BY <2>4, <3>2
  <2> QED BY <2>3, <2>4
<1> QED BY <1>1, <1>4, <1>5 DEF Stepped, now

\* The same of CopyRect.
LEMMA CopyRectStep ==
  ASSUME NEW c, NEW w, Reader(c, w), c.ret = "wait", NEW at \in Place
  PROVE  /\ Resumes(c, w, CopyRect(c, at), CopyRect(With(c, w), at), CopyRect(With(CopyRect(c, at), w), at))
         /\ Stepped(c, CopyRect(c, at), at, Codes.copy)
<1> DEFINE now == CopyRect(c, at)
<1>0. Client(c) /\ at[3] \in Nat
  BY DEF Reader, Place
<1>1. Resumes(c, w, now, CopyRect(With(c, w), at), CopyRect(With(now, w), at))
  BY <1>0, CopyRectReads, Resuming
<1>2. now.dec = c.dec
  BY <1>0, CopyRectKeeps
<1> HIDE DEF now
<1>3. Stepped(c, now, at, Codes.copy)
  BY <1>2, Apart, SameDec
<1> QED BY <1>1, <1>3 DEF now

\* The same of RRE.
LEMMA RreStep ==
  ASSUME NEW c, NEW w, Reader(c, w), c.ret = "wait", NEW at \in Place
  PROVE  /\ Resumes(c, w, Rre(c, at), Rre(With(c, w), at), Rre(With(Rre(c, at), w), at))
         /\ Stepped(c, Rre(c, at), at, Codes.rre)
<1> DEFINE now == Rre(c, at)
<1>0. Client(c) /\ at[3] \in Nat
  BY DEF Reader, Place
<1>1. Resumes(c, w, now, Rre(With(c, w), at), Rre(With(now, w), at))
  BY <1>0, RreReads, Resuming
<1>2. Only("rre", c.dec, now.dec) /\ (now.ret = "done" => now.dec.rre = 0)
  BY <1>0, RreKeeps
<1> HIDE DEF now
<1>3. Client(now) /\ "rre" \in DecFields
  BY <1>1 DEF Resumes, Frame, DecFields
<1>4. Counted(c.dec, at, Codes.rre) => Counted(now.dec, at, Codes.rre) /\ now.dec.tiles = 0
  BY <1>2, Apart DEF Counted, Only, DecFields
<1>5. ASSUME ~now.astray, Midway(c.dec, at, Codes.rre)
      PROVE  IF now.ret = "done" THEN now.dec = AtRest ELSE now.ret # "fail" => Midway(now.dec, at, Codes.rre)
  <2>1. Only("rre", AtRest, c.dec) 
    BY <1>5 DEF Midway
  <2>2. Only("rre", AtRest, now.dec) /\ (now.dec.rre = 0 => now.dec = AtRest)
    <3>1. AtRest.rre = 0
      BY DEF AtRest
    <3> QED BY <1>2, <1>3, <2>1, <3>1, OneKept
  <2>3. CASE now.ret = "done"
    BY <1>2, <2>1, <2>2, <2>3
  <2>4. CASE now.ret # "done"
    <3>1. Only("rre", AtRest, now.dec) 
      BY <1>2, <2>1, <2>2
    <3>2. Midway(now.dec, at, Codes.rre)
      BY <3>1, Apart DEF Midway
    <3> QED BY <2>4, <3>2
  <2> QED BY <2>3, <2>4
<1> QED BY <1>1, <1>4, <1>5 DEF Stepped, now

\* The same of Hextile.
LEMMA HextileStep ==
  ASSUME NEW c, NEW w, Reader(c, w), c.ret = "wait", NEW at \in Place,
         c.dec.tiles \in Nat, c.dec.tiles <= TilesIn(at)
  PROVE  /\ Resumes(c, w, Hextile(c, at), Hextile(With(c, w), at), Hextile(With(Hextile(c, at), w), at))
         /\ Stepped(c, Hextile(c, at), at, Codes.hextile)
<1> DEFINE now == Hextile(c, at)
<1>0. Client(c) /\ at[3] \in Nat
  BY DEF Reader, Place
<1>1. Resumes(c, w, now, Hextile(With(c, w), at), Hextile(With(now, w), at))
  BY <1>0, HextileReads, Resuming
<1>2. /\ Only("tiles", c.dec, now.dec) /\ now.dec.tiles \in Nat /\ now.dec.tiles <= TilesIn(at)
      /\ (now.ret = "done" => now.dec.tiles = 0)
  BY <1>0, HextileKeeps
<1> HIDE DEF now
<1>3. Client(now) /\ "tiles" \in DecFields
  BY <1>1 DEF Resumes, Frame, DecFields
<1>4. Counted(now.dec, at, Codes.hextile) /\ (now.ret = "done" => now.dec.tiles = 0)
  BY <1>2 DEF Counted
<1>5. ASSUME ~now.astray, Midway(c.dec, at, Codes.hextile)
      PROVE  IF now.ret = "done" THEN now.dec = AtRest ELSE now.ret # "fail" => Midway(now.dec, at, Codes.hextile)
  <2>1. Only("tiles", AtRest, c.dec) 
    BY <1>5 DEF Midway
  <2>2. Only("tiles", AtRest, now.dec) /\ (now.dec.tiles = 0 => now.dec = AtRest)
    <3>1. AtRest.tiles = 0
      BY DEF AtRest
    <3> QED BY <1>2, <1>3, <2>1, <3>1, OneKept
  <2>3. CASE now.ret = "done"
    BY <1>2, <2>1, <2>2, <2>3
  <2>4. CASE now.ret # "done"
    <3>1. Only("tiles", AtRest, now.dec) 
      BY <1>2, <2>1, <2>2
    <3>2. Midway(now.dec, at, Codes.hextile)
      BY <3>1, Apart DEF Midway
    <3> QED BY <2>4, <3>2
  <2> QED BY <2>3, <2>4
<1> QED BY <1>1, <1>4, <1>5 DEF Stepped, now

\* The same of Zlib.
LEMMA ZlibStep ==
  ASSUME NEW c, NEW w, Reader(c, w), c.ret = "wait", NEW at \in Place
  PROVE  /\ Resumes(c, w, Zlib(c, at), Zlib(With(c, w), at), Zlib(With(Zlib(c, at), w), at))
         /\ Stepped(c, Zlib(c, at), at, Codes.zlib)
<1> DEFINE now == Zlib(c, at)
<1>0. Client(c) /\ at[3] \in Nat
  BY DEF Reader, Place
<1>1. Resumes(c, w, now, Zlib(With(c, w), at), Zlib(With(now, w), at))
  BY <1>0, ZlibReads, Resuming
<1>2. Only("zlib", c.dec, now.dec) /\ (Empty(at) => now.dec = c.dec) /\ (now.ret = "done" /\ ~Empty(at) => now.dec.zlib = 0)
  BY <1>0, ZlibKeeps
<1> HIDE DEF now
<1>3. Client(now) /\ "zlib" \in DecFields
  BY <1>1 DEF Resumes, Frame, DecFields
<1>4. Counted(c.dec, at, Codes.zlib) => Counted(now.dec, at, Codes.zlib) /\ now.dec.tiles = 0
  BY <1>2, Apart DEF Counted, Only, DecFields
<1>5. ASSUME ~now.astray, Midway(c.dec, at, Codes.zlib)
      PROVE  IF now.ret = "done" THEN now.dec = AtRest ELSE now.ret # "fail" => Midway(now.dec, at, Codes.zlib)
  <2>1. Only("zlib", AtRest, c.dec) /\ (Empty(at) => c.dec.zlib = 0)
    BY <1>5 DEF Midway
  <2>2. Only("zlib", AtRest, now.dec) /\ (now.dec.zlib = 0 => now.dec = AtRest)
    <3>1. AtRest.zlib = 0
      BY DEF AtRest
    <3> QED BY <1>2, <1>3, <2>1, <3>1, OneKept
  <2>3. CASE now.ret = "done"
    BY <1>2, <2>1, <2>2, <2>3
  <2>4. CASE now.ret # "done"
    <3>1. Only("zlib", AtRest, now.dec) /\ (Empty(at) => now.dec.zlib = 0)
      BY <1>2, <2>1, <2>2
    <3>2. Midway(now.dec, at, Codes.zlib)
      BY <3>1, Apart DEF Midway
    <3> QED BY <2>4, <3>2
  <2> QED BY <2>3, <2>4
<1> QED BY <1>1, <1>4, <1>5 DEF Stepped, now

\* The same of ZRLE.
LEMMA ZrleStep ==
  ASSUME NEW c, NEW w, Reader(c, w), c.ret = "wait", NEW at \in Place
  PROVE  /\ Resumes(c, w, Zrle(c, at), Zrle(With(c, w), at), Zrle(With(Zrle(c, at), w), at))
         /\ Stepped(c, Zrle(c, at), at, Codes.zrle)
<1> DEFINE now == Zrle(c, at)
<1>0. Client(c) /\ at[3] \in Nat
  BY DEF Reader, Place
<1>1. Resumes(c, w, now, Zrle(With(c, w), at), Zrle(With(now, w), at))
  BY <1>0, ZrleReads, Resuming
<1>2. Only("zrle", c.dec, now.dec) /\ (now.ret = "done" => now.dec.zrle = 0)
  BY <1>0, ZrleKeeps
<1> HIDE DEF now
<1>3. Client(now) /\ "zrle" \in DecFields
  BY <1>1 DEF Resumes, Frame, DecFields
<1>4. Counted(c.dec, at, Codes.zrle) => Counted(now.dec, at, Codes.zrle) /\ now.dec.tiles = 0
  BY <1>2, Apart DEF Counted, Only, DecFields
<1>5. ASSUME ~now.astray, Midway(c.dec, at, Codes.zrle)
      PROVE  IF now.ret = "done" THEN now.dec = AtRest ELSE now.ret # "fail" => Midway(now.dec, at, Codes.zrle)
  <2>1. Only("zrle", AtRest, c.dec) 
    BY <1>5 DEF Midway
  <2>2. Only("zrle", AtRest, now.dec) /\ (now.dec.zrle = 0 => now.dec = AtRest)
    <3>1. AtRest.zrle = 0
      BY DEF AtRest
    <3> QED BY <1>2, <1>3, <2>1, <3>1, OneKept
  <2>3. CASE now.ret = "done"
    BY <1>2, <2>1, <2>2, <2>3
  <2>4. CASE now.ret # "done"
    <3>1. Only("zrle", AtRest, now.dec) 
      BY <1>2, <2>1, <2>2
    <3>2. Midway(now.dec, at, Codes.zrle)
      BY <3>1, Apart DEF Midway
    <3> QED BY <2>4, <3>2
  <2> QED BY <2>3, <2>4
<1> QED BY <1>1, <1>4, <1>5 DEF Stepped, now

\* The same of JPEG.
LEMMA JpegStep ==
  ASSUME NEW c, NEW w, Reader(c, w), c.ret = "wait", NEW at \in Place
  PROVE  /\ Resumes(c, w, Jpeg(c, at), Jpeg(With(c, w), at), Jpeg(With(Jpeg(c, at), w), at))
         /\ Stepped(c, Jpeg(c, at), at, Codes.jpeg)
<1> DEFINE now == Jpeg(c, at)
<1>0. Client(c) /\ at[3] \in Nat
  BY DEF Reader, Place
<1>1. Resumes(c, w, now, Jpeg(With(c, w), at), Jpeg(With(now, w), at))
  BY <1>0, JpegReads
<1>2. Only("segments", c.dec, now.dec) /\ (now.ret = "done" => now.dec.segments = <<>>)
  BY <1>0, JpegReads
<1> HIDE DEF now
<1>3. Client(now) /\ "segments" \in DecFields
  BY <1>1 DEF Resumes, Frame, DecFields
<1>4. Counted(c.dec, at, Codes.jpeg) => Counted(now.dec, at, Codes.jpeg) /\ now.dec.tiles = 0
  BY <1>2, Apart DEF Counted, Only, DecFields
<1>5. ASSUME ~now.astray, Midway(c.dec, at, Codes.jpeg)
      PROVE  IF now.ret = "done" THEN now.dec = AtRest ELSE now.ret # "fail" => Midway(now.dec, at, Codes.jpeg)
  <2>1. Only("segments", AtRest, c.dec) 
    BY <1>5 DEF Midway
  <2>2. Only("segments", AtRest, now.dec) /\ (now.dec.segments = <<>> => now.dec = AtRest)
    <3>1. AtRest.segments = <<>>
      BY DEF AtRest
    <3> QED BY <1>2, <1>3, <2>1, <3>1, OneKept
  <2>3. CASE now.ret = "done"
    BY <1>2, <2>1, <2>2, <2>3
  <2>4. CASE now.ret # "done"
    <3>1. Only("segments", AtRest, now.dec) 
      BY <1>2, <2>1, <2>2
    <3>2. Midway(now.dec, at, Codes.jpeg)
      BY <3>1, Apart DEF Midway
    <3> QED BY <2>4, <3>2
  <2> QED BY <2>3, <2>4
<1> QED BY <1>1, <1>4, <1>5 DEF Stepped, now

\* The same of Tight.
LEMMA TightStep ==
  ASSUME NEW c, NEW w, Reader(c, w), c.ret = "wait", NEW at \in Place
  PROVE  /\ Resumes(c, w, Tight(c, at, FALSE), Tight(With(c, w), at, FALSE), Tight(With(Tight(c, at, FALSE), w), at, FALSE))
         /\ Stepped(c, Tight(c, at, FALSE), at, Codes.tight)
<1> DEFINE now == Tight(c, at, FALSE)
<1>0. Client(c) /\ at[3] \in Nat
  BY DEF Reader, Place
<1>1. Resumes(c, w, now, Tight(With(c, w), at, FALSE), Tight(With(now, w), at, FALSE))
  BY <1>0, TightReads
<1>2. /\ Others(now.dec) = Others(c.dec) /\ now.ret \in {"wait", "done", "fail"}
      /\ TightMidway(c.dec, at) =>
             /\ now.ret = "wait" => TightMidway(now.dec, at)
             /\ now.ret = "done" /\ ~now.astray => now.dec.ctl = -1 /\ Calm(now.dec)
  BY TightReads
<1> HIDE DEF now
<1>3. DecShape(now.dec) /\ now.dec.tiles = c.dec.tiles
  BY <1>1, <1>2 DEF Resumes, Frame, Client, Others
<1>4. Counted(c.dec, at, Codes.tight) => Counted(now.dec, at, Codes.tight) /\ now.dec.tiles = 0
  BY <1>3, Apart DEF Counted
<1>5. ASSUME ~now.astray, Midway(c.dec, at, Codes.tight)
      PROVE  IF now.ret = "done" THEN now.dec = AtRest ELSE now.ret # "fail" => Midway(now.dec, at, Codes.tight)
  <2>1. Others(c.dec) = Others(AtRest) /\ TightMidway(c.dec, at)
    BY <1>5 DEF Midway
  <2>2. CASE now.ret = "done"
    BY <1>2, <1>3, <1>5, <2>1, <2>2, TightRest
  <2>3. CASE now.ret # "done" /\ now.ret # "fail"
    <3>1. Others(now.dec) = Others(AtRest) /\ TightMidway(now.dec, at)
      BY <1>2, <2>1, <2>3
    <3>2. Midway(now.dec, at, Codes.tight)
      BY <3>1, Apart DEF Midway
    <3> QED BY <2>3, <3>2
  <2> QED BY <2>2, <2>3
<1> QED BY <1>1, <1>4, <1>5 DEF Stepped, now

\* The same of TightPNG.
LEMMA PngStep ==
  ASSUME NEW c, NEW w, Reader(c, w), c.ret = "wait", NEW at \in Place
  PROVE  /\ Resumes(c, w, Tight(c, at, TRUE), Tight(With(c, w), at, TRUE), Tight(With(Tight(c, at, TRUE), w), at, TRUE))
         /\ Stepped(c, Tight(c, at, TRUE), at, Codes.png)
<1> DEFINE now == Tight(c, at, TRUE)
<1>0. Client(c) /\ at[3] \in Nat
  BY DEF Reader, Place
<1>1. Resumes(c, w, now, Tight(With(c, w), at, TRUE), Tight(With(now, w), at, TRUE))
  BY <1>0, TightReads
<1>2. /\ Others(now.dec) = Others(c.dec) /\ now.ret \in {"wait", "done", "fail"}
      /\ TightMidway(c.dec, at) =>
             /\ now.ret = "wait" => TightMidway(now.dec, at)
             /\ now.ret = "done" /\ ~now.astray => now.dec.ctl = -1 /\ Calm(now.dec)
  BY TightReads
<1> HIDE DEF now
<1>3. DecShape(now.dec) /\ now.dec.tiles = c.dec.tiles
  BY <1>1, <1>2 DEF Resumes, Frame, Client, Others
<1>4. Counted(c.dec, at, Codes.png) => Counted(now.dec, at, Codes.png) /\ now.dec.tiles = 0
  BY <1>3, Apart DEF Counted
<1>5. ASSUME ~now.astray, Midway(c.dec, at, Codes.png)
      PROVE  IF now.ret = "done" THEN now.dec = AtRest ELSE now.ret # "fail" => Midway(now.dec, at, Codes.png)
  <2>1. Others(c.dec) = Others(AtRest) /\ TightMidway(c.dec, at)
    BY <1>5 DEF Midway
  <2>2. CASE now.ret = "done"
    BY <1>2, <1>3, <1>5, <2>1, <2>2, TightRest
  <2>3. CASE now.ret # "done" /\ now.ret # "fail"
    <3>1. Others(now.dec) = Others(AtRest) /\ TightMidway(now.dec, at)
      BY <1>2, <2>1, <2>3
    <3>2. Midway(now.dec, at, Codes.png)
      BY <3>1, Apart DEF Midway
    <3> QED BY <2>3, <3>2
  <2> QED BY <2>2, <2>3
<1> QED BY <1>1, <1>4, <1>5 DEF Stepped, now

\* Whatever the code of a rectangle is, the last one apart.
LEMMA HandleRectReads ==
  ASSUME NEW c, NEW w, Reader(c, w), c.ret = "wait", c.rect.at \in Place, c.rect.code # Codes.last,
         Counted(c.dec, c.rect.at, c.rect.code)
  PROVE  /\ Resumes(c, w, HandleRect(c), HandleRect(With(c, w)), HandleRect(With(HandleRect(c), w)))
         /\ Stepped(c, HandleRect(c), c.rect.at, c.rect.code)
<1> DEFINE v == With(c, w)
           at == c.rect.at
           code == c.rect.code
           now == HandleRect(c)
<1>0. Client(c) /\ v.rect = c.rect /\ Frame(c, c)
  BY Untouched, Frames DEF Reader
<1>1. ASSUME NEW n, Frame(c, n)
      PROVE  With(n, w).rect = c.rect
  BY <1>1, Untouched DEF Frame
<1>2. CASE code = Codes.raw
  <2> DEFINE e == Raw(c, at)
             ev == Raw(v, at)
             el == Raw(With(e, w), at)
  <2>1. Resumes(c, w, e, ev, el) /\ Stepped(c, e, at, code)
    BY <1>2, RawStep
  <2>2. now = e /\ HandleRect(v) = ev
    BY <1>0, <1>2, Drawers
  <2>3. With(e, w).rect = c.rect
    BY <1>1, <2>1 DEF Resumes
  <2>4. HandleRect(With(e, w)) = el
    BY <1>2, <2>3, Drawers
  <2> HIDE DEF e, ev, el
  <2> QED BY <2>1, <2>2, <2>4
<1>3. CASE code = Codes.copy
  <2> DEFINE e == CopyRect(c, at)
             ev == CopyRect(v, at)
             el == CopyRect(With(e, w), at)
  <2>1. Resumes(c, w, e, ev, el) /\ Stepped(c, e, at, code)
    BY <1>3, CopyRectStep
  <2>2. now = e /\ HandleRect(v) = ev
    BY <1>0, <1>3, Drawers
  <2>3. With(e, w).rect = c.rect
    BY <1>1, <2>1 DEF Resumes
  <2>4. HandleRect(With(e, w)) = el
    BY <1>3, <2>3, Drawers
  <2> HIDE DEF e, ev, el
  <2> QED BY <2>1, <2>2, <2>4
<1>4. CASE code = Codes.rre
  <2> DEFINE e == Rre(c, at)
             ev == Rre(v, at)
             el == Rre(With(e, w), at)
  <2>1. Resumes(c, w, e, ev, el) /\ Stepped(c, e, at, code)
    BY <1>4, RreStep
  <2>2. now = e /\ HandleRect(v) = ev
    BY <1>0, <1>4, Drawers
  <2>3. With(e, w).rect = c.rect
    BY <1>1, <2>1 DEF Resumes
  <2>4. HandleRect(With(e, w)) = el
    BY <1>4, <2>3, Drawers
  <2> HIDE DEF e, ev, el
  <2> QED BY <2>1, <2>2, <2>4
<1>5. CASE code = Codes.hextile
  <2> DEFINE e == Hextile(c, at)
             ev == Hextile(v, at)
             el == Hextile(With(e, w), at)
  <2>0. c.dec.tiles \in Nat /\ c.dec.tiles <= TilesIn(at)
    BY <1>5 DEF Counted
  <2>1. Resumes(c, w, e, ev, el) /\ Stepped(c, e, at, code)
    BY <1>5, <2>0, HextileStep
  <2>2. now = e /\ HandleRect(v) = ev
    BY <1>0, <1>5, Drawers
  <2>3. With(e, w).rect = c.rect
    BY <1>1, <2>1 DEF Resumes
  <2>4. HandleRect(With(e, w)) = el
    BY <1>5, <2>3, Drawers
  <2> HIDE DEF e, ev, el
  <2> QED BY <2>1, <2>2, <2>4
<1>6. CASE code = Codes.zlib
  <2> DEFINE e == Zlib(c, at)
             ev == Zlib(v, at)
             el == Zlib(With(e, w), at)
  <2>1. Resumes(c, w, e, ev, el) /\ Stepped(c, e, at, code)
    BY <1>6, ZlibStep
  <2>2. now = e /\ HandleRect(v) = ev
    BY <1>0, <1>6, Drawers
  <2>3. With(e, w).rect = c.rect
    BY <1>1, <2>1 DEF Resumes
  <2>4. HandleRect(With(e, w)) = el
    BY <1>6, <2>3, Drawers
  <2> HIDE DEF e, ev, el
  <2> QED BY <2>1, <2>2, <2>4
<1>7. CASE code = Codes.zrle
  <2> DEFINE e == Zrle(c, at)
             ev == Zrle(v, at)
             el == Zrle(With(e, w), at)
  <2>1. Resumes(c, w, e, ev, el) /\ Stepped(c, e, at, code)
    BY <1>7, ZrleStep
  <2>2. now = e /\ HandleRect(v) = ev
    BY <1>0, <1>7, Drawers
  <2>3. With(e, w).rect = c.rect
    BY <1>1, <2>1 DEF Resumes
  <2>4. HandleRect(With(e, w)) = el
    BY <1>7, <2>3, Drawers
  <2> HIDE DEF e, ev, el
  <2> QED BY <2>1, <2>2, <2>4
<1>8. CASE code = Codes.jpeg
  <2> DEFINE e == Jpeg(c, at)
             ev == Jpeg(v, at)
             el == Jpeg(With(e, w), at)
  <2>1. Resumes(c, w, e, ev, el) /\ Stepped(c, e, at, code)
    BY <1>8, JpegStep
  <2>2. now = e /\ HandleRect(v) = ev
    BY <1>0, <1>8, Drawers
  <2>3. With(e, w).rect = c.rect
    BY <1>1, <2>1 DEF Resumes
  <2>4. HandleRect(With(e, w)) = el
    BY <1>8, <2>3, Drawers
  <2> HIDE DEF e, ev, el
  <2> QED BY <2>1, <2>2, <2>4
<1>9. CASE code = Codes.tight
  <2> DEFINE e == Tight(c, at, FALSE)
             ev == Tight(v, at, FALSE)
             el == Tight(With(e, w), at, FALSE)
  <2>1. Resumes(c, w, e, ev, el) /\ Stepped(c, e, at, code)
    BY <1>9, TightStep
  <2>2. now = e /\ HandleRect(v) = ev
    BY <1>0, <1>9, Drawers
  <2>3. With(e, w).rect = c.rect
    BY <1>1, <2>1 DEF Resumes
  <2>4. HandleRect(With(e, w)) = el
    BY <1>9, <2>3, Drawers
  <2> HIDE DEF e, ev, el
  <2> QED BY <2>1, <2>2, <2>4
<1>10. CASE code = Codes.png
  <2> DEFINE e == Tight(c, at, TRUE)
             ev == Tight(v, at, TRUE)
             el == Tight(With(e, w), at, TRUE)
  <2>1. Resumes(c, w, e, ev, el) /\ Stepped(c, e, at, code)
    BY <1>10, PngStep
  <2>2. now = e /\ HandleRect(v) = ev
    BY <1>0, <1>10, Drawers
  <2>3. With(e, w).rect = c.rect
    BY <1>1, <2>1 DEF Resumes
  <2>4. HandleRect(With(e, w)) = el
    BY <1>10, <2>3, Drawers
  <2> HIDE DEF e, ev, el
  <2> QED BY <2>1, <2>2, <2>4
<1>11. CASE code = Codes.vmware
  <2> DEFINE e == VMwareCursor(c, at)
             ev == VMwareCursor(v, at)
             el == VMwareCursor(With(e, w), at)
  <2>1. Quiet(c, w, e, ev, el)
    BY VMwareCursorReads
  <2>2. now = e /\ HandleRect(v) = ev
    BY <1>0, <1>11, Tellers
  <2>3. With(e, w).rect = c.rect
    BY <1>1, <2>1 DEF Quiet, Resumes
  <2>4. HandleRect(With(e, w)) = el
    BY <1>11, <2>3, Tellers
  <2> HIDE DEF e, ev, el
  <2>5. Stepped(c, e, at, code)
    BY <1>11, <2>1, Apart, Further, SameDec, SMT DEF Quiet
  <2> QED BY <2>1, <2>2, <2>4, <2>5 DEF Quiet
<1>12. CASE code = Codes.cursor
  <2> DEFINE e == Cursor(c, at)
             ev == Cursor(v, at)
             el == Cursor(With(e, w), at)
  <2>1. Quiet(c, w, e, ev, el)
    BY CursorReads
  <2>2. now = e /\ HandleRect(v) = ev
    BY <1>0, <1>12, Tellers
  <2>3. With(e, w).rect = c.rect
    BY <1>1, <2>1 DEF Quiet, Resumes
  <2>4. HandleRect(With(e, w)) = el
    BY <1>12, <2>3, Tellers
  <2> HIDE DEF e, ev, el
  <2>5. Stepped(c, e, at, code)
    BY <1>12, <2>1, Apart, Further, SameDec, SMT DEF Quiet
  <2> QED BY <2>1, <2>2, <2>4, <2>5 DEF Quiet
<1>13. CASE code = Codes.qemu
  <2> DEFINE e == Done(Say(c, "qemu", Nothing, Nothing))
             ev == Done(Say(v, "qemu", Nothing, Nothing))
             el == Done(Say(With(e, w), "qemu", Nothing, Nothing))
  <2>1. Quiet(c, w, e, ev, el)
    BY <1>0, Speaks
  <2>2. now = e /\ HandleRect(v) = ev
    BY <1>0, <1>13, Tellers
  <2>3. With(e, w).rect = c.rect
    BY <1>1, <2>1 DEF Quiet, Resumes
  <2>4. HandleRect(With(e, w)) = el
    BY <1>13, <2>3, Tellers
  <2> HIDE DEF e, ev, el
  <2>5. Stepped(c, e, at, code)
    BY <1>13, <2>1, Apart, Further, SameDec, SMT DEF Quiet
  <2> QED BY <2>1, <2>2, <2>4, <2>5 DEF Quiet
<1>14. CASE code = Codes.name
  <2> DEFINE e == DesktopName(c)
             ev == DesktopName(v)
             el == DesktopName(With(e, w))
  <2>1. Quiet(c, w, e, ev, el)
    BY DesktopNameReads
  <2>2. now = e /\ HandleRect(v) = ev
    BY <1>0, <1>14, Tellers
  <2>3. With(e, w).rect = c.rect
    BY <1>1, <2>1 DEF Quiet, Resumes
  <2>4. HandleRect(With(e, w)) = el
    BY <1>14, <2>3, Tellers
  <2> HIDE DEF e, ev, el
  <2>5. Stepped(c, e, at, code)
    BY <1>14, <2>1, Apart, Further, SameDec, SMT DEF Quiet
  <2> QED BY <2>1, <2>2, <2>4, <2>5 DEF Quiet
<1>15. CASE code = Codes.size
  <2> DEFINE e == Done(Say(c, "size", at, Nothing))
             ev == Done(Say(v, "size", at, Nothing))
             el == Done(Say(With(e, w), "size", at, Nothing))
  <2>1. Quiet(c, w, e, ev, el)
    BY <1>0, Speaks
  <2>2. now = e /\ HandleRect(v) = ev
    BY <1>0, <1>15, Tellers
  <2>3. With(e, w).rect = c.rect
    BY <1>1, <2>1 DEF Quiet, Resumes
  <2>4. HandleRect(With(e, w)) = el
    BY <1>15, <2>3, Tellers
  <2> HIDE DEF e, ev, el
  <2>5. Stepped(c, e, at, code)
    BY <1>15, <2>1, Apart, Further, SameDec, SMT DEF Quiet
  <2> QED BY <2>1, <2>2, <2>4, <2>5 DEF Quiet
<1>16. CASE code = Codes.extsize
  <2> DEFINE e == ExtendedDesktopSize(c, at)
             ev == ExtendedDesktopSize(v, at)
             el == ExtendedDesktopSize(With(e, w), at)
  <2>1. Quiet(c, w, e, ev, el)
    BY ExtendedDesktopSizeReads
  <2>2. now = e /\ HandleRect(v) = ev
    BY <1>0, <1>16, Tellers
  <2>3. With(e, w).rect = c.rect
    BY <1>1, <2>1 DEF Quiet, Resumes
  <2>4. HandleRect(With(e, w)) = el
    BY <1>16, <2>3, Tellers
  <2> HIDE DEF e, ev, el
  <2>5. Stepped(c, e, at, code)
    BY <1>16, <2>1, Apart, Further, SameDec, SMT DEF Quiet
  <2> QED BY <2>1, <2>2, <2>4, <2>5 DEF Quiet
<1>17. CASE code = Codes.mouse
  <2> DEFINE e == Done(Say(c, "mouse", Nothing, Nothing))
             ev == Done(Say(v, "mouse", Nothing, Nothing))
             el == Done(Say(With(e, w), "mouse", Nothing, Nothing))
  <2>1. Quiet(c, w, e, ev, el)
    BY <1>0, Speaks
  <2>2. now = e /\ HandleRect(v) = ev
    BY <1>0, <1>17, Tellers
  <2>3. With(e, w).rect = c.rect
    BY <1>1, <2>1 DEF Quiet, Resumes
  <2>4. HandleRect(With(e, w)) = el
    BY <1>17, <2>3, Tellers
  <2> HIDE DEF e, ev, el
  <2>5. Stepped(c, e, at, code)
    BY <1>17, <2>1, Apart, Further, SameDec, SMT DEF Quiet
  <2> QED BY <2>1, <2>2, <2>4, <2>5 DEF Quiet
<1>18. CASE code = Codes.led
  <2> DEFINE e == Led(c)
             ev == Led(v)
             el == Led(With(e, w))
  <2>1. Quiet(c, w, e, ev, el)
    BY LedReads
  <2>2. now = e /\ HandleRect(v) = ev
    BY <1>0, <1>18, Tellers
  <2>3. With(e, w).rect = c.rect
    BY <1>1, <2>1 DEF Quiet, Resumes
  <2>4. HandleRect(With(e, w)) = el
    BY <1>18, <2>3, Tellers
  <2> HIDE DEF e, ev, el
  <2>5. Stepped(c, e, at, code)
    BY <1>18, <2>1, Apart, Further, SameDec, SMT DEF Quiet
  <2> QED BY <2>1, <2>2, <2>4, <2>5 DEF Quiet
<1>19. CASE code \notin {Codes.last, Codes.vmware, Codes.cursor, Codes.qemu, Codes.name, Codes.size,
                  Codes.extsize, Codes.mouse, Codes.led, Codes.raw, Codes.copy, Codes.rre, Codes.hextile,
                  Codes.zlib, Codes.tight, Codes.png, Codes.zrle, Codes.jpeg}
  <2>1. now = Fail(c) /\ HandleRect(v) = Fail(v)
    BY <1>0, <1>19, Tellers
  <2>2. Frame(c, now) /\ now.ret = "fail" /\ now.dec = c.dec /\ HandleRect(v) = With(now, w)
    BY <1>0, <2>1, Ending, Endings
  <2> HIDE DEF now
  <2>3. Resumes(c, w, now, HandleRect(v), HandleRect(With(now, w)))
    BY <2>2, Going
  <2>4. Stepped(c, now, at, code)
    BY <1>19, <2>2, SameDec
  <2> QED BY <2>3, <2>4 DEF now
<1> QED BY <1>2, <1>3, <1>4, <1>5, <1>6, <1>7, <1>8, <1>9, <1>10, <1>11, <1>12, <1>13, <1>14, <1>15, <1>16, <1>17, <1>18, <1>19

-----------------------------------------------------------------------------
(* Rectangles and their headers *)

\* What a turn of the loops does to the rest of the client.
Around(c, n) ==
    /\ Client(n) /\ n.rQ = c.rQ /\ n.running = c.running /\ n.failed = c.failed
    /\ n.pasted = c.pasted /\ n.viewOnly = c.viewOnly
    /\ (n.astray \/ ~c.astray) /\ (~n.astray /\ c.rQi <= Len(c.rQ) => n.rQi <= Len(c.rQ))

\* It makes no difference to the turn that the bytes behind are missing.
Meets(w, now, then, later) == ~now.astray => IF now.ret = "wait" THEN later = then ELSE then = With(now, w)

\* The rectangle that is being read and what the decoders keep belong together.
Fits(c) ==
    /\ c.rects \in Nat
    /\ c.rect = Nothing => c.dec.tiles = 0
    /\ c.rect # Nothing => c.rect.at \in Place /\ Counted(c.dec, c.rect.at, c.rect.code)
    /\ ~c.astray => IF c.rect = Nothing THEN c.dec = AtRest ELSE Midway(c.dec, c.rect.at, c.rect.code)

\* What a turn leaves to the next.
Settled(now) == (now.ret # "fail" => Fits(now)) /\ (now.ret = "again" => now.rects # 0)

SetRect(c, x) == [c EXCEPT !.rect = x]
SetRects(c, x) == [c EXCEPT !.rects = x]
Over(c) == [c EXCEPT !.rects = @ - 1, !.rect = Nothing]
Heading(b) ==
    LET n(i) == Shift16(SubSeq(b, i, i + 1))
    IN  [at |-> <<n(1), n(3), n(5), n(7)>>, code |-> Signed(SubSeq(b, 9, 12))]

\* A turn that leaves the rectangles alone is one of those.
LEMMA FrameAround ==
  ASSUME NEW c, NEW n, Frame(c, n)
  PROVE  Around(c, n)
  BY DEF Frame, Around

\* What one step of a turn does around the rectangles, and the next, both do.
LEMMA AroundThrough ==
  ASSUME NEW a, NEW b, NEW c, Around(a, b), Around(b, c)
  PROVE  Around(a, c)
  BY DEF Around

\* Of two bytes.
LEMMA Pair ==
  ASSUME NEW b \in Seq(Byte), Len(b) = 2
  PROVE  Shift16(b) \in Nat
<1>1. b[1] \in Byte /\ b[2] \in Byte
  BY ElementOfSeq
<1> DEFINE x == b[1]
           y == b[2]
<1>2. Shift16(b) = 256 * x + y
  BY DEF Shift16
<1>3. x \in 0..255 /\ y \in 0..255
  BY <1>1 DEF Byte
<1> HIDE DEF x, y
<1>4. 256 * x + y \in Nat
  BY <1>3
<1> QED BY <1>2, <1>4

\* A header is one of a rectangle with natural coordinates.
LEMMA Headings ==
  ASSUME NEW b \in Seq(Byte), Len(b) = 12
  PROVE  Heading(b) # Nothing /\ Heading(b).at \in Place
<1> DEFINE n(i) == Shift16(SubSeq(b, i, i + 1))
<1>1. ASSUME NEW i \in {1, 3, 5, 7}
      PROVE  n(i) \in Nat
  <2> DEFINE k == i - 1
  <2>1. k \in Nat /\ k + 2 <= Len(b) /\ 2 \in Nat /\ i = k + 1 /\ i + 1 = k + 2
    OBVIOUS
  <2> HIDE DEF k
  <2>2. SubSeq(b, k + 1, k + 2) \in Seq(Byte) /\ Len(SubSeq(b, k + 1, k + 2)) = 2
    BY <2>1, Slices
  <2>3. Shift16(SubSeq(b, k + 1, k + 2)) \in Nat
    BY <2>2, Pair
  <2> QED BY <2>1, <2>3
<1> DEFINE code == Signed(SubSeq(b, 9, 12))
<1>2. Heading(b) = [at |-> <<n(1), n(3), n(5), n(7)>>, code |-> code]
  BY DEF Heading
<1>3. n(1) \in Nat /\ n(3) \in Nat /\ n(5) \in Nat /\ n(7) \in Nat
  BY <1>1
<1> HIDE DEF n, code
<1>4. <<n(1), n(3), n(5), n(7)>> \in Place
  BY <1>3 DEF Place
<1> DEFINE at == <<n(1), n(3), n(5), n(7)>>
<1> HIDE DEF at
<1>5. [at |-> at, code |-> code] # <<>>
  <2>1. DOMAIN [at |-> at, code |-> code] = {"at", "code"}
    OBVIOUS
  <2>2. DOMAIN <<>> = {}
    OBVIOUS
  <2> QED BY <2>1, <2>2
<1> QED BY <1>2, <1>4, <1>5 DEF at, Nothing

\* The rectangle that is being read can be set whatever the queue.
LEMMA RectSet ==
  ASSUME NEW c, Client(c), NEW x
  PROVE  /\ Around(c, SetRect(c, x)) /\ SetRect(c, x).rect = x /\ SetRect(c, x).rects = c.rects
         /\ SetRect(c, x).ret = c.ret /\ SetRect(c, x).dec = c.dec /\ SetRect(c, x).astray = c.astray
         /\ \A w : SetRect(With(c, w), x) = With(SetRect(c, x), w)
<1>1. /\ Around(c, SetRect(c, x)) /\ SetRect(c, x).rect = x /\ SetRect(c, x).rects = c.rects
      /\ SetRect(c, x).ret = c.ret /\ SetRect(c, x).dec = c.dec /\ SetRect(c, x).astray = c.astray
  BY DEF SetRect, Around, Client, Shape, Fields
<1>2. \A w : SetRect(With(c, w), x) = With(SetRect(c, x), w)
  BY DEF SetRect, With
<1> QED BY <1>1, <1>2

\* So can the number of those left.
LEMMA RectsSet ==
  ASSUME NEW c, Client(c), NEW x
  PROVE  /\ Around(c, SetRects(c, x)) /\ SetRects(c, x).rects = x /\ SetRects(c, x).rect = c.rect
         /\ SetRects(c, x).ret = c.ret /\ SetRects(c, x).dec = c.dec /\ SetRects(c, x).astray = c.astray
         /\ \A w : SetRects(With(c, w), x) = With(SetRects(c, x), w)
<1>1. /\ Around(c, SetRects(c, x)) /\ SetRects(c, x).rects = x /\ SetRects(c, x).rect = c.rect
      /\ SetRects(c, x).ret = c.ret /\ SetRects(c, x).dec = c.dec /\ SetRects(c, x).astray = c.astray
  BY DEF SetRects, Around, Client, Shape, Fields
<1>2. \A w : SetRects(With(c, w), x) = With(SetRects(c, x), w)
  BY DEF SetRects, With
<1> QED BY <1>1, <1>2

\* What is left of a client by the end of a turn.
LEMMA RetSet ==
  ASSUME NEW c, Client(c)
  PROVE  /\ Done(c).rects = c.rects /\ Done(c).rect = c.rect /\ Done(c).astray = c.astray /\ Done(c).dec = c.dec
         /\ Again(c).rects = c.rects /\ Again(c).rect = c.rect /\ Again(c).astray = c.astray /\ Again(c).dec = c.dec
         /\ Fail(c).astray = c.astray
         /\ Around(c, Done(c)) /\ Around(c, Again(c)) /\ Around(c, Fail(c)) /\ Around(c, c)
<1>1. Done(c).rects = c.rects /\ Done(c).rect = c.rect /\ Done(c).astray = c.astray /\ Done(c).dec = c.dec
  BY DEF Done, Client, Shape, Fields
<1>2. Again(c).rects = c.rects /\ Again(c).rect = c.rect /\ Again(c).astray = c.astray /\ Again(c).dec = c.dec
  BY DEF Again, Client, Shape, Fields
<1>3. Fail(c).astray = c.astray
  BY DEF Fail, Client, Shape, Fields
<1>4. Frame(c, Done(c)) /\ Frame(c, Again(c)) /\ Frame(c, Fail(c)) /\ Frame(c, c)
  BY Frames
<1> QED BY <1>1, <1>2, <1>3, <1>4, FrameAround

\* So can both at the end of one.
LEMMA Overs ==
  ASSUME NEW c, Client(c)
  PROVE  /\ Around(c, Over(c)) /\ Over(c).rects = c.rects - 1 /\ Over(c).rect = Nothing
         /\ Over(c).dec = c.dec /\ Over(c).astray = c.astray
         /\ \A w : Over(With(c, w)) = With(Over(c), w)
<1>1. /\ Around(c, Over(c)) /\ Over(c).rects = c.rects - 1 /\ Over(c).rect = Nothing
      /\ Over(c).dec = c.dec /\ Over(c).astray = c.astray
  BY DEF Over, Around, Client, Shape, Fields
<1>2. ASSUME NEW w
      PROVE  Over(With(c, w)) = With(Over(c), w)
  <2>1. With(c, w).rects = c.rects
    BY Untouched
  <2>2. [With(c, w) EXCEPT !.rects = c.rects - 1, !.rect = Nothing] = With([c EXCEPT !.rects = c.rects - 1, !.rect = Nothing], w)
    BY DEF With
  <2> QED BY <2>1, <2>2 DEF Over
<1> QED BY <1>1, <1>2

\* The end of a rectangle.
LEMMA RectDones ==
  ASSUME NEW h, Client(h), NEW r, r = RectDone(h), h.rects \in Nat \ {0}
  PROVE  /\ Around(h, r) /\ r.astray = h.astray
         /\ h.ret # "done" => r = h
         /\ h.ret = "done" => /\ r.ret \in {"done", "again"} /\ r.rects = h.rects - 1 /\ r.rects \in Nat
                              /\ r.rect = Nothing /\ r.dec = h.dec
                              /\ (r.ret = "again" => r.rects # 0)
         /\ \A w : RectDone(With(h, w)) = With(r, w)
<1> DEFINE e == Over(h)
<1>0. \A x : RectDone(x) = IF x.ret # "done" THEN x ELSE IF Over(x).rects = 0 THEN Done(Over(x)) ELSE Again(Over(x))
  BY DEF RectDone, Over
<1>1. /\ Around(h, e) /\ e.rects = h.rects - 1 /\ e.rect = Nothing /\ e.dec = h.dec /\ e.astray = h.astray
      /\ \A w : Over(With(h, w)) = With(e, w)
  BY Overs
<1>2. Client(e) /\ e.rects \in Nat
  BY <1>1 DEF Around
<1>3. \A w : With(h, w).ret = h.ret /\ With(e, w).rects = e.rects
  BY <1>2, Untouched
<1> HIDE DEF e
<1>4. CASE h.ret # "done"
  <2>1. r = h
    BY <1>0, <1>4
  <2>2. \A w : RectDone(With(h, w)) = With(h, w)
    BY <1>0, <1>3, <1>4
  <2> QED BY <1>4, <2>1, <2>2, RetSet
<1>5. CASE h.ret = "done" /\ e.rects = 0
  <2>1. r = Done(e)
    BY <1>0, <1>5 DEF e
  <2>2. \A w : RectDone(With(h, w)) = Done(With(e, w))
    BY <1>0, <1>1, <1>3, <1>5
  <2>3. \A w : RectDone(With(h, w)) = With(r, w)
    BY <2>1, <2>2, Commuting
  <2>4. r.rects = e.rects /\ r.rect = e.rect /\ r.astray = e.astray /\ r.dec = e.dec /\ Around(e, r) /\ r.ret = "done"
    BY <1>2, <2>1, RetSet, Frames
  <2>5. Around(h, r)
    BY <1>1, <2>4, AroundThrough
  <2> QED BY <1>1, <1>2, <1>5, <2>3, <2>4, <2>5
<1>6. CASE h.ret = "done" /\ e.rects # 0
  <2>1. r = Again(e)
    BY <1>0, <1>6 DEF e
  <2>2. \A w : RectDone(With(h, w)) = Again(With(e, w))
    BY <1>0, <1>1, <1>3, <1>6
  <2>3. \A w : RectDone(With(h, w)) = With(r, w)
    BY <2>1, <2>2, Commuting
  <2>4. r.rects = e.rects /\ r.rect = e.rect /\ r.astray = e.astray /\ r.dec = e.dec /\ Around(e, r) /\ r.ret = "again"
    BY <1>2, <2>1, RetSet, Frames
  <2>5. Around(h, r)
    BY <1>1, <2>4, AroundThrough
  <2> QED BY <1>1, <1>2, <1>6, <2>3, <2>4, <2>5
<1> QED BY <1>4, <1>5, <1>6

\* Decoders at rest are what any rectangle may begin with.
LEMMA RestMidway ==
  ASSUME NEW at, NEW code
  PROVE  Midway(AtRest, at, code)
<1>1. AtRest.raw = 0 /\ AtRest.zlib = 0 /\ \A f : Only(f, AtRest, AtRest)
  BY DEF AtRest, Only
<1>2. TightMidway(AtRest, at)
  BY DEF AtRest, TightMidway, Calm
<1> HIDE DEF AtRest
<1> QED BY <1>1, <1>2 DEF Midway

\* The number of tiles of a rectangle is natural.
LEMMA TilesNat ==
  ASSUME NEW at \in Place
  PROVE  TilesIn(at) \in Nat
<1>1. at[3] \in Nat /\ at[4] \in Nat /\ HextileSize \in Nat \ {0}
  BY StreamAssumption DEF Place
<1>2. Across(at[3], HextileSize) \in Nat /\ Across(at[4], HextileSize) \in Nat
  BY <1>1, AcrossNat
<1> DEFINE m == Across(at[3], HextileSize)
           n == Across(at[4], HextileSize)
<1> HIDE DEF m, n
<1>3. m \in Nat /\ n \in Nat
  BY <1>2 DEF m, n
<1>4. m * n \in Nat
  BY <1>3
<1> QED BY <1>4 DEF TilesIn, m, n

\* A turn in a rectangle whose header was read.
LEMMA RectangleReads ==
  ASSUME NEW b, NEW w, Reader(b, w), b.ret = "wait", b.rect # Nothing, Fits(b), b.rects \in Nat \ {0},
         NEW r, r = RectDone(HandleRect(b))
  PROVE  /\ Around(b, r) /\ Settled(r)
         /\ Meets(w, r, RectDone(HandleRect(With(b, w))), UpdateRect(With(r, w)))
         /\ r.ret = "wait" => r.rect # Nothing /\ r.rects = b.rects
<1> DEFINE at == b.rect.at
           code == b.rect.code
           h == HandleRect(b)
           hv == HandleRect(With(b, w))
           hl == HandleRect(With(h, w))
<1>0. Client(b)
  BY DEF Reader
<1>1. at \in Place /\ Counted(b.dec, at, code) /\ (~b.astray => Midway(b.dec, at, code))
  BY DEF Fits
<1>2. CASE code = Codes.last
  <2> DEFINE e == SetRects(b, 1)
  <2>1. h = Done(e) /\ \A x : x.rect.code = Codes.last => HandleRect(x) = Done(SetRects(x, 1))
    BY <1>2, Tellers DEF SetRects
  <2>2. /\ Around(b, e) /\ e.rects = 1 /\ e.rect = b.rect /\ e.dec = b.dec /\ e.astray = b.astray
        /\ SetRects(With(b, w), 1) = With(e, w)
    BY <1>0, RectsSet
  <2>3. With(b, w).rect = b.rect
    BY <1>0, Untouched
  <2>4. hv = Done(With(e, w))
    BY <1>2, <2>1, <2>2, <2>3
  <2> HIDE DEF e
  <2>5. Client(e)
    BY <2>2 DEF Around
  <2>6. Around(e, h) /\ h.rects = 1 /\ h.rect = e.rect /\ h.dec = e.dec /\ h.astray = e.astray /\ h.ret = "done"
    BY <2>1, <2>2, <2>5, RetSet, Frames
  <2>7. hv = With(h, w)
    BY <2>1, <2>4, Commuting
  <2> HIDE DEF h, hv
  <2>8. Client(h) /\ r = RectDone(h)
    BY <2>6 DEF Around, h
  <2>9. /\ Around(h, r) /\ r.astray = h.astray /\ r.ret \in {"done", "again"} /\ r.rects = 0
        /\ r.rect = Nothing /\ r.dec = h.dec /\ (r.ret = "again" => r.rects # 0)
        /\ RectDone(With(h, w)) = With(r, w)
    BY <2>6, <2>8, RectDones
  <2>10. Around(b, r)
    BY <2>2, <2>6, <2>9, AroundThrough
  <2>11. b.dec.tiles = 0
    BY <1>1, <1>2, Apart, Further, SMT DEF Counted
  <2>12. ~b.astray => b.dec = AtRest
    BY <1>1, <1>2, Apart, Further, SMT DEF Midway
  <2>13. Settled(r)
    BY <2>2, <2>6, <2>9, <2>11, <2>12 DEF Settled, Fits
  <2>14. Meets(w, r, RectDone(hv), UpdateRect(With(r, w)))
    BY <2>7, <2>9 DEF Meets
  <2> QED BY <2>9, <2>10, <2>13, <2>14 DEF hv
<1>3. CASE code # Codes.last
  <2>1. Resumes(b, w, h, hv, hl) /\ Stepped(b, h, at, code)
    BY <1>1, <1>3, HandleRectReads
  <2> HIDE DEF h, hv, hl
  <2>2. Frame(b, h) /\ Client(h) /\ h.rects = b.rects /\ h.rect = b.rect
    BY <2>1 DEF Resumes, Frame
  <2>3. /\ Counted(h.dec, at, code) /\ (h.ret = "done" => h.dec.tiles = 0) /\ (~h.astray => ~b.astray)
        /\ ~h.astray => IF h.ret = "done" THEN h.dec = AtRest ELSE h.ret # "fail" => Midway(h.dec, at, code)
    BY <1>1, <2>1, <2>2 DEF Stepped, Frame
  <2>4. r = RectDone(h)
    BY DEF h
  <2>5. /\ Around(h, r) /\ r.astray = h.astray
        /\ h.ret # "done" => r = h
        /\ h.ret = "done" => /\ r.ret \in {"done", "again"} /\ r.rects = h.rects - 1 /\ r.rects \in Nat
                             /\ r.rect = Nothing /\ r.dec = h.dec
                             /\ (r.ret = "again" => r.rects # 0)
        /\ RectDone(With(h, w)) = With(r, w)
    BY <2>2, <2>4, RectDones
  <2>6. Around(b, r)
    BY <2>2, <2>5, FrameAround, AroundThrough
  <2>7. CASE h.ret = "done"
    <3>1. Settled(r)
      BY <2>3, <2>5, <2>7 DEF Settled, Fits
    <3>2. Meets(w, r, RectDone(hv), UpdateRect(With(r, w)))
      BY <2>1, <2>5, <2>7 DEF Meets, Resumes
    <3> QED BY <2>5, <2>6, <2>7, <3>1, <3>2 DEF hv
  <2>8. CASE h.ret # "done"
    <3>1. r = h
      BY <2>5, <2>8
    <3>2. Settled(r)
      BY <1>1, <2>2, <2>3, <2>8, <3>1 DEF Settled, Fits
    <3>3. CASE h.ret = "wait"
      <4>1. With(h, w).rect # Nothing
        BY <2>2, Untouched
      <4>2. UpdateRect(With(h, w)) = RectDone(hl)
        BY <4>1 DEF UpdateRect, hl
      <4>3. Meets(w, r, RectDone(hv), UpdateRect(With(r, w)))
        BY <2>1, <3>1, <3>3, <4>2 DEF Meets, Resumes
      <4> QED BY <2>2, <2>6, <3>1, <3>2, <4>3 DEF hv
    <3>4. CASE h.ret # "wait"
      <4>1. Meets(w, r, RectDone(hv), UpdateRect(With(r, w)))
        BY <2>1, <2>5, <3>1, <3>4 DEF Meets, Resumes
      <4> QED BY <2>6, <3>1, <3>2, <3>4, <4>1 DEF hv
    <3> QED BY <3>3, <3>4
  <2> QED BY <2>7, <2>8
<1> QED BY <1>2, <1>3

\* A header that is there is the same when more bytes follow.
LEMMA HeaderThere ==
  ASSUME NEW c, NEW w, Reader(c, w), Has(c, 12)
  PROVE  Peek(With(c, w), 12) = Peek(c, 12) /\ Peek(c, 12) \in Seq(Byte) /\ Len(Peek(c, 12)) = 12
<1> DEFINE n == 12
<1>1. n \in Nat /\ Has(c, n)
  OBVIOUS
<1> HIDE DEF n
<1>2. Peek(With(c, w), n) = Peek(c, n) /\ Peek(c, n) \in Seq(Byte) /\ Len(Peek(c, n)) = n
  BY <1>1, Queue
<1> QED BY <1>2 DEF n

\* The header of a rectangle, once it is there.
LEMMA HeaderReads ==
  ASSUME NEW c, NEW w, Reader(c, w), c.ret = "wait", c.rect = Nothing, Fits(c), Has(c, 12),
         NEW b, b = RectHeader(c)
  PROVE  /\ Around(c, b) /\ Reader(b, w) /\ b.ret = "wait" /\ b.rect # Nothing /\ b.rects = c.rects /\ Fits(b)
         /\ RectHeader(With(c, w)) = With(b, w)
<1> DEFINE s == Skip(c, 12)
           x == Heading(Peek(c, 12))
<1>0. Client(c) /\ Frame(c, c) /\ 12 \in Nat
  BY Frames DEF Reader
<1>1. \A y : RectHeader(y) = SetRect(Skip(y, 12), Heading(Peek(y, 12)))
  BY SMT DEF RectHeader, SetRect, Heading
<1>2. Peek(With(c, w), 12) = Peek(c, 12) /\ Peek(c, 12) \in Seq(Byte) /\ Len(Peek(c, 12)) = 12
  BY HeaderThere
<1>3. x # Nothing /\ x.at \in Place
  BY <1>2, Headings
<1>4. Frame(c, s) /\ s.dec = c.dec /\ s.ret = "wait" /\ Skip(With(c, w), 12) = With(s, w)
  BY <1>0, Skipping
<1>5. b = SetRect(s, x) /\ RectHeader(With(c, w)) = SetRect(With(s, w), x)
  BY <1>1, <1>2, <1>4
<1> HIDE DEF s, x
<1>6. Client(s) /\ s.rects = c.rects /\ Around(c, s)
  BY <1>4, FrameAround DEF Frame
<1>7. /\ Around(s, b) /\ b.rect = x /\ b.rects = s.rects /\ b.ret = s.ret /\ b.dec = s.dec /\ b.astray = s.astray
      /\ RectHeader(With(c, w)) = With(b, w)
  BY <1>5, <1>6, RectSet
<1>8. Around(c, b)
  BY <1>6, <1>7, AroundThrough
<1>9. Reader(b, w)
  BY <1>8 DEF Reader, Around
<1>10. Counted(b.dec, x.at, x.code)
  <2>1. TilesIn(x.at) \in Nat
    BY <1>3, TilesNat
  <2>2. b.dec.tiles = 0
    BY <1>4, <1>7 DEF Fits
  <2> QED BY <2>1, <2>2, SMT DEF Counted
<1>11. ~b.astray => Midway(b.dec, x.at, x.code)
  <2>1. ASSUME ~b.astray
        PROVE  b.dec = AtRest
    BY <1>4, <1>7, <1>8, <2>1 DEF Fits, Around
  <2> QED BY <2>1, RestMidway
<1>12. Fits(b)
  BY <1>3, <1>4, <1>6, <1>7, <1>10, <1>11 DEF Fits
<1> QED BY <1>3, <1>4, <1>6, <1>7, <1>8, <1>9, <1>12

\* A turn in an update.
LEMMA UpdateRectReads ==
  ASSUME NEW c, NEW w, Reader(c, w), c.ret = "wait", Fits(c), c.rects \in Nat \ {0}
  PROVE  /\ Around(c, UpdateRect(c)) /\ Settled(UpdateRect(c))
         /\ Meets(w, UpdateRect(c), UpdateRect(With(c, w)), UpdateRect(With(UpdateRect(c), w)))
         /\ UpdateRect(c).ret = "wait" => UpdateRect(c).rects = c.rects
<1> DEFINE v == With(c, w)
<1>0. Client(c) /\ v.rect = c.rect /\ 12 \in Nat
  BY Untouched DEF Reader
<1>1. CASE c.rect = Nothing /\ ~Has(c, 12)
  <2>1. UpdateRect(c) = c
    BY <1>0, <1>1, Frames DEF UpdateRect
  <2> QED BY <1>0, <2>1, RetSet DEF Settled, Meets
<1>2. CASE c.rect = Nothing /\ Has(c, 12)
  <2> DEFINE b == RectHeader(c)
             r == RectDone(HandleRect(b))
  <2>1. /\ Around(c, b) /\ Reader(b, w) /\ b.ret = "wait" /\ b.rect # Nothing /\ b.rects = c.rects /\ Fits(b)
        /\ RectHeader(v) = With(b, w)
    BY <1>2, HeaderReads
  <2>2. Has(v, 12)
    BY <1>0, <1>2, Queue
  <2>3. UpdateRect(c) = r /\ UpdateRect(v) = RectDone(HandleRect(With(b, w)))
    BY <1>0, <1>2, <2>1, <2>2 DEF UpdateRect
  <2> HIDE DEF b
  <2>4. /\ Around(b, r) /\ Settled(r) /\ Meets(w, r, RectDone(HandleRect(With(b, w))), UpdateRect(With(r, w)))
        /\ r.ret = "wait" => r.rects = b.rects
    BY <2>1, RectangleReads
  <2> HIDE DEF r
  <2> QED BY <2>1, <2>3, <2>4, AroundThrough
<1>3. CASE c.rect # Nothing
  <2> DEFINE r == RectDone(HandleRect(c))
  <2>1. UpdateRect(c) = r /\ UpdateRect(v) = RectDone(HandleRect(v))
    BY <1>0, <1>3 DEF UpdateRect
  <2>2. /\ Around(c, r) /\ Settled(r) /\ Meets(w, r, RectDone(HandleRect(v)), UpdateRect(With(r, w)))
        /\ r.ret = "wait" => r.rects = c.rects
    BY <1>3, RectangleReads
  <2> HIDE DEF r
  <2> QED BY <2>1, <2>2
<1> QED BY <1>1, <1>2, <1>3

-----------------------------------------------------------------------------
(* Messages *)

SetText(c, x) == [c EXCEPT !.text = x]
SetCont(c) == [c EXCEPT !.cont = TRUE]
SetCaps(c, formats, actions) == [c EXCEPT !.formats = formats, !.actions = actions]
SetStray(c, x) == [c EXCEPT !.astray = @ \/ x]

\* What a message that is not of an update does to the rest of the client.
Spared(c, n) == Around(c, n) /\ n.dec = c.dec /\ n.rect = c.rect /\ n.rects = c.rects

\* Of a message it makes no difference what has arrived of the next: m is past its type.
Handled(m, w, now, then) ==
    IF now.ret = "wait" THEN now = WaitBack(m, 1)
    ELSE /\ Around(m, now) /\ now.dec = m.dec /\ now.rect = m.rect
         /\ now.rects \in Nat /\ (now.ret = "again" => now.rects # 0)
         /\ ~now.astray => then = With(now, w)

\* What one step of a message spares, and the next, both spare.
LEMMA SparedThrough ==
  ASSUME NEW a, NEW b, NEW c, Spared(a, b), Spared(b, c)
  PROVE  Spared(a, c)
  BY AroundThrough DEF Spared

\* What leaves the client and its decoders alone spares them.
LEMMA FrameSpared ==
  ASSUME NEW c, NEW n, Frame(c, n), n.dec = c.dec
  PROVE  Spared(c, n)
  BY FrameAround DEF Frame, Spared

\* The end of a turn.
LEMMA SparedEnds ==
  ASSUME NEW a, NEW b, Spared(a, b)
  PROVE  /\ Spared(a, Done(b)) /\ Spared(a, Fail(b)) /\ Done(b).ret = "done" /\ Fail(b).ret = "fail"
         /\ Done(b).astray = b.astray /\ Fail(b).astray = b.astray
<1>1. Client(b)
  BY DEF Spared, Around
<1>2. /\ Frame(b, Done(b)) /\ Frame(b, Fail(b)) /\ Done(b).dec = b.dec /\ Fail(b).dec = b.dec
      /\ Done(b).ret = "done" /\ Fail(b).ret = "fail" /\ Done(b).astray = b.astray /\ Fail(b).astray = b.astray
  BY <1>1, Frames, Endings, RetSet
<1>3. Spared(b, Done(b)) /\ Spared(b, Fail(b))
  BY <1>2, FrameSpared
<1> QED BY <1>2, <1>3, SparedThrough

\* What a message notes.
LEMMA SaySame ==
  ASSUME NEW a, NEW b, Spared(a, b), NEW what, NEW at, NEW data
  PROVE  /\ Spared(a, Say(b, what, at, data)) /\ Say(b, what, at, data).ret = b.ret
         /\ Say(b, what, at, data).astray = b.astray
         /\ \A w : Say(With(b, w), what, at, data) = With(Say(b, what, at, data), w)
<1>1. Client(b)
  BY DEF Spared, Around
<1>2. /\ Spared(b, Say(b, what, at, data)) /\ Say(b, what, at, data).ret = b.ret
      /\ Say(b, what, at, data).astray = b.astray
  BY <1>1 DEF Say, Spared, Around, Client, Shape, Fields
<1>3. \A w : Say(With(b, w), what, at, data) = With(Say(b, what, at, data), w)
  BY DEF Say, With
<1> QED BY <1>2, <1>3, SparedThrough

\* A text that is offered or taken back spares the decoders, whatever the queue.
LEMMA TextSame ==
  ASSUME NEW a, NEW b, Spared(a, b), NEW x
  PROVE  /\ Spared(a, SetText(b, x)) /\ SetText(b, x).ret = b.ret /\ SetText(b, x).astray = b.astray
         /\ \A w : SetText(With(b, w), x) = With(SetText(b, x), w)
<1>1. Client(b)
  BY DEF Spared, Around
<1>2. Spared(b, SetText(b, x)) /\ SetText(b, x).ret = b.ret /\ SetText(b, x).astray = b.astray
  BY <1>1 DEF SetText, Spared, Around, Client, Shape, Fields
<1>3. \A w : SetText(With(b, w), x) = With(SetText(b, x), w)
  BY DEF SetText, With
<1> QED BY <1>2, <1>3, SparedThrough

\* So do continuous updates.
LEMMA ContSame ==
  ASSUME NEW a, NEW b, Spared(a, b)
  PROVE  /\ Spared(a, SetCont(b)) /\ SetCont(b).ret = b.ret /\ SetCont(b).astray = b.astray
         /\ \A w : SetCont(With(b, w)) = With(SetCont(b), w)
<1>1. Client(b)
  BY DEF Spared, Around
<1>2. Spared(b, SetCont(b)) /\ SetCont(b).ret = b.ret /\ SetCont(b).astray = b.astray
  BY <1>1 DEF SetCont, Spared, Around, Client, Shape, Fields
<1>3. \A w : SetCont(With(b, w)) = With(SetCont(b), w)
  BY DEF SetCont, With
<1> QED BY <1>2, <1>3, SparedThrough

\* So does what the server can take.
LEMMA CapsSame ==
  ASSUME NEW a, NEW b, Spared(a, b), NEW x, NEW y
  PROVE  /\ Spared(a, SetCaps(b, x, y)) /\ SetCaps(b, x, y).ret = b.ret /\ SetCaps(b, x, y).astray = b.astray
         /\ \A w : SetCaps(With(b, w), x, y) = With(SetCaps(b, x, y), w)
<1>1. Client(b)
  BY DEF Spared, Around
<1>2. Spared(b, SetCaps(b, x, y)) /\ SetCaps(b, x, y).ret = b.ret /\ SetCaps(b, x, y).astray = b.astray
  BY <1>1 DEF SetCaps, Spared, Around, Client, Shape, Fields
<1>3. \A w : SetCaps(With(b, w), x, y) = With(SetCaps(b, x, y), w)
  BY DEF SetCaps, With
<1> QED BY <1>2, <1>3, SparedThrough

\* So does a note that the client strays.
LEMMA StraySame ==
  ASSUME NEW a, NEW b, Spared(a, b), NEW x
  PROVE  /\ Spared(a, SetStray(b, x)) /\ SetStray(b, x).ret = b.ret /\ SetStray(b, x).astray = (b.astray \/ x)
         /\ SetStray(b, x).rQ = b.rQ /\ SetStray(b, x).rQi = b.rQi
         /\ \A w : SetStray(With(b, w), x) = With(SetStray(b, x), w)
<1>1. Client(b)
  BY DEF Spared, Around
<1>2. /\ SetStray(b, x).ret = b.ret /\ SetStray(b, x).astray = (b.astray \/ x)
      /\ SetStray(b, x).rQ = b.rQ /\ SetStray(b, x).rQi = b.rQi
  BY <1>1 DEF SetStray, Client, Shape, Fields
<1>3. Spared(b, SetStray(b, x))
  BY <1>1 DEF SetStray, Spared, Around, Client, Shape, Fields
<1>4. ASSUME NEW w
      PROVE  SetStray(With(b, w), x) = With(SetStray(b, x), w)
  <2>1. With(b, w).astray = b.astray
    BY <1>1, Untouched
  <2>2. [With(b, w) EXCEPT !.astray = b.astray \/ x] = With([b EXCEPT !.astray = b.astray \/ x], w)
    BY DEF With
  <2> QED BY <2>1, <2>2 DEF SetStray
<1> QED BY <1>2, <1>3, <1>4, SparedThrough

\* What is read of it; what strays may read past the end.
LEMMA SkipSame ==
  ASSUME NEW a, NEW b, Spared(a, b), NEW n \in Int, b.rQi + n \in Nat, b.astray \/ Has(b, n)
  PROVE  /\ Spared(a, Skip(b, n)) /\ Skip(b, n).ret = b.ret /\ Skip(b, n).astray = b.astray
         /\ Skip(b, n).rQ = b.rQ /\ Skip(b, n).rQi = b.rQi + n
<1>1. Client(b)
  BY DEF Spared, Around
<1>2. /\ Skip(b, n).ret = b.ret /\ Skip(b, n).dec = b.dec /\ Skip(b, n).rQ = b.rQ /\ Skip(b, n).rQi = b.rQi + n
  BY <1>1, Skipped
<1>3. /\ Skip(b, n).astray = b.astray /\ Skip(b, n).rect = b.rect /\ Skip(b, n).rects = b.rects
      /\ Skip(b, n).running = b.running /\ Skip(b, n).failed = b.failed /\ Skip(b, n).pasted = b.pasted
      /\ Skip(b, n).viewOnly = b.viewOnly /\ Shape(Skip(b, n))
  BY <1>1 DEF Skip, Client, Shape, Fields
<1>4. Client(Skip(b, n))
  BY <1>1, <1>2, <1>3 DEF Client
<1>5. ~b.astray => b.rQi + n <= Len(b.rQ)
  <2>1. Len(b.rQ) \in Nat /\ b.rQi \in Nat
    BY <1>1 DEF Client
  <2> QED BY <2>1 DEF Has
<1>6. Around(b, Skip(b, n))
  BY <1>1, <1>2, <1>3, <1>4, <1>5 DEF Around
<1> QED BY <1>2, <1>3, <1>6, SparedThrough DEF Spared

\* A message that was read.
LEMMA WasHandled ==
  ASSUME NEW m, NEW w, NEW now, NEW then, Spared(m, now), m.rects \in Nat, now.ret \in {"done", "fail"},
         ~now.astray => then = With(now, w)
  PROVE  Handled(m, w, now, then)
  BY DEF Handled, Spared

\* One of which a part is missing.
LEMMA PutBack ==
  ASSUME NEW m, Client(m), NEW n \in Nat, NEW k, k = n + 1
  PROVE  WaitBack(Done(Skip(m, n)), k) = WaitBack(m, 1)
<1> DEFINE s == Skip(m, n)
           d == Done(s)
           r == WaitBack(d, k)
           q == WaitBack(m, 1)
<1>1. m = [f \in Fields |-> m[f]] /\ m.rQi \in Nat
  BY DEF Client, Shape
<1>2. s = [f \in Fields |-> IF f = "rQi" THEN m.rQi + n ELSE m[f]]
  BY <1>1 DEF Skip, Fields
<1>6. q = [f \in Fields |-> IF f = "rQi" THEN m.rQi - 1 ELSE IF f = "ret" THEN "wait" ELSE m[f]]
  BY <1>1 DEF WaitBack, Fields
<1> HIDE DEF s, q
<1>3. d = [f \in Fields |-> IF f = "ret" THEN "done" ELSE s[f]]
  BY <1>2 DEF Done, Fields
<1> HIDE DEF d
<1>4. r = [f \in Fields |-> IF f = "rQi" THEN d.rQi - k ELSE IF f = "ret" THEN "wait" ELSE d[f]]
  BY <1>3 DEF WaitBack, Fields
<1> HIDE DEF r
<1>5. d.rQi - k = m.rQi - 1
  <2>1. d.rQi = m.rQi + n
    BY <1>2, <1>3 DEF Fields
  <2> QED BY <1>1, <2>1
<1>7. \A f \in Fields : f \notin {"rQi", "ret"} => d[f] = m[f]
  BY <1>2, <1>3
<1>8. r = q
  BY <1>4, <1>5, <1>6, <1>7
<1> QED BY <1>8 DEF r, q, d, s

\* So does what is read of the message when it is there.
LEMMA HasOne ==
  ASSUME NEW c, NEW w, Reader(c, w), NEW k \in Nat, Has(c, k)
  PROVE  /\ Has(With(c, w), k) /\ Peek(With(c, w), k) = Peek(c, k)
         /\ Peek(c, k) \in Seq(Byte) /\ Len(Peek(c, k)) = k
         /\ Spared(c, Skip(c, k)) /\ Skip(c, k).ret = c.ret /\ Skip(With(c, w), k) = With(Skip(c, k), w)
<1>1. Client(c) /\ Frame(c, c)
  BY Frames DEF Reader
<1>2. Frame(c, Skip(c, k)) /\ Skip(c, k).dec = c.dec /\ Skip(c, k).ret = c.ret /\ Skip(With(c, w), k) = With(Skip(c, k), w)
  BY <1>1, Skipping
<1>3. Has(With(c, w), k) /\ Peek(With(c, w), k) = Peek(c, k) /\ Peek(c, k) \in Seq(Byte) /\ Len(Peek(c, k)) = k
  BY Queue
<1> QED BY <1>2, <1>3, FrameSpared

\* An entry of a sequence of bytes is a byte.
LEMMA Entry ==
  ASSUME NEW b \in Seq(Byte), NEW i \in Nat \ {0}, i <= Len(b)
  PROVE  b[i] \in 0..255
  BY ElementOfSeq DEF Byte

\* A signed number of four bytes is an integer.
LEMMA SignedInt ==
  ASSUME NEW b \in Seq(Byte), Len(b) >= 4
  PROVE  Signed(b) \in Int
<1> DEFINE b1 == b[1]
           b2 == b[2]
           b3 == b[3]
           b4 == b[4]
           top == IF b1 < 128 THEN b1 ELSE b1 - 256
<1>1. Len(b) \in Nat /\ 1 \in Nat \ {0} /\ 2 \in Nat \ {0} /\ 3 \in Nat \ {0} /\ 4 \in Nat \ {0}
  OBVIOUS
<1>2. b1 \in 0..255 /\ b2 \in 0..255 /\ b3 \in 0..255 /\ b4 \in 0..255
  BY <1>1, Entry
<1>3. Signed(b) = 16777216 * top + 65536 * b2 + 256 * b3 + b4
  BY SMT DEF Signed
<1> HIDE DEF b1, b2, b3, b4
<1>4. top \in Int
  BY <1>2
<1> HIDE DEF top
<1>5. 16777216 * top + 65536 * b2 + 256 * b3 + b4 \in Int
  BY <1>2, <1>4, SMT
<1> QED BY <1>3, <1>5, SMT

\* The header of an update is read whole, or the message is put back.
LEMMA FbuHeaderReads ==
  ASSUME NEW m, NEW w, Reader(m, w), m.ret = "wait", m.rects \in Nat
  PROVE  Handled(m, w, FbuHeader(m), FbuHeader(With(m, w)))
<1> DEFINE v == With(m, w)
           s == Skip(m, 3)
           n == Shift16(SubSeq(Peek(m, 3), 2, 3))
           now == FbuHeader(m)
<1>0. Client(m) /\ 3 \in Nat
  BY DEF Reader
<1>1. CASE ~Has(m, 3)
  <2>1. now = WaitBack(m, 1)
    BY <1>1 DEF FbuHeader
  <2>2. WaitBack(m, 1).ret = "wait"
    BY <1>0 DEF WaitBack, Client, Shape, Fields
  <2> QED BY <2>1, <2>2 DEF Handled
<1>2. CASE Has(m, 3)
  <2>1. /\ Has(v, 3) /\ Peek(v, 3) = Peek(m, 3) /\ Peek(m, 3) \in Seq(Byte) /\ Len(Peek(m, 3)) = 3
        /\ Spared(m, s) /\ s.ret = m.ret /\ Skip(v, 3) = With(s, w)
    <3> DEFINE z == 3
    <3>1. z \in Nat /\ Has(m, z)
      BY <1>2
    <3> HIDE DEF z
    <3>2. /\ Has(v, z) /\ Peek(v, z) = Peek(m, z) /\ Peek(m, z) \in Seq(Byte) /\ Len(Peek(m, z)) = z
          /\ Spared(m, Skip(m, z)) /\ Skip(m, z).ret = m.ret /\ Skip(v, z) = With(Skip(m, z), w)
      BY <3>1, HasOne
    <3> QED BY <3>2 DEF z
  <2>2. n \in Nat
    <3> DEFINE b == Peek(m, 3)
               k == 1
    <3>0. b \in Seq(Byte) /\ Len(b) = 3
      BY <2>1
    <3> HIDE DEF b
    <3>1. k \in Nat /\ 2 \in Nat /\ k + 2 <= Len(b) /\ k + 1 = 2 /\ k + 2 = 3 /\ b \in Seq(Byte)
      BY <3>0
    <3> HIDE DEF k
    <3>2. SubSeq(b, k + 1, k + 2) \in Seq(Byte) /\ Len(SubSeq(b, k + 1, k + 2)) = 2
      BY <3>1, Slices
    <3>3. Shift16(SubSeq(b, 2, 3)) \in Nat
      BY <3>1, <3>2, Pair
    <3> QED BY <3>3 DEF b
  <2>3. now = IF n = 0 THEN Done(s) ELSE Again(SetRects(s, n))
    BY <1>2 DEF FbuHeader, SetRects
  <2>4. FbuHeader(v) = IF n = 0 THEN Done(With(s, w)) ELSE Again(SetRects(With(s, w), n))
    BY <2>1 DEF FbuHeader, SetRects
  <2> HIDE DEF now, n, s, v
  <2>5. Client(s) /\ s.dec = m.dec /\ s.rect = m.rect /\ Around(m, s) /\ s.rects = m.rects
    BY <2>1 DEF Spared, Around
  <2>6. CASE n = 0
    <3>1. Spared(m, now) /\ now.ret = "done" /\ FbuHeader(v) = With(now, w)
      BY <2>1, <2>3, <2>4, <2>6, SparedEnds, Commuting
    <3> QED BY <3>1, WasHandled DEF now, v
  <2>7. CASE n # 0
    <3> DEFINE e == SetRects(s, n)
    <3>1. /\ Around(s, e) /\ e.rects = n /\ e.rect = s.rect /\ e.dec = s.dec
          /\ SetRects(With(s, w), n) = With(e, w)
      BY <2>5, RectsSet
    <3>2. now = Again(e) /\ FbuHeader(v) = Again(With(e, w))
      BY <2>3, <2>4, <2>7, <3>1
    <3> HIDE DEF e
    <3>3. Client(e)
      BY <3>1 DEF Around
    <3>4. now.rects = n /\ now.rect = e.rect /\ now.dec = e.dec /\ Around(e, now) /\ now.ret = "again"
      BY <3>1, <3>2, <3>3, RetSet, Frames
    <3>5. FbuHeader(v) = With(now, w)
      BY <3>2, Commuting
    <3>6. Around(m, now)
      BY <2>5, <3>1, <3>4, AroundThrough
    <3> QED BY <2>2, <2>5, <2>7, <3>1, <3>4, <3>5, <3>6 DEF Handled, now, v
  <2> QED BY <2>6, <2>7
<1> QED BY <1>1, <1>2

\* So is a message of XVP.
LEMMA XvpReads ==
  ASSUME NEW m, NEW w, Reader(m, w), m.ret = "wait", m.rects \in Nat
  PROVE  Handled(m, w, Xvp(m), Xvp(With(m, w)))
<1> DEFINE v == With(m, w)
           s == Skip(m, 3)
           b == Peek(m, 3)
           now == Xvp(m)
<1>0. Client(m) /\ 3 \in Nat
  BY DEF Reader
<1>1. CASE ~Has(m, 3)
  <2>1. now = WaitBack(m, 1)
    BY <1>1 DEF Xvp
  <2>2. WaitBack(m, 1).ret = "wait"
    BY <1>0 DEF WaitBack, Client, Shape, Fields
  <2> QED BY <2>1, <2>2 DEF Handled
<1>2. CASE Has(m, 3)
  <2>1. /\ Has(v, 3) /\ Peek(v, 3) = b /\ Spared(m, s) /\ s.ret = m.ret /\ Skip(v, 3) = With(s, w)
    BY <1>0, <1>2, HasOne
  <2>2. now = IF b[3] = 1 THEN Done(Say(s, "xvp", Nothing, <<b[2]>>)) ELSE IF b[3] = 0 THEN Done(s) ELSE Fail(s)
    BY <1>2 DEF Xvp
  <2>3. Xvp(v) = IF b[3] = 1 THEN Done(Say(With(s, w), "xvp", Nothing, <<b[2]>>))
                 ELSE IF b[3] = 0 THEN Done(With(s, w)) ELSE Fail(With(s, w))
    BY <2>1 DEF Xvp
  <2> HIDE DEF now, b, s, v
  <2>4. CASE b[3] = 1
    <3> DEFINE e == Say(s, "xvp", Nothing, <<b[2]>>)
    <3>1. Spared(m, e) /\ Say(With(s, w), "xvp", Nothing, <<b[2]>>) = With(e, w)
      BY <2>1, SaySame
    <3>2. now = Done(e) /\ Xvp(v) = Done(With(e, w))
      BY <2>2, <2>3, <2>4, <3>1
    <3> HIDE DEF e
    <3>3. Spared(m, now) /\ now.ret = "done" /\ Xvp(v) = With(now, w)
      BY <3>1, <3>2, SparedEnds, Commuting
    <3> QED BY <3>3, WasHandled DEF now, v
  <2>5. CASE b[3] # 1 /\ b[3] = 0
    <3>1. Spared(m, now) /\ now.ret = "done" /\ Xvp(v) = With(now, w)
      BY <2>1, <2>2, <2>3, <2>5, SparedEnds, Commuting
    <3> QED BY <3>1, WasHandled DEF now, v
  <2>6. CASE b[3] # 1 /\ b[3] # 0
    <3>1. Spared(m, now) /\ now.ret = "fail" /\ Xvp(v) = With(now, w)
      BY <2>1, <2>2, <2>3, <2>6, SparedEnds, Commuting
    <3> QED BY <3>1, WasHandled DEF now, v
  <2> QED BY <2>4, <2>5, <2>6
<1> QED BY <1>1, <1>2

\* So is a fence, with its payload.
LEMMA FenceReads ==
  ASSUME NEW m, NEW w, Reader(m, w), m.ret = "wait", m.rects \in Nat
  PROVE  Handled(m, w, Fence(m), Fence(With(m, w)))
<1> DEFINE v == With(m, w)
           s == Skip(m, 8)
           d == Done(s)
           b == Peek(m, 8)
           k == b[8]
           n == Least(k, 64)
           now == Fence(m)
<1>0. Client(m) /\ 8 \in Nat /\ 9 = 8 + 1
  BY DEF Reader
<1>9. WaitBack(m, 1).ret = "wait"
  BY <1>0 DEF WaitBack, Client, Shape, Fields
<1>1. CASE ~Has(m, 8)
  <2>1. now = WaitBack(m, 1)
    BY <1>1 DEF Fence
  <2> QED BY <1>9, <2>1 DEF Handled
<1>2. CASE Has(m, 8)
  <2>1. /\ Has(v, 8) /\ Peek(v, 8) = b /\ b \in Seq(Byte) /\ Len(b) = 8
        /\ Spared(m, s) /\ s.ret = m.ret /\ Skip(v, 8) = With(s, w)
    <3> DEFINE z == 8
    <3>1. z \in Nat /\ Has(m, z)
      BY <1>2
    <3> HIDE DEF z
    <3>2. /\ Has(v, z) /\ Peek(v, z) = Peek(m, z) /\ Peek(m, z) \in Seq(Byte) /\ Len(Peek(m, z)) = z
          /\ Spared(m, Skip(m, z)) /\ Skip(m, z).ret = m.ret /\ Skip(v, z) = With(Skip(m, z), w)
      BY <3>1, HasOne
    <3> QED BY <3>2 DEF z
  <2>2. k \in 0..255
    <3> HIDE DEF b
    <3>1. 8 \in Nat \ {0} /\ 8 <= Len(b)
      BY <2>1
    <3> QED BY <2>1, <3>1, Entry
  <2>3. k \in Nat /\ n \in Nat /\ n <= k
    <3> HIDE DEF k
    <3> QED BY <2>2 DEF Least
  <2>4. Spared(m, d) /\ d.ret = "done" /\ Done(Skip(v, 8)) = With(d, w)
    <3>1. Done(With(s, w)) = With(d, w)
      BY Commuting
    <3> HIDE DEF s, v
    <3>2. Spared(m, d) /\ d.ret = "done"
      BY <2>1, SparedEnds
    <3> QED BY <2>1, <3>1, <3>2
  <2> DEFINE fence(body) == Say(Skip(body, n), "fence", Nothing, <<b[7] % 4>> \o Peek(body, n))
  <2>5. now = IF ~Has(d, k) THEN WaitBack(d, 9) ELSE IF b[4] < 128 THEN Fail(Skip(d, n)) ELSE fence(d)
    BY <1>2 DEF Fence
  <2>6. Fence(v) = IF ~Has(With(d, w), k) THEN WaitBack(With(d, w), 9)
                   ELSE IF b[4] < 128 THEN Fail(Skip(With(d, w), n)) ELSE fence(With(d, w))
    BY <2>1, <2>4 DEF Fence
  <2>7. WaitBack(d, 9) = WaitBack(m, 1)
    BY <1>0, PutBack
  <2> HIDE DEF now, n, k, d, v, s
  <2>8. CASE ~Has(d, k)
    <3>1. now = WaitBack(m, 1)
      BY <2>5, <2>7, <2>8
    <3> QED BY <1>9, <3>1 DEF Handled, now
  <2>9. CASE Has(d, k)
    <3>1. Reader(d, w)
      BY <2>4 DEF Spared, Around, Reader
    <3>2. Has(d, n) /\ Has(With(d, w), k)
      BY <2>3, <2>9, <3>1, Fewer, Queue DEF Reader
    <3> DEFINE e == Skip(d, n)
    <3>3. Peek(With(d, w), n) = Peek(d, n) /\ Spared(d, e) /\ e.ret = d.ret /\ Skip(With(d, w), n) = With(e, w)
      BY <2>3, <3>1, <3>2, HasOne
    <3>4. Spared(m, e)
      BY <2>4, <3>3, SparedThrough
    <3> HIDE DEF e
    <3>5. CASE b[4] < 128
      <4>1. now = Fail(e) /\ Fence(v) = Fail(With(e, w))
        BY <2>5, <2>6, <2>9, <3>2, <3>3, <3>5 DEF e
      <4>2. Spared(m, now) /\ now.ret = "fail" /\ Fence(v) = With(now, w)
        BY <3>4, <4>1, SparedEnds, Commuting
      <4> QED BY <4>2, WasHandled DEF now, v
    <3>6. CASE ~(b[4] < 128)
      <4> DEFINE data == <<b[7] % 4>> \o Peek(d, n)
      <4>1. now = Say(e, "fence", Nothing, data)
        BY <2>5, <2>9, <3>6 DEF e
      <4>2. Fence(v) = Say(With(e, w), "fence", Nothing, data)
        BY <2>6, <3>2, <3>3, <3>6
      <4> HIDE DEF data
      <4>3. Spared(m, now) /\ now.ret = "done" /\ Fence(v) = With(now, w)
        BY <2>4, <3>3, <3>4, <4>1, <4>2, SaySame
      <4> QED BY <4>3, WasHandled DEF now, v
    <3> QED BY <3>5, <3>6
  <2> QED BY <2>8, <2>9
<1> QED BY <1>1, <1>2

\* There are finitely many formats.
LEMMA FormatsNat ==
  ASSUME NEW flags
  PROVE  Cardinality(Formats(flags)) \in Nat
<1> DEFINE S == Formats(flags)
<1>1. IsFiniteSet(0..15)
  <2> DEFINE a == 0
             b == 15
  <2>1. a \in Int /\ b \in Int
    OBVIOUS
  <2> HIDE DEF a, b
  <2>2. IsFiniteSet(a..b)
    BY <2>1, FS_Interval
  <2> QED BY <2>2 DEF a, b
<1>2. S \subseteq 0..15
  BY DEF Formats
<1> HIDE DEF S
<1>3. IsFiniteSet(S)
  BY <1>1, <1>2, FS_Subset
<1> QED BY <1>3, FS_CardinalityType DEF S

\* What each of the texts makes of a client that is at its body.
LEMMA CapsReads ==
  ASSUME NEW c, Client(c), c.ret = "done", NEW flags, c.astray \/ Has(c, 4 * Cardinality(Formats(flags))), NEW w
  PROVE  /\ Spared(c, Caps(c, flags)) /\ Caps(c, flags).ret = "done"
         /\ Caps(With(c, w), flags) = With(Caps(c, flags), w)
<1> DEFINE formats == Formats(flags)
           n == 4 * Cardinality(formats)
           actions == {i \in 0..7 : Bit(flags[1], i)}
           s == Skip(c, n)
           e == SetCaps(s, formats, actions)
<1>1. n \in Nat /\ n \in Int /\ c.rQi + n \in Nat
  <2> DEFINE k == Cardinality(Formats(flags))
  <2>1. k \in Nat /\ c.rQi \in Nat
    BY FormatsNat DEF Client
  <2> HIDE DEF k
  <2> QED BY <2>1 DEF k
<1>2. \A x : Caps(x, flags) = Say(SetCaps(Skip(x, n), formats, actions), "caps", Nothing, Nothing)
  BY DEF Caps, SetCaps
<1>3. Spared(c, c)
  BY RetSet DEF Spared
<1> HIDE DEF n, formats, actions
<1>4. Spared(c, s) /\ s.ret = "done"
  BY <1>1, <1>3, SkipSame DEF n, formats
<1>5. Skip(With(c, w), n) = With(s, w)
  BY SkipWith
<1> HIDE DEF s
<1>6. Spared(c, e) /\ e.ret = "done" /\ SetCaps(With(s, w), formats, actions) = With(e, w)
  BY <1>4, CapsSame
<1> HIDE DEF e
<1>7. Caps(c, flags) = Say(e, "caps", Nothing, Nothing) /\ Caps(With(c, w), flags) = Say(With(e, w), "caps", Nothing, Nothing)
  BY <1>2, <1>5, <1>6 DEF e, s
<1> QED BY <1>6, <1>7, SaySame

\* A text that is provided is read alike when more bytes follow.
LEMMA ProvidedReads ==
  ASSUME NEW c, Client(c), c.ret = "done", NEW length \in Nat, c.rQi + (length - 4) \in Nat, NEW w,
         ~c.astray => Reader(c, w) /\ length - 4 \in Nat /\ Has(c, length - 4)
  PROVE  /\ Spared(c, Provided(c, length)) /\ Provided(c, length).ret \in {"done", "fail"}
         /\ ~Provided(c, length).astray => Provided(With(c, w), length) = With(Provided(c, length), w)
<1> DEFINE n == length - 4
           b == Peek(c, n)
           text(x) == Unbroken(Unended(SubSeq(Tail(x), 5, 4 + Shift32(Tail(x)))))
           s == Skip(c, n)
           e == SetText(s, Nothing)
           now == Provided(c, length)
<1>0. n \in Int /\ c.rQi + n \in Nat /\ (c.astray \/ Has(c, n))
  OBVIOUS
<1>1. \A x : Provided(x, length) = IF Peek(x, n)[1] # 0 THEN Fail(x)
                                   ELSE Say(SetText(Skip(x, n), Nothing), "clipboard", Nothing, text(Peek(x, n)))
  BY SMT DEF Provided, SetText
<1>2. Spared(c, c)
  BY RetSet DEF Spared
<1>3. ~c.astray => Peek(With(c, w), n) = b
  BY Queue
<1> HIDE DEF n, text
<1>4. Spared(c, s) /\ s.ret = "done" /\ s.astray = c.astray
  BY <1>0, <1>2, SkipSame
<1>5. Skip(With(c, w), n) = With(s, w)
  BY SkipWith
<1> HIDE DEF s
<1>6. Spared(c, e) /\ e.ret = "done" /\ e.astray = c.astray /\ SetText(With(s, w), Nothing) = With(e, w)
  BY <1>4, TextSame
<1> HIDE DEF e, b, now
<1>7. CASE b[1] # 0
  <2>1. now = Fail(c)
    BY <1>1, <1>7 DEF b, now
  <2>2. ~c.astray => Provided(With(c, w), length) = Fail(With(c, w))
    BY <1>1, <1>3, <1>7
  <2>3. Spared(c, now) /\ now.ret = "fail" /\ now.astray = c.astray /\ Fail(With(c, w)) = With(now, w)
    BY <1>2, <2>1, SparedEnds, Commuting
  <2> QED BY <2>2, <2>3 DEF now
<1>8. CASE ~(b[1] # 0)
  <2> DEFINE data == text(b)
  <2>1. now = Say(e, "clipboard", Nothing, data)
    BY <1>1, <1>8 DEF b, now, e, s
  <2>2. ~c.astray => Provided(With(c, w), length) = Say(With(e, w), "clipboard", Nothing, data)
    BY <1>1, <1>3, <1>5, <1>6, <1>8
  <2> HIDE DEF data
  <2>3. /\ Spared(c, now) /\ now.ret = "done" /\ now.astray = e.astray
        /\ Say(With(e, w), "clipboard", Nothing, data) = With(now, w)
    BY <1>6, <2>1, SaySame
  <2> QED BY <1>6, <2>2, <2>3 DEF now
<1> QED BY <1>7, <1>8

\* An answer to an extended message.
LEMMA AnswerReads ==
  ASSUME NEW c, Client(c), c.ret = "done", NEW w, NEW what, NEW data, NEW p,
         NEW now, now = IF p THEN Say(c, what, Nothing, data) ELSE c,
         NEW then, then = IF p THEN Say(With(c, w), what, Nothing, data) ELSE With(c, w)
  PROVE  Spared(c, now) /\ now.ret = "done" /\ then = With(now, w)
<1>1. Spared(c, c)
  BY RetSet DEF Spared
<1>2. /\ Spared(c, Say(c, what, Nothing, data)) /\ Say(c, what, Nothing, data).ret = "done"
      /\ Say(With(c, w), what, Nothing, data) = With(Say(c, what, Nothing, data), w)
  BY <1>1, SaySame
<1> QED BY <1>1, <1>2

\* An extended message that is long enough is handled alike when more bytes follow.
LEMMA ExtendedReads ==
  ASSUME NEW c, Client(c), c.ret = "done", NEW flags, NEW length \in Nat, NEW w,
         ~c.astray => Reader(c, w) /\ Has(c, length) /\ ~Short(length, flags)
  PROVE  LET now == ExtendedCutText(c, flags, length)
         IN  /\ Spared(c, now) /\ now.ret \in {"done", "fail"}
             /\ ~now.astray => ExtendedCutText(With(c, w), flags, length) = With(now, w)
<1> DEFINE now == ExtendedCutText(c, flags, length)
           v == With(c, w)
           then == ExtendedCutText(v, flags, length)
           s == Skip(c, 4)
           d == Done(s)
           is(a) == flags[1] = Actions[a]
           k == Cardinality(Formats(flags))
           able(i) == i \in c.actions
           Good == Spared(c, now) /\ now.ret \in {"done", "fail"} /\ (~now.astray => then = With(now, w))
<1> SUFFICES Good
  OBVIOUS
<1>0. Spared(c, c) /\ c.rQi \in Nat /\ 4 \in Int /\ c.rQi + 4 \in Nat /\ Len(c.rQ) \in Nat
  BY RetSet DEF Spared, Client
<1>1. k \in Nat
  BY FormatsNat
<1>2. ~c.astray => length >= 4 /\ (Bit(flags[1], 0) => length >= 4 + 4 * k)
  <2>1. ~Short(length, flags) => ~(length < 4) /\ ~(Bit(flags[1], 0) /\ length < 4 + 4 * k)
    BY DEF Short
  <2> HIDE DEF k
  <2> QED BY <1>1, <2>1
<1>3. c.astray \/ Has(c, 4)
  BY <1>0, <1>2 DEF Has
<1>4. Spared(c, s) /\ s.ret = "done" /\ s.astray = c.astray /\ s.rQ = c.rQ /\ s.rQi = c.rQi + 4
  BY <1>0, <1>3, SkipSame
<1>5. /\ Spared(c, d) /\ d.ret = "done" /\ d.astray = c.astray /\ d.rQ = c.rQ /\ d.rQi = c.rQi + 4
      /\ d.viewOnly = c.viewOnly /\ Client(d)
  <2>1. Client(s)
    BY <1>4 DEF Spared, Around
  <2> HIDE DEF s
  <2>2. Spared(c, d) /\ d.ret = "done" /\ d.astray = c.astray
    BY <1>4, SparedEnds
  <2>3. d.rQ = s.rQ /\ d.rQi = s.rQi
    BY <2>1 DEF Done, Client, Shape, Fields
  <2> HIDE DEF d
  <2> QED BY <1>4, <2>2, <2>3 DEF Spared, Around
<1>6. Done(Skip(v, 4)) = With(d, w)
  BY Commuting
<1>7. v.viewOnly = c.viewOnly /\ v.text = c.text /\ v.actions = c.actions
  BY Untouched
<1>8. ~c.astray => Reader(d, w)
  BY <1>5 DEF Reader
<1>9. \A x : ExtendedCutText(x, flags, length) =
         IF Bit(flags[1], 0) THEN Caps(Done(Skip(x, 4)), flags)
         ELSE IF ActionOf(flags) = {} THEN Fail(Done(Skip(x, 4)))
         ELSE IF x.viewOnly THEN Done(Skip(x, 4))
         ELSE IF is("request")
         THEN IF x.text # Nothing /\ 4 \in x.actions /\ HasText(flags)
              THEN Say(Done(Skip(x, 4)), "provide", Nothing, Append(Breaks(x.text), 0)) ELSE Done(Skip(x, 4))
         ELSE IF is("peek")
         THEN IF 3 \in x.actions THEN Say(Done(Skip(x, 4)), "notify", Nothing, IF x.text = Nothing THEN <<0>> ELSE <<1>>)
              ELSE Done(Skip(x, 4))
         ELSE IF is("notify")
         THEN IF 1 \in x.actions /\ HasText(flags) THEN Say(Done(Skip(x, 4)), "request", Nothing, Nothing)
              ELSE Done(Skip(x, 4))
         ELSE IF HasText(flags) THEN Provided(Done(Skip(x, 4)), length) ELSE Done(Skip(x, 4))
  BY Zenon DEF ExtendedCutText
<1> HIDE DEF is, k
<1>11. ASSUME Spared(d, now), now.ret \in {"done", "fail"}, ~now.astray => then = With(now, w)
       PROVE  Good
  BY <1>5, <1>11, SparedThrough
<1> DEFINE dv == With(d, w)
<1>13. Done(Skip(v, 4)) = dv
  BY <1>6
<1> HIDE DEF d, s, v, dv
<1> DEFINE rest(x, y) ==
         IF x.viewOnly THEN y
         ELSE IF is("request")
         THEN IF x.text # Nothing /\ 4 \in x.actions /\ HasText(flags)
              THEN Say(y, "provide", Nothing, Append(Breaks(x.text), 0)) ELSE y
         ELSE IF is("peek")
         THEN IF 3 \in x.actions THEN Say(y, "notify", Nothing, IF x.text = Nothing THEN <<0>> ELSE <<1>>) ELSE y
         ELSE IF is("notify")
         THEN IF 1 \in x.actions /\ HasText(flags) THEN Say(y, "request", Nothing, Nothing) ELSE y
         ELSE IF HasText(flags) THEN Provided(y, length) ELSE y
<1>14. now = IF Bit(flags[1], 0) THEN Caps(d, flags) ELSE IF ActionOf(flags) = {} THEN Fail(d) ELSE rest(c, d)
  BY <1>9, Zenon DEF d, s
<1>15. then = IF Bit(flags[1], 0) THEN Caps(dv, flags) ELSE IF ActionOf(flags) = {} THEN Fail(dv) ELSE rest(c, dv)
  <2>1. then = IF Bit(flags[1], 0) THEN Caps(dv, flags) ELSE IF ActionOf(flags) = {} THEN Fail(dv) ELSE rest(v, dv)
    BY <1>9, <1>13, Zenon
  <2>2. rest(v, dv) = rest(c, dv)
    <3>1. v.viewOnly = c.viewOnly /\ v.text = c.text /\ v.actions = c.actions
      BY <1>7
    <3> QED BY <3>1
  <2> HIDE DEF rest
  <2> QED BY <2>1, <2>2
<1> HIDE DEF now, then
<1>16. CASE Bit(flags[1], 0)
  <2>1. c.astray \/ Has(d, 4 * k)
    <3>1. c.astray \/ (Len(c.rQ) - c.rQi >= length /\ length >= 4 + 4 * k)
      BY <1>2, <1>16 DEF Has
    <3>2. c.astray \/ Len(c.rQ) - (c.rQi + 4) >= 4 * k
      BY <1>0, <1>1, <3>1
    <3> QED BY <1>5, <3>2 DEF Has
  <2>2. /\ Spared(d, Caps(d, flags)) /\ Caps(d, flags).ret = "done"
        /\ Caps(With(d, w), flags) = With(Caps(d, flags), w)
    BY <1>5, <2>1, CapsReads DEF k
  <2> QED BY <1>11, <1>14, <1>15, <1>16, <2>2 DEF dv
<1>17. CASE ~Bit(flags[1], 0) /\ ActionOf(flags) = {}
  <2>1. Spared(c, Fail(d)) /\ Fail(d).ret = "fail" /\ Fail(dv) = With(Fail(d), w)
    BY <1>5, SparedEnds, Commuting DEF dv
  <2> QED BY <1>14, <1>15, <1>17, <2>1
<1>18. CASE ~Bit(flags[1], 0) /\ ActionOf(flags) # {}
  <2>1. now = rest(c, d) /\ then = rest(c, dv)
    BY <1>14, <1>15, <1>18
  <2>2. CASE c.viewOnly
    BY <1>5, <2>1, <2>2 DEF dv
  <2>3. CASE ~c.viewOnly /\ is("request")
    <3> DEFINE p == c.text # Nothing /\ 4 \in c.actions /\ HasText(flags)
               data == Append(Breaks(c.text), 0)
    <3>1. /\ now = IF p THEN Say(d, "provide", Nothing, data) ELSE d
          /\ then = IF p THEN Say(With(d, w), "provide", Nothing, data) ELSE With(d, w)
      BY <2>1, <2>3 DEF dv
    <3> HIDE DEF p, data
    <3> QED BY <1>5, <1>11, <3>1, AnswerReads
  <2>4. CASE ~c.viewOnly /\ ~is("request") /\ is("peek")
    <3> DEFINE p == 3 \in c.actions
               data == IF c.text = Nothing THEN <<0>> ELSE <<1>>
    <3>1. /\ now = IF p THEN Say(d, "notify", Nothing, data) ELSE d
          /\ then = IF p THEN Say(With(d, w), "notify", Nothing, data) ELSE With(d, w)
      BY <2>1, <2>4 DEF dv
    <3> HIDE DEF p, data
    <3> QED BY <1>5, <1>11, <3>1, AnswerReads
  <2>5. CASE ~c.viewOnly /\ ~is("request") /\ ~is("peek") /\ is("notify")
    <3> DEFINE p == 1 \in c.actions /\ HasText(flags)
    <3>1. /\ now = IF p THEN Say(d, "request", Nothing, Nothing) ELSE d
          /\ then = IF p THEN Say(With(d, w), "request", Nothing, Nothing) ELSE With(d, w)
      BY <2>1, <2>5 DEF dv
    <3> HIDE DEF p
    <3> QED BY <1>5, <1>11, <3>1, AnswerReads
  <2>6. CASE ~c.viewOnly /\ ~is("request") /\ ~is("peek") /\ ~is("notify") /\ HasText(flags)
    <3>1. now = Provided(d, length) /\ then = Provided(With(d, w), length)
      BY <2>1, <2>6 DEF dv
    <3>2. d.rQi + (length - 4) \in Nat
      BY <1>0, <1>5
    <3>3. ~c.astray => length - 4 \in Nat /\ Has(d, length - 4)
      <4>1. ~c.astray => length >= 4 /\ Len(c.rQ) - c.rQi >= length
        BY <1>2 DEF Has
      <4>2. ~c.astray => length - 4 \in Nat /\ Len(c.rQ) - (c.rQi + 4) >= length - 4
        BY <1>0, <4>1
      <4> QED BY <1>5, <4>2 DEF Has
    <3>4. /\ Spared(d, Provided(d, length)) /\ Provided(d, length).ret \in {"done", "fail"}
          /\ ~Provided(d, length).astray => Provided(With(d, w), length) = With(Provided(d, length), w)
      BY <1>5, <1>8, <3>2, <3>3, ProvidedReads
    <3> QED BY <1>11, <3>1, <3>4
  <2>7. CASE ~c.viewOnly /\ ~is("request") /\ ~is("peek") /\ ~is("notify") /\ ~HasText(flags)
    <3>1. now = d /\ then = dv
      BY <2>1, <2>7
    <3> QED BY <1>5, <3>1 DEF dv
  <2> QED BY <2>2, <2>3, <2>4, <2>5, <2>6, <2>7
<1> QED BY <1>16, <1>17, <1>18 DEF now, then

\* What follows the length of a cut message.
CutText(x, viewOnly, length, size) ==
    IF length < 0 THEN ExtendedCutText(SetStray(x, Short(size, Peek(x, 4))), Peek(x, 4), size)
    ELSE IF viewOnly THEN Skip(x, size) ELSE Say(Skip(x, size), "clipboard", Nothing, Peek(x, size))

\* The text of a cut message: m is past its type.
LEMMA TextReads ==
  ASSUME NEW m, NEW w, Reader(m, w), m.rects \in Nat, NEW d, Spared(m, d), d.ret = "done",
         NEW length \in Int, NEW size, size = (IF length < 0 THEN -length ELSE length), Has(d, size)
  PROVE  Handled(m, w, CutText(d, m.viewOnly, length, size), CutText(With(d, w), m.viewOnly, length, size))
<1> DEFINE r(x) == CutText(x, m.viewOnly, length, size)
           now == r(d)
           then == r(With(d, w))
<1>1. size \in Nat /\ size \in Int
  OBVIOUS
<1>2. Client(d) /\ Reader(d, w)
  BY DEF Spared, Around, Reader
<1>3. CASE length < 0
  <2> DEFINE flags == Peek(d, 4)
             q == Short(size, flags)
             e == SetStray(d, q)
  <2>1. /\ Spared(m, e) /\ e.ret = "done" /\ e.astray = (d.astray \/ q) /\ e.rQ = d.rQ /\ e.rQi = d.rQi
        /\ SetStray(With(d, w), q) = With(e, w)
    BY StraySame
  <2>2. now = ExtendedCutText(e, flags, size)
    BY <1>3 DEF CutText
  <2>3. then = ExtendedCutText(SetStray(With(d, w), Short(size, Peek(With(d, w), 4))), Peek(With(d, w), 4), size)
    BY <1>3 DEF CutText
  <2>4. ~q => Peek(With(d, w), 4) = flags
    <3> DEFINE z == 4
    <3>1. ~q => size >= z
      BY DEF Short
    <3>2. z \in Nat
      OBVIOUS
    <3> HIDE DEF z, q
    <3>3. ~q => Has(d, z)
      BY <1>1, <1>2, <3>1, <3>2, Fewer
    <3>4. ~q => Peek(With(d, w), z) = Peek(d, z)
      BY <1>2, <3>2, <3>3, Queue
    <3> QED BY <3>4 DEF z
  <2>5. Client(e) /\ (~e.astray => ~q)
    BY <2>1 DEF Spared, Around
  <2>6. ~e.astray => Reader(e, w) /\ Has(e, size) /\ ~Short(size, flags)
    BY <1>2, <2>1, <2>5 DEF Reader, Has
  <2>7. ~e.astray => then = ExtendedCutText(With(e, w), flags, size)
    BY <2>1, <2>3, <2>4, <2>5
  <2> HIDE DEF e, flags, q, now, then
  <2>8. /\ Spared(e, now) /\ now.ret \in {"done", "fail"}
        /\ ~now.astray => ExtendedCutText(With(e, w), flags, size) = With(now, w)
    BY <1>1, <2>1, <2>2, <2>5, <2>6, ExtendedReads
  <2>9. ~now.astray => ~e.astray
    BY <2>8 DEF Spared, Around
  <2>10. Spared(m, now)
    BY <2>1, <2>8, SparedThrough
  <2>11. ~now.astray => then = With(now, w)
    BY <2>7, <2>8, <2>9
  <2> QED BY <2>8, <2>10, <2>11, WasHandled DEF now, then
<1>4. CASE ~(length < 0)
  <2> DEFINE s == Skip(d, size)
             data == Peek(d, size)
  <2>1. Peek(With(d, w), size) = data /\ Spared(d, s) /\ s.ret = d.ret /\ Skip(With(d, w), size) = With(s, w)
    BY <1>1, <1>2, HasOne
  <2>2. now = IF m.viewOnly THEN s ELSE Say(s, "clipboard", Nothing, data)
    BY <1>4 DEF CutText
  <2>3. then = IF m.viewOnly THEN With(s, w) ELSE Say(With(s, w), "clipboard", Nothing, data)
    BY <1>4, <2>1 DEF CutText
  <2>4. Spared(m, s)
    BY <2>1, SparedThrough
  <2> HIDE DEF s, data, now, then
  <2>5. Spared(m, now) /\ now.ret = "done" /\ then = With(now, w)
    BY <2>1, <2>2, <2>3, <2>4, SaySame
  <2> QED BY <2>5, WasHandled DEF now, then
<1> QED BY <1>3, <1>4

\* A text of the server, plain or extended, is read whole, or the message is put back.
LEMMA ServerCutTextReads ==
  ASSUME NEW m, NEW w, Reader(m, w), m.ret = "wait", m.rects \in Nat
  PROVE  Handled(m, w, ServerCutText(m), ServerCutText(With(m, w)))
<1> DEFINE v == With(m, w)
           s == Skip(m, 7)
           d == Done(s)
           length == Signed(SubSeq(Peek(m, 7), 4, 7))
           size == IF length < 0 THEN -length ELSE length
           now == ServerCutText(m)
           r(x) == CutText(x, m.viewOnly, length, size)
<1>0. Client(m) /\ 7 \in Nat /\ 8 = 7 + 1
  BY DEF Reader
<1>9. WaitBack(m, 1).ret = "wait"
  BY <1>0 DEF WaitBack, Client, Shape, Fields
<1>1. CASE ~Has(m, 7)
  <2>1. now = WaitBack(m, 1)
    BY <1>1 DEF ServerCutText
  <2> QED BY <1>9, <2>1 DEF Handled
<1>2. CASE Has(m, 7)
  <2>1. /\ Has(v, 7) /\ Peek(v, 7) = Peek(m, 7) /\ Peek(m, 7) \in Seq(Byte) /\ Len(Peek(m, 7)) = 7
        /\ Spared(m, s) /\ s.ret = m.ret /\ Skip(v, 7) = With(s, w)
    <3> DEFINE z == 7
    <3>1. z \in Nat /\ Has(m, z)
      BY <1>2
    <3> HIDE DEF z
    <3>2. /\ Has(v, z) /\ Peek(v, z) = Peek(m, z) /\ Peek(m, z) \in Seq(Byte) /\ Len(Peek(m, z)) = z
          /\ Spared(m, Skip(m, z)) /\ Skip(m, z).ret = m.ret /\ Skip(v, z) = With(Skip(m, z), w)
      BY <3>1, HasOne
    <3> QED BY <3>2 DEF z
  <2>2. length \in Int
    <3> DEFINE b == Peek(m, 7)
               k == 3
               n == 4
    <3>0. b \in Seq(Byte) /\ Len(b) = 7
      BY <2>1
    <3> HIDE DEF b
    <3>1. k \in Nat /\ n \in Nat /\ k + n <= Len(b) /\ k + 1 = 4 /\ k + n = 7 /\ n = 4
      BY <3>0
    <3> HIDE DEF k, n
    <3>2. SubSeq(b, k + 1, k + n) \in Seq(Byte) /\ Len(SubSeq(b, k + 1, k + n)) = n
      BY <3>0, <3>1, Slices
    <3> DEFINE q == SubSeq(b, 4, 7)
    <3>3. q \in Seq(Byte) /\ Len(q) >= 4
      BY <3>1, <3>2
    <3> HIDE DEF q
    <3>4. Signed(q) \in Int
      BY <3>3, SignedInt
    <3> QED BY <3>4 DEF q, b
  <2>3. v.viewOnly = m.viewOnly
    BY <1>0, Untouched
  <2>4. Spared(m, d) /\ d.ret = "done" /\ Done(Skip(v, 7)) = With(d, w)
    <3>1. Done(With(s, w)) = With(d, w)
      BY Commuting
    <3> HIDE DEF s, v
    <3>2. Spared(m, d) /\ d.ret = "done"
      BY <2>1, SparedEnds
    <3> QED BY <2>1, <3>1, <3>2
  <2>5. now = IF ~Has(d, size) THEN WaitBack(d, 8) ELSE r(d)
    BY <1>2, SMT DEF ServerCutText, SetStray, CutText
  <2>6. ServerCutText(v) = IF ~Has(With(d, w), size) THEN WaitBack(With(d, w), 8) ELSE r(With(d, w))
    BY <2>1, <2>3, <2>4, SMT DEF ServerCutText, SetStray, CutText
  <2>7. WaitBack(d, 8) = WaitBack(m, 1)
    BY <1>0, PutBack
  <2>8. size \in Nat
    <3> HIDE DEF length
    <3> QED BY <2>2
  <2> HIDE DEF now, d, v, s, length
  <2>9. CASE ~Has(d, size)
    <3>1. now = WaitBack(m, 1)
      BY <2>5, <2>7, <2>9
    <3> QED BY <1>9, <3>1 DEF Handled, now
  <2>10. CASE Has(d, size)
    <3> DEFINE n == size
    <3>1. n \in Nat /\ Has(d, n) /\ n = (IF length < 0 THEN -length ELSE length)
      BY <2>8, <2>10
    <3> HIDE DEF n
    <3>3. Handled(m, w, CutText(d, m.viewOnly, length, n), CutText(With(d, w), m.viewOnly, length, n))
      BY <2>2, <2>4, <3>1, TextReads
    <3>4. Reader(d, w)
      BY <2>4 DEF Spared, Around, Reader
    <3>5. Has(With(d, w), size)
      BY <3>1, <3>4, Queue DEF n
    <3>6. now = r(d) /\ ServerCutText(v) = r(With(d, w))
      BY <2>5, <2>6, <2>10, <3>5
    <3> QED BY <3>3, <3>6 DEF now, v, n
  <2> QED BY <2>9, <2>10
<1> QED BY <1>1, <1>2

\* What is done with a message by its type.
Message(type, m) ==
    CASE type = 0 -> FbuHeader(m)
      [] type = 2 -> Done(Say(m, "bell", Nothing, Nothing))
      [] type = 3 -> ServerCutText(m)
      [] type = 150 -> Done(IF m.cont THEN m ELSE Say(SetCont(m), "continuous", Nothing, Nothing))
      [] type = 248 -> Fence(m)
      [] type = 250 -> Xvp(m)
      [] OTHER -> Fail(m)

\* The bell is a message of one byte.
LEMMA BellReads ==
  ASSUME NEW m, NEW w, Reader(m, w), m.rects \in Nat
  PROVE  Handled(m, w, Done(Say(m, "bell", Nothing, Nothing)), Done(Say(With(m, w), "bell", Nothing, Nothing)))
<1> DEFINE e == Say(m, "bell", Nothing, Nothing)
<1>1. Spared(m, m)
  BY RetSet DEF Reader, Spared
<1>2. Spared(m, e) /\ Say(With(m, w), "bell", Nothing, Nothing) = With(e, w)
  BY <1>1, SaySame
<1> HIDE DEF e
<1>3. Spared(m, Done(e)) /\ Done(e).ret = "done" /\ Done(With(e, w)) = With(Done(e), w)
  BY <1>2, SparedEnds, Commuting
<1> QED BY <1>2, <1>3, WasHandled DEF e

\* So is the end of continuous updates.
LEMMA ContinuousReads ==
  ASSUME NEW m, NEW w, Reader(m, w), m.rects \in Nat,
         NEW r, r = (IF m.cont THEN m ELSE Say(SetCont(m), "continuous", Nothing, Nothing)),
         NEW rv, rv = (IF With(m, w).cont THEN With(m, w) ELSE Say(SetCont(With(m, w)), "continuous", Nothing, Nothing))
  PROVE  Handled(m, w, Done(r), Done(rv))
<1> DEFINE s == SetCont(m)
<1>1. Spared(m, m) /\ With(m, w).cont = m.cont
  BY RetSet, Untouched DEF Reader, Spared
<1>2. Spared(m, s) /\ SetCont(With(m, w)) = With(s, w)
  BY <1>1, ContSame
<1> HIDE DEF s
<1>3. /\ Spared(m, Say(s, "continuous", Nothing, Nothing))
      /\ Say(With(s, w), "continuous", Nothing, Nothing) = With(Say(s, "continuous", Nothing, Nothing), w)
  BY <1>2, SaySame
<1>4. Spared(m, r) /\ rv = With(r, w)
  BY <1>1, <1>2, <1>3 DEF s
<1>5. Spared(m, Done(r)) /\ Done(r).ret = "done" /\ Done(With(r, w)) = With(Done(r), w)
  BY <1>4, SparedEnds, Commuting
<1> QED BY <1>4, <1>5, WasHandled

\* Whatever the type of a message, it is handled or put back.
LEMMA MessageReads ==
  ASSUME NEW m, NEW w, Reader(m, w), m.ret = "wait", m.rects \in Nat, NEW type
  PROVE  Handled(m, w, Message(type, m), Message(type, With(m, w)))
<1>1. CASE type = 0
  <2>1. \A x : Message(type, x) = FbuHeader(x)
    BY <1>1, SMT DEF Message
  <2> QED BY <2>1, FbuHeaderReads
<1>2. CASE type = 2
  <2>1. \A x : Message(type, x) = Done(Say(x, "bell", Nothing, Nothing))
    BY <1>2, SMT DEF Message
  <2> QED BY <2>1, BellReads
<1>3. CASE type = 3
  <2>1. \A x : Message(type, x) = ServerCutText(x)
    BY <1>3, SMT DEF Message
  <2> QED BY <2>1, ServerCutTextReads
<1>4. CASE type = 150
  <2>1. \A x : Message(type, x) = Done(IF x.cont THEN x ELSE Say(SetCont(x), "continuous", Nothing, Nothing))
    BY <1>4, SMT DEF Message
  <2> QED BY <2>1, ContinuousReads
<1>5. CASE type = 248
  <2>1. \A x : Message(type, x) = Fence(x)
    BY <1>5, SMT DEF Message
  <2> QED BY <2>1, FenceReads
<1>6. CASE type = 250
  <2>1. \A x : Message(type, x) = Xvp(x)
    BY <1>6, SMT DEF Message
  <2> QED BY <2>1, XvpReads
<1>7. CASE type \notin {0, 2, 3, 150, 248, 250}
  <2>1. \A x : Message(type, x) = Fail(x)
    BY <1>7, SMT DEF Message
  <2>2. Spared(m, m)
    BY RetSet DEF Reader, Spared
  <2>3. Spared(m, Fail(m)) /\ Fail(m).ret = "fail" /\ Fail(With(m, w)) = With(Fail(m), w)
    BY <2>2, SparedEnds, Commuting
  <2> QED BY <2>1, <2>3, WasHandled
<1> QED BY <1>1, <1>2, <1>3, <1>4, <1>5, <1>6, <1>7

\* One turn of the loops, whatever has arrived.
LEMMA NormalMsgReads ==
  ASSUME NEW c, NEW w, Reader(c, w), c.ret = "wait", Fits(c), c.rects = 0 => c.astray \/ Has(c, 1)
  PROVE  /\ Around(c, NormalMsg(c)) /\ Settled(NormalMsg(c))
         /\ Meets(w, NormalMsg(c), NormalMsg(With(c, w)), NormalMsg(With(NormalMsg(c), w)))
<1> DEFINE v == With(c, w)
           now == NormalMsg(c)
<1>0. Client(c) /\ c.rects \in Nat /\ c.rQi \in Nat
  BY DEF Reader, Client, Fits
<1>1. v.rects = c.rects
  BY <1>0, Untouched
<1>2. \A x : x.rects \in Nat \ {0} => NormalMsg(x) = UpdateRect(x)
  BY SMT DEF NormalMsg
<1>3. \A x : x.rects = 0 => NormalMsg(x) = Message(Peek(x, 1)[1], Skip(x, 1))
  <2> TAKE x
  <2> HAVE x.rects = 0
  <2>1. ~(x.rects > 0)
    OBVIOUS
  <2> DEFINE t == Peek(x, 1)[1]
             m == Skip(x, 1)
  <2>2. NormalMsg(x) = CASE t = 0 -> FbuHeader(m)
          [] t = 2 -> Done(Say(m, "bell", Nothing, Nothing))
          [] t = 3 -> ServerCutText(m)
          [] t = 150 -> Done(IF m.cont THEN m ELSE Say([m EXCEPT !.cont = TRUE], "continuous", Nothing, Nothing))
          [] t = 248 -> Fence(m)
          [] t = 250 -> Xvp(m)
          [] OTHER -> Fail(m)
    BY <2>1, SMT DEF NormalMsg
  <2> HIDE DEF t, m
  <2> QED BY <2>2, Zenon DEF Message, SetCont, t, m
<1>4. CASE c.rects # 0
  <2> DEFINE r == UpdateRect(c)
  <2>1. /\ Around(c, r) /\ Settled(r) /\ Meets(w, r, UpdateRect(v), UpdateRect(With(r, w)))
        /\ r.ret = "wait" => r.rects = c.rects
    BY <1>0, <1>4, UpdateRectReads
  <2>2. now = r /\ NormalMsg(v) = UpdateRect(v)
    BY <1>0, <1>1, <1>2, <1>4
  <2> HIDE DEF r
  <2>3. r.ret = "wait" => NormalMsg(With(r, w)) = UpdateRect(With(r, w))
    <3>1. Client(r)
      BY <2>1 DEF Around
    <3>2. r.ret = "wait" => With(r, w).rects \in Nat \ {0}
      BY <1>0, <1>4, <2>1, <3>1, Untouched
    <3> QED BY <1>2, <3>2
  <2>4. Meets(w, r, NormalMsg(v), NormalMsg(With(r, w)))
    BY <2>1, <2>2, <2>3 DEF Meets
  <2> QED BY <2>1, <2>2, <2>4
<1>5. CASE c.rects = 0
  <2> DEFINE m == Skip(c, 1)
             type == Peek(c, 1)[1]
             then == Message(type, With(m, w))
  <2>1. Spared(c, c) /\ 1 \in Int /\ c.rQi + 1 \in Nat /\ (c.astray \/ Has(c, 1))
    BY <1>0, <1>5, RetSet DEF Spared
  <2>2. Spared(c, m) /\ m.ret = "wait"
    BY <2>1, SkipSame
  <2>3. Skip(v, 1) = With(m, w)
    BY SkipWith
  <2>4. ~c.astray => Peek(v, 1) = Peek(c, 1)
    <3>1. 1 \in Nat
      OBVIOUS
    <3> QED BY <2>1, <3>1, Queue
  <2>5. now = Message(type, m)
    BY <1>3, <1>5
  <2>6. ~c.astray => NormalMsg(v) = then
    BY <1>1, <1>3, <1>5, <2>3, <2>4
  <2>7. WaitBack(m, 1) = c
    <3>1. 1 \in Nat
      OBVIOUS
    <3> QED BY <1>0, <3>1, HeadPutBack
  <2> HIDE DEF m, type, now
  <2>8. Reader(m, w) /\ m.rects \in Nat
    BY <1>0, <2>2 DEF Reader, Spared, Around
  <2>9. Handled(m, w, now, then)
    BY <2>2, <2>5, <2>8, MessageReads
  <2>10. CASE now.ret = "wait"
    <3>1. now = c
      BY <2>7, <2>9, <2>10 DEF Handled
    <3>2. Around(c, c)
      BY <2>1 DEF Spared
    <3> QED BY <3>1, <3>2 DEF Settled, Meets, now
  <2>11. CASE now.ret # "wait"
    <3>1. /\ Around(m, now) /\ now.dec = m.dec /\ now.rect = m.rect
          /\ now.rects \in Nat /\ (now.ret = "again" => now.rects # 0)
          /\ ~now.astray => then = With(now, w)
      BY <2>9, <2>11 DEF Handled
    <3>2. Around(c, m) /\ m.dec = c.dec /\ m.rect = c.rect
      BY <2>2 DEF Spared
    <3>3. Around(c, now) /\ now.dec = c.dec /\ now.rect = c.rect
      BY <3>1, <3>2, AroundThrough
    <3>4. ~now.astray => ~c.astray
      BY <3>3 DEF Around
    <3>5. Settled(now)
      BY <3>1, <3>3, <3>4 DEF Settled, Fits
    <3>6. Meets(w, now, NormalMsg(v), NormalMsg(With(now, w)))
      BY <2>6, <2>11, <3>1, <3>4 DEF Meets
    <3> QED BY <3>3, <3>5, <3>6 DEF now
  <2> QED BY <2>10, <2>11
<1> QED BY <1>4, <1>5

-----------------------------------------------------------------------------
(* The invariant and the theorems *)

StreamInv ==
    /\ Client(o) /\ o.ret = "wait"
    /\ net.bytes \in Seq(Byte) /\ Begins(o.rQ, net.bytes)
    /\ o.running => ~o.failed
    /\ ~o.failed => Fits(o)
    /\ ~o.astray => o.rQi <= Len(o.rQ) /\ (o.running /\ o.rects = 0 => Has(o, 1))

\* A client whose queue is empty satisfies the invariant.
LEMMA StreamStarts == Init => StreamInv
<1> SUFFICES ASSUME Init PROVE StreamInv
  OBVIOUS
<1>1. PICK viewOnly \in BOOLEAN, script \in Scripts \union Spoken :
        o = Start(viewOnly) /\ net = Scripted(Told(script, viewOnly))
  BY DEF Init
<1>2. net.bytes \in Seq(Byte)
  <2>1. net.bytes = Told(script, viewOnly).bytes
    BY <1>1 DEF Scripted
  <2> QED BY <2>1, StreamAssumption DEF Byte
<1>3. o = [rQ |-> <<>>, rQi |-> 0, ret |-> "wait", data |-> Nothing, running |-> FALSE, failed |-> FALSE,
           fb |-> [p \in Shown |-> Back], said |-> <<>>, dec |-> AtRest, kept |-> Remembered,
           rects |-> 0, rect |-> Nothing, viewOnly |-> viewOnly, text |-> Nothing,
           formats |-> {}, actions |-> {}, cont |-> FALSE, pasted |-> 0, astray |-> FALSE]
  BY <1>1 DEF Start
<1>4. /\ o.rQ = <<>> /\ o.rQi = 0 /\ o.ret = "wait" /\ o.running = FALSE /\ o.failed = FALSE /\ o.dec = AtRest
      /\ o.rects = 0 /\ o.rect = Nothing /\ o.astray = FALSE
  BY <1>3
<1>5. Shape(o)
  BY <1>3 DEF Shape, Fields
<1>6. DecShape(AtRest) /\ AtRest.zlib = 0 /\ AtRest.zrle = 0 /\ AtRest.len = 0 /\ AtRest.colours = 0 /\ AtRest.tiles = 0
  BY DEF DecShape, AtRest, DecFields
<1>7. <<>> \in Seq(Byte) /\ Len(<<>>) = 0 /\ Len(net.bytes) \in Nat
  BY <1>2
<1>8. Client(o)
  BY <1>4, <1>5, <1>6, <1>7 DEF Client
<1>9. Begins(o.rQ, net.bytes)
  BY <1>4, <1>7 DEF Begins
<1>10. Fits(o)
  BY <1>4, <1>6 DEF Fits
<1> QED BY <1>2, <1>4, <1>7, <1>8, <1>9, <1>10 DEF StreamInv

\* What the loops do with the result of a turn.
LEMMA GoingOn ==
  ASSUME NEW c, Client(c), NEW g, g = GoOn(c)
  PROVE  /\ Client(g) /\ g.ret = "wait" /\ g.rQ = c.rQ /\ g.rQi = c.rQi /\ g.astray = c.astray
         /\ g.dec = c.dec /\ g.rect = c.rect /\ g.rects = c.rects
         /\ g.failed = (c.ret = "fail") /\ g.running = (c.ret = "again" \/ (c.ret = "done" /\ Has(c, 1)))
         /\ Has(c, 1) = Has(g, 1)
<1> DEFINE running == c.ret = "again" \/ (c.ret = "done" /\ Has(c, 1))
           failed == c.ret = "fail"
<1>1. g = [c EXCEPT !.ret = "wait", !.failed = failed, !.running = running]
  BY DEF GoOn
<1> HIDE DEF running, failed
<1>2. /\ Shape(g) /\ g.ret = "wait" /\ g.rQ = c.rQ /\ g.rQi = c.rQi /\ g.astray = c.astray
      /\ g.dec = c.dec /\ g.rect = c.rect /\ g.rects = c.rects /\ g.failed = failed /\ g.running = running
  BY <1>1 DEF Client, Shape, Fields
<1>3. Client(g) /\ Has(c, 1) = Has(g, 1)
  BY <1>2 DEF Client, Has
<1> QED BY <1>2, <1>3 DEF running, failed

\* More of the server's bytes reach the queue.
LEMMA MoreOf ==
  ASSUME NEW s \in Seq(Byte), NEW w \in Seq(Byte), Begins(s, w), NEW n \in Nat \ {0}, Len(s) + n <= Len(w),
         NEW t, t = s \o SubSeq(w, Len(s) + 1, Len(s) + n)
  PROVE  t \in Seq(Byte) /\ Len(t) = Len(s) + n /\ Begins(t, w)
<1> DEFINE l == Len(s)
           e == SubSeq(w, l + 1, l + n)
<1>1. l \in Nat /\ Len(w) \in Nat
  OBVIOUS
<1>2. e \in Seq(Byte) /\ Len(e) = n /\ \A j \in 1..n : e[j] = w[l + j]
  BY <1>1, Slices
<1> HIDE DEF e
<1>3. t = s \o e
  BY DEF e
<1>4. t \in Seq(Byte) /\ Len(t) = l + n
  BY <1>2, <1>3
<1>5. ASSUME NEW i \in 1..(l + n)
      PROVE  t[i] = w[i]
  <2>1. CASE i <= l
    <3>1. t[i] = s[i]
      BY <1>2, <1>3, <2>1
    <3> QED BY <2>1, <3>1 DEF Begins
  <2>2. CASE i > l
    <3>1. t[i] = e[i - l]
      BY <1>1, <1>2, <1>3, <2>2, ConcatProperties
    <3>2. i - l \in 1..n /\ l + (i - l) = i
      BY <1>1, <2>2
    <3> QED BY <1>2, <3>1, <3>2
  <2> QED BY <1>1, <2>1, <2>2
<1> QED BY <1>4, <1>5 DEF Begins

\* Bytes that arrive keep it: they are the next of the stream, and one is unread.
LEMMA StreamReceives ==
  ASSUME StreamInv, NEW n \in 1..(Len(net.bytes) - Len(o.rQ)), RecvMessage(n)
  PROVE  StreamInv'
<1> DEFINE t == o.rQ \o SubSeq(net.bytes, Len(o.rQ) + 1, Len(o.rQ) + n)
<1>1. Client(o) /\ o.rQ \in Seq(Byte) /\ net.bytes \in Seq(Byte) /\ Begins(o.rQ, net.bytes) /\ Fits(o) /\ net' = net
  BY DEF StreamInv, RecvMessage, Client
<1>2. n \in Nat \ {0} /\ Len(o.rQ) + n <= Len(net.bytes)
  BY <1>1
<1>3. t \in Seq(Byte) /\ Len(t) = Len(o.rQ) + n /\ Begins(t, net.bytes)
  BY <1>1, <1>2, MoreOf
<1>4. o' = [o EXCEPT !.rQ = t, !.running = TRUE]
  BY DEF RecvMessage
<1> HIDE DEF t
<1>5. /\ Shape(o)' /\ o'.rQ = t /\ o'.running = TRUE /\ o'.rQi = o.rQi /\ o'.ret = o.ret /\ o'.failed = o.failed
      /\ o'.dec = o.dec /\ o'.rects = o.rects /\ o'.rect = o.rect /\ o'.astray = o.astray
  BY <1>1, <1>4 DEF Client, Shape, Fields
<1>6. Client(o)'
  BY <1>1, <1>3, <1>5 DEF Client
<1>7. Fits(o)'
  BY <1>1, <1>5 DEF Fits
<1>8. ~o.astray => o.rQi <= Len(t) /\ Len(t) - o.rQi >= 1
  <2>1. Len(o.rQ) \in Nat /\ o.rQi \in Nat
    BY <1>1 DEF Client
  <2> QED BY <1>2, <1>3, <2>1 DEF StreamInv
<1>9. o.ret = "wait" /\ ~o.failed
  BY DEF StreamInv, RecvMessage
<1> QED BY <1>1, <1>3, <1>5, <1>6, <1>7, <1>8, <1>9 DEF StreamInv, Has

\* A turn of the running client is one of those above, with all the server's bytes behind.
LEMMA Turn ==
  ASSUME StreamInv, o.running
  PROVE  LET now == NormalMsg(o)
         IN  /\ Around(o, now) /\ Settled(now)
             /\ Meets(net.bytes, now, NormalMsg(AllThere(o)), NormalMsg(AllThere(now)))
<1>1. Reader(o, net.bytes) /\ o.ret = "wait" /\ Fits(o) /\ (o.rects = 0 => o.astray \/ Has(o, 1))
  BY DEF StreamInv, Reader
<1>2. \A x : AllThere(x) = With(x, net.bytes)
  BY DEF AllThere, With
<1> QED BY <1>1, <1>2, NormalMsgReads

\* A turn keeps it: what is left of a rectangle fits, and it runs only with a byte to read.
LEMMA StreamHandles ==
  ASSUME StreamInv, HandleMessage
  PROVE  StreamInv'
<1> DEFINE now == NormalMsg(o)
<1>1. Around(o, now) /\ Settled(now)
  BY Turn DEF HandleMessage
<1>2. o' = GoOn(now) /\ net' = net
  BY DEF HandleMessage
<1> HIDE DEF now
<1>3. Client(now) /\ now.rQ = o.rQ
  BY <1>1 DEF Around
<1>4. /\ Client(o') /\ o'.ret = "wait" /\ o'.rQ = now.rQ /\ o'.rQi = now.rQi /\ o'.astray = now.astray
      /\ o'.dec = now.dec /\ o'.rect = now.rect /\ o'.rects = now.rects
      /\ o'.failed = (now.ret = "fail") /\ o'.running = (now.ret = "again" \/ (now.ret = "done" /\ Has(now, 1)))
      /\ Has(now, 1) = Has(o', 1)
  BY <1>2, <1>3, GoingOn
<1>5. net.bytes \in Seq(Byte) /\ Begins(o.rQ, net.bytes)
  BY DEF StreamInv
<1>6. o'.running => ~o'.failed
  BY <1>4
<1>7. ~o'.failed => Fits(o')
  BY <1>1, <1>4 DEF Settled, Fits
<1>8. ~o'.astray => o'.rQi <= Len(o'.rQ)
  BY <1>1, <1>4 DEF Around, StreamInv
<1>9. o'.running /\ o'.rects = 0 => Has(o', 1)
  BY <1>1, <1>4 DEF Settled
<1> QED BY <1>2, <1>3, <1>4, <1>5, <1>6, <1>7, <1>8, <1>9 DEF StreamInv

\* What pasting leaves alone.
Unmoved(c, x) ==
    /\ Shape(x) /\ x.rQ = c.rQ /\ x.rQi = c.rQi /\ x.ret = c.ret /\ x.running = c.running /\ x.failed = c.failed
    /\ x.dec = c.dec /\ x.rects = c.rects /\ x.rect = c.rect /\ x.astray = c.astray

\* What is said, and the text, can be set.
LEMMA Unmoving ==
  ASSUME NEW c, NEW x, Unmoved(c, x), NEW said, NEW text
  PROVE  Unmoved(c, [x EXCEPT !.said = said]) /\ Unmoved(c, [x EXCEPT !.text = text])
  BY DEF Unmoved, Shape, Fields

\* So it is with what is said in the end.
LEMMA UnmovedSays ==
  ASSUME NEW c, NEW x, Unmoved(c, x), NEW what, NEW data
  PROVE  Unmoved(c, Say(x, what, Nothing, data))
<1>1. Say(x, what, Nothing, data) = [x EXCEPT !.said = Append(x.said, <<what, Nothing, data>>)]
  BY DEF Say
<1>2. \A said : Unmoved(c, [x EXCEPT !.said = said])
  BY Unmoving
<1> QED BY <1>1, <1>2

\* A paste keeps it.
LEMMA StreamPastes ==
  ASSUME StreamInv, ClipboardPasteFrom
  PROVE  StreamInv'
<1> DEFINE c == [o EXCEPT !.pasted = @ + 1]
           t == [c EXCEPT !.text = UserText(NextPaste.text)]
<1>1. Client(o) /\ net' = net
  BY DEF StreamInv, ClipboardPasteFrom
<1>2. Unmoved(o, c)
  BY <1>1 DEF Unmoved, Client, Shape, Fields
<1>3. o' \in {c, Say(t, "notify", Nothing, <<1>>), Say(c, "cut", Nothing, UserText(NextPaste.text))}
  BY DEF ClipboardPasteFrom
<1> HIDE DEF c
<1>4. Unmoved(o, t)
  BY <1>2, Unmoving
<1> HIDE DEF t
<1>5. Unmoved(o, Say(t, "notify", Nothing, <<1>>)) /\ Unmoved(o, Say(c, "cut", Nothing, UserText(NextPaste.text)))
  BY <1>2, <1>4, UnmovedSays
<1>6. Unmoved(o, o')
  BY <1>2, <1>3, <1>5
<1>7. Client(o') /\ Has(o, 1) = Has(o', 1)
  BY <1>1, <1>6 DEF Unmoved, Client, Has
<1>8. Fits(o) => Fits(o')
  BY <1>6 DEF Unmoved, Fits
<1> QED BY <1>1, <1>6, <1>7, <1>8 DEF Unmoved, StreamInv

\* It depends on nothing else.
LEMMA StreamStutters ==
  ASSUME StreamInv, UNCHANGED vars
  PROVE  StreamInv'
<1>1. o' = o /\ net' = net
  BY DEF vars
<1> QED BY <1>1 DEF StreamInv

\* So every step keeps it.
LEMMA StreamSteps ==
  ASSUME StreamInv, [Next]_vars
  PROVE  StreamInv'
<1>1. ASSUME NEW n \in 1..(Len(net.bytes) - Len(o.rQ)), RecvMessage(n)
      PROVE  StreamInv'
  BY <1>1, StreamReceives
<1>2. ASSUME HandleMessage
      PROVE  StreamInv'
  BY <1>2, StreamHandles
<1>3. ASSUME ClipboardPasteFrom
      PROVE  StreamInv'
  BY <1>3, StreamPastes
<1>4. ASSUME UNCHANGED vars
      PROVE  StreamInv'
  BY <1>4, StreamStutters
<1> QED BY <1>1, <1>2, <1>3, <1>4 DEF Next

\* The stream and the client always fit: the queue is a beginning of the stream, the index is in it,
\* and what the decoders keep is what the rectangle in hand needs (the fields of Websock, rfb.js and the decoders).
THEOREM StreamInvariant == Spec => []StreamInv
<1>1. Init => StreamInv
  BY StreamStarts
<1>2. StreamInv /\ [Next]_vars => StreamInv'
  BY StreamSteps
<1> QED BY <1>1, <1>2, PTL DEF Spec

\* For every script, stream and way to cut it: a turn that gives up for lack of bytes changes nothing
\* of what is done once they have come, and one that gets somewhere does what it would with all of them
\* (the rQwait of every handler and decoder, and what they put back or keep).
THEOREM CutsAreMet == Spec => []CutsMakeNoDifference
<1>1. StreamInv => CutsMakeNoDifference
  <2> SUFFICES ASSUME StreamInv, o.running, ~NormalMsg(o).astray
               PROVE  IF NormalMsg(o).ret = "wait" THEN NormalMsg(AllThere(NormalMsg(o))) = NormalMsg(AllThere(o))
                      ELSE NormalMsg(AllThere(o)) = AllThere(NormalMsg(o))
    BY DEF CutsMakeNoDifference
  <2>1. \A x : AllThere(x) = With(x, net.bytes)
    BY DEF AllThere, With
  <2> QED BY <2>1, Turn DEF Meets
<1> QED BY <1>1, StreamInvariant, PTL

\* For every script, stream and way to cut it: between two rectangles no decoder keeps anything of the last.
THEOREM NothingIsLeft == Spec => []CleanBetween
<1>1. StreamInv => CleanBetween
  BY DEF StreamInv, Fits, CleanBetween, BetweenParts
<1> QED BY <1>1, StreamInvariant, PTL
=============================================================================
