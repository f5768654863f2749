----------------------------- MODULE RfbStream -----------------------------
(***************************************************************************)
(* The messages of a connected RFB object, read from a queue that the      *)
(* server's bytes reach in chunks of any size.  The handlers go back to    *)
(* the head of a message, or remember how far they are in it, when it is   *)
(* not all there.  Screen updates wait for nothing here (RfbUpdates has    *)
(* that), and the server sends what VncWire can encode.                    *)
(***************************************************************************)
EXTENDS VncWire

CONSTANTS
    Scripts,        \* what servers and users may do, sequences of messages
    Spoken          \* those in which the server provides a text it was asked for

\* Tiles are not empty, and what a server sends are bytes.
ASSUME StreamAssumption ==
    /\ HextileSize \in Nat \ {0} /\ ZrleSize \in Nat \ {0}
    /\ \A viewOnly \in BOOLEAN, script \in Scripts \union Spoken :
           Told(script, viewOnly).bytes \in Seq(0..255)

VARIABLES
    o,      \* the RFB object with its queue
    net     \* what the server's bytes mean, and how many have been sent

vars == <<o, net>>

\* o.astray is a history: the server sent what no server of the protocol sends, and what was
\* made of it depends on what had arrived (a cursor of an unknown type, an extended text
\* shorter than what is read of it) or is left to the next rectangle (a palette without pixels).
Start(viewOnly) ==
    [rQ |-> <<>>, rQi |-> 0, ret |-> "wait", data |-> Nothing, running |-> FALSE, failed |-> FALSE,
     fb |-> [p \in Shown |-> Back], said |-> <<>>, dec |-> AtRest, kept |-> Remembered,
     rects |-> 0, rect |-> Nothing, viewOnly |-> viewOnly, text |-> Nothing,
     formats |-> {}, actions |-> {}, cont |-> FALSE, pasted |-> 0, astray |-> FALSE]

Scripted(z) == [bytes |-> z.bytes, marks |-> z.marks, pastes |-> z.pastes]

Init == \E viewOnly \in BOOLEAN, script \in Scripts \union Spoken :
    /\ script \in Spoken => ~viewOnly
    /\ o = Start(viewOnly)
    /\ net = Scripted(Told(script, viewOnly))

Say(c, what, at, data) == [c EXCEPT !.said = Append(@, <<what, at, data>>)]

-----------------------------------------------------------------------------
(* The clipboard *)

\* The text of the user, as the wire has it: every line break becomes two bytes.
Breaks(text) == FoldLeft(LAMBDA s, b : IF b = 10 THEN s \o <<13, 10>> ELSE Append(s, b), <<>>, text)
Unbroken(text) ==
    FoldLeft(LAMBDA s, b : IF b = 10 /\ s # <<>> /\ s[Len(s)] = 13 THEN [s EXCEPT ![Len(s)] = 10]
                           ELSE Append(s, b), <<>>, text)
Unended(text) == IF text # <<>> /\ text[Len(text)] = 0 THEN Front(text) ELSE text

ActionOf(flags) == {a \in DOMAIN Actions : flags[1] = Actions[a]}
HasText(flags) == Bit(flags[4], 0)

\* The sizes of the formats are read over.  Several actions are bits of one byte.
Formats(flags) == {i \in 0..15 : Bit(flags[3] * 256 + flags[4], i)}
Caps(c, flags) ==
    LET formats == Formats(flags)
    IN  Say([Skip(c, 4 * Cardinality(formats)) EXCEPT !.formats = formats,
                 !.actions = {i \in 0..7 : Bit(flags[1], i)}], "caps", Nothing, Nothing)

\* The provided text, compressed on its own.
Provided(c, length) ==
    LET content == Tail(Peek(c, length - 4))
        size == Shift32(content)
    IN  IF Peek(c, length - 4)[1] # 0 THEN Fail(c)
        ELSE Say([Skip(c, length - 4) EXCEPT !.text = Nothing], "clipboard", Nothing,
                 Unbroken(Unended(SubSeq(content, 5, 4 + size))))

\* Requests, announcements and texts are for a client that is not view-only; it answers
\* those the server said it can take.  What is refused is left in the queue.
ExtendedCutText(c, flags, length) ==
    LET body == Done(Skip(c, 4))
        is(a) == flags[1] = Actions[a]
        able(i) == i \in c.actions
    IN  IF Bit(flags[1], 0) THEN Caps(body, flags)
        ELSE IF ActionOf(flags) = {} THEN Fail(body)
        ELSE IF c.viewOnly THEN body
        ELSE IF is("request")
        THEN IF c.text # Nothing /\ able(4) /\ HasText(flags)
             THEN Say(body, "provide", Nothing, Append(Breaks(c.text), 0)) ELSE body
        ELSE IF is("peek")
        THEN IF able(3) THEN Say(body, "notify", Nothing, IF c.text = Nothing THEN <<0>> ELSE <<1>>) ELSE body
        ELSE IF is("notify")
        THEN IF able(1) /\ HasText(flags) THEN Say(body, "request", Nothing, Nothing) ELSE body
        ELSE IF HasText(flags) THEN Provided(body, length) ELSE body

\* More is read of an extended text than was waited for.
Short(length, flags) == length < 4 \/ (Bit(flags[1], 0) /\ length < 4 + 4 * Cardinality(Formats(flags)))

\* c is past the type of the message; going back includes it.
ServerCutText(c) ==
    LET length == Signed(SubSeq(Peek(c, 7), 4, 7))
        size == IF length < 0 THEN -length ELSE length
        body == Done(Skip(c, 7))
        read == Skip(body, size)
    IN  IF ~Has(c, 7) THEN WaitBack(c, 1)
        ELSE IF ~Has(body, size) THEN WaitBack(body, 8)
        ELSE IF length < 0 THEN ExtendedCutText([body EXCEPT !.astray = @ \/ Short(size, Peek(body, 4))], Peek(body, 4), size)
        ELSE IF c.viewOnly THEN read ELSE Say(read, "clipboard", Nothing, Peek(body, size))

-----------------------------------------------------------------------------
(* Other messages *)

\* Payloads are cut at 64 bytes.  Only requests are answered.
Fence(c) ==
    LET b == Peek(c, 8)
        body == Done(Skip(c, 8))
        length == Least(b[8], 64)
    IN  IF ~Has(c, 8) THEN WaitBack(c, 1)
        ELSE IF ~Has(body, b[8]) THEN WaitBack(body, 9)
        ELSE IF b[4] < 128 THEN Fail(Skip(body, length))
        ELSE Say(Skip(body, length), "fence", Nothing, <<b[7] % 4>> \o Peek(body, length))

Xvp(c) ==
    LET b == Peek(c, 3)
    IN  IF ~Has(c, 3) THEN WaitBack(c, 1)
        ELSE IF b[3] = 1 THEN Done(Say(Skip(c, 3), "xvp", Nothing, <<b[2]>>))
        ELSE IF b[3] = 0 THEN Done(Skip(c, 3)) ELSE Fail(Skip(c, 3))

-----------------------------------------------------------------------------
(* Rectangles that draw nothing *)

\* The pixels are taken to be in the order blue, green, red.
CursorRgba(pixels, mask, at) ==
    FlattenSeq([i \in 1..(at[3] * at[4]) |->
        LET b == SubSeq(pixels, 4 * i - 3, 4 * i)
            bit == Bit(mask[Row(at, i) * Across(at[3], 8) + Column(at, i) \div 8 + 1], 7 - (Column(at, i) % 8))
        IN  <<b[3], b[2], b[1], IF bit THEN 255 ELSE 0>>])

Cursor(c, at) ==
    LET pixels == 4 * at[3] * at[4]
        size == pixels + Across(at[3], 8) * at[4]
    IN  IF ~Has(c, size) THEN Wait(c)
        ELSE Done(Say(Skip(c, size), "cursor", at,
                      CursorRgba(Peek(c, pixels), SubSeq(Peek(c, size), pixels + 1, size), at)))

\* A pixel whose mask is 0 is opaque; one that would show the screen is not shown.
ClassicRgba(and, xor, n) ==
    FlattenSeq([i \in 1..n |->
        LET a == SubSeq(and, 4 * i - 3, 4 * i)
            x == SubSeq(xor, 4 * i - 3, 4 * i)
        IN  IF a = <<0, 0, 0, 0>> THEN <<x[3], x[2], x[1], 255>>
            ELSE IF Front(a) = <<255, 255, 255>> /\ x = <<0, 0, 0, 0>> THEN <<0, 0, 0, 0>>
            ELSE <<0, 0, 0, 255>>])

\* One byte is waited for and two are read; waiting for the pixels puts both back.
VMwareCursor(c, at) ==
    LET n == 4 * at[3] * at[4]
        type == Peek(c, 1)[1]
        body == Skip(c, 2)
        shown(size, rgba) == Done(Say(Skip(body, size), "cursor", at, rgba))
    IN  IF ~Has(c, 1) THEN Wait(c)
        ELSE IF type = 0
        THEN IF ~Has(body, 2 * n) THEN WaitBack(body, 2)
             ELSE shown(2 * n, ClassicRgba(Peek(body, n), SubSeq(Peek(body, 2 * n), n + 1, 2 * n), n \div 4))
        ELSE IF type = 1
        THEN IF ~Has(body, n) THEN WaitBack(body, 2) ELSE shown(n, Peek(body, n))
        ELSE Wait([body EXCEPT !.astray = TRUE])

DesktopName(c) ==
    LET body == Skip(c, 4)
        length == Shift32(Peek(c, 4))
    IN  IF ~Has(c, 4) THEN Wait(c)
        ELSE IF ~Has(body, length) THEN WaitBack(body, 4)
        ELSE Done(Say(Skip(body, length), "name", Nothing, Peek(body, length)))

Led(c) ==
    LET b == Peek(c, 1)[1]
        bit(i) == IF Bit(b, i) THEN 1 ELSE 0
    IN  IF Has(c, 1) THEN Done(Say(Skip(c, 1), "locks", Nothing, <<bit(2), bit(1)>>)) ELSE Wait(c)

\* The number of screens is looked at, and read with the screens.
ExtendedDesktopSize(c, at) ==
    LET screens == Peek(c, 1)[1]
    IN  IF ~Has(c, 4) \/ ~Has(c, 4 + 16 * screens) THEN Wait(c)
        ELSE Done(Say(Skip(c, 4 + 16 * screens), "screens", at, <<screens>>))

-----------------------------------------------------------------------------
(* Updates *)

DataRect(c, at, code) ==
    CASE code = Codes.raw -> Raw(c, at)
      [] code = Codes.copy -> CopyRect(c, at)
      [] code = Codes.rre -> Rre(c, at)
      [] code = Codes.hextile -> Hextile(c, at)
      [] code = Codes.zlib -> Zlib(c, at)
      [] code = Codes.tight -> Tight(c, at, FALSE)
      [] code = Codes.png -> Tight(c, at, TRUE)
      [] code = Codes.zrle -> Zrle(c, at)
      [] code = Codes.jpeg -> Jpeg(c, at)
      [] OTHER -> Fail(c)

HandleRect(c) ==
    LET at == c.rect.at
        code == c.rect.code
    IN  CASE code = Codes.last -> Done([c EXCEPT !.rects = 1])
          [] code = Codes.vmware -> VMwareCursor(c, at)
          [] code = Codes.cursor -> Cursor(c, at)
          [] code = Codes.qemu -> Done(Say(c, "qemu", Nothing, Nothing))
          [] code = Codes.name -> DesktopName(c)
          [] code = Codes.size -> Done(Say(c, "size", at, Nothing))
          [] code = Codes.extsize -> ExtendedDesktopSize(c, at)
          [] code = Codes.mouse -> Done(Say(c, "mouse", Nothing, Nothing))
          [] code = Codes.led -> Led(c)
          [] OTHER -> DataRect(c, at, code)

\* Of a rectangle that is read in several calls, the header is read once.
RectHeader(c) ==
    LET b == Peek(c, 12)
        n(i) == Shift16(SubSeq(b, i, i + 1))
    IN  [Skip(c, 12) EXCEPT !.rect = [at |-> <<n(1), n(3), n(5), n(7)>>, code |-> Signed(SubSeq(b, 9, 12))]]

FbuHeader(c) ==
    LET n == Shift16(SubSeq(Peek(c, 3), 2, 3))
    IN  IF ~Has(c, 3) THEN WaitBack(c, 1)
        ELSE IF n = 0 THEN Done(Skip(c, 3)) ELSE Again([Skip(c, 3) EXCEPT !.rects = n])

RectDone(c) ==
    LET over == [c EXCEPT !.rects = @ - 1, !.rect = Nothing]
    IN  IF c.ret # "done" THEN c ELSE IF over.rects = 0 THEN Done(over) ELSE Again(over)

UpdateRect(c) ==
    IF c.rect = Nothing /\ ~Has(c, 12) THEN Wait(c)
    ELSE RectDone(HandleRect(IF c.rect = Nothing THEN RectHeader(c) ELSE c))

\* One turn of the loops under _handleMessage.
NormalMsg(c) ==
    LET type == Peek(c, 1)[1]
        m == Skip(c, 1)
    IN  CASE c.rects > 0 -> UpdateRect(c)
          [] c.rects = 0 /\ type = 0 -> FbuHeader(m)
          [] c.rects = 0 /\ type = 2 -> Done(Say(m, "bell", Nothing, Nothing))
          [] c.rects = 0 /\ type = 3 -> ServerCutText(m)
          [] c.rects = 0 /\ type = 150 -> 
                 Done(IF m.cont THEN m ELSE Say([m EXCEPT !.cont = TRUE], "continuous", Nothing, Nothing))
          [] c.rects = 0 /\ type = 248 -> Fence(m)
          [] c.rects = 0 /\ type = 250 -> Xvp(m)
          [] OTHER -> Fail(m)

-----------------------------------------------------------------------------
(* The system *)

NextPaste == net.pastes[o.pasted + 1]
Limit == IF o.pasted < Len(net.pastes) THEN NextPaste.at ELSE Len(net.bytes)

\* n more bytes reach the queue in one message of the WebSocket.
RecvMessage(n) ==
    /\ ~o.running /\ ~o.failed
    /\ Len(o.rQ) + n <= Limit
    /\ o' = [o EXCEPT !.rQ = @ \o SubSeq(net.bytes, Len(@) + 1, Len(@) + n), !.running = TRUE]
    /\ UNCHANGED net

\* The handler goes on while it gets somewhere and bytes are left.
GoOn(c) == [c EXCEPT !.ret = "wait", !.failed = c.ret = "fail",
                     !.running = c.ret = "again" \/ (c.ret = "done" /\ Has(c, 1))]

HandleMessage ==
    /\ o.running
    /\ o' = GoOn(NormalMsg(o))
    /\ UNCHANGED net

\* A server with the extended clipboard is told that there is a text.
ClipboardPasteFrom ==
    /\ ~o.running /\ ~o.failed
    /\ o.pasted < Len(net.pastes) /\ o.rQi = NextPaste.at /\ o.rects = 0
    /\ LET able == 0 \in o.formats /\ 3 \in o.actions
           c == [o EXCEPT !.pasted = @ + 1]
       IN  o' = IF o.viewOnly THEN c
                ELSE IF able THEN Say([c EXCEPT !.text = UserText(NextPaste.text)], "notify", Nothing, <<1>>)
                ELSE Say(c, "cut", Nothing, UserText(NextPaste.text))
    /\ UNCHANGED net

Next ==
    \/ \E n \in 1..(Len(net.bytes) - Len(o.rQ)) : RecvMessage(n)
    \/ HandleMessage
    \/ ClipboardPasteFrom

Spec == Init /\ [][Next]_vars

-----------------------------------------------------------------------------
(* Properties *)

BetweenParts == o.rect = Nothing /\ ~o.failed

\* Wherever the chunks of the stream are cut, the client stands, between two rectangles or
\* messages, at a place where the server began one: no byte is skipped or read twice.  And
\* the screen, and all that the client has said to its user and to the server, are there
\* what the server meant with the bytes up to that place.
ReadAsWritten ==
    BetweenParts => \E m \in net.marks : m.at = o.rQi /\ m.fb = o.fb /\ m.said = o.said

\* A client that waits is missing a byte: once all have come, all have been read.
WaitsForBytes ==
    (~o.running /\ Len(o.rQ) = Len(net.bytes)) => ~o.failed /\ o.rQi = Len(o.rQ) /\ o.rects = 0

\* A decoder between two rectangles has nothing left of the last one.
CleanBetween == BetweenParts /\ ~o.astray => o.dec = AtRest

\* Where the stream is cut makes no difference.  A turn that gives up for lack of bytes leaves
\* a client that will do what it would have done had all been there; and a turn that gets
\* somewhere has done just that.
AllThere(c) == [c EXCEPT !.rQ = net.bytes]
CutsMakeNoDifference ==
    LET now == NormalMsg(o)
    IN  o.running /\ ~now.astray =>
            IF now.ret = "wait" THEN NormalMsg(AllThere(now)) = NormalMsg(AllThere(o))
            ELSE NormalMsg(AllThere(o)) = AllThere(now)

\* The cursor the user sees has the colours the server sent, in the pixel format the client
\* asked for: red in the first byte, "bits * 0" of "red-shift" (rfb.js:3345).
CursorAsSent ==
    LET cursors(said) == SelectSeq(said, LAMBDA entry : entry[1] = "cursor")
    IN  BetweenParts => \E m \in net.marks : m.at = o.rQi /\ cursors(m.said) = cursors(o.said)
=============================================================================
