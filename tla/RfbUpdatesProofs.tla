-------------------------- MODULE RfbUpdatesProofs --------------------------
(***************************************************************************)
(* Proofs about RfbUpdates: the console draws in the order the server drew *)
(* it, what is stale is damaged, the next update is asked for, and what    *)
(* waits is on its way; for any widths, rectangles, numbers of updates and *)
(* of actions of the user.                                                 *)
(*                                                                         *)
(* The invariant follows the parts of the object.  Screen: the viewport    *)
(* fits the buffer, what is out of date is damaged (Tracked), the head of  *)
(* the queue is not ready (Blocked), and nobody waits for an empty queue   *)
(* (Awaited).  Ordered: drawing what waits gives what the server drew.     *)
(* Owed: the parts that have arrived are whole updates but for the last,   *)
(* of which the server still owes srv.left rectangles.  Asked and          *)
(* Resizing: a request is on one side of the connection at a time.         *)
(* Coming: the chunks a decoder was given are those its context remembers, *)
(* and each frame that waits in the queue is one of them.                  *)
(*                                                                         *)
(* The methods are folds over the queue and over the messages.  DrawRuns   *)
(* and TurnRuns turn a fold into the run of its intermediate states, and   *)
(* Climbing, by well-founded induction, carries a set of states along it;  *)
(* so Drawing(p, q, r) says that the actions q make r of the pixels p.     *)
(***************************************************************************)
EXTENDS RfbUpdates, FiniteSetTheorems, SequenceTheorems, WellFoundedInduction, TLAPS

DispFields == {"back", "shown", "x", "w", "clip", "damage", "queue", "flushing"}
States == {"loading", "ready", "broken"}
Actions ==
    [type : {"flip"}]
      \union [type : {"fill", "blit"}, x : Nat \ {0}, colour : Nat]
      \union [type : {"copy"}, x : Nat \ {0}, from : Nat]
      \union [type : {"img"}, x : Nat \ {0}, colour : Nat, state : States]
      \union [type : {"frame"}, x : Nat \ {0}, colour : Nat, frame : Nat, state : States]

\* The types of a display.
Typed(d) ==
    /\ DOMAIN d = DispFields
    /\ d.back \in Seq(Nat) /\ d.shown \in Seq(Nat) /\ d.w \in Nat /\ Len(d.shown) = d.w
    /\ d.x \in Nat /\ d.clip \in BOOLEAN
    /\ DOMAIN d.damage = {"left", "right"} /\ d.damage.left \in Nat /\ d.damage.right \in Nat
    /\ d.queue \in Seq(Actions) /\ d.flushing \in BOOLEAN

\* The viewport lies in the buffer.
Fits(d) == d.w > 0 /\ d.x + d.w <= Len(d.back)

\* What is out of date is damaged.
Tracked(d) ==
    \A i \in 1..d.w :
        d.back[d.x + i] \in {Blank, d.shown[i]} \/ (d.damage.left < d.x + i /\ d.x + i <= d.damage.right)

\* Nothing that could be drawn waits, and nobody waits for an empty queue.
Blocked(d) == Pending(d) => ~Ready(d.queue[1])
Awaited(d) == d.flushing => Pending(d)

Screen(d) == Typed(d) /\ Fits(d) /\ Tracked(d) /\ Blocked(d) /\ Awaited(d)

\* What will be drawn.
Drawn(d) == FoldLeft(Perform, d, d.queue).back

ObjFields ==
    {"disp", "rects", "flushing", "cont", "contKnown", "inbox", "contexts", "payloads", "clip", "session",
     "supports", "pendingResize", "recent", "timer", "raf", "win", "expected", "requests", "resizes",
     "ideal", "spoiled", "lost", "failed"}
Parts ==
    [part : {"header"}, rects : Nat] \union [part : {"rect"}, rect : Rectangles]
      \union [part : {"endcont"}]

Formed(o) ==
    /\ DOMAIN o = ObjFields /\ Screen(o.disp) /\ o.flushing = o.disp.flushing
    /\ o.inbox \in Seq(Parts) /\ o.rects \in Nat /\ o.requests \in 0..1 /\ o.resizes \in Nat
    /\ o.win \in Widths /\ o.payloads \in Nat
    /\ \A f \in {"cont", "contKnown", "clip", "session", "supports", "pendingResize", "recent", "timer",
                 "raf", "spoiled", "lost", "failed"} : o[f] \in BOOLEAN

Ordered(o) == o.ideal \in Seq(Nat) /\ (~o.spoiled => Drawn(o.disp) = o.ideal)

\* What is left of an update when one part more is handled.
Leaves(k, p, m) ==
    \/ p.part = "header" /\ k = 0 /\ m = p.rects
    \/ p.part = "rect" /\ k > 0 /\ m = (IF p.rect.type = "last" THEN 0 ELSE k - 1)
    \/ p.part = "endcont" /\ k = 0 /\ m = 0

\* The parts that have arrived are updates one after the other, and left is still to come.
Owed(o, left) ==
    \E f \in [0..Len(o.inbox) -> Nat] :
        /\ f[0] = o.rects /\ f[Len(o.inbox)] = left
        /\ \A i \in DOMAIN o.inbox : Leaves(f[i - 1], o.inbox[i], f[i])

IsAnswer(p) == p.part = "rect" /\ p.rect.type = "extsize" /\ p.rect.mine

\* One update at a time is asked for.
Asked(o) ==
    /\ o.cont = o.contKnown
    /\ \A i, j \in DOMAIN o.inbox : o.inbox[i].part = "endcont" /\ o.inbox[j].part = "endcont" => i = j
    /\ o.cont => \A i \in DOMAIN o.inbox : o.inbox[i].part # "endcont"
    /\ ~o.cont =>
        /\ \A i, j \in DOMAIN o.inbox : o.inbox[i].part = "header" /\ o.inbox[j].part = "header" => i = j
        /\ o.rects > 0 \/ o.requests = 1 => \A i \in DOMAIN o.inbox : o.inbox[i].part # "header"
        /\ o.rects > 0 => o.requests = 0
        /\ o.requests = 0 /\ o.rects = 0 /\ ~o.lost => \E i \in DOMAIN o.inbox : o.inbox[i].part = "header"

\* One size at a time is asked for, and answered.
Resizing(o) ==
    /\ o.resizes \in 0..1
    /\ \A i, j \in DOMAIN o.inbox : IsAnswer(o.inbox[i]) /\ IsAnswer(o.inbox[j]) => i = j
    /\ o.resizes = 1 => o.pendingResize /\ \A i \in DOMAIN o.inbox : ~IsAnswer(o.inbox[i])
    /\ \A i \in DOMAIN o.inbox : IsAnswer(o.inbox[i]) => o.pendingResize

\* The decoders' contexts, and what they have been given.
Contexts ==
    [x : Nat \ {0}, live : BOOLEAN, configured : BOOLEAN,
     pending : Seq([payload : Nat, keep : BOOLEAN]), coder : Seq(Nat)]
IsFrame(a) == a.type = "frame"
Loading(a) == a.type = "frame" /\ a.state = "loading"
Fed(k) == Len(k.coder) <= Len(k.pending)
Matched(k) ==
    /\ Len(k.coder) = Len(k.pending)
    /\ \A i \in DOMAIN k.coder : k.coder[i] = k.pending[i].payload
HasIn(k, payload) == \E i \in DOMAIN k.pending : k.pending[i] = [payload |-> payload, keep |-> TRUE]
Has(contexts, payload) == \E k \in contexts : HasIn(k, payload)
\* Each frame that waits has a number of its own.
Numbered(q, payloads) ==
    \A i, j \in DOMAIN q :
        /\ IsFrame(q[i]) => q[i].frame <= payloads
        /\ IsFrame(q[i]) /\ IsFrame(q[j]) /\ q[i].frame = q[j].frame => i = j

\* What waits is on its way.
Promised(q, contexts) ==
    \A i \in DOMAIN q :
        /\ q[i].type \in {"img", "frame"} => q[i].state # "broken"
        /\ Loading(q[i]) => Has(contexts, q[i].frame)

Coming(o) ==
    /\ o.contexts \subseteq Contexts /\ \A k \in o.contexts : Fed(k)
    /\ Numbered(o.disp.queue, o.payloads)
    /\ ~o.failed => (\A k \in o.contexts : Matched(k)) /\ Promised(o.disp.queue, o.contexts)

\* The part of the object that is about the picture.
Picture(o) == Formed(o) /\ Ordered(o) /\ Coming(o)

Served(o, left) == Picture(o) /\ Owed(o, left) /\ Asked(o) /\ Resizing(o)

IInv ==
    /\ srv.left \in Nat /\ srv.updates \in Nat /\ srv.updates <= MaxUpdates
    /\ srv.left > 0 => srv.updates > 0
    /\ Served(c, srv.left)
    /\ c.inbox # <<>> => c.flushing

-----------------------------------------------------------------------------
(* The display, drawing by drawing.                                        *)

\* What the folds behind Min and Max come to for two numbers.
LEMMA MinMax ==
  ASSUME NEW a \in Int, NEW b \in Int
  PROVE /\ Min({a, b}) = (IF a <= b THEN a ELSE b)
        /\ Max({a, b}) = (IF a >= b THEN a ELSE b)
  BY DEF Min, Max

\* What an action makes of the pixels.
Step(pixels, a) == IF a.type = "flip" THEN pixels ELSE Painted(pixels, a)

\* It changes one column at most.
LEMMA PaintedIs ==
  ASSUME NEW p \in Seq(Nat), NEW a, a.x \in Nat, a.type # "copy" => a.colour \in Nat
  PROVE LET q == Painted(p, a)
        IN  /\ q \in Seq(Nat) /\ Len(q) = Len(p)
            /\ \A i \in 1..Len(p) : i # a.x => q[i] = p[i]
  <1> DEFINE q == Painted(p, a)
  <1>1. p \in [1..Len(p) -> Nat] /\ DOMAIN p = 1..Len(p) /\ Len(p) \in Nat
    OBVIOUS
  <1>2. CASE a.x \notin DOMAIN p
    BY <1>2 DEF Painted
  <1>3. CASE a.x \in DOMAIN p
    <2>1. ASSUME NEW v \in Nat, q = [p EXCEPT ![a.x] = v]
          PROVE q \in Seq(Nat) /\ Len(q) = Len(p) /\ \A i \in 1..Len(p) : i # a.x => q[i] = p[i]
      <3> HIDE DEF q
      <3> QED BY <1>1, <1>3, <2>1, ExceptSeq
    <2>2. CASE a.type = "copy" /\ a.from \in DOMAIN p
      <3> DEFINE v == Over(p[a.from], p[a.x])
      <3>1. v \in Nat
        BY <1>1, <1>3, <2>2 DEF Over
      <3>2. q = [p EXCEPT ![a.x] = v]
        BY <1>3, <2>2 DEF Painted
      <3> HIDE DEF v, q
      <3> QED BY <2>1, <3>1, <3>2 DEF q
    <2>3. CASE a.type = "copy" /\ a.from \notin DOMAIN p
      BY <1>3, <2>3 DEF Painted
    <2>4. CASE a.type # "copy"
      <3>1. q = [p EXCEPT ![a.x] = a.colour]
        BY <1>3, <2>4 DEF Painted
      <3> QED BY <2>1, <2>4, <3>1
    <2> QED BY <2>2, <2>3, <2>4
  <1> QED BY <1>2, <1>3

\* An action is one of these.
LEMMA ActionIs ==
  ASSUME NEW a \in Actions
  PROVE /\ a.type \in {"flip", "fill", "blit", "copy", "img", "frame"}
        /\ a.type # "flip" => a.x \in Nat \ {0}
        /\ a.type \notin {"flip", "copy"} => a.colour \in Nat
        /\ a.type \in {"img", "frame"} => a.state \in States
        /\ a.type = "frame" => a.frame \in Nat
  BY DEF Actions

\* The action leaves the place and the queue of the display alone.
Placed(d, e) ==
    /\ e.x = d.x /\ e.w = d.w /\ e.clip = d.clip /\ e.queue = d.queue /\ e.flushing = d.flushing
    /\ Len(e.back) = Len(d.back)

\* The pixels of a display.
LEMMA PixelsOf ==
  ASSUME NEW d, Typed(d)
  PROVE /\ Len(d.back) \in Nat /\ DOMAIN d.back = 1..Len(d.back)
        /\ \A i \in 1..Len(d.back) : d.back[i] \in Nat
        /\ DOMAIN d.shown = 1..d.w /\ \A i \in 1..d.w : d.shown[i] \in Nat
        /\ Fits(d) => \A i \in 1..d.w : d.x + i \in 1..Len(d.back)
  <1>1. d.back \in Seq(Nat) /\ d.shown \in Seq(Nat) /\ d.w \in Nat /\ Len(d.shown) = d.w /\ d.x \in Nat
    BY DEF Typed
  <1>2. Len(d.back) \in Nat
    BY <1>1
  <1>3. DOMAIN d.back = 1..Len(d.back) /\ \A i \in 1..Len(d.back) : d.back[i] \in Nat
    BY <1>1
  <1>4. DOMAIN d.shown = 1..d.w /\ \A i \in 1..d.w : d.shown[i] \in Nat
    BY <1>1
  <1>5. Fits(d) => \A i \in 1..d.w : d.x + i \in 1..Len(d.back)
    BY <1>1, <1>2 DEF Fits
  <1> QED BY <1>2, <1>3, <1>4, <1>5

\* Showing the damage.
LEMMA Showing ==
  ASSUME NEW d, Typed(d), Fits(d), Tracked(d)
  PROVE Typed(Show(d)) /\ Tracked(Show(d)) /\ Placed(d, Show(d)) /\ Show(d).back = d.back
  <1> DEFINE e == Show(d)
             fresh(i) == LET p == d.x + i
                  IN  IF p \in DOMAIN d.back /\ d.damage.left < p /\ p <= d.damage.right
                      THEN Over(d.back[p], d.shown[i]) ELSE d.shown[i]
             s == [i \in 1..d.w |-> fresh(i)]
  <1>1. /\ DOMAIN e = DispFields /\ e.back = d.back /\ e.damage = NoDamage /\ e.shown = s
        /\ e.x = d.x /\ e.w = d.w /\ e.clip = d.clip /\ e.queue = d.queue /\ e.flushing = d.flushing
    BY DEF Show, Typed, DispFields
  <1> HIDE DEF e
  <1>2. \A i \in 1..d.w : d.shown[i] \in Nat /\ d.x + i \in 1..Len(d.back)
    BY PixelsOf
  <1>3. \A i \in 1..Len(d.back) : d.back[i] \in Nat
    BY PixelsOf
  <1>4. DOMAIN d.back = 1..Len(d.back)
    BY PixelsOf
  <1>5. \A i \in 1..d.w : fresh(i) \in Nat
    BY <1>2, <1>3, <1>4 DEF Over
  <1> HIDE DEF fresh
  <1>6. s \in Seq(Nat) /\ Len(s) = d.w
    <2>1. d.w \in Nat
      BY DEF Typed
    <2> QED BY <1>5, <2>1, IsASeq
  <1>7. Typed(e)
    BY <1>1, <1>6 DEF Typed, NoDamage
  <1>8. Tracked(e)
    <2>1. ASSUME NEW i \in 1..d.w PROVE d.back[d.x + i] \in {Blank, s[i]}
      <3>1. s[i] = fresh(i)
        OBVIOUS
      <3>2. d.back[d.x + i] \in {Blank, d.shown[i]} \/ (d.damage.left < d.x + i /\ d.x + i <= d.damage.right)
        BY DEF Tracked
      <3> QED BY <1>2, <1>4, <3>1, <3>2 DEF fresh, Over
    <2> HIDE DEF s
    <2> QED BY <1>1, <2>1 DEF Tracked
  <1> QED BY <1>1, <1>7, <1>8 DEF e, Placed

\* Damage is recorded.
LEMMA Damaging ==
  ASSUME NEW d, Typed(d), NEW x \in Nat, NEW w \in Nat
  PROVE LET e == Damage(d, x, w)
        IN  /\ Typed(e) /\ Placed(d, e) /\ e.back = d.back /\ e.shown = d.shown
            /\ e.damage.left <= d.damage.left /\ e.damage.left <= x
            /\ e.damage.right >= d.damage.right /\ e.damage.right >= x + w
  <1> DEFINE e == Damage(d, x, w)
             l == Min({d.damage.left, x})
             r == Max({d.damage.right, x + w})
  <1>1. /\ DOMAIN e = DispFields /\ e.back = d.back /\ e.shown = d.shown /\ e.damage = [left |-> l, right |-> r]
        /\ e.x = d.x /\ e.w = d.w /\ e.clip = d.clip /\ e.queue = d.queue /\ e.flushing = d.flushing
    BY DEF Damage, Typed, DispFields
  <1>2. d.damage.left \in Nat /\ d.damage.right \in Nat
    BY DEF Typed
  <1>3. l \in Nat /\ l <= d.damage.left /\ l <= x
    BY <1>2, MinMax
  <1>4. r \in Nat /\ r >= d.damage.right /\ r >= x + w
    <2> DEFINE z == x + w
    <2>1. z \in Nat
      OBVIOUS
    <2> HIDE DEF z
    <2>2. Max({d.damage.right, z}) = (IF d.damage.right >= z THEN d.damage.right ELSE z)
      <3> DEFINE y == d.damage.right
      <3>1. y \in Int /\ z \in Int
        BY <1>2, <2>1
      <3> HIDE DEF y
      <3>2. Max({y, z}) = (IF y >= z THEN y ELSE z)
        BY <3>1, MinMax
      <3> QED BY <3>2 DEF y
    <2>3. r = Max({d.damage.right, z})
      BY DEF z
    <2> HIDE DEF r
    <2>4. r \in Nat /\ r >= d.damage.right /\ r >= z
      BY <1>2, <2>1, <2>2, <2>3
    <2> QED BY <2>4 DEF z
  <1> HIDE DEF e, l, r
  <1>5. Typed(e)
    BY <1>1, <1>3, <1>4 DEF Typed
  <1> QED BY <1>1, <1>3, <1>4, <1>5 DEF Placed, e

\* An action is performed.
LEMMA Performing ==
  ASSUME NEW d, Typed(d), Fits(d), Tracked(d), NEW a \in Actions
  PROVE LET e == Perform(d, a)
        IN  Typed(e) /\ Fits(e) /\ Tracked(e) /\ Placed(d, e) /\ e.back = Step(d.back, a)
  <1> DEFINE e == Perform(d, a)
  <1>1. CASE a.type = "flip"
    <2>1. e = Show(d)
      BY <1>1 DEF Perform
    <2> HIDE DEF e
    <2> QED BY <1>1, <2>1, Showing DEF Step, Fits, Placed, e
  <1>2. CASE a.type # "flip"
    <2> DEFINE q == Painted(d.back, a)
               b == [d EXCEPT !.back = q]
    <2>1. a.x \in Nat \ {0} /\ (a.type # "copy" => a.colour \in Nat)
      BY <1>2, ActionIs
    <2>2. q \in Seq(Nat) /\ Len(q) = Len(d.back) /\ \A i \in 1..Len(d.back) : i # a.x => q[i] = d.back[i]
      BY <2>1, PaintedIs DEF Typed
    <2> HIDE DEF q
    <2>3. /\ b.back = q /\ b.shown = d.shown /\ b.x = d.x /\ b.w = d.w /\ b.clip = d.clip /\ b.queue = d.queue
          /\ b.flushing = d.flushing /\ b.damage = d.damage /\ DOMAIN b = DispFields
      BY DEF Typed, DispFields
    <2>4. e = Damage(b, a.x - 1, 1)
      BY <1>2 DEF Perform, q
    <2> HIDE DEF b, e
    <2>5. Typed(b)
      BY <2>2, <2>3 DEF Typed
    <2>6. a.x - 1 \in Nat /\ 1 \in Nat /\ a.x - 1 < a.x /\ a.x = (a.x - 1) + 1
      BY <2>1
    <2>7. /\ Typed(e) /\ Placed(b, e) /\ e.back = b.back /\ e.shown = b.shown
          /\ e.damage.left <= b.damage.left /\ e.damage.left <= a.x - 1
          /\ e.damage.right >= b.damage.right /\ e.damage.right >= (a.x - 1) + 1
      BY <2>4, <2>5, <2>6, Damaging
    <2>8. Placed(d, e) /\ e.back = q
      BY <2>2, <2>3, <2>7 DEF Placed
    <2>9. Tracked(e)
      <3> SUFFICES ASSUME NEW i \in 1..d.w
                   PROVE e.back[d.x + i] \in {Blank, e.shown[i]} \/ (e.damage.left < d.x + i /\ d.x + i <= e.damage.right)
        BY <2>8 DEF Tracked, Placed
      <3>1. d.x + i \in 1..Len(d.back)
        BY PixelsOf
      <3>2. CASE d.x + i = a.x
        <4>1. e.damage.left \in Nat /\ e.damage.right \in Nat /\ a.x \in Nat
          BY <2>1, <2>7 DEF Typed
        <4>2. e.damage.left <= a.x - 1 /\ e.damage.right >= (a.x - 1) + 1
          BY <2>7
        <4>3. e.damage.left < a.x /\ a.x <= e.damage.right
          BY <4>1, <4>2
        <4> QED BY <3>2, <4>3
      <3>3. CASE d.x + i # a.x
        <4>1. e.back[d.x + i] = d.back[d.x + i] /\ e.shown[i] = d.shown[i]
          BY <2>2, <2>3, <2>7, <2>8, <3>1, <3>3
        <4>2. d.back[d.x + i] \in {Blank, d.shown[i]} \/ (d.damage.left < d.x + i /\ d.x + i <= d.damage.right)
          BY DEF Tracked
        <4>3. /\ d.damage.left \in Nat /\ d.damage.right \in Nat /\ e.damage.left \in Nat /\ e.damage.right \in Nat
              /\ e.damage.left <= d.damage.left /\ e.damage.right >= d.damage.right
          BY <2>3, <2>7 DEF Typed
        <4>4. d.x + i \in Nat
          BY <3>1 DEF Typed
        <4> HIDE DEF Blank
        <4> QED BY <4>1, <4>2, <4>3, <4>4
      <3> QED BY <3>2, <3>3
    <2>10. Fits(e)
      BY <2>2, <2>8 DEF Fits, Placed
    <2> QED BY <1>2, <2>7, <2>8, <2>9, <2>10 DEF Step, q, e
  <1> QED BY <1>1, <1>2

-----------------------------------------------------------------------------
(* Folds, as runs from one state to the next.                              *)

\* What holds at 0 and is handed on holds up to n.
LEMMA Climbing ==
  ASSUME NEW S, NEW n \in Nat, 0 \in S, \A i \in Nat : i < n /\ i \in S => i + 1 \in S
  PROVE \A i \in 0..n : i \in S
  <1> DEFINE Bad == {i \in Nat : i <= n /\ i \notin S}
  <1>1. SUFFICES ASSUME Bad # {} PROVE FALSE
    OBVIOUS
  <1>2. IsWellFoundedOn(OpToRel(<, Nat), Nat)
    BY NatLessThanWellFounded
  <1>3. PICK i \in Bad : \A k \in Bad : <<k, i>> \notin OpToRel(<, Nat)
    <2>1. Bad \subseteq Nat
      OBVIOUS
    <2> HIDE DEF Bad
    <2> QED BY <1>1, <1>2, <2>1, WFMin
  <1>4. i \in Nat /\ i <= n /\ i \notin S /\ i # 0
    OBVIOUS
  <1>5. i - 1 \in Nat /\ i - 1 < i /\ i - 1 < n /\ i - 1 <= n /\ (i - 1) + 1 = i
    BY <1>4
  <1>6. <<i - 1, i>> \in OpToRel(<, Nat)
    BY <1>4, <1>5 DEF OpToRel
  <1>7. i - 1 \notin Bad
    BY <1>3, <1>6
  <1>8. i - 1 \in S
    BY <1>5, <1>7
  <1> QED BY <1>4, <1>5, <1>8

\* A step of the display, or of the handling of what has arrived.
Do(kind, y, x) == IF kind = "draw" THEN Perform(y, x) ELSE Turn(y, x)

\* The function a fold is taken from.
Iterated(kind, it, a, w, n) ==
    [S \in SUBSET (1..n) |-> IF S = {} THEN a ELSE Do(kind, it[S \ {Max(S)}], w[Max(S)])]

\* The largest of some numbers that start at 1.
LEMMA MaxIs ==
  ASSUME NEW n \in Nat, NEW S \in SUBSET (1..n), n \in S PROVE Max(S) = n
  <1>1. /\ n \in S /\ \A y \in S : n >= y
    OBVIOUS
  <1>2. ASSUME NEW x \in S, \A y \in S : x >= y PROVE x = n
    BY <1>2
  <1> QED BY <1>1, <1>2 DEF Max

\* It exists.
LEMMA SomeIterated ==
  ASSUME NEW kind, NEW a, NEW w, NEW m \in Nat PROVE \E it : it = Iterated(kind, it, a, w, m)
  <1> DEFINE E(n) == \E it : it = Iterated(kind, it, a, w, n)
             Good == {n \in Nat : E(n)}
  <1>1. 0 \in Good
    <2> DEFINE it == [S \in SUBSET (1..0) |-> a]
    <2>1. it = Iterated(kind, it, a, w, 0)
      <3>1. \A S \in SUBSET (1..0) : S = {}
        OBVIOUS
      <3> QED BY <3>1 DEF Iterated
    <2>2. E(0)
      BY <2>1
    <2> QED BY <2>2
  <1>2. ASSUME NEW k \in Nat, k \in Good PROVE k + 1 \in Good
    <2> DEFINE n == k + 1
    <2>1. PICK it : it = Iterated(kind, it, a, w, k)
      BY <1>2
    <2> DEFINE next == [S \in SUBSET (1..n) |-> IF n \in S THEN Do(kind, it[S \ {n}], w[n]) ELSE it[S]]
               Body(S) == IF S = {} THEN a ELSE Do(kind, next[S \ {Max(S)}], w[Max(S)])
    <2>2. n \in Nat
      OBVIOUS
    <2>3. \A S \in SUBSET (1..n) : n \notin S => S \in SUBSET (1..k)
      OBVIOUS
    <2> HIDE DEF n
    <2>4. ASSUME NEW S \in SUBSET (1..n) PROVE next[S] = Body(S)
      <3>1. CASE n \in S
        <4>1. Max(S) = n /\ S # {}
          BY <2>2, <3>1, MaxIs
        <4>2. next[S \ {n}] = it[S \ {n}]
          OBVIOUS
        <4>3. next[S] = Do(kind, it[S \ {n}], w[n])
          BY <3>1
        <4> HIDE DEF next
        <4> QED BY <4>1, <4>2, <4>3
      <3>2. CASE n \notin S
        <4>1. S \in SUBSET (1..k)
          BY <2>3, <3>2
        <4>2. it[S] = IF S = {} THEN a ELSE Do(kind, it[S \ {Max(S)}], w[Max(S)])
          BY <2>1, <4>1 DEF Iterated
        <4>3. next[S] = it[S] /\ next[S \ {Max(S)}] = it[S \ {Max(S)}]
          BY <3>2
        <4> HIDE DEF next
        <4> QED BY <4>2, <4>3
      <3> QED BY <3>1, <3>2
    <2>5. next = Iterated(kind, next, a, w, n)
      <3>1. next = [S \in SUBSET (1..n) |-> next[S]]
        OBVIOUS
      <3> HIDE DEF next
      <3>2. [S \in SUBSET (1..n) |-> next[S]] = [S \in SUBSET (1..n) |-> Body(S)]
        BY <2>4
      <3> QED BY <3>1, <3>2, Zenon DEF Iterated
    <2> HIDE DEF next
    <2>6. E(n)
      BY <2>5
    <2> QED BY <2>2, <2>6 DEF n
  <1> HIDE DEF Good
  <1>3. m \in Good
    <2>1. \A i \in 0..m : i \in Good
      BY <1>1, <1>2, Climbing
    <2> QED BY <2>1
  <1> QED BY <1>3 DEF Good

\* The steps of w are done one after the other, from a.
Runs(kind, t, a, w) ==
    /\ t[0] = a
    /\ \A i \in Nat : i < Len(w) => t[i + 1] = Do(kind, t[i], w[i + 1])

\* A function the fold is taken from makes a run.
LEMMA IteratedRuns ==
  ASSUME NEW kind, NEW T, NEW w \in Seq(T), NEW a, NEW it, it = Iterated(kind, it, a, w, Len(w))
  PROVE \E t : Runs(kind, t, a, w) /\ t[Len(w)] = it[1..Len(w)]
  <1> DEFINE n == Len(w)
             t == [i \in Nat |-> it[1..i]]
  <1>1. n \in Nat
    OBVIOUS
  <1>2. it = Iterated(kind, it, a, w, n)
    OBVIOUS
  <1> HIDE DEF n
  <1>4. it[{}] = a /\ 1..0 = {}
    BY <1>2 DEF Iterated
  <1>5. ASSUME NEW i \in Nat, i < n PROVE it[1..(i + 1)] = Do(kind, it[1..i], w[i + 1])
    <2> DEFINE S == 1..(i + 1)
    <2>1. S \in SUBSET (1..n) /\ S # {} /\ i + 1 \in S /\ i + 1 \in Nat
      BY <1>1, <1>5
    <2>2. Max(S) = i + 1
      BY <2>1, MaxIs
    <2>3. S \ {i + 1} = 1..i
      OBVIOUS
    <2>4. it[S] = Do(kind, it[S \ {Max(S)}], w[Max(S)])
      <3> HIDE DEF S
      <3> QED BY <1>2, <2>1 DEF Iterated
    <2> QED BY <2>2, <2>3, <2>4
  <1>6. Runs(kind, t, a, w)
    BY <1>4, <1>5 DEF Runs, n
  <1>7. t[n] = it[1..n]
    BY <1>1
  <1> QED BY <1>6, <1>7 DEF n

\* Drawing a queue is a run.
LEMMA DrawRuns ==
  ASSUME NEW T, NEW w \in Seq(T), NEW a
  PROVE \E t : Runs("draw", t, a, w) /\ t[Len(w)] = FoldLeft(Perform, a, w)
  <1> DEFINE n == Len(w)
             it == CHOOSE f : f = [S \in SUBSET (1..n) |-> IF S = {} THEN a ELSE Perform(f[S \ {Max(S)}], w[Max(S)])]
  <1>1. n \in Nat /\ DOMAIN w = 1..n
    OBVIOUS
  <1>2. \A f : Iterated("draw", f, a, w, n)
                = [S \in SUBSET (1..n) |-> IF S = {} THEN a ELSE Perform(f[S \ {Max(S)}], w[Max(S)])]
    BY DEF Iterated, Do
  <1>3. \E f : f = [S \in SUBSET (1..n) |-> IF S = {} THEN a ELSE Perform(f[S \ {Max(S)}], w[Max(S)])]
    <2>1. PICK g : g = Iterated("draw", g, a, w, n)
      BY <1>1, SomeIterated
    <2>2. g = [S \in SUBSET (1..n) |-> IF S = {} THEN a ELSE Perform(g[S \ {Max(S)}], w[Max(S)])]
      BY <1>2, <2>1
    <2> QED BY <2>2
  <1>4. it = [S \in SUBSET (1..n) |-> IF S = {} THEN a ELSE Perform(it[S \ {Max(S)}], w[Max(S)])]
    BY <1>3
  <1>5. FoldLeft(Perform, a, w) = it[1..n]
    BY <1>1, Zenon DEF FoldLeft, MapThenFoldSet
  <1> HIDE DEF it
  <1>6. it = Iterated("draw", it, a, w, Len(w))
    BY <1>2, <1>4
  <1> QED BY <1>5, <1>6, IteratedRuns

\* Handling what has arrived is a run.
LEMMA TurnRuns ==
  ASSUME NEW T, NEW w \in Seq(T), NEW a
  PROVE \E t : Runs("turn", t, a, w) /\ t[Len(w)] = FoldLeft(Turn, a, w)
  <1> DEFINE n == Len(w)
             it == CHOOSE f : f = [S \in SUBSET (1..n) |-> IF S = {} THEN a ELSE Turn(f[S \ {Max(S)}], w[Max(S)])]
  <1>1. n \in Nat /\ DOMAIN w = 1..n
    OBVIOUS
  <1>2. \A f : Iterated("turn", f, a, w, n)
                = [S \in SUBSET (1..n) |-> IF S = {} THEN a ELSE Turn(f[S \ {Max(S)}], w[Max(S)])]
    BY DEF Iterated, Do
  <1>3. \E f : f = [S \in SUBSET (1..n) |-> IF S = {} THEN a ELSE Turn(f[S \ {Max(S)}], w[Max(S)])]
    <2>1. PICK g : g = Iterated("turn", g, a, w, n)
      BY <1>1, SomeIterated
    <2>2. g = [S \in SUBSET (1..n) |-> IF S = {} THEN a ELSE Turn(g[S \ {Max(S)}], w[Max(S)])]
      BY <1>2, <2>1
    <2> QED BY <2>2
  <1>4. it = [S \in SUBSET (1..n) |-> IF S = {} THEN a ELSE Turn(it[S \ {Max(S)}], w[Max(S)])]
    BY <1>3
  <1>5. FoldLeft(Turn, a, w) = it[1..n]
    BY <1>1, Zenon DEF FoldLeft, MapThenFoldSet
  <1> HIDE DEF it
  <1>6. it = Iterated("turn", it, a, w, Len(w))
    BY <1>2, <1>4
  <1> QED BY <1>5, <1>6, IteratedRuns

-----------------------------------------------------------------------------
(* What the pixels become.                                                 *)

\* The pixels p, with the queue q drawn, are r.
Drawing(p, q, r) ==
    \E g : g[0] = p /\ g[Len(q)] = r /\ \A i \in 1..Len(q) : g[i] = Step(g[i - 1], q[i])

\* They are one thing only, and the state of an image or of a frame is not looked at.
LEMMA DrawingOnce ==
  ASSUME NEW p, NEW q \in Seq(Actions), NEW u \in Seq(Actions), NEW r, NEW s, Drawing(p, q, r),
         Drawing(p, u, s),
         Len(q) = Len(u), \A i \in 1..Len(q) : \A b : Step(b, q[i]) = Step(b, u[i])
  PROVE r = s
  <1>1. PICK g : g[0] = p /\ g[Len(q)] = r /\ \A i \in 1..Len(q) : g[i] = Step(g[i - 1], q[i])
    BY DEF Drawing
  <1>2. PICK h : h[0] = p /\ h[Len(u)] = s /\ \A i \in 1..Len(u) : h[i] = Step(h[i - 1], u[i])
    BY DEF Drawing
  <1> DEFINE n == Len(q)
             S == {i \in Nat : g[i] = h[i]}
  <1>3. n \in Nat
    OBVIOUS
  <1>4. 0 \in S
    BY <1>1, <1>2
  <1>5. ASSUME NEW i \in Nat, i < n, i \in S PROVE i + 1 \in S
    <2>1. i + 1 \in 1..n /\ (i + 1) - 1 = i /\ i + 1 \in Nat
      BY <1>3, <1>5
    <2>2. g[i + 1] = Step(g[i], q[i + 1])
      BY <1>1, <2>1
    <2>3. h[i + 1] = Step(h[i], u[i + 1])
      BY <1>2, <2>1
    <2>4. g[i] = h[i]
      BY <1>5
    <2> QED BY <2>1, <2>2, <2>3, <2>4
  <1> HIDE DEF S
  <1>6. n \in S
    BY <1>3, <1>4, <1>5, Climbing
  <1> QED BY <1>1, <1>2, <1>6 DEF S

\* Two queues one after the other.
LEMMA DrawingJoins ==
  ASSUME NEW q \in Seq(Actions), NEW n \in 0..Len(q), NEW u \in Seq(Actions), NEW v \in Seq(Actions),
         Len(u) = n, \A i \in 1..n : u[i] = q[i],
         Len(v) = Len(q) - n, \A i \in 1..(Len(q) - n) : v[i] = q[n + i],
         NEW p, NEW r, NEW s, Drawing(p, u, r), Drawing(r, v, s)
  PROVE Drawing(p, q, s)
  <1>1. PICK g : g[0] = p /\ g[n] = r /\ \A i \in 1..n : g[i] = Step(g[i - 1], u[i])
    BY DEF Drawing
  <1>2. PICK h : h[0] = r /\ h[Len(q) - n] = s /\ \A i \in 1..(Len(q) - n) : h[i] = Step(h[i - 1], v[i])
    BY DEF Drawing
  <1> DEFINE m == Len(q)
             k == [i \in Nat |-> IF i <= n THEN g[i] ELSE h[i - n]]
  <1>3. m \in Nat /\ n \in Nat /\ n <= m
    OBVIOUS
  <1> HIDE DEF m
  <1>4. k[0] = p
    BY <1>1, <1>3
  <1>5. k[m] = s
    <2>1. CASE m = n
      <3>1. m - n = 0
        BY <1>3, <2>1
      <3> QED BY <1>1, <1>2, <1>3, <2>1, <3>1 DEF m
    <2>2. CASE m # n
      BY <1>2, <1>3, <2>2 DEF m
    <2> QED BY <2>1, <2>2
  <1>6. ASSUME NEW i \in 1..m PROVE k[i] = Step(k[i - 1], q[i])
    <2>1. CASE i <= n
      <3>1. i \in 1..n /\ i \in Nat /\ i - 1 \in Nat /\ i - 1 <= n
        BY <1>3, <2>1
      <3>2. k[i] = g[i] /\ k[i - 1] = g[i - 1]
        BY <2>1, <3>1
      <3>3. u[i] = q[i]
        BY <3>1
      <3>4. g[i] = Step(g[i - 1], u[i])
        BY <1>1, <3>1
      <3> QED BY <3>2, <3>3, <3>4
    <2>2. CASE ~(i <= n)
      <3>1. i - n \in 1..(m - n) /\ i \in Nat /\ i - 1 \in Nat /\ n + (i - n) = i /\ (i - n) - 1 = (i - 1) - n
        BY <1>3, <2>2
      <3>2. k[i] = h[i - n]
        BY <2>2, <3>1
      <3>3. k[i - 1] = h[(i - n) - 1]
        <4>1. CASE i - 1 <= n
          <5>1. i - 1 = n /\ (i - n) - 1 = 0
            BY <1>3, <2>2, <3>1, <4>1
          <5> QED BY <1>1, <1>2, <3>1, <5>1
        <4>2. CASE ~(i - 1 <= n)
          BY <3>1, <4>2
        <4> QED BY <4>1, <4>2
      <3>4. v[i - n] = q[i]
        BY <3>1 DEF m
      <3>5. h[i - n] = Step(h[(i - n) - 1], v[i - n])
        BY <1>2, <3>1 DEF m
      <3> HIDE DEF k
      <3> QED BY <3>2, <3>3, <3>4, <3>5
    <2> QED BY <2>1, <2>2
  <1> HIDE DEF k
  <1> QED BY <1>4, <1>5, <1>6 DEF Drawing, m

\* One action more.
LEMMA DrawingMore ==
  ASSUME NEW p, NEW q \in Seq(Actions), NEW a \in Actions, NEW r, Drawing(p, q, r)
  PROVE Drawing(p, Append(q, a), Step(r, a))
  <1> DEFINE v == <<a>>
             w == Append(q, a)
             h == [i \in Nat |-> IF i = 0 THEN r ELSE Step(r, a)]
  <1>1. v \in Seq(Actions) /\ Len(v) = 1 /\ v[1] = a
    OBVIOUS
  <1>2. Drawing(r, v, Step(r, a))
    <2>1. h[0] = r /\ h[1] = Step(r, a)
      OBVIOUS
    <2> HIDE DEF h
    <2> QED BY <1>1, <2>1 DEF Drawing
  <1>3. w \in Seq(Actions) /\ Len(w) = Len(q) + 1 /\ (\A i \in 1..Len(q) : w[i] = q[i]) /\ w[Len(q) + 1] = a
    OBVIOUS
  <1>4. Len(q) \in 0..Len(w)
    BY <1>3
  <1>5. Len(v) = Len(w) - Len(q) /\ \A i \in 1..(Len(w) - Len(q)) : v[i] = w[Len(q) + i]
    BY <1>1, <1>3
  <1> HIDE DEF v, w, h
  <1>6. Drawing(p, w, Step(r, a))
    BY <1>1, <1>2, <1>3, <1>4, <1>5, DrawingJoins
  <1> QED BY <1>6 DEF w

\* A display that performs a queue is left with these pixels.
LEMMA PerformDraws ==
  ASSUME NEW d, DOMAIN d = DispFields, NEW q \in Seq(Actions)
  PROVE Drawing(d.back, q, FoldLeft(Perform, d, q).back)
  <1>1. ASSUME NEW e, DOMAIN e = DispFields, NEW a
        PROVE DOMAIN Perform(e, a) = DispFields /\ Perform(e, a).back = Step(e.back, a)
    BY <1>1 DEF Perform, Show, Damage, Step, DispFields
  <1>2. PICK t : Runs("draw", t, d, q) /\ t[Len(q)] = FoldLeft(Perform, d, q)
    BY DrawRuns
  <1> DEFINE n == Len(q)
             S == {i \in Nat : DOMAIN t[i] = DispFields}
             g == [i \in Nat |-> t[i].back]
  <1>3. n \in Nat
    OBVIOUS
  <1>4. t[0] = d /\ \A i \in Nat : i < n => t[i + 1] = Perform(t[i], q[i + 1])
    BY <1>2 DEF Runs, Do
  <1>5. 0 \in S
    BY <1>4
  <1>6. \A i \in Nat : i < n /\ i \in S => i + 1 \in S
    BY <1>1, <1>4
  <1>7. \A i \in 0..n : i \in S
    <2> HIDE DEF S, n
    <2> QED BY <1>3, <1>5, <1>6, Climbing
  <1>8. ASSUME NEW i \in 1..n PROVE g[i] = Step(g[i - 1], q[i])
    <2>1. i - 1 \in Nat /\ i \in Nat /\ i - 1 < n /\ i - 1 \in 0..n /\ (i - 1) + 1 = i
      BY <1>3
    <2>2. t[i] = Perform(t[i - 1], q[i])
      BY <1>4, <2>1
    <2>3. DOMAIN t[i - 1] = DispFields
      BY <1>7, <2>1
    <2>4. t[i].back = Step(t[i - 1].back, q[i])
      BY <1>1, <2>2, <2>3
    <2> QED BY <2>1, <2>4
  <1>9. g[0] = d.back /\ g[n] = FoldLeft(Perform, d, q).back
    BY <1>2, <1>3, <1>4
  <1> HIDE DEF g
  <1> QED BY <1>8, <1>9 DEF Drawing

\* Performing a queue keeps the display in order.
LEMMA PerformKeeps ==
  ASSUME NEW d, Typed(d), Fits(d), Tracked(d), NEW q \in Seq(Actions)
  PROVE LET e == FoldLeft(Perform, d, q) IN Typed(e) /\ Fits(e) /\ Tracked(e) /\ Placed(d, e)
  <1>2. PICK t : Runs("draw", t, d, q) /\ t[Len(q)] = FoldLeft(Perform, d, q)
    BY DrawRuns
  <1> DEFINE n == Len(q)
             S == {i \in Nat : Typed(t[i]) /\ Fits(t[i]) /\ Tracked(t[i]) /\ Placed(d, t[i])}
  <1>3. n \in Nat /\ \A i \in 1..n : q[i] \in Actions
    OBVIOUS
  <1>4. t[0] = d /\ \A i \in Nat : i < n => t[i + 1] = Perform(t[i], q[i + 1])
    BY <1>2 DEF Runs, Do
  <1>5. 0 \in S
    BY <1>4 DEF Placed
  <1>6. ASSUME NEW i \in Nat, i < n, i \in S PROVE i + 1 \in S
    <2>1. i + 1 \in 1..n /\ q[i + 1] \in Actions
      BY <1>3, <1>6
    <2>2. Typed(t[i]) /\ Fits(t[i]) /\ Tracked(t[i]) /\ Placed(d, t[i])
      BY <1>6
    <2> DEFINE a == q[i + 1]
               e == Perform(t[i], a)
    <2>3. Typed(e) /\ Fits(e) /\ Tracked(e) /\ Placed(t[i], e)
      <3>1. a \in Actions
        BY <2>1
      <3> HIDE DEF a
      <3> QED BY <2>2, <3>1, Performing
    <2>4. t[i + 1] = e
      BY <1>4, <1>6
    <2> HIDE DEF e
    <2>5. Placed(d, e)
      BY <2>2, <2>3 DEF Placed
    <2> QED BY <2>3, <2>4, <2>5
  <1>7. n \in S
    <2> HIDE DEF S, n
    <2> QED BY <1>3, <1>5, <1>6, Climbing
  <1> QED BY <1>2, <1>7

\* How many operations at the head of a queue are ready.
LEMMA ReadyCountIs ==
  ASSUME NEW q \in Seq(Actions)
  PROVE LET n == ReadyCount(q)
        IN  /\ n \in 0..Len(q) /\ (\A i \in 1..n : Ready(q[i]))
            /\ n < Len(q) => ~Ready(q[n + 1])
  <1> DEFINE R == {n \in 0..Len(q) : \A i \in 1..n : Ready(q[i])}
             S == {i \in Nat : i \in R}
             n == ReadyCount(q)
  <1>1. Len(q) \in Nat
    OBVIOUS
  <1>2. 0 \in R
    BY <1>1
  <1>3. \E m \in R : \A y \in R : m >= y
    <2>1. CASE \E m \in R : m < Len(q) /\ ~Ready(q[m + 1])
      <3>1. PICK m \in R : m < Len(q) /\ ~Ready(q[m + 1])
        BY <2>1
      <3>2. ASSUME NEW y \in R PROVE m >= y
        <4>1. SUFFICES ASSUME y > m PROVE FALSE
          BY <1>1
        <4>2. m + 1 \in 1..y
          BY <1>1, <4>1
        <4> QED BY <3>1, <4>2
      <3> QED BY <3>2
    <2>2. CASE \A m \in R : m < Len(q) => Ready(q[m + 1])
      <3>1. ASSUME NEW i \in Nat, i < Len(q), i \in R PROVE i + 1 \in R
        <4>1. Ready(q[i + 1])
          BY <2>2, <3>1
        <4>2. \A j \in 1..(i + 1) : Ready(q[j])
          <5>1. \A j \in 1..(i + 1) : j = i + 1 \/ j \in 1..i
            OBVIOUS
          <5> QED BY <3>1, <4>1, <5>1
        <4> QED BY <1>1, <3>1, <4>2
      <3> DEFINE k == Len(q)
      <3>2. \A i \in Nat : i < k /\ i \in R => i + 1 \in R
        BY <3>1
      <3>3. k \in R
        <4>1. k \in Nat
          OBVIOUS
        <4> HIDE DEF R, k
        <4>2. \A i \in 0..k : i \in R
          BY <1>2, <3>2, <4>1, Climbing
        <4> QED BY <4>1, <4>2
      <3>4. \A y \in R : k >= y
        BY <1>1
      <3> QED BY <3>3, <3>4
    <2> QED BY <2>1, <2>2
  <1>4. n \in R /\ \A y \in R : n >= y
    <2>1. n = CHOOSE m \in R : \A y \in R : m >= y
      BY DEF ReadyCount, Max
    <2> HIDE DEF R, n
    <2> QED BY <1>3, <2>1
  <1> HIDE DEF n
  <1>5. ASSUME n < Len(q), Ready(q[n + 1]) PROVE FALSE
    <2>1. n + 1 \in R
      <3>1. \A j \in 1..(n + 1) : j = n + 1 \/ j \in 1..n
        BY <1>4
      <3>2. \A j \in 1..(n + 1) : Ready(q[j])
        BY <1>4, <1>5, <3>1
      <3>3. n + 1 \in 0..Len(q)
        BY <1>1, <1>4, <1>5
      <3> QED BY <3>2, <3>3
    <2>2. n \in Nat /\ n >= n + 1
      BY <1>4, <2>1
    <2> QED BY <2>2
  <1> QED BY <1>4, <1>5 DEF n

-----------------------------------------------------------------------------
(* The queue.                                                              *)

\* What will be drawn, as pixels.
LEMMA DrawnIs ==
  ASSUME NEW d, Typed(d) PROVE Drawing(d.back, d.queue, Drawn(d))
  BY PerformDraws DEF Typed, Drawn

\* The types and the promises of the queue, whatever the viewport.
Steady(d) == Typed(d) /\ Blocked(d) /\ Awaited(d)

\* What is ready is drawn, and nothing else changes.
LEMMA Scanning ==
  ASSUME NEW d, Typed(d), Fits(d), Tracked(d), d.flushing => d.queue # <<>>
  PROVE LET e == ScanRenderQ(d)
            n == ReadyCount(d.queue)
        IN  /\ Screen(e) /\ Drawn(e) = Drawn(d) /\ (e.flushing => d.flushing)
            /\ Len(e.back) = Len(d.back)
            /\ n \in 0..Len(d.queue) /\ Len(e.queue) = Len(d.queue) - n
            /\ (\A i \in 1..n : Ready(d.queue[i]))
            /\ \A i \in 1..Len(e.queue) : e.queue[i] = d.queue[n + i]
  <1> DEFINE q == d.queue
             m == Len(q)
             n == ReadyCount(q)
             u == SubSeq(q, 1, n)
             v == SubSeq(q, n + 1, m)
             f == FoldLeft(Perform, d, u)
             e == ScanRenderQ(d)
  <1>1. q \in Seq(Actions) /\ m \in Nat /\ DOMAIN d = DispFields
    BY DEF Typed
  <1>2. n \in 0..m /\ (\A i \in 1..n : Ready(q[i])) /\ (n < m => ~Ready(q[n + 1]))
    <2> HIDE DEF q
    <2> QED BY <1>1, ReadyCountIs
  <1> HIDE DEF n
  <1>3. u \in Seq(Actions) /\ Len(u) = n /\ \A i \in 1..n : u[i] = q[i]
    <2>1. \A i \in 1..n : q[i] \in Actions
      BY <1>1, <1>2
    <2> HIDE DEF q, m
    <2>2. n \in Int /\ 1 \in Int /\ (IF 1 <= n THEN n - 1 + 1 ELSE 0) = n /\ n - 1 + 1 = n
      BY <1>1, <1>2
    <2>3. /\ u \in Seq(Actions) /\ Len(u) = (IF 1 <= n THEN n - 1 + 1 ELSE 0)
          /\ \A i \in 1..n - 1 + 1 : u[i] = q[1 + i - 1]
      BY <2>1, <2>2, SubSeqProperties
    <2> HIDE DEF u
    <2> QED BY <2>2, <2>3
  <1>4. v \in Seq(Actions) /\ Len(v) = m - n /\ \A i \in 1..(m - n) : v[i] = q[n + i]
    <2>1. \A i \in (n + 1)..m : q[i] \in Actions
      BY <1>1, <1>2
    <2> HIDE DEF q, m
    <2>2. /\ m \in Int /\ n + 1 \in Int /\ (IF n + 1 <= m THEN m - (n + 1) + 1 ELSE 0) = m - n
          /\ m - (n + 1) + 1 = m - n
      BY <1>1, <1>2
    <2>3. /\ v \in Seq(Actions) /\ Len(v) = (IF n + 1 <= m THEN m - (n + 1) + 1 ELSE 0)
          /\ \A i \in 1..m - (n + 1) + 1 : v[i] = q[(n + 1) + i - 1]
      BY <2>1, <2>2, SubSeqProperties
    <2> HIDE DEF v
    <2>4. \A i \in 1..(m - n) : (n + 1) + i - 1 = n + i
      BY <1>1, <1>2
    <2> QED BY <2>2, <2>3, <2>4
  <1>5. Typed(f) /\ Fits(f) /\ Tracked(f) /\ Placed(d, f)
    <2> HIDE DEF u
    <2> QED BY <1>3, PerformKeeps
  <1>6. f.queue = q /\ f.flushing = d.flushing /\ Len(f.back) = Len(d.back) /\ DOMAIN f = DispFields
    BY <1>5 DEF Placed, Typed
  <1>7. Drawing(d.back, u, f.back)
    <2> HIDE DEF u
    <2> QED BY <1>1, <1>3, PerformDraws
  <1>8. /\ e.queue = v /\ e.flushing = (d.flushing /\ n < m) /\ e.back = f.back /\ e.shown = f.shown
        /\ e.x = f.x /\ e.w = f.w /\ e.clip = f.clip /\ e.damage = f.damage /\ DOMAIN e = DispFields
    <2>1. e = [f EXCEPT !.queue = SubSeq(@, n + 1, Len(@)), !.flushing = @ /\ n < Len(d.queue)]
      BY DEF ScanRenderQ, PerformFirst, n
    <2> HIDE DEF e, f
    <2> QED BY <1>6, <2>1 DEF DispFields
  <1> HIDE DEF e, f, u, v
  <1>9. Typed(e)
    <2>1. e.flushing \in BOOLEAN
      BY <1>8
    <2> HIDE DEF m, q
    <2> QED BY <1>4, <1>5, <1>8, <2>1 DEF Typed
  <1>10. Fits(e)
    BY <1>5, <1>8 DEF Fits
  <1>11. Tracked(e)
    BY <1>5, <1>8, Zenon DEF Tracked
  <1>12. Blocked(e)
    <2> SUFFICES ASSUME v # <<>> PROVE ~Ready(v[1])
      BY <1>8 DEF Blocked, Pending
    <2>1. n < m /\ 1 \in 1..(m - n)
      BY <1>1, <1>2, <1>4
    <2> QED BY <1>2, <1>4, <2>1
  <1>13. Awaited(e)
    <2> SUFFICES ASSUME n < m PROVE v # <<>>
      BY <1>8 DEF Awaited, Pending
    <2> QED BY <1>1, <1>2, <1>4
  <1>14. Drawn(e) = Drawn(d)
    <2>1. Drawing(e.back, v, Drawn(e))
      BY <1>8, <1>9, DrawnIs
    <2>2. Drawing(d.back, q, Drawn(e))
      <3> HIDE DEF q
      <3> QED BY <1>1, <1>2, <1>3, <1>4, <1>7, <1>8, <2>1, DrawingJoins
    <2>3. Drawing(d.back, q, Drawn(d))
      BY DrawnIs
    <2> HIDE DEF q
    <2> QED BY <1>1, <2>2, <2>3, DrawingOnce
  <1> QED BY <1>2, <1>4, <1>6, <1>8, <1>9, <1>10, <1>11, <1>12, <1>13, <1>14 DEF Screen, e, n

\* With an empty queue the buffer is what will be drawn.
LEMMA DrawnEmpty ==
  ASSUME NEW d, Typed(d), d.queue = <<>> PROVE Drawn(d) = d.back
  <1>1. Drawing(d.back, <<>>, Drawn(d))
    BY DrawnIs
  <1>2. PICK g : g[0] = d.back /\ g[Len(<<>>)] = Drawn(d)
    BY <1>1 DEF Drawing
  <1>3. Len(<<>>) = 0
    OBVIOUS
  <1> QED BY <1>2, <1>3

\* e is d with action a at the end.
Adds(d, e, a) ==
    /\ Screen(e) /\ Drawn(e) = Step(Drawn(d), a) /\ e.flushing = d.flushing /\ Len(e.back) = Len(d.back)
    /\ e.queue = IF d.queue # <<>> \/ ~Ready(a) THEN Append(d.queue, a) ELSE <<>>
    /\ a.type = "flip" => e.back = d.back

\* What is added to a sequence is its last.
LEMMA Appended ==
  ASSUME NEW T, NEW s \in Seq(T), NEW x \in T
  PROVE LET t == Append(s, x)
        IN  /\ t \in Seq(T) /\ t # <<>> /\ Len(t) = Len(s) + 1 /\ t[Len(s) + 1] = x
            /\ \A i \in 1..Len(s) : t[i] = s[i]
            /\ s # <<>> => t[1] = s[1]
            /\ s = <<>> => t[1] = x
  <1> DEFINE t == Append(s, x)
  <1>1. /\ t \in Seq(T) /\ t # <<>> /\ Len(t) = Len(s) + 1 /\ t[Len(s) + 1] = x
        /\ \A i \in 1..Len(s) : t[i] = s[i]
    OBVIOUS
  <1>2. s # <<>> => 1 \in 1..Len(s)
    BY EmptySeq
  <1>3. s = <<>> => Len(s) + 1 = 1
    OBVIOUS
  <1> HIDE DEF t
  <1> QED BY <1>1, <1>2, <1>3 DEF t

\* An action waits behind the others.
LEMMA Queueing ==
  ASSUME NEW d, Screen(d), NEW a \in Actions
  PROVE LET e == [d EXCEPT !.queue = Append(@, a)]
        IN  /\ Typed(e) /\ Fits(e) /\ Tracked(e) /\ Awaited(e) /\ Drawn(e) = Step(Drawn(d), a)
            /\ e.flushing = d.flushing /\ e.back = d.back /\ e.queue = Append(d.queue, a)
            /\ d.queue # <<>> => Blocked(e)
  <1> DEFINE e == [d EXCEPT !.queue = Append(@, a)]
             q == Append(d.queue, a)
  <1>1. d.queue \in Seq(Actions) /\ Typed(d) /\ Fits(d) /\ Tracked(d) /\ DOMAIN d = DispFields
    BY DEF Screen, Typed
  <1>2. q \in Seq(Actions) /\ q # <<>> /\ (d.queue # <<>> => q[1] = d.queue[1])
    BY <1>1, Appended
  <1>3. /\ e.back = d.back /\ e.shown = d.shown /\ e.x = d.x /\ e.w = d.w /\ e.clip = d.clip
        /\ e.damage = d.damage /\ e.flushing = d.flushing /\ e.queue = q /\ DOMAIN e = DispFields
    BY <1>1 DEF DispFields
  <1> HIDE DEF e
  <1>4. Typed(e)
    <2> HIDE DEF q
    <2> QED BY <1>1, <1>2, <1>3 DEF Typed
  <1>5. Fits(e)
    BY <1>1, <1>3 DEF Fits
  <1>6. Tracked(e)
    BY <1>1, <1>3, Zenon DEF Tracked
  <1>7. Awaited(e) /\ (d.queue # <<>> => Blocked(e))
    BY <1>2, <1>3 DEF Awaited, Blocked, Pending, Screen
  <1>8. Drawn(e) = Step(Drawn(d), a)
    <2>1. Drawing(e.back, q, Drawn(e))
      BY <1>3, <1>4, DrawnIs
    <2>2. Drawing(d.back, q, Step(Drawn(d), a))
      BY <1>1, DrawnIs, DrawingMore
    <2> HIDE DEF q
    <2> QED BY <1>2, <1>3, <2>1, <2>2, DrawingOnce
  <1> QED BY <1>3, <1>4, <1>5, <1>6, <1>7, <1>8 DEF e

\* An image or a frame that is not ready is queued.
LEMMA Pushing ==
  ASSUME NEW d, Screen(d), NEW a \in Actions, ~Ready(a) \/ d.queue # <<>>
  PROVE Adds(d, RenderQPush(d, a), a)
  <1> DEFINE more == [d EXCEPT !.queue = Append(@, a)]
             e == RenderQPush(d, a)
  <1>1. /\ Typed(more) /\ Fits(more) /\ Tracked(more) /\ Awaited(more) /\ Drawn(more) = Step(Drawn(d), a)
        /\ more.flushing = d.flushing /\ more.back = d.back /\ more.queue = Append(d.queue, a)
        /\ d.queue # <<>> => Blocked(more)
    BY Queueing
  <1>2. e = IF Len(more.queue) = 1 THEN ScanRenderQ(more) ELSE more
    BY DEF RenderQPush
  <1> HIDE DEF more, e
  <1>3. d.queue \in Seq(Actions) /\ (d.flushing => d.queue # <<>>)
    BY DEF Screen, Typed, Awaited, Pending
  <1>4. CASE d.queue # <<>>
    <2>1. Len(more.queue) # 1
      BY <1>1, <1>3, <1>4
    <2>2. e = more
      BY <1>2, <2>1
    <2> QED BY <1>1, <1>4, <2>2 DEF Adds, Screen, e
  <1>5. CASE d.queue = <<>>
    <2>1. more.queue = <<a>> /\ Len(more.queue) = 1 /\ more.queue[1] = a /\ more.queue # <<>>
      BY <1>1, <1>3, <1>5
    <2>2. e = ScanRenderQ(more)
      BY <1>2, <2>1
    <2> DEFINE n == ReadyCount(more.queue)
    <2>3. /\ Screen(e) /\ Drawn(e) = Drawn(more) /\ (e.flushing => more.flushing)
          /\ Len(e.back) = Len(more.back)
          /\ n \in 0..Len(more.queue) /\ Len(e.queue) = Len(more.queue) - n
          /\ (\A i \in 1..n : Ready(more.queue[i]))
          /\ \A i \in 1..Len(e.queue) : e.queue[i] = more.queue[n + i]
      BY <1>1, <2>1, <2>2, Scanning
    <2> HIDE DEF n
    <2>4. n = 0
      <3>1. n \in 0..1 /\ (n = 1 => Ready(a))
        BY <2>1, <2>3
      <3> QED BY <1>5, <3>1
    <2>5. Len(e.queue) = 1 /\ e.queue[1] = a
      BY <2>1, <2>3, <2>4
    <2>6. e.queue = <<a>>
      <3>1. e.queue \in Seq(Actions)
        BY <2>3 DEF Screen, Typed
      <3> QED BY <2>5, <3>1
    <2>7. e.flushing = d.flushing
      <3>1. ~d.flushing /\ ~e.flushing
        BY <1>1, <1>3, <1>5, <2>3
      <3>2. d.flushing \in BOOLEAN /\ e.flushing \in BOOLEAN
        BY <2>3 DEF Screen, Typed
      <3> QED BY <3>1, <3>2
    <2>8. e.queue = Append(d.queue, a)
      BY <1>1, <2>1, <2>6
    <2>9. a.type # "flip"
      BY <1>5 DEF Ready
    <2> QED BY <1>1, <1>5, <2>3, <2>7, <2>8, <2>9 DEF Adds, e
  <1> QED BY <1>4, <1>5

\* Any other action is performed, or queued behind what waits.
LEMMA Drawings ==
  ASSUME NEW d, Screen(d), NEW a \in Actions, Ready(a)
  PROVE Adds(d, Draw(d, a), a)
  <1>1. CASE d.queue # <<>>
    BY <1>1, Pushing DEF Draw, Pending
  <1>2. CASE d.queue = <<>>
    <2> DEFINE e == Perform(d, a)
    <2>1. e = Draw(d, a)
      BY <1>2 DEF Draw, Pending
    <2>2. Typed(e) /\ Fits(e) /\ Tracked(e) /\ Placed(d, e) /\ e.back = Step(d.back, a)
      BY Performing DEF Screen
    <2> HIDE DEF e
    <2>3. e.queue = <<>> /\ e.flushing = d.flushing /\ ~d.flushing
      BY <1>2, <2>2 DEF Placed, Screen, Awaited, Pending
    <2>4. Blocked(e) /\ Awaited(e)
      BY <2>3 DEF Blocked, Awaited, Pending
    <2>5. Drawn(e) = e.back /\ Drawn(d) = d.back
      BY <1>2, <2>2, <2>3, DrawnEmpty DEF Screen
    <2>6. a.type = "flip" => e.back = d.back
      BY <2>2 DEF Step
    <2> QED BY <1>2, <2>1, <2>2, <2>3, <2>4, <2>5, <2>6 DEF Adds, Screen, Placed
  <1> QED BY <1>1, <1>2

-----------------------------------------------------------------------------
(* The viewport.                                                           *)

FlipAction == [type |-> "flip"]

\* Only flips are added, and the buffer stays.
Shown(d, e) ==
    /\ e.back = d.back /\ e.flushing = d.flushing
    /\ Len(e.queue) >= Len(d.queue) /\ (d.queue = <<>> => e.queue = <<>>)
    /\ \A i \in 1..Len(e.queue) : e.queue[i] = IF i <= Len(d.queue) THEN d.queue[i] ELSE FlipAction

\* A flip is ready, and draws nothing on the hidden buffer.
LEMMA FlipIs == FlipAction \in Actions /\ Ready(FlipAction) /\ \A p : Step(p, FlipAction) = p
  BY DEF FlipAction, Actions, Ready, Step

\* One after the other.
LEMMA ShownTwice ==
  ASSUME NEW d, NEW e, NEW f, d.queue \in Seq(Actions), e.queue \in Seq(Actions), f.queue \in Seq(Actions),
         Shown(d, e), Shown(e, f)
  PROVE Shown(d, f)
  <1>1. Len(d.queue) \in Nat /\ Len(e.queue) \in Nat /\ Len(f.queue) \in Nat
    OBVIOUS
  <1>2. ASSUME NEW i \in 1..Len(f.queue) PROVE f.queue[i] = IF i <= Len(d.queue) THEN d.queue[i] ELSE FlipAction
    <2>1. f.queue[i] = IF i <= Len(e.queue) THEN e.queue[i] ELSE FlipAction
      BY DEF Shown
    <2>2. i <= Len(e.queue) => e.queue[i] = IF i <= Len(d.queue) THEN d.queue[i] ELSE FlipAction
      BY <1>1 DEF Shown
    <2>3. Len(e.queue) >= Len(d.queue)
      BY DEF Shown
    <2> QED BY <1>1, <2>1, <2>2, <2>3
  <1> QED BY <1>1, <1>2 DEF Shown

\* It leaves what will be drawn alone.
LEMMA ShownDraws ==
  ASSUME NEW d, NEW e, Typed(d), Typed(e), Shown(d, e)
  PROVE Drawn(e) = Drawn(d) /\ Pending(e) = Pending(d)
  <1> DEFINE n == Len(d.queue)
             m == Len(e.queue)
  <1>1. d.queue \in Seq(Actions) /\ e.queue \in Seq(Actions) /\ n \in Nat /\ m \in Nat /\ n <= m
    BY DEF Typed, Shown
  <1>2. PICK g : g[0] = d.back /\ g[n] = Drawn(d) /\ \A i \in 1..n : g[i] = Step(g[i - 1], d.queue[i])
    BY DrawnIs DEF Drawing
  <1> DEFINE h == [i \in Nat |-> IF i <= n THEN g[i] ELSE g[n]]
  <1>3. h[0] = d.back /\ h[m] = Drawn(d)
    <2>1. m <= n => m = n
      BY <1>1
    <2> QED BY <1>1, <1>2, <2>1
  <1>4. ASSUME NEW i \in 1..m PROVE h[i] = Step(h[i - 1], e.queue[i])
    <2>1. i \in Nat /\ i - 1 \in Nat /\ e.queue[i] = IF i <= n THEN d.queue[i] ELSE FlipAction
      BY <1>1 DEF Shown
    <2>2. CASE i <= n
      <3>1. i - 1 <= n /\ i \in 1..n
        BY <1>1, <2>1, <2>2
      <3>2. h[i] = g[i] /\ h[i - 1] = g[i - 1]
        BY <2>1, <2>2, <3>1
      <3> QED BY <1>2, <2>1, <2>2, <3>1, <3>2
    <2>3. CASE ~(i <= n)
      <3>1. h[i] = g[n]
        BY <2>1, <2>3
      <3>2. h[i - 1] = g[n]
        <4>1. i - 1 <= n => i - 1 = n
          BY <1>1, <2>1, <2>3
        <4> QED BY <2>1, <4>1
      <3> QED BY <2>1, <2>3, <3>1, <3>2, FlipIs
    <2> QED BY <2>2, <2>3
  <1> HIDE DEF h
  <1>5. Drawing(e.back, e.queue, Drawn(d))
    <2>1. e.back = d.back
      BY DEF Shown
    <2> QED BY <1>3, <1>4, <2>1 DEF Drawing
  <1>6. Drawing(e.back, e.queue, Drawn(e))
    BY DrawnIs
  <1>7. Drawn(e) = Drawn(d)
    BY <1>1, <1>5, <1>6, DrawingOnce
  <1>8. d.queue # <<>> => e.queue # <<>>
    <2>1. e.queue = <<>> => m = 0
      OBVIOUS
    <2>2. d.queue # <<>> => n # 0
      BY <1>1, EmptySeq
    <2> QED BY <1>1, <2>1, <2>2
  <1> QED BY <1>7, <1>8 DEF Pending, Shown

\* A flip keeps the promises.
LEMMA Flipping ==
  ASSUME NEW d, Screen(d) PROVE Screen(Flip(d)) /\ Shown(d, Flip(d))
  <1> DEFINE e == Flip(d)
  <1>1. Adds(d, e, FlipAction)
    BY FlipIs, Drawings DEF Flip, FlipAction
  <1> HIDE DEF e
  <1>2. FlipAction.type = "flip" /\ d.queue \in Seq(Actions) /\ Len(d.queue) \in Nat
    BY DEF FlipAction, Screen, Typed
  <1>3. Screen(e) /\ e.back = d.back /\ e.flushing = d.flushing
    BY <1>1, <1>2 DEF Adds
  <1>4. e.queue = IF d.queue # <<>> THEN Append(d.queue, FlipAction) ELSE <<>>
    BY <1>1, FlipIs DEF Adds
  <1>5. CASE d.queue = <<>>
    BY <1>3, <1>4, <1>5 DEF Shown, e
  <1>6. CASE d.queue # <<>>
    <2>1. /\ Len(e.queue) = Len(d.queue) + 1 /\ e.queue[Len(d.queue) + 1] = FlipAction
          /\ \A i \in 1..Len(d.queue) : e.queue[i] = d.queue[i]
      BY <1>2, <1>4, <1>6, FlipIs, Appended
    <2>2. ASSUME NEW i \in 1..Len(e.queue) PROVE e.queue[i] = IF i <= Len(d.queue) THEN d.queue[i] ELSE FlipAction
      <3>1. i <= Len(d.queue) => i \in 1..Len(d.queue)
        BY <1>2
      <3>2. ~(i <= Len(d.queue)) => i = Len(d.queue) + 1
        BY <1>2, <2>1
      <3> QED BY <2>1, <3>1, <3>2
    <2> QED BY <1>2, <1>3, <1>6, <2>1, <2>2 DEF Shown, e
  <1> QED BY <1>5, <1>6

\* Some of the fields of a display are others; the queue and the buffer stay.
Shifted(d, e) ==
    /\ Typed(e) /\ e.back = d.back /\ e.queue = d.queue /\ e.flushing = d.flushing

\* A move of the viewport alone leaves the queue as it was.
LEMMA ShiftedIs ==
  ASSUME NEW d, NEW e, Steady(d), Shifted(d, e) PROVE Steady(e) /\ Shown(d, e)
  <1>1. Blocked(e) /\ Awaited(e)
    BY DEF Blocked, Awaited, Pending, Shifted, Steady
  <1>2. d.queue \in Seq(Actions) /\ Len(d.queue) \in Nat
    BY DEF Steady, Typed
  <1> QED BY <1>1, <1>2 DEF Steady, Shown, Shifted

\* A display whose viewport may be out of the buffer, but fits.
Loose(d) == Steady(d) /\ d.w > 0 /\ d.w <= Len(d.back)

\* A move to a place in the buffer.
LEMMA Moving ==
  ASSUME NEW d, Loose(d), NEW move \in Int, d.x + move >= 0, d.x + move + d.w <= Len(d.back)
  PROVE LET e == Moved(d, move)
        IN  /\ Steady(e) /\ Fits(e) /\ Shown(d, e)
            /\ (Fits(d) => Tracked(d)) => Tracked(e)
  <1>1. Typed(d) /\ d.x \in Nat /\ d.w \in Nat /\ d.back \in Seq(Nat) /\ Len(d.back) \in Nat /\ d.queue \in Seq(Actions)
    BY DEF Loose, Steady, Typed
  <1>2. CASE move = 0
    <2>1. Moved(d, move) = d /\ d.x + move = d.x
      BY <1>1, <1>2 DEF Moved
    <2>2. Fits(d)
      BY <1>1, <1>2 DEF Fits, Loose
    <2>3. Shown(d, d)
      BY <1>1 DEF Shown
    <2> QED BY <2>1, <2>2, <2>3 DEF Loose
  <1>3. CASE move # 0
    <2> DEFINE a == [d EXCEPT !.x = @ + move]
               b == Damage(a, d.x + move, d.w)
               e == Flip(b)
    <2>1. Moved(d, move) = e
      BY <1>3 DEF Moved
    <2>2. /\ a.x = d.x + move /\ a.back = d.back /\ a.shown = d.shown /\ a.w = d.w /\ a.clip = d.clip
          /\ a.damage = d.damage /\ a.queue = d.queue /\ a.flushing = d.flushing /\ DOMAIN a = DispFields
      BY <1>1 DEF Typed, DispFields
    <2>3. d.x + move \in Nat
      BY <1>1
    <2> HIDE DEF a
    <2>4. Typed(a)
      BY <1>1, <2>2, <2>3 DEF Typed
    <2>5. /\ Typed(b) /\ Placed(a, b) /\ b.back = a.back /\ b.shown = a.shown
          /\ b.damage.left <= d.x + move /\ b.damage.right >= (d.x + move) + d.w
      BY <1>1, <2>3, <2>4, Damaging
    <2> HIDE DEF b
    <2>6. Shifted(d, b) /\ b.x = d.x + move /\ b.w = d.w
      BY <2>2, <2>5 DEF Shifted, Placed
    <2>7. Steady(b) /\ Shown(d, b)
      BY <2>6, ShiftedIs DEF Loose
    <2>8. Fits(b)
      BY <1>1, <2>2, <2>5, <2>6 DEF Fits, Loose
    <2>9. Tracked(b)
      <3> SUFFICES ASSUME NEW i \in 1..b.w PROVE b.damage.left < b.x + i /\ b.x + i <= b.damage.right
        BY DEF Tracked
      <3>1. b.damage.left \in Nat /\ b.damage.right \in Nat
        BY <2>5 DEF Typed
      <3> QED BY <1>1, <2>3, <2>5, <2>6, <3>1
    <2>10. Screen(e) /\ Shown(b, e)
      BY <2>7, <2>8, <2>9, Flipping DEF Screen, Steady
    <2>11. Shown(d, e)
      <3>1. b.queue \in Seq(Actions) /\ e.queue \in Seq(Actions)
        BY <2>5, <2>10 DEF Typed, Screen
      <3> QED BY <1>1, <2>7, <2>10, <3>1, ShownTwice
    <2> QED BY <2>1, <2>10, <2>11 DEF Screen, Steady
  <1> QED BY <1>2, <1>3

\* The viewport is moved, as far as the buffer goes.
LEMMA ChangingPos ==
  ASSUME NEW d, Loose(d), NEW delta \in Int
  PROVE LET e == ViewportChangePos(d, delta)
        IN  /\ Steady(e) /\ Fits(e) /\ Shown(d, e)
            /\ (Fits(d) => Tracked(d)) => Tracked(e)
  <1>1. d.x \in Nat /\ d.w \in Nat /\ Len(d.back) \in Nat /\ d.w <= Len(d.back)
    BY DEF Loose, Steady, Typed
  <1> DEFINE u == IF d.clip THEN delta ELSE -d.w
             m == Max({u, -d.x})
             z == FbWidth(d) - d.w - d.x
             move == Bounded(d, delta)
  <1>2. u \in Int /\ -d.x \in Int /\ z \in Int /\ z = Len(d.back) - d.w - d.x
    BY <1>1 DEF FbWidth
  <1>3. move = Min({m, z})
    BY DEF Bounded
  <1> HIDE DEF u, z
  <1>4. m \in Int /\ m >= -d.x
    <2> DEFINE y == -d.x
    <2>1. y \in Int
      BY <1>2
    <2> HIDE DEF y
    <2>2. Max({u, y}) = (IF u >= y THEN u ELSE y)
      BY <1>2, <2>1, MinMax
    <2>3. m = Max({u, y})
      BY DEF y
    <2> HIDE DEF m
    <2>4. m \in Int /\ m >= y
      BY <1>2, <2>1, <2>2, <2>3
    <2> QED BY <2>4 DEF y
  <1> HIDE DEF m
  <1>5. Min({m, z}) = (IF m <= z THEN m ELSE z)
    BY <1>2, <1>4, MinMax
  <1> HIDE DEF move
  <1>6. move \in Int /\ d.x + move >= 0 /\ d.x + move + d.w <= Len(d.back)
    <2> DEFINE x == d.x
               w == d.w
               n == Len(d.back)
    <2>1. x \in Nat /\ w \in Nat /\ n \in Nat /\ w <= n /\ z = n - w - x /\ m >= -x
      BY <1>1, <1>2, <1>4
    <2> HIDE DEF x, w, n
    <2>2. move = IF m <= z THEN m ELSE z
      BY <1>3, <1>5
    <2>3. move \in Int /\ move >= -x /\ move <= n - w - x
      BY <1>2, <1>4, <2>1, <2>2
    <2>4. x + move >= 0 /\ x + move + w <= n
      BY <2>1, <2>3
    <2> QED BY <2>3, <2>4 DEF x, w, n
  <1>7. ViewportChangePos(d, delta) = Moved(d, move)
    BY DEF ViewportChangePos, move
  <1> QED BY <1>6, <1>7, Moving

\* The whole viewport is shown again.
LEMMA Redrawing ==
  ASSUME NEW d, Steady(d), Fits(d) PROVE Screen(Redrawn(d)) /\ Shown(d, Redrawn(d))
  <1> DEFINE b == Damage(d, d.x, d.w)
             e == Flip(b)
  <1>1. Typed(d) /\ d.x \in Nat /\ d.w \in Nat /\ d.queue \in Seq(Actions)
    BY DEF Steady, Typed
  <1>2. /\ Typed(b) /\ Placed(d, b) /\ b.back = d.back
        /\ b.damage.left <= d.x /\ b.damage.right >= d.x + d.w
    BY <1>1, Damaging
  <1> HIDE DEF b
  <1>3. Steady(b) /\ Shown(d, b)
    BY <1>2, ShiftedIs DEF Shifted, Placed
  <1>4. Fits(b)
    BY <1>2 DEF Fits, Placed
  <1>5. Tracked(b)
    <2> SUFFICES ASSUME NEW i \in 1..b.w PROVE b.damage.left < b.x + i /\ b.x + i <= b.damage.right
      BY DEF Tracked
    <2>1. b.damage.left \in Nat /\ b.damage.right \in Nat /\ b.x = d.x /\ b.w = d.w
      BY <1>2 DEF Typed, Placed
    <2> QED BY <1>1, <1>2, <2>1
  <1>6. Screen(e) /\ Shown(b, e)
    BY <1>3, <1>4, <1>5, Flipping DEF Screen, Steady
  <1>7. b.queue \in Seq(Actions) /\ e.queue \in Seq(Actions)
    BY <1>2, <1>6 DEF Typed, Screen
  <1>8. Shown(d, e)
    BY <1>1, <1>3, <1>6, <1>7, ShownTwice
  <1> QED BY <1>6, <1>8 DEF Redrawn, b

\* The canvas is given another width.
LEMMA ChangingSize ==
  ASSUME NEW d, Steady(d), Len(d.back) > 0, NEW width \in Nat, d.clip => width > 0,
         d.w > 0 /\ Fits(d) => Tracked(d)
  PROVE LET e == ViewportChangeSize(d, width)
        IN  /\ Loose(e) /\ Shown(d, e) /\ (Fits(e) => Tracked(e))
            /\ e # d => Screen(e)
  <1> DEFINE u == IF d.clip THEN width ELSE FbWidth(d)
             w == Min({u, FbWidth(d)})
             s == Blanks(w)
             a == [d EXCEPT !.w = w, !.shown = s]
             b == ViewportChangePos(a, 0)
             e == ViewportChangeSize(d, width)
  <1>1. /\ Typed(d) /\ d.x \in Nat /\ d.w \in Nat /\ Len(d.back) \in Nat /\ d.queue \in Seq(Actions)
        /\ FbWidth(d) = Len(d.back) /\ DOMAIN d = DispFields
    BY DEF Steady, Typed, FbWidth
  <1>2. w \in Nat /\ w > 0 /\ w <= Len(d.back)
    <2>1. u \in Int /\ u > 0 /\ u \in Nat
      BY <1>1
    <2> HIDE DEF u
    <2>2. Min({u, FbWidth(d)}) = (IF u <= FbWidth(d) THEN u ELSE FbWidth(d))
      BY <1>1, <2>1, MinMax
    <2> HIDE DEF w
    <2>3. w = IF u <= FbWidth(d) THEN u ELSE FbWidth(d)
      BY <2>2 DEF w
    <2> QED BY <1>1, <2>1, <2>3
  <1>3. e = IF w = d.w THEN d ELSE Redrawn(b)
    BY DEF ViewportChangeSize
  <1> HIDE DEF w, e
  <1>4. CASE w = d.w
    <2>1. Shown(d, d)
      BY <1>1 DEF Shown
    <2> QED BY <1>2, <1>3, <1>4, <2>1 DEF Loose, e
  <1>5. CASE w # d.w
    <2>1. s \in Seq(Nat) /\ Len(s) = w
      <3>1. \A i \in 1..w : Blank \in Nat
        BY DEF Blank
      <3>2. s = [i \in 1..w |-> Blank]
        BY DEF Blanks
      <3> QED BY <1>2, <3>1, <3>2, IsASeq
    <2> HIDE DEF s
    <2>2. /\ a.w = w /\ a.shown = s /\ a.x = d.x /\ a.back = d.back /\ a.clip = d.clip
          /\ a.damage = d.damage /\ a.queue = d.queue /\ a.flushing = d.flushing /\ DOMAIN a = DispFields
      BY <1>1 DEF DispFields
    <2> HIDE DEF a
    <2>3. Typed(a)
      BY <1>1, <1>2, <2>1, <2>2 DEF Typed
    <2>4. Steady(a) /\ Shown(d, a)
      BY <2>2, <2>3, ShiftedIs DEF Shifted
    <2>5. Loose(a)
      BY <1>2, <2>2, <2>4 DEF Loose
    <2>6. Steady(b) /\ Fits(b) /\ Shown(a, b)
      BY <2>5, ChangingPos
    <2> HIDE DEF b
    <2>7. e = Redrawn(b)
      BY <1>3, <1>5
    <2>8. Screen(e) /\ Shown(b, e)
      BY <2>6, <2>7, Redrawing
    <2>9. /\ a.queue \in Seq(Actions) /\ b.queue \in Seq(Actions) /\ e.queue \in Seq(Actions)
      BY <1>1, <2>2, <2>6, <2>8 DEF Screen, Steady, Typed
    <2>10. Shown(d, b)
      BY <1>1, <2>4, <2>6, <2>9, ShownTwice
    <2>11. Shown(d, e)
      BY <1>1, <2>8, <2>9, <2>10, ShownTwice
    <2>12. Loose(e)
      <3>1. e.x \in Nat /\ e.w \in Nat /\ Len(e.back) \in Nat /\ e.w > 0 /\ e.x + e.w <= Len(e.back)
        BY <2>8 DEF Screen, Typed, Fits
      <3>2. e.w <= Len(e.back)
        BY <3>1
      <3> QED BY <2>8, <3>1, <3>2 DEF Loose, Screen, Steady
    <2> QED BY <2>8, <2>11, <2>12 DEF Screen, e
  <1> QED BY <1>4, <1>5

\* Clipping is turned on or off.
LEMMA SettingClip ==
  ASSUME NEW d, Screen(d), NEW on \in BOOLEAN
  PROVE Screen(SetClipViewport(d, on)) /\ Shown(d, SetClipViewport(d, on))
  <1> DEFINE a == [d EXCEPT !.clip = on]
             b == ViewportChangeSize(a, d.w)
             e == ViewportChangePos(b, 0)
  <1>1. /\ Typed(d) /\ d.x \in Nat /\ d.w \in Nat /\ d.w > 0 /\ Len(d.back) \in Nat /\ d.queue \in Seq(Actions)
        /\ d.x + d.w <= Len(d.back) /\ DOMAIN d = DispFields
    BY DEF Screen, Typed, Fits
  <1>2. /\ a.w = d.w /\ a.shown = d.shown /\ a.x = d.x /\ a.back = d.back /\ a.clip = on
        /\ a.damage = d.damage /\ a.queue = d.queue /\ a.flushing = d.flushing /\ DOMAIN a = DispFields
    BY <1>1 DEF DispFields
  <1> HIDE DEF a
  <1>3. Typed(a)
    BY <1>1, <1>2 DEF Typed
  <1>4. Steady(a) /\ Shown(d, a)
    BY <1>2, <1>3, ShiftedIs DEF Shifted, Screen, Steady
  <1>5. Tracked(a)
    BY <1>2, Zenon DEF Tracked, Screen
  <1>6. Loose(b) /\ Shown(a, b) /\ (Fits(b) => Tracked(b))
    <2>1. Len(a.back) > 0
      BY <1>1, <1>2
    <2> QED BY <1>1, <1>4, <1>5, <2>1, ChangingSize
  <1> HIDE DEF b
  <1>7. Steady(e) /\ Fits(e) /\ Tracked(e) /\ Shown(b, e)
    BY <1>6, ChangingPos
  <1>8. e = SetClipViewport(d, on)
    BY DEF SetClipViewport, a, b
  <1> HIDE DEF e
  <1>9. a.queue \in Seq(Actions) /\ b.queue \in Seq(Actions) /\ e.queue \in Seq(Actions)
    BY <1>3, <1>6, <1>7 DEF Loose, Steady, Typed
  <1>10. Shown(d, b)
    BY <1>1, <1>4, <1>6, <1>9, ShownTwice
  <1>11. Shown(d, e)
    BY <1>1, <1>7, <1>9, <1>10, ShownTwice
  <1> QED BY <1>7, <1>8, <1>11 DEF Screen, Steady

\* A buffer of another width.
LEMMA ResizedIs ==
  ASSUME NEW b \in Seq(Nat), NEW width \in Nat
  PROVE LET p == Resized(b, width)
        IN p \in Seq(Nat) /\ Len(p) = width /\ \A i \in 1..width : i \in DOMAIN b => p[i] = b[i]
  <1> DEFINE p == Resized(b, width)
             pixel(i) == IF i \in DOMAIN b THEN b[i] ELSE Blank
  <1>1. \A i \in 1..width : pixel(i) \in Nat
    BY DEF Blank
  <1>2. p = [i \in 1..width |-> pixel(i)]
    BY DEF Resized
  <1>3. \A i \in 1..width : i \in DOMAIN b => pixel(i) = b[i]
    OBVIOUS
  <1> HIDE DEF pixel, p
  <1>4. p \in Seq(Nat) /\ Len(p) = width
    BY <1>1, <1>2, IsASeq
  <1> QED BY <1>2, <1>3, <1>4 DEF p

\* The buffer is given another width, then the viewport follows.
LEMMA ResizingIs ==
  ASSUME NEW d, Screen(d) \/ d = NewDisplay, NEW width \in Nat, width > 0
  PROVE LET a == [d EXCEPT !.back = Resized(@, width)]
            e == Resize(d, width)
        IN  /\ Screen(e) /\ Typed(a) /\ Shown(a, e) /\ a.back = Resized(d.back, width)
            /\ a.queue = d.queue /\ a.flushing = d.flushing
  <1> DEFINE p == Resized(d.back, width)
             a == [d EXCEPT !.back = Resized(@, width)]
             b == ViewportChangeSize(a, d.w)
             e == ViewportChangePos(b, 0)
  <1>1. /\ Typed(d) /\ d.x \in Nat /\ d.w \in Nat /\ Len(d.back) \in Nat /\ d.queue \in Seq(Actions)
        /\ DOMAIN d = DispFields /\ d.back \in Seq(Nat)
    <2>1. CASE Screen(d)
      BY <2>1 DEF Screen, Typed
    <2>2. CASE d = NewDisplay
      <3>1. Typed(d)
        BY <2>2, EmptySeq DEF NewDisplay, NoDamage, Typed, DispFields
      <3> QED BY <3>1 DEF Typed
    <2> QED BY <2>1, <2>2
  <1>2. p \in Seq(Nat) /\ Len(p) = width /\ \A i \in 1..width : i \in DOMAIN d.back => p[i] = d.back[i]
    BY <1>1, ResizedIs
  <1> HIDE DEF p
  <1>3. /\ a.w = d.w /\ a.shown = d.shown /\ a.x = d.x /\ a.back = p /\ a.clip = d.clip
        /\ a.damage = d.damage /\ a.queue = d.queue /\ a.flushing = d.flushing /\ DOMAIN a = DispFields
    BY <1>1 DEF DispFields, p
  <1> HIDE DEF a
  <1>4. Typed(a)
    BY <1>1, <1>2, <1>3 DEF Typed
  <1>5. Steady(a)
    <2>1. Blocked(d) /\ Awaited(d)
      BY DEF Screen, NewDisplay, Blocked, Awaited, Pending
    <2> QED BY <1>3, <1>4, <2>1 DEF Steady, Blocked, Awaited, Pending
  <1>6. a.w > 0 /\ Fits(a) => Tracked(a)
    <2> SUFFICES ASSUME a.w > 0, a.x + a.w <= Len(a.back), NEW i \in 1..a.w
                 PROVE a.back[a.x + i] \in {Blank, a.shown[i]} \/ (a.damage.left < a.x + i /\ a.x + i <= a.damage.right)
      BY DEF Tracked, Fits
    <2>1. Screen(d)
      <3>1. d # NewDisplay
        BY <1>3 DEF NewDisplay
      <3> QED BY <3>1
    <2>2. d.x + i \in 1..width /\ i \in 1..d.w
      BY <1>1, <1>2, <1>3
    <2>3. d.x + i \in DOMAIN d.back
      BY <1>1, <2>1, <2>2, PixelsOf DEF Screen
    <2>4. a.back[a.x + i] = d.back[d.x + i]
      BY <1>2, <1>3, <2>2, <2>3
    <2>5. d.back[d.x + i] \in {Blank, d.shown[i]} \/ (d.damage.left < d.x + i /\ d.x + i <= d.damage.right)
      BY <2>1, <2>2 DEF Screen, Tracked
    <2> QED BY <1>3, <2>4, <2>5
  <1>7. Loose(b) /\ Shown(a, b) /\ (Fits(b) => Tracked(b))
    <2>1. Len(a.back) > 0 /\ (a.clip => d.w > 0)
      <3>1. d.clip => d.w > 0
        BY DEF Screen, Fits, NewDisplay
      <3> QED BY <1>2, <1>3, <3>1
    <2> QED BY <1>1, <1>5, <1>6, <2>1, ChangingSize
  <1> HIDE DEF b
  <1>8. Steady(e) /\ Fits(e) /\ Tracked(e) /\ Shown(b, e)
    BY <1>7, ChangingPos
  <1>9. e = Resize(d, width)
    BY DEF Resize, a, b
  <1> HIDE DEF e
  <1>10. a.queue \in Seq(Actions) /\ b.queue \in Seq(Actions) /\ e.queue \in Seq(Actions)
    BY <1>4, <1>7, <1>8 DEF Loose, Steady, Typed
  <1>11. Shown(a, e)
    BY <1>7, <1>8, <1>10, ShownTwice
  <1> QED BY <1>3, <1>4, <1>8, <1>9, <1>11 DEF Screen, Steady, a, p

-----------------------------------------------------------------------------
(* An image or a frame settles.                                            *)

Settling(a) == a.type \in {"img", "frame"}

\* It is another action of the same kind, that draws the same.
LEMMA SettledAction ==
  ASSUME NEW a \in Actions, Settling(a), NEW outcome \in {"ready", "broken"}
  PROVE LET b == [a EXCEPT !.state = outcome]
        IN  /\ b \in Actions /\ b.state = outcome /\ b.type = a.type /\ (a.type = "frame" => b.frame = a.frame)
            /\ \A p : Step(p, b) = Step(p, a)
  <1> DEFINE b == [a EXCEPT !.state = outcome]
  <1>0. outcome \in States
    BY DEF States
  <1>1. CASE a.type = "img"
    <2>1. PICK x \in Nat \ {0}, k \in Nat, s \in States : a = [type |-> "img", x |-> x, colour |-> k, state |-> s]
      BY <1>1 DEF Actions
    <2>2. b = [type |-> "img", x |-> x, colour |-> k, state |-> outcome]
      BY <2>1
    <2>3. b \in Actions
      BY <1>0, <2>2 DEF Actions
    <2>4. b.type = "img" /\ b.x = a.x /\ b.colour = a.colour /\ b.state = outcome
      BY <2>1, <2>2
    <2> HIDE DEF b
    <2>5. \A p : Step(p, b) = Step(p, a)
      BY <1>1, <2>4 DEF Step, Painted
    <2> QED BY <1>1, <2>3, <2>4, <2>5 DEF b
  <1>2. CASE a.type = "frame"
    <2>1. PICK x \in Nat \ {0}, k \in Nat, f \in Nat, s \in States :
              a = [type |-> "frame", x |-> x, colour |-> k, frame |-> f, state |-> s]
      BY <1>2 DEF Actions
    <2>2. b = [type |-> "frame", x |-> x, colour |-> k, frame |-> f, state |-> outcome]
      BY <2>1
    <2>3. b \in Actions
      BY <1>0, <2>2 DEF Actions
    <2>4. b.type = "frame" /\ b.x = a.x /\ b.colour = a.colour /\ b.state = outcome /\ b.frame = a.frame
      BY <2>1, <2>2
    <2> HIDE DEF b
    <2>5. \A p : Step(p, b) = Step(p, a)
      BY <1>2, <2>4 DEF Step, Painted
    <2> QED BY <1>2, <2>3, <2>4, <2>5 DEF b
  <1> QED BY <1>1, <1>2 DEF Settling

\* What the action at place k of the queue has become.
Became(d, i, outcome, k) == IF k = i THEN [d.queue[i] EXCEPT !.state = outcome] ELSE d.queue[k]

\* e is d with the action at i settled, and n at the head performed.
Settles(d, i, outcome, e, n) ==
    /\ Screen(e) /\ Drawn(e) = Drawn(d) /\ (e.flushing => d.flushing) /\ Len(e.back) = Len(d.back)
    /\ n \in 0..Len(d.queue) /\ Len(e.queue) = Len(d.queue) - n
    /\ \A k \in 1..Len(e.queue) : e.queue[k] = Became(d, i, outcome, n + k)

\* The action at place i settles: what is ready after it is drawn, and nothing else changes.
LEMMA SettlingIs ==
  ASSUME NEW d, Screen(d), NEW i \in DOMAIN d.queue, Settling(d.queue[i]), NEW outcome \in {"ready", "broken"}
  PROVE \E n : Settles(d, i, outcome, Settled(d, i, outcome), n)
  <1> DEFINE q == d.queue
             m == Len(q)
             b == [q[i] EXCEPT !.state = outcome]
             u == [q EXCEPT ![i] = b]
             now == [d EXCEPT !.queue[i].state = outcome]
             e == Settled(d, i, outcome)
  <1>1. /\ Typed(d) /\ Fits(d) /\ Tracked(d) /\ Blocked(d) /\ Awaited(d) /\ DOMAIN d = DispFields
        /\ q \in Seq(Actions) /\ m \in Nat /\ DOMAIN q = 1..m /\ i \in 1..m /\ q[i] \in Actions
    BY DEF Screen, Typed
  <1>2. b \in Actions /\ b.state = outcome /\ b.type = q[i].type /\ (\A p : Step(p, b) = Step(p, q[i]))
    <2> DEFINE a == q[i]
    <2>1. a \in Actions /\ Settling(a)
      BY <1>1
    <2> HIDE DEF a
    <2>2. LET z == [a EXCEPT !.state = outcome]
          IN z \in Actions /\ z.state = outcome /\ z.type = a.type /\ (\A p : Step(p, z) = Step(p, a))
      BY <2>1, SettledAction
    <2> QED BY <2>2 DEF a
  <1>3. \A k : Became(d, i, outcome, k) = IF k = i THEN b ELSE q[k]
    BY DEF Became
  <1> HIDE DEF b
  <1>4. u \in Seq(Actions) /\ Len(u) = m /\ \A k \in 1..m : u[k] = IF k = i THEN b ELSE q[k]
    <2> HIDE DEF q
    <2> QED BY <1>1, <1>2, ExceptSeq
  <1>5. /\ now.queue = u /\ now.back = d.back /\ now.shown = d.shown /\ now.x = d.x /\ now.w = d.w
        /\ now.clip = d.clip /\ now.damage = d.damage /\ now.flushing = d.flushing /\ DOMAIN now = DispFields
    BY <1>1 DEF DispFields, b
  <1>6. e = IF i = 1 /\ outcome = "ready" THEN ScanRenderQ(now) ELSE now
    BY DEF Settled
  <1> HIDE DEF u, now, e
  <1>7. Typed(now)
    BY <1>1, <1>4, <1>5 DEF Typed
  <1>8. Fits(now) /\ Tracked(now)
    <2>1. Fits(now)
      BY <1>1, <1>5 DEF Fits
    <2>2. Tracked(now)
      BY <1>1, <1>5, Zenon DEF Tracked
    <2> QED BY <2>1, <2>2
  <1>9. Drawn(now) = Drawn(d)
    <2>1. Drawing(now.back, now.queue, Drawn(now))
      BY <1>7, DrawnIs
    <2>2. Drawing(d.back, q, Drawn(d))
      BY <1>1, DrawnIs
    <2>3. \A k \in 1..m : \A p : Step(p, q[k]) = Step(p, u[k])
      BY <1>2, <1>4
    <2> HIDE DEF q
    <2> QED BY <1>1, <1>4, <1>5, <2>1, <2>2, <2>3, DrawingOnce
  <1>10. q # <<>> /\ u # <<>>
    BY <1>1, <1>4
  <1>11. CASE i = 1 /\ outcome = "ready"
    <2> DEFINE n == ReadyCount(now.queue)
    <2>1. e = ScanRenderQ(now)
      BY <1>6, <1>11
    <2>2. /\ Screen(e) /\ Drawn(e) = Drawn(now) /\ (e.flushing => now.flushing)
          /\ Len(e.back) = Len(now.back)
          /\ n \in 0..Len(now.queue) /\ Len(e.queue) = Len(now.queue) - n
          /\ \A j \in 1..Len(e.queue) : e.queue[j] = now.queue[n + j]
      <3>1. now.flushing => now.queue # <<>>
        BY <1>5, <1>10
      <3> QED BY <1>7, <1>8, <2>1, <3>1, Scanning
    <2> HIDE DEF n
    <2>3. ASSUME NEW j \in 1..Len(e.queue) PROVE e.queue[j] = Became(d, i, outcome, n + j)
      <3>1. n + j \in 1..m
        BY <1>1, <1>4, <1>5, <2>2
      <3>2. e.queue[j] = u[n + j]
        BY <1>5, <2>2
      <3>3. u[n + j] = IF n + j = i THEN b ELSE q[n + j]
        BY <1>4, <3>1
      <3> QED BY <1>3, <3>2, <3>3
    <2>4. Settles(d, i, outcome, e, n)
      BY <1>4, <1>5, <1>9, <2>2, <2>3 DEF Settles
    <2> QED BY <2>4 DEF e
  <1>12. CASE ~(i = 1 /\ outcome = "ready")
    <2>1. e = now
      BY <1>6, <1>12
    <2>2. Blocked(now)
      <3>1. ~Ready(q[1])
        BY <1>1, <1>10 DEF Blocked, Pending
      <3>2. 1 \in 1..m
        BY <1>1
      <3>3. CASE i = 1
        <4>1. u[1] = b /\ b.state = "broken" /\ b.type \in {"img", "frame"}
          BY <1>2, <1>4, <1>12, <3>2, <3>3 DEF Settling
        <4> QED BY <1>5, <4>1 DEF Blocked, Ready
      <3>4. CASE i # 1
        <4>1. u[1] = q[1]
          BY <1>4, <3>2, <3>4
        <4> QED BY <1>5, <3>1, <4>1 DEF Blocked
      <3> QED BY <3>3, <3>4
    <2>3. Awaited(now)
      BY <1>5, <1>10 DEF Awaited, Pending
    <2>4. Screen(now)
      BY <1>7, <1>8, <2>2, <2>3 DEF Screen
    <2>5. ASSUME NEW j \in 1..Len(now.queue) PROVE now.queue[j] = Became(d, i, outcome, 0 + j)
      <3>1. 0 + j = j /\ j \in 1..m
        BY <1>4, <1>5
      <3> QED BY <1>3, <1>4, <1>5, <3>1
    <2>6. Settles(d, i, outcome, now, 0)
      BY <1>1, <1>4, <1>5, <1>9, <2>4, <2>5 DEF Settles
    <2> QED BY <2>1, <2>6 DEF e
  <1> QED BY <1>11, <1>12

-----------------------------------------------------------------------------
(* The object, as far as the picture goes.                                 *)

\* The fields of F may differ.
Alike(o, p, F) == DOMAIN p = ObjFields /\ \A f \in ObjFields \ F : p[f] = o[f]

Booleans ==
    {"cont", "contKnown", "clip", "session", "supports", "pendingResize", "recent", "timer",
     "raf", "spoiled", "lost", "failed"}

\* Flips at the end make no difference to what waits.
LEMMA ShownQueue ==
  ASSUME NEW d, NEW e, d.queue \in Seq(Actions), e.queue \in Seq(Actions), Shown(d, e), NEW m, NEW contexts
  PROVE /\ Numbered(d.queue, m) => Numbered(e.queue, m)
        /\ Promised(d.queue, contexts) => Promised(e.queue, contexts)
  <1> DEFINE q == d.queue
             u == e.queue
  <1>1. /\ DOMAIN q = 1..Len(q) /\ DOMAIN u = 1..Len(u) /\ Len(q) \in Nat /\ Len(u) \in Nat
        /\ \A i \in 1..Len(u) : u[i] = IF i <= Len(q) THEN q[i] ELSE FlipAction
    BY DEF Shown
  <1>2. FlipAction.type = "flip"
    BY DEF FlipAction
  <1> HIDE DEF q, u
  <1>3. ASSUME NEW i \in DOMAIN u, u[i].type # "flip" PROVE i \in DOMAIN q /\ u[i] = q[i]
    BY <1>1, <1>2, <1>3
  <1>4. Numbered(q, m) => Numbered(u, m)
    BY <1>3 DEF Numbered, IsFrame
  <1>5. Promised(q, contexts) => Promised(u, contexts)
    <2> SUFFICES ASSUME Promised(q, contexts), NEW i \in DOMAIN u
                 PROVE /\ u[i].type \in {"img", "frame"} => u[i].state # "broken"
                       /\ Loading(u[i]) => Has(contexts, u[i].frame)
      BY DEF Promised
    <2>1. CASE u[i].type = "flip"
      BY <2>1 DEF Loading
    <2>2. CASE u[i].type # "flip"
      <3>1. i \in DOMAIN q /\ u[i] = q[i]
        BY <1>3, <2>2
      <3> QED BY <3>1 DEF Promised
    <2> QED BY <2>1, <2>2
  <1> QED BY <1>4, <1>5 DEF q, u

\* The display is shown in another way.
LEMMA Refitted ==
  ASSUME NEW o, NEW p, Picture(o), Alike(o, p, {"disp", "expected"}), Screen(p.disp), Shown(o.disp, p.disp)
  PROVE Picture(p)
  <1>1. /\ p.ideal = o.ideal /\ p.spoiled = o.spoiled /\ p.contexts = o.contexts /\ p.failed = o.failed
        /\ p.payloads = o.payloads /\ p.flushing = o.flushing /\ p.inbox = o.inbox /\ p.rects = o.rects
        /\ p.requests = o.requests /\ p.resizes = o.resizes /\ p.win = o.win
        /\ \A f \in Booleans : p[f] = o[f]
    BY DEF Alike, ObjFields, Booleans
  <1>2. Formed(p)
    <2>1. p.disp.flushing = o.disp.flushing
      BY DEF Shown
    <2>2. \A f \in Booleans : p[f] \in BOOLEAN
      BY <1>1 DEF Picture, Formed, Booleans
    <2> QED BY <1>1, <2>1, <2>2 DEF Picture, Formed, Alike, Booleans
  <1>3. Typed(o.disp) /\ Typed(p.disp) /\ o.disp.queue \in Seq(Actions) /\ p.disp.queue \in Seq(Actions)
    BY DEF Picture, Formed, Screen, Typed
  <1>4. Ordered(p)
    BY <1>1, <1>3, ShownDraws DEF Ordered, Picture
  <1>5. Coming(p)
    BY <1>1, <1>3, ShownQueue DEF Coming, Picture
  <1> QED BY <1>2, <1>4, <1>5 DEF Picture

\* Only fields the picture does not speak of differ.
LEMMA SamePicture ==
  ASSUME NEW o, NEW p, Picture(o),
         Alike(o, p, {"supports", "pendingResize", "recent", "timer", "raf", "expected", "session", "clip", "win"}),
         p.supports \in BOOLEAN, p.pendingResize \in BOOLEAN, p.recent \in BOOLEAN, p.timer \in BOOLEAN,
         p.raf \in BOOLEAN, p.session \in BOOLEAN, p.clip \in BOOLEAN, p.win \in Widths
  PROVE Picture(p)
  <1>1. /\ p.ideal = o.ideal /\ p.spoiled = o.spoiled /\ p.contexts = o.contexts /\ p.failed = o.failed
        /\ p.payloads = o.payloads /\ p.flushing = o.flushing /\ p.inbox = o.inbox /\ p.rects = o.rects
        /\ p.requests = o.requests /\ p.resizes = o.resizes /\ p.disp = o.disp /\ p.cont = o.cont
        /\ p.contKnown = o.contKnown /\ p.lost = o.lost
    BY DEF Alike, ObjFields
  <1>2. Formed(p)
    <2>1. p.ideal = o.ideal /\ o.spoiled \in BOOLEAN /\ o.failed \in BOOLEAN /\ o.cont \in BOOLEAN
          /\ o.contKnown \in BOOLEAN /\ o.lost \in BOOLEAN
      BY <1>1 DEF Picture, Formed
    <2>2. \A f \in Booleans : p[f] \in BOOLEAN
      BY <1>1, <2>1 DEF Booleans
    <2> QED BY <1>1, <2>2 DEF Picture, Formed, Alike, Booleans
  <1>3. Ordered(p)
    BY <1>1 DEF Ordered, Picture
  <1>4. Coming(p)
    BY <1>1 DEF Coming, Picture
  <1> QED BY <1>2, <1>3, <1>4 DEF Picture

\* The clipping follows the setting.
LEMMA Clipping ==
  ASSUME NEW o, Picture(o)
  PROVE LET p == UpdateClip(o) IN Picture(p) /\ Alike(o, p, {"disp", "expected"})
  <1> DEFINE p == UpdateClip(o)
             d == o.disp
             a == IF d.clip = o.clip THEN d ELSE SetClipViewport(d, o.clip)
             e == ClipTo(a, o.clip, o.win)
  <1>1. /\ Screen(d) /\ o.clip \in BOOLEAN /\ o.win \in Nat /\ o.win > 0 /\ DOMAIN o = ObjFields
        /\ d.queue \in Seq(Actions) /\ Len(d.queue) \in Nat
    <2>1. o.win \in Widths /\ Screen(d) /\ DOMAIN o = ObjFields
      BY DEF Picture, Formed
    <2>2. o.win \in Nat /\ o.win > 0
      BY <2>1, UpdatesAssumption
    <2>3. o.clip \in BOOLEAN
      BY DEF Picture, Formed
    <2>4. d.queue \in Seq(Actions) /\ Len(d.queue) \in Nat
      BY <2>1 DEF Screen, Typed
    <2> QED BY <2>1, <2>2, <2>3, <2>4
  <1>2. Screen(a) /\ Shown(d, a)
    <2>1. Shown(d, d)
      BY <1>1 DEF Shown
    <2> HIDE DEF d
    <2>2. CASE d.clip = o.clip
      BY <1>1, <2>1, <2>2
    <2>3. CASE d.clip # o.clip
      BY <1>1, <2>3, SettingClip
    <2> QED BY <2>2, <2>3
  <1> HIDE DEF a
  <1>3. Screen(e) /\ Shown(d, e)
    <2>1. CASE ~o.clip
      BY <1>2, <2>1 DEF ClipTo
    <2>2. CASE o.clip
      <3>1. e = ViewportChangeSize(a, o.win)
        BY <2>2 DEF ClipTo
      <3>2. Steady(a) /\ Len(a.back) > 0 /\ Tracked(a)
        <4>1. a.x \in Nat /\ a.w \in Nat /\ Len(a.back) \in Nat /\ a.w > 0 /\ a.x + a.w <= Len(a.back)
          BY <1>2 DEF Screen, Typed, Fits
        <4> QED BY <1>2, <4>1 DEF Screen, Steady
      <3> HIDE DEF e
      <3>3. Loose(e) /\ Shown(a, e) /\ (e # a => Screen(e))
        BY <1>1, <3>1, <3>2, ChangingSize
      <3>4. Screen(e)
        BY <1>2, <3>3
      <3>5. a.queue \in Seq(Actions) /\ e.queue \in Seq(Actions)
        BY <1>2, <3>4 DEF Screen, Typed
      <3> HIDE DEF d
      <3>6. Shown(d, e)
        BY <1>1, <1>2, <3>3, <3>5, ShownTwice
      <3> QED BY <3>4, <3>6
    <2> QED BY <1>1, <2>1, <2>2
  <1>4. p = [o EXCEPT !.disp = e, !.expected = IF d.clip = o.clip THEN @ ELSE o.win]
    BY DEF UpdateClip, a
  <1> HIDE DEF p, e
  <1>5. p.disp = e /\ Alike(o, p, {"disp", "expected"})
    BY <1>1, <1>4 DEF Alike, ObjFields
  <1>6. Picture(p)
    BY <1>3, <1>5, Refitted DEF d
  <1> QED BY <1>5, <1>6 DEF p

\* The fields the size of the desktop does not touch.
SizeFields == {"disp", "ideal", "spoiled", "expected", "supports", "pendingResize", "timer", "recent", "resizes"}

\* The desktop has another size.
LEMMA ResizingFb ==
  ASSUME NEW o, Picture(o), NEW width \in Widths
  PROVE LET p == ResizeFb(o, width)
        IN Picture(p) /\ Alike(o, p, {"disp", "ideal", "spoiled", "expected"})
  <1> DEFINE d == o.disp
             e == Resize(d, width)
             a == [d EXCEPT !.back = Resized(@, width)]
             s == [o EXCEPT !.disp = e, !.ideal = Resized(@, width), !.spoiled = @ \/ Pending(d)]
             u == UpdateClip(s)
             p == ResizeFb(o, width)
  <1>1. /\ Formed(o) /\ Ordered(o) /\ Coming(o) /\ Screen(d) /\ Typed(d) /\ width \in Nat /\ width > 0
        /\ DOMAIN o = ObjFields /\ o.ideal \in Seq(Nat) /\ d.back \in Seq(Nat)
    BY UpdatesAssumption DEF Picture, Formed, Ordered, Screen, Typed
  <1>2. /\ Screen(e) /\ Typed(a) /\ Shown(a, e) /\ a.back = Resized(d.back, width)
        /\ a.queue = d.queue /\ a.flushing = d.flushing
    <2> HIDE DEF d
    <2> QED BY <1>1, ResizingIs
  <1> HIDE DEF e, a
  <1>3. /\ s.disp = e /\ s.ideal = Resized(o.ideal, width) /\ s.spoiled = (o.spoiled \/ Pending(d))
        /\ Alike(o, s, {"disp", "ideal", "spoiled"})
    BY <1>1 DEF Alike, ObjFields
  <1> HIDE DEF s
  <1>4. /\ s.contexts = o.contexts /\ s.failed = o.failed /\ s.payloads = o.payloads /\ s.flushing = o.flushing
        /\ s.inbox = o.inbox /\ s.rects = o.rects /\ s.requests = o.requests /\ s.resizes = o.resizes
        /\ s.win = o.win /\ DOMAIN s = ObjFields
        /\ \A f \in Booleans \ {"spoiled"} : s[f] = o[f]
    BY <1>3 DEF Alike, ObjFields, Booleans
  <1>5. Formed(s)
    <2>1. e.flushing = d.flushing
      BY <1>2 DEF Shown
    <2>2. s.spoiled \in BOOLEAN
      <3>1. o.spoiled \in BOOLEAN
        BY <1>1 DEF Formed
      <3> QED BY <1>3, <3>1 DEF Pending
    <2>3. \A f \in Booleans : s[f] \in BOOLEAN
      BY <1>1, <1>4, <2>2 DEF Formed, Booleans
    <2> QED BY <1>1, <1>2, <1>3, <1>4, <2>1, <2>3 DEF Formed, Booleans
  <1>6. Ordered(s)
    <2>1. s.ideal \in Seq(Nat)
      BY <1>1, <1>3, ResizedIs
    <2>2. ASSUME ~s.spoiled PROVE Drawn(e) = s.ideal
      <3>1. d.queue = <<>> /\ ~o.spoiled
        BY <1>3, <2>2 DEF Pending
      <3>2. e.queue = <<>> /\ e.back = Resized(d.back, width)
        BY <1>2, <3>1 DEF Shown
      <3>3. Drawn(e) = e.back
        BY <1>2, <3>2, DrawnEmpty DEF Screen
      <3>4. Drawn(d) = d.back /\ Drawn(d) = o.ideal
        BY <1>1, <3>1, DrawnEmpty DEF Ordered
      <3> QED BY <1>3, <3>2, <3>3, <3>4
    <2> QED BY <1>3, <2>1, <2>2 DEF Ordered
  <1>7. Coming(s)
    <2>1. d.queue \in Seq(Actions) /\ e.queue \in Seq(Actions) /\ a.queue \in Seq(Actions)
      BY <1>1, <1>2 DEF Screen, Typed
    <2>2. \A m : Numbered(d.queue, m) => Numbered(e.queue, m)
      BY <1>2, <2>1, ShownQueue
    <2>3. \A contexts : Promised(d.queue, contexts) => Promised(e.queue, contexts)
      BY <1>2, <2>1, ShownQueue
    <2> QED BY <1>1, <1>3, <1>4, <2>2, <2>3 DEF Coming
  <1>8. Picture(u) /\ Alike(s, u, {"disp", "expected"})
    BY <1>5, <1>6, <1>7, Clipping DEF Picture
  <1>9. p = [u EXCEPT !.expected = o.win]
    BY DEF ResizeFb, s, e
  <1> HIDE DEF u, p
  <1>10. Alike(u, p, {"expected"})
    BY <1>8, <1>9 DEF Alike, ObjFields
  <1>11. Picture(p)
    <2>1. /\ p.supports = u.supports /\ p.pendingResize = u.pendingResize /\ p.recent = u.recent
          /\ p.timer = u.timer /\ p.raf = u.raf /\ p.session = u.session /\ p.clip = u.clip /\ p.win = u.win
      BY <1>10 DEF Alike, ObjFields
    <2>2. /\ u.supports \in BOOLEAN /\ u.pendingResize \in BOOLEAN /\ u.recent \in BOOLEAN /\ u.win \in Widths
          /\ u.timer \in BOOLEAN /\ u.raf \in BOOLEAN /\ u.session \in BOOLEAN /\ u.clip \in BOOLEAN
      BY <1>8 DEF Picture, Formed
    <2>3. Alike(u, p, {"supports", "pendingResize", "recent", "timer", "raf", "expected", "session", "clip", "win"})
      BY <1>10 DEF Alike, ObjFields
    <2> QED BY <1>8, <2>1, <2>2, <2>3, SamePicture
  <1>12. Alike(o, p, {"disp", "ideal", "spoiled", "expected"})
    BY <1>3, <1>8, <1>10 DEF Alike
  <1> QED BY <1>11, <1>12 DEF p

\* The server is asked for another size, one at a time.
LEMMA Asking ==
  ASSUME NEW o, Picture(o), Resizing(o)
  PROVE LET p == RequestRemoteResize(o)
        IN /\ Picture(p) /\ Resizing(p)
           /\ Alike(o, p, {"timer", "pendingResize", "recent", "resizes"})
  <1> DEFINE p == RequestRemoteResize(o)
  <1>1. DOMAIN o = ObjFields /\ Formed(o) /\ Ordered(o) /\ Coming(o)
    BY DEF Picture, Formed
  <1>2. /\ o.supports \in BOOLEAN /\ o.pendingResize \in BOOLEAN /\ o.recent \in BOOLEAN /\ o.win \in Widths
        /\ o.timer \in BOOLEAN /\ o.raf \in BOOLEAN /\ o.session \in BOOLEAN /\ o.clip \in BOOLEAN
    BY <1>1 DEF Formed
  <1>3. ASSUME NEW v \in BOOLEAN, p = [o EXCEPT !.timer = v]
        PROVE Picture(p) /\ Resizing(p) /\ Alike(o, p, {"timer", "pendingResize", "recent", "resizes"})
    <2> HIDE DEF p
    <2>1. /\ p.timer = v /\ p.supports = o.supports /\ p.pendingResize = o.pendingResize /\ p.recent = o.recent
          /\ p.raf = o.raf /\ p.session = o.session /\ p.clip = o.clip /\ p.win = o.win /\ p.resizes = o.resizes
          /\ p.inbox = o.inbox
      BY <1>1, <1>3 DEF ObjFields
    <2>2. Alike(o, p, {"timer"})
      BY <1>1, <1>3 DEF Alike, ObjFields
    <2>3. Alike(o, p, {"supports", "pendingResize", "recent", "timer", "raf", "expected", "session", "clip", "win"})
      BY <2>2 DEF Alike
    <2>4. Picture(p)
      BY <1>2, <2>1, <2>3, SamePicture
    <2>5. Resizing(p)
      BY <2>1 DEF Resizing
    <2> QED BY <2>2, <2>4, <2>5 DEF Alike
  <1>4. CASE ~o.session \/ ~o.supports \/ o.pendingResize
    <2>1. p = o
      BY <1>4 DEF RequestRemoteResize
    <2> QED BY <1>1, <2>1 DEF Alike
  <1>5. CASE /\ ~(~o.session \/ ~o.supports \/ o.pendingResize)
             /\ o.recent
    BY <1>3, <1>5 DEF RequestRemoteResize
  <1>6. CASE /\ ~(~o.session \/ ~o.supports \/ o.pendingResize)
             /\ ~o.recent /\ o.win = FbWidth(o.disp)
    BY <1>3, <1>6 DEF RequestRemoteResize
  <1>7. CASE /\ ~(~o.session \/ ~o.supports \/ o.pendingResize)
             /\ ~o.recent /\ o.win # FbWidth(o.disp)
    <2>1. p = [o EXCEPT !.timer = FALSE, !.pendingResize = TRUE, !.recent = TRUE, !.resizes = @ + 1]
      BY <1>7 DEF RequestRemoteResize
    <2> HIDE DEF p
    <2>2. /\ p.timer = FALSE /\ p.pendingResize = TRUE /\ p.recent = TRUE /\ p.resizes = o.resizes + 1
          /\ p.inbox = o.inbox
          /\ Alike(o, p, {"timer", "pendingResize", "recent", "resizes"})
      BY <1>1, <2>1 DEF Alike, ObjFields
    <2>3. o.resizes = 0 /\ \A i \in DOMAIN o.inbox : ~IsAnswer(o.inbox[i])
      BY <1>7 DEF Resizing
    <2>4. Resizing(p)
      BY <2>2, <2>3 DEF Resizing
    <2>5. Picture(p)
      <3>1. /\ p.ideal = o.ideal /\ p.spoiled = o.spoiled /\ p.contexts = o.contexts /\ p.failed = o.failed
            /\ p.payloads = o.payloads /\ p.flushing = o.flushing /\ p.inbox = o.inbox /\ p.rects = o.rects
            /\ p.requests = o.requests /\ p.disp = o.disp /\ p.win = o.win /\ DOMAIN p = ObjFields
            /\ \A f \in Booleans \ {"timer", "pendingResize", "recent"} : p[f] = o[f]
        BY <2>2 DEF Alike, ObjFields, Booleans
      <3>2. Formed(p)
        <4>1. \A f \in Booleans : p[f] \in BOOLEAN
          BY <1>1, <2>2, <3>1 DEF Formed, Booleans
        <4>2. p.resizes \in Nat
          BY <2>2, <2>3
        <4> QED BY <1>1, <3>1, <4>1, <4>2 DEF Formed, Booleans
      <3>3. Ordered(p)
        BY <1>1, <3>1 DEF Ordered
      <3>4. Coming(p)
        BY <1>1, <3>1 DEF Coming
      <3> QED BY <3>2, <3>3, <3>4 DEF Picture
    <2> QED BY <2>2, <2>4, <2>5 DEF p
  <1>8. Picture(p) /\ Resizing(p) /\ Alike(o, p, {"timer", "pendingResize", "recent", "resizes"})
    <2>1. CASE o.recent
      BY <1>4, <1>5, <2>1, Zenon
    <2>2. CASE ~o.recent
      BY <1>4, <1>6, <1>7, <2>2, Zenon
    <2> QED BY <2>1, <2>2
  <1> QED BY <1>8

\* The server tells the size of the desktop, perhaps in answer to what was asked.
LEMMA Answering ==
  ASSUME NEW o, Picture(o), NEW r, r.mine \in BOOLEAN, r.ok \in BOOLEAN, r.w \in Widths,
         IF r.mine THEN o.resizes = 0 /\ \A i \in DOMAIN o.inbox : ~IsAnswer(o.inbox[i]) ELSE Resizing(o)
  PROVE LET p == HandleExtendedDesktopSize(o, r)
        IN /\ Picture(p) /\ Resizing(p) /\ Alike(o, p, SizeFields)
  <1> DEFINE known == [o EXCEPT !.supports = TRUE, !.pendingResize = @ /\ ~r.mine]
             sized == IF r.mine /\ ~r.ok THEN known ELSE ResizeFb(known, r.w)
             p == HandleExtendedDesktopSize(o, r)
  <1>1. DOMAIN o = ObjFields /\ Formed(o)
    BY DEF Picture, Formed
  <1>2. /\ o.supports \in BOOLEAN /\ o.pendingResize \in BOOLEAN /\ o.recent \in BOOLEAN /\ o.win \in Widths
        /\ o.timer \in BOOLEAN /\ o.raf \in BOOLEAN /\ o.session \in BOOLEAN /\ o.clip \in BOOLEAN
    BY <1>1 DEF Formed
  <1>3. /\ known.supports = TRUE /\ known.pendingResize = (o.pendingResize /\ ~r.mine) /\ known.recent = o.recent
        /\ known.win = o.win /\ known.timer = o.timer /\ known.raf = o.raf /\ known.session = o.session
        /\ known.clip = o.clip /\ known.resizes = o.resizes /\ known.inbox = o.inbox
        /\ Alike(o, known, {"supports", "pendingResize"})
    BY <1>1 DEF Alike, ObjFields
  <1>4. p = IF ~o.supports \/ (r.mine /\ r.ok) THEN RequestRemoteResize(sized) ELSE sized
    BY DEF HandleExtendedDesktopSize
  <1> HIDE DEF known, p
  <1>5. Picture(known)
    <2>1. known.pendingResize \in BOOLEAN
      BY <1>3
    <2>2. Alike(o, known, {"supports", "pendingResize", "recent", "timer", "raf", "expected", "session", "clip", "win"})
      BY <1>3 DEF Alike
    <2> QED BY <1>2, <1>3, <2>1, <2>2, SamePicture
  <1>6. Resizing(known)
    <2>1. CASE r.mine
      BY <1>3, <2>1 DEF Resizing
    <2>2. CASE ~r.mine
      BY <1>2, <1>3, <2>2 DEF Resizing
    <2> QED BY <2>1, <2>2
  <1>7. Picture(sized) /\ Resizing(sized) /\ Alike(known, sized, {"disp", "ideal", "spoiled", "expected"})
    <2>1. CASE r.mine /\ ~r.ok
      <3>1. sized = known
        BY <2>1
      <3>2. DOMAIN known = ObjFields
        BY <1>3 DEF Alike
      <3> QED BY <1>5, <1>6, <3>1, <3>2 DEF Alike
    <2>2. CASE ~(r.mine /\ ~r.ok)
      <3>1. sized = ResizeFb(known, r.w)
        BY <2>2
      <3> HIDE DEF sized
      <3>2. Picture(sized) /\ Alike(known, sized, {"disp", "ideal", "spoiled", "expected"})
        BY <1>5, <3>1, ResizingFb
      <3>3. sized.resizes = known.resizes /\ sized.inbox = known.inbox /\ sized.pendingResize = known.pendingResize
        BY <3>2 DEF Alike, ObjFields
      <3>4. Resizing(sized)
        BY <1>6, <3>3 DEF Resizing
      <3> QED BY <3>2, <3>4
    <2> QED BY <2>1, <2>2
  <1> HIDE DEF sized
  <1>8. Picture(p) /\ Resizing(p) /\ Alike(o, p, SizeFields)
    <2>1. CASE ~o.supports \/ (r.mine /\ r.ok)
      <3>1. Picture(p) /\ Resizing(p) /\ Alike(sized, p, {"timer", "pendingResize", "recent", "resizes"})
        BY <1>4, <1>7, <2>1, Asking
      <3> QED BY <1>3, <1>7, <3>1 DEF Alike, SizeFields
    <2>2. CASE ~(~o.supports \/ (r.mine /\ r.ok))
      <3>1. p = sized
        BY <1>4, <2>2
      <3> QED BY <1>3, <1>7, <3>1 DEF Alike, SizeFields
    <2> QED BY <2>1, <2>2
  <1> QED BY <1>8 DEF p

-----------------------------------------------------------------------------
(* Rectangles.                                                             *)

\* An action behind what waits.
LEMMA AddedQueue ==
  ASSUME NEW q \in Seq(Actions), NEW a \in Actions, NEW u, u = Append(q, a) \/ u = <<>>,
         NEW m \in Nat, NEW n \in Nat, m <= n, NEW contexts,
         IsFrame(a) => m < a.frame /\ a.frame <= n,
         a.type \in {"img", "frame"} => a.state # "broken",
         Loading(a) => Has(contexts, a.frame)
  PROVE /\ Numbered(q, m) => Numbered(u, n)
        /\ Promised(q, contexts) => Promised(u, contexts)
  <1>1. CASE u = <<>>
    <2>1. DOMAIN u = {}
      BY <1>1
    <2> QED BY <2>1 DEF Numbered, Promised
  <1>2. CASE u = Append(q, a)
    <2> DEFINE k == Len(q)
    <2>1. k \in Nat /\ DOMAIN q = 1..k /\ \A i \in 1..k : q[i] \in Actions
      OBVIOUS
    <2>2. DOMAIN u = 1..(k + 1) /\ u[k + 1] = a /\ \A i \in 1..k : u[i] = q[i]
      BY <1>2
    <2> HIDE DEF k
    <2>3. \A i \in 1..(k + 1) : i = k + 1 \/ i \in 1..k
      BY <2>1
    <2>4. \A i \in 1..k : IsFrame(q[i]) => q[i].frame \in Nat
      BY <2>1, ActionIs DEF IsFrame
    <2>5. IsFrame(a) => a.frame \in Nat
      BY ActionIs DEF IsFrame
    <2>6. Numbered(q, m) => Numbered(u, n)
      <3> SUFFICES ASSUME Numbered(q, m), NEW i \in DOMAIN u, NEW j \in DOMAIN u
                   PROVE /\ IsFrame(u[i]) => u[i].frame <= n
                         /\ IsFrame(u[i]) /\ IsFrame(u[j]) /\ u[i].frame = u[j].frame => i = j
        BY DEF Numbered
      <3>1. \A l \in 1..k : IsFrame(q[l]) => q[l].frame <= m
        BY <2>1 DEF Numbered
      <3>2. \A l \in 1..k, h \in 1..k : IsFrame(q[l]) /\ IsFrame(q[h]) /\ q[l].frame = q[h].frame => l = h
        BY <2>1 DEF Numbered
      <3>3. CASE i \in 1..k /\ j \in 1..k
        BY <2>2, <2>4, <3>1, <3>2, <3>3
      <3>4. CASE i = k + 1 /\ j \in 1..k
        BY <2>2, <2>4, <2>5, <3>1, <3>4
      <3>5. CASE i \in 1..k /\ j = k + 1
        BY <2>2, <2>4, <2>5, <3>1, <3>5
      <3>6. CASE i = k + 1 /\ j = k + 1
        BY <2>2, <2>5, <3>6
      <3> QED BY <2>2, <2>3, <3>3, <3>4, <3>5, <3>6
    <2>7. Promised(q, contexts) => Promised(u, contexts)
      <3> SUFFICES ASSUME Promised(q, contexts), NEW i \in DOMAIN u
                   PROVE /\ u[i].type \in {"img", "frame"} => u[i].state # "broken"
                         /\ Loading(u[i]) => Has(contexts, u[i].frame)
        BY DEF Promised
      <3>1. CASE i \in 1..k
        BY <2>1, <2>2, <3>1 DEF Promised
      <3>2. CASE i = k + 1
        BY <2>2, <3>2
      <3> QED BY <2>2, <2>3, <3>1, <3>2
    <2> QED BY <2>6, <2>7
  <1> QED BY <1>1, <1>2

DrawFields == {"disp", "ideal", "spoiled", "contexts", "payloads", "failed"}

\* An action is added, and the server drew the same.
LEMMA AddedPicture ==
  ASSUME NEW o, Picture(o), NEW p, Alike(o, p, DrawFields), NEW a \in Actions, Adds(o.disp, p.disp, a),
         p.spoiled \in BOOLEAN, p.failed \in BOOLEAN, p.payloads \in Nat, p.ideal \in Seq(Nat),
         ~p.spoiled => ~o.spoiled /\ p.ideal = Step(o.ideal, a),
         Coming(p)
  PROVE Picture(p)
  <1>1. /\ p.flushing = o.flushing /\ p.inbox = o.inbox /\ p.rects = o.rects
        /\ p.requests = o.requests /\ p.win = o.win /\ p.resizes = o.resizes /\ DOMAIN p = ObjFields
        /\ \A f \in Booleans \ {"spoiled", "failed"} : p[f] = o[f]
    BY DEF Alike, ObjFields, Booleans, DrawFields
  <1>2. Formed(p)
    <2>1. \A f \in Booleans : p[f] \in BOOLEAN
      BY <1>1 DEF Picture, Formed, Booleans
    <2> QED BY <1>1, <2>1 DEF Picture, Formed, Adds, Booleans
  <1>3. Ordered(p)
    BY DEF Ordered, Picture, Adds
  <1> QED BY <1>2, <1>3 DEF Picture

\* An action that waits for no decoder.
LEMMA DrewPicture ==
  ASSUME NEW o, Picture(o), NEW p, Alike(o, p, {"disp", "ideal", "spoiled"}), NEW a \in Actions,
         Adds(o.disp, p.disp, a),
         ~IsFrame(a), a.type = "img" => a.state # "broken",
         p.spoiled \in BOOLEAN, p.ideal \in Seq(Nat),
         ~p.spoiled => ~o.spoiled /\ p.ideal = Step(o.ideal, a)
  PROVE Picture(p)
  <1>1. /\ p.contexts = o.contexts /\ p.payloads = o.payloads /\ p.failed = o.failed
    BY DEF Alike, ObjFields
  <1>2. /\ o.payloads \in Nat /\ o.failed \in BOOLEAN /\ o.disp.queue \in Seq(Actions)
    BY DEF Picture, Formed, Screen, Typed
  <1>3. p.disp.queue = Append(o.disp.queue, a) \/ p.disp.queue = <<>>
    BY DEF Adds
  <1>4. /\ Numbered(o.disp.queue, o.payloads) => Numbered(p.disp.queue, o.payloads)
        /\ Promised(o.disp.queue, o.contexts) => Promised(p.disp.queue, o.contexts)
    <2>1. o.payloads <= o.payloads
      BY <1>2
    <2>2. ~Loading(a)
      BY DEF Loading, IsFrame
    <2>3. a.type \in {"img", "frame"} => a.state # "broken"
      BY DEF IsFrame
    <2> DEFINE q == o.disp.queue
               u == p.disp.queue
    <2>4. q \in Seq(Actions) /\ (u = Append(q, a) \/ u = <<>>)
      BY <1>2, <1>3
    <2> HIDE DEF q, u
    <2>5. /\ Numbered(q, o.payloads) => Numbered(u, o.payloads)
          /\ Promised(q, o.contexts) => Promised(u, o.contexts)
      BY <1>2, <2>1, <2>2, <2>3, <2>4, AddedQueue
    <2> QED BY <2>5 DEF q, u
  <1>5. Coming(p)
    BY <1>1, <1>4 DEF Coming, Picture
  <1>6. Alike(o, p, DrawFields)
    BY DEF Alike, DrawFields
  <1> QED BY <1>1, <1>2, <1>5, <1>6, AddedPicture

\* The rectangles.
LEMMA RectangleIs ==
  ASSUME NEW r \in Rectangles
  PROVE /\ r.type \in {"fill", "copy", "blit", "img", "h264", "size", "extsize", "last"}
        /\ r.type \in {"fill", "img", "copy", "blit", "h264"} => r.x \in Nat \ {0}
        /\ r.type \in {"fill", "img", "blit", "h264"} => r.colour \in Nat
        /\ r.type = "copy" => r.from \in Nat
        /\ r.type = "blit" => r.isView \in BOOLEAN
        /\ r.type = "h264" => /\ r.slices \in Nat /\ r.key \in BOOLEAN
                              /\ r.refused \in BOOLEAN
        /\ r.type \in {"size", "extsize"} => r.w \in Widths
        /\ r.type = "extsize" => r.mine \in BOOLEAN /\ r.ok \in BOOLEAN
  BY DEF Rectangles

\* A rectangle of pixels is drawn.
LEMMA PixelRect ==
  ASSUME NEW o, Picture(o), NEW r \in Rectangles, r.type \in {"fill", "copy", "blit", "img"}
  PROVE LET p == HandleRect(o, r) IN Picture(p) /\ Alike(o, p, {"disp", "ideal", "spoiled"})
  <1> DEFINE d == o.disp
             p == HandleRect(o, r)
  <1>1. /\ Screen(d) /\ DOMAIN o = ObjFields /\ o.ideal \in Seq(Nat) /\ o.spoiled \in BOOLEAN
        /\ r.x \in Nat \ {0} /\ (r.type # "copy" => r.colour \in Nat) /\ (r.type = "copy" => r.from \in Nat)
        /\ (r.type = "blit" => r.isView \in BOOLEAN)
    BY RectangleIs DEF Picture, Formed, Ordered
  <1> HIDE DEF d
  <1>2. Painted(o.ideal, r) \in Seq(Nat)
    BY <1>1, PaintedIs
  <1>3. ASSUME NEW a \in Actions, NEW e, Adds(d, e, a), ~IsFrame(a), a.type = "img" => a.state # "broken",
               NEW s \in BOOLEAN,
               (s = o.spoiled /\ p = Drew(o, e, r)) \/ p = [Drew(o, e, r) EXCEPT !.spoiled = s],
               ~s => ~o.spoiled /\ Painted(o.ideal, r) = Step(o.ideal, a)
        PROVE Picture(p) /\ Alike(o, p, {"disp", "ideal", "spoiled"})
    <2> HIDE DEF p
    <2>1. p.disp = e /\ p.ideal = Painted(o.ideal, r) /\ p.spoiled = s /\ Alike(o, p, {"disp", "ideal", "spoiled"})
      BY <1>1, <1>3 DEF Drew, Alike, ObjFields
    <2>2. Picture(p)
      BY <1>2, <1>3, <2>1, DrewPicture DEF d
    <2> QED BY <2>1, <2>2
  <1>4. ASSUME r.type = "fill" PROVE Picture(p) /\ Alike(o, p, {"disp", "ideal", "spoiled"})
    <2> DEFINE a == [type |-> "fill", x |-> r.x, colour |-> r.colour]
               e == FillRect(d, r.x, r.colour)
    <2>1. a \in Actions /\ Ready(a) /\ ~IsFrame(a) /\ a.type # "img"
      BY <1>1, <1>4 DEF Actions, Ready, IsFrame
    <2>2. Adds(d, e, a)
      BY <1>1, <2>1, Drawings DEF FillRect
    <2>3. p = Drew(o, e, r)
      BY <1>4 DEF HandleRect, d
    <2>4. Painted(o.ideal, r) = Step(o.ideal, a)
      BY <1>4 DEF Step, Painted
    <2> HIDE DEF a, e, p
    <2> QED BY <1>1, <1>3, <2>1, <2>2, <2>3, <2>4
  <1>5. ASSUME r.type = "copy" PROVE Picture(p) /\ Alike(o, p, {"disp", "ideal", "spoiled"})
    <2> DEFINE a == [type |-> "copy", x |-> r.x, from |-> r.from]
               e == CopyImage(d, r.from, r.x)
    <2>1. a \in Actions /\ Ready(a) /\ ~IsFrame(a) /\ a.type # "img"
      BY <1>1, <1>5 DEF Actions, Ready, IsFrame
    <2>2. Adds(d, e, a)
      BY <1>1, <2>1, Drawings DEF CopyImage
    <2>3. p = Drew(o, e, r)
      BY <1>5 DEF HandleRect, d
    <2>4. Painted(o.ideal, r) = Step(o.ideal, a)
      BY <1>5 DEF Step, Painted
    <2> HIDE DEF a, e, p
    <2> QED BY <1>1, <1>3, <2>1, <2>2, <2>3, <2>4
  <1>6. ASSUME r.type = "img" PROVE Picture(p) /\ Alike(o, p, {"disp", "ideal", "spoiled"})
    <2> DEFINE a == [type |-> "img", x |-> r.x, colour |-> r.colour, state |-> "loading"]
               e == ImageRect(d, r.x, r.colour)
    <2>1. a \in Actions /\ ~Ready(a) /\ ~IsFrame(a) /\ a.state # "broken"
      BY <1>1, <1>6 DEF Actions, Ready, IsFrame, States
    <2>2. Adds(d, e, a)
      BY <1>1, <2>1, Pushing DEF ImageRect
    <2>3. p = Drew(o, e, r)
      BY <1>6 DEF HandleRect, d
    <2>4. Painted(o.ideal, r) = Step(o.ideal, a)
      BY <1>6 DEF Step, Painted
    <2> HIDE DEF a, e, p
    <2> QED BY <1>1, <1>3, <2>1, <2>2, <2>3, <2>4
  <1>7. ASSUME r.type = "blit" PROVE Picture(p) /\ Alike(o, p, {"disp", "ideal", "spoiled"})
    <2> DEFINE k == IF Pending(d) /\ r.isView THEN Foreign ELSE r.colour
               a == [type |-> "blit", x |-> r.x, colour |-> k]
               e == BlitImage(d, r.x, r.colour, r.isView)
               s == (o.spoiled \/ (r.isView /\ Pending(d)))
    <2>1. k \in Nat /\ (~s => k = r.colour) /\ s \in BOOLEAN
      BY <1>1, <1>7 DEF Foreign, Pending
    <2>2. e = Draw(d, a)
      BY DEF BlitImage
    <2> HIDE DEF k, e
    <2>3. a \in Actions /\ Ready(a) /\ ~IsFrame(a) /\ a.type # "img"
      BY <1>1, <2>1 DEF Actions, Ready, IsFrame
    <2>4. Adds(d, e, a)
      BY <1>1, <2>2, <2>3, Drawings
    <2>5. p = [Drew(o, e, r) EXCEPT !.spoiled = s]
      <3>1. p = [Drew(o, e, r) EXCEPT !.spoiled = @ \/ (r.isView /\ Pending(d))]
        BY <1>7 DEF HandleRect, d, e
      <3>2. DOMAIN Drew(o, e, r) = ObjFields /\ Drew(o, e, r).spoiled = o.spoiled
        BY <1>1 DEF Drew, ObjFields
      <3> QED BY <3>1, <3>2
    <2>6. ~s => Painted(o.ideal, r) = Step(o.ideal, a)
      BY <1>7, <2>1 DEF Step, Painted
    <2>7. ~s => ~o.spoiled
      OBVIOUS
    <2> HIDE DEF a, p, s
    <2> QED BY <1>3, <2>1, <2>3, <2>4, <2>5, <2>6, <2>7
  <1> HIDE DEF p
  <1>8. Picture(p) /\ Alike(o, p, {"disp", "ideal", "spoiled"})
    BY <1>4, <1>5, <1>6, <1>7
  <1> QED BY <1>8 DEF p

\* A record of a context.
LEMMA ContextIs ==
  /\ \A k \in Contexts :
        /\ DOMAIN k = {"x", "live", "configured", "pending", "coder"}
        /\ k.x \in Nat \ {0} /\ k.live \in BOOLEAN /\ k.configured \in BOOLEAN
        /\ k.pending \in Seq([payload : Nat, keep : BOOLEAN]) /\ k.coder \in Seq(Nat)
        /\ Len(k.pending) \in Nat /\ Len(k.coder) \in Nat
        /\ DOMAIN k.pending = 1..Len(k.pending) /\ DOMAIN k.coder = 1..Len(k.coder)
  /\ \A x \in Nat \ {0} : Context(x) \in Contexts /\ Fed(Context(x)) /\ Matched(Context(x))
  <1>1. ASSUME NEW k \in Contexts
        PROVE /\ DOMAIN k = {"x", "live", "configured", "pending", "coder"}
              /\ k.x \in Nat \ {0} /\ k.live \in BOOLEAN /\ k.configured \in BOOLEAN
              /\ k.pending \in Seq([payload : Nat, keep : BOOLEAN]) /\ k.coder \in Seq(Nat)
              /\ Len(k.pending) \in Nat /\ Len(k.coder) \in Nat
              /\ DOMAIN k.pending = 1..Len(k.pending) /\ DOMAIN k.coder = 1..Len(k.coder)
    BY DEF Contexts
  <1>2. ASSUME NEW x \in Nat \ {0} PROVE Context(x) \in Contexts /\ Fed(Context(x)) /\ Matched(Context(x))
    <2>1. Context(x).coder = <<>> /\ Context(x).pending = <<>>
      BY DEF Context
    <2>2. Context(x) \in Contexts
      BY EmptySeq DEF Context, Contexts
    <2>3. Len(<<>>) = 0 /\ DOMAIN <<>> = {}
      OBVIOUS
    <2> QED BY <2>1, <2>2, <2>3 DEF Fed, Matched
  <1> QED BY <1>1, <1>2

\* A context is dropped.
LEMMA ResettingContexts ==
  ASSUME NEW contexts \in SUBSET Contexts, NEW r, \A k \in contexts : Fed(k)
  PROVE LET kept == ResetContext(contexts, r)
        IN  /\ kept \subseteq Contexts /\ \A k \in kept : Fed(k)
            /\ (\A k \in contexts : Matched(k)) => \A k \in kept : Matched(k)
            /\ \A p : Has(contexts, p) => Has(kept, p)
  <1> DEFINE after(k) == [k EXCEPT !.live = @ /\ r.reset # "all" /\ (r.reset = "one" => k.x # r.x)]
             kept == ResetContext(contexts, r)
  <1>1. kept = {after(k) : k \in contexts}
    BY DEF ResetContext
  <1>2. ASSUME NEW k \in Contexts
        PROVE after(k) \in Contexts /\ after(k).coder = k.coder /\ after(k).pending = k.pending
    <2>1. after(k).live \in BOOLEAN
      BY ContextIs
    <2>2. /\ DOMAIN after(k) = DOMAIN k /\ after(k).x = k.x /\ after(k).configured = k.configured
          /\ after(k).coder = k.coder /\ after(k).pending = k.pending
      OBVIOUS
    <2>3. after(k) = [x |-> after(k).x, live |-> after(k).live, configured |-> after(k).configured,
                      pending |-> after(k).pending, coder |-> after(k).coder]
      BY DEF Contexts
    <2> HIDE DEF after
    <2> QED BY <2>1, <2>2, <2>3, ContextIs DEF Contexts
  <1> HIDE DEF after, kept
  <1>3. \A k \in Contexts : (Fed(k) => Fed(after(k))) /\ (Matched(k) => Matched(after(k)))
    BY <1>2 DEF Fed, Matched
  <1>4. \A k \in Contexts : \A p : HasIn(k, p) => HasIn(after(k), p)
    BY <1>2 DEF HasIn
  <1>5. \A p : Has(contexts, p) => Has(kept, p)
    BY <1>1, <1>4 DEF Has
  <1>6. /\ kept \subseteq Contexts /\ \A k \in kept : Fed(k)
    BY <1>1, <1>2, <1>3
  <1>7. (\A k \in contexts : Matched(k)) => \A k \in kept : Matched(k)
    BY <1>1, <1>3
  <1> QED BY <1>5, <1>6, <1>7 DEF kept

\* A context is found, or made.
LEMMA GettingContext ==
  ASSUME NEW contexts \in SUBSET Contexts, NEW x \in Nat \ {0}
  PROVE LET k == GetContext(contexts, x)
        IN k \in contexts \/ (k \in Contexts /\ Fed(k) /\ Matched(k))
  <1> DEFINE kept == {k \in contexts : k.live /\ k.x = x}
             k == GetContext(contexts, x)
  <1>1. CASE kept = {}
    BY <1>1, ContextIs DEF GetContext
  <1>2. CASE kept # {}
    <2>1. k = CHOOSE z \in kept : TRUE
      BY <1>2 DEF GetContext
    <2>2. k \in kept
      BY <1>2, <2>1
    <2> QED BY <2>2
  <1> QED BY <1>1, <1>2

\* A payload is given to a context.
LEMMA Decoding ==
  ASSUME NEW k \in Contexts, Fed(k), NEW r \in Rectangles, r.type = "h264", r.slices # 0, NEW payload \in Nat
  PROVE LET z == Decode(k, r, payload)
        IN  /\ z \in Contexts /\ Fed(z)
            /\ Matched(k) /\ ~r.refused => Matched(z)
            /\ \A p : HasIn(k, p) => HasIn(z, p)
            /\ ~(~k.configured /\ ~r.key) => HasIn(z, payload)
  <1> DEFINE n == r.slices
             F == [payload : Nat, keep : BOOLEAN]
             frames == [i \in 1..n |-> [payload |-> payload, keep |-> i = n]]
             chunks == [i \in 1..n |-> payload]
             z == Decode(k, r, payload)
             P == k.pending
             C == k.coder
  <1>1. n \in Nat \ {0} /\ r.refused \in BOOLEAN
    BY RectangleIs
  <1>2. P \in Seq(F) /\ C \in Seq(Nat) /\ Len(P) \in Nat /\ Len(C) \in Nat /\ Len(C) <= Len(P)
        /\ DOMAIN P = 1..Len(P) /\ DOMAIN C = 1..Len(C)
    BY ContextIs DEF Fed
  <1>3. CASE ~k.configured /\ ~r.key
    <2>1. z = k
      BY <1>3 DEF Decode
    <2> QED BY <1>3, <2>1
  <1>4. CASE ~(~k.configured /\ ~r.key)
    <2>1. z = [k EXCEPT !.configured = TRUE, !.pending = P \o frames, !.coder = IF r.refused THEN C ELSE C \o chunks]
      BY <1>4 DEF Decode
    <2> HIDE DEF n, z
    <2>2. frames \in Seq(F) /\ Len(frames) = n /\ frames[n] = [payload |-> payload, keep |-> TRUE]
          /\ \A i \in 1..n : frames[i].payload = payload
      <3> DEFINE e(i) == [payload |-> payload, keep |-> i = n]
      <3>1. \A i \in 1..n : e(i) \in F
        OBVIOUS
      <3> HIDE DEF F
      <3>2. frames \in Seq(F)
        <4>1. frames = [i \in 1..n |-> e(i)]
          OBVIOUS
        <4> HIDE DEF e, frames
        <4> QED BY <1>1, <3>1, <4>1, IsASeq
      <3>3. n \in 1..n
        BY <1>1
      <3>4. Len(frames) = n
        BY <1>1
      <3> QED BY <3>2, <3>3, <3>4
    <2>3. chunks \in Seq(Nat) /\ Len(chunks) = n /\ \A i \in 1..n : chunks[i] = payload
      BY <1>1
    <2> HIDE DEF F, frames, chunks, P, C
    <2> DEFINE u == P \o frames
               v == C \o chunks
    <2>4. /\ u \in Seq(F) /\ Len(u) = Len(P) + n
          /\ \A i \in 1..Len(P) + n : u[i] = IF i <= Len(P) THEN P[i] ELSE frames[i - Len(P)]
      BY <1>2, <2>2, ConcatProperties
    <2>5. /\ v \in Seq(Nat) /\ Len(v) = Len(C) + n
          /\ \A i \in 1..Len(C) + n : v[i] = IF i <= Len(C) THEN C[i] ELSE chunks[i - Len(C)]
      BY <1>2, <2>3, ConcatProperties
    <2> HIDE DEF u, v
    <2>6. /\ z.x = k.x /\ z.live = k.live /\ z.configured = TRUE /\ z.pending = u
          /\ z.coder = (IF r.refused THEN C ELSE v)
          /\ z = [x |-> k.x, live |-> k.live, configured |-> TRUE, pending |-> u, coder |-> IF r.refused THEN C ELSE v]
      <3>1. DOMAIN k = {"x", "live", "configured", "pending", "coder"}
        BY ContextIs
      <3> QED BY <2>1, <3>1 DEF u, v, Contexts
    <2>7. z \in Contexts
      <3>1. k.x \in Nat \ {0} /\ k.live \in BOOLEAN
        BY ContextIs
      <3>2. (IF r.refused THEN C ELSE v) \in Seq(Nat)
        BY <1>2, <2>5
      <3> QED BY <2>4, <2>6, <3>1, <3>2 DEF Contexts, F
    <2>8. Fed(z)
      BY <1>1, <1>2, <2>4, <2>5, <2>6 DEF Fed
    <2>9. ASSUME Matched(k), ~r.refused PROVE Matched(z)
      <3>1. Len(C) = Len(P) /\ \A i \in 1..Len(C) : C[i] = P[i].payload
        BY <1>2, <2>9 DEF Matched, C, P
      <3>2. DOMAIN v = 1..Len(v)
        BY <2>5
      <3>3. ASSUME NEW i \in 1..Len(C) + n PROVE v[i] = u[i].payload
        <4>1. CASE i <= Len(C)
          <5>1. i \in 1..Len(C)
            BY <1>2, <4>1
          <5> QED BY <2>4, <2>5, <3>1, <4>1, <5>1
        <4>2. CASE ~(i <= Len(C))
          <5>1. i - Len(C) \in 1..n
            BY <1>1, <1>2, <4>2
          <5> QED BY <2>2, <2>3, <2>4, <2>5, <3>1, <4>2, <5>1
        <4> QED BY <4>1, <4>2
      <3> QED BY <2>4, <2>5, <2>6, <2>9, <3>1, <3>2, <3>3 DEF Matched
    <2>10. DOMAIN u = 1..(Len(P) + n)
      BY <2>4
    <2>11. ASSUME NEW p, HasIn(k, p) PROVE HasIn(z, p)
      <3>1. PICK i \in 1..Len(P) : P[i] = [payload |-> p, keep |-> TRUE]
        BY <1>2, <2>11 DEF HasIn, P
      <3>2. i \in 1..Len(P) + n /\ i <= Len(P)
        BY <1>1, <1>2
      <3>3. u[i] = P[i]
        BY <2>4, <3>2
      <3> QED BY <2>6, <2>10, <3>1, <3>2, <3>3 DEF HasIn
    <2>12. HasIn(z, payload)
      <3>1. Len(P) + n \in 1..Len(P) + n /\ ~(Len(P) + n <= Len(P)) /\ (Len(P) + n) - Len(P) = n
        BY <1>1, <1>2
      <3>2. u[Len(P) + n] = frames[n]
        BY <2>4, <3>1
      <3> QED BY <2>2, <2>6, <2>10, <3>1, <3>2 DEF HasIn
    <2> QED BY <2>7, <2>8, <2>9, <2>11, <2>12 DEF z
  <1> QED BY <1>3, <1>4

\* The context k decodes r.
LEMMA DecodingWith ==
  ASSUME NEW o, Picture(o), NEW r \in Rectangles, r.type = "h264", r.slices # 0, NEW k,
         k \in o.contexts \/ (k \in Contexts /\ Fed(k) /\ Matched(k))
  PROVE LET p == DecodeWith(o, r, k) IN Picture(p) /\ Alike(o, p, DrawFields)
  <1> DEFINE m == o.payloads
             d == o.disp
             q == d.queue
             n == m + 1
             z == Decode(k, r, n)
             next == (o.contexts \ {k}) \union {z}
             used == [o EXCEPT !.payloads = @ + 1, !.failed = @ \/ r.refused, !.contexts = next]
             p == DecodeWith(o, r, k)
  <1>1. /\ DOMAIN o = ObjFields /\ m \in Nat /\ o.failed \in BOOLEAN /\ o.spoiled \in BOOLEAN /\ o.ideal \in Seq(Nat)
        /\ q \in Seq(Actions) /\ Screen(d) /\ Coming(o) /\ (~o.spoiled => Drawn(d) = o.ideal)
    BY DEF Picture, Formed, Ordered, Screen, Typed
  <1>2. /\ o.contexts \subseteq Contexts /\ (\A x \in o.contexts : Fed(x)) /\ Numbered(q, m)
        /\ ~o.failed => (\A x \in o.contexts : Matched(x)) /\ Promised(q, o.contexts)
    BY <1>1 DEF Coming
  <1>3. /\ r.x \in Nat \ {0} /\ r.colour \in Nat /\ r.refused \in BOOLEAN /\ n \in Nat /\ m <= n /\ m < n
    BY <1>1, RectangleIs
  <1>4. k \in Contexts /\ Fed(k) /\ (~o.failed => Matched(k))
    BY <1>2
  <1> HIDE DEF m, n
  <1>5. /\ z \in Contexts /\ Fed(z) /\ (Matched(k) /\ ~r.refused => Matched(z))
        /\ (\A b : HasIn(k, b) => HasIn(z, b))
        /\ ~(~k.configured /\ ~r.key) => HasIn(z, n)
    BY <1>3, <1>4, Decoding
  <1> HIDE DEF z
  <1>6. next \subseteq Contexts /\ \A x \in next : Fed(x)
    BY <1>2, <1>5
  <1>7. ~o.failed /\ ~r.refused => \A x \in next : Matched(x)
    BY <1>2, <1>4, <1>5
  <1>8. \A b : Has(o.contexts, b) => Has(next, b)
    <2> SUFFICES ASSUME NEW b, NEW x \in o.contexts, HasIn(x, b) PROVE \E y \in next : HasIn(y, b)
      BY DEF Has
    <2>1. CASE x = k
      BY <1>5, <2>1
    <2>2. CASE x # k
      BY <2>2
    <2> QED BY <2>1, <2>2
  <1>9. ~(~k.configured /\ ~r.key) => Has(next, n)
    BY <1>5 DEF Has
  <1> HIDE DEF next
  <1>10. ~o.failed => Promised(q, next)
    BY <1>2, <1>8 DEF Promised
  <1>11. /\ used.payloads = n /\ used.failed = (o.failed \/ r.refused) /\ used.contexts = next
         /\ used.disp = d /\ used.ideal = o.ideal /\ used.spoiled = o.spoiled
         /\ Alike(o, used, {"payloads", "failed", "contexts"})
    BY <1>1 DEF Alike, ObjFields, m, n
  <1>12. p = IF ~k.configured /\ ~r.key THEN used
             ELSE [used EXCEPT !.disp = VideoFrame(@, r.x, r.colour, n),
                               !.ideal = Painted(@, [type |-> "frame", x |-> r.x, colour |-> r.colour])]
    BY DEF DecodeWith, next, n, m, z
  <1>13. used.failed \in BOOLEAN
    BY <1>1, <1>3, <1>11
  <1> HIDE DEF used, p
  <1>14. ASSUME ~k.configured /\ ~r.key PROVE Picture(p) /\ Alike(o, p, DrawFields)
    <2>1. p = used
      BY <1>12, <1>14
    <2>2. Coming(used)
      <3>1. Numbered(q, n)
        <4>1. \A i \in DOMAIN q : IsFrame(q[i]) => q[i].frame \in Nat
          BY <1>1, ActionIs DEF IsFrame
        <4>2. \A i \in DOMAIN q : IsFrame(q[i]) => q[i].frame <= n
          <5>1. \A i \in DOMAIN q : IsFrame(q[i]) => q[i].frame <= m
            BY <1>2 DEF Numbered
          <5> QED BY <1>1, <1>3, <4>1, <5>1
        <4> QED BY <1>2, <4>2 DEF Numbered
      <3> QED BY <1>6, <1>7, <1>10, <1>11, <3>1 DEF Coming
    <2>3. /\ used.flushing = o.flushing /\ used.inbox = o.inbox /\ used.rects = o.rects
          /\ used.requests = o.requests /\ used.win = o.win /\ used.resizes = o.resizes /\ DOMAIN used = ObjFields
          /\ \A f \in Booleans \ {"failed"} : used[f] = o[f]
      BY <1>11 DEF Alike, ObjFields, Booleans
    <2>4. Formed(used)
      <3>1. \A f \in Booleans : used[f] \in BOOLEAN
        BY <1>13, <2>3 DEF Picture, Formed, Booleans
      <3> QED BY <1>3, <1>11, <2>3, <3>1 DEF Picture, Formed, Booleans
    <2>5. Ordered(used)
      BY <1>11 DEF Picture, Ordered
    <2>6. Alike(o, used, DrawFields)
      BY <1>11 DEF Alike, DrawFields
    <2> QED BY <2>1, <2>2, <2>4, <2>5, <2>6 DEF Picture
  <1>15. ASSUME ~(~k.configured /\ ~r.key) PROVE Picture(p) /\ Alike(o, p, DrawFields)
    <2> DEFINE a == [type |-> "frame", x |-> r.x, colour |-> r.colour, frame |-> n, state |-> "loading"]
               e == VideoFrame(d, r.x, r.colour, n)
               b == [type |-> "frame", x |-> r.x, colour |-> r.colour]
    <2>1. a \in Actions /\ ~Ready(a) /\ IsFrame(a) /\ a.frame = n /\ a.state # "broken" /\ a.type = "frame"
      BY <1>3 DEF Actions, Ready, IsFrame, States
    <2>2. Adds(d, e, a)
      BY <1>1, <2>1, Pushing DEF VideoFrame
    <2>3. Painted(o.ideal, b) = Step(o.ideal, a)
      BY DEF Step, Painted
    <2>4. Painted(o.ideal, b) \in Seq(Nat)
      <3>1. b.x \in Nat /\ b.colour \in Nat
        BY <1>3
      <3> HIDE DEF b
      <3> QED BY <1>1, <3>1, PaintedIs
    <2>5. /\ p.disp = e /\ p.ideal = Painted(o.ideal, b) /\ p.payloads = n /\ p.failed = used.failed
          /\ p.contexts = next /\ p.spoiled = o.spoiled /\ Alike(o, p, DrawFields)
      <3>1. p = [used EXCEPT !.disp = VideoFrame(@, r.x, r.colour, n), !.ideal = Painted(@, b)]
        BY <1>12, <1>15
      <3> HIDE DEF b
      <3> QED BY <1>11, <3>1 DEF Alike, ObjFields, DrawFields
    <2> HIDE DEF a, e, b
    <2>6. e.queue = Append(q, a) \/ e.queue = <<>>
      BY <2>2 DEF Adds
    <2>8. (Numbered(q, m) => Numbered(e.queue, n)) /\ (Promised(q, next) => Promised(e.queue, next))
      <3> DEFINE u == e.queue
      <3>1. Loading(a) => Has(next, a.frame)
        BY <1>9, <1>15, <2>1
      <3>2. IsFrame(a) => m < a.frame /\ a.frame <= n
        BY <1>3, <2>1
      <3>3. a.type \in {"img", "frame"} => a.state # "broken"
        BY <2>1
      <3>4. q \in Seq(Actions) /\ m \in Nat /\ n \in Nat /\ m <= n /\ a \in Actions
        BY <1>1, <1>3, <2>1
      <3>5. u = Append(q, a) \/ u = <<>>
        BY <2>6
      <3> HIDE DEF q, u
      <3>6. (Numbered(q, m) => Numbered(u, n)) /\ (Promised(q, next) => Promised(u, next))
        BY <3>1, <3>2, <3>3, <3>4, <3>5, AddedQueue
      <3> QED BY <3>6 DEF u
    <2>9. Coming(p)
      BY <1>2, <1>6, <1>7, <1>10, <1>11, <2>5, <2>8 DEF Coming
    <2>10. Picture(p)
      BY <1>1, <1>3, <1>13, <2>1, <2>2, <2>3, <2>4, <2>5, <2>9, AddedPicture
    <2> QED BY <2>5, <2>10
  <1>16. Picture(p) /\ Alike(o, p, DrawFields)
    BY <1>14, <1>15
  <1> QED BY <1>16 DEF p

\* A payload of a rectangle.
LEMMA H264Picture ==
  ASSUME NEW o, Picture(o), NEW r \in Rectangles, r.type = "h264"
  PROVE LET p == H264Rect(o, r) IN Picture(p) /\ Alike(o, p, DrawFields)
  <1> DEFINE kept == ResetContext(o.contexts, r)
             u == [o EXCEPT !.contexts = kept]
             k == GetContext(kept, r.x)
             p == DecodeWith(u, r, k)
  <1>1. /\ DOMAIN o = ObjFields /\ Formed(o) /\ Ordered(o) /\ Coming(o) /\ r.x \in Nat \ {0}
    BY RectangleIs DEF Picture, Formed
  <1>2. /\ o.contexts \subseteq Contexts /\ (\A x \in o.contexts : Fed(x)) /\ Numbered(o.disp.queue, o.payloads)
        /\ ~o.failed => (\A x \in o.contexts : Matched(x)) /\ Promised(o.disp.queue, o.contexts)
    BY <1>1 DEF Coming
  <1>3. /\ kept \subseteq Contexts /\ (\A x \in kept : Fed(x))
        /\ (\A x \in o.contexts : Matched(x)) => \A x \in kept : Matched(x)
        /\ \A b : Has(o.contexts, b) => Has(kept, b)
    BY <1>2, ResettingContexts
  <1> HIDE DEF kept
  <1>4. k \in kept \/ (k \in Contexts /\ Fed(k) /\ Matched(k))
    BY <1>1, <1>3, GettingContext
  <1> HIDE DEF k
  <1>5. u.contexts = kept /\ Alike(o, u, {"contexts"})
    BY <1>1 DEF Alike, ObjFields
  <1> HIDE DEF u
  <1>6. /\ u.disp = o.disp /\ u.ideal = o.ideal /\ u.spoiled = o.spoiled /\ u.failed = o.failed
        /\ u.payloads = o.payloads /\ u.flushing = o.flushing /\ u.inbox = o.inbox /\ u.rects = o.rects
        /\ u.requests = o.requests /\ u.resizes = o.resizes /\ u.win = o.win /\ DOMAIN u = ObjFields
        /\ \A f \in Booleans : u[f] = o[f]
    BY <1>5 DEF Alike, ObjFields, Booleans
  <1>7. Formed(u)
    <2>1. \A f \in Booleans : u[f] \in BOOLEAN
      BY <1>1, <1>6 DEF Formed, Booleans
    <2> QED BY <1>1, <1>6, <2>1 DEF Formed, Booleans
  <1>8. Ordered(u)
    BY <1>1, <1>6 DEF Ordered
  <1>9. Coming(u)
    <2>1. Promised(o.disp.queue, o.contexts) => Promised(o.disp.queue, kept)
      BY <1>3 DEF Promised
    <2> QED BY <1>2, <1>3, <1>5, <1>6, <2>1 DEF Coming
  <1> DEFINE h == H264Rect(o, r)
  <1>10. ASSUME r.slices # 0 PROVE Picture(h) /\ Alike(o, h, DrawFields)
    <2>1. k \in u.contexts \/ (k \in Contexts /\ Fed(k) /\ Matched(k))
      BY <1>4, <1>5
    <2>2. Picture(p) /\ Alike(u, p, DrawFields)
      BY <1>7, <1>8, <1>9, <1>10, <2>1, DecodingWith DEF Picture
    <2>3. h = p
      BY <1>10 DEF H264Rect, kept, u, k
    <2> HIDE DEF p, h
    <2>4. Alike(o, p, DrawFields)
      BY <1>5, <2>2 DEF Alike, DrawFields
    <2> QED BY <2>2, <2>3, <2>4
  <1>11. ASSUME r.slices = 0 PROVE Picture(h) /\ Alike(o, h, DrawFields)
    <2>1. h = u
      BY <1>11 DEF H264Rect, kept, u
    <2> HIDE DEF h
    <2>2. Alike(o, u, DrawFields)
      BY <1>5 DEF Alike, DrawFields
    <2> QED BY <1>7, <1>8, <1>9, <2>1, <2>2 DEF Picture
  <1> HIDE DEF h
  <1>12. r.slices = 0 \/ r.slices # 0
    OBVIOUS
  <1>13. Picture(h) /\ Alike(o, h, DrawFields)
    BY <1>10, <1>11, <1>12
  <1> QED BY <1>13 DEF h

\* What a rectangle may touch.
RectFields == DrawFields \union SizeFields \union {"rects"}

\* Any rectangle but an answer to a request keeps the picture, and the requests for a size.
LEMMA Rectangle ==
  ASSUME NEW o, Picture(o), NEW r \in Rectangles,
         IF r.type = "extsize" /\ r.mine
         THEN o.resizes = 0 /\ \A i \in DOMAIN o.inbox : ~IsAnswer(o.inbox[i])
         ELSE Resizing(o)
  PROVE LET p == HandleRect(o, r)
        IN  /\ Picture(p) /\ Resizing(p) /\ Alike(o, p, RectFields)
            /\ p.rects = IF r.type = "last" THEN 1 ELSE o.rects
  <1> DEFINE p == HandleRect(o, r)
             Good == /\ Picture(p) /\ Resizing(p) /\ Alike(o, p, RectFields)
                     /\ p.rects = IF r.type = "last" THEN 1 ELSE o.rects
  <1>1. DOMAIN o = ObjFields /\ o.rects \in Nat
    BY DEF Picture, Formed
  <1>2. ASSUME Picture(p), Alike(o, p, DrawFields), r.type # "last", r.type # "extsize" PROVE Good
    <2> HIDE DEF p
    <2>1. p.rects = o.rects /\ p.resizes = o.resizes /\ p.inbox = o.inbox /\ p.pendingResize = o.pendingResize
      BY <1>2 DEF Alike, ObjFields, DrawFields
    <2>2. Resizing(p)
      BY <1>2, <2>1 DEF Resizing
    <2>3. Alike(o, p, RectFields)
      BY <1>2 DEF Alike, RectFields
    <2> QED BY <1>2, <2>1, <2>2, <2>3
  <1>3. ASSUME r.type \in {"fill", "copy", "blit", "img"} PROVE Good
    <2>1. Picture(p) /\ Alike(o, p, {"disp", "ideal", "spoiled"})
      BY <1>3, PixelRect
    <2> HIDE DEF p
    <2>2. Alike(o, p, DrawFields)
      BY <2>1 DEF Alike, DrawFields
    <2> QED BY <1>2, <1>3, <2>1, <2>2
  <1>4. ASSUME r.type = "h264" PROVE Good
    <2>1. p = H264Rect(o, r)
      BY <1>4 DEF HandleRect
    <2> HIDE DEF p
    <2>2. Picture(p) /\ Alike(o, p, DrawFields)
      BY <1>4, <2>1, H264Picture
    <2> QED BY <1>2, <1>4, <2>2
  <1>5. ASSUME r.type = "size" PROVE Good
    <2>1. p = ResizeFb(o, r.w) /\ r.w \in Widths
      BY <1>5, RectangleIs DEF HandleRect
    <2> HIDE DEF p
    <2>2. Picture(p) /\ Alike(o, p, {"disp", "ideal", "spoiled", "expected"})
      BY <2>1, ResizingFb
    <2>3. p.rects = o.rects /\ p.resizes = o.resizes /\ p.inbox = o.inbox /\ p.pendingResize = o.pendingResize
      BY <2>2 DEF Alike, ObjFields
    <2>4. Resizing(p)
      BY <1>5, <2>3 DEF Resizing
    <2>5. Alike(o, p, RectFields)
      BY <2>2 DEF Alike, RectFields, SizeFields
    <2> QED BY <1>5, <2>2, <2>3, <2>4, <2>5
  <1>6. ASSUME r.type = "extsize" PROVE Good
    <2>1. p = HandleExtendedDesktopSize(o, r) /\ r.mine \in BOOLEAN /\ r.ok \in BOOLEAN /\ r.w \in Widths
      BY <1>6, RectangleIs DEF HandleRect
    <2> HIDE DEF p
    <2>2. IF r.mine THEN o.resizes = 0 /\ \A i \in DOMAIN o.inbox : ~IsAnswer(o.inbox[i]) ELSE Resizing(o)
      BY <1>6
    <2>3. Picture(p) /\ Resizing(p) /\ Alike(o, p, SizeFields)
      BY <2>1, <2>2, Answering
    <2>4. p.rects = o.rects
      BY <2>3 DEF Alike, ObjFields, SizeFields
    <2>5. Alike(o, p, RectFields)
      BY <2>3 DEF Alike, RectFields
    <2> QED BY <1>6, <2>3, <2>4, <2>5
  <1>7. ASSUME r.type = "last" PROVE Good
    <2>1. p = [o EXCEPT !.rects = 1]
      BY <1>7 DEF HandleRect
    <2> HIDE DEF p
    <2>2. p.rects = 1 /\ Alike(o, p, {"rects"})
      BY <1>1, <2>1 DEF Alike, ObjFields
    <2>3. /\ p.disp = o.disp /\ p.ideal = o.ideal /\ p.spoiled = o.spoiled /\ p.failed = o.failed
          /\ p.payloads = o.payloads /\ p.flushing = o.flushing /\ p.inbox = o.inbox /\ p.contexts = o.contexts
          /\ p.requests = o.requests /\ p.resizes = o.resizes /\ p.win = o.win /\ DOMAIN p = ObjFields
          /\ p.pendingResize = o.pendingResize
          /\ \A f \in Booleans : p[f] = o[f]
      BY <2>2 DEF Alike, ObjFields, Booleans
    <2>4. Formed(p)
      <3>1. \A f \in Booleans : p[f] \in BOOLEAN
        BY <2>3 DEF Picture, Formed, Booleans
      <3> QED BY <2>2, <2>3, <3>1 DEF Picture, Formed, Booleans
    <2>5. Ordered(p)
      BY <2>3 DEF Picture, Ordered
    <2>6. Coming(p)
      BY <2>3 DEF Picture, Coming
    <2>7. Resizing(p)
      BY <1>7, <2>3 DEF Resizing
    <2>8. Alike(o, p, RectFields)
      BY <2>2 DEF Alike, RectFields
    <2> QED BY <1>7, <2>2, <2>4, <2>5, <2>6, <2>7, <2>8 DEF Picture
  <1> HIDE DEF Good
  <1>8. Good
    BY <1>3, <1>4, <1>5, <1>6, <1>7, RectangleIs
  <1> QED BY <1>8 DEF Good

-----------------------------------------------------------------------------
(* Messages.                                                               *)

\* The display, the decoders and what the server drew are the same.
Untouched(o, p) == DOMAIN p = ObjFields /\ \A f \in DrawFields \union {"flushing"} : p[f] = o[f]

\* The picture does not depend on the counts of messages.
LEMMA UntouchedPicture ==
  ASSUME NEW o, NEW p, Picture(o), Untouched(o, p), p.inbox \in Seq(Parts), p.rects \in Nat,
         p.requests \in 0..1,
         p.resizes \in Nat, p.win \in Widths, \A f \in Booleans : p[f] \in BOOLEAN
  PROVE Picture(p)
  <1>1. /\ p.disp = o.disp /\ p.ideal = o.ideal /\ p.spoiled = o.spoiled /\ p.failed = o.failed
        /\ p.payloads = o.payloads /\ p.flushing = o.flushing /\ p.contexts = o.contexts /\ DOMAIN p = ObjFields
    BY DEF Untouched, DrawFields
  <1>2. Formed(p)
    BY <1>1 DEF Picture, Formed, Booleans
  <1>3. Ordered(p)
    BY <1>1 DEF Picture, Ordered
  <1>4. Coming(p)
    BY <1>1 DEF Picture, Coming
  <1> QED BY <1>2, <1>3, <1>4 DEF Picture

\* The object waits for the display.
LEMMA FlushingPicture ==
  ASSUME NEW o, Picture(o), Pending(o.disp), NEW lost \in BOOLEAN
  PROVE LET p == [o EXCEPT !.flushing = TRUE, !.disp = Flush(@), !.lost = lost]
        IN Picture(p) /\ Alike(o, p, {"flushing", "disp", "lost"}) /\ p.flushing = TRUE /\ p.lost = lost
  <1> DEFINE d == o.disp
             e == Flush(d)
             p == [o EXCEPT !.flushing = TRUE, !.disp = Flush(@), !.lost = lost]
  <1>1. /\ Screen(d) /\ Typed(d) /\ Fits(d) /\ Tracked(d) /\ Blocked(d) /\ DOMAIN d = DispFields
        /\ DOMAIN o = ObjFields /\ Pending(d)
    BY DEF Picture, Formed, Screen, Typed
  <1>2. /\ e.back = d.back /\ e.shown = d.shown /\ e.x = d.x /\ e.w = d.w /\ e.clip = d.clip
        /\ e.damage = d.damage /\ e.queue = d.queue /\ e.flushing = TRUE /\ DOMAIN e = DispFields
    <2>1. Pending(d) = TRUE
      BY <1>1 DEF Pending
    <2> QED BY <1>1, <2>1 DEF Flush, DispFields
  <1>3. p.disp = e /\ p.flushing = TRUE /\ p.lost = lost /\ Alike(o, p, {"flushing", "disp", "lost"})
    BY <1>1 DEF Alike, ObjFields
  <1> HIDE DEF e, p
  <1>4. Typed(e)
    BY <1>1, <1>2 DEF Typed
  <1>5. Fits(e)
    BY <1>1, <1>2 DEF Fits
  <1>6. Tracked(e)
    BY <1>1, <1>2, Zenon DEF Tracked
  <1>7. Screen(e)
    BY <1>1, <1>2, <1>4, <1>5, <1>6 DEF Screen, Blocked, Awaited, Pending
  <1>8. Drawn(e) = Drawn(d)
    <2>1. Drawing(d.back, d.queue, Drawn(d)) /\ Drawing(d.back, d.queue, Drawn(e)) /\ d.queue \in Seq(Actions)
      BY <1>1, <1>2, <1>4, DrawnIs DEF Typed
    <2> QED BY <2>1, DrawingOnce
  <1>9. /\ p.ideal = o.ideal /\ p.spoiled = o.spoiled /\ p.contexts = o.contexts /\ p.failed = o.failed
        /\ p.payloads = o.payloads /\ p.inbox = o.inbox /\ p.rects = o.rects /\ DOMAIN p = ObjFields
        /\ p.requests = o.requests /\ p.resizes = o.resizes /\ p.win = o.win
        /\ \A f \in Booleans \ {"lost"} : p[f] = o[f]
    BY <1>3 DEF Alike, ObjFields, Booleans
  <1>10. Formed(p)
    <2>1. \A f \in Booleans : p[f] \in BOOLEAN
      BY <1>3, <1>9 DEF Picture, Formed, Booleans
    <2> QED BY <1>2, <1>3, <1>7, <1>9, <2>1 DEF Picture, Formed, Booleans
  <1>11. Ordered(p)
    BY <1>3, <1>8, <1>9 DEF Picture, Ordered
  <1>12. Coming(p)
    BY <1>2, <1>3, <1>9 DEF Picture, Coming
  <1> QED BY <1>3, <1>10, <1>11, <1>12 DEF Picture, p

\* An update is finished.
LEMMA FinishingPicture ==
  ASSUME NEW o, Picture(o), o.cont \/ o.requests = 0
  PROVE LET p == FinishUpdate(o)
        IN /\ Picture(p) /\ Alike(o, p, {"disp", "requests"})
           /\ p.requests = IF o.cont THEN o.requests ELSE 1
  <1> DEFINE n == IF o.cont THEN o.requests ELSE o.requests + 1
             u == [o EXCEPT !.requests = n]
             p == FinishUpdate(o)
  <1>1. DOMAIN o = ObjFields /\ o.requests \in 0..1 /\ Screen(o.disp)
    BY DEF Picture, Formed
  <1>2. n \in 0..1 /\ n = IF o.cont THEN o.requests ELSE 1
    BY <1>1
  <1>3. p = [o EXCEPT !.disp = Flip(@), !.requests = n]
    BY DEF FinishUpdate
  <1> HIDE DEF n
  <1>4. /\ u.requests = n /\ DOMAIN u = ObjFields /\ \A f \in ObjFields \ {"requests"} : u[f] = o[f]
    BY <1>1 DEF ObjFields
  <1> HIDE DEF u
  <1>5. Picture(u)
    <2>1. Untouched(o, u)
      BY <1>4 DEF Untouched, DrawFields, ObjFields
    <2>2. u.inbox = o.inbox /\ u.rects = o.rects /\ u.resizes = o.resizes /\ u.win = o.win
      BY <1>4 DEF ObjFields
    <2>3. \A f \in Booleans : u[f] = o[f]
      BY <1>4 DEF ObjFields, Booleans
    <2>4. \A f \in Booleans : u[f] \in BOOLEAN
      BY <2>3 DEF Picture, Formed, Booleans
    <2>5. u.inbox \in Seq(Parts) /\ u.rects \in Nat /\ u.resizes \in Nat /\ u.win \in Widths
      BY <2>2 DEF Picture, Formed
    <2> QED BY <1>2, <1>4, <2>1, <2>4, <2>5, UntouchedPicture
  <1> HIDE DEF p
  <1>6. p.disp = Flip(o.disp) /\ p.requests = n /\ Alike(o, p, {"disp", "requests"})
    BY <1>1, <1>3 DEF Alike, ObjFields
  <1>7. Screen(p.disp) /\ Shown(u.disp, p.disp)
    <2>1. u.disp = o.disp
      BY <1>4 DEF ObjFields
    <2> QED BY <1>1, <1>6, <2>1, Flipping
  <1>8. Alike(u, p, {"disp", "expected"})
    <2>1. \A f \in ObjFields \ {"disp", "expected"} : p[f] = u[f]
      BY <1>4, <1>6 DEF Alike, ObjFields
    <2> QED BY <1>6, <2>1 DEF Alike
  <1>9. Picture(p)
    BY <1>5, <1>7, <1>8, Refitted
  <1> QED BY <1>2, <1>6, <1>9 DEF p

\* What is owed when the first part has been handled.
LEMMA OwedNext ==
  ASSUME NEW o, NEW left, Owed(o, left), o.inbox \in Seq(Parts), o.inbox # <<>>
  PROVE \E m \in Nat : /\ Leaves(o.rects, o.inbox[1], m)
                       /\ \A p : p.inbox = Tail(o.inbox) /\ p.rects = m => Owed(p, left)
  <1> DEFINE w == o.inbox
             n == Len(w)
             v == Tail(w)
  <1>1. n \in Nat /\ n > 0 /\ 1 \in 1..n /\ DOMAIN w = 1..n
    BY EmptySeq
  <1>2. Len(v) = n - 1 /\ DOMAIN v = 1..(n - 1) /\ \A i \in 1..(n - 1) : v[i] = w[i + 1]
    OBVIOUS
  <1>3. PICK f \in [0..n -> Nat] : f[0] = o.rects /\ f[n] = left /\ \A i \in 1..n : Leaves(f[i - 1], w[i], f[i])
    BY <1>1 DEF Owed
  <1> HIDE DEF w, n, v
  <1> DEFINE g == [i \in 0..(n - 1) |-> f[i + 1]]
  <1>4. \A i \in 0..(n - 1) : i + 1 \in 0..n
    BY <1>1
  <1>5. g \in [0..(n - 1) -> Nat] /\ g[0] = f[1] /\ g[n - 1] = left
    <2>1. 0 \in 0..(n - 1) /\ n - 1 \in 0..(n - 1) /\ (n - 1) + 1 = n /\ 0 + 1 = 1
      BY <1>1
    <2> QED BY <1>3, <1>4, <2>1
  <1>6. ASSUME NEW i \in 1..(n - 1) PROVE Leaves(g[i - 1], v[i], g[i])
    <2>1. i + 1 \in 1..n /\ (i + 1) - 1 = i /\ (i - 1) + 1 = i /\ i - 1 \in 0..(n - 1) /\ i \in 0..(n - 1)
      BY <1>1
    <2>2. g[i - 1] = f[i] /\ g[i] = f[i + 1] /\ v[i] = w[i + 1]
      BY <1>2, <2>1
    <2>3. Leaves(f[(i + 1) - 1], w[i + 1], f[i + 1])
      BY <1>3, <2>1
    <2> QED BY <2>1, <2>2, <2>3
  <1> HIDE DEF g
  <1>7. f[1] \in Nat /\ Leaves(f[0], w[1], f[1])
    <2>1. 1 \in 0..n /\ 1 - 1 = 0
      BY <1>1
    <2> QED BY <1>1, <1>3, <2>1
  <1>8. ASSUME NEW p, p.inbox = v, p.rects = f[1] PROVE Owed(p, left)
    BY <1>2, <1>5, <1>6, <1>8 DEF Owed
  <1> QED BY <1>3, <1>7, <1>8 DEF w, v

\* The parts behind the first.
LEMMA Behind ==
  ASSUME NEW w \in Seq(Parts), w # <<>>
  PROVE /\ 1 \in DOMAIN w /\ w[1] \in Parts /\ Head(w) = w[1] /\ Tail(w) \in Seq(Parts)
        /\ \A i \in DOMAIN Tail(w) : i + 1 \in DOMAIN w /\ Tail(w)[i] = w[i + 1] /\ i + 1 # 1
        /\ \A i, j \in DOMAIN Tail(w) : i + 1 = j + 1 => i = j
  <1> DEFINE n == Len(w)
             v == Tail(w)
  <1>1. n \in Nat /\ n > 0 /\ 1 \in 1..n /\ DOMAIN w = 1..n
    BY EmptySeq
  <1>2. v \in Seq(Parts) /\ DOMAIN v = 1..(n - 1) /\ \A i \in 1..(n - 1) : v[i] = w[i + 1]
    OBVIOUS
  <1>3. w[1] \in Parts /\ Head(w) = w[1]
    BY <1>1
  <1> HIDE DEF n, v
  <1>4. ASSUME NEW i \in 1..(n - 1) PROVE i + 1 \in 1..n /\ i + 1 # 1 /\ i \in Nat
    BY <1>1
  <1>5. \A i, j \in 1..(n - 1) : i + 1 = j + 1 => i = j
    BY <1>1
  <1> QED BY <1>1, <1>2, <1>3, <1>4, <1>5 DEF v

\* What a part of an update is.
LEMMA PartIs ==
  ASSUME NEW a \in Parts
  PROVE /\ a.part \in {"header", "rect", "endcont"}
        /\ a.part = "header" => a.rects \in Nat
        /\ a.part = "rect" => a.rect \in Rectangles
  BY DEF Parts

\* The first part is taken off.
Popped(o) == [o EXCEPT !.inbox = Tail(@)]

\* The first message is taken off.
LEMMA Popping ==
  ASSUME NEW o, Picture(o), o.inbox # <<>>
  PROVE /\ Picture(Popped(o)) /\ Alike(o, Popped(o), {"inbox"}) /\ Popped(o).inbox = Tail(o.inbox)
  <1> DEFINE u == Popped(o)
  <1>1. DOMAIN o = ObjFields /\ o.inbox \in Seq(Parts)
    BY DEF Picture, Formed
  <1>2. u.inbox = Tail(o.inbox) /\ Alike(o, u, {"inbox"})
    BY <1>1 DEF Popped, Alike, ObjFields
  <1>3. Tail(o.inbox) \in Seq(Parts)
    BY <1>1, Behind
  <1> HIDE DEF u
  <1>4. Untouched(o, u)
    BY <1>2 DEF Alike, Untouched, DrawFields, ObjFields
  <1>5. \A f \in Booleans : u[f] \in BOOLEAN
    <2>1. \A f \in Booleans : u[f] = o[f]
      BY <1>2 DEF Alike, ObjFields, Booleans
    <2> QED BY <2>1 DEF Picture, Formed, Booleans
  <1>6. u.rects \in Nat /\ u.resizes \in Nat /\ u.win \in Widths /\ u.requests \in 0..1
    <2>1. u.rects = o.rects /\ u.resizes = o.resizes /\ u.win = o.win /\ u.requests = o.requests
      BY <1>2 DEF Alike, ObjFields
    <2> QED BY <2>1 DEF Picture, Formed
  <1>7. Picture(u)
    BY <1>2, <1>3, <1>4, <1>5, <1>6, UntouchedPicture
  <1> QED BY <1>2, <1>7 DEF u

\* What was asked of the server, once the first part is gone.
LEMMA PoppedResizing ==
  ASSUME NEW o, Picture(o), Resizing(o), o.inbox # <<>>
  PROVE /\ ~IsAnswer(o.inbox[1]) => Resizing(Popped(o))
        /\ IsAnswer(o.inbox[1]) => /\ Popped(o).resizes = 0
                                   /\ \A i \in DOMAIN Popped(o).inbox : ~IsAnswer(Popped(o).inbox[i])
  <1> DEFINE w == o.inbox
             v == Tail(w)
  <1>1. w \in Seq(Parts) /\ w # <<>>
    BY DEF Picture, Formed
  <1>2. Popped(o).inbox = v /\ Popped(o).resizes = o.resizes /\ Popped(o).pendingResize = o.pendingResize
    BY Popping DEF Alike, ObjFields
  <1> HIDE DEF w
  <1>3. /\ 1 \in DOMAIN w /\ \A i \in DOMAIN v : i + 1 \in DOMAIN w /\ v[i] = w[i + 1] /\ i + 1 # 1
        /\ \A i, j \in DOMAIN v : i + 1 = j + 1 => i = j
    BY <1>1, Behind
  <1> HIDE DEF v
  <1>4. /\ o.resizes \in 0..1
        /\ \A i, j \in DOMAIN w : IsAnswer(w[i]) /\ IsAnswer(w[j]) => i = j
        /\ o.resizes = 1 => o.pendingResize /\ \A i \in DOMAIN w : ~IsAnswer(w[i])
        /\ \A i \in DOMAIN w : IsAnswer(w[i]) => o.pendingResize
    BY DEF Resizing, w
  <1>5. ASSUME IsAnswer(w[1]) PROVE o.resizes = 0 /\ \A i \in DOMAIN v : ~IsAnswer(v[i])
    BY <1>3, <1>4, <1>5
  <1>6. Resizing(Popped(o))
    BY <1>2, <1>3, <1>4 DEF Resizing
  <1> QED BY <1>2, <1>5, <1>6 DEF w

\* The header of an update.
LEMMA HeaderTurn ==
  ASSUME NEW o, NEW left, Served(o, left), o.inbox # <<>>, ~o.flushing, o.inbox[1].part = "header"
  PROVE LET p == NormalMsg(o, o.inbox[1]) IN Served(p, left) /\ p.inbox = Tail(o.inbox)
  <1> DEFINE w == o.inbox
             v == Tail(w)
             n == w[1].rects
             u == Popped(o)
             told == [u EXCEPT !.rects = n]
             p == NormalMsg(o, w[1])
  <1>1. /\ Picture(o) /\ Owed(o, left) /\ Asked(o) /\ Resizing(o) /\ w \in Seq(Parts) /\ w # <<>> /\ DOMAIN o = ObjFields
        /\ o.rects \in Nat /\ o.requests \in 0..1 /\ o.lost \in BOOLEAN /\ o.cont \in BOOLEAN
    BY DEF Served, Picture, Formed
  <1> HIDE DEF w
  <1>2. /\ 1 \in DOMAIN w /\ w[1] \in Parts /\ v \in Seq(Parts)
        /\ \A i \in DOMAIN v : i + 1 \in DOMAIN w /\ v[i] = w[i + 1] /\ i + 1 # 1
        /\ \A i, j \in DOMAIN v : i + 1 = j + 1 => i = j
    BY <1>1, Behind
  <1>3. n \in Nat /\ ~IsAnswer(w[1]) /\ w[1].part = "header"
    BY <1>2, PartIs DEF IsAnswer, w
  <1>4. Picture(u) /\ Alike(o, u, {"inbox"}) /\ u.inbox = v /\ Resizing(u)
    BY <1>1, <1>3, Popping, PoppedResizing DEF w
  <1>5. PICK m \in Nat : /\ Leaves(o.rects, w[1], m)
                         /\ \A z : z.inbox = v /\ z.rects = m => Owed(z, left)
    BY <1>1, OwedNext DEF w
  <1>6. m = n /\ o.rects = 0
    BY <1>3, <1>5 DEF Leaves
  <1>7. p = FramebufferUpdate(u, n)
    BY <1>3 DEF NormalMsg, Popped, w
  <1> HIDE DEF u, n, v, p
  <1>8. told.rects = n /\ told.inbox = v /\ Alike(o, told, {"inbox", "rects"}) /\ Alike(u, told, {"rects"})
    BY <1>4 DEF Alike, ObjFields
  <1> HIDE DEF told
  <1>9. Picture(told)
    <2>1. Untouched(u, told)
      BY <1>8 DEF Alike, Untouched, DrawFields, ObjFields
    <2>2. \A f \in Booleans : told[f] = u[f]
      BY <1>8 DEF Alike, ObjFields, Booleans
    <2>3. \A f \in Booleans : told[f] \in BOOLEAN
      BY <1>4, <2>2 DEF Picture, Formed, Booleans
    <2>4. told.resizes = u.resizes /\ told.win = u.win /\ told.requests = u.requests
      BY <1>8 DEF Alike, ObjFields
    <2>5. u.resizes \in Nat /\ u.win \in Widths /\ u.requests \in 0..1
      BY <1>4 DEF Picture, Formed
    <2> QED BY <1>2, <1>3, <1>4, <1>8, <2>1, <2>3, <2>4, <2>5, UntouchedPicture
  <1>10. /\ told.requests = o.requests /\ told.cont = o.cont /\ told.contKnown = o.contKnown /\ told.lost = o.lost
         /\ told.disp = u.disp /\ told.resizes = u.resizes /\ told.pendingResize = u.pendingResize
         /\ told.flushing = o.flushing
    BY <1>8 DEF Alike, ObjFields
  \* What the server was asked before.
  <1>11. /\ o.cont = o.contKnown
         /\ \A i, j \in DOMAIN w : w[i].part = "endcont" /\ w[j].part = "endcont" => i = j
         /\ o.cont => \A i \in DOMAIN w : w[i].part # "endcont"
         /\ ~o.cont => o.requests = 0 /\ \A i \in DOMAIN v : v[i].part # "header"
    <2>1. /\ o.cont = o.contKnown
          /\ \A i, j \in DOMAIN w : w[i].part = "endcont" /\ w[j].part = "endcont" => i = j
          /\ o.cont => \A i \in DOMAIN w : w[i].part # "endcont"
          /\ ~o.cont => /\ \A i, j \in DOMAIN w : w[i].part = "header" /\ w[j].part = "header" => i = j
                        /\ o.requests = 1 => \A i \in DOMAIN w : w[i].part # "header"
      BY <1>1 DEF Asked, w
    <2> QED BY <1>1, <1>2, <1>3, <2>1
  <1>12. ASSUME NEW x, Picture(x), x.inbox = v, x.rects = n, x.cont = o.cont, x.contKnown = o.contKnown,
                x.resizes = told.resizes, x.pendingResize = told.pendingResize,
                ~o.cont => IF n > 0 THEN x.requests = 0 ELSE x.requests = 1 \/ x.lost
         PROVE Served(x, left) /\ x.inbox = v
    <2>1. Owed(x, left)
      BY <1>5, <1>6, <1>12
    <2>2. Resizing(x)
      BY <1>4, <1>10, <1>12 DEF Resizing
    <2>3. Asked(x)
      <3>1. \A i, j \in DOMAIN v : v[i].part = "endcont" /\ v[j].part = "endcont" => i = j
        BY <1>2, <1>11
      <3>2. o.cont => \A i \in DOMAIN v : v[i].part # "endcont"
        BY <1>2, <1>11
      <3>3. ~o.cont /\ n > 0 => x.requests = 0
        BY <1>12
      <3>4. ~o.cont /\ n = 0 => x.requests = 1 \/ x.lost
        BY <1>12
      <3>5. n = 0 \/ n > 0
        BY <1>3
      <3> QED BY <1>11, <1>12, <3>1, <3>2, <3>3, <3>4, <3>5 DEF Asked
    <2> QED BY <1>12, <2>1, <2>2, <2>3 DEF Served
  <1>13. CASE Pending(u.disp)
    <2> DEFINE l == (told.lost \/ n = 0)
    <2>1. p = [told EXCEPT !.flushing = TRUE, !.disp = Flush(@), !.lost = l]
      BY <1>7, <1>13 DEF FramebufferUpdate, told
    <2>2. l \in BOOLEAN
      OBVIOUS
    <2> HIDE DEF l
    <2>3. Picture(p) /\ Alike(told, p, {"flushing", "disp", "lost"}) /\ p.lost = l
      BY <1>9, <1>10, <1>13, <2>1, <2>2, FlushingPicture
    <2>4. /\ p.inbox = v /\ p.rects = n /\ p.cont = o.cont /\ p.contKnown = o.contKnown /\ p.requests = o.requests
          /\ p.resizes = told.resizes /\ p.pendingResize = told.pendingResize
      BY <1>8, <1>10, <2>3 DEF Alike, ObjFields
    <2>5. n = 0 => p.lost
      BY <2>3 DEF l
    <2>6. ~o.cont => IF n > 0 THEN p.requests = 0 ELSE p.requests = 1 \/ p.lost
      BY <1>3, <1>11, <2>4, <2>5
    <2>7. Served(p, left) /\ p.inbox = v
      BY <1>12, <2>3, <2>4, <2>6
    <2> QED BY <2>7 DEF p, v, w
  <1>14. CASE ~Pending(u.disp) /\ n = 0
    <2>1. p = FinishUpdate(told)
      BY <1>7, <1>14 DEF FramebufferUpdate, told
    <2>2. Picture(p) /\ Alike(told, p, {"disp", "requests"}) /\ p.requests = IF told.cont THEN told.requests ELSE 1
      BY <1>9, <1>10, <1>11, <2>1, FinishingPicture
    <2>3. /\ p.inbox = v /\ p.rects = n /\ p.cont = o.cont /\ p.contKnown = o.contKnown
          /\ p.resizes = told.resizes /\ p.pendingResize = told.pendingResize
      BY <1>8, <1>10, <2>2 DEF Alike, ObjFields
    <2>4. ~o.cont => IF n > 0 THEN p.requests = 0 ELSE p.requests = 1 \/ p.lost
      BY <1>10, <1>14, <2>2
    <2>5. Served(p, left) /\ p.inbox = v
      BY <1>12, <2>2, <2>3, <2>4
    <2> QED BY <2>5 DEF p, v, w
  <1>15. CASE ~Pending(u.disp) /\ n # 0
    <2>1. p = told
      BY <1>7, <1>15 DEF FramebufferUpdate, told
    <2>2. ~o.cont => IF n > 0 THEN p.requests = 0 ELSE p.requests = 1 \/ p.lost
      BY <1>3, <1>10, <1>11, <1>15, <2>1
    <2>3. Served(p, left) /\ p.inbox = v
      BY <1>8, <1>9, <1>10, <1>12, <2>1, <2>2
    <2> QED BY <2>3 DEF p, v, w
  <1> QED BY <1>13, <1>14, <1>15

\* A rectangle of an update.
LEMMA RectTurn ==
  ASSUME NEW o, NEW left, Served(o, left), o.inbox # <<>>, ~o.flushing, o.inbox[1].part = "rect"
  PROVE LET p == NormalMsg(o, o.inbox[1]) IN Served(p, left) /\ p.inbox = Tail(o.inbox)
  <1> DEFINE w == o.inbox
             v == Tail(w)
             r == w[1].rect
             u == Popped(o)
             h == HandleRect(u, r)
             p == NormalMsg(o, w[1])
  <1>1. /\ Picture(o) /\ Owed(o, left) /\ Asked(o) /\ Resizing(o) /\ w \in Seq(Parts) /\ w # <<>> /\ DOMAIN o = ObjFields
        /\ o.rects \in Nat /\ o.requests \in 0..1
    BY DEF Served, Picture, Formed
  <1> HIDE DEF w
  <1>2. /\ 1 \in DOMAIN w /\ w[1] \in Parts /\ v \in Seq(Parts)
        /\ \A i \in DOMAIN v : i + 1 \in DOMAIN w /\ v[i] = w[i + 1] /\ i + 1 # 1
        /\ \A i, j \in DOMAIN v : i + 1 = j + 1 => i = j
    BY <1>1, Behind
  <1>3. r \in Rectangles /\ w[1].part = "rect" /\ (IsAnswer(w[1]) <=> r.type = "extsize" /\ r.mine)
    <2>1. w[1].part = "rect"
      BY DEF w
    <2>2. r \in Rectangles
      BY <1>2, <2>1, PartIs
    <2>3. r.type = "extsize" => r.mine \in BOOLEAN
      BY <2>2, RectangleIs
    <2> QED BY <2>1, <2>2, <2>3 DEF IsAnswer
  <1>4. /\ Picture(u) /\ Alike(o, u, {"inbox"}) /\ u.inbox = v
        /\ ~IsAnswer(w[1]) => Resizing(u)
        /\ IsAnswer(w[1]) => u.resizes = 0 /\ \A i \in DOMAIN u.inbox : ~IsAnswer(u.inbox[i])
    BY <1>1, Popping, PoppedResizing DEF w
  <1>5. PICK m \in Nat : /\ Leaves(o.rects, w[1], m)
                         /\ \A z : z.inbox = v /\ z.rects = m => Owed(z, left)
    BY <1>1, OwedNext DEF w
  <1>6. o.rects > 0 /\ m = IF r.type = "last" THEN 0 ELSE o.rects - 1
    BY <1>3, <1>5 DEF Leaves
  <1>7. p = RectDone(h)
    BY <1>3 DEF NormalMsg, UpdateRect, Popped, w
  <1> HIDE DEF u, r, v, p
  <1>8. /\ Picture(h) /\ Resizing(h) /\ Alike(u, h, RectFields)
        /\ h.rects = IF r.type = "last" THEN 1 ELSE u.rects
    <2>1. IF r.type = "extsize" /\ r.mine
          THEN u.resizes = 0 /\ \A i \in DOMAIN u.inbox : ~IsAnswer(u.inbox[i])
          ELSE Resizing(u)
      BY <1>3, <1>4
    <2> QED BY <1>3, <1>4, <2>1, Rectangle
  <1> HIDE DEF h
  <1>9. /\ h.inbox = v /\ h.cont = o.cont /\ h.contKnown = o.contKnown /\ h.requests = o.requests /\ u.rects = o.rects
        /\ h.rects = m + 1 /\ DOMAIN h = ObjFields
    <2>1. h.inbox = u.inbox /\ h.cont = u.cont /\ h.contKnown = u.contKnown /\ h.requests = u.requests
      BY <1>8 DEF Alike, RectFields, DrawFields, SizeFields, ObjFields
    <2>2. u.cont = o.cont /\ u.contKnown = o.contKnown /\ u.requests = o.requests /\ u.rects = o.rects
      BY <1>4 DEF Alike, ObjFields
    <2> QED BY <1>1, <1>4, <1>6, <1>8, <2>1, <2>2 DEF Alike
  <1>11. /\ o.cont = o.contKnown
         /\ \A i, j \in DOMAIN w : w[i].part = "endcont" /\ w[j].part = "endcont" => i = j
         /\ o.cont => \A i \in DOMAIN w : w[i].part # "endcont"
         /\ ~o.cont => o.requests = 0 /\ \A i \in DOMAIN w : w[i].part # "header"
    BY <1>1, <1>6 DEF Asked, w
  <1>12. ASSUME NEW x, Picture(x), x.inbox = v, x.rects = m, x.cont = o.cont, x.contKnown = o.contKnown,
                x.resizes = h.resizes, x.pendingResize = h.pendingResize,
                ~o.cont => IF m > 0 THEN x.requests = 0 ELSE x.requests = 1
         PROVE Served(x, left) /\ x.inbox = v
    <2>1. Owed(x, left)
      BY <1>5, <1>12
    <2>2. Resizing(x)
      BY <1>8, <1>9, <1>12 DEF Resizing
    <2>3. Asked(x)
      <3>1. \A i, j \in DOMAIN v : v[i].part = "endcont" /\ v[j].part = "endcont" => i = j
        BY <1>2, <1>11
      <3>2. o.cont => \A i \in DOMAIN v : v[i].part # "endcont"
        BY <1>2, <1>11
      <3>3. ~o.cont => \A i \in DOMAIN v : v[i].part # "header"
        BY <1>2, <1>11
      <3>4. ~o.cont /\ m > 0 => x.requests = 0
        BY <1>12
      <3>5. ~o.cont /\ m = 0 => x.requests = 1
        BY <1>12
      <3>6. m = 0 \/ m > 0
        OBVIOUS
      <3> QED BY <1>11, <1>12, <3>1, <3>2, <3>3, <3>4, <3>5, <3>6 DEF Asked
    <2> QED BY <1>12, <2>1, <2>2, <2>3 DEF Served
  <1> DEFINE t == [h EXCEPT !.rects = m]
  <1>13. t.rects = m /\ Alike(h, t, {"rects"})
    BY <1>9 DEF Alike, ObjFields
  <1> HIDE DEF t
  <1>14. /\ t.inbox = v /\ t.cont = o.cont /\ t.contKnown = o.contKnown /\ t.requests = o.requests
         /\ t.resizes = h.resizes /\ t.pendingResize = h.pendingResize
    BY <1>9, <1>13 DEF Alike, ObjFields
  <1>15. Picture(t)
    <2>1. Untouched(h, t)
      BY <1>13 DEF Alike, Untouched, DrawFields, ObjFields
    <2>2. \A f \in Booleans : t[f] = h[f]
      BY <1>13 DEF Alike, ObjFields, Booleans
    <2>3. \A f \in Booleans : t[f] \in BOOLEAN
      BY <1>8, <2>2 DEF Picture, Formed, Booleans
    <2>4. t.resizes = h.resizes /\ t.win = h.win /\ t.requests = h.requests
      BY <1>13 DEF Alike, ObjFields
    <2>5. h.resizes \in Nat /\ h.win \in Widths /\ h.requests \in 0..1
      BY <1>8 DEF Picture, Formed
    <2> QED BY <1>2, <1>8, <1>13, <1>14, <2>1, <2>3, <2>4, <2>5, UntouchedPicture
  <1>16. CASE m = 0
    <2>1. p = FinishUpdate(t)
      BY <1>7, <1>9, <1>16 DEF RectDone, t
    <2>2. Picture(p) /\ Alike(t, p, {"disp", "requests"}) /\ p.requests = IF t.cont THEN t.requests ELSE 1
      <3>1. t.cont \/ t.requests = 0
        BY <1>11, <1>14
      <3> QED BY <1>15, <2>1, <3>1, FinishingPicture
    <2>3. /\ p.inbox = v /\ p.rects = m /\ p.cont = o.cont /\ p.contKnown = o.contKnown
          /\ p.resizes = h.resizes /\ p.pendingResize = h.pendingResize
      BY <1>13, <1>14, <2>2 DEF Alike, ObjFields
    <2>4. ~o.cont => IF m > 0 THEN p.requests = 0 ELSE p.requests = 1
      BY <1>14, <1>16, <2>2
    <2>5. Served(p, left) /\ p.inbox = v
      BY <1>12, <2>2, <2>3, <2>4
    <2> QED BY <2>5 DEF p, v, w
  <1>17. CASE m # 0
    <2>1. p = t
      <3>1. p = [h EXCEPT !.rects = @ - 1]
        BY <1>7, <1>9, <1>17 DEF RectDone
      <3>2. h.rects - 1 = m
        BY <1>9
      <3> QED BY <3>1, <3>2 DEF t
    <2>2. ~o.cont => IF m > 0 THEN p.requests = 0 ELSE p.requests = 1
      BY <1>11, <1>14, <1>17, <2>1
    <2>3. Served(p, left) /\ p.inbox = v
      BY <1>12, <1>13, <1>14, <1>15, <2>1, <2>2
    <2> QED BY <2>3 DEF p, v, w
  <1> QED BY <1>16, <1>17

\* The server answers that it can send updates on its own.
LEMMA EndTurn ==
  ASSUME NEW o, NEW left, Served(o, left), o.inbox # <<>>, ~o.flushing, o.inbox[1].part = "endcont"
  PROVE LET p == NormalMsg(o, o.inbox[1]) IN Served(p, left) /\ p.inbox = Tail(o.inbox)
  <1> DEFINE w == o.inbox
             v == Tail(w)
             u == Popped(o)
             p == NormalMsg(o, w[1])
  <1>1. /\ Picture(o) /\ Owed(o, left) /\ Asked(o) /\ Resizing(o) /\ w \in Seq(Parts) /\ w # <<>> /\ DOMAIN o = ObjFields
        /\ o.rects \in Nat /\ o.requests \in 0..1 /\ o.cont \in BOOLEAN
    BY DEF Served, Picture, Formed
  <1> HIDE DEF w
  <1>2. /\ 1 \in DOMAIN w /\ w[1] \in Parts /\ v \in Seq(Parts) /\ w[1].part = "endcont"
        /\ \A i \in DOMAIN v : i + 1 \in DOMAIN w /\ v[i] = w[i + 1] /\ i + 1 # 1
        /\ \A i, j \in DOMAIN v : i + 1 = j + 1 => i = j
    <2>1. w[1].part = "endcont"
      BY DEF w
    <2> QED BY <1>1, <2>1, Behind
  <1>3. ~IsAnswer(w[1])
    BY <1>2 DEF IsAnswer
  <1>4. Picture(u) /\ Alike(o, u, {"inbox"}) /\ u.inbox = v /\ Resizing(u)
    BY <1>1, <1>3, Popping, PoppedResizing DEF w
  <1>5. PICK m \in Nat : /\ Leaves(o.rects, w[1], m)
                         /\ \A z : z.inbox = v /\ z.rects = m => Owed(z, left)
    BY <1>1, OwedNext DEF w
  <1>6. m = 0 /\ o.rects = 0
    BY <1>2, <1>5 DEF Leaves
  <1>7. p = EndOfContinuousUpdates(u)
    BY <1>2 DEF NormalMsg, Popped, w
  <1>8. /\ o.cont = o.contKnown /\ ~o.cont
        /\ \A i, j \in DOMAIN w : w[i].part = "endcont" /\ w[j].part = "endcont" => i = j
    BY <1>1, <1>2 DEF Asked, w
  <1> HIDE DEF u, v, p
  <1>9. \A i \in DOMAIN v : v[i].part # "endcont"
    BY <1>2, <1>8
  <1>10. /\ p.contKnown = TRUE /\ p.cont = TRUE /\ Alike(u, p, {"contKnown", "cont"})
    <2>1. p = [u EXCEPT !.contKnown = TRUE, !.cont = ~u.contKnown]
      BY <1>7 DEF EndOfContinuousUpdates
    <2>2. u.contKnown = o.contKnown /\ DOMAIN u = ObjFields
      BY <1>4 DEF Alike, ObjFields
    <2>3. ~u.contKnown
      BY <1>8, <2>2
    <2> QED BY <2>1, <2>2, <2>3 DEF Alike, ObjFields
  <1>11. /\ p.inbox = v /\ p.rects = 0 /\ p.resizes = u.resizes /\ p.pendingResize = u.pendingResize
    <2>1. u.rects = o.rects
      BY <1>4 DEF Alike, ObjFields
    <2> QED BY <1>4, <1>6, <1>10, <2>1 DEF Alike, ObjFields
  <1>12. Picture(p)
    <2>1. Untouched(u, p)
      BY <1>10 DEF Alike, Untouched, DrawFields, ObjFields
    <2>2. \A f \in Booleans \ {"cont", "contKnown"} : p[f] = u[f]
      BY <1>10 DEF Alike, ObjFields, Booleans
    <2>3. \A f \in Booleans : p[f] \in BOOLEAN
      BY <1>4, <1>10, <2>2 DEF Picture, Formed, Booleans
    <2>4. p.resizes = u.resizes /\ p.win = u.win /\ p.requests = u.requests
      BY <1>10 DEF Alike, ObjFields
    <2>5. u.resizes \in Nat /\ u.win \in Widths /\ u.requests \in 0..1
      BY <1>4 DEF Picture, Formed
    <2> QED BY <1>2, <1>4, <1>11, <2>1, <2>3, <2>4, <2>5, UntouchedPicture
  <1>13. Owed(p, left)
    BY <1>5, <1>6, <1>11
  <1>14. Resizing(p)
    BY <1>4, <1>11 DEF Resizing
  <1>15. Asked(p)
    BY <1>9, <1>10, <1>11 DEF Asked
  <1>16. Served(p, left) /\ p.inbox = v
    BY <1>11, <1>12, <1>13, <1>14, <1>15 DEF Served
  <1> QED BY <1>16 DEF p, v, w

\* What a handler of messages leaves: everything is handled, unless the screen must catch up.
Caught(o) == o.inbox # <<>> => o.flushing

\* Everything that has arrived is handled.
LEMMA HandlingMessages ==
  ASSUME NEW o, NEW left, Served(o, left)
  PROVE Served(HandleMessage(o), left) /\ Caught(HandleMessage(o))
  <1> DEFINE w == o.inbox
             n == Len(w)
             Rest(x, i) == /\ Len(x.inbox) = n - i
                           /\ \A j \in 1..(n - i) : x.inbox[j] = w[i + j]
             Good(x, i) == Served(x, left) /\ (x.flushing \/ Rest(x, i))
  <1>1. w \in Seq(Parts) /\ n \in Nat
    BY DEF Served, Picture, Formed
  <1>2. PICK t : Runs("turn", t, o, w) /\ t[n] = FoldLeft(Turn, o, w)
    BY <1>1, TurnRuns
  <1>3. t[0] = o /\ \A i \in Nat : i < n => t[i + 1] = Turn(t[i], w[i + 1])
    BY <1>2 DEF Runs, Do
  <1> HIDE DEF w, n
  <1> DEFINE S == {i \in Nat : Good(t[i], i)}
  <1>4. 0 \in S
    <2>1. n - 0 = n /\ \A j \in 1..n : 0 + j = j
      BY <1>1
    <2>2. Rest(o, 0)
      BY <2>1 DEF w, n
    <2> QED BY <1>3, <2>2
  <1>5. ASSUME NEW i \in Nat, i < n, i \in S PROVE i + 1 \in S
    <2> DEFINE x == t[i]
               y == t[i + 1]
    <2>1. Served(x, left) /\ (x.flushing \/ Rest(x, i)) /\ y = Turn(x, w[i + 1])
      BY <1>3, <1>5
    <2> HIDE DEF x, y
    <2>2. CASE x.flushing
      <3>1. y = x
        BY <2>1, <2>2 DEF Turn
      <3> HIDE DEF Rest
      <3>2. Good(y, i + 1)
        BY <2>1, <2>2, <3>1
      <3> QED BY <3>2 DEF y
    <2>3. CASE ~x.flushing
      <3>1. x.inbox \in Seq(Parts) /\ Len(x.inbox) = n - i /\ \A j \in 1..(n - i) : x.inbox[j] = w[i + j]
        BY <2>1, <2>3 DEF Served, Picture, Formed
      <3>2. x.inbox # <<>> /\ x.inbox[1] = w[i + 1] /\ x.inbox[1] \in Parts
        BY <1>1, <1>5, <3>1
      <3>3. y = NormalMsg(x, x.inbox[1])
        BY <2>1, <2>3, <3>2 DEF Turn
      <3>4. x.inbox[1].part \in {"header", "rect", "endcont"}
        BY <3>2, PartIs
      <3>5. Served(y, left) /\ y.inbox = Tail(x.inbox)
        BY <2>1, <2>3, <3>2, <3>3, <3>4, HeaderTurn, RectTurn, EndTurn
      <3>6. Rest(y, i + 1)
        <4>1. Len(Tail(x.inbox)) = (n - i) - 1 /\ \A j \in 1..((n - i) - 1) : Tail(x.inbox)[j] = x.inbox[j + 1]
          BY <3>1, <3>2
        <4>2. (n - i) - 1 = n - (i + 1)
          BY <1>1, <1>5
        <4>3. ASSUME NEW j \in 1..(n - (i + 1)) PROVE Tail(x.inbox)[j] = w[(i + 1) + j]
          <5>1. j + 1 \in 1..(n - i) /\ i + (j + 1) = (i + 1) + j
            BY <1>1, <1>5
          <5> QED BY <3>1, <4>1, <4>2, <5>1
        <4> QED BY <3>5, <4>1, <4>2, <4>3
      <3> HIDE DEF Rest
      <3>7. Good(y, i + 1)
        BY <3>5, <3>6
      <3> QED BY <3>7 DEF y
    <2> QED BY <2>2, <2>3
  <1> HIDE DEF S
  <1>6. n \in S
    <2>1. \A i \in 0..n : i \in S
      BY <1>1, <1>4, <1>5, Climbing
    <2> QED BY <1>1, <2>1
  <1>7. Good(t[n], n)
    BY <1>6 DEF S
  <1>8. HandleMessage(o) = t[n]
    BY <1>2 DEF HandleMessage, w, n
  <1>9. Served(t[n], left) /\ (t[n].flushing \/ Len(t[n].inbox) = 0)
    BY <1>1, <1>7
  <1>10. Len(t[n].inbox) = 0 => t[n].inbox = <<>>
    <2>1. t[n].inbox \in Seq(Parts)
      BY <1>9 DEF Served, Picture, Formed
    <2> QED BY <2>1, EmptySeq
  <1> QED BY <1>8, <1>9, <1>10 DEF Caught

-----------------------------------------------------------------------------
(* The browser answers.                                                    *)

\* No frame, or one.
LEMMA FoldNone ==
  ASSUME NEW base PROVE FoldSet(LAMBDA i, d : Settled(d, i, "ready"), base, {}) = base
  <1> DEFINE it == CHOOSE f : f = [s \in SUBSET {} |->
                        IF s = {} THEN base
                        ELSE Settled(f[s \ {CHOOSE x \in s : TRUE}], CHOOSE x \in s : TRUE, "ready")]
  <1>1. FoldSet(LAMBDA i, d : Settled(d, i, "ready"), base, {}) = it[{}]
    BY Zenon DEF FoldSet, MapThenFoldSet
  <1>2. \A s \in SUBSET {} : s = {}
    OBVIOUS
  <1> DEFINE g == [s \in SUBSET {} |-> base]
  <1>3. g = [s \in SUBSET {} |->
                IF s = {} THEN base
                ELSE Settled(g[s \ {CHOOSE x \in s : TRUE}], CHOOSE x \in s : TRUE, "ready")]
    BY <1>2
  <1> HIDE DEF g
  <1>4. it = [s \in SUBSET {} |->
                IF s = {} THEN base
                ELSE Settled(it[s \ {CHOOSE x \in s : TRUE}], CHOOSE x \in s : TRUE, "ready")]
    BY <1>3
  <1> HIDE DEF it
  <1> QED BY <1>1, <1>4

\* The queue settles once when the frame has one place in it.
LEMMA FoldOne ==
  ASSUME NEW base, NEW p
  PROVE FoldSet(LAMBDA i, d : Settled(d, i, "ready"), base, {p}) = Settled(base, p, "ready")
  <1> DEFINE it == CHOOSE f : f = [s \in SUBSET {p} |->
                        IF s = {} THEN base
                        ELSE Settled(f[s \ {CHOOSE x \in s : TRUE}], CHOOSE x \in s : TRUE, "ready")]
  <1>1. FoldSet(LAMBDA i, d : Settled(d, i, "ready"), base, {p}) = it[{p}]
    BY Zenon DEF FoldSet, MapThenFoldSet
  <1>2. \A s \in SUBSET {p} : s = {} \/ s = {p}
    OBVIOUS
  <1>3. (CHOOSE x \in {p} : TRUE) = p /\ {p} \ {p} = {} /\ {} \in SUBSET {p} /\ {p} \in SUBSET {p} /\ {p} # {}
    OBVIOUS
  <1> DEFINE g == [s \in SUBSET {p} |-> IF s = {} THEN base ELSE Settled(base, p, "ready")]
             body(s) == IF s = {} THEN base
                        ELSE Settled(g[s \ {CHOOSE x \in s : TRUE}], CHOOSE x \in s : TRUE, "ready")
  <1>4. \A s \in SUBSET {p} : g[s] = body(s)
    <2>1. g[{}] = base /\ g[{p}] = Settled(base, p, "ready")
      BY <1>3
    <2> HIDE DEF g
    <2>2. body({}) = base
      OBVIOUS
    <2>3. body({p}) = Settled(g[{p} \ {p}], p, "ready")
      BY <1>3
    <2> HIDE DEF body
    <2> QED BY <1>2, <1>3, <2>1, <2>2, <2>3
  <1>5. g = [s \in SUBSET {p} |-> body(s)]
    <2>1. g = [s \in SUBSET {p} |-> g[s]]
      OBVIOUS
    <2> HIDE DEF g
    <2> QED BY <1>4, <2>1
  <1> HIDE DEF g
  <1>6. \E f : f = [s \in SUBSET {p} |->
                IF s = {} THEN base
                ELSE Settled(f[s \ {CHOOSE x \in s : TRUE}], CHOOSE x \in s : TRUE, "ready")]
    BY <1>5
  <1>7. it = [s \in SUBSET {p} |->
                IF s = {} THEN base
                ELSE Settled(it[s \ {CHOOSE x \in s : TRUE}], CHOOSE x \in s : TRUE, "ready")]
    BY <1>6
  <1> HIDE DEF it
  <1>8. it[{}] = base
    BY <1>3, <1>7
  <1>9. it[{p}] = Settled(it[{p} \ {p}], p, "ready")
    BY <1>3, <1>7
  <1> QED BY <1>1, <1>3, <1>8, <1>9

\* What waits is on its way, but for the action at i.
PromisedBut(q, i, contexts) ==
    \A j \in DOMAIN q \ {i} :
        /\ q[j].type \in {"img", "frame"} => q[j].state # "broken"
        /\ Loading(q[j]) => Has(contexts, q[j].frame)

\* The queue once an image or a frame has settled.
LEMMA SettledQueue ==
  ASSUME NEW d, Screen(d), NEW i \in DOMAIN d.queue, Settling(d.queue[i]), NEW outcome \in {"ready", "broken"},
         NEW e, NEW n, Settles(d, i, outcome, e, n), NEW m, NEW contexts
  PROVE /\ Numbered(d.queue, m) => Numbered(e.queue, m)
        /\ outcome = "ready" /\ PromisedBut(d.queue, i, contexts) => Promised(e.queue, contexts)
  <1> DEFINE q == d.queue
             u == e.queue
             k == Len(u)
             b == [q[i] EXCEPT !.state = outcome]
  <1>1. q \in Seq(Actions) /\ u \in Seq(Actions) /\ i \in 1..Len(q) /\ Len(q) \in Nat /\ k \in Nat /\ DOMAIN u = 1..k
        /\ DOMAIN q = 1..Len(q) /\ q[i] \in Actions /\ n \in 0..Len(q) /\ k = Len(q) - n
    <2>1. Screen(e) /\ n \in 0..Len(q) /\ k = Len(q) - n
      BY DEF Settles
    <2>2. q \in Seq(Actions) /\ u \in Seq(Actions)
      BY <2>1 DEF Screen, Typed
    <2>3. i \in DOMAIN q
      OBVIOUS
    <2> HIDE DEF q, u
    <2> QED BY <2>1, <2>2, <2>3
  <1>2. \A j \in 1..k : n + j \in 1..Len(q) /\ u[j] = IF n + j = i THEN b ELSE q[n + j]
    <2>1. \A j \in 1..k : n + j \in 1..Len(q)
      BY <1>1
    <2> QED BY <2>1 DEF Settles, Became
  <1>3. b.state = outcome /\ b.type = q[i].type /\ (b.type = "frame" => b.frame = q[i].frame)
    <2> DEFINE a == q[i]
    <2>1. a \in Actions /\ Settling(a)
      BY <1>1
    <2> HIDE DEF a
    <2>2. LET z == [a EXCEPT !.state = outcome]
          IN z.state = outcome /\ z.type = a.type /\ (a.type = "frame" => z.frame = a.frame)
      BY <2>1, SettledAction
    <2> QED BY <2>2 DEF a
  <1> HIDE DEF q, u, k, b
  <1>4. \A j \in 1..k : (IsFrame(u[j]) <=> IsFrame(q[n + j])) /\ (IsFrame(u[j]) => u[j].frame = q[n + j].frame)
    BY <1>2, <1>3 DEF IsFrame
  <1>5. Numbered(q, m) => Numbered(u, m)
    <2> SUFFICES ASSUME Numbered(q, m), NEW x \in 1..k, NEW y \in 1..k
                 PROVE /\ IsFrame(u[x]) => u[x].frame <= m
                       /\ IsFrame(u[x]) /\ IsFrame(u[y]) /\ u[x].frame = u[y].frame => x = y
      BY <1>1 DEF Numbered
    <2>1. n + x \in DOMAIN q /\ n + y \in DOMAIN q
      BY <1>1, <1>2
    <2>2. /\ IsFrame(q[n + x]) => q[n + x].frame <= m
          /\ IsFrame(q[n + x]) /\ IsFrame(q[n + y]) /\ q[n + x].frame = q[n + y].frame => n + x = n + y
      BY <2>1 DEF Numbered
    <2>3. n + x = n + y => x = y
      BY <1>1
    <2> QED BY <1>4, <2>2, <2>3
  <1>6. outcome = "ready" /\ PromisedBut(q, i, contexts) => Promised(u, contexts)
    <2> SUFFICES ASSUME outcome = "ready", PromisedBut(q, i, contexts), NEW x \in 1..k
                 PROVE /\ u[x].type \in {"img", "frame"} => u[x].state # "broken"
                       /\ Loading(u[x]) => Has(contexts, u[x].frame)
      BY <1>1 DEF Promised
    <2>1. CASE n + x = i
      <3>1. u[x].state = "ready"
        BY <1>2, <1>3, <2>1
      <3> QED BY <3>1 DEF Loading
    <2>2. CASE n + x # i
      <3>1. n + x \in DOMAIN q \ {i} /\ u[x] = q[n + x]
        BY <1>1, <1>2, <2>2
      <3> QED BY <3>1 DEF PromisedBut
    <2> QED BY <2>1, <2>2
  <1> QED BY <1>5, <1>6 DEF q, u

\* What the messages are counted by.
ControlFields == {"inbox", "rects", "cont", "contKnown", "requests", "resizes", "pendingResize", "lost"}

\* The messages are accounted for when their counts have not changed.
LEMMA SameControl ==
  ASSUME NEW o, NEW p, NEW left, \A f \in ControlFields : p[f] = o[f], Owed(o, left), Asked(o), Resizing(o)
  PROVE Owed(p, left) /\ Asked(p) /\ Resizing(p)
  <1>1. /\ p.inbox = o.inbox /\ p.rects = o.rects /\ p.cont = o.cont /\ p.contKnown = o.contKnown
        /\ p.requests = o.requests /\ p.resizes = o.resizes /\ p.pendingResize = o.pendingResize /\ p.lost = o.lost
    BY DEF ControlFields
  <1>2. Owed(p, left)
    BY <1>1 DEF Owed
  <1>3. Asked(p)
    BY <1>1 DEF Asked
  <1>4. Resizing(p)
    BY <1>1 DEF Resizing
  <1> QED BY <1>2, <1>3, <1>4

\* Only what has nothing to give back is garbage.
LEMMA Collecting ==
  ASSUME NEW o, NEW left, Served(o, left)
  PROVE LET p == CollectContexts(o) IN Served(p, left) /\ (Caught(o) => Caught(p))
  <1> DEFINE p == CollectContexts(o)
  <1>1. Picture(o) /\ Formed(o) /\ Ordered(o) /\ Coming(o) /\ DOMAIN o = ObjFields
    BY DEF Served, Picture, Formed
  <1>2. /\ Alike(o, p, {"contexts"}) /\ p.contexts \subseteq o.contexts
        /\ \A k \in o.contexts : k.coder # <<>> => k \in p.contexts
    BY <1>1 DEF CollectContexts, Alike, ObjFields
  <1> HIDE DEF p
  <1>3. \A f \in ControlFields : p[f] = o[f]
    BY <1>2 DEF Alike, ObjFields, ControlFields
  <1>4. Owed(p, left) /\ Asked(p) /\ Resizing(p)
    BY <1>3, SameControl DEF Served
  <1>5. /\ p.disp = o.disp /\ p.flushing = o.flushing /\ p.ideal = o.ideal /\ p.spoiled = o.spoiled
        /\ p.failed = o.failed /\ p.payloads = o.payloads /\ p.win = o.win /\ p.inbox = o.inbox
        /\ p.rects = o.rects /\ p.requests = o.requests /\ p.resizes = o.resizes
    BY <1>2 DEF Alike, ObjFields
  <1>6. \A f \in Booleans : p[f] = o[f]
    BY <1>2 DEF Alike, ObjFields, Booleans
  <1>7. Formed(p)
    <2>1. \A f \in Booleans : p[f] \in BOOLEAN
      BY <1>1, <1>6 DEF Formed, Booleans
    <2>2. DOMAIN p = ObjFields
      BY <1>2 DEF Alike
    <2> QED BY <1>1, <1>5, <2>1, <2>2 DEF Formed, Booleans
  <1>8. Ordered(p)
    BY <1>1, <1>5 DEF Ordered
  <1>9. Coming(p)
    <2> DEFINE q == o.disp.queue
    <2>1. p.contexts \subseteq Contexts /\ (\A k \in p.contexts : Fed(k)) /\ Numbered(p.disp.queue, p.payloads)
      BY <1>1, <1>2, <1>5 DEF Coming
    <2>2. ASSUME ~o.failed PROVE (\A k \in p.contexts : Matched(k)) /\ Promised(q, p.contexts)
      <3>1. (\A k \in o.contexts : Matched(k)) /\ Promised(q, o.contexts) /\ o.contexts \subseteq Contexts
        BY <1>1, <2>2 DEF Coming
      <3>2. ASSUME NEW k \in o.contexts, NEW n, HasIn(k, n) PROVE k \in p.contexts
        <4>1. Len(k.coder) = Len(k.pending) /\ k \in Contexts
          BY <3>1 DEF Matched
        <4>2. PICK i \in DOMAIN k.pending : TRUE
          BY <3>2 DEF HasIn
        <4>3. DOMAIN k.pending = 1..Len(k.pending) /\ Len(k.pending) \in Nat
          BY <4>1, ContextIs
        <4>4. Len(k.coder) # 0
          BY <4>1, <4>2, <4>3
        <4> QED BY <1>2, <4>4
      <3>3. \A n : Has(o.contexts, n) => Has(p.contexts, n)
        BY <3>2 DEF Has
      <3> HIDE DEF q
      <3>4. Promised(q, p.contexts)
        BY <3>1, <3>3 DEF Promised
      <3> QED BY <1>2, <3>1, <3>4
    <2> QED BY <1>5, <2>1, <2>2 DEF Coming
  <1>10. Served(p, left)
    BY <1>4, <1>7, <1>8, <1>9 DEF Served, Picture
  <1>11. Caught(o) => Caught(p)
    BY <1>5 DEF Caught
  <1> QED BY <1>10, <1>11 DEF p

\* As good as served, but that the object may not have heard of an empty queue.
Loosely(o, left) ==
    \A x : Alike(o, x, {"flushing"}) /\ x.flushing = x.disp.flushing => Served(x, left)

\* flush() resolves, and what waited for it is handled.
LEMMA Resuming ==
  ASSUME NEW o, NEW left, Loosely(o, left), DOMAIN o = ObjFields, Caught(o),
         o.flushing \in BOOLEAN, o.disp.flushing \in BOOLEAN, o.disp.flushing => o.flushing
  PROVE Served(Settle(o), left) /\ Caught(Settle(o))
  <1>1. CASE o.flushing /\ ~o.disp.flushing
    <2> DEFINE x == [o EXCEPT !.flushing = FALSE]
    <2>1. Alike(o, x, {"flushing"}) /\ x.flushing = FALSE /\ x.disp = o.disp
      BY DEF Alike, ObjFields
    <2>2. Settle(o) = CollectContexts(HandleMessage(x))
      BY <1>1 DEF Settle
    <2> HIDE DEF x
    <2>3. Served(x, left)
      BY <1>1, <2>1 DEF Loosely
    <2>4. Served(HandleMessage(x), left) /\ Caught(HandleMessage(x))
      BY <2>3, HandlingMessages
    <2> QED BY <2>2, <2>4, Collecting
  <1>2. CASE ~(o.flushing /\ ~o.disp.flushing)
    <2>1. Settle(o) = CollectContexts(o)
      BY <1>2 DEF Settle
    <2>2. Alike(o, o, {"flushing"}) /\ o.flushing = o.disp.flushing
      BY <1>2 DEF Alike
    <2>3. Served(o, left)
      BY <2>2 DEF Loosely
    <2> QED BY <2>1, <2>3, Collecting
  <1> QED BY <1>1, <1>2

\* What the display or a decoder has settled, the object handles.
LEMMA Answered ==
  ASSUME NEW o, NEW left, Served(o, left), Caught(o), NEW p, Alike(o, p, {"disp", "contexts", "failed"}),
         Screen(p.disp), Drawn(p.disp) = Drawn(o.disp), p.disp.flushing => o.disp.flushing,
         p.failed \in BOOLEAN, Coming(p)
  PROVE Served(Settle(p), left) /\ Caught(Settle(p))
  <1>1. /\ Formed(o) /\ Ordered(o) /\ Owed(o, left) /\ Asked(o) /\ Resizing(o) /\ DOMAIN o = ObjFields
        /\ o.flushing = o.disp.flushing /\ o.disp.flushing \in BOOLEAN
    BY DEF Served, Picture, Formed, Screen, Typed
  <1>2. DOMAIN p = ObjFields /\ p.flushing = o.flushing /\ p.inbox = o.inbox
    BY DEF Alike, ObjFields
  <1>3. ASSUME NEW x, Alike(p, x, {"flushing"}), x.flushing = x.disp.flushing PROVE Served(x, left)
    <2>1. /\ x.disp = p.disp /\ x.contexts = p.contexts /\ x.failed = p.failed /\ x.payloads = p.payloads
          /\ x.ideal = p.ideal /\ x.spoiled = p.spoiled /\ x.inbox = p.inbox /\ x.rects = p.rects
          /\ x.requests = p.requests /\ x.resizes = p.resizes /\ x.win = p.win /\ DOMAIN x = ObjFields
      BY <1>3 DEF Alike, ObjFields
    <2>2. /\ p.payloads = o.payloads /\ p.ideal = o.ideal /\ p.spoiled = o.spoiled /\ p.inbox = o.inbox
          /\ p.rects = o.rects /\ p.requests = o.requests /\ p.resizes = o.resizes /\ p.win = o.win
      BY DEF Alike, ObjFields
    <2>3. \A f \in ControlFields : x[f] = o[f]
      BY <1>3 DEF Alike, ObjFields, ControlFields
    <2>4. Owed(x, left) /\ Asked(x) /\ Resizing(x)
      BY <1>1, <2>3, SameControl
    <2>5. \A f \in Booleans \ {"failed"} : x[f] = o[f]
      BY <1>3 DEF Alike, ObjFields, Booleans
    <2>6. \A f \in Booleans : x[f] \in BOOLEAN
      BY <1>1, <2>1, <2>5 DEF Formed, Booleans
    <2>7. Formed(x)
      BY <1>1, <1>3, <2>1, <2>2, <2>6 DEF Formed, Booleans
    <2>8. Ordered(x)
      BY <1>1, <2>1, <2>2 DEF Ordered
    <2>9. Coming(x)
      BY <2>1 DEF Coming
    <2> QED BY <2>4, <2>7, <2>8, <2>9 DEF Served, Picture
  <1>4. Loosely(p, left)
    BY <1>3 DEF Loosely
  <1>5. p.disp.flushing \in BOOLEAN
    BY DEF Screen, Typed
  <1>6. p.disp.flushing => p.flushing
    BY <1>1, <1>2
  <1>7. p.flushing \in BOOLEAN
    BY <1>1, <1>2
  <1>8. Caught(p)
    BY <1>2 DEF Caught
  <1> QED BY <1>2, <1>4, <1>5, <1>6, <1>7, <1>8, Resuming

\* An image that waits loads, or does not.
LEMMA ImageAnswers ==
  ASSUME NEW o, NEW left, Served(o, left), Caught(o), NEW i \in DOMAIN o.disp.queue,
         o.disp.queue[i].type = "img", NEW outcome \in {"ready", "broken"}
  PROVE LET p == [o EXCEPT !.disp = Settled(@, i, outcome), !.failed = @ \/ outcome = "broken"]
        IN Served(Settle(p), left) /\ Caught(Settle(p))
  <1> DEFINE d == o.disp
             e == Settled(d, i, outcome)
             p == [o EXCEPT !.disp = Settled(@, i, outcome), !.failed = @ \/ outcome = "broken"]
  <1>1. Screen(d) /\ Coming(o) /\ DOMAIN o = ObjFields /\ o.failed \in BOOLEAN
    BY DEF Served, Picture, Formed
  <1>2. Settling(d.queue[i])
    BY DEF Settling
  <1>3. PICK n : Settles(d, i, outcome, e, n)
    BY <1>1, <1>2, SettlingIs
  <1>4. /\ Alike(o, p, {"disp", "failed"}) /\ p.disp = e /\ p.failed = (o.failed \/ outcome = "broken")
    BY <1>1 DEF Alike, ObjFields
  <1> HIDE DEF e, p
  <1>5. /\ Numbered(d.queue, o.payloads) => Numbered(e.queue, o.payloads)
        /\ outcome = "ready" /\ PromisedBut(d.queue, i, o.contexts) => Promised(e.queue, o.contexts)
    <2> DEFINE m == o.payloads
               contexts == o.contexts
    <2>1. i \in DOMAIN d.queue
      OBVIOUS
    <2> HIDE DEF d, m, contexts
    <2>2. /\ Numbered(d.queue, m) => Numbered(e.queue, m)
          /\ outcome = "ready" /\ PromisedBut(d.queue, i, contexts) => Promised(e.queue, contexts)
      BY <1>1, <1>2, <1>3, <2>1, SettledQueue
    <2> QED BY <2>2 DEF m, contexts
  <1>7. Promised(d.queue, o.contexts) => PromisedBut(d.queue, i, o.contexts)
    BY DEF Promised, PromisedBut
  <1>8. p.contexts = o.contexts /\ p.payloads = o.payloads
    BY <1>4 DEF Alike, ObjFields
  <1>9. Coming(p)
    <2>1. /\ o.contexts \subseteq Contexts /\ (\A k \in o.contexts : Fed(k)) /\ Numbered(d.queue, o.payloads)
          /\ ~o.failed => (\A k \in o.contexts : Matched(k)) /\ Promised(d.queue, o.contexts)
      BY <1>1 DEF Coming
    <2>2. ~p.failed => ~o.failed /\ outcome = "ready"
      BY <1>4
    <2> QED BY <1>4, <1>5, <1>7, <1>8, <2>1, <2>2 DEF Coming
  <1>10. /\ Screen(p.disp) /\ Drawn(p.disp) = Drawn(o.disp) /\ (p.disp.flushing => o.disp.flushing)
    BY <1>3, <1>4 DEF Settles
  <1>11. Alike(o, p, {"disp", "contexts", "failed"}) /\ p.failed \in BOOLEAN
    BY <1>1, <1>4 DEF Alike
  <1>12. Served(Settle(p), left) /\ Caught(Settle(p))
    BY <1>9, <1>10, <1>11, Answered
  <1> QED BY <1>12 DEF p

\* The context when the frame of its oldest chunk has come back.
After(k) == [k EXCEPT !.coder = Tail(@), !.pending = Tail(@)]

\* The oldest entry goes with the frame, and the other ones keep their order.
LEMMA FrameBack ==
  ASSUME NEW k \in Contexts, Fed(k), k.coder # <<>>
  PROVE LET frame == Head(k.pending)
        IN  /\ After(k) \in Contexts /\ Fed(After(k)) /\ frame.payload \in Nat /\ frame.keep \in BOOLEAN
            /\ Matched(k) => Matched(After(k)) /\ frame.payload = Head(k.coder)
            /\ \A n : HasIn(k, n) => HasIn(After(k), n) \/ (n = frame.payload /\ frame.keep)
  <1> DEFINE P == k.pending
             C == k.coder
             z == After(k)
             Entry == [payload : Nat, keep : BOOLEAN]
  <1>1. P \in Seq(Entry) /\ C \in Seq(Nat) /\ C # <<>> /\ Len(C) <= Len(P) /\ k.x \in Nat \ {0}
        /\ k.live \in BOOLEAN /\ k.configured \in BOOLEAN /\ DOMAIN k = {"x", "live", "configured", "pending", "coder"}
    BY ContextIs DEF Fed
  <1>2. /\ z.pending = Tail(P) /\ z.coder = Tail(C) /\ z.x = k.x /\ z.live = k.live /\ z.configured = k.configured
    BY DEF After, Contexts
  <1> HIDE DEF z, P, C, Entry
  <1>3. P # <<>> /\ Len(C) > 0 /\ Len(P) > 0
    BY <1>1
  <1>4. /\ Tail(P) \in Seq(Entry) /\ Tail(C) \in Seq(Nat) /\ Head(P) \in Entry
        /\ Len(Tail(P)) = Len(P) - 1 /\ Len(Tail(C)) = Len(C) - 1 /\ Head(P) = P[1] /\ Head(C) = C[1]
        /\ \A i \in 1..(Len(P) - 1) : Tail(P)[i] = P[i + 1]
        /\ \A i \in 1..(Len(C) - 1) : Tail(C)[i] = C[i + 1]
        /\ DOMAIN Tail(P) = 1..(Len(P) - 1) /\ DOMAIN Tail(C) = 1..(Len(C) - 1)
    BY <1>1, <1>3
  <1>5. z \in Contexts
    <2>1. Tail(k.pending) \in Seq([payload : Nat, keep : BOOLEAN]) /\ Tail(k.coder) \in Seq(Nat)
      BY <1>4 DEF P, C, Entry
    <2> QED BY <2>1 DEF z, After, Contexts
  <1>6. Fed(z)
    BY <1>1, <1>2, <1>4 DEF Fed
  <1>7. Head(P).payload \in Nat /\ Head(P).keep \in BOOLEAN
    BY <1>4 DEF Entry
  <1>8. Matched(k) => Matched(z) /\ Head(P).payload = Head(C)
    <2> SUFFICES ASSUME Matched(k) PROVE Matched(z) /\ Head(P).payload = Head(C)
      OBVIOUS
    <2>1. Len(C) = Len(P) /\ \A i \in DOMAIN C : C[i] = P[i].payload
      BY DEF Matched, C, P
    <2>2. DOMAIN C = 1..Len(C)
      BY <1>1
    <2>3. Head(P).payload = Head(C)
      BY <1>1, <1>3, <1>4, <2>1, <2>2
    <2>4. ASSUME NEW i \in DOMAIN Tail(C) PROVE Tail(C)[i] = Tail(P)[i].payload
      <3>1. i \in 1..(Len(C) - 1) /\ i + 1 \in DOMAIN C /\ i \in 1..(Len(P) - 1)
        BY <1>1, <1>3, <1>4, <2>1, <2>2
      <3> QED BY <1>4, <2>1, <3>1
    <2>5. Len(Tail(C)) = Len(Tail(P))
      BY <1>4, <2>1
    <2> QED BY <1>2, <2>3, <2>4, <2>5 DEF Matched
  <1>9. ASSUME NEW n, HasIn(k, n) PROVE HasIn(z, n) \/ (n = Head(P).payload /\ Head(P).keep)
    <2>1. PICK i \in DOMAIN P : P[i] = [payload |-> n, keep |-> TRUE]
      BY <1>9 DEF HasIn, P
    <2>2. CASE i = 1
      BY <1>4, <2>1, <2>2
    <2>3. CASE i # 1
      <3>1. i - 1 \in 1..(Len(P) - 1) /\ (i - 1) + 1 = i
        BY <1>1, <2>1, <2>3
      <3>2. Tail(P)[i - 1] = P[i] /\ i - 1 \in DOMAIN Tail(P)
        BY <1>4, <3>1
      <3> QED BY <1>2, <2>1, <3>2 DEF HasIn
    <2> QED BY <2>2, <2>3
  <1> QED BY <1>5, <1>6, <1>7, <1>8, <1>9 DEF z, P, C

\* A frame comes back.
LEMMA FrameAnswers ==
  ASSUME NEW o, NEW left, Served(o, left), Caught(o), NEW k \in o.contexts, k.coder # <<>>
  PROVE LET p == HandleFrame(o, k) IN Served(Settle(p), left) /\ Caught(Settle(p))
  <1> DEFINE d == o.disp
             q == d.queue
             m == o.payloads
             frame == Head(k.pending)
             n == frame.payload
             z == After(k)
             contexts == (o.contexts \ {k}) \union {z}
             popped == [o EXCEPT !.contexts = (@ \ {k}) \union {z}]
             places == {i \in DOMAIN q : q[i].type = "frame" /\ q[i].frame = n}
             p == HandleFrame(o, k)
  <1>1. /\ Screen(d) /\ Coming(o) /\ DOMAIN o = ObjFields /\ o.failed \in BOOLEAN /\ q \in Seq(Actions)
        /\ o.contexts \subseteq Contexts /\ (\A y \in o.contexts : Fed(y)) /\ Numbered(q, m)
        /\ ~o.failed => (\A y \in o.contexts : Matched(y)) /\ Promised(q, o.contexts)
    BY DEF Served, Picture, Formed, Coming, Screen, Typed
  <1>2. /\ z \in Contexts /\ Fed(z) /\ frame.keep \in BOOLEAN
        /\ Matched(k) => Matched(z) /\ n = Head(k.coder)
        /\ \A j : HasIn(k, j) => HasIn(z, j) \/ (j = n /\ frame.keep)
    BY <1>1, FrameBack
  <1>3. contexts \subseteq Contexts /\ \A y \in contexts : Fed(y)
    BY <1>1, <1>2
  <1>4. ~o.failed => (\A y \in contexts : Matched(y)) /\ n = Head(k.coder)
    BY <1>1, <1>2
  <1>5. \A j : Has(o.contexts, j) /\ ~(j = n /\ frame.keep) => Has(contexts, j)
    BY <1>2 DEF Has
  <1>6. Alike(o, popped, {"contexts"}) /\ popped.contexts = contexts
    BY <1>1 DEF Alike, ObjFields
  <1>7. p = IF n # Head(k.coder) \/ ~frame.keep THEN popped
            ELSE [popped EXCEPT !.disp = FoldSet(LAMBDA i, x : Settled(x, i, "ready"), @, places)]
    BY DEF HandleFrame, After
  <1> HIDE DEF p, popped, contexts, z
  <1>8. ASSUME NEW x, Alike(o, x, {"disp", "contexts"}), x.contexts = contexts,
               Screen(x.disp), Drawn(x.disp) = Drawn(o.disp), x.disp.flushing => o.disp.flushing,
               Numbered(x.disp.queue, m), ~o.failed => Promised(x.disp.queue, contexts)
        PROVE Served(Settle(x), left) /\ Caught(Settle(x))
    <2>1. x.failed = o.failed /\ x.payloads = m
      BY <1>8 DEF Alike, ObjFields
    <2>2. Coming(x)
      BY <1>3, <1>4, <1>8, <2>1 DEF Coming
    <2>3. Alike(o, x, {"disp", "contexts", "failed"}) /\ x.failed \in BOOLEAN
      BY <1>1, <1>8, <2>1 DEF Alike
    <2> QED BY <1>8, <2>2, <2>3, Answered
  <1>9. ASSUME p = popped, ~o.failed => Promised(q, contexts) PROVE Served(Settle(p), left) /\ Caught(Settle(p))
    <2>1. p.disp = o.disp /\ Alike(o, p, {"disp", "contexts"})
      BY <1>6, <1>9 DEF Alike, ObjFields
    <2> QED BY <1>1, <1>6, <1>8, <1>9, <2>1
  <1> HIDE DEF q, n, m, frame
  <1>10. CASE n # Head(k.coder) \/ ~frame.keep
    <2>1. p = popped
      BY <1>7, <1>10
    <2>2. ~o.failed => ~frame.keep
      BY <1>4, <1>10
    <2>3. ~o.failed => Promised(q, contexts)
      BY <1>1, <1>5, <2>2 DEF Promised
    <2>4. Served(Settle(p), left) /\ Caught(Settle(p))
      BY <1>9, <2>1, <2>3
    <2> QED BY <2>4 DEF p
  <1>11. CASE n = Head(k.coder) /\ frame.keep /\ places = {}
    <2>1. \A j \in DOMAIN q : Loading(q[j]) => q[j].frame # n
      BY <1>11 DEF Loading
    <2>2. ~o.failed => Promised(q, contexts)
      BY <1>1, <1>5, <2>1 DEF Promised
    <2>3. popped.disp = d /\ DOMAIN popped = ObjFields
      BY <1>6 DEF Alike, ObjFields
    <2>4. p = [popped EXCEPT !.disp = d]
      <3>1. FoldSet(LAMBDA i, x : Settled(x, i, "ready"), d, {}) = d
        BY FoldNone
      <3>2. p = [popped EXCEPT !.disp = FoldSet(LAMBDA i, x : Settled(x, i, "ready"), popped.disp, places)]
        BY <1>7, <1>11
      <3> QED BY <1>11, <2>3, <3>1, <3>2
    <2>5. Alike(popped, p, {}) /\ p.disp = d
      BY <2>3, <2>4 DEF Alike, ObjFields
    <2>6. Alike(o, p, {"disp", "contexts"}) /\ p.contexts = contexts
      BY <1>6, <2>5 DEF Alike, ObjFields
    <2>7. Served(Settle(p), left) /\ Caught(Settle(p))
      BY <1>1, <1>8, <2>2, <2>5, <2>6 DEF q
    <2> QED BY <2>7 DEF p
  <1>12. CASE n = Head(k.coder) /\ frame.keep /\ places # {}
    <2>1. PICK i \in places : TRUE
      BY <1>12
    <2>2. i \in DOMAIN q /\ q[i].type = "frame" /\ q[i].frame = n
      BY <2>1
    <2>3. \A j \in DOMAIN q : q[j].type = "frame" /\ q[j].frame = n => j = i
      BY <1>1, <2>2 DEF Numbered, IsFrame
    <2>4. places = {i}
      BY <2>2, <2>3
    <2> DEFINE e == Settled(d, i, "ready")
    <2>5. PICK r : Settles(d, i, "ready", e, r)
      <3>1. i \in DOMAIN d.queue /\ Settling(d.queue[i])
        BY <2>2 DEF Settling, q
      <3>2. "ready" \in {"ready", "broken"}
        OBVIOUS
      <3> QED BY <1>1, <3>1, <3>2, SettlingIs
    <2>6. p.disp = e /\ Alike(popped, p, {"disp"})
      <3>1. FoldSet(LAMBDA j, x : Settled(x, j, "ready"), d, {i}) = e
        BY FoldOne
      <3>2. p = [popped EXCEPT !.disp = FoldSet(LAMBDA j, x : Settled(x, j, "ready"), popped.disp, places)]
        BY <1>7, <1>12
      <3>3. popped.disp = d /\ DOMAIN popped = ObjFields
        BY <1>6 DEF Alike, ObjFields
      <3>4. p = [popped EXCEPT !.disp = e]
        BY <2>4, <3>1, <3>2, <3>3
      <3> HIDE DEF e
      <3> QED BY <3>3, <3>4 DEF Alike, ObjFields
    <2> HIDE DEF e
    <2>7. ~o.failed => PromisedBut(q, i, contexts)
      <3>1. \A j \in DOMAIN q \ {i} : Loading(q[j]) => q[j].frame # n
        BY <2>3 DEF Loading
      <3> QED BY <1>1, <1>5, <3>1 DEF Promised, PromisedBut
    <2>8. /\ Numbered(q, m) => Numbered(e.queue, m)
          /\ "ready" = "ready" /\ PromisedBut(q, i, contexts) => Promised(e.queue, contexts)
      <3>1. i \in DOMAIN d.queue /\ Settling(d.queue[i]) /\ "ready" \in {"ready", "broken"}
        BY <2>2 DEF Settling, q
      <3> HIDE DEF d
      <3>2. /\ Numbered(d.queue, m) => Numbered(e.queue, m)
            /\ "ready" = "ready" /\ PromisedBut(d.queue, i, contexts) => Promised(e.queue, contexts)
        BY <1>1, <2>5, <3>1, SettledQueue
      <3> QED BY <3>2 DEF q
    <2>9. Alike(o, p, {"disp", "contexts"}) /\ p.contexts = contexts
      BY <1>6, <2>6 DEF Alike, ObjFields
    <2>10. Screen(p.disp) /\ Drawn(p.disp) = Drawn(o.disp) /\ (p.disp.flushing => o.disp.flushing)
      BY <2>5, <2>6 DEF Settles
    <2>11. Numbered(p.disp.queue, m) /\ (~o.failed => Promised(p.disp.queue, contexts))
      BY <1>1, <2>6, <2>7, <2>8
    <2>12. Served(Settle(p), left) /\ Caught(Settle(p))
      BY <1>8, <2>9, <2>10, <2>11
    <2> QED BY <2>12 DEF p
  <1> QED BY <1>2, <1>10, <1>11, <1>12

\* A decoder gives up.
LEMMA FailingDecoder ==
  ASSUME NEW o, NEW left, Served(o, left), Caught(o), NEW k \in o.contexts, NEW z,
         z = [k EXCEPT !.coder = <<>>, !.configured = FALSE]
  PROVE LET p == CollectContexts([o EXCEPT !.contexts = (@ \ {k}) \union {z}, !.failed = TRUE])
        IN Served(p, left) /\ Caught(p)
  <1> DEFINE x == [o EXCEPT !.contexts = (@ \ {k}) \union {z}, !.failed = TRUE]
  <1>1. /\ Formed(o) /\ Ordered(o) /\ Coming(o) /\ Owed(o, left) /\ Asked(o) /\ Resizing(o) /\ DOMAIN o = ObjFields
        /\ o.contexts \subseteq Contexts /\ \A y \in o.contexts : Fed(y)
    BY DEF Served, Picture, Formed, Coming
  <1>2. Alike(o, x, {"contexts", "failed"}) /\ x.contexts = (o.contexts \ {k}) \union {z} /\ x.failed = TRUE
    BY <1>1 DEF Alike, ObjFields
  <1> HIDE DEF x
  <1>3. z \in Contexts /\ Fed(z)
    <2>1. k \in Contexts /\ Fed(k)
      BY <1>1
    <2>2. Len(k.pending) \in Nat /\ Len(<<>>) = 0 /\ DOMAIN k = {"x", "live", "configured", "pending", "coder"}
      BY <2>1, ContextIs
    <2>3. z.coder = <<>> /\ z.pending = k.pending
      BY <2>2
    <2>4. z \in Contexts
      <3>1. <<>> \in Seq(Nat) /\ FALSE \in BOOLEAN
        OBVIOUS
      <3> DEFINE none == <<>>
      <3> HIDE DEF none
      <3>2. \A y \in Contexts : none \in Seq(Nat) => [y EXCEPT !.coder = none, !.configured = FALSE] \in Contexts
        BY DEF Contexts
      <3> QED BY <2>1, <3>1, <3>2 DEF none
    <2> QED BY <2>2, <2>3, <2>4 DEF Fed
  <1>4. /\ x.disp = o.disp /\ x.flushing = o.flushing /\ x.ideal = o.ideal /\ x.spoiled = o.spoiled
        /\ x.payloads = o.payloads /\ x.win = o.win /\ x.inbox = o.inbox
        /\ x.rects = o.rects /\ x.requests = o.requests /\ x.resizes = o.resizes
    BY <1>2 DEF Alike, ObjFields
  <1>5. \A f \in ControlFields : x[f] = o[f]
    BY <1>2 DEF Alike, ObjFields, ControlFields
  <1>6. Owed(x, left) /\ Asked(x) /\ Resizing(x)
    BY <1>1, <1>5, SameControl
  <1>7. \A f \in Booleans \ {"failed"} : x[f] = o[f]
    BY <1>2 DEF Alike, ObjFields, Booleans
  <1>8. \A f \in Booleans : x[f] \in BOOLEAN
    BY <1>1, <1>2, <1>7 DEF Formed, Booleans
  <1>9. Formed(x)
    <2>1. DOMAIN x = ObjFields
      BY <1>2 DEF Alike
    <2> QED BY <1>1, <1>4, <1>8, <2>1 DEF Formed, Booleans
  <1>10. Ordered(x)
    BY <1>1, <1>4 DEF Ordered
  <1>11. Coming(x)
    BY <1>1, <1>2, <1>3, <1>4 DEF Coming
  <1>12. Served(x, left) /\ Caught(x)
    BY <1>4, <1>6, <1>9, <1>10, <1>11 DEF Served, Picture, Caught
  <1> HIDE DEF Caught
  <1> QED BY <1>12, Collecting DEF x

-----------------------------------------------------------------------------
(* The server sends.                                                       *)

\* One part more at the end of what has arrived.
LEMMA OneMore ==
  ASSUME NEW w \in Seq(Parts), NEW part \in Parts
  PROVE LET v == Append(w, part)
            n == Len(w) + 1
        IN  /\ v \in Seq(Parts) /\ Len(v) = n /\ DOMAIN v = DOMAIN w \union {n} /\ n \notin DOMAIN w
            /\ n \in Nat \ {0} /\ DOMAIN w = 1..(n - 1) /\ v[n] = part /\ \A i \in DOMAIN w : v[i] = w[i]
  OBVIOUS

\* The update goes on with one part more.
LEMMA OwedMore ==
  ASSUME NEW o, NEW left \in Nat, Owed(o, left), o.inbox \in Seq(Parts), NEW part \in Parts,
         NEW m \in Nat, Leaves(left, part, m), NEW p, p.inbox = Append(o.inbox, part), p.rects = o.rects
  PROVE Owed(p, m)
  <1> DEFINE w == o.inbox
             v == Append(w, part)
             n == Len(w) + 1
  <1>1. /\ v \in Seq(Parts) /\ Len(v) = n /\ DOMAIN v = DOMAIN w \union {n} /\ n \notin DOMAIN w
        /\ n \in Nat \ {0} /\ DOMAIN w = 1..(n - 1) /\ v[n] = part /\ \A i \in DOMAIN w : v[i] = w[i]
    BY OneMore
  <1>2. PICK f \in [0..Len(w) -> Nat] : /\ f[0] = o.rects /\ f[Len(w)] = left
                                        /\ \A i \in DOMAIN w : Leaves(f[i - 1], w[i], f[i])
    BY DEF Owed
  <1>3. Len(w) = n - 1 /\ p.inbox = v
    OBVIOUS
  <1> HIDE DEF w, v, n
  <1> DEFINE g == [i \in 0..n |-> IF i < n THEN f[i] ELSE m]
  <1>4. g \in [0..n -> Nat] /\ g[0] = p.rects /\ g[n] = m /\ \A i \in 0..(n - 1) : g[i] = f[i]
    BY <1>1, <1>2, <1>3
  <1> HIDE DEF g
  <1>5. ASSUME NEW i \in DOMAIN v PROVE Leaves(g[i - 1], v[i], g[i])
    <2>1. CASE i \in DOMAIN w
      <3>1. i \in 0..(n - 1) /\ i - 1 \in 0..(n - 1)
        BY <1>1, <2>1
      <3>2. g[i] = f[i] /\ g[i - 1] = f[i - 1] /\ v[i] = w[i]
        BY <1>1, <1>4, <2>1, <3>1
      <3> QED BY <1>2, <2>1, <3>2
    <2>2. CASE i = n
      <3>1. n - 1 \in 0..(n - 1)
        BY <1>1
      <3>2. g[n - 1] = left /\ g[n] = m
        BY <1>2, <1>3, <1>4, <3>1
      <3> QED BY <1>1, <2>2, <3>2
    <2> QED BY <1>1, <2>1, <2>2
  <1> QED BY <1>1, <1>3, <1>4, <1>5 DEF Owed

\* The picture does not depend on what has arrived.
LEMMA ArrivedPicture ==
  ASSUME NEW o, NEW p, Picture(o), Alike(o, p, {"inbox", "requests", "resizes"}),
         p.inbox \in Seq(Parts), p.requests \in 0..1, p.resizes \in Nat
  PROVE Picture(p)
  <1>1. Untouched(o, p)
    BY DEF Alike, Untouched, DrawFields, ObjFields
  <1>2. \A f \in Booleans : p[f] = o[f]
    BY DEF Alike, ObjFields, Booleans
  <1>3. \A f \in Booleans : p[f] \in BOOLEAN
    BY <1>2 DEF Picture, Formed, Booleans
  <1>4. p.rects = o.rects /\ p.win = o.win
    BY DEF Alike, ObjFields
  <1>5. o.rects \in Nat /\ o.win \in Widths
    BY DEF Picture, Formed
  <1> QED BY <1>1, <1>3, <1>4, <1>5, UntouchedPicture

\* What arrives is handled, or waits.
LEMMA Receiving ==
  ASSUME NEW o, NEW part, NEW left, NEW p, p = [o EXCEPT !.inbox = Append(@, part)], Served(p, left)
  PROVE Served(Receive(o, part), left) /\ Caught(Receive(o, part))
  <1>1. Receive(o, part) = CollectContexts(HandleMessage(p))
    BY DEF Receive
  <1>2. Served(HandleMessage(p), left) /\ Caught(HandleMessage(p))
    BY HandlingMessages
  <1> QED BY <1>1, <1>2, Collecting

\* The header of an update.
LEMMA HeaderArrives ==
  ASSUME NEW o, Served(o, 0), Caught(o), o.cont \/ o.requests > 0, NEW n \in Nat,
         NEW x, x = [o EXCEPT !.requests = IF @ > 0 THEN @ - 1 ELSE @]
  PROVE LET p == Receive(x, [part |-> "header", rects |-> n]) IN Served(p, n) /\ Caught(p)
  <1> DEFINE part == [part |-> "header", rects |-> n]
             y == [x EXCEPT !.inbox = Append(@, part)]
             w == o.inbox
             v == Append(w, part)
             k == Len(w) + 1
  <1>1. /\ Picture(o) /\ Owed(o, 0) /\ Asked(o) /\ Resizing(o) /\ DOMAIN o = ObjFields
        /\ w \in Seq(Parts) /\ o.requests \in 0..1 /\ o.resizes \in Nat /\ o.rects \in Nat /\ o.cont \in BOOLEAN
    BY DEF Served, Picture, Formed
  <1>2. part \in Parts /\ part.part = "header" /\ ~IsAnswer(part) /\ Leaves(0, part, n)
    BY DEF Parts, IsAnswer, Leaves
  <1>3. /\ Alike(o, y, {"inbox", "requests"}) /\ y.inbox = v
        /\ y.requests = IF o.requests > 0 THEN o.requests - 1 ELSE o.requests
    BY <1>1 DEF Alike, ObjFields
  <1>4. /\ v \in Seq(Parts) /\ Len(v) = k /\ DOMAIN v = DOMAIN w \union {k} /\ k \notin DOMAIN w
        /\ k \in Nat \ {0} /\ DOMAIN w = 1..(k - 1) /\ v[k] = part /\ \A i \in DOMAIN w : v[i] = w[i]
    BY <1>1, <1>2, OneMore
  <1> HIDE DEF y, w, v, k, part
  <1>5. /\ y.rects = o.rects /\ y.cont = o.cont /\ y.contKnown = o.contKnown /\ y.resizes = o.resizes
        /\ y.pendingResize = o.pendingResize
    BY <1>3 DEF Alike, ObjFields
  <1>6. Picture(y)
    <2>1. Alike(o, y, {"inbox", "requests", "resizes"})
      BY <1>3 DEF Alike
    <2>2. y.requests \in 0..1
      BY <1>1, <1>3
    <2> QED BY <1>1, <1>3, <1>4, <1>5, <2>1, <2>2, ArrivedPicture
  <1>7. Owed(y, n)
    <2>1. y.inbox = Append(o.inbox, part) /\ o.inbox \in Seq(Parts)
      BY <1>1, <1>3 DEF v, w
    <2> QED BY <1>1, <1>2, <1>5, <2>1, OwedMore
  <1>8. Resizing(y)
    <2>1. \A i \in DOMAIN v : IsAnswer(v[i]) => i \in DOMAIN w /\ IsAnswer(w[i])
      BY <1>2, <1>4
    <2>2. /\ o.resizes \in 0..1
          /\ \A i, j \in DOMAIN w : IsAnswer(w[i]) /\ IsAnswer(w[j]) => i = j
          /\ o.resizes = 1 => o.pendingResize /\ \A i \in DOMAIN w : ~IsAnswer(w[i])
          /\ \A i \in DOMAIN w : IsAnswer(w[i]) => o.pendingResize
      BY <1>1 DEF Resizing, w
    <2> QED BY <1>3, <1>5, <2>1, <2>2 DEF Resizing
  <1>9. Asked(y)
    <2>1. /\ o.cont = o.contKnown
          /\ \A i, j \in DOMAIN w : w[i].part = "endcont" /\ w[j].part = "endcont" => i = j
          /\ o.cont => \A i \in DOMAIN w : w[i].part # "endcont"
      BY <1>1 DEF Asked, w
    <2>2. \A i \in DOMAIN v : v[i].part = "endcont" => i \in DOMAIN w /\ w[i].part = "endcont"
      BY <1>2, <1>4
    <2>3. CASE o.cont
      BY <1>3, <1>5, <2>1, <2>2, <2>3 DEF Asked
    <2>4. CASE ~o.cont
      <3>1. o.requests = 1
        BY <1>1, <2>4
      <3>2. o.rects = 0 /\ \A i \in DOMAIN w : w[i].part # "header"
        BY <1>1, <2>4, <3>1 DEF Asked, w
      <3>3. y.requests = 0
        BY <1>3, <3>1
      <3>4. \A i, j \in DOMAIN v : v[i].part = "header" /\ v[j].part = "header" => i = j
        BY <1>4, <3>2
      <3>5. \E i \in DOMAIN v : v[i].part = "header"
        BY <1>2, <1>4
      <3>6. /\ \A i, j \in DOMAIN v : v[i].part = "endcont" /\ v[j].part = "endcont" => i = j
        BY <2>1, <2>2
      <3> QED BY <1>3, <1>5, <2>1, <2>4, <3>2, <3>3, <3>4, <3>5, <3>6 DEF Asked
    <2> QED BY <1>1, <2>3, <2>4
  <1>10. Served(y, n)
    BY <1>6, <1>7, <1>8, <1>9 DEF Served
  <1>11. y = [x EXCEPT !.inbox = Append(@, part)]
    BY DEF y
  <1>12. Served(Receive(x, part), n) /\ Caught(Receive(x, part))
    BY <1>10, <1>11, Receiving
  <1> QED BY <1>12 DEF part

\* A rectangle of an update.
LEMMA RectArrives ==
  ASSUME NEW o, NEW left \in Nat, Served(o, left), left > 0, NEW r \in Rectangles,
         NEW answers, answers = (r.type = "extsize" /\ r.mine), answers => o.resizes > 0,
         NEW x, x = [o EXCEPT !.resizes = IF answers THEN @ - 1 ELSE @]
  PROVE LET p == Receive(x, [part |-> "rect", rect |-> r])
        IN Served(p, IF r.type = "last" THEN 0 ELSE left - 1) /\ Caught(p)
  <1> DEFINE part == [part |-> "rect", rect |-> r]
             y == [x EXCEPT !.inbox = Append(@, part)]
             w == o.inbox
             v == Append(w, part)
             k == Len(w) + 1
             m == IF r.type = "last" THEN 0 ELSE left - 1
  <1>1. /\ Picture(o) /\ Owed(o, left) /\ Asked(o) /\ Resizing(o) /\ DOMAIN o = ObjFields
        /\ w \in Seq(Parts) /\ o.requests \in 0..1 /\ o.resizes \in Nat /\ o.rects \in Nat /\ o.cont \in BOOLEAN
    BY DEF Served, Picture, Formed
  <1>2. part \in Parts /\ part.part = "rect" /\ (IsAnswer(part) <=> answers) /\ Leaves(left, part, m) /\ m \in Nat
    <2>1. part \in Parts /\ part.part = "rect" /\ part.rect = r
      BY DEF Parts
    <2> HIDE DEF part
    <2>2. IsAnswer(part) <=> answers
      BY <2>1 DEF IsAnswer
    <2> QED BY <2>1, <2>2 DEF Leaves
  <1>3. /\ Alike(o, y, {"inbox", "resizes"}) /\ y.inbox = v
        /\ y.resizes = IF answers THEN o.resizes - 1 ELSE o.resizes
    BY <1>1 DEF Alike, ObjFields
  <1>4. /\ v \in Seq(Parts) /\ Len(v) = k /\ DOMAIN v = DOMAIN w \union {k} /\ k \notin DOMAIN w
        /\ k \in Nat \ {0} /\ DOMAIN w = 1..(k - 1) /\ v[k] = part /\ \A i \in DOMAIN w : v[i] = w[i]
    BY <1>1, <1>2, OneMore
  <1> HIDE DEF y, w, v, k, part, m
  <1>5. /\ y.rects = o.rects /\ y.cont = o.cont /\ y.contKnown = o.contKnown /\ y.requests = o.requests
        /\ y.pendingResize = o.pendingResize /\ y.lost = o.lost
    BY <1>3 DEF Alike, ObjFields
  <1>6. /\ o.resizes \in 0..1
        /\ \A i, j \in DOMAIN w : IsAnswer(w[i]) /\ IsAnswer(w[j]) => i = j
        /\ o.resizes = 1 => o.pendingResize /\ \A i \in DOMAIN w : ~IsAnswer(w[i])
        /\ \A i \in DOMAIN w : IsAnswer(w[i]) => o.pendingResize
    BY <1>1 DEF Resizing, w
  <1>7. Picture(y)
    <2>1. Alike(o, y, {"inbox", "requests", "resizes"})
      BY <1>3 DEF Alike
    <2>2. y.resizes \in Nat
      BY <1>3, <1>6
    <2> QED BY <1>1, <1>3, <1>4, <1>5, <2>1, <2>2, ArrivedPicture
  <1>8. Owed(y, m)
    <2>1. y.inbox = Append(o.inbox, part) /\ o.inbox \in Seq(Parts)
      BY <1>1, <1>3 DEF v, w
    <2> QED BY <1>1, <1>2, <1>5, <2>1, OwedMore
  <1>9. Resizing(y)
    <2>1. CASE answers
      <3>1. o.resizes = 1 /\ o.pendingResize /\ (\A i \in DOMAIN w : ~IsAnswer(w[i])) /\ y.resizes = 0
        BY <1>3, <1>6, <2>1
      <3>2. \A i \in DOMAIN v : IsAnswer(v[i]) => i = k
        BY <1>4, <3>1
      <3> QED BY <1>3, <1>5, <3>1, <3>2 DEF Resizing
    <2>2. CASE ~answers
      <3>1. \A i \in DOMAIN v : IsAnswer(v[i]) => i \in DOMAIN w /\ IsAnswer(w[i])
        BY <1>2, <1>4, <2>2
      <3> QED BY <1>3, <1>5, <1>6, <2>2, <3>1 DEF Resizing
    <2> QED BY <2>1, <2>2
  <1>10. Asked(y)
    <2>1. \A i \in DOMAIN v : v[i].part # "rect" => i \in DOMAIN w /\ w[i].part = v[i].part
      BY <1>2, <1>4
    <2>2. \A i \in DOMAIN w : i \in DOMAIN v /\ v[i].part = w[i].part
      BY <1>4
    <2>3. \A i \in DOMAIN v : v[i].part \in {"header", "endcont"} => v[i].part # "rect"
      OBVIOUS
    <2>4. /\ o.cont = o.contKnown
          /\ \A i, j \in DOMAIN w : w[i].part = "endcont" /\ w[j].part = "endcont" => i = j
          /\ o.cont => \A i \in DOMAIN w : w[i].part # "endcont"
          /\ ~o.cont =>
              /\ \A i, j \in DOMAIN w : w[i].part = "header" /\ w[j].part = "header" => i = j
              /\ o.rects > 0 \/ o.requests = 1 => \A i \in DOMAIN w : w[i].part # "header"
              /\ o.rects > 0 => o.requests = 0
              /\ o.requests = 0 /\ o.rects = 0 /\ ~o.lost => \E i \in DOMAIN w : w[i].part = "header"
      BY <1>1 DEF Asked, w
    <2>5. /\ \A i, j \in DOMAIN v : v[i].part = "endcont" /\ v[j].part = "endcont" => i = j
          /\ o.cont => \A i \in DOMAIN v : v[i].part # "endcont"
      BY <2>1, <2>3, <2>4
    <2>6. ASSUME ~o.cont
          PROVE /\ \A i, j \in DOMAIN v : v[i].part = "header" /\ v[j].part = "header" => i = j
                /\ o.rects > 0 \/ o.requests = 1 => \A i \in DOMAIN v : v[i].part # "header"
                /\ o.rects > 0 => o.requests = 0
                /\ o.requests = 0 /\ o.rects = 0 /\ ~o.lost => \E i \in DOMAIN v : v[i].part = "header"
      BY <2>1, <2>2, <2>3, <2>4, <2>6
    <2> QED BY <1>3, <1>5, <2>4, <2>5, <2>6 DEF Asked
  <1>11. Served(y, m)
    BY <1>7, <1>8, <1>9, <1>10 DEF Served
  <1>12. y = [x EXCEPT !.inbox = Append(@, part)]
    BY DEF y
  <1>13. Served(Receive(x, part), m) /\ Caught(Receive(x, part))
    BY <1>11, <1>12, Receiving
  <1> QED BY <1>13 DEF part, m

\* The server offers, or ends, updates of its own.
LEMMA EndArrives ==
  ASSUME NEW o, Served(o, 0), ~o.contKnown, \A i \in DOMAIN o.inbox : o.inbox[i].part # "endcont"
  PROVE LET p == Receive(o, [part |-> "endcont"]) IN Served(p, 0) /\ Caught(p)
  <1> DEFINE part == [part |-> "endcont"]
             y == [o EXCEPT !.inbox = Append(@, part)]
             w == o.inbox
             v == Append(w, part)
             k == Len(w) + 1
  <1>1. /\ Picture(o) /\ Owed(o, 0) /\ Asked(o) /\ Resizing(o) /\ DOMAIN o = ObjFields
        /\ w \in Seq(Parts) /\ o.requests \in 0..1 /\ o.resizes \in Nat /\ o.rects \in Nat /\ o.cont \in BOOLEAN
    BY DEF Served, Picture, Formed
  <1>2. part \in Parts /\ part.part = "endcont" /\ ~IsAnswer(part) /\ Leaves(0, part, 0)
    BY DEF Parts, IsAnswer, Leaves
  <1>3. Alike(o, y, {"inbox"}) /\ y.inbox = v
    BY <1>1 DEF Alike, ObjFields
  <1>4. /\ v \in Seq(Parts) /\ Len(v) = k /\ DOMAIN v = DOMAIN w \union {k} /\ k \notin DOMAIN w
        /\ k \in Nat \ {0} /\ DOMAIN w = 1..(k - 1) /\ v[k] = part /\ \A i \in DOMAIN w : v[i] = w[i]
    BY <1>1, <1>2, OneMore
  <1>5. \A i \in DOMAIN w : w[i].part # "endcont"
    OBVIOUS
  <1> HIDE DEF y, w, v, k, part
  <1>6. /\ y.rects = o.rects /\ y.cont = o.cont /\ y.contKnown = o.contKnown /\ y.requests = o.requests
        /\ y.pendingResize = o.pendingResize /\ y.lost = o.lost /\ y.resizes = o.resizes
    BY <1>3 DEF Alike, ObjFields
  <1>7. Picture(y)
    <2>1. Alike(o, y, {"inbox", "requests", "resizes"})
      BY <1>3 DEF Alike
    <2> QED BY <1>1, <1>3, <1>4, <1>6, <2>1, ArrivedPicture
  <1>8. Owed(y, 0)
    <2>1. y.inbox = Append(o.inbox, part) /\ o.inbox \in Seq(Parts) /\ 0 \in Nat
      BY <1>1, <1>3 DEF v, w
    <2> QED BY <1>1, <1>2, <1>6, <2>1, OwedMore
  <1>9. Resizing(y)
    <2>1. \A i \in DOMAIN v : IsAnswer(v[i]) => i \in DOMAIN w /\ IsAnswer(w[i])
      BY <1>2, <1>4
    <2>2. /\ o.resizes \in 0..1
          /\ \A i, j \in DOMAIN w : IsAnswer(w[i]) /\ IsAnswer(w[j]) => i = j
          /\ o.resizes = 1 => o.pendingResize /\ \A i \in DOMAIN w : ~IsAnswer(w[i])
          /\ \A i \in DOMAIN w : IsAnswer(w[i]) => o.pendingResize
      BY <1>1 DEF Resizing, w
    <2> QED BY <1>3, <1>6, <2>1, <2>2 DEF Resizing
  <1>10. Asked(y)
    <2>1. \A i \in DOMAIN v : v[i].part = "header" => i \in DOMAIN w /\ w[i].part = "header"
      BY <1>2, <1>4
    <2>2. \A i \in DOMAIN w : i \in DOMAIN v /\ v[i].part = w[i].part
      BY <1>4
    <2>3. /\ ~o.cont /\ o.cont = o.contKnown
          /\ \A i, j \in DOMAIN w : w[i].part = "header" /\ w[j].part = "header" => i = j
          /\ o.rects > 0 \/ o.requests = 1 => \A i \in DOMAIN w : w[i].part # "header"
          /\ o.rects > 0 => o.requests = 0
          /\ o.requests = 0 /\ o.rects = 0 /\ ~o.lost => \E i \in DOMAIN w : w[i].part = "header"
      BY <1>1 DEF Asked, w
    <2>4. \A i, j \in DOMAIN v : v[i].part = "endcont" /\ v[j].part = "endcont" => i = j
      BY <1>4, <1>5
    <2>5. /\ \A i, j \in DOMAIN v : v[i].part = "header" /\ v[j].part = "header" => i = j
          /\ o.rects > 0 \/ o.requests = 1 => \A i \in DOMAIN v : v[i].part # "header"
          /\ o.requests = 0 /\ o.rects = 0 /\ ~o.lost => \E i \in DOMAIN v : v[i].part = "header"
      BY <2>1, <2>2, <2>3
    <2> QED BY <1>3, <1>6, <2>3, <2>4, <2>5 DEF Asked
  <1>11. Served(y, 0)
    BY <1>7, <1>8, <1>9, <1>10 DEF Served
  <1>12. y = [o EXCEPT !.inbox = Append(@, part)]
    BY DEF y
  <1>13. Served(Receive(o, part), 0) /\ Caught(Receive(o, part))
    BY <1>11, <1>12, Receiving
  <1> QED BY <1>13 DEF part

-----------------------------------------------------------------------------
(* The window, the timers and the user.                                    *)

SettingFields == {"disp", "expected", "raf", "clip", "session", "win", "recent", "timer"}

\* A change of the viewport or of a setting asks the server for nothing.
LEMMA Resettled ==
  ASSUME NEW o, NEW left, Served(o, left), Caught(o), NEW p, Alike(o, p, SettingFields), Picture(p)
  PROVE Served(p, left) /\ Caught(p)
  <1>1. Owed(o, left) /\ Asked(o) /\ Resizing(o)
    BY DEF Served
  <1>2. \A f \in ControlFields : p[f] = o[f]
    BY DEF Alike, ObjFields, ControlFields, SettingFields
  <1>3. Owed(p, left) /\ Asked(p) /\ Resizing(p)
    BY <1>1, <1>2, SameControl
  <1>4. p.inbox = o.inbox /\ p.flushing = o.flushing
    BY DEF Alike, ObjFields, SettingFields
  <1> QED BY <1>3, <1>4 DEF Served, Caught

\* The server is asked for the size of the window, or not.
LEMMA Requesting ==
  ASSUME NEW o, NEW left, Served(o, left), Caught(o)
  PROVE LET p == RequestRemoteResize(o) IN Served(p, left) /\ Caught(p)
  <1> DEFINE p == RequestRemoteResize(o)
  <1>1. Picture(o) /\ Owed(o, left) /\ Asked(o) /\ Resizing(o)
    BY DEF Served
  <1>2. Picture(p) /\ Resizing(p) /\ Alike(o, p, {"timer", "pendingResize", "recent", "resizes"})
    BY <1>1, Asking
  <1> HIDE DEF p
  <1>3. /\ p.inbox = o.inbox /\ p.flushing = o.flushing /\ p.rects = o.rects /\ p.cont = o.cont
        /\ p.contKnown = o.contKnown /\ p.requests = o.requests /\ p.lost = o.lost
    BY <1>2 DEF Alike, ObjFields
  <1>4. Owed(p, left)
    BY <1>1, <1>3 DEF Owed
  <1>5. Asked(p)
    BY <1>1, <1>3 DEF Asked
  <1>6. Served(p, left) /\ Caught(p)
    BY <1>2, <1>3, <1>4, <1>5 DEF Served, Caught
  <1> QED BY <1>6 DEF p

\* A setting, or the size of the window.
LEMMA Setting ==
  ASSUME NEW o, NEW left, Served(o, left), Caught(o), NEW p,
         Alike(o, p, {"expected", "raf", "clip", "session", "win", "recent", "timer"}),
         p.raf \in BOOLEAN, p.clip \in BOOLEAN, p.session \in BOOLEAN, p.win \in Widths,
         p.recent \in BOOLEAN, p.timer \in BOOLEAN
  PROVE Served(p, left) /\ Caught(p)
  <1>1. Picture(o)
    BY DEF Served
  <1>2. p.supports = o.supports /\ p.pendingResize = o.pendingResize
    BY DEF Alike, ObjFields
  <1>3. p.supports \in BOOLEAN /\ p.pendingResize \in BOOLEAN
    BY <1>1, <1>2 DEF Picture, Formed
  <1>4. Alike(o, p, {"supports", "pendingResize", "recent", "timer", "raf", "expected", "session", "clip", "win"})
    BY DEF Alike
  <1>5. Picture(p)
    BY <1>1, <1>3, <1>4, SamePicture
  <1>6. Alike(o, p, SettingFields)
    BY DEF Alike, SettingFields
  <1> QED BY <1>5, <1>6, Resettled

\* What every setting of a served object is.
LEMMA SettingsAre ==
  ASSUME NEW o, NEW left, Served(o, left)
  PROVE /\ o.raf \in BOOLEAN /\ o.clip \in BOOLEAN /\ o.session \in BOOLEAN /\ o.win \in Widths
        /\ o.recent \in BOOLEAN /\ o.timer \in BOOLEAN /\ DOMAIN o = ObjFields /\ Picture(o) /\ Screen(o.disp)
        /\ o.flushing = o.disp.flushing
  BY DEF Served, Picture, Formed

\* The window has another size.
LEMMA WindowChanges ==
  ASSUME NEW o, NEW left, Served(o, left), Caught(o), NEW w \in Widths
  PROVE LET sized == [o EXCEPT !.win = w]
            p == RequestRemoteResize([sized EXCEPT !.raf = TRUE])
        IN Served(sized, left) /\ Caught(sized) /\ Served(p, left) /\ Caught(p)
  <1> DEFINE sized == [o EXCEPT !.win = w]
             x == [sized EXCEPT !.raf = TRUE]
  <1>1. /\ o.raf \in BOOLEAN /\ o.clip \in BOOLEAN /\ o.session \in BOOLEAN
        /\ o.recent \in BOOLEAN /\ o.timer \in BOOLEAN /\ DOMAIN o = ObjFields
    BY SettingsAre
  <1>2. /\ Alike(o, sized, {"expected", "raf", "clip", "session", "win", "recent", "timer"}) /\ sized.win = w
        /\ sized.raf = o.raf /\ sized.clip = o.clip /\ sized.session = o.session
        /\ sized.recent = o.recent /\ sized.timer = o.timer
    BY <1>1 DEF Alike, ObjFields
  <1>3. /\ Alike(o, x, {"expected", "raf", "clip", "session", "win", "recent", "timer"}) /\ x.win = w
        /\ x.raf = TRUE /\ x.clip = o.clip /\ x.session = o.session
        /\ x.recent = o.recent /\ x.timer = o.timer
    BY <1>1 DEF Alike, ObjFields
  <1> HIDE DEF sized, x
  <1>4. Served(sized, left) /\ Caught(sized)
    BY <1>1, <1>2, Setting
  <1>5. Served(x, left) /\ Caught(x)
    BY <1>1, <1>3, Setting
  <1>6. Served(RequestRemoteResize(x), left) /\ Caught(RequestRemoteResize(x))
    BY <1>5, Requesting
  <1> QED BY <1>4, <1>6 DEF sized, x

\* The viewport follows the window at the next frame of animation.
LEMMA FrameOfAnimation ==
  ASSUME NEW o, NEW left, Served(o, left), Caught(o)
  PROVE LET p == Settle([UpdateClip(o) EXCEPT !.raf = FALSE, !.expected = o.win])
        IN Served(p, left) /\ Caught(p)
  <1> DEFINE y == UpdateClip(o)
             x == [y EXCEPT !.raf = FALSE, !.expected = o.win]
  <1>1. Picture(o)
    BY SettingsAre
  <1>2. Picture(y) /\ Alike(o, y, {"disp", "expected"})
    BY <1>1, Clipping
  <1> HIDE DEF y
  <1>3. Alike(o, y, SettingFields)
    BY <1>2 DEF Alike, SettingFields
  <1>4. Served(y, left) /\ Caught(y)
    BY <1>2, <1>3, Resettled
  <1>5. /\ y.raf \in BOOLEAN /\ y.clip \in BOOLEAN /\ y.session \in BOOLEAN /\ y.win \in Widths
        /\ y.recent \in BOOLEAN /\ y.timer \in BOOLEAN /\ DOMAIN y = ObjFields
    BY <1>4, SettingsAre
  <1>6. /\ Alike(y, x, {"expected", "raf", "clip", "session", "win", "recent", "timer"}) /\ x.win = y.win
        /\ x.raf = FALSE /\ x.clip = y.clip /\ x.session = y.session /\ x.recent = y.recent /\ x.timer = y.timer
    BY <1>5 DEF Alike, ObjFields
  <1> HIDE DEF x
  <1>7. Served(x, left) /\ Caught(x)
    BY <1>4, <1>5, <1>6, Setting
  <1>8. x.flushing = x.disp.flushing
    BY <1>7, SettingsAre
  <1>9. Settle(x) = CollectContexts(x)
    BY <1>8 DEF Settle
  <1>10. Served(Settle(x), left) /\ Caught(Settle(x))
    BY <1>7, <1>9, Collecting
  <1> QED BY <1>10 DEF x, y

\* The timer of the next request for a size, which may be early.
LEMMA TimerFires ==
  ASSUME NEW o, NEW left, Served(o, left), Caught(o), NEW early \in BOOLEAN
  PROVE LET p == RequestRemoteResize([o EXCEPT !.timer = FALSE, !.recent = early])
        IN Served(p, left) /\ Caught(p)
  <1> DEFINE x == [o EXCEPT !.timer = FALSE, !.recent = early]
  <1>1. /\ o.raf \in BOOLEAN /\ o.clip \in BOOLEAN /\ o.session \in BOOLEAN /\ o.win \in Widths
        /\ DOMAIN o = ObjFields
    BY SettingsAre
  <1>2. /\ Alike(o, x, {"expected", "raf", "clip", "session", "win", "recent", "timer"}) /\ x.win = o.win
        /\ x.raf = o.raf /\ x.clip = o.clip /\ x.session = o.session /\ x.recent = early /\ x.timer = FALSE
    BY <1>1 DEF Alike, ObjFields
  <1> HIDE DEF x
  <1>3. Served(x, left) /\ Caught(x)
    BY <1>1, <1>2, Setting
  <1>4. Served(RequestRemoteResize(x), left) /\ Caught(RequestRemoteResize(x))
    BY <1>3, Requesting
  <1> QED BY <1>4 DEF x

\* 100 ms have passed.
LEMMA TimePasses ==
  ASSUME NEW o, NEW left, Served(o, left), Caught(o)
  PROVE LET p == [o EXCEPT !.recent = FALSE] IN Served(p, left) /\ Caught(p)
  <1> DEFINE x == [o EXCEPT !.recent = FALSE]
  <1>1. /\ o.raf \in BOOLEAN /\ o.clip \in BOOLEAN /\ o.session \in BOOLEAN /\ o.win \in Widths
        /\ o.timer \in BOOLEAN /\ DOMAIN o = ObjFields
    BY SettingsAre
  <1>2. /\ Alike(o, x, {"expected", "raf", "clip", "session", "win", "recent", "timer"}) /\ x.win = o.win
        /\ x.raf = o.raf /\ x.clip = o.clip /\ x.session = o.session /\ x.recent = FALSE /\ x.timer = o.timer
    BY <1>1 DEF Alike, ObjFields
  <1> HIDE DEF x
  <1>3. Served(x, left) /\ Caught(x)
    BY <1>1, <1>2, Setting
  <1> QED BY <1>3 DEF x

\* The user turns clipping on or off.
LEMMA ClipChanges ==
  ASSUME NEW o, NEW left, Served(o, left), Caught(o), NEW on \in BOOLEAN
  PROVE LET p == UpdateClip([o EXCEPT !.clip = on]) IN Served(p, left) /\ Caught(p)
  <1> DEFINE x == [o EXCEPT !.clip = on]
             p == UpdateClip(x)
  <1>1. /\ o.raf \in BOOLEAN /\ o.recent \in BOOLEAN /\ o.session \in BOOLEAN /\ o.win \in Widths
        /\ o.timer \in BOOLEAN /\ DOMAIN o = ObjFields
    BY SettingsAre
  <1>2. /\ Alike(o, x, {"expected", "raf", "clip", "session", "win", "recent", "timer"}) /\ x.win = o.win
        /\ x.raf = o.raf /\ x.clip = on /\ x.session = o.session /\ x.recent = o.recent /\ x.timer = o.timer
    BY <1>1 DEF Alike, ObjFields
  <1> HIDE DEF x
  <1>3. Served(x, left) /\ Caught(x)
    BY <1>1, <1>2, Setting
  <1>4. Picture(x)
    BY <1>3, SettingsAre
  <1>5. Picture(p) /\ Alike(x, p, {"disp", "expected"})
    BY <1>4, Clipping
  <1> HIDE DEF p
  <1>6. Alike(x, p, SettingFields)
    BY <1>5 DEF Alike, SettingFields
  <1>7. Served(p, left) /\ Caught(p)
    BY <1>3, <1>5, <1>6, Resettled
  <1> QED BY <1>7 DEF p, x

\* The user turns the resizing of the remote desktop on or off.
LEMMA SessionChanges ==
  ASSUME NEW o, NEW left, Served(o, left), Caught(o), NEW on \in BOOLEAN
  PROVE LET x == [o EXCEPT !.session = on]
            p == RequestRemoteResize(x)
        IN Served(x, left) /\ Caught(x) /\ Served(p, left) /\ Caught(p)
  <1> DEFINE x == [o EXCEPT !.session = on]
  <1>1. /\ o.raf \in BOOLEAN /\ o.recent \in BOOLEAN /\ o.clip \in BOOLEAN /\ o.win \in Widths
        /\ o.timer \in BOOLEAN /\ DOMAIN o = ObjFields
    BY SettingsAre
  <1>2. /\ Alike(o, x, {"expected", "raf", "clip", "session", "win", "recent", "timer"}) /\ x.win = o.win
        /\ x.raf = o.raf /\ x.clip = o.clip /\ x.session = on /\ x.recent = o.recent /\ x.timer = o.timer
    BY <1>1 DEF Alike, ObjFields
  <1> HIDE DEF x
  <1>3. Served(x, left) /\ Caught(x)
    BY <1>1, <1>2, Setting
  <1>4. Served(RequestRemoteResize(x), left) /\ Caught(RequestRemoteResize(x))
    BY <1>3, Requesting
  <1> QED BY <1>3, <1>4 DEF x

\* The user drags the viewport.
LEMMA Dragging ==
  ASSUME NEW o, NEW left, Served(o, left), Caught(o), NEW delta \in Int
  PROVE LET p == [o EXCEPT !.disp = ViewportChangePos(@, delta)] IN Served(p, left) /\ Caught(p)
  <1> DEFINE d == o.disp
             e == ViewportChangePos(d, delta)
             p == [o EXCEPT !.disp = ViewportChangePos(@, delta)]
  <1>1. Picture(o) /\ Screen(d) /\ DOMAIN o = ObjFields
    BY SettingsAre
  <1>2. Alike(o, p, {"disp"}) /\ p.disp = e
    BY <1>1 DEF Alike, ObjFields
  <1> HIDE DEF p
  <1>3. Screen(e) /\ Shown(d, e)
    <2>1. Loose(d) /\ Tracked(d)
      <3>1. d.x \in Nat /\ d.w \in Nat /\ d.w > 0 /\ d.x + d.w <= Len(d.back) /\ Len(d.back) \in Nat
        BY <1>1, PixelsOf DEF Screen, Typed, Fits
      <3> QED BY <1>1, <3>1 DEF Loose, Steady, Screen
    <2>2. Steady(e) /\ Fits(e) /\ Shown(d, e) /\ Tracked(e)
      BY <2>1, ChangingPos
    <2> QED BY <2>2 DEF Screen, Steady
  <1> HIDE DEF e
  <1>4. Alike(o, p, {"disp", "expected"}) /\ Alike(o, p, SettingFields)
    BY <1>2 DEF Alike, SettingFields
  <1>5. Picture(p)
    BY <1>1, <1>2, <1>3, <1>4, Refitted
  <1>6. Served(p, left) /\ Caught(p)
    BY <1>4, <1>5, Resettled
  <1> QED BY <1>6 DEF p

-----------------------------------------------------------------------------
(* The start.                                                              *)

\* A screen that shows nothing yet.
Starts(d, w) == Screen(d) /\ d.queue = <<>> /\ d.back = Blanks(w) /\ ~d.flushing

\* It still shows nothing when the viewport has changed.
LEMMA StartsStill ==
  ASSUME NEW d, NEW w, Starts(d, w), NEW e, Screen(e), Shown(d, e) PROVE Starts(e, w)
  BY DEF Starts, Shown

\* The display of a new connection, clipped or not.
LEMMA FirstScreen ==
  ASSUME NEW w \in Widths, NEW win \in Widths
  PROVE LET d == Resize(NewDisplay, w)
        IN Starts(d, w) /\ Starts(ViewportChangeSize(SetClipViewport(d, TRUE), win), w)
  <1> DEFINE blank == NewDisplay
             a == [blank EXCEPT !.back = Resized(@, w)]
             d == Resize(blank, w)
             e == SetClipViewport(d, TRUE)
             f == ViewportChangeSize(e, win)
  <1>1. w \in Nat /\ w > 0 /\ win \in Nat /\ win > 0
    BY UpdatesAssumption
  <1>2. blank.queue = <<>> /\ blank.flushing = FALSE /\ blank.back = <<>>
    BY DEF NewDisplay
  <1>3. Screen(d) /\ Shown(a, d) /\ a.back = Resized(blank.back, w) /\ a.queue = blank.queue /\ a.flushing = blank.flushing
    BY <1>1, ResizingIs
  <1>4. Resized(<<>>, w) = Blanks(w)
    BY DEF Resized, Blanks
  <1> HIDE DEF a, d, blank
  <1>5. Starts(d, w)
    BY <1>2, <1>3, <1>4 DEF Starts, Shown
  <1>6. Screen(e) /\ Shown(d, e)
    BY <1>3, SettingClip
  <1> HIDE DEF e
  <1>7. Starts(e, w)
    BY <1>5, <1>6, StartsStill
  <1>8. Screen(f) /\ Shown(e, f)
    <2>1. Steady(e) /\ (e.w > 0 /\ Fits(e) => Tracked(e)) /\ Typed(e) /\ Fits(e)
      BY <1>6 DEF Screen, Steady
    <2>2. Len(e.back) > 0
      <3>1. e.x \in Nat /\ e.w \in Nat /\ e.w > 0 /\ e.x + e.w <= Len(e.back) /\ Len(e.back) \in Nat
        BY <2>1, PixelsOf DEF Typed, Fits
      <3> QED BY <3>1
    <2>3. Shown(e, f) /\ (f # e => Screen(f))
      BY <1>1, <2>1, <2>2, ChangingSize
    <2> HIDE DEF f
    <2> QED BY <1>6, <2>3
  <1> HIDE DEF f
  <1>9. Starts(f, w)
    BY <1>7, <1>8, StartsStill
  <1> QED BY <1>5, <1>9 DEF f, e, d, blank

\* The invariant holds when the connection starts.
LEMMA Starting ==
  ASSUME FbuInit PROVE IInv
  <1>1. PICK w \in Widths, win \in Widths, session \in BOOLEAN, clip \in BOOLEAN :
           c = [disp |-> IF clip THEN ViewportChangeSize(SetClipViewport(Resize(NewDisplay, w), TRUE), win)
                         ELSE Resize(NewDisplay, w),
                rects |-> 0, flushing |-> FALSE, cont |-> FALSE,
                contKnown |-> FALSE, inbox |-> <<>>, contexts |-> {}, payloads |-> 0,
                clip |-> clip, session |-> session, supports |-> FALSE, pendingResize |-> FALSE,
                recent |-> FALSE, timer |-> FALSE, raf |-> FALSE, win |-> win, expected |-> win,
                requests |-> 1, resizes |-> 0,
                ideal |-> Blanks(w), spoiled |-> FALSE, lost |-> FALSE, failed |-> FALSE]
    BY DEF FbuInit
  <1>2. srv.left = 0 /\ srv.updates = 0
    BY DEF FbuInit
  <1> DEFINE first == IF clip THEN ViewportChangeSize(SetClipViewport(Resize(NewDisplay, w), TRUE), win)
                      ELSE Resize(NewDisplay, w)
  <1>3. Starts(first, w)
    BY FirstScreen
  <1> HIDE DEF first
  <1>4. /\ c.disp = first /\ c.rects = 0 /\ c.flushing = FALSE /\ c.cont = FALSE /\ c.contKnown = FALSE
        /\ c.inbox = <<>> /\ c.contexts = {} /\ c.payloads = 0 /\ c.clip = clip /\ c.session = session
        /\ c.supports = FALSE /\ c.pendingResize = FALSE /\ c.recent = FALSE /\ c.timer = FALSE /\ c.raf = FALSE
        /\ c.win = win /\ c.requests = 1 /\ c.resizes = 0 /\ c.ideal = Blanks(w) /\ c.spoiled = FALSE
        /\ c.lost = FALSE /\ c.failed = FALSE
    BY <1>1 DEF first
  <1>5. DOMAIN c = ObjFields
    BY <1>1 DEF ObjFields
  <1>6. Screen(first) /\ first.queue = <<>> /\ first.back = Blanks(w) /\ ~first.flushing /\ Typed(first)
    BY <1>3 DEF Starts, Screen
  <1>7. Formed(c)
    <2>1. \A f \in Booleans : c[f] \in BOOLEAN
      BY <1>4 DEF Booleans
    <2>2. <<>> \in Seq(Parts)
      OBVIOUS
    <2>3. first.flushing \in BOOLEAN
      BY <1>6 DEF Typed
    <2>4. c.flushing = c.disp.flushing
      BY <1>4, <1>6, <2>3
    <2> QED BY <1>4, <1>5, <1>6, <2>1, <2>2, <2>4 DEF Formed, Booleans
  <1>8. Ordered(c)
    <2>1. Drawn(first) = first.back
      BY <1>6, DrawnEmpty
    <2>2. first.back \in Seq(Nat)
      BY <1>6 DEF Typed
    <2> QED BY <1>4, <1>6, <2>1, <2>2 DEF Ordered
  <1>9. Coming(c)
    <2>1. DOMAIN <<>> = {}
      OBVIOUS
    <2>2. Numbered(c.disp.queue, c.payloads) /\ Promised(c.disp.queue, c.contexts)
      BY <1>4, <1>6, <2>1 DEF Numbered, Promised
    <2> QED BY <1>4, <2>2 DEF Coming
  <1>10. Owed(c, 0)
    <2> DEFINE f == [i \in 0..0 |-> 0]
    <2>1. Len(c.inbox) = 0 /\ DOMAIN c.inbox = {}
      BY <1>4
    <2>2. f \in [0..Len(c.inbox) -> Nat] /\ f[0] = c.rects /\ f[Len(c.inbox)] = 0
      BY <1>4, <2>1
    <2> HIDE DEF f
    <2> QED BY <2>1, <2>2 DEF Owed
  <1>11. DOMAIN c.inbox = {}
    BY <1>4
  <1>12. Asked(c)
    <2>1. c.cont = c.contKnown /\ c.rects = 0 /\ c.requests = 1
      BY <1>4
    <2>2. ~c.cont
      BY <1>4, Zenon
    <2>3. \A i \in DOMAIN c.inbox : FALSE
      BY <1>11
    <2> QED BY <2>1, <2>2, <2>3 DEF Asked
  <1>13. Resizing(c)
    BY <1>4, <1>11 DEF Resizing
  <1>14. Served(c, 0)
    BY <1>7, <1>8, <1>9, <1>10, <1>12, <1>13 DEF Served, Picture
  <1> QED BY <1>2, <1>4, <1>14, UpdatesAssumption DEF IInv

-----------------------------------------------------------------------------
(* The steps.                                                              *)

\* The server announces an update.
LEMMA SendHeaderKeeps == ASSUME IInv, SendHeader PROVE IInv'
  <1>1. PICK n \in RectCounts :
          /\ c' = Receive([c EXCEPT !.requests = IF @ > 0 THEN @ - 1 ELSE @], [part |-> "header", rects |-> n])
          /\ srv' = [srv EXCEPT !.left = n, !.updates = @ + 1]
    BY DEF SendHeader
  <1>2. /\ srv.left = 0 /\ srv.updates < MaxUpdates /\ (c.cont \/ c.requests > 0) /\ Served(c, srv.left) /\ Caught(c)
        /\ srv.updates \in Nat
    BY DEF IInv, SendHeader, Caught
  <1>3. n \in Nat /\ MaxUpdates \in Nat
    BY UpdatesAssumption
  <1>4. Served(c', n) /\ Caught(c')
    BY <1>1, <1>2, <1>3, HeaderArrives
  <1>5. srv'.left = n /\ srv'.updates = srv.updates + 1
    BY <1>1, <1>2 DEF IInv
  <1>6. c.inbox' # <<>> => c.flushing'
    BY <1>4 DEF Caught
  <1> QED BY <1>2, <1>3, <1>4, <1>5, <1>6 DEF IInv

\* The server sends a rectangle of the update it owes.
LEMMA SendRectKeeps == ASSUME IInv, SendRect PROVE IInv'
  <1>1. PICK r \in Rects[srv.updates] :
          LET answers == r.type = "extsize" /\ r.mine
          IN  /\ answers => c.resizes > 0
              /\ c' = Receive([c EXCEPT !.resizes = IF answers THEN @ - 1 ELSE @], [part |-> "rect", rect |-> r])
              /\ srv' = [srv EXCEPT !.left = IF r.type = "last" THEN 0 ELSE @ - 1]
    BY DEF SendRect
  <1>2. /\ srv.left \in Nat /\ srv.left > 0 /\ srv.updates \in 1..MaxUpdates /\ Served(c, srv.left) /\ Caught(c)
    BY UpdatesAssumption DEF IInv, SendRect, Caught
  <1>3. r \in Rectangles
    BY <1>2, UpdatesAssumption
  <1> DEFINE left == srv.left
             m == IF r.type = "last" THEN 0 ELSE left - 1
             answers == r.type = "extsize" /\ r.mine
             x == [c EXCEPT !.resizes = IF answers THEN @ - 1 ELSE @]
  <1>4. Served(c', m) /\ Caught(c')
    <2>1. (answers => c.resizes > 0) /\ c' = Receive(x, [part |-> "rect", rect |-> r])
      BY <1>1
    <2>2. left \in Nat /\ left > 0 /\ Served(c, left)
      BY <1>2
    <2> HIDE DEF left
    <2> QED BY <1>2, <1>3, <2>1, <2>2, RectArrives
  <1>5. srv'.left = m /\ srv'.updates = srv.updates
    BY <1>1
  <1>6. m \in Nat /\ (m > 0 => left > 0)
    BY <1>2
  <1>7. c.inbox' # <<>> => c.flushing'
    BY <1>4 DEF Caught
  <1> HIDE DEF m, x, answers
  <1> QED BY <1>2, <1>4, <1>5, <1>6, <1>7 DEF IInv

\* When the server is left alone.
LEMMA Kept ==
  ASSUME IInv, srv'.left = srv.left, srv'.updates = srv.updates, Served(c', srv.left), Caught(c') PROVE IInv'
  <1>1. c.inbox' # <<>> => c.flushing'
    BY DEF Caught
  <1> QED BY <1>1 DEF IInv

\* The server offers, or ends, continuous updates.
LEMMA SendEndKeeps == ASSUME IInv, SendEndOfContinuousUpdates PROVE IInv'
  <1>1. /\ srv.left = 0 /\ ~c.contKnown /\ (\A i \in DOMAIN c.inbox : c.inbox[i].part # "endcont")
        /\ c' = Receive(c, [part |-> "endcont"]) /\ srv' = srv /\ Served(c, 0)
    BY DEF IInv, SendEndOfContinuousUpdates
  <1>2. Served(c', 0) /\ Caught(c')
    BY <1>1, EndArrives
  <1> QED BY <1>1, <1>2, Kept

\* An image or a frame comes back, or a decoder fails.
LEMMA BrowserKeeps == ASSUME IInv, Browser \/ DecoderFails PROVE IInv'
  <1>1. Served(c, srv.left) /\ Caught(c)
    BY DEF IInv, Caught
  <1>2. CASE ImageSettles
    <2>1. PICK i \in DOMAIN c.disp.queue, outcome \in {"ready", "broken"} :
             /\ c.disp.queue[i].type = "img"
             /\ c' = Settle([c EXCEPT !.disp = Settled(@, i, outcome), !.failed = @ \/ outcome = "broken"])
             /\ srv' = srv
      BY <1>2 DEF ImageSettles
    <2>2. Served(c', srv.left) /\ Caught(c')
      BY <1>1, <2>1, ImageAnswers
    <2> QED BY <2>1, <2>2, Kept
  <1>3. CASE DecoderOutput
    <2>1. PICK k \in c.contexts : k.coder # <<>> /\ c' = Settle(HandleFrame(c, k)) /\ srv' = srv
      BY <1>3 DEF DecoderOutput
    <2>2. Served(c', srv.left) /\ Caught(c')
      BY <1>1, <2>1, FrameAnswers
    <2> QED BY <2>1, <2>2, Kept
  <1>4. CASE DecoderFails
    <2>1. PICK k \in c.contexts :
            /\ c' = CollectContexts([c EXCEPT !.contexts = (@ \ {k}) \union {[k EXCEPT !.coder = <<>>, !.configured = FALSE]},
                                              !.failed = TRUE])
            /\ srv' = srv
      BY <1>4 DEF DecoderFails
    <2>2. Served(c', srv.left) /\ Caught(c')
      BY <1>1, <2>1, FailingDecoder
    <2> QED BY <2>1, <2>2, Kept
  <1> QED BY <1>2, <1>3, <1>4 DEF Browser

\* The frame of animation and the timers of the resize.
LEMMA TimersKeep == ASSUME IInv, AnimationFrame \/ ResizeTimer \/ ResizeLapse PROVE IInv'
  <1>1. Served(c, srv.left) /\ Caught(c)
    BY DEF IInv, Caught
  <1>2. CASE AnimationFrame
    <2>1. c' = Settle([UpdateClip(c) EXCEPT !.raf = FALSE, !.expected = c.win]) /\ srv' = srv
      BY <1>2 DEF AnimationFrame
    <2>2. Served(c', srv.left) /\ Caught(c')
      BY <1>1, <2>1, FrameOfAnimation
    <2> QED BY <2>1, <2>2, Kept
  <1>3. CASE ResizeTimer
    <2>1. PICK early \in BOOLEAN : c' = RequestRemoteResize([c EXCEPT !.timer = FALSE, !.recent = early]) /\ srv' = srv
      BY <1>3 DEF ResizeTimer
    <2>2. Served(c', srv.left) /\ Caught(c')
      BY <1>1, <2>1, TimerFires
    <2> QED BY <2>1, <2>2, Kept
  <1>4. CASE ResizeLapse
    <2>1. c' = [c EXCEPT !.recent = FALSE] /\ srv' = srv
      BY <1>4 DEF ResizeLapse
    <2>2. Served(c', srv.left) /\ Caught(c')
      BY <1>1, <2>1, TimePasses
    <2> QED BY <2>1, <2>2, Kept
  <1> QED BY <1>2, <1>3, <1>4

\* The user changes the window, a setting or the viewport.
LEMMA UserKeeps == ASSUME IInv, User PROVE IInv'
  <1>1. Served(c, srv.left) /\ Caught(c)
    BY DEF IInv, Caught
  <1>2. srv' = [srv EXCEPT !.moves = @ + 1]
    BY DEF User
  <1>3. srv'.left = srv.left /\ srv'.updates = srv.updates
    BY <1>2
  <1>4. Served(c', srv.left) /\ Caught(c')
    <2>1. CASE \E w \in Widths \ {c.win} : WindowResizes(w)
      <3>1. PICK w \in Widths : WindowResizes(w)
        BY <2>1
      <3>2. c' = [c EXCEPT !.win = w] \/ c' = RequestRemoteResize([[c EXCEPT !.win = w] EXCEPT !.raf = TRUE])
        BY <3>1 DEF WindowResizes
      <3>3. LET sized == [c EXCEPT !.win = w]
                p == RequestRemoteResize([sized EXCEPT !.raf = TRUE])
            IN Served(sized, srv.left) /\ Caught(sized) /\ Served(p, srv.left) /\ Caught(p)
        BY <1>1, WindowChanges
      <3> QED BY <3>2, <3>3
    <2>2. CASE SetClipSetting(~c.clip)
      <3> DEFINE on == ~c.clip
      <3>1. on \in BOOLEAN /\ c' = UpdateClip([c EXCEPT !.clip = on])
        BY <2>2 DEF SetClipSetting
      <3> HIDE DEF on
      <3> QED BY <1>1, <3>1, ClipChanges
    <2>3. CASE SetResizeSession(~c.session)
      <3> DEFINE on == ~c.session
      <3>1. on \in BOOLEAN /\ (c' = RequestRemoteResize([c EXCEPT !.session = on]) \/ c' = [c EXCEPT !.session = on])
        BY <2>3 DEF SetResizeSession
      <3> HIDE DEF on
      <3> QED BY <1>1, <3>1, SessionChanges
    <2>4. CASE \E delta \in {-1, 1} : DragViewport(delta)
      <3>1. PICK delta \in {-1, 1} : c' = [c EXCEPT !.disp = ViewportChangePos(@, delta)]
        BY <2>4 DEF DragViewport
      <3>2. delta \in Int
        BY <3>1
      <3> QED BY <1>1, <3>1, <3>2, Dragging
    <2> QED BY <2>1, <2>2, <2>3, <2>4 DEF User
  <1> QED BY <1>3, <1>4, Kept

\* The invariant is inductive.
THEOREM Inductive == Spec => []IInv
  <1>1. FbuInit => IInv
    BY Starting
  <1>2. IInv /\ [Next]_vars => IInv'
    <2> SUFFICES ASSUME IInv, [Next]_vars PROVE IInv'
      OBVIOUS
    <2>1. CASE UNCHANGED vars
      <3>1. c' = c /\ srv' = srv
        BY <2>1 DEF vars
      <3>2. Served(c', srv.left) /\ Caught(c')
        BY <3>1 DEF IInv, Caught
      <3> QED BY <3>1, <3>2, Kept
    <2>2. CASE Next
      BY <2>2, SendHeaderKeeps, SendRectKeeps, SendEndKeeps, BrowserKeeps, TimersKeep, UserKeeps DEF Next
    <2> QED BY <2>1, <2>2
  <1> QED BY <1>1, <1>2, PTL DEF Spec

-----------------------------------------------------------------------------
(* What it means.                                                          *)

\* The state the messages, the display and the decoders share stays well formed: the
\* viewport is inside the buffer (Display.viewportChangePos, viewportChangeSize, resize), an
\* action that is ready does not wait in the queue (_scanRenderQ), and the object waits
\* exactly while the display does (flush).
THEOREM TypeOK == Spec => []FbuTypeOK
  <1>1. IInv => FbuTypeOK
    <2> SUFFICES ASSUME IInv PROVE FbuTypeOK
      OBVIOUS
    <2> DEFINE d == c.disp
    <2>1. /\ Screen(d) /\ c.flushing = d.flushing /\ c.rects \in Nat /\ c.requests \in 0..1
      BY DEF IInv, Served, Picture, Formed
    <2> HIDE DEF d
    <2>2. d.x \in 0..(FbWidth(d) - d.w) /\ Len(d.shown) = d.w
      <3>1. d.x \in Nat /\ d.w \in Nat /\ d.x + d.w <= Len(d.back) /\ Len(d.back) \in Nat /\ Len(d.shown) = d.w
        BY <2>1, PixelsOf DEF Screen, Typed, Fits
      <3> QED BY <3>1 DEF FbWidth
    <2>3. Pending(d) => ~Ready(Head(d.queue))
      <3>1. d.queue \in Seq(Actions) /\ (Pending(d) => ~Ready(d.queue[1]))
        BY <2>1 DEF Screen, Typed, Blocked
      <3>2. Pending(d) => Head(d.queue) = d.queue[1]
        BY <3>1 DEF Pending
      <3> QED BY <3>1, <3>2
    <2>4. d.flushing => Pending(d)
      BY <2>1 DEF Screen, Awaited
    <2> QED BY <2>1, <2>2, <2>3, <2>4 DEF FbuTypeOK, d
  <1> QED BY <1>1, Inductive, PTL

\* Nothing overtakes an image or a frame that is still on its way: whatever waits, drawing it
\* gives what the server drew in the order it drew it (Display._renderQPush, _scanRenderQ),
\* save in the two cases that set spoiled.
THEOREM InOrder == Spec => []DrawnInOrder
  <1>1. IInv => DrawnInOrder
    BY DEF IInv, Served, Picture, Ordered, DrawnInOrder, Drawn
  <1> QED BY <1>1, Inductive, PTL

\* What is out of date in view is always damaged, so that the next flip shows it
\* (Display._damage and every change of the viewport).
THEOREM StaleDamaged == Spec => []StaleIsDamaged
  <1>1. IInv => StaleIsDamaged
    BY DEF IInv, Served, Picture, Formed, Screen, Tracked, StaleIsDamaged
  <1> QED BY <1>1, Inductive, PTL

\* When every part of every update has been handled the next one has been asked for, and a
\* size is asked for once at a time (_normalMsg, _framebufferUpdate, _requestRemoteResize).
THEOREM Asks == Spec => []UpdateAsked
  <1>1. IInv => UpdateAsked
    <2> SUFFICES ASSUME IInv PROVE UpdateAsked
      OBVIOUS
    <2>1. Asked(c) /\ Resizing(c) /\ c.requests \in 0..1
      BY DEF IInv, Served, Picture, Formed
    <2>2. ASSUME c.rects = 0, c.inbox = <<>>, ~c.cont, ~c.lost PROVE c.requests = 1
      <3>1. DOMAIN c.inbox = {}
        BY <2>2
      <3>2. c.requests # 0
        BY <2>1, <2>2, <3>1 DEF Asked
      <3> QED BY <2>1, <3>2
    <2>3. c.resizes <= 1
      BY <2>1 DEF Resizing
    <2> QED BY <2>2, <2>3 DEF UpdateAsked
  <1> QED BY <1>1, Inductive, PTL

\* What arrived waits for the display only, and the display waits for something that is on
\* its way: an image that loads, or a frame that will belong to its own chunk when it comes
\* (H264Context._pendingFrames, Display.flush).
THEOREM Waits == Spec => []WaitEnds
  <1>1. IInv => WaitEnds
    <2> SUFFICES ASSUME IInv PROVE WaitEnds
      OBVIOUS
    <2> DEFINE q == c.disp.queue
               a == Head(q)
    <2>1. Screen(c.disp) /\ Coming(c) /\ (c.inbox # <<>> => c.flushing)
      BY DEF IInv, Served, Picture, Formed
    <2>2. ASSUME Pending(c.disp), ~c.failed
          PROVE \/ a.type = "img" /\ a.state = "loading"
                \/ \E k \in c.contexts : \E i \in DOMAIN k.coder :
                     /\ a.type = "frame" /\ k.pending[i] = [payload |-> a.frame, keep |-> TRUE]
                     /\ \A j \in 1..i : k.coder[j] = k.pending[j].payload
      <3>1. q \in Seq(Actions) /\ q # <<>> /\ ~Ready(q[1])
        BY <2>1, <2>2 DEF Screen, Typed, Blocked, Pending
      <3>2. (\A k \in c.contexts : Matched(k)) /\ Promised(q, c.contexts) /\ c.contexts \subseteq Contexts
        BY <2>1, <2>2 DEF Coming
      <3> HIDE DEF q
      <3>3. 1 \in DOMAIN q /\ a = q[1] /\ a \in Actions
        BY <3>1
      <3> HIDE DEF a
      <3>4. a.type \in {"img", "frame"} /\ a.state # "ready" /\ a.state # "broken"
        BY <3>1, <3>2, <3>3 DEF Ready, Promised
      <3>5. a.state = "loading"
        BY <3>3, <3>4, ActionIs DEF States
      <3>6. CASE a.type = "frame"
        <4>1. Has(c.contexts, a.frame)
          BY <3>2, <3>3, <3>5, <3>6 DEF Promised, Loading
        <4>2. PICK k \in c.contexts : \E i \in DOMAIN k.pending : k.pending[i] = [payload |-> a.frame, keep |-> TRUE]
          BY <4>1 DEF Has, HasIn
        <4>3. PICK i \in DOMAIN k.pending : k.pending[i] = [payload |-> a.frame, keep |-> TRUE]
          BY <4>2
        <4>4. /\ Len(k.coder) = Len(k.pending) /\ \A j \in DOMAIN k.coder : k.coder[j] = k.pending[j].payload
          BY <3>2 DEF Matched
        <4>5. /\ Len(k.pending) \in Nat /\ DOMAIN k.pending = 1..Len(k.pending) /\ DOMAIN k.coder = 1..Len(k.coder)
          BY <3>2, ContextIs
        <4>6. i \in DOMAIN k.coder /\ \A j \in 1..i : j \in DOMAIN k.coder
          BY <4>3, <4>4, <4>5
        <4> QED BY <3>6, <4>3, <4>4, <4>6
      <3> QED BY <3>4, <3>5, <3>6
    <2> QED BY <2>1, <2>2 DEF WaitEnds
  <1> QED BY <1>1, Inductive, PTL
=============================================================================
