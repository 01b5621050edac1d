---------------------------- MODULE DesktopProofs ----------------------------
(***************************************************************************)
(* The window manager keeps the picture up to date, for any screen, any    *)
(* windows that fit it and any movements of the mouse.                     *)
(*                                                                         *)
(* First what a pixel shows and what a rectangle covers; then the          *)
(* invariant, kept by every step.                                          *)
(***************************************************************************)
EXTENDS Desktop, FiniteSetTheorems, SequenceTheorems, WellFoundedInduction, TLAPS

-----------------------------------------------------------------------------
(* Pixels and boxes.                                                       *)

Window == [x : Int, y : Int, width : Nat \ {0}, height : Nat \ {0}, layer : Nat]

Rectangle == [1 .. 4 -> Int]

LEMMA SizesAre ==
  DesktopAssumption => /\ Width \in Nat /\ Height \in Nat /\ TITLEBAR_H \in Nat
                       /\ CURSOR_W \in Nat /\ CURSOR_H \in Nat /\ MAX_TASKS \in Nat \ {0}
BY DEF DesktopAssumption, SizeAssumption

LEMMA BoxIs ==
  ASSUME NEW x \in Int, NEW y \in Int, NEW w \in Int, NEW h \in Int, NEW p \in Int \X Int
  PROVE  p \in Box(x, y, w, h) <=> x <= p[1] /\ p[1] < x + w /\ y <= p[2] /\ p[2] < y + h
BY DEF Box

LEMMA ScreenIs ==
  ASSUME DesktopAssumption
  PROVE  /\ Screen \subseteq Int \X Int
         /\ \A p \in Int \X Int : p \in Screen <=> /\ 0 <= p[1] /\ p[1] < Width
                                                   /\ 0 <= p[2] /\ p[2] < Height
<1>1. Screen \subseteq Int \X Int
  BY SizesAre DEF Screen, Box
<1>2. ASSUME NEW p \in Int \X Int
      PROVE  p \in Screen <=> 0 <= p[1] /\ p[1] < Width /\ 0 <= p[2] /\ p[2] < Height
  BY SizesAre, BoxIs DEF Screen
<1>. QED
  BY <1>1, <1>2

LEMMA RectIs ==
  ASSUME NEW a \in Int, NEW b \in Int, NEW c \in Int, NEW d \in Int
  PROVE  /\ <<a, b, c, d>> \in Rectangle
         /\ <<a, b, c, d>>[1] = a /\ <<a, b, c, d>>[2] = b
         /\ <<a, b, c, d>>[3] = c /\ <<a, b, c, d>>[4] = d
<1>1. <<a, b, c, d>> \in Seq(Int) /\ Len(<<a, b, c, d>>) = 4
  OBVIOUS
<1>2. <<a, b, c, d>> \in [1 .. 4 -> Int]
  BY <1>1, ElementOfSeq, LenProperties
<1>. QED
  BY <1>2 DEF Rectangle

LEMMA InsideIs ==
  ASSUME NEW r, NEW p
  PROVE  p \in Inside(r) <=> /\ p \in Screen
                             /\ r[1] <= p[1] /\ p[1] < r[3] /\ r[2] <= p[2] /\ p[2] < r[4]
BY DEF Inside

\* What a rectangle of marks covers.
LEMMA RectCovers ==
  ASSUME DesktopAssumption, NEW x \in Int, NEW y \in Int, NEW w \in Int, NEW h \in Int
  PROVE  /\ Rect(x, y, w, h) \in Rectangle
         /\ \A p \in Screen : p \in Inside(Rect(x, y, w, h)) <=>
              x <= p[1] /\ p[1] < x + w /\ y <= p[2] /\ p[2] < y + h
<1>1. /\ Rect(x, y, w, h) \in Rectangle
      /\ Rect(x, y, w, h)[1] = x /\ Rect(x, y, w, h)[2] = y
      /\ Rect(x, y, w, h)[3] = x + w /\ Rect(x, y, w, h)[4] = y + h
  BY RectIs DEF Rect
<1>. QED
  BY <1>1, InsideIs

LEMMA WindowIs ==
  ASSUME DesktopAssumption, NEW w \in Window
  PROVE  /\ w.x \in Int /\ w.y \in Int /\ w.width \in Nat /\ w.height \in Nat /\ TITLEBAR_H \in Nat
         /\ w.x - 1 \in Int /\ w.x - 2 \in Int /\ w.width + 2 \in Int /\ w.width + 4 \in Int
         /\ w.y - TITLEBAR_H \in Int /\ w.height + TITLEBAR_H \in Int
         /\ w.y - TITLEBAR_H - 1 \in Int /\ w.height + TITLEBAR_H + 2 \in Int
         /\ w.y - TITLEBAR_H - 2 \in Int /\ w.height + TITLEBAR_H + 4 \in Int
BY SizesAre DEF Window

LEMMA RectTypes ==
  ASSUME DesktopAssumption, NEW w \in Window
  PROVE  /\ WindowRect(w) \in Rectangle /\ TitledRect(w) \in Rectangle
         /\ Rect(w.x, w.y, w.width, w.height) \in Rectangle
<1>1. /\ w.x \in Int /\ w.y \in Int /\ w.width \in Int /\ w.height \in Int
      /\ w.y - TITLEBAR_H \in Int /\ w.height + TITLEBAR_H \in Int
  BY WindowIs
<1>2. WindowRect(w) \in Rectangle
  BY WindowIs, RectCovers DEF WindowRect
<1>3. TitledRect(w) \in Rectangle
  BY <1>1, RectCovers DEF TitledRect
<1>4. Rect(w.x, w.y, w.width, w.height) \in Rectangle
  BY <1>1, RectCovers
<1>. QED
  BY <1>2, <1>3, <1>4

\* What is drawn of a window lies in what is marked for it.
LEMMA BodyMarked ==
  ASSUME DesktopAssumption, NEW w \in Window, NEW p \in Screen
  PROVE  /\ Rect(w.x, w.y, w.width, w.height) \in Rectangle
         /\ p \in Body(w) => p \in Inside(Rect(w.x, w.y, w.width, w.height))
<1>1. p \in Int \X Int
  BY ScreenIs
<1>2. p \in Body(w) => w.x <= p[1] /\ p[1] < w.x + w.width /\ w.y <= p[2] /\ p[2] < w.y + w.height
  BY <1>1, WindowIs, BoxIs DEF Body
<1>. QED
  <2>1. w.x \in Int /\ w.y \in Int /\ w.width \in Int /\ w.height \in Int
    BY WindowIs
  <2>. QED
    BY <1>2, <2>1, RectCovers

LEMMA TitledMarked ==
  ASSUME DesktopAssumption, NEW w \in Window, NEW p \in Screen
  PROVE  /\ TitledRect(w) \in Rectangle
         /\ p \in Body(w) \/ p \in TitleBar(w) => p \in Inside(TitledRect(w))
<1>1. p \in Int \X Int
  BY ScreenIs
<1>2. p \in Body(w) => w.x <= p[1] /\ p[1] < w.x + w.width /\ w.y <= p[2] /\ p[2] < w.y + w.height
  BY <1>1, WindowIs, BoxIs DEF Body
<1>3. p \in TitleBar(w) => /\ w.x <= p[1] /\ p[1] < w.x + w.width
                           /\ w.y - TITLEBAR_H <= p[2] /\ p[2] < w.y - TITLEBAR_H + TITLEBAR_H
  BY <1>1, WindowIs, BoxIs DEF TitleBar
<1>4. /\ TitledRect(w) \in Rectangle
      /\ p \in Inside(TitledRect(w)) <=>
           /\ w.x <= p[1] /\ p[1] < w.x + w.width
           /\ w.y - TITLEBAR_H <= p[2] /\ p[2] < w.y - TITLEBAR_H + (w.height + TITLEBAR_H)
  <2>1. TitledRect(w) = Rect(w.x, w.y - TITLEBAR_H, w.width, w.height + TITLEBAR_H)
    BY DEF TitledRect
  <2>2. w.x \in Int /\ w.y - TITLEBAR_H \in Int /\ w.width \in Int /\ w.height + TITLEBAR_H \in Int
    BY WindowIs
  <2>. QED
    BY <2>1, <2>2, RectCovers
<1>. QED
  BY <1>1, <1>2, <1>3, <1>4, WindowIs

LEMMA BorderMarked ==
  ASSUME DesktopAssumption, NEW w \in Window, NEW p \in Screen
  PROVE  /\ WindowRect(w) \in Rectangle
         /\ p \in WithBorder(w) => p \in Inside(WindowRect(w))
<1>1. p \in Int \X Int
  BY ScreenIs
<1>2. p \in WithBorder(w) =>
           /\ w.x - 1 <= p[1] /\ p[1] < w.x - 1 + (w.width + 2)
           /\ w.y - TITLEBAR_H - 1 <= p[2]
           /\ p[2] < w.y - TITLEBAR_H - 1 + (w.height + TITLEBAR_H + 2)
  BY <1>1, WindowIs, BoxIs DEF WithBorder
<1>3. /\ WindowRect(w) \in Rectangle
      /\ p \in Inside(WindowRect(w)) <=>
           /\ w.x - 2 <= p[1] /\ p[1] < w.x - 2 + (w.width + 4)
           /\ w.y - TITLEBAR_H - 2 <= p[2]
           /\ p[2] < w.y - TITLEBAR_H - 2 + (w.height + TITLEBAR_H + 4)
  BY WindowIs, RectCovers DEF WindowRect
<1>. QED
  BY <1>1, <1>2, <1>3, WindowIs

\* And the cursor in what is marked when it moves.
LEMMA CursorMarked ==
  ASSUME DesktopAssumption, NEW at \in Int \X Int, NEW p \in Screen
  PROVE  /\ CursorRect(at) \in Rectangle
         /\ p \in CursorBox(at) => p \in Inside(CursorRect(at))
<1>1. p \in Int \X Int /\ at[1] \in Int /\ at[2] \in Int
  BY ScreenIs
<1>2. /\ CURSOR_W \in Nat /\ CURSOR_H \in Nat
      /\ at[1] - 1 \in Int /\ at[2] - 1 \in Int /\ at[1] - 2 \in Int /\ at[2] - 2 \in Int
      /\ CURSOR_W + 1 \in Int /\ CURSOR_H - 1 \in Int /\ CURSOR_W + 4 \in Int /\ CURSOR_H + 4 \in Int
  BY <1>1, SizesAre
<1>3. p \in CursorBox(at) => /\ at[1] - 1 <= p[1] /\ p[1] < at[1] - 1 + (CURSOR_W + 1)
                             /\ at[2] - 1 <= p[2] /\ p[2] < at[2] - 1 + (CURSOR_H - 1)
  BY <1>1, <1>2, BoxIs DEF CursorBox
<1>4. /\ CursorRect(at) \in Rectangle
      /\ p \in Inside(CursorRect(at)) <=>
           /\ at[1] - 2 <= p[1] /\ p[1] < at[1] - 2 + (CURSOR_W + 4)
           /\ at[2] - 2 <= p[2] /\ p[2] < at[2] - 2 + (CURSOR_H + 4)
  BY <1>1, <1>2, RectCovers DEF CursorRect
<1>. QED
  BY <1>1, <1>2, <1>3, <1>4

\* The whole screen is a rectangle.
LEMMA WholeScreenIs ==
  DesktopAssumption => WholeScreen \in Rectangle /\ Screen \subseteq Inside(WholeScreen)
<1>. SUFFICES ASSUME DesktopAssumption
              PROVE  WholeScreen \in Rectangle /\ Screen \subseteq Inside(WholeScreen)
  OBVIOUS
<1>1. Width \in Int /\ Height \in Int /\ 0 \in Int
  BY SizesAre
<1>2. ASSUME NEW p \in Screen PROVE p \in Inside(WholeScreen)
  <2>1. p \in Int \X Int /\ 0 <= p[1] /\ p[1] < Width /\ 0 <= p[2] /\ p[2] < Height
    BY ScreenIs
  <2>. QED
    BY <1>1, <2>1, RectCovers DEF WholeScreen
<1>. QED
  BY <1>1, <1>2, RectCovers DEF WholeScreen

-----------------------------------------------------------------------------
(* Marks only add to what will be redrawn.                                 *)

Damage == [have : BOOLEAN, rect : Rectangle]

Covered(d) == IF d.have THEN Inside(d.rect) ELSE {}

LEMMA WidenedCovers ==
  ASSUME DesktopAssumption, NEW r \in Rectangle, NEW s \in Rectangle
  PROVE  /\ Widened(r, s) \in Rectangle
         /\ Widened(r, s)[1] <= r[1] /\ Widened(r, s)[1] <= s[1]
         /\ Widened(r, s)[2] <= r[2] /\ Widened(r, s)[2] <= s[2]
         /\ Widened(r, s)[3] >= r[3] /\ Widened(r, s)[3] >= s[3]
         /\ Widened(r, s)[4] >= r[4] /\ Widened(r, s)[4] >= s[4]
         /\ Inside(r) \subseteq Inside(Widened(r, s)) /\ Inside(s) \subseteq Inside(Widened(r, s))
<1>1. /\ r[1] \in Int /\ r[2] \in Int /\ r[3] \in Int /\ r[4] \in Int
      /\ s[1] \in Int /\ s[2] \in Int /\ s[3] \in Int /\ s[4] \in Int
  BY DEF Rectangle
<1>2. \A a, b \in Int : /\ Lower(a, b) \in Int /\ Lower(a, b) <= a /\ Lower(a, b) <= b
                       /\ Upper(a, b) \in Int /\ Upper(a, b) >= a /\ Upper(a, b) >= b
  BY DEF Lower, Upper
<1>3. /\ Widened(r, s) \in Rectangle
      /\ Widened(r, s)[1] = Lower(r[1], s[1]) /\ Widened(r, s)[2] = Lower(r[2], s[2])
      /\ Widened(r, s)[3] = Upper(r[3], s[3]) /\ Widened(r, s)[4] = Upper(r[4], s[4])
  <2>1. /\ Lower(r[1], s[1]) \in Int /\ Lower(r[2], s[2]) \in Int
        /\ Upper(r[3], s[3]) \in Int /\ Upper(r[4], s[4]) \in Int
    BY <1>1, <1>2
  <2>. QED
    BY <2>1, RectIs DEF Widened
<1>4. /\ Lower(r[1], s[1]) <= r[1] /\ Lower(r[1], s[1]) <= s[1] /\ Lower(r[1], s[1]) \in Int
      /\ Lower(r[2], s[2]) <= r[2] /\ Lower(r[2], s[2]) <= s[2] /\ Lower(r[2], s[2]) \in Int
      /\ Upper(r[3], s[3]) >= r[3] /\ Upper(r[3], s[3]) >= s[3] /\ Upper(r[3], s[3]) \in Int
      /\ Upper(r[4], s[4]) >= r[4] /\ Upper(r[4], s[4]) >= s[4] /\ Upper(r[4], s[4]) \in Int
  BY <1>1, <1>2
<1>5. ASSUME NEW p \in Screen PROVE p \in Inside(r) \/ p \in Inside(s) => p \in Inside(Widened(r, s))
  <2>1. p[1] \in Int /\ p[2] \in Int
    BY ScreenIs
  <2>. QED
    BY <1>1, <1>3, <1>4, <2>1, InsideIs
<1>. QED
  BY <1>3, <1>4, <1>5 DEF Inside

LEMMA MarkAdds ==
  ASSUME DesktopAssumption, NEW d \in Damage, NEW r \in Rectangle
  PROVE  /\ add_dirty(d, r) \in Damage /\ add_dirty(d, r).have
         /\ Covered(d) \subseteq Covered(add_dirty(d, r))
         /\ Inside(r) \subseteq Covered(add_dirty(d, r))
BY WidenedCovers DEF add_dirty, Damage, Covered

\* Clipping leaves what is on the screen.
LEMMA ClippedCovers ==
  ASSUME DesktopAssumption, NEW r \in Rectangle
  PROVE  Clipped(r) \in Rectangle /\ Inside(Clipped(r)) = Inside(r)
<1>1. /\ r[1] \in Int /\ r[2] \in Int /\ r[3] \in Int /\ r[4] \in Int
      /\ Width \in Int /\ Height \in Int
  BY SizesAre DEF Rectangle
<1>2. /\ Clipped(r) \in Rectangle
      /\ Clipped(r)[1] = Upper(r[1], 0) /\ Clipped(r)[2] = Upper(r[2], 0)
      /\ Clipped(r)[3] = Lower(r[3], Width) /\ Clipped(r)[4] = Lower(r[4], Height)
  <2>1. /\ Upper(r[1], 0) \in Int /\ Upper(r[2], 0) \in Int
        /\ Lower(r[3], Width) \in Int /\ Lower(r[4], Height) \in Int
    BY <1>1 DEF Lower, Upper
  <2>. QED
    BY <2>1, RectIs DEF Clipped
<1>3. ASSUME NEW p \in Screen PROVE p \in Inside(Clipped(r)) <=> p \in Inside(r)
  <2>1. p \in Int \X Int /\ 0 <= p[1] /\ p[1] < Width /\ 0 <= p[2] /\ p[2] < Height
    BY ScreenIs
  <2>2. p[1] \in Int /\ p[2] \in Int
    BY <2>1
  <2>. QED
    BY <1>1, <1>2, <2>1, <2>2, InsideIs DEF Lower, Upper
<1>. QED
  BY <1>2, <1>3 DEF Inside

-----------------------------------------------------------------------------
(* What a pixel shows.                                                     *)

\* Windows whose layers differ, all below n.
Layered(ws, n) ==
  /\ ws \in Seq(Window) /\ n \in Nat
  /\ \A i \in DOMAIN ws : ws[i].layer < n
  /\ \A i, j \in DOMAIN ws : ws[i].layer = ws[j].layer => i = j

Covers(ws, p) == {i \in DOMAIN ws : p \in WithBorder(ws[i])}

IsTop(ws, p, t) == t \in Covers(ws, p) /\ \A j \in Covers(ws, p) : ws[j].layer <= ws[t].layer

What(w, t, p) == IF p \in Body(w) THEN <<t, "body">>
                 ELSE IF p \in TitleBar(w) THEN <<t, "title">> ELSE <<t, "border">>

LEMMA SlotIs ==
  ASSUME NEW ws, NEW n, Layered(ws, n), NEW i \in DOMAIN ws
  PROVE  ws[i] \in Window /\ ws[i].layer \in Nat /\ i \in Nat /\ i > 0
<1>1. ws \in Seq(Window)
  BY DEF Layered
<1>2. i \in 1 .. Len(ws) /\ Len(ws) \in Nat
  BY <1>1, LenProperties
<1>3. ws[i] \in Window
  BY <1>1, <1>2, ElementOfSeq
<1>. QED
  BY <1>2, <1>3 DEF Window

\* Of windows with different layers one is in front.
LEMMA FrontExists ==
  ASSUME NEW ws, NEW n, Layered(ws, n), NEW S, S \subseteq DOMAIN ws, S # {}
  PROVE  \E t \in S : \A j \in S : ws[j].layer <= ws[t].layer
<1> DEFINE depths == {n - ws[i].layer : i \in S}
<1>1. depths \subseteq Nat /\ depths # {}
  <2>1. ASSUME NEW i \in S PROVE n - ws[i].layer \in Nat
    <3>1. ws[i].layer \in Nat /\ ws[i].layer < n /\ n \in Nat
      BY SlotIs DEF Layered
    <3>. QED
      BY <3>1
  <2>. QED
    BY <2>1
<1>. HIDE DEF depths
<1>2. PICK x \in depths : \A y \in depths : ~(<<y, x>> \in OpToRel(<, Nat))
  BY <1>1, NatLessThanWellFounded, WFMin
<1>3. PICK t \in S : x = n - ws[t].layer
  BY <1>2 DEF depths
<1>4. ASSUME NEW j \in S PROVE ws[j].layer <= ws[t].layer
  <2> DEFINE y == n - ws[j].layer
  <2>1. y \in depths /\ y \in Nat /\ x \in Nat
    BY <1>1, <1>2 DEF depths
  <2>2. ~(y < x)
    BY <1>2, <2>1 DEF OpToRel
  <2>3. ws[j].layer \in Nat /\ ws[t].layer \in Nat /\ n \in Nat
    BY SlotIs DEF Layered
  <2>. QED
    BY <1>3, <2>1, <2>2, <2>3
<1>. QED
  BY <1>3, <1>4

LEMMA ShowsIs ==
  ASSUME NEW ws, NEW n, Layered(ws, n), NEW p
  PROVE  /\ Covers(ws, p) = {} => Shows(ws, p) = <<0, "desktop">>
         /\ Covers(ws, p) # {} => \E t : IsTop(ws, p, t)
         /\ \A t : IsTop(ws, p, t) => Shows(ws, p) = What(ws[t], t, p)
<1>1. Covers(ws, p) = {} => Shows(ws, p) = <<0, "desktop">>
  BY DEF Shows, Covers
<1>2. Covers(ws, p) # {} => \E t : IsTop(ws, p, t)
  BY FrontExists DEF Covers, IsTop
<1>3. ASSUME NEW t, IsTop(ws, p, t) PROVE Shows(ws, p) = What(ws[t], t, p)
  <2> DEFINE inFront(i) == \A j \in Covers(ws, p) \ {i} : DrawnBefore(ws, j, i)
  <2>1. t \in Covers(ws, p) /\ inFront(t)
    <3>1. ASSUME NEW j \in Covers(ws, p) \ {t} PROVE DrawnBefore(ws, j, t)
      <4>1. j \in DOMAIN ws /\ t \in DOMAIN ws /\ ws[j].layer # ws[t].layer /\ ws[j].layer <= ws[t].layer
        BY <1>3, <3>1 DEF IsTop, Covers, Layered
      <4>. QED
        BY <4>1, SlotIs DEF DrawnBefore
    <3>. QED
      BY <1>3, <3>1 DEF IsTop
  <2>2. ASSUME NEW i \in Covers(ws, p), inFront(i) PROVE i = t
    <3>1. i \in DOMAIN ws /\ t \in DOMAIN ws
      BY <1>3 DEF IsTop, Covers
    <3>2. i # t => DrawnBefore(ws, t, i) /\ DrawnBefore(ws, i, t)
      BY <2>1, <2>2
    <3>. QED
      BY <3>1, <3>2, SlotIs DEF DrawnBefore
  <2>3. (CHOOSE i \in Covers(ws, p) : inFront(i)) = t
    BY <2>1, <2>2
  <2>. QED
    BY <2>1, <2>3 DEF Shows, Covers, What
<1>. QED
  BY <1>1, <1>2, <1>3

\* What is shown there is there.
LEMMA ShownIsThere ==
  ASSUME NEW ws, NEW n, Layered(ws, n), NEW p
  PROVE  /\ Shows(ws, p)[1] # 0 => Shows(ws, p)[1] \in DOMAIN ws
         /\ \A i : Shows(ws, p) = <<i, "body">> => i \in DOMAIN ws /\ p \in Body(ws[i])
         /\ \A i : Shows(ws, p) = <<i, "title">> => i \in DOMAIN ws /\ p \in TitleBar(ws[i])
         /\ Shows(ws, p)[1] # 0 /\ Shows(ws, p)[2] # "border" =>
              \/ Shows(ws, p) = <<Shows(ws, p)[1], "body">>
              \/ Shows(ws, p) = <<Shows(ws, p)[1], "title">>
<1>1. CASE Covers(ws, p) = {}
  BY <1>1, ShowsIs
<1>2. CASE Covers(ws, p) # {}
  <2>1. PICK t : IsTop(ws, p, t)
    BY <1>2, ShowsIs
  <2>2. t \in DOMAIN ws /\ Shows(ws, p) = What(ws[t], t, p)
    BY <2>1, ShowsIs DEF IsTop, Covers
  <2>. QED
    BY <2>2 DEF What
<1>. QED
  BY <1>1, <1>2

\* Where the same windows are, the same is shown.
LEMMA SameShown ==
  ASSUME NEW ws, NEW n, Layered(ws, n), NEW vs, NEW m, Layered(vs, m), NEW p,
         Covers(vs, p) = Covers(ws, p), \A i \in Covers(ws, p) : vs[i] = ws[i]
  PROVE  Shows(vs, p) = Shows(ws, p)
<1>1. CASE Covers(ws, p) = {}
  BY <1>1, ShowsIs
<1>2. CASE Covers(ws, p) # {}
  <2>1. PICK t : IsTop(ws, p, t)
    BY <1>2, ShowsIs
  <2>2. IsTop(vs, p, t) /\ vs[t] = ws[t]
    BY <2>1 DEF IsTop
  <2>. QED
    BY <2>1, <2>2, ShowsIs
<1>. QED
  BY <1>1, <1>2

\* A window that is placed anew, or raised, changes what is shown where it
\* was and where it is.
LEMMA ChangedWithin ==
  ASSUME NEW ws, NEW n, Layered(ws, n), NEW vs, NEW m, Layered(vs, m), NEW h \in DOMAIN ws,
         DOMAIN vs = DOMAIN ws, \A i \in DOMAIN ws \ {h} : vs[i] = ws[i],
         NEW p, Shows(vs, p) # Shows(ws, p)
  PROVE  p \in WithBorder(ws[h]) \/ p \in WithBorder(vs[h])
<1>. SUFFICES ASSUME p \notin WithBorder(ws[h]), p \notin WithBorder(vs[h]) PROVE FALSE
  OBVIOUS
<1>1. Covers(vs, p) = Covers(ws, p) /\ \A i \in Covers(ws, p) : vs[i] = ws[i]
  BY DEF Covers
<1>. QED
  BY <1>1, SameShown

\* A new window is in front and changes what is shown within it.
LEMMA NewInFront ==
  ASSUME NEW ws, NEW n, Layered(ws, n), NEW w, Layered(Append(ws, w), n + 1), w.layer = n, NEW p
  PROVE  IF p \in WithBorder(w) THEN Shows(Append(ws, w), p) = What(w, Len(ws) + 1, p)
         ELSE Shows(Append(ws, w), p) = Shows(ws, p)
<1> DEFINE vs == Append(ws, w)
           k == Len(ws) + 1
<1>1. /\ DOMAIN vs = DOMAIN ws \cup {k} /\ k \notin DOMAIN ws
      /\ vs[k] = w /\ \A i \in DOMAIN ws : vs[i] = ws[i]
  <2>1. ws \in Seq(Window) /\ vs \in Seq(Window) /\ Len(vs) = k
    BY AppendProperties DEF Layered
  <2>. QED
    BY <2>1, AppendProperties, LenProperties DEF Layered
<1>. HIDE DEF vs, k
<1>2. CASE p \in WithBorder(w)
  <2>1. IsTop(vs, p, k)
    <3>1. ASSUME NEW j \in Covers(vs, p) PROVE vs[j].layer <= vs[k].layer
      <4>1. CASE j = k
        <5>1. vs[k].layer = n /\ n \in Nat
          BY <1>1 DEF Layered
        <5>. QED
          BY <4>1, <5>1
      <4>2. CASE j \in DOMAIN ws
        BY <1>1, <4>2, SlotIs DEF Layered
      <4>. QED
        BY <1>1, <3>1, <4>1, <4>2 DEF Covers
    <3>. QED
      BY <1>1, <1>2, <3>1 DEF IsTop, Covers
  <2>. QED
    BY <1>1, <1>2, <2>1, ShowsIs DEF vs, k
<1>3. CASE p \notin WithBorder(w)
  <2>1. Covers(vs, p) = Covers(ws, p) /\ \A i \in Covers(ws, p) : vs[i] = ws[i]
    BY <1>1, <1>3 DEF Covers
  <2>. QED
    BY <1>3, <2>1, SameShown DEF vs
<1>. QED
  BY <1>2, <1>3

-----------------------------------------------------------------------------
(* The invariant.                                                          *)

Compositor == [pc : {"created", "read", "loop"}, at : Int \X Int, left : BOOLEAN]

OnScreen(w) == w.x \in 0 .. Width - w.width /\ w.y \in TITLEBAR_H .. Height - w.height

WindowsOK == Layered(windows, window_count) /\ \A i \in Slots : OnScreen(windows[i])

NumbersOK ==
  /\ {console_window, calc_window, xeyes_window, dragging_window} \subseteq {0} \cup Slots
  /\ tasks \in 0 .. MAX_TASKS - 1
  /\ drag_offset \in Int \X Int
  /\ mouse_x \in 0 .. Width - 1 /\ mouse_y \in 0 .. Height - 1
  /\ left_button \in BOOLEAN /\ early \in BOOLEAN
  /\ packets \in Nat /\ keys \in Nat /\ clicks \in Nat /\ hits \in Nat

TasksOK ==
  /\ compositors \in Seq(Compositor)
  /\ calculator \in [pc : {"off", "created", "loop"}, left : BOOLEAN]
  /\ calculator.pc # "off" => calc_window # 0
  /\ xeyes \in [pc : {"off", "created", "test", "fresh", "grow", "hlt"},
                rect : Rectangle, next : 1 .. 5]
  /\ xeyes.pc # "off" => xeyes_window # 0
  /\ xeyes.pc = "test" => xeyes.next = 1
  /\ xeyes.pc = "grow" => xeyes.next # 5

PictureTypes ==
  /\ have_dirty \in BOOLEAN /\ overtaken \in BOOLEAN /\ dirty \in Rectangle
  /\ cursor \in Int \X Int
  /\ stale \subseteq Screen /\ ghost \subseteq Screen

\* Nothing is counted for a click that is not there: one that a poll has yet
\* to see is still to be counted.
ClicksOK == hits + (IF left_button /\ ~calculator.left THEN 1 ELSE 0) <= clicks

\* How far xeyes has got with its mark.
Written(k) == IF xeyes.pc = "fresh" THEN dirty[k] = xeyes.rect[k]
              ELSE IF k <= 2 THEN dirty[k] <= xeyes.rect[k] ELSE dirty[k] >= xeyes.rect[k]

MarkingOK == /\ xeyes.pc = "fresh" => ~have_dirty
             /\ xeyes.pc = "grow" => have_dirty
             /\ Marking => \A k \in 1 .. xeyes.next - 1 : Written(k)

\* A pixel that has changed and is not marked is one nobody claims; xeyes
\* has it in the mark it is about to make.
StaleOK(p) ==
  /\ NotClaimed(p)
  /\ (xeyes.pc = "test" \/ Marking) /\ Shows(windows, p) = <<xeyes_window, "body">> =>
       p \in Inside(xeyes.rect)

MarksOK == ~overtaken => MarkingOK /\ \A p \in stale \ Dirty : StaleOK(p)

\* A compositor knows where the cursor is that it drew.
CursorOK ==
  ~early =>
    /\ \A c \in DOMAIN compositors :
         compositors[c].pc = "read" => compositors[c].at = <<mouse_x, mouse_y>>
    /\ Len(compositors) <= 1 =>
         \A c \in DOMAIN compositors : compositors[c].pc = "loop" => compositors[c].at = cursor

Types == WindowsOK /\ NumbersOK /\ TasksOK /\ PictureTypes

IInv == Types /\ ClicksOK /\ MarksOK /\ CursorOK /\ NoGhostCursor

-----------------------------------------------------------------------------
(* Windows that open, rise and move.                                       *)

LEMMA Replaced ==
  ASSUME NEW ws, NEW n, Layered(ws, n), NEW h \in DOMAIN ws, NEW w \in Window, NEW m \in Nat,
         \/ m = n /\ w.layer = ws[h].layer
         \/ m = n + 1 /\ w.layer = n
  PROVE  /\ Layered([ws EXCEPT ![h] = w], m)
         /\ DOMAIN [ws EXCEPT ![h] = w] = DOMAIN ws
         /\ [ws EXCEPT ![h] = w][h] = w
         /\ \A i \in DOMAIN ws \ {h} : [ws EXCEPT ![h] = w][i] = ws[i]
<1> DEFINE vs == [ws EXCEPT ![h] = w]
<1>1. ws \in Seq(Window) /\ n \in Nat /\ h \in 1 .. Len(ws)
  BY LenProperties DEF Layered
<1>2. vs \in Seq(Window)
  BY <1>1, ExceptSeq
<1>3. /\ DOMAIN vs = DOMAIN ws /\ vs[h] = w
      /\ \A i \in DOMAIN ws \ {h} : vs[i] = ws[i]
  OBVIOUS
<1>. HIDE DEF vs
<1>4. ASSUME NEW i \in DOMAIN vs PROVE vs[i].layer < m
  <2>1. i \in DOMAIN ws /\ ws[i].layer \in Nat /\ ws[i].layer < n /\ ws[h].layer < n
    BY <1>3, SlotIs DEF Layered
  <2>2. CASE i = h
    <3>1. vs[i].layer = w.layer /\ ws[h].layer = ws[i].layer
      BY <1>3, <2>2
    <3>. QED
      BY <1>1, <2>1, <3>1
  <2>3. CASE i # h
    BY <1>1, <1>3, <2>1, <2>3
  <2>. QED
    BY <2>2, <2>3
<1>5. ASSUME NEW i \in DOMAIN vs, NEW j \in DOMAIN vs, vs[i].layer = vs[j].layer, i # j PROVE FALSE
  <2>1. \A k \in DOMAIN ws : ws[k].layer < n /\ ws[k].layer \in Nat
    BY SlotIs DEF Layered
  <2>2. \A k, l \in DOMAIN ws : ws[k].layer = ws[l].layer => k = l
    BY DEF Layered
  <2>3. CASE i = h
    BY <1>1, <1>3, <1>5, <2>1, <2>2, <2>3
  <2>4. CASE j = h
    BY <1>1, <1>3, <1>5, <2>1, <2>2, <2>4
  <2>5. CASE i # h /\ j # h
    BY <1>3, <1>5, <2>2, <2>5
  <2>. QED
    BY <2>3, <2>4, <2>5
<1>6. Layered(vs, m)
  BY <1>2, <1>4, <1>5 DEF Layered
<1>. QED
  BY <1>3, <1>6 DEF vs

\* A window where a command opens it.
Opened(w) == [x |-> w.x, y |-> w.y, width |-> w.width, height |-> w.height, layer |-> window_count]

LEMMA PlacesAre ==
  ASSUME DesktopAssumption, NEW w \in {Terminal, Calculator, XEyes}
  PROVE  /\ w.x \in Nat /\ w.y \in Nat /\ w.width \in Nat \ {0} /\ w.height \in Nat \ {0}
         /\ w.y >= TITLEBAR_H /\ w.x + w.width <= Width /\ w.y + w.height <= Height
BY DEF DesktopAssumption, PlaceAssumption, Placed

LEMMA WindowOpens ==
  ASSUME DesktopAssumption, WindowsOK, NEW w \in {Terminal, Calculator, XEyes}, wm_create_window(w)
  PROVE  /\ WindowsOK'
         /\ windows' = Append(windows, Opened(w)) /\ Opened(w) \in Window
         /\ window_count' = window_count + 1
         /\ Slots' = Slots \cup {Len(windows) + 1}
         /\ windows'[Len(windows) + 1] = Opened(w)
         /\ \A i \in Slots : windows'[i] = windows[i]
<1> DEFINE o == Opened(w)
           k == Len(windows) + 1
<1>1. /\ windows' = Append(windows, o) /\ window_count' = window_count + 1
  BY DEF wm_create_window, Opened
<1>2. windows \in Seq(Window) /\ window_count \in Nat /\ Len(windows) \in Nat
  BY LenProperties DEF WindowsOK, Layered
<1>3. o \in Window /\ OnScreen(o) /\ o.layer = window_count
  <2>1. o \in Window /\ o.x = w.x /\ o.y = w.y /\ o.width = w.width /\ o.height = w.height /\ o.layer = window_count
    <3>1. w.x \in Int /\ w.y \in Int /\ w.width \in Nat \ {0} /\ w.height \in Nat \ {0}
      BY PlacesAre
    <3>. QED
      BY <1>2, <3>1 DEF Opened, Window
  <2>. QED
    BY <2>1, PlacesAre, SizesAre DEF OnScreen
<1>. HIDE DEF o
<1>4. /\ windows' \in Seq(Window) /\ Len(windows') = k /\ windows'[k] = o
      /\ \A i \in 1 .. Len(windows) : windows'[i] = windows[i]
  BY <1>1, <1>2, <1>3, AppendProperties
<1>5. /\ Slots' = Slots \cup {k} /\ k \notin Slots
      /\ windows'[k] = o /\ \A i \in Slots : windows'[i] = windows[i]
  BY <1>2, <1>4, LenProperties DEF Slots
<1>. HIDE DEF k
<1>6. \A i \in Slots : windows[i].layer < window_count /\ windows[i].layer \in Nat
  BY SlotIs DEF WindowsOK, Layered, Slots
<1>7. ASSUME NEW i \in Slots', NEW j \in Slots', windows'[i].layer = windows'[j].layer PROVE i = j
  <2>1. \A a, b \in Slots : windows[a].layer = windows[b].layer => a = b
    BY DEF WindowsOK, Layered, Slots
  <2>. QED
    BY <1>2, <1>3, <1>5, <1>6, <1>7, <2>1
<1>8. \A i \in Slots' : windows'[i].layer < window_count' /\ OnScreen(windows'[i])
  <2>1. \A i \in Slots : OnScreen(windows[i])
    BY DEF WindowsOK
  <2> SUFFICES ASSUME NEW i \in Slots'
               PROVE  windows'[i].layer < window_count' /\ OnScreen(windows'[i])
    OBVIOUS
  <2>2. CASE i = k
    <3>1. windows'[i] = o
      BY <1>5, <2>2
    <3>2. o.layer < window_count + 1
      BY <1>2, <1>3
    <3>. QED
      BY <1>1, <1>3, <3>1, <3>2
  <2>3. CASE i \in Slots
    <3>1. windows'[i] = windows[i] /\ window_count' = window_count + 1
      BY <1>1, <1>5, <2>3
    <3>2. windows[i].layer < window_count + 1
      BY <1>2, <1>6, <2>3
    <3>. QED
      BY <2>1, <2>3, <3>1, <3>2
  <2>. QED
    BY <1>5, <2>2, <2>3
<1>9. WindowsOK'
  BY <1>1, <1>2, <1>4, <1>7, <1>8 DEF WindowsOK, Layered, Slots
<1>. QED
  BY <1>1, <1>3, <1>5, <1>9 DEF o, k

\* Where a press takes hold of a window.
Grips(p) == {i \in Slots : p \in TitleBar(windows[i]) \ CloseButton(windows[i])}

LEMMA HitIs ==
  ASSUME WindowsOK, NEW p
  PROVE  IF Grips(p) = {} THEN wm_titlebar_hit_test(p) = 0
         ELSE /\ wm_titlebar_hit_test(p) \in Grips(p)
              /\ \A j \in Grips(p) : windows[j].layer <= windows[wm_titlebar_hit_test(p)].layer
<1>1. CASE Grips(p) = {}
  BY <1>1 DEF wm_titlebar_hit_test, Grips
<1>2. CASE Grips(p) # {}
  <2> DEFINE first(i) == \A j \in Grips(p) \ {i} :
                \/ windows[i].layer > windows[j].layer
                \/ windows[i].layer = windows[j].layer /\ i < j
  <2>1. Layered(windows, window_count) /\ Grips(p) \subseteq DOMAIN windows
    BY DEF WindowsOK, Grips, Slots
  <2>2. PICK t \in Grips(p) : \A j \in Grips(p) : windows[j].layer <= windows[t].layer
    BY <1>2, <2>1, FrontExists
  <2>3. \A i \in Grips(p) : windows[i].layer \in Nat
    BY <2>1, SlotIs
  <2>4. \A i, j \in Grips(p) : windows[i].layer = windows[j].layer => i = j
    BY <2>1 DEF Layered
  <2>5. first(t)
    BY <2>2, <2>3, <2>4
  <2>6. ASSUME NEW i \in Grips(p), first(i) PROVE \A j \in Grips(p) : windows[j].layer <= windows[i].layer
    BY <2>3, <2>4, <2>6
  <2>7. wm_titlebar_hit_test(p) = CHOOSE i \in Grips(p) : first(i)
    BY <1>2 DEF wm_titlebar_hit_test, Grips
  <2>8. wm_titlebar_hit_test(p) \in Grips(p) /\ first(wm_titlebar_hit_test(p))
    BY <2>2, <2>5, <2>7
  <2>. QED
    BY <1>2, <2>6, <2>8
<1>. QED
  BY <1>1, <1>2

\* A window that was moved is on the screen, its size and layer as before.
LEMMA DraggedIs ==
  ASSUME DesktopAssumption, NEW w \in Window, OnScreen(w), NEW p, p[1] \in Int, p[2] \in Int
  PROVE  DraggedTo(w, p) \in Window /\ OnScreen(DraggedTo(w, p)) /\ DraggedTo(w, p).layer = w.layer
<1> DEFINE a == Lower(Upper(p[1], 0), Width - w.width)
           b == Lower(Upper(p[2], TITLEBAR_H), Height - w.height)
<1>1. /\ Width \in Nat /\ Height \in Nat /\ TITLEBAR_H \in Nat
      /\ w.width \in Nat \ {0} /\ w.height \in Nat \ {0} /\ w.layer \in Nat
  BY SizesAre DEF Window
<1>2. 0 <= Width - w.width /\ TITLEBAR_H <= Height - w.height
  BY <1>1 DEF OnScreen, Window
<1>3. a \in 0 .. Width - w.width /\ b \in TITLEBAR_H .. Height - w.height
  BY <1>1, <1>2 DEF Lower, Upper
<1>4. DraggedTo(w, p) = [w EXCEPT !.x = a, !.y = b]
  BY DEF DraggedTo
<1>. HIDE DEF a, b
<1>5. /\ DraggedTo(w, p) \in Window /\ DraggedTo(w, p).layer = w.layer
      /\ DraggedTo(w, p).x = a /\ DraggedTo(w, p).y = b
      /\ DraggedTo(w, p).width = w.width /\ DraggedTo(w, p).height = w.height
  <2>1. a \in Int /\ b \in Int
    BY <1>1, <1>3
  <2>. QED
    BY <1>4, <2>1 DEF Window
<1>. QED
  BY <1>3, <1>5 DEF OnScreen

LEMMA TwoMarks ==
  ASSUME DesktopAssumption, NEW d \in Damage, NEW changed \in BOOLEAN,
         NEW r, NEW s, changed => r \in Rectangle /\ s \in Rectangle
  PROVE  /\ MarkChange(d, changed, r, s) \in Damage
         /\ Covered(d) \subseteq Covered(MarkChange(d, changed, r, s))
         /\ changed => /\ Inside(r) \subseteq Covered(MarkChange(d, changed, r, s))
                       /\ Inside(s) \subseteq Covered(MarkChange(d, changed, r, s))
<1>1. CASE changed
  <2>1. /\ add_dirty(d, r) \in Damage /\ Covered(d) \subseteq Covered(add_dirty(d, r))
        /\ Inside(r) \subseteq Covered(add_dirty(d, r))
    BY <1>1, MarkAdds
  <2> DEFINE e == add_dirty(d, r)
  <2>. HIDE DEF e
  <2>2. /\ add_dirty(e, s) \in Damage /\ Covered(e) \subseteq Covered(add_dirty(e, s))
        /\ Inside(s) \subseteq Covered(add_dirty(e, s))
    BY <1>1, <2>1, MarkAdds DEF e
  <2>. QED
    BY <1>1, <2>1, <2>2 DEF MarkChange, e
<1>2. CASE ~changed
  BY <1>2 DEF MarkChange
<1>. QED
  BY <1>1, <1>2

LEMMA DirtyIs == Types => Marked \in Damage /\ Dirty = Covered(Marked)
BY DEF Types, PictureTypes, Marked, Damage, Dirty, Covered

-----------------------------------------------------------------------------
(* One turn of a compositor: what changes on the screen is painted.        *)

Mouse == <<mouse_x, mouse_y>>

\* d is the damage that is painted and forgotten.
FrameEffect(c, d) ==
  /\ d \in Damage /\ Dirty \subseteq Covered(d)
  /\ have_dirty' = FALSE /\ dirty' \in Rectangle
  /\ WindowsOK' /\ Slots' = Slots
  /\ dragging_window' \in {0} \cup Slots /\ drag_offset' \in Int \X Int
  /\ compositors' = [compositors EXCEPT ![c] = [pc |-> "loop", at |-> Mouse, left |-> left_button]]
  /\ cursor' = Mouse
  /\ stale' = (stale \cup Rearranged(windows, windows')) \ Covered(d)
  /\ Rearranged(windows, windows') \subseteq Covered(d)
  /\ ghost' = (ghost \cup IF cursor = Mouse THEN {}
                          ELSE Screen \cap (CursorBox(cursor) \cup CursorBox(Mouse))) \ Covered(d)
  /\ compositors[c].at # Mouse =>
       Screen \cap (CursorBox(compositors[c].at) \cup CursorBox(Mouse)) \subseteq Covered(d)

LEMMA FrameIs ==
  ASSUME DesktopAssumption, Types, NEW c \in DOMAIN compositors, Frame(c)
  PROVE  \E d : FrameEffect(c, d)
<1> DEFINE now == <<mouse_x, mouse_y>>
           at == compositors[c].at
           hit == IF left_button /\ ~compositors[c].left THEN wm_titlebar_hit_test(now) ELSE 0
           held == IF hit # 0 THEN hit ELSE IF left_button THEN dragging_window ELSE 0
           offset == IF hit # 0 THEN <<mouse_x - windows[hit].x, mouse_y - windows[hit].y>>
                     ELSE drag_offset
           raised == IF hit # 0 THEN [windows EXCEPT ![hit].layer = window_count] ELSE windows
           to == DraggedTo(raised[held], <<mouse_x - offset[1], mouse_y - offset[2]>>)
           moved == IF held = 0 THEN raised ELSE [raised EXCEPT ![held] = to]
           up == IF hit # 0 THEN add_dirty(Marked, WindowRect(windows[hit])) ELSE Marked
           away == MarkChange(up, moved # raised, WindowRect(raised[held]), WindowRect(moved[held]))
           d == MarkChange(away, at # now, CursorRect(at), CursorRect(now))
           painted == IF d.have THEN Inside(Clipped(d.rect)) ELSE {}
           count == IF hit # 0 THEN window_count + 1 ELSE window_count
<1>1. /\ windows' = moved /\ window_count' = count
      /\ dragging_window' = held /\ drag_offset' = offset
      /\ compositors' = [compositors EXCEPT ![c] = [pc |-> "loop", at |-> now, left |-> left_button]]
      /\ have_dirty' = FALSE /\ dirty' = (IF d.have THEN Clipped(d.rect) ELSE dirty)
      /\ cursor' = now
      /\ stale' = (stale \cup Rearranged(windows, moved)) \ painted
      /\ ghost' = (ghost \cup IF cursor = now THEN {}
                              ELSE Screen \cap (CursorBox(cursor) \cup CursorBox(now))) \ painted
  BY DEF Frame, NextCount
<1>. HIDE DEF count, painted, d, away, up, moved, to, raised, offset, held, hit, at
<1>2. /\ hit \in {0} \cup Slots /\ held \in {0} \cup Slots /\ (hit # 0 => held = hit)
      /\ at \in Int \X Int /\ mouse_x \in Int /\ mouse_y \in Int /\ now \in Int \X Int
      /\ window_count \in Nat
  <2>1. hit \in {0} \cup Slots
    BY HitIs DEF Types, hit, Grips
  <2>2. dragging_window \in {0} \cup Slots /\ mouse_x \in Int /\ mouse_y \in Int
    BY SizesAre DEF Types, NumbersOK
  <2>3. compositors[c] \in Compositor
    BY ElementOfSeq, LenProperties DEF Types, TasksOK
  <2>. QED
    BY <2>1, <2>2, <2>3 DEF held, at, Compositor, Types, WindowsOK, Layered
<1>3. /\ Layered(windows, window_count)
      /\ \A i \in Slots : windows[i] \in Window /\ OnScreen(windows[i])
  BY SlotIs DEF Types, WindowsOK, Slots
<1>4. /\ Layered(raised, count) /\ DOMAIN raised = Slots
      /\ \A i \in Slots : raised[i] \in Window /\ OnScreen(raised[i])
      /\ \A p : Shows(raised, p) # Shows(windows, p) => hit # 0 /\ p \in WithBorder(windows[hit])
  <2>1. CASE hit = 0
    BY <1>3, <2>1 DEF raised, count, Slots
  <2>2. CASE hit # 0
    <3> DEFINE w == [windows[hit] EXCEPT !.layer = window_count]
    <3>1. hit \in Slots /\ windows[hit] \in Window
      BY <1>2, <1>3, <2>2
    <3>2. /\ w \in Window /\ w.layer = window_count
          /\ w.x = windows[hit].x /\ w.y = windows[hit].y
          /\ w.width = windows[hit].width /\ w.height = windows[hit].height
      BY <1>2, <3>1 DEF Window
    <3>3. raised = [windows EXCEPT ![hit] = w] /\ count = window_count + 1 /\ count \in Nat
      BY <1>2, <2>2 DEF raised, count
    <3>. HIDE DEF w
    <3>4. /\ Layered(raised, count) /\ DOMAIN raised = DOMAIN windows /\ raised[hit] = w
          /\ \A i \in DOMAIN windows \ {hit} : raised[i] = windows[i]
      BY <1>2, <1>3, <3>1, <3>2, <3>3, Replaced DEF Slots
    <3>5. WithBorder(w) = WithBorder(windows[hit]) /\ OnScreen(w)
      BY <1>3, <3>1, <3>2 DEF WithBorder, OnScreen
    <3>6. ASSUME NEW p, Shows(raised, p) # Shows(windows, p) PROVE p \in WithBorder(windows[hit])
      BY <1>3, <3>1, <3>4, <3>5, <3>6, ChangedWithin DEF Slots
    <3>7. \A i \in Slots : raised[i] \in Window /\ OnScreen(raised[i])
      BY <1>3, <3>2, <3>4, <3>5 DEF Slots
    <3>. QED
      BY <2>2, <3>4, <3>6, <3>7 DEF Slots
  <2>. QED
    BY <2>1, <2>2
<1>5. offset \in Int \X Int
  <2>1. hit # 0 => windows[hit].x \in Int /\ windows[hit].y \in Int
    BY <1>2, <1>3 DEF Window
  <2>. QED
    BY <1>2, <2>1 DEF offset, Types, NumbersOK
<1>6. held # 0 => to \in Window /\ OnScreen(to) /\ to.layer = raised[held].layer
  <2>1. mouse_x - offset[1] \in Int /\ mouse_y - offset[2] \in Int
    BY <1>2, <1>5
  <2>. QED
    BY <1>2, <1>4, <2>1, DraggedIs DEF to
<1>7. /\ Layered(moved, count) /\ DOMAIN moved = Slots
      /\ \A i \in Slots : moved[i] \in Window /\ OnScreen(moved[i])
      /\ \A p : Shows(moved, p) # Shows(raised, p) =>
           held # 0 /\ (p \in WithBorder(raised[held]) \/ p \in WithBorder(moved[held]))
  <2>1. CASE held = 0
    BY <1>4, <2>1 DEF moved
  <2>2. CASE held # 0
    <3>1. held \in Slots /\ moved = [raised EXCEPT ![held] = to] /\ count \in Nat
      BY <1>2, <2>2 DEF moved, count
    <3>2. /\ Layered(moved, count) /\ DOMAIN moved = DOMAIN raised /\ moved[held] = to
          /\ \A i \in DOMAIN raised \ {held} : moved[i] = raised[i]
      BY <1>4, <1>6, <2>2, <3>1, Replaced
    <3>3. ASSUME NEW p, Shows(moved, p) # Shows(raised, p)
          PROVE  p \in WithBorder(raised[held]) \/ p \in WithBorder(moved[held])
      BY <1>4, <3>1, <3>2, <3>3, ChangedWithin
    <3>. QED
      BY <1>4, <1>6, <2>2, <3>2, <3>3
  <2>. QED
    BY <2>1, <2>2
<1>8. /\ up \in Damage /\ Dirty \subseteq Covered(up)
      /\ hit # 0 => Inside(WindowRect(windows[hit])) \subseteq Covered(up)
  <2>1. Marked \in Damage /\ Dirty = Covered(Marked)
    BY DirtyIs
  <2>2. CASE hit = 0
    BY <2>1, <2>2 DEF up
  <2>3. CASE hit # 0
    <3>1. WindowRect(windows[hit]) \in Rectangle
      BY <1>2, <1>3, <2>3, WindowIs, RectCovers DEF WindowRect
    <3>. QED
      BY <2>1, <2>3, <3>1, MarkAdds DEF up
  <2>. QED
    BY <2>2, <2>3
<1>9. /\ away \in Damage /\ Covered(up) \subseteq Covered(away)
      /\ moved # raised => /\ Inside(WindowRect(raised[held])) \subseteq Covered(away)
                           /\ Inside(WindowRect(moved[held])) \subseteq Covered(away)
  <2>1. moved # raised => held \in Slots
    BY <1>2 DEF moved
  <2>2. moved # raised => WindowRect(raised[held]) \in Rectangle /\ WindowRect(moved[held]) \in Rectangle
    BY <1>4, <1>7, <2>1, WindowIs, RectCovers DEF WindowRect
  <2>. QED
    BY <1>8, <2>2, TwoMarks DEF away
<1>10. /\ d \in Damage /\ Covered(away) \subseteq Covered(d)
       /\ at # now => /\ Inside(CursorRect(at)) \subseteq Covered(d)
                      /\ Inside(CursorRect(now)) \subseteq Covered(d)
  <2>1. CursorRect(at) \in Rectangle /\ CursorRect(now) \in Rectangle
    <3>1. \A q \in Int \X Int : /\ q[1] - 2 \in Int /\ q[2] - 2 \in Int
                               /\ CURSOR_W + 4 \in Int /\ CURSOR_H + 4 \in Int
      BY SizesAre
    <3>2. \A q \in Int \X Int : CursorRect(q) \in Rectangle
      BY <3>1, RectCovers DEF CursorRect
    <3>. QED
      BY <1>2, <3>2
  <2>. QED
    BY <1>9, <2>1, TwoMarks DEF d
<1>11. painted = Covered(d)
  BY <1>10, ClippedCovers DEF painted, Covered, Damage
<1>12. dirty' \in Rectangle
  BY <1>1, <1>10, ClippedCovers DEF Damage, Types, PictureTypes
<1>13. ASSUME NEW p \in Screen, Shows(moved, p) # Shows(windows, p) PROVE p \in Covered(d)
  <2>1. CASE Shows(raised, p) # Shows(windows, p)
    <3>1. hit \in Slots /\ windows[hit] \in Window /\ hit # 0 /\ p \in WithBorder(windows[hit])
      BY <1>2, <1>3, <1>4, <2>1
    <3>2. p \in Inside(WindowRect(windows[hit]))
      BY <3>1, BorderMarked
    <3>. QED
      BY <1>8, <1>9, <1>10, <3>1, <3>2
  <2>2. CASE Shows(moved, p) # Shows(raised, p)
    <3>1. /\ held \in Slots /\ moved # raised /\ raised[held] \in Window /\ moved[held] \in Window
          /\ p \in WithBorder(raised[held]) \/ p \in WithBorder(moved[held])
      BY <1>2, <1>4, <1>7, <2>2
    <3>2. p \in Inside(WindowRect(raised[held])) \/ p \in Inside(WindowRect(moved[held]))
      BY <3>1, BorderMarked
    <3>. QED
      BY <1>9, <1>10, <3>1, <3>2
  <2>. QED
    BY <1>13, <2>1, <2>2
<1>14. Rearranged(windows, moved) \subseteq Covered(d)
  BY <1>13 DEF Rearranged
<1>15. at # now => Screen \cap (CursorBox(at) \cup CursorBox(now)) \subseteq Covered(d)
  <2>1. ASSUME NEW p \in Screen, p \in CursorBox(at) \/ p \in CursorBox(now), at # now
        PROVE  p \in Covered(d)
    BY <1>2, <1>10, <2>1, CursorMarked
  <2>. QED
    BY <2>1
<1>16. WindowsOK' /\ Slots' = Slots
  BY <1>1, <1>7 DEF WindowsOK, Slots
<1>17. held \in {0} \cup Slots
  BY <1>2
<1>. QED
  <2>. SUFFICES FrameEffect(c, d)
    OBVIOUS
  <2>1. d \in Damage /\ Dirty \subseteq Covered(d)
    BY <1>8, <1>9, <1>10
  <2>. QED
    BY <1>1, <1>5, <1>11, <1>12, <1>14, <1>15, <1>16, <1>17, <2>1 DEF FrameEffect, Mouse, at

-----------------------------------------------------------------------------
(* Types.                                                                  *)

LEMMA WindowsStay == WindowsOK /\ UNCHANGED screen => WindowsOK' /\ Slots' = Slots
BY DEF WindowsOK, Slots, screen

LEMMA SlotWindow ==
  ASSUME Types, NEW i \in {0} \cup Slots, i # 0
  PROVE  i \in Slots /\ windows[i] \in Window /\ OnScreen(windows[i])
BY SlotIs DEF Types, WindowsOK, Slots

\* What the console marks covers what it prints.
LEMMA ConsoleMarks ==
  ASSUME DesktopAssumption, Types
  PROVE  console_dirty \in Rectangle /\ Printed \subseteq Inside(console_dirty)
<1>1. Layered(windows, window_count) /\ console_window \in {0} \cup Slots
  BY DEF Types, WindowsOK, NumbersOK
<1>2. CASE console_window = 0
  <2>1. console_dirty = WholeScreen
    BY <1>2 DEF console_dirty
  <2>. QED
    BY <2>1, WholeScreenIs DEF Printed, Seen
<1>3. CASE console_window # 0
  <2> DEFINE w == windows[console_window]
  <2>1. w \in Window /\ console_dirty = TitledRect(w)
    BY <1>1, <1>3, SlotWindow DEF console_dirty
  <2>2. TitledRect(w) \in Rectangle
    BY <2>1, RectTypes
  <2>3. ASSUME NEW p \in Printed PROVE p \in Inside(TitledRect(w))
    <3>1. p \in Screen /\ Shows(windows, p) = <<console_window, "body">>
      BY <2>3 DEF Printed, Seen
    <3>2. p \in Body(w)
      BY <1>1, <3>1, ShownIsThere
    <3>. QED
      BY <2>1, <3>1, <3>2, TitledMarked
  <2>. QED
    BY <2>1, <2>2, <2>3
<1>. QED
  BY <1>2, <1>3

\* One mark, taken over into the next state.
LEMMA MarkIs ==
  ASSUME DesktopAssumption, Types, NEW r \in Rectangle, Mark(add_dirty(Marked, r))
  PROVE  /\ have_dirty' = TRUE /\ dirty' \in Rectangle
         /\ Dirty \subseteq Dirty' /\ Inside(r) \subseteq Dirty'
<1> DEFINE d == add_dirty(Marked, r)
<1>1. /\ d \in Damage /\ d.have
      /\ Dirty \subseteq Covered(d) /\ Inside(r) \subseteq Covered(d)
  BY DirtyIs, MarkAdds
<1>2. have_dirty' = d.have /\ dirty' = d.rect
  BY DEF Mark
<1>. HIDE DEF d
<1>. QED
  BY <1>1, <1>2 DEF Covered, Dirty, Damage

LEMMA TwoMarksAre ==
  ASSUME DesktopAssumption, Types, NEW r \in Rectangle, NEW s \in Rectangle,
         Mark(add_dirty(add_dirty(Marked, r), s))
  PROVE  /\ have_dirty' = TRUE /\ dirty' \in Rectangle
         /\ Dirty \subseteq Dirty' /\ Inside(r) \subseteq Dirty' /\ Inside(s) \subseteq Dirty'
<1> DEFINE e == add_dirty(Marked, r)
           d == add_dirty(e, s)
<1>1. e \in Damage /\ Dirty \subseteq Covered(e) /\ Inside(r) \subseteq Covered(e)
  BY DirtyIs, MarkAdds
<1>2. have_dirty' = d.have /\ dirty' = d.rect
  BY DEF Mark
<1>. HIDE DEF e
<1>3. d \in Damage /\ d.have /\ Covered(e) \subseteq Covered(d) /\ Inside(s) \subseteq Covered(d)
  BY <1>1, MarkAdds
<1>. HIDE DEF d
<1>. QED
  BY <1>1, <1>2, <1>3 DEF Covered, Dirty, Damage

LEMMA SeenOnScreen == \A i : Seen(i) \subseteq Screen
BY DEF Seen

LEMMA MousePacketTypes == ASSUME DesktopAssumption, Types, MousePacket PROVE Types'
<1>1. /\ UNCHANGED <<screen, apps, damage, drag, compositors, calculator, xeyes, picture, overtaken, keys, hits>>
      /\ packets' = packets + 1
  BY DEF MousePacket
<1>2. PICK k \in Packets :
        IF k.overflow THEN UNCHANGED <<mouse, early, clicks>>
        ELSE /\ mouse_x' = Within(0, mouse_x + k.dx, Width - 1)
             /\ mouse_y' = Within(0, mouse_y - k.dy, Height - 1)
             /\ left_button' = k.left
             /\ clicks' = (IF k.left /\ ~left_button THEN clicks + 1 ELSE clicks)
             /\ early' \in BOOLEAN
  BY DEF MousePacket
<1>3. k.dx \in Int /\ k.dy \in Int /\ k.left \in BOOLEAN
  BY DEF DesktopAssumption, MouseAssumption
<1>4. mouse_x \in 0 .. Width - 1 /\ mouse_y \in 0 .. Height - 1 /\ Width \in Nat /\ Height \in Nat
  BY SizesAre DEF Types, NumbersOK
<1>5. \A a \in Int : /\ Within(0, a, Width - 1) \in 0 .. Width - 1
                     /\ Within(0, a, Height - 1) \in 0 .. Height - 1
  BY <1>4 DEF Within, Lower, Upper
<1>6. /\ mouse_x' \in 0 .. Width - 1 /\ mouse_y' \in 0 .. Height - 1
      /\ left_button' \in BOOLEAN /\ early' \in BOOLEAN /\ clicks' \in Nat /\ packets' \in Nat
  <2>1. /\ left_button \in BOOLEAN /\ early \in BOOLEAN /\ clicks \in Nat /\ packets \in Nat
        /\ mouse_x + k.dx \in Int /\ mouse_y - k.dy \in Int
    BY <1>3, <1>4 DEF Types, NumbersOK
  <2>2. CASE k.overflow
    BY <1>1, <1>2, <1>4, <2>1, <2>2 DEF mouse
  <2>3. CASE ~k.overflow
    BY <1>1, <1>2, <1>3, <1>5, <2>1, <2>3
  <2>. QED
    BY <2>2, <2>3
<1>7. WindowsOK' /\ Slots' = Slots
  BY <1>1, WindowsStay DEF Types
<1>8. NumbersOK'
  BY <1>1, <1>6, <1>7 DEF Types, NumbersOK, apps, drag
<1>9. TasksOK' /\ PictureTypes'
  BY <1>1 DEF Types, TasksOK, PictureTypes, apps, damage, picture
<1>. QED
  BY <1>7, <1>8, <1>9 DEF Types

LEMMA TypeKeyTypes == ASSUME DesktopAssumption, Types, TypeKey PROVE Types'
<1>1. /\ UNCHANGED <<screen, apps, mouse, drag, compositors, calculator, xeyes, cursor, ghost,
                     early, packets, clicks, hits>>
      /\ keys' = keys + 1 /\ Mark(add_dirty(Marked, console_dirty))
      /\ stale' = stale \cup Printed /\ overtaken' \in BOOLEAN
  BY DEF TypeKey, Press, NoteOvertaking, Types, PictureTypes
<1>2. WindowsOK' /\ Slots' = Slots
  BY <1>1, WindowsStay DEF Types
<1>3. have_dirty' = TRUE /\ dirty' \in Rectangle
  BY <1>1, ConsoleMarks, MarkIs
<1>4. NumbersOK' /\ TasksOK'
  BY <1>1, <1>2 DEF Types, NumbersOK, TasksOK, apps, mouse, drag
<1>5. PictureTypes'
  BY <1>1, <1>3, SeenOnScreen DEF Types, PictureTypes, Printed
<1>. QED
  BY <1>2, <1>4, <1>5 DEF Types

LEMMA TaskCreated == Types /\ DesktopAssumption /\ task_create => tasks' \in 0 .. MAX_TASKS - 1
BY SizesAre DEF Types, NumbersOK, task_create, TaskSlotLeft

LEMMA StartWmTypes == ASSUME DesktopAssumption, Types, StartWm PROVE Types'
<1>1. /\ UNCHANGED <<calc_window, xeyes_window, mouse, drag, calculator, xeyes, cursor, ghost,
                     early, packets, clicks, hits>>
      /\ keys' = keys + 1 /\ wm_create_window(Terminal) /\ console_window' = Len(windows) + 1
      /\ task_create
      /\ compositors' = (IF ~TaskSlotLeft THEN compositors
            ELSE Append(compositors, [pc |-> "created", at |-> <<0, 0>>, left |-> FALSE]))
      /\ Mark(add_dirty(add_dirty(Marked, console_dirty), TitledRect(Terminal)))
      /\ stale' = stale \cup Printed \cup Rearranged(windows, windows') /\ overtaken' \in BOOLEAN
  BY DEF StartWm, Press, NoteOvertaking, Types, PictureTypes
<1>2. WindowsOK' /\ Slots' = Slots \cup {Len(windows) + 1}
  BY <1>1, WindowOpens DEF Types
<1>3. TitledRect(Terminal) \in Rectangle
  <2>1. /\ Terminal.x \in Int /\ Terminal.y - TITLEBAR_H \in Int
        /\ Terminal.width \in Int /\ Terminal.height + TITLEBAR_H \in Int
    BY PlacesAre, SizesAre
  <2>. QED
    BY <2>1, RectCovers DEF TitledRect
<1>4. have_dirty' = TRUE /\ dirty' \in Rectangle
  BY <1>1, <1>3, ConsoleMarks, TwoMarksAre
<1>5. compositors' \in Seq(Compositor)
  <2>1. [pc |-> "created", at |-> <<0, 0>>, left |-> FALSE] \in Compositor
    BY DEF Compositor
  <2>. QED
    BY <1>1, <2>1, AppendProperties DEF Types, TasksOK
<1>6. NumbersOK'
  BY <1>1, <1>2, TaskCreated DEF Types, NumbersOK, mouse, drag
<1>7. TasksOK'
  BY <1>1, <1>5 DEF Types, TasksOK
<1>8. PictureTypes'
  BY <1>1, <1>4, SeenOnScreen DEF Types, PictureTypes, Printed, Rearranged
<1>. QED
  BY <1>2, <1>6, <1>7, <1>8 DEF Types

LEMMA OpenWindowTypes ==
  ASSUME DesktopAssumption, Types, NEW w \in {Calculator, XEyes}, OpenWindow(w),
         {calc_window', xeyes_window'} \subseteq {calc_window, xeyes_window, Len(windows) + 1}
  PROVE  WindowsOK' /\ NumbersOK' /\ PictureTypes'
<1>1. /\ UNCHANGED <<console_window, mouse, drag, compositors, cursor, ghost, early, packets, clicks, hits>>
      /\ keys' = keys + 1 /\ wm_create_window(w) /\ task_create
      /\ Mark(add_dirty(Marked, console_dirty))
      /\ stale' = stale \cup Printed \cup Rearranged(windows, windows') /\ overtaken' \in BOOLEAN
  BY DEF OpenWindow, Press, NoteOvertaking, Types, PictureTypes
<1>2. WindowsOK' /\ Slots' = Slots \cup {Len(windows) + 1}
  BY <1>1, WindowOpens DEF Types
<1>3. have_dirty' = TRUE /\ dirty' \in Rectangle
  BY <1>1, ConsoleMarks, MarkIs
<1>4. NumbersOK'
  BY <1>1, <1>2, TaskCreated DEF Types, NumbersOK, mouse, drag
<1>5. PictureTypes'
  BY <1>1, <1>3, SeenOnScreen DEF Types, PictureTypes, Printed, Rearranged
<1>. QED
  BY <1>2, <1>4, <1>5

LEMMA OpenCalculatorTypes == ASSUME DesktopAssumption, Types, OpenCalculator PROVE Types'
<1>1. /\ OpenWindow(Calculator) /\ calc_window' = Len(windows) + 1
      /\ calculator' = (IF TaskSlotLeft THEN [calculator EXCEPT !.pc = "created"] ELSE calculator)
      /\ UNCHANGED <<xeyes_window, xeyes, compositors>>
  BY DEF OpenCalculator, OpenWindow
<1>2. WindowsOK' /\ NumbersOK' /\ PictureTypes'
  BY <1>1, OpenWindowTypes
<1>3. calc_window' # 0
  BY <1>1, LenProperties DEF Types, WindowsOK, Layered
<1>4. TasksOK'
  BY <1>1, <1>3 DEF Types, TasksOK
<1>. QED
  BY <1>2, <1>4 DEF Types

LEMMA OpenXEyesTypes == ASSUME DesktopAssumption, Types, OpenXEyes PROVE Types'
<1>1. /\ OpenWindow(XEyes) /\ xeyes_window' = Len(windows) + 1
      /\ xeyes' = (IF TaskSlotLeft THEN [xeyes EXCEPT !.pc = "created"] ELSE xeyes)
      /\ UNCHANGED <<calc_window, calculator, compositors>>
  BY DEF OpenXEyes, OpenWindow
<1>2. WindowsOK' /\ NumbersOK' /\ PictureTypes'
  BY <1>1, OpenWindowTypes
<1>3. xeyes_window' # 0
  BY <1>1, LenProperties DEF Types, WindowsOK, Layered
<1>4. TasksOK'
  BY <1>1, <1>3 DEF Types, TasksOK
<1>. QED
  BY <1>2, <1>4 DEF Types

LEMMA CompositorSet ==
  ASSUME NEW cs \in Seq(Compositor), NEW c \in DOMAIN cs, NEW k \in Compositor
  PROVE  [cs EXCEPT ![c] = k] \in Seq(Compositor)
BY ExceptSeq, LenProperties

LEMMA MouseIs == Types /\ DesktopAssumption => Mouse \in Int \X Int /\ left_button \in BOOLEAN
BY SizesAre DEF Types, NumbersOK, Mouse

LEMMA CompositorIs == ASSUME Types, NEW c \in DOMAIN compositors PROVE compositors[c] \in Compositor
BY ElementOfSeq, LenProperties DEF Types, TasksOK

LEMMA ReadMouseTypes ==
  ASSUME DesktopAssumption, Types, NEW c \in DOMAIN compositors, ReadMouse(c) PROVE Types'
<1>1. /\ UNCHANGED <<screen, apps, mouse, damage, drag, calculator, xeyes, picture, overtaken, early, counts>>
      /\ compositors' = [compositors EXCEPT ![c] = [pc |-> "read", at |-> Mouse, left |-> left_button]]
  BY DEF ReadMouse, Mouse
<1>2. [pc |-> "read", at |-> Mouse, left |-> left_button] \in Compositor
  BY MouseIs DEF Compositor
<1>3. compositors' \in Seq(Compositor)
  BY <1>1, <1>2, CompositorSet DEF Types, TasksOK
<1>4. WindowsOK' /\ Slots' = Slots
  BY <1>1, WindowsStay DEF Types
<1>5. NumbersOK' /\ TasksOK' /\ PictureTypes'
  BY <1>1, <1>3, <1>4 DEF Types, NumbersOK, TasksOK, PictureTypes, apps, mouse, damage, drag, picture, counts
<1>. QED
  BY <1>4, <1>5 DEF Types

LEMMA FirstFrameTypes ==
  ASSUME DesktopAssumption, Types, NEW c \in DOMAIN compositors, FirstFrame(c) PROVE Types'
<1>1. /\ UNCHANGED <<screen, apps, mouse, damage, drag, calculator, xeyes, overtaken, early, counts>>
      /\ compositors' = [compositors EXCEPT ![c] = [@ EXCEPT !.pc = "loop"]]
      /\ cursor' = Mouse /\ stale' = {} /\ ghost' = {}
  BY DEF FirstFrame, Mouse
<1>2. [compositors[c] EXCEPT !.pc = "loop"] \in Compositor
  BY CompositorIs DEF Compositor
<1>3. compositors' \in Seq(Compositor)
  BY <1>1, <1>2, CompositorSet DEF Types, TasksOK
<1>4. WindowsOK' /\ Slots' = Slots
  BY <1>1, WindowsStay DEF Types
<1>5. NumbersOK' /\ TasksOK'
  BY <1>1, <1>3, <1>4 DEF Types, NumbersOK, TasksOK, apps, mouse, drag, counts
<1>6. PictureTypes'
  BY <1>1, MouseIs DEF Types, PictureTypes, damage
<1>. QED
  BY <1>4, <1>5, <1>6 DEF Types

LEMMA FrameTypes ==
  ASSUME DesktopAssumption, Types, NEW c \in DOMAIN compositors, Frame(c) PROVE Types'
<1>1. UNCHANGED <<apps, mouse, calculator, xeyes, early, counts>> /\ overtaken' \in BOOLEAN
  BY DEF Frame, NoteOvertaking, Types, PictureTypes
<1>2. PICK d : FrameEffect(c, d)
  BY FrameIs
<1>3. [pc |-> "loop", at |-> Mouse, left |-> left_button] \in Compositor
  BY MouseIs DEF Compositor
<1>4. compositors' \in Seq(Compositor)
  BY <1>2, <1>3, CompositorSet DEF Types, TasksOK, FrameEffect
<1>5. NumbersOK'
  BY <1>1, <1>2 DEF Types, NumbersOK, FrameEffect, apps, mouse, counts
<1>6. TasksOK'
  BY <1>1, <1>4 DEF Types, TasksOK, apps
<1>7. PictureTypes'
  BY <1>1, <1>2, MouseIs DEF Types, PictureTypes, FrameEffect
<1>. QED
  BY <1>2, <1>5, <1>6, <1>7 DEF Types, FrameEffect

LEMMA DrawCalculatorIs ==
  ASSUME DesktopAssumption, Types, calc_window # 0, DrawCalculator
  PROVE  /\ have_dirty' = TRUE /\ dirty' \in Rectangle /\ stale' = stale \cup Seen(calc_window)
         /\ Dirty \subseteq Dirty' /\ Inside(TitledRect(windows[calc_window])) \subseteq Dirty'
<1>1. windows[calc_window] \in Window
  BY SlotWindow DEF Types, NumbersOK
<1>2. TitledRect(windows[calc_window]) \in Rectangle
  BY <1>1, RectTypes
<1>3. Mark(add_dirty(Marked, TitledRect(windows[calc_window]))) /\ stale' = stale \cup Seen(calc_window)
  BY DEF DrawCalculator
<1>. QED
  BY <1>2, <1>3, MarkIs

LEMMA CalculatorTypes ==
  ASSUME DesktopAssumption, Types, CalculatorFirst \/ CalculatorPoll PROVE Types'
<1>1. /\ UNCHANGED <<screen, apps, mouse, drag, compositors, xeyes, cursor, ghost, early, packets, keys, clicks>>
      /\ calculator' \in [pc : {"loop"}, left : BOOLEAN] /\ calculator.pc # "off"
      /\ hits' \in Nat /\ overtaken' \in BOOLEAN
      /\ DrawCalculator \/ UNCHANGED <<damage, stale>>
  <2>1. calculator \in [pc : {"off", "created", "loop"}, left : BOOLEAN] /\ left_button \in BOOLEAN
        /\ hits \in Nat /\ overtaken \in BOOLEAN
    BY DEF Types, TasksOK, NumbersOK, PictureTypes
  <2>2. CASE CalculatorFirst
    BY <2>1, <2>2 DEF CalculatorFirst, NoteOvertaking, counts
  <2>3. CASE CalculatorPoll
    BY <2>1, <2>3 DEF CalculatorPoll, NoteOvertaking, Polled
  <2>. QED
    BY <2>2, <2>3
<1>2. calc_window # 0
  BY <1>1 DEF Types, TasksOK
<1>3. have_dirty' \in BOOLEAN /\ dirty' \in Rectangle /\ stale' \subseteq Screen
  BY <1>1, <1>2, DrawCalculatorIs, SeenOnScreen DEF Types, PictureTypes, damage
<1>4. WindowsOK' /\ Slots' = Slots
  BY <1>1, WindowsStay DEF Types
<1>5. NumbersOK'
  BY <1>1, <1>4 DEF Types, NumbersOK, apps, mouse, drag
<1>6. TasksOK'
  BY <1>1, <1>2 DEF Types, TasksOK, apps
<1>7. PictureTypes'
  BY <1>1, <1>3 DEF Types, PictureTypes
<1>. QED
  BY <1>4, <1>5, <1>6, <1>7 DEF Types

\* What xeyes's steps have in common.
LEMMA XEyesTypes ==
  ASSUME DesktopAssumption, Types, XEyesDraw \/ XEyesTest \/ XEyesWrite \/ XEyesMarked PROVE Types'
<1>1. /\ UNCHANGED <<screen, apps, mouse, drag, compositors, calculator, cursor, ghost, overtaken, early, counts>>
      /\ xeyes.pc # "off"
  BY DEF XEyesDraw, XEyesTest, XEyesWrite, XEyesMarked, Marking, picture
<1>2. /\ have_dirty \in BOOLEAN /\ dirty \in Rectangle /\ stale \subseteq Screen
      /\ xeyes \in [pc : {"off", "created", "test", "fresh", "grow", "hlt"},
                    rect : Rectangle, next : 1 .. 5]
      /\ xeyes.pc # "off" => xeyes_window # 0
      /\ xeyes.pc = "test" => xeyes.next = 1
      /\ xeyes.pc = "grow" => xeyes.next # 5
  BY DEF Types, PictureTypes, TasksOK
<1>3. /\ have_dirty' \in BOOLEAN /\ dirty' \in Rectangle /\ stale' \subseteq Screen
      /\ xeyes' \in [pc : {"test", "fresh", "grow", "hlt"}, rect : Rectangle, next : 1 .. 5]
      /\ xeyes'.pc = "test" => xeyes'.next = 1
      /\ xeyes'.pc = "grow" => xeyes'.next # 5
  <2>1. CASE XEyesDraw
    <3>1. windows[xeyes_window] \in Window
      BY <1>1, <1>2, SlotWindow DEF Types, NumbersOK
    <3> DEFINE w == windows[xeyes_window]
    <3>2. Rect(w.x, w.y, w.width, w.height) \in Rectangle
      BY <3>1, RectTypes
    <3>. QED
      BY <1>2, <2>1, <3>2, SeenOnScreen DEF XEyesDraw, damage
  <2>2. CASE XEyesTest
    <3>1. /\ xeyes.pc = "test" /\ UNCHANGED <<have_dirty, dirty, stale>>
          /\ xeyes' = [xeyes EXCEPT !.pc = IF have_dirty THEN "grow" ELSE "fresh"]
      BY <2>2 DEF XEyesTest, damage, picture
    <3>. QED
      BY <1>2, <3>1
  <2>3. CASE XEyesWrite
    <3>1. /\ xeyes.next \in 1 .. 4 /\ xeyes.pc \in {"fresh", "grow"}
          /\ dirty' = [dirty EXCEPT ![xeyes.next] = IF xeyes.pc = "fresh" THEN xeyes.rect[xeyes.next]
                                                    ELSE Widened(dirty, xeyes.rect)[xeyes.next]]
          /\ xeyes' = (IF xeyes.pc = "grow" /\ xeyes.next = 4
                       THEN Halting
                       ELSE [xeyes EXCEPT !.next = @ + 1])
          /\ have_dirty' = have_dirty /\ stale' = stale
      BY <1>2, <2>3 DEF XEyesWrite, Marking, picture
    <3>2. Widened(dirty, xeyes.rect) \in Rectangle /\ xeyes.rect \in Rectangle
      BY <1>2, WidenedCovers
    <3>3. dirty' \in Rectangle
      BY <1>2, <3>1, <3>2 DEF Rectangle
    <3>4. CASE xeyes.pc = "grow" /\ xeyes.next = 4
      BY <1>2, <3>1, <3>3, <3>4 DEF Halting
    <3>5. CASE ~(xeyes.pc = "grow" /\ xeyes.next = 4)
      <4>1. xeyes' = [xeyes EXCEPT !.next = xeyes.next + 1] /\ xeyes.next + 1 \in 1 .. 5
        BY <3>1, <3>5
      <4>2. xeyes.pc = "grow" => xeyes.next + 1 # 5
        BY <3>1, <3>5
      <4>. QED
        BY <1>2, <3>1, <3>3, <4>1, <4>2
    <3>. QED
      BY <3>4, <3>5
  <2>4. CASE XEyesMarked
    <3>1. /\ have_dirty' = TRUE /\ UNCHANGED <<dirty, stale>>
          /\ xeyes' = Halting
      BY <2>4 DEF XEyesMarked, picture
    <3>. QED
      BY <1>2, <3>1 DEF Halting
  <2>. QED
    BY <2>1, <2>2, <2>3, <2>4
<1>4. WindowsOK' /\ Slots' = Slots
  BY <1>1, WindowsStay DEF Types
<1>5. NumbersOK'
  BY <1>1, <1>4 DEF Types, NumbersOK, apps, mouse, drag, counts
<1>6. TasksOK'
  BY <1>1, <1>2, <1>3 DEF Types, TasksOK, apps
<1>7. PictureTypes'
  BY <1>1, <1>3 DEF Types, PictureTypes
<1>. QED
  BY <1>4, <1>5, <1>6, <1>7 DEF Types

LEMMA TypesKept == ASSUME DesktopAssumption, Types, [Next]_vars PROVE Types'
<1>1. CASE MousePacket
  BY <1>1, MousePacketTypes
<1>2. CASE Keyboard
  BY <1>2, TypeKeyTypes, StartWmTypes, OpenCalculatorTypes, OpenXEyesTypes DEF Keyboard
<1>3. CASE WmTask
  BY <1>3, ReadMouseTypes, FirstFrameTypes, FrameTypes DEF WmTask
<1>4. CASE Apps
  BY <1>4, CalculatorTypes, XEyesTypes DEF Apps
<1>5. CASE UNCHANGED vars
  BY <1>5, WindowsStay DEF vars, Types, NumbersOK, TasksOK, PictureTypes, screen, apps, mouse,
     damage, drag, picture, counts
<1>. QED
  BY <1>1, <1>2, <1>3, <1>4, <1>5 DEF Next

-----------------------------------------------------------------------------
(* Clicks.                                                                 *)

LEMMA ClicksKept == ASSUME DesktopAssumption, Types, ClicksOK, [Next]_vars PROVE ClicksOK'
<1> USE DEF ClicksOK
<1>1. /\ hits \in Nat /\ clicks \in Nat /\ left_button \in BOOLEAN
      /\ calculator \in [pc : {"off", "created", "loop"}, left : BOOLEAN]
  BY DEF Types, NumbersOK, TasksOK
<1>2. ASSUME UNCHANGED <<hits, clicks, left_button, calculator>> PROVE ClicksOK'
  BY <1>2
<1>3. CASE MousePacket
  <2>1. PICK k \in Packets :
          /\ UNCHANGED <<calculator, hits>>
          /\ IF k.overflow THEN UNCHANGED <<left_button, clicks>>
             ELSE /\ left_button' = k.left
                  /\ clicks' = (IF k.left /\ ~left_button THEN clicks + 1 ELSE clicks)
    BY <1>3 DEF MousePacket, mouse
  <2>2. k.left \in BOOLEAN
    BY DEF DesktopAssumption, MouseAssumption
  <2>3. CASE k.overflow
    BY <1>2, <2>1, <2>3
  <2>4. CASE ~k.overflow
    BY <1>1, <2>1, <2>2, <2>4
  <2>. QED
    BY <2>3, <2>4
<1>4. CASE TypeKey \/ StartWm \/ OpenXEyes
  BY <1>2, <1>4 DEF TypeKey, StartWm, OpenXEyes, OpenWindow, mouse
<1>5. CASE OpenCalculator
  <2>1. /\ UNCHANGED <<hits, clicks, left_button>>
        /\ calculator' = (IF TaskSlotLeft THEN [calculator EXCEPT !.pc = "created"] ELSE calculator)
    BY <1>5 DEF OpenCalculator, OpenWindow, mouse
  <2>2. calculator'.left = calculator.left
    BY <1>1, <2>1
  <2>. QED
    BY <1>1, <2>1, <2>2
<1>6. CASE WmTask
  <2>1. PICK c \in DOMAIN compositors : ReadMouse(c) \/ FirstFrame(c) \/ Frame(c)
    BY <1>6 DEF WmTask
  <2>2. CASE ReadMouse(c)
    BY <1>2, <2>2 DEF ReadMouse, mouse, counts
  <2>3. CASE FirstFrame(c)
    BY <1>2, <2>3 DEF FirstFrame, mouse, counts
  <2>4. CASE Frame(c)
    BY <1>2, <2>4 DEF Frame, mouse, counts
  <2>. QED
    BY <2>1, <2>2, <2>3, <2>4
<1>7. CASE CalculatorFirst
  <2>1. UNCHANGED <<hits, clicks, left_button>> /\ calculator'.left = left_button
    BY <1>7 DEF CalculatorFirst, mouse, counts
  <2>. QED
    BY <1>1, <2>1
<1>8. CASE CalculatorPoll
  <2>1. /\ UNCHANGED <<clicks, left_button>> /\ calculator'.left = left_button
        /\ hits' = hits \/ (left_button /\ ~calculator.left /\ hits' = hits + 1)
    BY <1>1, <1>8 DEF CalculatorPoll, Polled, mouse
  <2>. QED
    BY <1>1, <2>1
<1>9. CASE XEyesDraw \/ XEyesTest \/ XEyesWrite \/ XEyesMarked
  BY <1>2, <1>9 DEF XEyesDraw, XEyesTest, XEyesWrite, XEyesMarked, mouse, counts
<1>10. CASE UNCHANGED vars
  BY <1>2, <1>10 DEF vars, mouse, counts
<1>. QED
  BY <1>3, <1>4, <1>5, <1>6, <1>7, <1>8, <1>9, <1>10 DEF Next, Keyboard, Apps

-----------------------------------------------------------------------------
(* Marks.                                                                  *)

\* What is shown as before and was in order still is.
LEMMA StillOK ==
  ASSUME NEW p, StaleOK(p), Shows(windows, p)' = Shows(windows, p),
         UNCHANGED <<calc_window, xeyes_window, xeyes>>, calculator'.pc = calculator.pc
  PROVE  StaleOK(p)'
BY DEF StaleOK, NotClaimed, Marking

\* A mark that comes while xeyes marks is noted.
LEMMA MarkingStays ==
  ASSUME MarkingOK, NoteOvertaking, ~overtaken', UNCHANGED xeyes
  PROVE  MarkingOK'
<1>1. CASE xeyes.pc \in {"fresh", "grow"}
  <2>1. UNCHANGED <<have_dirty, dirty, xeyes>>
    BY <1>1 DEF NoteOvertaking, Marking, damage
  <2>. QED
    BY <2>1 DEF MarkingOK, Marking, Written
<1>2. CASE xeyes.pc \notin {"fresh", "grow"}
  BY <1>2 DEF MarkingOK, Marking
<1>. QED
  BY <1>1, <1>2

LEMMA TypeKeyMarks ==
  ASSUME DesktopAssumption, Types, MarksOK, TypeKey, ~overtaken'
  PROVE  MarkingOK' /\ \A p \in stale' \ Dirty' : StaleOK(p)'
<1>1. /\ UNCHANGED <<windows, calc_window, xeyes_window, calculator, xeyes>>
      /\ Mark(add_dirty(Marked, console_dirty)) /\ stale' = stale \cup Printed
      /\ NoteOvertaking /\ ~overtaken
  BY DEF TypeKey, NoteOvertaking, screen, apps
<1>2. Dirty \subseteq Dirty' /\ Printed \subseteq Dirty'
  BY <1>1, ConsoleMarks, MarkIs
<1>3. MarkingOK'
  BY <1>1, MarkingStays DEF MarksOK
<1>4. ASSUME NEW p \in stale' \ Dirty' PROVE StaleOK(p)'
  <2>1. StaleOK(p)
    BY <1>1, <1>2, <1>4 DEF MarksOK
  <2>. QED
    BY <1>1, <2>1, StillOK
<1>. QED
  BY <1>3, <1>4

LEMMA StartWmMarks ==
  ASSUME DesktopAssumption, Types, MarksOK, StartWm, ~overtaken'
  PROVE  MarkingOK' /\ \A p \in stale' \ Dirty' : StaleOK(p)'
<1> DEFINE o == Opened(Terminal)
           k == Len(windows) + 1
<1>1. /\ UNCHANGED <<calc_window, xeyes_window, calculator, xeyes>>
      /\ wm_create_window(Terminal)
      /\ Mark(add_dirty(add_dirty(Marked, console_dirty), TitledRect(Terminal)))
      /\ stale' = stale \cup Printed \cup Rearranged(windows, windows')
      /\ NoteOvertaking /\ ~overtaken
  BY DEF StartWm, NoteOvertaking
<1>2. /\ o \in Window /\ windows' = Append(windows, o) /\ o.layer = window_count
      /\ Layered(windows, window_count) /\ Layered(windows', window_count + 1)
  BY <1>1, WindowOpens DEF Types, WindowsOK, Opened
<1>3. TitledRect(Terminal) = TitledRect(o)
  BY DEF TitledRect, Opened
<1>. HIDE DEF o
<1>4. Dirty \subseteq Dirty' /\ Printed \subseteq Dirty' /\ Inside(TitledRect(o)) \subseteq Dirty'
  BY <1>1, <1>2, <1>3, ConsoleMarks, RectTypes, TwoMarksAre
<1>5. MarkingOK'
  BY <1>1, MarkingStays DEF MarksOK
<1>6. ASSUME NEW p \in stale' \ Dirty' PROVE StaleOK(p)'
  <2>1. CASE Shows(windows, p)' = Shows(windows, p)
    <3>1. p \notin Rearranged(windows, windows')
      BY <2>1 DEF Rearranged
    <3>2. StaleOK(p)
      BY <1>1, <1>4, <1>6, <3>1 DEF MarksOK
    <3>. QED
      BY <1>1, <2>1, <3>2, StillOK
  <2>2. CASE Shows(windows, p)' # Shows(windows, p)
    <3>1. p \in WithBorder(o) /\ Shows(windows, p)' = What(o, k, p)
      BY <1>2, <2>2, NewInFront
    <3>2. p \in Screen
      BY <1>1, <1>6, SeenOnScreen DEF Types, PictureTypes, Printed, Rearranged
    <3>3. p \notin Body(o) /\ p \notin TitleBar(o)
      BY <1>2, <1>4, <1>6, <3>2, TitledMarked
    <3>4. Shows(windows, p)' = <<k, "border">>
      BY <3>1, <3>3 DEF What
    <3>. QED
      BY <3>4 DEF StaleOK, NotClaimed
  <2>. QED
    BY <2>1, <2>2
<1>. QED
  BY <1>5, <1>6

\* A window that opens is drawn before its task has drawn in it.
LEMMA OpenWindowMarks ==
  ASSUME DesktopAssumption, Types, MarksOK, NEW w \in {Calculator, XEyes}, OpenWindow(w),
         ~overtaken', NEW p \in stale' \ Dirty'
  PROVE  \/ StaleOK(p) /\ Shows(windows, p)' = Shows(windows, p)
         \/ Shows(windows, p)'[1] = Len(windows) + 1 /\ Len(windows) + 1 \notin {0} \cup Slots
<1>1. /\ wm_create_window(w) /\ Mark(add_dirty(Marked, console_dirty))
      /\ stale' = stale \cup Printed \cup Rearranged(windows, windows')
      /\ ~overtaken
  BY DEF OpenWindow, NoteOvertaking
<1>2. /\ Opened(w) \in Window /\ windows' = Append(windows, Opened(w))
      /\ Opened(w).layer = window_count
      /\ Layered(windows, window_count) /\ Layered(windows', window_count + 1)
  BY <1>1, WindowOpens DEF Types, WindowsOK, Opened
<1>3. Dirty \subseteq Dirty' /\ Printed \subseteq Dirty'
  BY <1>1, ConsoleMarks, MarkIs
<1>4. CASE Shows(windows, p)' = Shows(windows, p)
  <2>1. p \notin Rearranged(windows, windows')
    BY <1>4 DEF Rearranged
  <2>. QED
    BY <1>1, <1>3, <1>4, <2>1 DEF MarksOK
<1>5. CASE Shows(windows, p)' # Shows(windows, p)
  <2>1. Shows(windows, p)' = What(Opened(w), Len(windows) + 1, p)
    BY <1>2, <1>5, NewInFront
  <2>2. Len(windows) + 1 \notin {0} \cup Slots
    BY <1>2, LenProperties DEF Layered, Slots
  <2>. QED
    BY <2>1, <2>2 DEF What
<1>. QED
  BY <1>4, <1>5

LEMMA OpenCalculatorMarks ==
  ASSUME DesktopAssumption, Types, MarksOK, OpenCalculator, ~overtaken'
  PROVE  MarkingOK' /\ \A p \in stale' \ Dirty' : StaleOK(p)'
<1>1. /\ calc_window = 0 /\ OpenWindow(Calculator) /\ calc_window' = Len(windows) + 1
      /\ calculator' = (IF TaskSlotLeft THEN [calculator EXCEPT !.pc = "created"] ELSE calculator)
      /\ UNCHANGED <<xeyes_window, xeyes>> /\ NoteOvertaking /\ ~overtaken
  BY DEF OpenCalculator, OpenWindow, NoteOvertaking
<1>2. calculator'.pc # "loop" /\ xeyes_window \in {0} \cup Slots
  BY <1>1 DEF Types, TasksOK, NumbersOK
<1>3. MarkingOK'
  BY <1>1, MarkingStays DEF MarksOK
<1>4. ASSUME NEW p \in stale' \ Dirty' PROVE StaleOK(p)'
  <2>1. CASE StaleOK(p) /\ Shows(windows, p)' = Shows(windows, p)
    BY <1>1, <2>1 DEF StaleOK, NotClaimed, Marking
  <2>2. CASE /\ Shows(windows, p)'[1] = Len(windows) + 1
             /\ Len(windows) + 1 \notin {0} \cup Slots
    BY <1>1, <1>2, <2>2 DEF StaleOK, NotClaimed
  <2>. QED
    BY <1>1, <1>4, <2>1, <2>2, OpenWindowMarks
<1>. QED
  BY <1>3, <1>4

LEMMA OpenXEyesMarks ==
  ASSUME DesktopAssumption, Types, MarksOK, OpenXEyes, ~overtaken'
  PROVE  MarkingOK' /\ \A p \in stale' \ Dirty' : StaleOK(p)'
<1>1. /\ xeyes_window = 0 /\ OpenWindow(XEyes) /\ xeyes_window' = Len(windows) + 1
      /\ xeyes' = (IF TaskSlotLeft THEN [xeyes EXCEPT !.pc = "created"] ELSE xeyes)
      /\ UNCHANGED <<calc_window, calculator>> /\ ~overtaken
  BY DEF OpenXEyes, OpenWindow, NoteOvertaking
<1>2. xeyes'.pc \in {"off", "created"}
  BY <1>1 DEF Types, TasksOK
<1>3. MarkingOK'
  BY <1>2 DEF MarkingOK, Marking
<1>4. ASSUME NEW p \in stale' \ Dirty' PROVE StaleOK(p)'
  <2>1. CASE StaleOK(p) /\ Shows(windows, p)' = Shows(windows, p)
    BY <1>1, <1>2, <2>1 DEF StaleOK, NotClaimed, Marking
  <2>2. CASE /\ Shows(windows, p)'[1] = Len(windows) + 1
             /\ Len(windows) + 1 \notin {0} \cup Slots
    BY <1>1, <1>2, <2>2 DEF StaleOK, NotClaimed, Marking
  <2>. QED
    BY <1>1, <1>4, <2>1, <2>2, OpenWindowMarks
<1>. QED
  BY <1>3, <1>4

LEMMA FrameMarks ==
  ASSUME DesktopAssumption, Types, MarksOK, NEW c \in DOMAIN compositors, Frame(c), ~overtaken'
  PROVE  MarkingOK' /\ \A p \in stale' \ Dirty' : StaleOK(p)'
<1>1. UNCHANGED <<calc_window, xeyes_window, calculator, xeyes>> /\ NoteOvertaking /\ ~overtaken
  BY DEF Frame, NoteOvertaking, apps
<1>2. PICK d : FrameEffect(c, d)
  BY FrameIs
<1>3. MarkingOK'
  BY <1>1, MarkingStays DEF MarksOK
<1>4. ASSUME NEW p \in stale' \ Dirty' PROVE StaleOK(p)'
  <2>1. p \in stale \ Dirty /\ p \notin Rearranged(windows, windows')
    BY <1>2, <1>4 DEF FrameEffect
  <2>2. Shows(windows, p)' = Shows(windows, p)
    BY <2>1 DEF Rearranged, Types, PictureTypes
  <2>. QED
    BY <1>1, <2>1, <2>2, StillOK DEF MarksOK
<1>. QED
  BY <1>3, <1>4

LEMMA CalculatorMarks ==
  ASSUME DesktopAssumption, Types, MarksOK, CalculatorFirst \/ CalculatorPoll, ~overtaken'
  PROVE  MarkingOK' /\ \A p \in stale' \ Dirty' : StaleOK(p)'
<1>1. /\ UNCHANGED <<windows, calc_window, xeyes_window, xeyes>> /\ NoteOvertaking /\ ~overtaken
      /\ calculator.pc # "off"
      /\ \/ DrawCalculator
         \/ UNCHANGED <<damage, stale>> /\ calculator'.pc = calculator.pc
  BY DEF CalculatorFirst, CalculatorPoll, Polled, NoteOvertaking, screen, apps, Types, TasksOK
<1>2. MarkingOK'
  BY <1>1, MarkingStays DEF MarksOK
<1>3. CASE DrawCalculator
  <2>1. calc_window # 0 /\ Layered(windows, window_count)
    BY <1>1 DEF Types, TasksOK, WindowsOK
  <2>2. /\ stale' = stale \cup Seen(calc_window) /\ Dirty \subseteq Dirty'
        /\ Inside(TitledRect(windows[calc_window])) \subseteq Dirty'
    BY <1>3, <2>1, DrawCalculatorIs
  <2>3. ASSUME NEW p \in stale' \ Dirty' PROVE StaleOK(p)'
    <3>1. p \in Screen
      BY <2>2, <2>3, SeenOnScreen DEF Types, PictureTypes
    <3>2. windows[calc_window] \in Window
      BY <2>1, SlotWindow DEF Types, NumbersOK
    <3>3. p \notin Body(windows[calc_window]) /\ p \notin TitleBar(windows[calc_window])
      BY <2>2, <2>3, <3>1, <3>2, TitledMarked
    <3>4. Shows(windows, p) # <<calc_window, "body">> /\ Shows(windows, p) # <<calc_window, "title">>
      BY <2>1, <3>3, ShownIsThere
    <3>5. Shows(windows, p)[1] = calc_window => Shows(windows, p)[2] = "border"
      BY <2>1, <3>4, ShownIsThere
    <3>6. StaleOK(p)
      BY <1>1, <2>2, <2>3, <3>4 DEF MarksOK, Seen
    <3>. QED
      BY <1>1, <3>5, <3>6 DEF StaleOK, NotClaimed, Marking
  <2>. QED
    BY <1>2, <2>3
<1>4. CASE UNCHANGED <<damage, stale>> /\ calculator'.pc = calculator.pc
  <2>1. ASSUME NEW p \in stale' \ Dirty' PROVE StaleOK(p)'
    <3>1. StaleOK(p)
      BY <1>1, <1>4, <2>1 DEF MarksOK, Dirty, damage
    <3>. QED
      BY <1>1, <1>4, <3>1, StillOK
  <2>. QED
    BY <1>2, <2>1
<1>. QED
  BY <1>1, <1>3, <1>4

LEMMA XEyesDrawMarks ==
  ASSUME DesktopAssumption, Types, MarksOK, XEyesDraw, ~overtaken'
  PROVE  MarkingOK' /\ \A p \in stale' \ Dirty' : StaleOK(p)'
<1> DEFINE w == windows[xeyes_window]
<1>1. /\ xeyes.pc \in {"created", "hlt"}
      /\ UNCHANGED <<windows, calc_window, xeyes_window, calculator, have_dirty, dirty, overtaken>>
      /\ stale' = stale \cup Seen(xeyes_window)
      /\ xeyes' = [pc |-> "test", rect |-> Rect(w.x, w.y, w.width, w.height), next |-> 1]
  BY DEF XEyesDraw, screen, apps, damage
<1>2. xeyes_window # 0 /\ Layered(windows, window_count) /\ w \in Window
  BY <1>1, SlotWindow DEF Types, TasksOK, WindowsOK, NumbersOK
<1>3. MarkingOK'
  BY <1>1 DEF MarkingOK, Marking
<1>4. ASSUME NEW p \in stale' \ Dirty' PROVE StaleOK(p)'
  <2>1. p \in Screen
    BY <1>1, <1>4, SeenOnScreen DEF Types, PictureTypes
  <2>2. CASE Shows(windows, p)[1] = xeyes_window
    <3>1. Shows(windows, p) = <<xeyes_window, "body">> => p \in Body(w)
      BY <1>2, ShownIsThere
    <3>2. Shows(windows, p) = <<xeyes_window, "body">> => p \in Inside(xeyes'.rect)
      BY <1>1, <1>2, <2>1, <3>1, BodyMarked
    <3>. QED
      BY <1>1, <1>2, <2>2, <3>2 DEF StaleOK, NotClaimed
  <2>3. CASE Shows(windows, p)[1] # xeyes_window
    <3>1. StaleOK(p)
      BY <1>1, <1>4, <2>3 DEF MarksOK, Seen, Dirty
    <3>. QED
      BY <1>1, <2>3, <3>1 DEF StaleOK, NotClaimed
  <2>. QED
    BY <2>2, <2>3
<1>. QED
  BY <1>3, <1>4

LEMMA XEyesTestMarks ==
  ASSUME DesktopAssumption, Types, MarksOK, XEyesTest, ~overtaken'
  PROVE  MarkingOK' /\ \A p \in stale' \ Dirty' : StaleOK(p)'
<1>1. /\ xeyes.pc = "test" /\ xeyes.next = 1
      /\ UNCHANGED <<windows, calc_window, xeyes_window, calculator, have_dirty, dirty, stale, overtaken>>
      /\ xeyes' = [xeyes EXCEPT !.pc = IF have_dirty THEN "grow" ELSE "fresh"]
  BY DEF XEyesTest, screen, apps, damage, picture, Types, TasksOK
<1>2. /\ xeyes'.pc = (IF have_dirty THEN "grow" ELSE "fresh")
      /\ xeyes'.rect = xeyes.rect /\ xeyes'.next = 1
  BY <1>1 DEF Types, TasksOK
<1>3. MarkingOK'
  BY <1>1, <1>2 DEF MarkingOK, Marking, Types, PictureTypes
<1>4. ASSUME NEW p \in stale' \ Dirty' PROVE StaleOK(p)'
  <2>1. StaleOK(p)
    BY <1>1, <1>4 DEF MarksOK, Dirty
  <2>. QED
    BY <1>1, <1>2, <2>1 DEF StaleOK, NotClaimed, Marking
<1>. QED
  BY <1>3, <1>4

\* While xeyes writes its mark, what was marked stays so; when it is done
\* the mark covers its window.
LEMMA XEyesAdds ==
  ASSUME DesktopAssumption, Types, MarkingOK, XEyesWrite \/ XEyesMarked
  PROVE  /\ MarkingOK' /\ Dirty \subseteq Dirty'
         /\ xeyes' # Halting => Marking /\ xeyes'.pc = xeyes.pc /\ xeyes'.rect = xeyes.rect
         /\ xeyes' = Halting => Inside(xeyes.rect) \subseteq Dirty'
<1>1. /\ xeyes \in [pc : {"off", "created", "test", "fresh", "grow", "hlt"},
                    rect : Rectangle, next : 1 .. 5]
      /\ dirty \in Rectangle /\ have_dirty \in BOOLEAN
  BY DEF Types, TasksOK, PictureTypes
<1>2. CASE XEyesWrite
  <2> DEFINE k == xeyes.next
             v == IF xeyes.pc = "fresh" THEN xeyes.rect[k] ELSE Widened(dirty, xeyes.rect)[k]
  <2>1. /\ xeyes.pc \in {"fresh", "grow"} /\ k \in 1 .. 4 /\ have_dirty' = have_dirty
        /\ dirty' = [dirty EXCEPT ![k] = v]
        /\ xeyes' = (IF xeyes.pc = "grow" /\ k = 4 THEN Halting ELSE [xeyes EXCEPT !.next = k + 1])
    BY <1>1, <1>2 DEF XEyesWrite, Marking
  <2>2. /\ Widened(dirty, xeyes.rect) \in Rectangle
        /\ \A i \in 1 .. 4 : /\ dirty[i] \in Int /\ xeyes.rect[i] \in Int
                             /\ Widened(dirty, xeyes.rect)[i] \in Int
        /\ \A i \in 1 .. 4 : IF i <= 2 THEN /\ Widened(dirty, xeyes.rect)[i] <= dirty[i]
                                            /\ Widened(dirty, xeyes.rect)[i] <= xeyes.rect[i]
                             ELSE /\ Widened(dirty, xeyes.rect)[i] >= dirty[i]
                                  /\ Widened(dirty, xeyes.rect)[i] >= xeyes.rect[i]
    <3>1. /\ Widened(dirty, xeyes.rect) \in Rectangle /\ xeyes.rect \in Rectangle
          /\ Widened(dirty, xeyes.rect)[1] <= dirty[1] /\ Widened(dirty, xeyes.rect)[1] <= xeyes.rect[1]
          /\ Widened(dirty, xeyes.rect)[2] <= dirty[2] /\ Widened(dirty, xeyes.rect)[2] <= xeyes.rect[2]
          /\ Widened(dirty, xeyes.rect)[3] >= dirty[3] /\ Widened(dirty, xeyes.rect)[3] >= xeyes.rect[3]
          /\ Widened(dirty, xeyes.rect)[4] >= dirty[4] /\ Widened(dirty, xeyes.rect)[4] >= xeyes.rect[4]
      BY <1>1, WidenedCovers
    <3>2. \A i \in 1 .. 4 : i = 1 \/ i = 2 \/ i = 3 \/ i = 4
      OBVIOUS
    <3>3. \A i \in 1 .. 4 : /\ dirty[i] \in Int /\ xeyes.rect[i] \in Int
                            /\ Widened(dirty, xeyes.rect)[i] \in Int
      BY <1>1, <3>1 DEF Rectangle
    <3>. HIDE DEF v
    <3>. QED
      BY <3>1, <3>2, <3>3
  <2>3. /\ v \in Int /\ dirty'[k] = v /\ \A i \in 1 .. 4 \ {k} : dirty'[i] = dirty[i]
        /\ xeyes.pc = "fresh" => v = xeyes.rect[k]
        /\ xeyes.pc = "grow" => IF k <= 2 THEN v <= dirty[k] /\ v <= xeyes.rect[k]
                                          ELSE v >= dirty[k] /\ v >= xeyes.rect[k]
    BY <1>1, <2>1, <2>2 DEF Rectangle
  <2>. HIDE DEF v
  <2>4. Dirty \subseteq Dirty'
    <3>1. CASE xeyes.pc = "fresh"
      BY <3>1 DEF MarkingOK, Dirty
    <3>2. CASE xeyes.pc = "grow"
      <4>1. dirty'[1] <= dirty[1] /\ dirty'[2] <= dirty[2] /\ dirty'[3] >= dirty[3] /\ dirty'[4] >= dirty[4]
        <5>1. \A i \in 1 .. 4 : IF i <= 2 THEN dirty'[i] <= dirty[i] ELSE dirty'[i] >= dirty[i]
          BY <2>1, <2>2, <2>3, <3>2
        <5>. QED
          BY <5>1
      <4>2. ASSUME NEW p \in Inside(dirty) PROVE p \in Inside(dirty')
        <5>1. p \in Screen /\ p[1] \in Int /\ p[2] \in Int
          BY <4>2, ScreenIs, InsideIs
        <5>2. /\ dirty[1] \in Int /\ dirty[2] \in Int /\ dirty[3] \in Int /\ dirty[4] \in Int
              /\ dirty'[1] \in Int /\ dirty'[2] \in Int /\ dirty'[3] \in Int /\ dirty'[4] \in Int
          BY <2>1, <2>2, <2>3
        <5>. QED
          BY <4>1, <4>2, <5>1, <5>2, InsideIs
      <4>. QED
        BY <2>1, <4>2 DEF Dirty
    <3>. QED
      BY <2>1, <3>1, <3>2
  <2>5. CASE xeyes' = Halting
    <3>1. xeyes.pc = "grow" /\ k = 4
      BY <1>1, <2>1, <2>5 DEF Halting
    <3>2. /\ dirty'[1] <= xeyes.rect[1] /\ dirty'[2] <= xeyes.rect[2]
          /\ dirty'[3] >= xeyes.rect[3] /\ dirty'[4] >= xeyes.rect[4]
      <4>1. \A i \in 1 .. 3 : Written(i)
        BY <3>1 DEF MarkingOK, Marking
      <4>2. dirty[1] <= xeyes.rect[1] /\ dirty[2] <= xeyes.rect[2] /\ dirty[3] >= xeyes.rect[3]
        BY <3>1, <4>1 DEF Written
      <4>. QED
        BY <2>3, <3>1, <4>2
    <3>3. ASSUME NEW p \in Inside(xeyes.rect) PROVE p \in Inside(dirty')
      <4>1. p \in Screen /\ p[1] \in Int /\ p[2] \in Int
        BY <3>3, ScreenIs, InsideIs
      <4>2. /\ xeyes.rect[1] \in Int /\ xeyes.rect[2] \in Int /\ xeyes.rect[3] \in Int /\ xeyes.rect[4] \in Int
            /\ dirty'[1] \in Int /\ dirty'[2] \in Int /\ dirty'[3] \in Int /\ dirty'[4] \in Int
        BY <2>1, <2>2, <2>3
      <4>. QED
        BY <3>2, <3>3, <4>1, <4>2, InsideIs
    <3>4. MarkingOK' /\ have_dirty'
      BY <2>1, <2>5, <3>1 DEF MarkingOK, Marking, Halting
    <3>. QED
      BY <2>4, <2>5, <3>3, <3>4 DEF Dirty
  <2>6. CASE xeyes' # Halting
    <3>1. xeyes' = [xeyes EXCEPT !.next = k + 1]
      BY <2>1, <2>6
    <3>2. xeyes'.pc = xeyes.pc /\ xeyes'.rect = xeyes.rect /\ xeyes'.next = k + 1
      BY <1>1, <3>1
    <3>3. ASSUME NEW i \in 1 .. k PROVE Written(i)'
      <4>1. CASE i = k
        BY <2>1, <2>3, <3>2, <4>1 DEF Written
      <4>2. CASE i # k
        <5>1. i \in 1 .. k - 1 /\ i \in 1 .. 4 /\ i # k
          BY <2>1, <4>2
        <5>2. Written(i)
          BY <2>1, <5>1 DEF MarkingOK, Marking
        <5>. QED
          BY <2>1, <2>3, <3>2, <5>1, <5>2 DEF Written
      <4>. QED
        BY <4>1, <4>2
    <3>4. MarkingOK'
      BY <2>1, <3>2, <3>3 DEF MarkingOK
    <3>. QED
      BY <2>1, <2>4, <2>6, <3>2, <3>4 DEF Marking
  <2>. QED
    BY <2>5, <2>6
<1>3. CASE XEyesMarked
  <2>1. /\ xeyes.pc = "fresh" /\ xeyes.next = 5 /\ have_dirty' = TRUE /\ dirty' = dirty /\ xeyes' = Halting
    BY <1>3 DEF XEyesMarked
  <2>2. \A i \in 1 .. 4 : dirty[i] = xeyes.rect[i]
    BY <2>1 DEF MarkingOK, Marking, Written
  <2>3. dirty = xeyes.rect
    BY <1>1, <2>2 DEF Rectangle
  <2>4. Dirty = {} /\ Dirty' = Inside(dirty)
    BY <2>1 DEF MarkingOK, Dirty
  <2>. QED
    BY <2>1, <2>3, <2>4 DEF MarkingOK, Marking, Halting
<1>. QED
  BY <1>2, <1>3

LEMMA XEyesWriteMarks ==
  ASSUME DesktopAssumption, Types, MarksOK, XEyesWrite \/ XEyesMarked, ~overtaken'
  PROVE  MarkingOK' /\ \A p \in stale' \ Dirty' : StaleOK(p)'
<1>1. UNCHANGED <<windows, calc_window, xeyes_window, calculator, stale, overtaken>>
  BY DEF XEyesWrite, XEyesMarked, screen, apps, picture
<1>2. /\ MarkingOK' /\ Dirty \subseteq Dirty'
      /\ xeyes' # Halting => Marking /\ xeyes'.pc = xeyes.pc /\ xeyes'.rect = xeyes.rect
      /\ xeyes' = Halting => Inside(xeyes.rect) \subseteq Dirty'
  BY <1>1, XEyesAdds DEF MarksOK
<1>3. xeyes.pc \in {"fresh", "grow"} /\ xeyes_window # 0 /\ Layered(windows, window_count)
  BY DEF XEyesWrite, XEyesMarked, Marking, Types, TasksOK, WindowsOK
<1>4. ASSUME NEW p \in stale' \ Dirty' PROVE StaleOK(p)'
  <2>1. StaleOK(p)
    BY <1>1, <1>2, <1>4 DEF MarksOK
  <2>2. CASE xeyes' # Halting
    BY <1>1, <1>2, <2>1, <2>2 DEF StaleOK, NotClaimed, Marking
  <2>3. CASE xeyes' = Halting
    <3>1. Shows(windows, p) # <<xeyes_window, "body">>
      BY <1>2, <1>3, <1>4, <2>1, <2>3 DEF StaleOK, Marking
    <3>2. Shows(windows, p)[1] = xeyes_window => Shows(windows, p)[2] \in {"border", "title"}
      BY <1>3, <3>1, ShownIsThere
    <3>3. xeyes'.pc = "hlt"
      BY <2>3 DEF Halting
    <3>. QED
      BY <1>1, <2>1, <3>2, <3>3 DEF StaleOK, NotClaimed, Marking
  <2>. QED
    BY <2>2, <2>3
<1>. QED
  BY <1>2, <1>4

LEMMA MarksKept == ASSUME DesktopAssumption, Types, MarksOK, [Next]_vars PROVE MarksOK'
<1>1. ASSUME UNCHANGED <<windows, calc_window, xeyes_window, calculator, xeyes, have_dirty, dirty,
                         stale, overtaken>>
      PROVE  MarksOK'
  BY <1>1 DEF MarksOK, MarkingOK, StaleOK, NotClaimed, Marking, Written, Dirty
<1>2. CASE MousePacket
  BY <1>1, <1>2 DEF MousePacket, screen, apps, damage, picture
<1>3. CASE TypeKey
  BY <1>3, TypeKeyMarks DEF MarksOK
<1>4. CASE StartWm
  BY <1>4, StartWmMarks DEF MarksOK
<1>5. CASE OpenCalculator
  BY <1>5, OpenCalculatorMarks DEF MarksOK
<1>6. CASE OpenXEyes
  BY <1>6, OpenXEyesMarks DEF MarksOK
<1>7. CASE WmTask
  <2>1. PICK c \in DOMAIN compositors : ReadMouse(c) \/ FirstFrame(c) \/ Frame(c)
    BY <1>7 DEF WmTask
  <2>2. CASE ReadMouse(c)
    BY <1>1, <2>2 DEF ReadMouse, screen, apps, damage, picture
  <2>3. CASE FirstFrame(c)
    <3>1. stale' = {} /\ UNCHANGED <<xeyes, have_dirty, dirty, overtaken>>
      BY <2>3 DEF FirstFrame, damage
    <3>. QED
      BY <3>1 DEF MarksOK, MarkingOK, Marking, Written
  <2>4. CASE Frame(c)
    BY <2>4, FrameMarks DEF MarksOK
  <2>. QED
    BY <2>1, <2>2, <2>3, <2>4
<1>8. CASE CalculatorFirst \/ CalculatorPoll
  BY <1>8, CalculatorMarks DEF MarksOK
<1>9. CASE XEyesDraw
  BY <1>9, XEyesDrawMarks DEF MarksOK
<1>10. CASE XEyesTest
  BY <1>10, XEyesTestMarks DEF MarksOK
<1>11. CASE XEyesWrite \/ XEyesMarked
  BY <1>11, XEyesWriteMarks DEF MarksOK
<1>12. CASE UNCHANGED vars
  BY <1>1, <1>12 DEF vars, screen, apps, damage, picture
<1>. QED
  BY <1>2, <1>3, <1>4, <1>5, <1>6, <1>7, <1>8, <1>9, <1>10, <1>11, <1>12 DEF Next, Keyboard, Apps

-----------------------------------------------------------------------------
(* The cursor.                                                             *)

LEMMA CursorKept == ASSUME DesktopAssumption, Types, CursorOK, [Next]_vars PROVE CursorOK'
<1>1. ASSUME UNCHANGED <<early, compositors, mouse_x, mouse_y, cursor>> PROVE CursorOK'
  BY <1>1 DEF CursorOK
<1>2. CASE MousePacket
  <2>1. UNCHANGED <<compositors, cursor>> /\ early \in BOOLEAN
    BY <1>2 DEF MousePacket, picture, Types, NumbersOK
  <2>2. CASE UNCHANGED <<mouse, early>>
    BY <1>1, <2>1, <2>2 DEF mouse
  <2>3. CASE early' = (early \/ /\ <<mouse_x, mouse_y>>' # <<mouse_x, mouse_y>>
                                /\ \E c \in DOMAIN compositors : compositors[c].pc = "read")
    BY <2>1, <2>3 DEF CursorOK
  <2>. QED
    BY <1>2, <2>2, <2>3 DEF MousePacket
<1>3. CASE StartWm
  <2>1. /\ UNCHANGED <<early, mouse_x, mouse_y, cursor>>
        /\ compositors' = (IF ~TaskSlotLeft THEN compositors
              ELSE Append(compositors, [pc |-> "created", at |-> <<0, 0>>, left |-> FALSE]))
    BY <1>3 DEF StartWm, mouse
  <2>2. CASE ~TaskSlotLeft
    BY <1>1, <2>1, <2>2
  <2>3. CASE TaskSlotLeft
    <3> DEFINE new == [pc |-> "created", at |-> <<0, 0>>, left |-> FALSE]
               k == Len(compositors) + 1
    <3>1. compositors \in Seq(Compositor) /\ new \in Compositor
      BY DEF Types, TasksOK, Compositor
    <3>2. /\ Len(compositors) \in Nat /\ DOMAIN compositors = 1 .. Len(compositors)
          /\ Len(compositors') = k /\ DOMAIN compositors' = 1 .. k
          /\ compositors'[k] = new
          /\ \A c \in DOMAIN compositors : compositors'[c] = compositors[c]
      BY <2>1, <2>3, <3>1, AppendProperties, LenProperties
    <3>3. new.pc = "created"
      OBVIOUS
    <3>. HIDE DEF new, k
    <3>4. \A c \in DOMAIN compositors' : c \in DOMAIN compositors \/ c = k
      BY <3>2 DEF k
    <3>5. Len(compositors') <= 1 => DOMAIN compositors = {}
      BY <3>2 DEF k
    <3>. QED
      BY <2>1, <3>2, <3>3, <3>4, <3>5 DEF CursorOK
  <2>. QED
    BY <2>2, <2>3
<1>4. CASE WmTask
  <2>1. PICK c \in DOMAIN compositors : ReadMouse(c) \/ FirstFrame(c) \/ Frame(c)
    BY <1>4 DEF WmTask
  <2>2. /\ compositors \in Seq(Compositor) /\ compositors[c] \in Compositor
        /\ DOMAIN compositors = 1 .. Len(compositors) /\ Len(compositors) \in Nat
    BY CompositorIs, LenProperties DEF Types, TasksOK
  <2>3. Len(compositors) <= 1 => \A k \in DOMAIN compositors : k = c
    BY <2>2
  <2>4. ASSUME NEW new, compositors' = [compositors EXCEPT ![c] = new], new \in Compositor
        PROVE  /\ DOMAIN compositors' = DOMAIN compositors /\ compositors'[c] = new
               /\ \A k \in DOMAIN compositors \ {c} : compositors'[k] = compositors[k]
               /\ Len(compositors') = Len(compositors)
    BY <2>2, <2>4, CompositorSet, LenProperties, ExceptSeq
  <2>5. CASE ReadMouse(c)
    <3> DEFINE new == [pc |-> "read", at |-> Mouse, left |-> left_button]
    <3>1. /\ UNCHANGED <<early, mouse_x, mouse_y, cursor>>
          /\ compositors' = [compositors EXCEPT ![c] = new]
          /\ new \in Compositor /\ new.pc = "read" /\ new.at = <<mouse_x, mouse_y>>
      BY <2>5, MouseIs DEF ReadMouse, Mouse, mouse, picture, Compositor
    <3>. HIDE DEF new
    <3>. QED
      BY <2>3, <2>4, <3>1 DEF CursorOK
  <2>6. CASE FirstFrame(c)
    <3> DEFINE new == [compositors[c] EXCEPT !.pc = "loop"]
    <3>1. /\ UNCHANGED <<early, mouse_x, mouse_y>> /\ compositors[c].pc = "read"
          /\ compositors' = [compositors EXCEPT ![c] = new] /\ cursor' = <<mouse_x, mouse_y>>
          /\ new \in Compositor /\ new.pc = "loop" /\ new.at = compositors[c].at
      BY <2>2, <2>6 DEF FirstFrame, mouse, Compositor
    <3>. HIDE DEF new
    <3>2. ~early => new.at = cursor'
      BY <3>1 DEF CursorOK
    <3>. QED
      BY <2>3, <2>4, <3>1, <3>2 DEF CursorOK
  <2>7. CASE Frame(c)
    <3> DEFINE new == [pc |-> "loop", at |-> Mouse, left |-> left_button]
    <3>1. /\ UNCHANGED <<early, mouse_x, mouse_y>>
          /\ compositors' = [compositors EXCEPT ![c] = new] /\ cursor' = Mouse
          /\ new \in Compositor /\ new.pc = "loop" /\ new.at = Mouse
      BY <2>7, MouseIs DEF Frame, Mouse, mouse, Compositor
    <3>. HIDE DEF new
    <3>. QED
      BY <2>3, <2>4, <3>1 DEF CursorOK
  <2>. QED
    BY <2>1, <2>5, <2>6, <2>7
<1>5. CASE TypeKey \/ OpenCalculator \/ OpenXEyes
  BY <1>1, <1>5 DEF TypeKey, OpenCalculator, OpenXEyes, OpenWindow, mouse
<1>6. CASE CalculatorFirst \/ CalculatorPoll
  BY <1>1, <1>6 DEF CalculatorFirst, CalculatorPoll, mouse
<1>7. CASE XEyesDraw \/ XEyesTest \/ XEyesWrite \/ XEyesMarked
  BY <1>1, <1>7 DEF XEyesDraw, XEyesTest, XEyesWrite, XEyesMarked, mouse, picture
<1>8. CASE UNCHANGED vars
  BY <1>1, <1>8 DEF vars, mouse, picture
<1>. QED
  BY <1>2, <1>3, <1>4, <1>5, <1>6, <1>7, <1>8 DEF Next, Keyboard, Apps

LEMMA GhostKept ==
  ASSUME DesktopAssumption, Types, MarksOK, CursorOK, NoGhostCursor, [Next]_vars
  PROVE  NoGhostCursor'
<1>. SUFFICES ASSUME ~overtaken', ~early', Len(compositors') <= 1 PROVE ghost' \subseteq Dirty'
  BY DEF NoGhostCursor
<1>1. ASSUME UNCHANGED ghost, Dirty \subseteq Dirty', overtaken => overtaken', early => early',
             Len(compositors') <= 1 => Len(compositors) <= 1
      PROVE  ghost' \subseteq Dirty'
  BY <1>1 DEF NoGhostCursor
<1>2. ASSUME UNCHANGED <<ghost, have_dirty, dirty, overtaken>>, early => early',
             Len(compositors') <= 1 => Len(compositors) <= 1
      PROVE  ghost' \subseteq Dirty'
  BY <1>1, <1>2 DEF Dirty
<1>3. CASE MousePacket
  <2>1. UNCHANGED <<ghost, have_dirty, dirty, overtaken, compositors>> /\ (early => early')
    BY <1>3 DEF MousePacket, picture, damage
  <2>. QED
    BY <1>2, <2>1
<1>4. CASE TypeKey
  <2>1. /\ UNCHANGED <<ghost, early, compositors>> /\ (overtaken => overtaken')
        /\ Mark(add_dirty(Marked, console_dirty))
    BY <1>4 DEF TypeKey, NoteOvertaking
  <2>2. Dirty \subseteq Dirty'
    BY <2>1, ConsoleMarks, MarkIs
  <2>. QED
    BY <1>1, <2>1, <2>2
<1>5. CASE StartWm
  <2>1. /\ UNCHANGED <<ghost, early>> /\ (overtaken => overtaken')
        /\ Mark(add_dirty(add_dirty(Marked, console_dirty), TitledRect(Terminal)))
        /\ wm_create_window(Terminal)
        /\ compositors' = (IF ~TaskSlotLeft THEN compositors
              ELSE Append(compositors, [pc |-> "created", at |-> <<0, 0>>, left |-> FALSE]))
    BY <1>5 DEF StartWm, NoteOvertaking
  <2>2. TitledRect(Terminal) \in Rectangle
    <3>1. TitledRect(Terminal) = TitledRect(Opened(Terminal)) /\ Opened(Terminal) \in Window
      BY <2>1, WindowOpens DEF TitledRect, Opened, Types
    <3>. QED
      BY <3>1, RectTypes
  <2>3. Dirty \subseteq Dirty'
    BY <2>1, <2>2, ConsoleMarks, TwoMarksAre
  <2>4. Len(compositors') >= Len(compositors) /\ Len(compositors) \in Nat /\ Len(compositors') \in Nat
    <3>1. compositors \in Seq(Compositor)
      BY DEF Types, TasksOK
    <3>2. [pc |-> "created", at |-> <<0, 0>>, left |-> FALSE] \in Compositor
      BY DEF Compositor
    <3>. QED
      BY <2>1, <3>1, <3>2, AppendProperties, LenProperties
  <2>. QED
    BY <1>1, <2>1, <2>3, <2>4
<1>6. CASE OpenCalculator \/ OpenXEyes
  <2>1. /\ UNCHANGED <<ghost, early, compositors>> /\ (overtaken => overtaken')
        /\ Mark(add_dirty(Marked, console_dirty))
    BY <1>6 DEF OpenCalculator, OpenXEyes, OpenWindow, NoteOvertaking
  <2>2. Dirty \subseteq Dirty'
    BY <2>1, ConsoleMarks, MarkIs
  <2>. QED
    BY <1>1, <2>1, <2>2
<1>7. CASE WmTask
  <2>1. PICK c \in DOMAIN compositors : ReadMouse(c) \/ FirstFrame(c) \/ Frame(c)
    BY <1>7 DEF WmTask
  <2>2. ASSUME NEW new, compositors' = [compositors EXCEPT ![c] = new], new \in Compositor
        PROVE  Len(compositors') = Len(compositors)
    BY <2>2, CompositorSet, LenProperties, ExceptSeq DEF Types, TasksOK
  <2>3. CASE ReadMouse(c)
    <3>1. /\ UNCHANGED <<ghost, have_dirty, dirty, overtaken, early>>
          /\ compositors' = [compositors EXCEPT ![c] = [pc |-> "read", at |-> Mouse, left |-> left_button]]
          /\ [pc |-> "read", at |-> Mouse, left |-> left_button] \in Compositor
      BY <2>3, MouseIs DEF ReadMouse, Mouse, picture, damage, Compositor
    <3>. QED
      BY <1>2, <2>2, <3>1
  <2>4. CASE FirstFrame(c)
    BY <2>4 DEF FirstFrame
  <2>5. CASE Frame(c)
    <3>1. UNCHANGED early /\ (overtaken => overtaken') /\ compositors[c].pc = "loop"
      BY <2>5 DEF Frame, NoteOvertaking
    <3>2. PICK d : FrameEffect(c, d)
      BY <2>5, FrameIs
    <3>3. [pc |-> "loop", at |-> Mouse, left |-> left_button] \in Compositor
      BY MouseIs DEF Compositor
    <3>4. Len(compositors') = Len(compositors)
      BY <2>2, <3>2, <3>3 DEF FrameEffect
    <3>5. ghost \subseteq Covered(d) /\ compositors[c].at = cursor
      BY <2>1, <3>1, <3>2, <3>4 DEF NoGhostCursor, CursorOK, FrameEffect
    <3>6. cursor # Mouse => Screen \cap (CursorBox(cursor) \cup CursorBox(Mouse)) \subseteq Covered(d)
      BY <3>2, <3>5 DEF FrameEffect
    <3>7. ghost' = {}
      BY <3>2, <3>5, <3>6 DEF FrameEffect
    <3>. QED
      BY <3>7
  <2>. QED
    BY <2>1, <2>3, <2>4, <2>5
<1>8. CASE CalculatorFirst \/ CalculatorPoll
  <2>1. /\ UNCHANGED <<ghost, early, compositors>> /\ (overtaken => overtaken')
        /\ calculator.pc # "off" /\ (DrawCalculator \/ UNCHANGED damage)
    BY <1>8 DEF CalculatorFirst, CalculatorPoll, NoteOvertaking
  <2>2. calc_window # 0
    BY <2>1 DEF Types, TasksOK
  <2>3. Dirty \subseteq Dirty'
    <3>1. CASE DrawCalculator
      BY <2>2, <3>1, DrawCalculatorIs
    <3>2. CASE UNCHANGED damage
      BY <3>2 DEF Dirty, damage, Inside
    <3>. QED
      BY <2>1, <3>1, <3>2
  <2>. QED
    BY <1>1, <2>1, <2>3
<1>9. CASE XEyesDraw \/ XEyesTest
  BY <1>2, <1>9 DEF XEyesDraw, XEyesTest, damage, picture
<1>10. CASE XEyesWrite \/ XEyesMarked
  <2>1. UNCHANGED <<ghost, overtaken, early, compositors>>
    BY <1>10 DEF XEyesWrite, XEyesMarked, picture
  <2>2. Dirty \subseteq Dirty'
    BY <1>10, <2>1, XEyesAdds DEF MarksOK
  <2>. QED
    BY <1>1, <2>1, <2>2
<1>11. CASE UNCHANGED vars
  BY <1>2, <1>11 DEF vars, damage, picture
<1>. QED
  BY <1>3, <1>4, <1>5, <1>6, <1>7, <1>8, <1>9, <1>10, <1>11 DEF Next, Keyboard, Apps

-----------------------------------------------------------------------------
(* The theorems.                                                           *)

LEMMA Starting == ASSUME DesktopAssumption, Init PROVE IInv
<1>1. WindowsOK
  <2>1. windows = <<>> /\ window_count = 0
    BY DEF Init
  <2>2. windows \in Seq(Window) /\ DOMAIN windows = {}
    BY <2>1, EmptySeq
  <2>. QED
    BY <2>1, <2>2 DEF WindowsOK, Layered, Slots
<1>2. NumbersOK
  <2>1. mouse_x \in 0 .. Width - 1 /\ mouse_y \in 0 .. Height - 1
    BY DEF Init, DesktopAssumption, MouseAssumption
  <2>2. MAX_TASKS \in Nat \ {0} /\ tasks = 0
    BY SizesAre DEF Init
  <2>3. tasks \in 0 .. MAX_TASKS - 1
    BY <2>2
  <2>4. {console_window, calc_window, xeyes_window, dragging_window} \subseteq {0} \cup Slots
    BY DEF Init
  <2>5. drag_offset \in Int \X Int
    BY DEF Init
  <2>6. /\ left_button \in BOOLEAN /\ early \in BOOLEAN
        /\ packets \in Nat /\ keys \in Nat /\ clicks \in Nat /\ hits \in Nat
    BY DEF Init
  <2>. QED
    BY <2>1, <2>3, <2>4, <2>5, <2>6 DEF NumbersOK
<1>3. TasksOK
  BY WholeScreenIs, EmptySeq DEF Init, TasksOK
<1>4. PictureTypes
  <2>1. StartX \in Int /\ StartY \in Int
    BY SizesAre DEF DesktopAssumption, MouseAssumption
  <2>. QED
    BY <2>1, WholeScreenIs DEF Init, PictureTypes
<1>5. Dirty = Inside(WholeScreen) /\ stale = Screen /\ ghost = Screen /\ xeyes.pc = "off"
  BY DEF Init, Dirty
<1>6. MarksOK /\ NoGhostCursor
  BY <1>5, WholeScreenIs DEF MarksOK, MarkingOK, Marking, NoGhostCursor
<1>7. ClicksOK /\ CursorOK
  BY DEF Init, ClicksOK, CursorOK
<1>. QED
  BY <1>1, <1>2, <1>3, <1>4, <1>6, <1>7 DEF IInv, Types

LEMMA Staying == ASSUME DesktopAssumption, IInv, [Next]_vars PROVE IInv'
BY TypesKept, ClicksKept, MarksKept, CursorKept, GhostKept DEF IInv

\* Every window stays on the screen with its title bar, so does the mouse,
\* and every pointer to a window is null or one of the windows (wm_task,
\* wm.cpp lines 166-179; wm_create_window, lines 42-70).
THEOREM TypeCorrect == ASSUME DesktopAssumption PROVE Spec => []TypeOK
<1>1. IInv => TypeOK
  <2> SUFFICES ASSUME IInv PROVE TypeOK
    OBVIOUS
  <2>1. ASSUME NEW i \in Slots
        PROVE  /\ windows[i].x \in 0 .. Width - windows[i].width
               /\ windows[i].y \in TITLEBAR_H .. Height - windows[i].height
               /\ windows[i].layer \in 0 .. window_count - 1
    <3>1. Layered(windows, window_count) /\ OnScreen(windows[i])
      BY DEF IInv, Types, WindowsOK, Slots
    <3>2. windows[i] \in Window /\ windows[i].layer \in Nat
      BY <3>1, SlotIs DEF Slots
    <3>3. windows[i].layer < window_count /\ window_count \in Nat
      BY <3>1 DEF Layered, Slots
    <3>4. windows[i].layer \in 0 .. window_count - 1
      BY <3>2, <3>3
    <3>. QED
      BY <3>1, <3>4 DEF OnScreen
  <2>. QED
    BY <2>1 DEF TypeOK, IInv, Types, NumbersOK, PictureTypes
<1>. QED
  BY <1>1, Starting, Staying, PTL DEF Spec

\* Whatever changed on the screen since it was painted will be redrawn, in
\* every order of output, clicks, drags, openings and frames, unless a mark
\* came between those of xeyes (add_dirty, wm.cpp lines 27-40; wm_task,
\* lines 152-207; xeyes.cpp line 103).
THEOREM PictureIsKept == ASSUME DesktopAssumption PROVE Spec => []PictureKept
<1>1. IInv => PictureKept
  BY DEF IInv, MarksOK, StaleOK, PictureKept, NothingLeftStale
<1>. QED
  BY <1>1, Starting, Staying, PTL DEF Spec

\* A press on a title bar that can be seen takes hold of its window: the
\* order of drawing and that of the hit test agree, since no two windows
\* ever have the same layer (wm.cpp lines 78-109).
THEOREM SeenIsGrabbed == ASSUME DesktopAssumption PROVE Spec => []GrabsWhatIsSeen
<1>1. IInv => GrabsWhatIsSeen
  <2>. SUFFICES ASSUME IInv, NEW i \in Slots, NEW p \in TitleBar(windows[i]) \ CloseButton(windows[i]),
                       p \in Screen, Shows(windows, p)[1] = i
                PROVE  wm_titlebar_hit_test(p) = i
    BY DEF GrabsWhatIsSeen
  <2>1. WindowsOK /\ Layered(windows, window_count)
    BY DEF IInv, Types, WindowsOK
  <2>2. i \in Grips(p) /\ Grips(p) \subseteq Covers(windows, p)
    <3>1. p \in Int \X Int
      BY ScreenIs
    <3>2. ASSUME NEW j \in Slots, p \in TitleBar(windows[j]) PROVE p \in WithBorder(windows[j])
      <4>1. windows[j] \in Window
        BY <2>1, SlotIs DEF Slots
      <4> DEFINE w == windows[j]
      <4>2. /\ w.x <= p[1] /\ p[1] < w.x + w.width
            /\ w.y - TITLEBAR_H <= p[2] /\ p[2] < w.y - TITLEBAR_H + TITLEBAR_H
        BY <3>1, <3>2, <4>1, WindowIs, BoxIs DEF TitleBar
      <4>. HIDE DEF w
      <4>3. /\ w.x - 1 <= p[1] /\ p[1] < w.x - 1 + (w.width + 2)
            /\ w.y - TITLEBAR_H - 1 <= p[2]
            /\ p[2] < w.y - TITLEBAR_H - 1 + (w.height + TITLEBAR_H + 2)
        BY <3>1, <4>1, <4>2, WindowIs DEF w
      <4>. QED
        BY <3>1, <4>1, <4>3, WindowIs, BoxIs DEF WithBorder, w
    <3>. QED
      BY <3>2 DEF Grips, Covers, Slots
  <2>3. PICK t : IsTop(windows, p, t) /\ Shows(windows, p) = What(windows[t], t, p)
    BY <2>1, <2>2, ShowsIs
  <2>4. t = i /\ \A j \in Grips(p) : windows[j].layer <= windows[i].layer
    BY <2>2, <2>3 DEF What, IsTop
  <2> DEFINE h == wm_titlebar_hit_test(p)
  <2>5. h \in Grips(p) /\ windows[i].layer <= windows[h].layer
    BY <2>1, <2>2, HitIs
  <2>. HIDE DEF h
  <2>6. windows[h].layer = windows[i].layer
    <3>1. windows[h].layer \in Nat /\ windows[i].layer \in Nat
      BY <2>1, <2>5, SlotIs DEF Grips, Slots
    <3>. QED
      BY <2>4, <2>5, <3>1
  <2>. QED
    BY <2>1, <2>5, <2>6 DEF Layered, Grips, Slots, h
<1>. QED
  BY <1>1, Starting, Staying, PTL DEF Spec

\* However its polls fall between the mouse interrupts, the calculator takes
\* no click for two (calculator.cpp lines 174-178).
THEOREM OneKeyEach == ASSUME DesktopAssumption PROVE Spec => []OneKeyPerClick
<1>1. IInv => OneKeyPerClick
  BY DEF IInv, Types, NumbersOK, ClicksOK, OneKeyPerClick
<1>. QED
  BY <1>1, Starting, Staying, PTL DEF Spec
=============================================================================
