---------------------- MODULE CpuGraphicsDriver_proofs ----------------------
(***************************************************************************)
(* The back buffer shows what was asked for, and the screen catches up     *)
(* with it, for every size of the screen and of its rows and every set of  *)
(* calls.  The first part is geometry: clipping a rectangle loses none of  *)
(* its positions on the screen and adds none, and an address belongs to    *)
(* one position only.  The second is the invariant of the driver's steps.  *)
(***************************************************************************)
EXTENDS CpuGraphicsDriver, TLAPS

(* A rectangle that lies on the screen. *)
OnScreen(r) ==
  /\ r.x \in Nat /\ r.y \in Nat /\ r.w \in Nat /\ r.h \in Nat
  /\ r.x + r.w <= Width /\ r.y + r.h <= Height

LEMMA RectFields ==
  ASSUME NEW x, NEW y, NEW w, NEW h
  PROVE  /\ Rect(x, y, w, h).x = x /\ Rect(x, y, w, h).y = y
         /\ Rect(x, y, w, h).w = w /\ Rect(x, y, w, h).h = h
BY DEF Rect

LEMMA ScreenSize ==
  /\ Width \in Nat /\ Height \in Nat /\ Stride \in Nat
  /\ Width > 0 /\ Height > 0 /\ Stride > 0 /\ Width <= Stride
BY ScreenAssumption

(* Rows do not overlap. *)
LEMMA RowsApart ==
  ASSUME NEW s \in Nat, NEW y \in Nat, NEW z \in Nat, y < z
  PROVE  y * s + s <= z * s
<1>1. z - y - 1 \in Nat
  OBVIOUS
<1>2. (z - y - 1) * s \in Nat
  BY <1>1
<1>3. (z - y - 1) * s = z * s - y * s - s
  OBVIOUS
<1> QED
  BY <1>2, <1>3

LEMMA AddressInjective ==
  ASSUME NEW s \in Nat, NEW x \in Nat, NEW y \in Nat, NEW v \in Nat, NEW w \in Nat,
         x < s, v < s, y * s + x = w * s + v
  PROVE  x = v /\ y = w
<1>1. y * s \in Nat /\ w * s \in Nat
  OBVIOUS
<1>2. ~(y < w)
  <2> SUFFICES ASSUME y < w PROVE FALSE
    OBVIOUS
  <2>1. y * s + s <= w * s
    BY RowsApart
  <2> QED
    BY <1>1, <2>1
<1>3. ~(w < y)
  <2> SUFFICES ASSUME w < y PROVE FALSE
    OBVIOUS
  <2>1. w * s + s <= y * s
    BY RowsApart
  <2> QED
    BY <1>1, <2>1
<1>4. y = w
  BY <1>2, <1>3
<1> QED
  BY <1>1, <1>4

LEMMA DivisionByStride ==
  ASSUME NEW s \in Nat \ {0}, NEW a \in Nat
  PROVE  a \div s \in Nat /\ a % s \in Nat /\ a % s < s /\ a = (a \div s) * s + (a % s)
<1>1. a \div s \in Nat
  OBVIOUS
<1>2. a % s \in Int /\ a % s < s /\ 0 <= a % s
  OBVIOUS
<1>3. a = (a \div s) * s + (a % s)
  OBVIOUS
<1> QED
  BY <1>1, <1>2, <1>3

LEMMA ColumnOfAddress ==
  ASSUME NEW s \in Nat \ {0}, NEW x \in Nat, NEW y \in Nat, x < s
  PROVE  (y * s + x) % s = x
<1> DEFINE a == y * s + x
<1>1. a \in Nat
  OBVIOUS
<1> HIDE DEF a
<1>2. a \div s \in Nat /\ a % s \in Nat /\ a % s < s /\ a = (a \div s) * s + (a % s)
  BY <1>1, DivisionByStride
<1>3. y * s + x = (a \div s) * s + (a % s)
  BY <1>2 DEF a
<1> DEFINE w == a \div s
           v == a % s
<1>4. w \in Nat /\ v \in Nat /\ v < s /\ y * s + x = w * s + v /\ s \in Nat
  BY <1>2, <1>3
<1> HIDE DEF w, v
<1>5. x = v
  BY <1>4, AddressInjective
<1> QED
  BY <1>5 DEF a, v

LEMMA AddressInRange ==
  ASSUME NEW x \in Nat, NEW y \in Nat, x < Stride, y < Height
  PROVE  Address(x, y) \in Addresses
<1>1. y * Stride + Stride <= Height * Stride
  BY RowsApart, ScreenSize
<1>2. Height * Stride = Stride * Height /\ y * Stride \in Nat /\ Stride * Height \in Nat
  BY ScreenSize
<1>3. Stride \in Nat
  BY ScreenSize
<1> QED
  BY <1>1, <1>2, <1>3 DEF Address, Addresses, Size

-----------------------------------------------------------------------------
(* Clipping. *)

(* One dimension of it: the interval of length n from s on, cut to 0..(m-1). *)
Start(s) == IF s >= 0 THEN s ELSE 0
Rest(s, n) == n - (Start(s) - s)
Cut(s, n, m) == IF Start(s) + Rest(s, n) > m THEN m - Start(s) ELSE Rest(s, n)

LEMMA ClipInterval ==
  ASSUME NEW s \in Int, NEW n \in Nat, NEW m \in Nat, m > 0
  PROVE  /\ Start(s) \in Nat
         /\ Start(s) < m /\ Rest(s, n) >= 0 =>
              Cut(s, n, m) \in Nat /\ Start(s) + Cut(s, n, m) <= m
         /\ \A k \in 0..(m - 1) :
              s <= k /\ k < s + n
                <=> Start(s) < m /\ Start(s) <= k /\ k < Start(s) + Cut(s, n, m)
         /\ s >= 0 => Rest(s, n) >= 0
         /\ Rest(s, n) <= 0 => Cut(s, n, m) <= 0 \/ Start(s) >= m
BY DEF Start, Rest, Cut

(* What a call names. *)
Named(c, i) ==
  CASE c.kind = "clear"   -> Rect(0, 0, Width, Height)
    [] c.kind = "regions" -> Rect(c.regions[i].x, c.regions[i].y, c.regions[i].width, c.regions[i].height)
    [] c.kind = "blit"    -> Rect(c.fbX, c.fbY, c.width, c.height)

LEMMA PositionParts ==
  ASSUME NEW p \in Positions
  PROVE  /\ p[1] \in 0..(Width - 1) /\ p[2] \in 0..(Height - 1)
         /\ p[1] \in Nat /\ p[2] \in Nat /\ p[1] < Width /\ p[2] < Height /\ p[1] < Stride
BY ScreenSize DEF Positions

LEMMA NothingIsEmpty ==
  /\ \A p \in Positions : ~InRect(p, Nothing)
  /\ Cells(Nothing) = {} /\ Touched(Nothing) = {}
<1>1. Nothing.w = -1 /\ Nothing.h = -1 /\ Nothing.x = 0
  BY DEF Nothing, Rect
<1>2. Cells(Nothing) = {}
  BY <1>1 DEF Cells
<1> QED
  BY <1>1, <1>2, PositionParts DEF InRect, Touched

(* The region of a clear: what is drawn is what is named and visible.      *)
LEMMA RegionClipped ==
  ASSUME NEW c, IsCall(c), c.kind = "regions", NEW i \in 1..Parts(c)
  PROVE  /\ RectOf(c, i) = Nothing \/ OnScreen(RectOf(c, i))
         /\ \A p \in Positions : InRect(p, RectOf(c, i)) <=> InRect(p, Named(c, i))
<1> DEFINE r == c.regions[i]
           w == c.regions[1].width
           h == c.regions[1].height
           x == Start(r.x)
           y == Start(r.y)
<1>1. /\ i \in 1..Len(c.regions) /\ c.regions \in Seq(Regions) /\ Len(c.regions) \in Nat
  BY DEF Parts, IsCall
<1>2. /\ r.x \in Int /\ r.y \in Int /\ w \in Nat /\ h \in Nat
      /\ r.width = w /\ r.height = h
  <2>1. 1 \in 1..Len(c.regions)
    BY <1>1
  <2>2. c.regions[i] \in Regions /\ c.regions[1] \in Regions
    BY <1>1, <2>1
  <2>3. c.regions[i].width = c.regions[1].width /\ c.regions[i].height = c.regions[1].height
    BY <1>1 DEF IsCall
  <2> QED
    BY <2>2, <2>3 DEF Regions
<1>3. RectOf(c, i) =
        IF x >= Width \/ y >= Height \/ (r.x < 0 /\ Rest(r.x, w) <= 0) \/ (r.y < 0 /\ Rest(r.y, h) <= 0)
        THEN Nothing ELSE Rect(x, y, Cut(r.x, w, Width), Cut(r.y, h, Height))
  BY DEF RectOf, ClippedRegion, Start, Rest, Cut
<1>4. Named(c, i) = Rect(r.x, r.y, w, h)
  BY <1>2 DEF Named
<1> HIDE DEF r, w, h
<1>5. /\ x \in Nat
      /\ x < Width /\ Rest(r.x, w) >= 0 => Cut(r.x, w, Width) \in Nat /\ x + Cut(r.x, w, Width) <= Width
      /\ \A k \in 0..(Width - 1) :
           r.x <= k /\ k < r.x + w <=> x < Width /\ x <= k /\ k < x + Cut(r.x, w, Width)
      /\ r.x >= 0 => Rest(r.x, w) >= 0
      /\ Rest(r.x, w) <= 0 => Cut(r.x, w, Width) <= 0 \/ x >= Width
  BY <1>2, ClipInterval, ScreenSize
<1>6. /\ y \in Nat
      /\ y < Height /\ Rest(r.y, h) >= 0 => Cut(r.y, h, Height) \in Nat /\ y + Cut(r.y, h, Height) <= Height
      /\ \A k \in 0..(Height - 1) :
           r.y <= k /\ k < r.y + h <=> y < Height /\ y <= k /\ k < y + Cut(r.y, h, Height)
      /\ r.y >= 0 => Rest(r.y, h) >= 0
      /\ Rest(r.y, h) <= 0 => Cut(r.y, h, Height) <= 0 \/ y >= Height
  BY <1>2, ClipInterval, ScreenSize
<1>7. Rest(r.x, w) \in Int /\ Rest(r.y, h) \in Int
  BY <1>2 DEF Rest, Start
<1>8. Cut(r.x, w, Width) \in Int /\ Cut(r.y, h, Height) \in Int
  BY <1>2, <1>7, ScreenSize DEF Cut, Start
<1> DEFINE cw == Cut(r.x, w, Width)
           ch == Cut(r.y, h, Height)
<1> HIDE DEF x, y, cw, ch
<1> DEFINE off == x >= Width \/ y >= Height \/ (r.x < 0 /\ Rest(r.x, w) <= 0) \/ (r.y < 0 /\ Rest(r.y, h) <= 0)
<1>9. CASE off
  <2>1. RectOf(c, i) = Nothing
    BY <1>3, <1>9
  <2>2. ASSUME NEW p \in Positions, InRect(p, Named(c, i)) PROVE FALSE
    <3>1. r.x <= p[1] /\ p[1] < r.x + w /\ r.y <= p[2] /\ p[2] < r.y + h
      BY <1>4, <2>2, RectFields DEF InRect
    <3>2. p[1] \in 0..(Width - 1) /\ p[2] \in 0..(Height - 1)
      BY PositionParts
    <3>3. x < Width /\ x <= p[1] /\ p[1] < x + cw
      BY <1>5, <3>1, <3>2 DEF cw
    <3>4. y < Height /\ y <= p[2] /\ p[2] < y + ch
      BY <1>6, <3>1, <3>2 DEF ch
    <3>5. ~(Rest(r.x, w) <= 0)
      BY <1>5, <1>8, <3>2, <3>3, ScreenSize DEF cw
    <3>6. ~(Rest(r.y, h) <= 0)
      BY <1>6, <1>8, <3>2, <3>4, ScreenSize DEF ch
    <3> QED
      BY <1>5, <1>6, <1>9, <3>3, <3>4, <3>5, <3>6, ScreenSize
  <2> QED
    BY <2>1, <2>2, NothingIsEmpty
<1>10. CASE ~off
  <2>1. RectOf(c, i) = Rect(x, y, cw, ch)
    BY <1>3, <1>10 DEF cw, ch
  <2>2. x < Width /\ y < Height /\ Rest(r.x, w) >= 0 /\ Rest(r.y, h) >= 0
    BY <1>2, <1>5, <1>6, <1>7, <1>10, ScreenSize
  <2>3. cw \in Nat /\ ch \in Nat /\ x + cw <= Width /\ y + ch <= Height
    BY <1>5, <1>6, <2>2 DEF cw, ch
  <2>4. OnScreen(RectOf(c, i))
    BY <1>5, <1>6, <2>1, <2>3, RectFields DEF OnScreen
  <2>5. ASSUME NEW p \in Positions
        PROVE  InRect(p, RectOf(c, i)) <=> InRect(p, Named(c, i))
    <3>1. InRect(p, Named(c, i)) <=> r.x <= p[1] /\ p[1] < r.x + w /\ r.y <= p[2] /\ p[2] < r.y + h
      BY <1>4, RectFields DEF InRect
    <3>2. InRect(p, RectOf(c, i)) <=> x <= p[1] /\ p[1] < x + cw /\ y <= p[2] /\ p[2] < y + ch
      BY <2>1, RectFields DEF InRect
    <3>3. p[1] \in 0..(Width - 1) /\ p[2] \in 0..(Height - 1)
      BY PositionParts
    <3>4. r.x <= p[1] /\ p[1] < r.x + w <=> x <= p[1] /\ p[1] < x + cw
      BY <1>5, <2>2, <3>3 DEF cw
    <3>5. r.y <= p[2] /\ p[2] < r.y + h <=> y <= p[2] /\ p[2] < y + ch
      BY <1>6, <2>2, <3>3 DEF ch
    <3> QED
      BY <3>1, <3>2, <3>4, <3>5
  <2> QED
    BY <2>4, <2>5
<1> QED
  BY <1>9, <1>10

(* The part of an image that is drawn, and that it lies in the image.      *)
LEMMA BlitClipped ==
  ASSUME NEW c, IsCall(c), c.kind = "blit", NEW i
  PROVE  /\ RectOf(c, i) = Nothing \/ OnScreen(RectOf(c, i))
         /\ \A p \in Positions : InRect(p, RectOf(c, i)) <=> InRect(p, Named(c, i))
         /\ RectOf(c, i) # Nothing =>
              /\ RectOf(c, i).x = Start(c.fbX) /\ RectOf(c, i).y = Start(c.fbY)
              /\ \A q \in Cells(RectOf(c, i)) : ImageCell(c, q) \in DOMAIN c.image
<1> DEFINE w == c.width
           h == c.height
           x == Start(c.fbX)
           y == Start(c.fbY)
           cw == Cut(c.fbX, w, Width)
           ch == Cut(c.fbY, h, Height)
           ix == c.imageX + (x - c.fbX)
           iy == c.imageY + (y - c.fbY)
<1>1. /\ c.fbX \in Int /\ c.fbY \in Int /\ w \in Nat /\ h \in Nat
      /\ c.imageX \in Nat /\ c.imageY \in Nat
      /\ \A k \in c.imageX..(c.imageX + w - 1), l \in c.imageY..(c.imageY + h - 1) :
           <<k, l>> \in DOMAIN c.image
  BY DEF IsCall
<1>2. (IF c.fbX < 0 THEN 0 ELSE c.fbX) = x /\ (IF c.fbY < 0 THEN 0 ELSE c.fbY) = y
  BY <1>1 DEF Start
<1>3. /\ RectOf(c, i) = IF ix < 0 \/ iy < 0 \/ cw < 0 \/ ch < 0 \/ x >= Width \/ y >= Height
                        THEN Nothing ELSE Rect(x, y, cw, ch)
      /\ ClippedBlit(c).imageX = ix /\ ClippedBlit(c).imageY = iy
  BY <1>2 DEF RectOf, ClippedBlit, Rest, Cut
<1>4. Named(c, i) = Rect(c.fbX, c.fbY, w, h)
  BY DEF Named
<1>5. /\ x \in Nat
      /\ x < Width /\ Rest(c.fbX, w) >= 0 => cw \in Nat /\ x + cw <= Width
      /\ \A k \in 0..(Width - 1) :
           c.fbX <= k /\ k < c.fbX + w <=> x < Width /\ x <= k /\ k < x + cw
  <2> HIDE DEF w, h
  <2> QED
    BY <1>1, ClipInterval, ScreenSize
<1>6. /\ y \in Nat
      /\ y < Height /\ Rest(c.fbY, h) >= 0 => ch \in Nat /\ y + ch <= Height
      /\ \A k \in 0..(Height - 1) :
           c.fbY <= k /\ k < c.fbY + h <=> y < Height /\ y <= k /\ k < y + ch
  <2> HIDE DEF w, h
  <2> QED
    BY <1>1, ClipInterval, ScreenSize
<1>7. /\ cw \in Int /\ ch \in Int /\ ix \in Nat /\ iy \in Nat
      /\ Rest(c.fbX, w) \in Int /\ Rest(c.fbY, h) \in Int
      /\ cw <= Rest(c.fbX, w) /\ ch <= Rest(c.fbY, h)
      /\ ix + Rest(c.fbX, w) = c.imageX + w /\ iy + Rest(c.fbY, h) = c.imageY + h
      /\ c.imageX <= ix /\ c.imageY <= iy
  BY <1>1, ScreenSize DEF Start, Rest, Cut
<1> HIDE DEF w, h, x, y, cw, ch, ix, iy
<1> DEFINE off == cw < 0 \/ ch < 0 \/ x >= Width \/ y >= Height
<1>8. RectOf(c, i) = IF off THEN Nothing ELSE Rect(x, y, cw, ch)
  BY <1>3, <1>7
<1>9. ASSUME NEW p \in Positions
      PROVE  /\ InRect(p, Named(c, i)) <=>
                  c.fbX <= p[1] /\ p[1] < c.fbX + w /\ c.fbY <= p[2] /\ p[2] < c.fbY + h
             /\ c.fbX <= p[1] /\ p[1] < c.fbX + w <=> x < Width /\ x <= p[1] /\ p[1] < x + cw
             /\ c.fbY <= p[2] /\ p[2] < c.fbY + h <=> y < Height /\ y <= p[2] /\ p[2] < y + ch
             /\ p[1] \in Nat /\ p[2] \in Nat
  <2>1. InRect(p, Named(c, i)) <=>
          c.fbX <= p[1] /\ p[1] < c.fbX + w /\ c.fbY <= p[2] /\ p[2] < c.fbY + h
    BY <1>4, RectFields DEF InRect
  <2>2. p[1] \in 0..(Width - 1) /\ p[2] \in 0..(Height - 1) /\ p[1] \in Nat /\ p[2] \in Nat
    BY PositionParts
  <2> QED
    BY <1>5, <1>6, <2>1, <2>2
<1>10. CASE off
  <2>1. RectOf(c, i) = Nothing
    BY <1>8, <1>10
  <2>2. ASSUME NEW p \in Positions, InRect(p, Named(c, i)) PROVE FALSE
    BY <1>5, <1>6, <1>7, <1>9, <1>10, <2>2, ScreenSize
  <2> QED
    BY <2>1, <2>2, NothingIsEmpty
<1>11. CASE ~off
  <2>1. RectOf(c, i) = Rect(x, y, cw, ch)
    BY <1>8, <1>11
  <2>2. x < Width /\ y < Height /\ cw \in Nat /\ ch \in Nat
    BY <1>5, <1>6, <1>7, <1>11, ScreenSize
  <2>3. x + cw <= Width /\ y + ch <= Height
    BY <1>5, <1>6, <1>7, <2>2
  <2>4. OnScreen(RectOf(c, i))
    BY <1>5, <1>6, <2>1, <2>2, <2>3, RectFields DEF OnScreen
  <2>5. ASSUME NEW p \in Positions
        PROVE  InRect(p, RectOf(c, i)) <=> InRect(p, Named(c, i))
    <3>1. InRect(p, RectOf(c, i)) <=> x <= p[1] /\ p[1] < x + cw /\ y <= p[2] /\ p[2] < y + ch
      BY <2>1, RectFields DEF InRect
    <3> QED
      BY <1>9, <2>2, <3>1
  <2>6. ASSUME NEW q \in Cells(RectOf(c, i)) PROVE ImageCell(c, q) \in DOMAIN c.image
    <3>1. q[1] \in 0..(cw - 1) /\ q[2] \in 0..(ch - 1)
      BY <2>1, RectFields DEF Cells
    <3>2. ix + q[1] \in c.imageX..(c.imageX + w - 1) /\ iy + q[2] \in c.imageY..(c.imageY + h - 1)
      BY <1>1, <1>7, <3>1
    <3>3. ImageCell(c, q) = <<ix + q[1], iy + q[2]>>
      BY <1>3 DEF ImageCell
    <3> QED
      BY <1>1, <3>2, <3>3
  <2> QED
    BY <2>1, <2>4, <2>5, <2>6, RectFields DEF x, y
<1> QED
  BY <1>10, <1>11

(* A rectangle that may be drawn. *)
Drawable(r) == r = Nothing \/ OnScreen(r)

LEMMA RectClipped ==
  ASSUME NEW c, IsCall(c), NEW i \in 1..Parts(c)
  PROVE  /\ Drawable(RectOf(c, i))
         /\ \A p \in Positions : InRect(p, RectOf(c, i)) <=> InRect(p, Named(c, i))
<1>1. CASE c.kind = "clear"
  <2>1. RectOf(c, i) = Rect(0, 0, Width, Height) /\ Named(c, i) = Rect(0, 0, Width, Height)
    BY <1>1 DEF RectOf, Named
  <2>2. OnScreen(RectOf(c, i))
    BY <2>1, RectFields, ScreenSize DEF OnScreen
  <2> QED
    BY <2>1, <2>2 DEF Drawable
<1>2. CASE c.kind = "regions"
  BY <1>2, RegionClipped DEF Drawable
<1>3. CASE c.kind = "blit"
  BY <1>3, BlitClipped DEF Drawable
<1> QED
  BY <1>1, <1>2, <1>3 DEF IsCall

-----------------------------------------------------------------------------
(* Addresses of a rectangle. *)

LEMMA CellOnScreen ==
  ASSUME NEW r, OnScreen(r), NEW q \in Cells(r)
  PROVE  /\ q[1] \in Nat /\ q[2] \in Nat /\ q[1] < r.w /\ q[2] < r.h
         /\ q = <<q[1], q[2]>>
         /\ r.x + q[1] \in Nat /\ r.y + q[2] \in Nat
         /\ r.x + q[1] < Width /\ r.x + q[1] < Stride /\ r.y + q[2] < Height
<1>1. q[1] \in 0..(r.w - 1) /\ q[2] \in 0..(r.h - 1) /\ q = <<q[1], q[2]>>
  BY DEF Cells
<1>2. r.x \in Nat /\ r.y \in Nat /\ r.w \in Nat /\ r.h \in Nat
      /\ r.x + r.w <= Width /\ r.y + r.h <= Height
  BY DEF OnScreen
<1> QED
  BY <1>1, <1>2, ScreenSize

(* Only addresses of the screen are touched. *)
LEMMA TouchedOnScreen ==
  ASSUME NEW r, Drawable(r)
  PROVE  /\ Touched(r) \subseteq Addresses
         /\ \A a \in Touched(r) : a % Stride < Width
<1>1. CASE r = Nothing
  BY <1>1, NothingIsEmpty
<1>2. CASE OnScreen(r)
  <2>1. ASSUME NEW a \in Touched(r)
        PROVE  a \in Addresses /\ a % Stride < Width
    <3>1. PICK q \in Cells(r) : a = Address(r.x + q[1], r.y + q[2])
      BY DEF Touched
    <3> DEFINE x == r.x + q[1]
               y == r.y + q[2]
    <3>2. x \in Nat /\ y \in Nat /\ x < Width /\ x < Stride /\ y < Height
      BY <1>2, CellOnScreen
    <3> HIDE DEF x, y
    <3>3. a = Address(x, y)
      BY <3>1 DEF x, y
    <3>4. Address(x, y) \in Addresses
      BY <3>2, AddressInRange
    <3>5. Stride \in Nat \ {0}
      BY ScreenSize
    <3>6. (y * Stride + x) % Stride = x
      BY <3>2, <3>5, ColumnOfAddress
    <3> QED
      BY <3>2, <3>3, <3>4, <3>6 DEF Address
  <2> QED
    BY <2>1
<1> QED
  BY <1>1, <1>2 DEF Drawable

LEMMA SameAddress ==
  ASSUME NEW x \in Nat, NEW y \in Nat, NEW v \in Nat, NEW w \in Nat,
         x < Stride, v < Stride, Address(x, y) = Address(v, w)
  PROVE  x = v /\ y = w
<1>1. y * Stride + x = w * Stride + v
  BY DEF Address
<1> QED
  BY <1>1, AddressInjective, ScreenSize

(* The position p is touched if and only if it lies in the rectangle, and  *)
(* then by the cell at its place in it.                                    *)
LEMMA TouchedPositions ==
  ASSUME NEW r, Drawable(r), NEW p \in Positions
  PROVE  /\ Address(p[1], p[2]) \in Addresses
         /\ Address(p[1], p[2]) \in Touched(r) <=> InRect(p, r)
         /\ InRect(p, r) =>
              /\ <<p[1] - r.x, p[2] - r.y>> \in Cells(r)
              /\ \A q \in Cells(r) : Address(p[1], p[2]) = Address(r.x + q[1], r.y + q[2]) <=>
                                       q = <<p[1] - r.x, p[2] - r.y>>
<1>0. p[1] \in Nat /\ p[2] \in Nat /\ p[1] < Width /\ p[2] < Height /\ p[1] < Stride
  BY PositionParts
<1>1. Address(p[1], p[2]) \in Addresses
  BY <1>0, AddressInRange
<1>2. CASE r = Nothing
  BY <1>1, <1>2, NothingIsEmpty
<1>3. CASE OnScreen(r)
  <2> DEFINE cell == <<p[1] - r.x, p[2] - r.y>>
  <2>1. r.x \in Nat /\ r.y \in Nat /\ r.w \in Nat /\ r.h \in Nat
    BY <1>3 DEF OnScreen
  <2>2. ASSUME InRect(p, r)
        PROVE  /\ cell \in Cells(r)
               /\ Address(p[1], p[2]) = Address(r.x + cell[1], r.y + cell[2])
    <3>1. p[1] - r.x \in 0..(r.w - 1) /\ p[2] - r.y \in 0..(r.h - 1)
      BY <1>0, <2>1, <2>2 DEF InRect
    <3>2. r.x + cell[1] = p[1] /\ r.y + cell[2] = p[2]
      BY <1>0, <2>1
    <3> QED
      BY <3>1, <3>2 DEF Cells
  <2>3. ASSUME NEW q \in Cells(r), Address(p[1], p[2]) = Address(r.x + q[1], r.y + q[2])
        PROVE  InRect(p, r) /\ q = cell
    <3>1. /\ q[1] \in Nat /\ q[2] \in Nat /\ q[1] < r.w /\ q[2] < r.h
          /\ q = <<q[1], q[2]>>
          /\ r.x + q[1] \in Nat /\ r.y + q[2] \in Nat /\ r.x + q[1] < Stride
      BY <1>3, CellOnScreen
    <3> DEFINE v == r.x + q[1]
               w == r.y + q[2]
    <3>2. v \in Nat /\ w \in Nat /\ v < Stride /\ Address(p[1], p[2]) = Address(v, w)
      BY <2>3, <3>1
    <3> HIDE DEF v, w
    <3>3. p[1] = v /\ p[2] = w
      BY <1>0, <3>2, SameAddress
    <3>4. q[1] = p[1] - r.x /\ q[2] = p[2] - r.y
      BY <1>0, <2>1, <3>1, <3>3 DEF v, w
    <3>5. InRect(p, r)
      BY <2>1, <3>1, <3>3 DEF InRect, v, w
    <3> QED
      BY <3>1, <3>4, <3>5
  <2>4. Address(p[1], p[2]) \in Touched(r) <=>
          \E q \in Cells(r) : Address(p[1], p[2]) = Address(r.x + q[1], r.y + q[2])
    BY DEF Touched
  <2> HIDE DEF cell
  <2>5. Address(p[1], p[2]) \in Touched(r) <=> InRect(p, r)
    BY <2>2, <2>3, <2>4
  <2> QED
    BY <1>1, <2>2, <2>3, <2>5 DEF cell
<1> QED
  BY <1>2, <1>3 DEF Drawable

-----------------------------------------------------------------------------
(* Drawing. *)

Formats == {"RGB", "BGR"}

LEMMA ShownFields ==
  ASSUME NEW f \in Formats, NEW v
  PROVE  /\ Shown(f, v).g = v[2]
         /\ Shown(f, v).r = IF f = "RGB" THEN v[1] ELSE v[3]
         /\ Shown(f, v).b = IF f = "RGB" THEN v[3] ELSE v[1]
BY DEF Formats, Shown

(* What is on the screen after a pixel is set, or mixed with another. *)
LEMMA ShownEncoded ==
  ASSUME NEW f \in Formats, NEW c
  PROVE  Shown(f, Encode(f, c)) = [r |-> c.r, g |-> c.g, b |-> c.b]
BY DEF Formats, Shown, Encode

LEMMA ShownMixed ==
  ASSUME NEW f \in Formats, NEW src, NEW old, NEW picture, Shown(f, old) = picture
  PROVE  LET bytes == Encode(f, src)
         IN  Shown(f, [k \in 1..3 |-> Mix(bytes[k], old[k], src.alpha)])
               = [r |-> Mix(src.r, picture.r, src.alpha), g |-> Mix(src.g, picture.g, src.alpha),
                  b |-> Mix(src.b, picture.b, src.alpha)]
<1> DEFINE mixed == [k \in 1..3 |-> Mix(Encode(f, src)[k], old[k], src.alpha)]
<1>1. CASE f = "RGB"
  <2>1. picture.r = old[1] /\ picture.g = old[2] /\ picture.b = old[3]
    BY <1>1, ShownFields
  <2>2. Encode(f, src)[1] = src.r /\ Encode(f, src)[2] = src.g /\ Encode(f, src)[3] = src.b
    BY <1>1 DEF Encode
  <2>3. /\ mixed[1] = Mix(src.r, picture.r, src.alpha)
        /\ mixed[2] = Mix(src.g, picture.g, src.alpha)
        /\ mixed[3] = Mix(src.b, picture.b, src.alpha)
    BY <2>1, <2>2
  <2>4. Shown(f, mixed) = [r |-> mixed[1], g |-> mixed[2], b |-> mixed[3]]
    BY <1>1 DEF Shown
  <2> HIDE DEF mixed
  <2>5. Shown(f, mixed) = [r |-> Mix(src.r, picture.r, src.alpha),
                           g |-> Mix(src.g, picture.g, src.alpha),
                           b |-> Mix(src.b, picture.b, src.alpha)]
    BY <2>3, <2>4
  <2> QED
    BY <2>5 DEF mixed
<1>2. CASE f = "BGR"
  <2>1. picture.r = old[3] /\ picture.g = old[2] /\ picture.b = old[1]
    BY <1>2, ShownFields
  <2>2. Encode(f, src)[3] = src.r /\ Encode(f, src)[2] = src.g /\ Encode(f, src)[1] = src.b
    BY <1>2 DEF Encode
  <2>3. /\ mixed[3] = Mix(src.r, picture.r, src.alpha)
        /\ mixed[2] = Mix(src.g, picture.g, src.alpha)
        /\ mixed[1] = Mix(src.b, picture.b, src.alpha)
    BY <2>1, <2>2
  <2>4. Shown(f, mixed) = [r |-> mixed[3], g |-> mixed[2], b |-> mixed[1]]
    BY <1>2 DEF Shown
  <2> HIDE DEF mixed
  <2>5. Shown(f, mixed) = [r |-> Mix(src.r, picture.r, src.alpha),
                           g |-> Mix(src.g, picture.g, src.alpha),
                           b |-> Mix(src.b, picture.b, src.alpha)]
    BY <2>3, <2>4
  <2> QED
    BY <2>5 DEF mixed
<1> QED
  BY <1>1, <1>2 DEF Formats

(* What an image shows over a picture. *)
Over(c, src, old) ==
  IF c.format = "RGB8" THEN [r |-> src.r, g |-> src.g, b |-> src.b]
  ELSE [r |-> Mix(src.r, old.r, src.alpha), g |-> Mix(src.g, old.g, src.alpha),
        b |-> Mix(src.b, old.b, src.alpha)]

(* A position shows what is wanted of it once its pixel has been set. *)
LEMMA PixelIsWanted ==
  ASSUME NEW c, IsCall(c), NEW i \in 1..Parts(c), NEW f \in Formats, NEW p \in Positions,
         NEW old, NEW picture, InRect(p, RectOf(c, i)),
         c.kind = "clear" \/ Shown(f, old) = picture[p]
  PROVE  Shown(f, PixelOver(f, c, <<p[1] - RectOf(c, i).x, p[2] - RectOf(c, i).y>>, old))
           = Wanted(picture, c, i)[p]
<1>1. InRect(p, Named(c, i))
  BY RectClipped
<1>2. CASE c.kind # "blit"
  <2>1. PixelOver(f, c, <<p[1] - RectOf(c, i).x, p[2] - RectOf(c, i).y>>, old) = Encode(f, c.color)
    BY <1>2 DEF PixelOver
  <2>2. Shown(f, Encode(f, c.color)) = [r |-> c.color.r, g |-> c.color.g, b |-> c.color.b]
    BY ShownEncoded
  <2>3. c.color \in Colors
    BY <1>2 DEF IsCall
  <2>4. [r |-> c.color.r, g |-> c.color.g, b |-> c.color.b] = c.color
    BY <2>3 DEF Colors
  <2>5. CASE c.kind = "clear"
    <3>1. Wanted(picture, c, i)[p] = c.color
      BY <2>5 DEF Wanted
    <3> QED
      BY <2>1, <2>2, <2>4, <3>1
  <2>6. CASE c.kind = "regions"
    <3>1. Wanted(picture, c, i)[p] = IF InRect(p, Named(c, i)) THEN c.color ELSE picture[p]
      BY <2>6 DEF Wanted, Named
    <3> QED
      BY <1>1, <2>1, <2>2, <2>4, <3>1
  <2> QED
    BY <1>2, <2>5, <2>6 DEF IsCall
<1>3. CASE c.kind = "blit"
  <2> DEFINE r == RectOf(c, i)
             cell == <<p[1] - r.x, p[2] - r.y>>
             from == <<c.imageX + p[1] - c.fbX, c.imageY + p[2] - c.fbY>>
             src == c.image[from]
  <2>1. /\ r = Nothing \/ OnScreen(r)
        /\ r # Nothing =>
             /\ r.x = Start(c.fbX) /\ r.y = Start(c.fbY)
             /\ \A q \in Cells(r) : ImageCell(c, q) \in DOMAIN c.image
    BY <1>3, BlitClipped
  <2>2. r # Nothing
    BY NothingIsEmpty
  <2>3. OnScreen(r) /\ Drawable(r)
    BY <2>1, <2>2 DEF Drawable
  <2>4. cell \in Cells(r)
    BY <2>3, TouchedPositions
  <2>5. ImageCell(c, cell) = from
    <3>1. /\ c.fbX \in Int /\ c.fbY \in Int /\ c.imageX \in Nat /\ c.imageY \in Nat
      BY <1>3 DEF IsCall
    <3>2. p[1] \in Nat /\ p[2] \in Nat /\ r.x \in Nat /\ r.y \in Nat
      BY <2>3, PositionParts DEF OnScreen
    <3>3. r.x = Start(c.fbX) /\ r.y = Start(c.fbY)
      BY <2>1, <2>2
    <3> HIDE DEF r
    <3>4. /\ ClippedBlit(c).imageX = c.imageX + (r.x - c.fbX)
          /\ ClippedBlit(c).imageY = c.imageY + (r.y - c.fbY)
      BY <3>1, <3>3 DEF ClippedBlit, Start
    <3>5. /\ ClippedBlit(c).imageX + (p[1] - r.x) = c.imageX + p[1] - c.fbX
          /\ ClippedBlit(c).imageY + (p[2] - r.y) = c.imageY + p[2] - c.fbY
      BY <3>1, <3>2, <3>4
    <3> QED
      BY <3>5 DEF ImageCell
  <2>6. from \in DOMAIN c.image
    <3> HIDE DEF r, cell, from
    <3> QED
      BY <2>1, <2>2, <2>4, <2>5
  <2>7. Wanted(picture, c, i)[p] = IF InRect(p, Named(c, i)) THEN Over(c, src, picture[p]) ELSE picture[p]
    BY <1>3 DEF Wanted, Named, Over
  <2>8. Wanted(picture, c, i)[p] = Over(c, src, picture[p])
    BY <1>1, <2>7
  <2> HIDE DEF r, cell, from
  <2>9. PixelOver(f, c, cell, old) =
          IF c.format = "RGB8" THEN Encode(f, src)
          ELSE [k \in 1..3 |-> Mix(Encode(f, src)[k], old[k], src.alpha)]
    BY <1>3, <2>5, <2>6 DEF PixelOver
  <2> HIDE DEF src
  <2>10. CASE c.format = "RGB8"
    <3>1. Shown(f, Encode(f, src)) = [r |-> src.r, g |-> src.g, b |-> src.b]
      BY ShownEncoded
    <3> QED
      BY <2>8, <2>9, <2>10, <3>1 DEF Over, cell, r
  <2>11. CASE c.format # "RGB8"
    <3>0. Shown(f, old) = picture[p]
      BY <1>3
    <3>1. Shown(f, [k \in 1..3 |-> Mix(Encode(f, src)[k], old[k], src.alpha)])
            = [r |-> Mix(src.r, picture[p].r, src.alpha), g |-> Mix(src.g, picture[p].g, src.alpha),
               b |-> Mix(src.b, picture[p].b, src.alpha)]
      BY <3>0, ShownMixed
    <3> QED
      BY <2>8, <2>9, <2>11, <3>1 DEF Over, cell, r
  <2> QED
    BY <2>10, <2>11
<1> QED
  BY <1>2, <1>3

(* A drawing call changes the positions it names, and no others. *)
LEMMA PaintedPositions ==
  ASSUME NEW c, IsCall(c), NEW i \in 1..Parts(c), NEW f \in Formats, NEW p \in Positions,
         NEW buffer, NEW picture,
         c.kind = "clear" \/ Shown(f, buffer[Address(p[1], p[2])]) = picture[p]
  PROVE  /\ Shown(f, Painted(buffer, f, c, i)[Address(p[1], p[2])]) = Wanted(picture, c, i)[p]
         /\ ~InRect(p, RectOf(c, i)) =>
              Painted(buffer, f, c, i)[Address(p[1], p[2])] = buffer[Address(p[1], p[2])]
<1> DEFINE r == RectOf(c, i)
           a == Address(p[1], p[2])
           At(b) == CHOOSE q \in Cells(r) : b = Address(r.x + q[1], r.y + q[2])
<1>1. Drawable(r) /\ (InRect(p, r) <=> InRect(p, Named(c, i)))
  BY RectClipped
<1>2. /\ a \in Addresses
      /\ a \in Touched(r) <=> InRect(p, r)
      /\ InRect(p, r) =>
           /\ <<p[1] - r.x, p[2] - r.y>> \in Cells(r)
           /\ \A q \in Cells(r) : a = Address(r.x + q[1], r.y + q[2]) <=> q = <<p[1] - r.x, p[2] - r.y>>
  <2> HIDE DEF r
  <2> QED
    BY <1>1, TouchedPositions
<1>3. Painted(buffer, f, c, i)[a] =
        IF a \in Touched(r) THEN PixelOver(f, c, At(a), buffer[a]) ELSE buffer[a]
  BY <1>2 DEF Painted
<1>4. CASE InRect(p, r)
  <2>1. At(a) = <<p[1] - r.x, p[2] - r.y>>
    <3> HIDE DEF r, a
    <3> QED
      BY <1>2, <1>4
  <2> HIDE DEF At
  <2>2. Painted(buffer, f, c, i)[a] = PixelOver(f, c, <<p[1] - r.x, p[2] - r.y>>, buffer[a])
    BY <1>2, <1>3, <1>4, <2>1
  <2>3. Shown(f, PixelOver(f, c, <<p[1] - r.x, p[2] - r.y>>, buffer[a])) = Wanted(picture, c, i)[p]
    BY <1>4, PixelIsWanted
  <2> QED
    BY <1>4, <2>2, <2>3
<1>5. CASE ~InRect(p, r)
  <2>1. Painted(buffer, f, c, i)[a] = buffer[a]
    BY <1>2, <1>3, <1>5
  <2>2. ~InRect(p, Named(c, i))
    BY <1>1, <1>5
  <2>3. CASE c.kind = "clear"
    <3>1. Named(c, i) = Rect(0, 0, Width, Height)
      BY <2>3 DEF Named
    <3>2. InRect(p, Named(c, i))
      BY <3>1, RectFields, PositionParts, ScreenSize DEF InRect
    <3> QED
      BY <2>2, <3>2
  <2>4. CASE c.kind = "regions"
    <3>1. Wanted(picture, c, i)[p] = IF InRect(p, Named(c, i)) THEN c.color ELSE picture[p]
      BY <2>4 DEF Wanted, Named
    <3> QED
      BY <2>1, <2>2, <2>4, <3>1
  <2>5. CASE c.kind = "blit"
    <3>1. \E v : Wanted(picture, c, i)[p] = IF InRect(p, Named(c, i)) THEN v ELSE picture[p]
      BY <2>5 DEF Wanted, Named
    <3> QED
      BY <2>1, <2>2, <2>5, <3>1
  <2> QED
    BY <2>3, <2>4, <2>5 DEF IsCall
<1> QED
  BY <1>4, <1>5

(* ... and leaves alone what is not on the screen. *)
LEMMA PaintedElsewhere ==
  ASSUME NEW c, IsCall(c), NEW i \in 1..Parts(c), NEW f, NEW buffer,
         NEW a \in Addresses, a % Stride >= Width
  PROVE  Painted(buffer, f, c, i)[a] = buffer[a]
<1>1. Drawable(RectOf(c, i))
  BY RectClipped
<1>2. a \in Touched(RectOf(c, i)) => a % Stride < Width
  BY <1>1, TouchedOnScreen
<1>3. a % Stride \in Int /\ Width \in Int
  <2>1. a \in Nat /\ Stride \in Nat \ {0} /\ Width \in Int
    BY ScreenSize DEF Addresses, Size
  <2> QED
    BY <2>1
<1>4. a \notin Touched(RectOf(c, i))
  BY <1>2, <1>3
<1> QED
  BY <1>4 DEF Painted

(* No drawing leaves the buffer or the image. *)
LEMMA NothingStrays ==
  ASSUME NEW c, IsCall(c), NEW i \in 1..Parts(c)
  PROVE  ~Strays(c, i)
<1>1. Drawable(RectOf(c, i))
  BY RectClipped
<1>2. Touched(RectOf(c, i)) \subseteq Addresses
  BY <1>1, TouchedOnScreen
<1>3. ASSUME c.kind = "blit", NEW q \in Cells(RectOf(c, i))
      PROVE  ImageCell(c, q) \in DOMAIN c.image
  <2>1. RectOf(c, i) # Nothing
    BY NothingIsEmpty
  <2> QED
    BY <1>3, <2>1, BlitClipped
<1> QED
  BY <1>2, <1>3 DEF Strays

-----------------------------------------------------------------------------
(* Swapping. *)

(* ToSwap for a given driver state. *)
Marked(d, p) ==
  CASE d.op = "FULL"   -> TRUE
    [] d.op = "REGION" -> InRect(p, Rect(d.x, d.y, d.w, d.h))
    [] d.op = "NONE"   -> FALSE

Ops == {"FULL", "REGION", "NONE"}
Drivers == [init : {"none", "failed", "ready", "shell"}, format : Formats \cup {"none"},
            op : Ops, x : Int, y : Int, w : Int, h : Int]

(* A region to swap lies on the screen. *)
RegionOnScreen(d) ==
  d.op = "REGION" => d.x >= 0 /\ d.y >= 0 /\ d.x + d.w <= Width /\ d.y + d.h <= Height

RectInts == [x : Int, y : Int, w : Int, h : Int]

(* Marking a rectangle keeps what was marked and adds the rectangle. *)
LEMMA NewRegionCovers ==
  ASSUME NEW d \in Drivers, RegionOnScreen(d), NEW r, OnScreen(r)
  PROVE  LET n == NewRegion(d, r)
         IN  /\ n.x \in Int /\ n.y \in Int /\ n.w \in Int /\ n.h \in Int
             /\ n.x >= 0 /\ n.y >= 0 /\ n.x + n.w <= Width /\ n.y + n.h <= Height
             /\ \A p \in Positions : InRect(p, r) => InRect(p, n)
             /\ d.op = "REGION" =>
                  \A p \in Positions : InRect(p, Rect(d.x, d.y, d.w, d.h)) => InRect(p, n)
<1> DEFINE x == IF d.x < r.x THEN d.x ELSE r.x
           y == IF d.y < r.y THEN d.y ELSE r.y
           right == IF d.x + d.w > r.x + r.w THEN d.x + d.w ELSE r.x + r.w
           bottom == IF d.y + d.h > r.y + r.h THEN d.y + d.h ELSE r.y + r.h
           n == NewRegion(d, r)
<1>1. d.x \in Int /\ d.y \in Int /\ d.w \in Int /\ d.h \in Int
  BY DEF Drivers
<1>2. /\ r.x \in Nat /\ r.y \in Nat /\ r.w \in Nat /\ r.h \in Nat
      /\ r.x + r.w <= Width /\ r.y + r.h <= Height
  BY DEF OnScreen
<1>3. CASE d.op # "REGION"
  <2>1. n = r
    BY <1>3 DEF NewRegion
  <2> QED
    BY <1>2, <1>3, <2>1
<1>4. CASE d.op = "REGION"
  <2>1. /\ n.x = x /\ n.y = y /\ n.w = right - x /\ n.h = bottom - y
    BY <1>4 DEF NewRegion, Rect
  <2>2. d.x >= 0 /\ d.y >= 0 /\ d.x + d.w <= Width /\ d.y + d.h <= Height
    BY <1>4 DEF RegionOnScreen
  <2> HIDE DEF n
  <2>3. /\ n.x \in Int /\ n.y \in Int /\ n.w \in Int /\ n.h \in Int
        /\ n.x >= 0 /\ n.y >= 0 /\ n.x <= d.x /\ n.x <= r.x /\ n.y <= d.y /\ n.y <= r.y
    BY <1>1, <1>2, <2>1, <2>2
  <2>4. /\ n.x + n.w = right /\ n.y + n.h = bottom
        /\ right <= Width /\ bottom <= Height
        /\ right >= d.x + d.w /\ right >= r.x + r.w
        /\ bottom >= d.y + d.h /\ bottom >= r.y + r.h
        /\ right \in Int /\ bottom \in Int
    BY <1>1, <1>2, <2>1, <2>2, ScreenSize
  <2> HIDE DEF right, bottom, x, y
  <2>5. ASSUME NEW p \in Positions, InRect(p, r) PROVE InRect(p, n)
    <3>1. p[1] \in Nat /\ p[2] \in Nat
      BY PositionParts
    <3> QED
      BY <1>2, <2>3, <2>4, <2>5, <3>1 DEF InRect
  <2>6. ASSUME NEW p \in Positions, InRect(p, Rect(d.x, d.y, d.w, d.h)) PROVE InRect(p, n)
    <3>1. p[1] \in Nat /\ p[2] \in Nat
      BY PositionParts
    <3>2. d.x <= p[1] /\ p[1] < d.x + d.w /\ d.y <= p[2] /\ p[2] < d.y + d.h
      BY <2>6, RectFields DEF InRect
    <3> QED
      BY <1>1, <2>3, <2>4, <3>1, <3>2 DEF InRect
  <2> QED
    BY <2>3, <2>4, <2>5, <2>6 DEF n
<1> QED
  BY <1>3, <1>4

LEMMA NewRegionType ==
  ASSUME NEW d \in Drivers, NEW r, OnScreen(r)
  PROVE  LET n == NewRegion(d, r)
         IN  n.x \in Int /\ n.y \in Int /\ n.w \in Int /\ n.h \in Int
<1> DEFINE n == NewRegion(d, r)
<1>1. d.x \in Int /\ d.y \in Int /\ d.w \in Int /\ d.h \in Int
  BY DEF Drivers
<1>2. r.x \in Int /\ r.y \in Int /\ r.w \in Int /\ r.h \in Int
  BY DEF OnScreen
<1>3. CASE d.op # "REGION"
  BY <1>2, <1>3 DEF NewRegion
<1>4. CASE d.op = "REGION"
  BY <1>1, <1>2, <1>4 DEF NewRegion, Rect
<1> QED
  BY <1>3, <1>4

(* What CpuGrMarkScreenRegionForSwapping stores. *)
StoredAs(s, d, c, saw, n) ==
  /\ s \in Drivers /\ s.init = d.init /\ s.format = d.format
  /\ c.kind = "clear" => s.op = "FULL"
  /\ c.kind # "clear" /\ saw = "FULL" => s = d
  /\ c.kind # "clear" /\ saw # "FULL" =>
       /\ s.x = n.x /\ s.y = n.y /\ s.w = n.w /\ s.h = n.h
       /\ s.op = IF saw = "NONE" THEN "REGION" ELSE d.op

LEMMA StoredFields ==
  ASSUME NEW d \in Drivers, NEW c, NEW saw \in Ops, NEW n,
         n.x \in Int, n.y \in Int, n.w \in Int, n.h \in Int
  PROVE  StoredAs(Stored(d, c, saw, n), d, c, saw, n)
<1> DEFINE set == [d EXCEPT !.x = n.x, !.y = n.y, !.w = n.w, !.h = n.h]
           s == Stored(d, c, saw, n)
<1> SUFFICES StoredAs(s, d, c, saw, n)
  OBVIOUS
<1>1. /\ set \in Drivers /\ set.init = d.init /\ set.format = d.format /\ set.op = d.op
      /\ set.x = n.x /\ set.y = n.y /\ set.w = n.w /\ set.h = n.h
  BY DEF Drivers
<1>2. CASE c.kind = "clear"
  <2>1. s = [d EXCEPT !.op = "FULL"]
    BY <1>2 DEF Stored
  <2> QED
    BY <1>2, <2>1 DEF Drivers, Ops, StoredAs
<1>3. CASE c.kind # "clear" /\ saw = "FULL"
  BY <1>3 DEF Stored, StoredAs
<1>4. CASE c.kind # "clear" /\ saw = "REGION"
  <2>1. s = set
    BY <1>4 DEF Stored
  <2> HIDE DEF set, s
  <2> QED
    BY <1>1, <1>4, <2>1 DEF StoredAs
<1>5. CASE c.kind # "clear" /\ saw = "NONE"
  <2>1. s = [set EXCEPT !.op = "REGION"]
    BY <1>5 DEF Stored
  <2> HIDE DEF set, s
  <2>2. /\ s \in Drivers /\ s.init = set.init /\ s.format = set.format /\ s.op = "REGION"
        /\ s.x = set.x /\ s.y = set.y /\ s.w = set.w /\ s.h = set.h
    BY <1>1, <2>1 DEF Drivers, Ops
  <2> QED
    BY <1>1, <1>5, <2>2 DEF StoredAs
<1> QED
  BY <1>2, <1>3, <1>4, <1>5 DEF Ops

LEMMA StoredCovers ==
  ASSUME NEW d \in Drivers, RegionOnScreen(d), NEW r, OnScreen(r), NEW c
  PROVE  LET s == Stored(d, c, d.op, NewRegion(d, r))
         IN  /\ s \in Drivers /\ s.init = d.init /\ s.format = d.format
             /\ RegionOnScreen(s)
             /\ \A p \in Positions : Marked(d, p) \/ InRect(p, r) => Marked(s, p)
<1> DEFINE n == NewRegion(d, r)
           s == Stored(d, c, d.op, n)
<1>1. /\ n.x \in Int /\ n.y \in Int /\ n.w \in Int /\ n.h \in Int
      /\ n.x >= 0 /\ n.y >= 0 /\ n.x + n.w <= Width /\ n.y + n.h <= Height
      /\ \A p \in Positions : InRect(p, r) => InRect(p, n)
      /\ d.op = "REGION" =>
           \A p \in Positions : InRect(p, Rect(d.x, d.y, d.w, d.h)) => InRect(p, n)
  BY NewRegionCovers
<1>2. d.op \in Ops
  BY DEF Drivers
<1> HIDE DEF n
<1>3. /\ s \in Drivers /\ s.init = d.init /\ s.format = d.format
      /\ c.kind = "clear" => s.op = "FULL"
      /\ c.kind # "clear" /\ d.op = "FULL" => s = d
      /\ c.kind # "clear" /\ d.op # "FULL" =>
           /\ s.x = n.x /\ s.y = n.y /\ s.w = n.w /\ s.h = n.h
           /\ s.op = IF d.op = "NONE" THEN "REGION" ELSE d.op
  <2>1. n.x \in Int /\ n.y \in Int /\ n.w \in Int /\ n.h \in Int
    BY <1>1
  <2>2. StoredAs(s, d, c, d.op, n)
    BY <1>2, <2>1, StoredFields
  <2> HIDE DEF s
  <2> QED
    BY <2>2 DEF StoredAs
<1> HIDE DEF s
<1> SUFFICES /\ RegionOnScreen(s)
             /\ \A p \in Positions : Marked(d, p) \/ InRect(p, r) => Marked(s, p)
  BY <1>3 DEF s, n
<1>4. CASE c.kind = "clear" \/ d.op = "FULL"
  <2>1. s.op = "FULL"
    BY <1>3, <1>4
  <2> QED
    BY <2>1 DEF RegionOnScreen, Marked
<1>5. CASE c.kind # "clear" /\ d.op # "FULL"
  <2>1. /\ s.x = n.x /\ s.y = n.y /\ s.w = n.w /\ s.h = n.h /\ s.op = "REGION"
    BY <1>2, <1>3, <1>5 DEF Ops
  <2>2. RegionOnScreen(s)
    BY <1>1, <2>1 DEF RegionOnScreen
  <2>3. ASSUME NEW p PROVE Marked(s, p) <=> InRect(p, n)
    <3>1. Marked(s, p) <=> InRect(p, Rect(n.x, n.y, n.w, n.h))
      BY <2>1 DEF Marked
    <3> QED
      BY <3>1, RectFields DEF InRect
  <2>4. ASSUME NEW p \in Positions, Marked(d, p)
        PROVE  d.op = "REGION" /\ InRect(p, Rect(d.x, d.y, d.w, d.h))
    BY <1>2, <1>5, <2>4 DEF Marked, Ops
  <2> QED
    BY <1>1, <2>2, <2>3, <2>4
<1> QED
  BY <1>4, <1>5

(* The rectangle a swap copies: its fields, that its rows lie in the       *)
(* buffers and that they hold every position that is marked.               *)
LEMMA SwapRectFields ==
  ASSUME NEW d \in Drivers
  PROVE  LET r == SwapRect(d)
         IN  /\ r.x \in Int /\ r.y \in Int /\ r.w \in Int /\ r.h \in Int
             /\ d.op = "FULL" => r.x = 0 /\ r.y = 0 /\ r.w = Stride /\ r.h = Height
             /\ d.op = "REGION" => r.x = d.x /\ r.y = d.y /\ r.w = d.w /\ r.h = d.h
             /\ d.op = "NONE" => r.x = 0 /\ r.y = 0 /\ r.w = 0 /\ r.h = 0
<1>1. d.op \in Ops /\ d.x \in Int /\ d.y \in Int /\ d.w \in Int /\ d.h \in Int
  BY DEF Drivers
<1>2. CASE d.op = "FULL"
  BY <1>2, RectFields, ScreenSize DEF SwapRect
<1>3. CASE d.op = "REGION"
  BY <1>1, <1>3, RectFields DEF SwapRect
<1>4. CASE d.op = "NONE"
  BY <1>4, RectFields DEF SwapRect
<1> QED
  BY <1>1, <1>2, <1>3, <1>4 DEF Ops

LEMMA RowsInBuffer ==
  ASSUME NEW d \in Drivers, RegionOnScreen(d), NEW h \in Nat, h < SwapRect(d).h
  PROVE  Row(SwapRect(d), h) \subseteq Addresses
<1> DEFINE r == SwapRect(d)
<1>1. /\ r.x \in Int /\ r.y \in Int /\ r.w \in Int /\ r.h \in Int
      /\ d.op = "FULL" => r.x = 0 /\ r.y = 0 /\ r.w = Stride /\ r.h = Height
      /\ d.op = "REGION" => r.x = d.x /\ r.y = d.y /\ r.w = d.w /\ r.h = d.h
      /\ d.op = "NONE" => r.x = 0 /\ r.y = 0 /\ r.w = 0 /\ r.h = 0
  BY SwapRectFields
<1>2. d.op \in Ops
  BY DEF Drivers
<1> HIDE DEF r
<1>3. h < r.h
  BY DEF r
<1>4. r.x >= 0 /\ r.y >= 0 /\ r.x + r.w <= Stride /\ r.y + r.h <= Height
  <2>1. CASE d.op = "FULL"
    BY <1>1, <2>1, ScreenSize
  <2>2. CASE d.op = "REGION"
    BY <1>1, <2>2, ScreenSize DEF RegionOnScreen
  <2>3. CASE d.op = "NONE"
    BY <1>1, <2>3, ScreenSize
  <2> QED
    BY <1>2, <2>1, <2>2, <2>3 DEF Ops
<1>5. ASSUME NEW i \in 0..(r.w - 1) PROVE Address(r.x + i, r.y + h) \in Addresses
  <2> DEFINE x == r.x + i
             y == r.y + h
  <2>1. x \in Nat /\ y \in Nat /\ x < Stride /\ y < Height
    BY <1>1, <1>3, <1>4, ScreenSize
  <2> HIDE DEF x, y
  <2>2. Address(x, y) \in Addresses
    BY <2>1, AddressInRange
  <2> QED
    BY <2>2 DEF x, y
<1> QED
  BY <1>5 DEF Row, r

LEMMA MarkedIsInRows ==
  ASSUME NEW d \in Drivers, NEW p \in Positions, Marked(d, p)
  PROVE  LET r == SwapRect(d)
         IN  /\ p[2] - r.y \in 0..(r.h - 1)
             /\ r.y \in Int
             /\ Address(p[1], p[2]) \in Row(r, p[2] - r.y)
<1> DEFINE r == SwapRect(d)
<1>1. /\ r.x \in Int /\ r.y \in Int /\ r.w \in Int /\ r.h \in Int
      /\ d.op = "FULL" => r.x = 0 /\ r.y = 0 /\ r.w = Stride /\ r.h = Height
      /\ d.op = "REGION" => r.x = d.x /\ r.y = d.y /\ r.w = d.w /\ r.h = d.h
  BY SwapRectFields
<1>2. d.op \in Ops
  BY DEF Drivers
<1>3. p[1] \in Nat /\ p[2] \in Nat /\ p[1] < Stride /\ p[2] < Height
  BY PositionParts
<1> HIDE DEF r
<1>4. r.x <= p[1] /\ p[1] < r.x + r.w /\ r.y <= p[2] /\ p[2] < r.y + r.h
  <2>1. CASE d.op = "FULL"
    BY <1>1, <1>3, <2>1, ScreenSize
  <2>2. CASE d.op = "REGION"
    <3>1. InRect(p, Rect(d.x, d.y, d.w, d.h))
      BY <2>2 DEF Marked
    <3> QED
      BY <1>1, <2>2, <3>1, RectFields DEF InRect
  <2>3. CASE d.op = "NONE"
    BY <2>3 DEF Marked
  <2> QED
    BY <1>2, <2>1, <2>2, <2>3 DEF Ops
<1>5. p[2] - r.y \in 0..(r.h - 1) /\ p[1] - r.x \in 0..(r.w - 1)
  BY <1>1, <1>3, <1>4
<1>6. r.x + (p[1] - r.x) = p[1] /\ r.y + (p[2] - r.y) = p[2]
  BY <1>1, <1>3
<1>7. Address(p[1], p[2]) \in Row(r, p[2] - r.y)
  BY <1>5, <1>6 DEF Row
<1> QED
  BY <1>1, <1>5, <1>7 DEF r

LEMMA RectOfType ==
  ASSUME NEW c, IsCall(c), NEW i \in 1..Parts(c)
  PROVE  RectOf(c, i) \in RectInts
<1>1. Drawable(RectOf(c, i))
  BY RectClipped
<1>2. \E x, y, w, h : RectOf(c, i) = Rect(x, y, w, h)
  <2>1. CASE c.kind = "clear"
    BY <2>1 DEF RectOf
  <2>2. CASE c.kind = "regions"
    BY <2>2 DEF RectOf, ClippedRegion, Nothing
  <2>3. CASE c.kind = "blit"
    BY <2>3 DEF RectOf, ClippedBlit, Nothing
  <2> QED
    BY <2>1, <2>2, <2>3 DEF IsCall
<1>3. PICK x, y, w, h : RectOf(c, i) = Rect(x, y, w, h)
  BY <1>2
<1>4. x \in Int /\ y \in Int /\ w \in Int /\ h \in Int
  <2>1. CASE RectOf(c, i) = Nothing
    <3>1. x = 0 /\ y = 0 /\ w = -1 /\ h = -1
      BY <1>3, <2>1 DEF Nothing, Rect
    <3> QED
      BY <3>1
  <2>2. CASE OnScreen(RectOf(c, i))
    BY <1>3, <2>2, RectFields DEF OnScreen
  <2> QED
    BY <1>1, <2>1, <2>2 DEF Drawable
<1> QED
  BY <1>3, <1>4 DEF Rect, RectInts

-----------------------------------------------------------------------------
(* The inductive invariant. *)

Drawing == Ops \cup {"mark", "draw"}
SwapCalls == {[kind |-> "none"], [kind |-> "swap"], [kind |-> "swapRegion"]}
Threads == [call : ThreadCalls \cup SwapCalls, part : Nat,
            step : Drawing \cup {"idle", "swap"}, region : RectInts]

(* Types, and that nothing has been drawn before there is a shell. *)
Types ==
  /\ drv \in Drivers
  /\ drv.init \in {"ready", "shell"} => drv.format \in Formats
  /\ thread \in Threads
  /\ thread.step \in Drawing => thread.call \in ThreadCalls /\ thread.part \in 1..Parts(thread.call)
  /\ faults \in [torn : BOOLEAN, outside : BOOLEAN, overrun : BOOLEAN]
  /\ drv.init # "shell" =>
       /\ thread = Idle /\ drv.op = "NONE" /\ ~faults.outside /\ ~faults.overrun
       /\ \A a \in Addresses : back[a] = <<0, 0, 0>>

Same(p) == front[Address(p[1], p[2])] = back[Address(p[1], p[2])]

(* While no call of the thread has been interrupted: what differs on the   *)
(* screen is marked; a mark is being made for the operation that is set;   *)
(* what is about to be drawn is marked; the rows that a swap has passed    *)
(* are the same in both buffers.                                           *)
Quiet == drv.init = "shell" /\ ~faults.torn
CurrentRect == RectOf(thread.call, thread.part)

Synced == \A p \in Positions : Same(p) \/ Marked(drv, p)
Marking ==
  thread.step \in Ops =>
    thread.step = drv.op /\ CurrentRect # Nothing /\ thread.region = NewRegion(drv, CurrentRect)
Drawn ==
  thread.step = "draw" => \A p \in Positions : InRect(p, CurrentRect) => Marked(drv, p)
Swapping ==
  thread.step = "swap" =>
    /\ thread.region = SwapRect(drv)
    /\ thread.call.kind = IF drv.op = "REGION" THEN "swapRegion" ELSE "swap"
    /\ \A p \in Positions : Same(p) \/ p[2] >= thread.region.y + thread.part

SwapInv ==
  Quiet => ~faults.overrun /\ RegionOnScreen(drv) /\ Synced /\ Marking /\ Drawn /\ Swapping

GraphicsInv == Types /\ DrawsWhatIsAsked /\ SwapInv

LEMMA GraphicsInvImplies == GraphicsInv => DrawsWhatIsAsked /\ ScreenCatchesUp
<1> SUFFICES ASSUME GraphicsInv PROVE ScreenCatchesUp
  BY DEF GraphicsInv
<1> SUFFICES ASSUME Quiet PROVE ~faults.overrun /\ RegionOnScreen(drv) /\ Synced
  BY DEF ScreenCatchesUp, Quiet, RegionOnScreen, Synced, Same, Marked, ToSwap
<1> QED
  BY DEF GraphicsInv, SwapInv

LEMMA IdleType == Idle \in Threads /\ Idle.step = "idle"
<1>1. Nothing \in RectInts
  BY DEF Nothing, Rect, RectInts
<1>2. [kind |-> "none"] \in SwapCalls
  BY DEF SwapCalls
<1> QED
  BY <1>1, <1>2 DEF Idle, Threads

(* Calls of the thread and of the handler. *)
LEMMA CurrentCall ==
  ASSUME Types, thread.step \in Drawing
  PROVE  /\ thread.call \in ThreadCalls /\ IsCall(thread.call)
         /\ thread.part \in 1..Parts(thread.call)
         /\ drv.init = "shell" /\ drv.format \in Formats
<1>1. thread # Idle
  BY IdleType DEF Drawing, Ops
<1>2. drv.init = "shell"
  BY <1>1 DEF Types
<1> QED
  BY <1>2, CallsAssumption DEF Types

LEMMA InitGraphics == Init => GraphicsInv
<1> SUFFICES ASSUME Init PROVE GraphicsInv
  OBVIOUS
<1>1. drv \in Drivers /\ drv.init = "none" /\ drv.op = "NONE"
  BY DEF Init, Drivers, Ops
<1>2. thread \in Threads /\ thread = Idle /\ thread.step = "idle"
  BY IdleType DEF Init
<1>3. faults \in [torn : BOOLEAN, outside : BOOLEAN, overrun : BOOLEAN]
      /\ ~faults.outside /\ ~faults.overrun
  BY DEF Init
<1>4. \A a \in Addresses : back[a] = <<0, 0, 0>>
  BY DEF Init
<1>5. Types
  BY <1>1, <1>2, <1>3, <1>4 DEF Types, Drawing, Ops
<1> QED
  BY <1>1, <1>5 DEF GraphicsInv, DrawsWhatIsAsked, SwapInv, Quiet

LEMMA StutterGraphics ==
  ASSUME GraphicsInv, UNCHANGED vars
  PROVE  GraphicsInv'
<1>1. Types'
  BY DEF GraphicsInv, vars, Types
<1>2. DrawsWhatIsAsked'
  BY DEF GraphicsInv, vars, DrawsWhatIsAsked
<1>3. SwapInv'
  BY DEF GraphicsInv, vars, SwapInv, Quiet, RegionOnScreen, Synced, Marking, Drawn, Swapping, Same,
         Marked, CurrentRect
<1> QED
  BY <1>1, <1>2, <1>3 DEF GraphicsInv

LEMMA InitDriverKeeps ==
  ASSUME GraphicsInv, InitCpuGraphicsDriver
  PROVE  GraphicsInv'
<1>1. /\ drv.init = "none" /\ UNCHANGED <<back, front, thread, asked, faults>>
  BY DEF InitCpuGraphicsDriver
<1>2. \/ drv' = [drv EXCEPT !.init = "failed"]
      \/ \E format \in Formats : drv' = [drv EXCEPT !.init = "ready", !.format = format]
  BY DEF InitCpuGraphicsDriver, Formats
<1>3. drv \in Drivers /\ drv.op = "NONE" /\ thread = Idle
  BY <1>1 DEF GraphicsInv, Types
<1>4. /\ drv' \in Drivers /\ drv'.op = "NONE" /\ drv'.init # "shell"
      /\ drv'.init \in {"ready", "shell"} => drv'.format \in Formats
  <2>1. CASE drv' = [drv EXCEPT !.init = "failed"]
    BY <1>3, <2>1 DEF Drivers
  <2>2. ASSUME NEW format \in Formats, drv' = [drv EXCEPT !.init = "ready", !.format = format]
        PROVE  /\ drv' \in Drivers /\ drv'.op = "NONE" /\ drv'.init # "shell"
               /\ drv'.format \in Formats
    BY <1>3, <2>2 DEF Drivers
  <2> QED
    BY <1>2, <2>1, <2>2
<1>5. Types'
  BY <1>1, <1>3, <1>4, IdleType DEF GraphicsInv, Types, Drawing, Ops
<1> QED
  BY <1>4, <1>5 DEF GraphicsInv, DrawsWhatIsAsked, SwapInv, Quiet

LEMMA BeginCallKeeps ==
  ASSUME GraphicsInv, BeginCall
  PROVE  GraphicsInv'
<1>1. PICK c \in ThreadCalls : thread' = [Idle EXCEPT !.call = c, !.step = "mark"]
  BY DEF BeginCall
<1>2. drv.init = "shell" /\ UNCHANGED <<drv, back, front, asked, faults>>
  BY DEF BeginCall
<1>3. /\ thread' \in Threads /\ thread'.step = "mark" /\ thread'.call = c
      /\ thread'.part = 1
  <2>1. Idle \in Threads /\ Idle.part = 1
    BY IdleType DEF Idle
  <2> QED
    BY <1>1, <2>1 DEF Threads, Drawing
<1>4. IsCall(c)
  BY CallsAssumption
<1>5. 1 \in 1..Parts(c)
  BY <1>4 DEF IsCall, Parts
<1>6. Types'
  BY <1>2, <1>3, <1>5 DEF GraphicsInv, Types
<1>7. DrawsWhatIsAsked'
  BY <1>2 DEF GraphicsInv, DrawsWhatIsAsked
<1>8. SwapInv'
  BY <1>2, <1>3 DEF GraphicsInv, SwapInv, Quiet, RegionOnScreen, Synced, Marking, Drawn, Swapping,
                    Same, Marked, Ops
<1> QED
  BY <1>6, <1>7, <1>8 DEF GraphicsInv

(* The buffer shows the picture and is black beside the screen. *)
Shows(f, buffer, picture) ==
  /\ \A p \in Positions : Shown(f, buffer[Address(p[1], p[2])]) = picture[p]
  /\ \A a \in Addresses : a % Stride >= Width => buffer[a] = <<0, 0, 0>>

LEMMA PaintedShows ==
  ASSUME NEW c, IsCall(c), NEW i \in 1..Parts(c), NEW f \in Formats, NEW buffer, NEW picture,
         Shows(f, buffer, picture)
  PROVE  Shows(f, Painted(buffer, f, c, i), Wanted(picture, c, i))
<1>1. ASSUME NEW p \in Positions
      PROVE  Shown(f, Painted(buffer, f, c, i)[Address(p[1], p[2])]) = Wanted(picture, c, i)[p]
  <2>1. Shown(f, buffer[Address(p[1], p[2])]) = picture[p]
    BY DEF Shows
  <2> QED
    BY <2>1, PaintedPositions
<1>2. ASSUME NEW a \in Addresses, a % Stride >= Width
      PROVE  Painted(buffer, f, c, i)[a] = <<0, 0, 0>>
  <2>1. buffer[a] = <<0, 0, 0>>
    BY <1>2 DEF Shows
  <2> QED
    BY <1>2, <2>1, PaintedElsewhere
<1> QED
  BY <1>1, <1>2 DEF Shows

LEMMA NextPartType ==
  ASSUME Types, thread.step \in Drawing
  PROVE  /\ NextPart \in Threads /\ NextPart.step \in {"mark", "idle"}
         /\ NextPart.step = "mark" =>
              NextPart.call = thread.call /\ NextPart.part \in 1..Parts(thread.call)
<1>1. /\ thread.call \in ThreadCalls /\ IsCall(thread.call) /\ thread.part \in 1..Parts(thread.call)
  BY CurrentCall
<1>2. Parts(thread.call) \in Nat
  BY <1>1 DEF IsCall, Parts
<1>3. CASE thread.part < Parts(thread.call)
  <2>1. NextPart = [Idle EXCEPT !.call = thread.call, !.part = thread.part + 1, !.step = "mark"]
    BY <1>3 DEF NextPart
  <2>2. thread.part + 1 \in Nat /\ thread.part + 1 \in 1..Parts(thread.call)
    BY <1>1, <1>2, <1>3
  <2>3. Idle \in Threads
    BY IdleType
  <2>4. /\ NextPart \in Threads /\ NextPart.step = "mark" /\ NextPart.call = thread.call
        /\ NextPart.part = thread.part + 1
    BY <1>1, <2>1, <2>2, <2>3 DEF Threads, Drawing
  <2> QED
    BY <2>2, <2>4
<1>4. CASE ~(thread.part < Parts(thread.call))
  <2>1. NextPart = Idle
    BY <1>4 DEF NextPart
  <2> QED
    BY <2>1, IdleType
<1> QED
  BY <1>3, <1>4

LEMMA SkipPartKeeps ==
  ASSUME GraphicsInv, SkipPart
  PROVE  GraphicsInv'
<1> DEFINE c == thread.call
           i == thread.part
<1>1. /\ thread.step = "mark" /\ RectOf(c, i) = Nothing /\ thread' = NextPart
      /\ asked' = Wanted(asked, c, i) /\ UNCHANGED <<drv, back, front, faults>>
  BY DEF SkipPart
<1>2. thread.step \in Drawing /\ Types
  BY <1>1 DEF Drawing, GraphicsInv
<1>3. /\ c \in ThreadCalls /\ IsCall(c) /\ i \in 1..Parts(c)
      /\ drv.init = "shell" /\ drv.format \in Formats
  BY <1>2, CurrentCall
<1>4. /\ thread' \in Threads /\ thread'.step \in {"mark", "idle"}
      /\ thread'.step = "mark" => thread'.call = c /\ thread'.part \in 1..Parts(c)
  BY <1>1, <1>2, NextPartType
<1> HIDE DEF c, i
<1>5. Types'
  <2>1. thread'.step \in Drawing => thread'.step = "mark"
    BY <1>4 DEF Drawing, Ops
  <2>2. thread'.step \in Drawing => thread'.call \in ThreadCalls /\ thread'.part \in 1..Parts(thread'.call)
    BY <1>3, <1>4, <2>1
  <2> QED
    BY <1>1, <1>2, <1>3, <1>4, <2>2 DEF Types
<1>6. DrawsWhatIsAsked'
  <2>1. ASSUME NEW p \in Positions
        PROVE  Shown(drv.format, back[Address(p[1], p[2])]) = Wanted(asked, c, i)[p]
    <3>1. Shown(drv.format, back[Address(p[1], p[2])]) = asked[p]
      BY <1>3 DEF GraphicsInv, DrawsWhatIsAsked
    <3>2. ~InRect(p, RectOf(c, i))
      BY <1>1, NothingIsEmpty DEF c, i
    <3> DEFINE a == Address(p[1], p[2])
               painted == Painted(back, drv.format, c, i)
    <3>3. Shown(drv.format, painted[a]) = Wanted(asked, c, i)[p] /\ painted[a] = back[a]
      BY <1>3, <3>1, <3>2, PaintedPositions
    <3> HIDE DEF painted, a
    <3>4. Shown(drv.format, back[a]) = Wanted(asked, c, i)[p]
      BY <3>3, Zenon
    <3> QED
      BY <3>4 DEF a
  <2> QED
    BY <1>1, <2>1 DEF GraphicsInv, DrawsWhatIsAsked, c, i
<1>7. SwapInv'
  BY <1>1, <1>4 DEF GraphicsInv, SwapInv, Quiet, RegionOnScreen, Synced, Marking, Drawn, Swapping,
                    Same, Marked, Ops
<1> QED
  BY <1>5, <1>6, <1>7 DEF GraphicsInv

LEMMA MarkRegionKeeps ==
  ASSUME GraphicsInv, MarkRegion
  PROVE  GraphicsInv'
<1> DEFINE r == RectOf(thread.call, thread.part)
           n == NewRegion(drv, r)
<1>1. /\ thread.step = "mark" /\ r # Nothing
      /\ thread' = [thread EXCEPT !.step = drv.op, !.region = n]
      /\ UNCHANGED <<drv, back, front, asked, faults>>
  BY DEF MarkRegion
<1>2. thread.step \in Drawing /\ Types
  BY <1>1 DEF Drawing, GraphicsInv
<1>3. /\ thread.call \in ThreadCalls /\ IsCall(thread.call) /\ thread.part \in 1..Parts(thread.call)
      /\ drv.init = "shell"
  BY <1>2, CurrentCall
<1>4. drv \in Drivers /\ drv.op \in Ops /\ thread \in Threads
  BY <1>2 DEF Types, Drivers
<1>5. OnScreen(r) /\ r \in RectInts
  BY <1>1, <1>3, RectClipped, RectOfType DEF Drawable
<1>6. n \in RectInts
  <2> HIDE DEF r
  <2>1. CASE drv.op = "REGION"
    <3>1. n.x \in Int /\ n.y \in Int /\ n.w \in Int /\ n.h \in Int
      BY <1>4, <1>5, NewRegionType
    <3>2. \E x, y, w, h : n = Rect(x, y, w, h)
      BY <2>1 DEF NewRegion
    <3>3. PICK x, y, w, h : n = Rect(x, y, w, h)
      BY <3>2
    <3> HIDE DEF n
    <3>4. x \in Int /\ y \in Int /\ w \in Int /\ h \in Int
      BY <3>1, <3>3, RectFields
    <3> QED
      BY <3>3, <3>4 DEF Rect, RectInts
  <2>2. CASE drv.op # "REGION"
    BY <1>5, <2>2 DEF NewRegion
  <2> QED
    BY <2>1, <2>2
<1> HIDE DEF n, r
<1>7. /\ thread' \in Threads /\ thread'.step = drv.op /\ thread'.region = n
      /\ thread'.call = thread.call /\ thread'.part = thread.part
  BY <1>1, <1>4, <1>6 DEF Threads, Drawing
<1>8. Types'
  BY <1>1, <1>2, <1>3, <1>7 DEF Types
<1>9. DrawsWhatIsAsked'
  BY <1>1 DEF GraphicsInv, DrawsWhatIsAsked
<1>10. Marking'
  BY <1>1, <1>7 DEF Marking, CurrentRect, n, r
<1>11. thread'.step # "draw" /\ thread'.step # "swap"
  BY <1>4, <1>7 DEF Ops
<1>12. SwapInv'
  BY <1>1, <1>10, <1>11 DEF GraphicsInv, SwapInv, Quiet, RegionOnScreen, Synced, Drawn, Swapping,
                            Same, Marked
<1> QED
  BY <1>8, <1>9, <1>12 DEF GraphicsInv

LEMMA StoreRegionKeeps ==
  ASSUME GraphicsInv, StoreRegion
  PROVE  GraphicsInv'
<1>1. /\ thread.step \in Ops /\ drv' = Stored(drv, thread.call, thread.step, thread.region)
      /\ thread' = [thread EXCEPT !.step = "draw", !.region = Nothing]
      /\ UNCHANGED <<back, front, asked, faults>>
  BY DEF StoreRegion, Ops
<1>2. thread.step \in Drawing /\ Types
  BY <1>1 DEF Drawing, GraphicsInv
<1>3. /\ thread.call \in ThreadCalls /\ IsCall(thread.call) /\ thread.part \in 1..Parts(thread.call)
      /\ drv.init = "shell" /\ drv.format \in Formats
  BY <1>2, CurrentCall
<1>4. drv \in Drivers /\ thread \in Threads /\ thread.region \in RectInts
  BY <1>2 DEF Types, Threads
<1>5. drv' \in Drivers /\ drv'.init = drv.init /\ drv'.format = drv.format
  <2>1. StoredAs(drv', drv, thread.call, thread.step, thread.region)
    BY <1>1, <1>4, StoredFields DEF RectInts
  <2> QED
    BY <2>1 DEF StoredAs
<1>6. /\ thread' \in Threads /\ thread'.step = "draw"
      /\ thread'.call = thread.call /\ thread'.part = thread.part
  <2>1. Nothing \in RectInts
    BY DEF Nothing, Rect, RectInts
  <2> QED
    BY <1>1, <1>4, <2>1 DEF Threads, Drawing
<1>7. Types'
  BY <1>1, <1>2, <1>3, <1>5, <1>6 DEF Types
<1>8. DrawsWhatIsAsked'
  BY <1>1, <1>5 DEF GraphicsInv, DrawsWhatIsAsked
<1>9. SwapInv'
  <2> SUFFICES ASSUME Quiet
               PROVE  /\ ~faults'.overrun /\ RegionOnScreen(drv') /\ Synced' /\ Drawn'
    BY <1>1, <1>5, <1>6 DEF SwapInv, Quiet, Marking, Swapping, Ops, RegionOnScreen
  <2>1. /\ ~faults.overrun /\ RegionOnScreen(drv) /\ Synced /\ Marking
    BY DEF GraphicsInv, SwapInv
  <2> DEFINE r == RectOf(thread.call, thread.part)
  <2>2. /\ thread.step = drv.op /\ r # Nothing /\ thread.region = NewRegion(drv, r)
    BY <1>1, <2>1 DEF Marking, CurrentRect
  <2>3. OnScreen(r)
    BY <1>3, <2>2, RectClipped DEF Drawable
  <2> HIDE DEF r
  <2>4. drv' = Stored(drv, thread.call, drv.op, NewRegion(drv, r))
    BY <1>1, <2>2
  <2>5. /\ RegionOnScreen(drv')
        /\ \A p \in Positions : Marked(drv, p) \/ InRect(p, r) => Marked(drv', p)
    BY <1>4, <2>1, <2>3, <2>4, StoredCovers
  <2>6. Synced'
    BY <1>1, <2>1, <2>5 DEF Synced, Same
  <2>7. Drawn'
    BY <1>6, <2>5 DEF Drawn, CurrentRect, r
  <2> QED
    BY <1>1, <2>1, <2>5, <2>6, <2>7
<1> QED
  BY <1>7, <1>8, <1>9 DEF GraphicsInv

LEMMA DrawPartKeeps ==
  ASSUME GraphicsInv, DrawPart
  PROVE  GraphicsInv'
<1> DEFINE c == thread.call
           i == thread.part
<1>1. /\ thread.step = "draw" /\ back' = Painted(back, drv.format, c, i)
      /\ asked' = Wanted(asked, c, i)
      /\ faults' = [faults EXCEPT !.outside = @ \/ Strays(c, i)]
      /\ thread' = NextPart /\ UNCHANGED <<drv, front>>
  BY DEF DrawPart
<1>2. thread.step \in Drawing /\ Types
  BY <1>1 DEF Drawing, GraphicsInv
<1>3. /\ c \in ThreadCalls /\ IsCall(c) /\ i \in 1..Parts(c)
      /\ drv.init = "shell" /\ drv.format \in Formats
  BY <1>2, CurrentCall
<1>4. /\ thread' \in Threads /\ thread'.step \in {"mark", "idle"}
      /\ thread'.step = "mark" => thread'.call = c /\ thread'.part \in 1..Parts(c)
  BY <1>1, <1>2, NextPartType
<1>5. Shows(drv.format, back, asked) /\ ~faults.outside
  BY <1>3 DEF GraphicsInv, DrawsWhatIsAsked, Shows
<1> HIDE DEF c, i
<1>6. ~Strays(c, i)
  BY <1>3, NothingStrays
<1>7. /\ faults' \in [torn : BOOLEAN, outside : BOOLEAN, overrun : BOOLEAN]
      /\ ~faults'.outside /\ faults'.torn = faults.torn /\ faults'.overrun = faults.overrun
  <2>1. faults \in [torn : BOOLEAN, outside : BOOLEAN, overrun : BOOLEAN]
    BY <1>2 DEF Types
  <2>2. faults' = [faults EXCEPT !.outside = FALSE]
    BY <1>1, <1>5, <1>6, <2>1
  <2> QED
    BY <2>1, <2>2
<1>8. Types'
  <2>1. thread'.step \in Drawing => thread'.step = "mark"
    BY <1>4 DEF Drawing, Ops
  <2>2. thread'.step \in Drawing => thread'.call \in ThreadCalls /\ thread'.part \in 1..Parts(thread'.call)
    BY <1>3, <1>4, <2>1
  <2> QED
    BY <1>1, <1>2, <1>3, <1>4, <1>7, <2>2 DEF Types
<1>9. DrawsWhatIsAsked'
  <2>1. Shows(drv.format, back', asked')
    BY <1>1, <1>3, <1>5, PaintedShows
  <2> QED
    BY <1>1, <1>7, <2>1 DEF DrawsWhatIsAsked, Shows
<1>10. SwapInv'
  <2> SUFFICES ASSUME Quiet
               PROVE  ~faults'.overrun /\ RegionOnScreen(drv) /\ Synced'
    BY <1>1, <1>4, <1>7 DEF SwapInv, Quiet, Marking, Drawn, Swapping, Ops, RegionOnScreen
  <2>1. /\ ~faults.overrun /\ RegionOnScreen(drv) /\ Synced /\ Drawn
    BY DEF GraphicsInv, SwapInv
  <2>2. ASSUME NEW p \in Positions, ~Marked(drv, p)
        PROVE  front[Address(p[1], p[2])] = back'[Address(p[1], p[2])]
    <3>1. ~InRect(p, RectOf(c, i))
      BY <1>1, <2>1, <2>2 DEF Drawn, CurrentRect, c, i
    <3>2. Shown(drv.format, back[Address(p[1], p[2])]) = asked[p]
      BY <1>5 DEF Shows
    <3>3. back'[Address(p[1], p[2])] = back[Address(p[1], p[2])]
      BY <1>1, <1>3, <3>1, <3>2, PaintedPositions
    <3>4. front[Address(p[1], p[2])] = back[Address(p[1], p[2])]
      BY <2>1, <2>2 DEF Synced, Same
    <3> QED
      BY <3>3, <3>4
  <2>3. Synced'
    BY <1>1, <2>2 DEF Synced, Same
  <2> QED
    BY <1>7, <2>1, <2>3
<1> QED
  BY <1>8, <1>9, <1>10 DEF GraphicsInv

LEMMA SwapRectType ==
  ASSUME NEW d \in Drivers
  PROVE  SwapRect(d) \in RectInts
<1>1. d.op \in Ops /\ d.x \in Int /\ d.y \in Int /\ d.w \in Int /\ d.h \in Int
  BY DEF Drivers
<1> QED
  BY <1>1, ScreenSize DEF SwapRect, Rect, RectInts, Ops

LEMMA BeginSwapKeeps ==
  ASSUME GraphicsInv, BeginSwap
  PROVE  GraphicsInv'
<1> DEFINE call == [kind |-> IF drv.op = "REGION" THEN "swapRegion" ELSE "swap"]
<1>1. /\ drv.init = "shell" /\ thread = Idle
      /\ thread' = [Idle EXCEPT !.step = "swap", !.part = 0, !.region = SwapRect(drv), !.call = call]
      /\ UNCHANGED <<drv, back, front, asked, faults>>
  BY DEF BeginSwap
<1>2. Types /\ drv \in Drivers
  BY DEF GraphicsInv, Types
<1>3. SwapRect(drv) \in RectInts
  BY <1>2, SwapRectType
<1>4. /\ call \in SwapCalls
      /\ call.kind = IF drv.op = "REGION" THEN "swapRegion" ELSE "swap"
  BY DEF SwapCalls
<1> HIDE DEF call
<1>5. /\ thread' \in Threads /\ thread'.step = "swap" /\ thread'.part = 0
      /\ thread'.region = SwapRect(drv) /\ thread'.call = call
  BY <1>1, <1>3, <1>4, IdleType DEF Threads, Drawing
<1>6. Types'
  BY <1>1, <1>2, <1>5 DEF Types, Drawing, Ops
<1>7. DrawsWhatIsAsked'
  BY <1>1 DEF GraphicsInv, DrawsWhatIsAsked
<1>8. SwapInv'
  <2> SUFFICES ASSUME Quiet
               PROVE  /\ ~faults.overrun /\ RegionOnScreen(drv) /\ Synced' /\ Swapping'
    BY <1>1, <1>5 DEF SwapInv, Quiet, Marking, Drawn, Ops, RegionOnScreen
  <2>1. /\ ~faults.overrun /\ RegionOnScreen(drv) /\ Synced
    BY DEF GraphicsInv, SwapInv
  <2>2. Synced'
    BY <1>1, <2>1 DEF Synced, Same, Marked
  <2>3. ASSUME NEW p \in Positions, ~Same(p)
        PROVE  p[2] >= thread'.region.y + thread'.part
    <3>1. Marked(drv, p)
      BY <2>1, <2>3 DEF Synced
    <3>2. /\ p[2] - SwapRect(drv).y \in 0..(SwapRect(drv).h - 1)
          /\ SwapRect(drv).y \in Int
      BY <1>2, <3>1, MarkedIsInRows
    <3>3. p[2] \in Nat
      BY PositionParts
    <3> QED
      BY <1>5, <3>2, <3>3
  <2>4. Swapping'
    BY <1>1, <1>4, <1>5, <2>3 DEF Swapping, Same
  <2> QED
    BY <2>1, <2>2, <2>4
<1> QED
  BY <1>6, <1>7, <1>8 DEF GraphicsInv

LEMMA SwapRowKeeps ==
  ASSUME GraphicsInv, SwapRow
  PROVE  GraphicsInv'
<1> DEFINE row == Row(thread.region, thread.part)
<1>1. /\ thread.step = "swap" /\ thread.part < SwapRows
      /\ front' = Copied(front, back, row)
      /\ faults' = [faults EXCEPT !.overrun = @ \/ ~(row \subseteq Addresses)]
      /\ thread' = [thread EXCEPT !.part = @ + 1]
      /\ UNCHANGED <<drv, back, asked>>
  BY DEF SwapRow
<1>2. Types /\ drv \in Drivers /\ thread \in Threads /\ thread.part \in Nat
  BY DEF GraphicsInv, Types, Threads
<1>3. drv.init = "shell"
  BY <1>1, <1>2, IdleType DEF Types
<1>4. /\ thread' \in Threads /\ thread'.step = "swap" /\ thread'.part = thread.part + 1
      /\ thread'.region = thread.region /\ thread'.call = thread.call
  BY <1>1, <1>2 DEF Threads
<1>5. /\ faults' \in [torn : BOOLEAN, outside : BOOLEAN, overrun : BOOLEAN]
      /\ faults'.outside = faults.outside /\ faults'.torn = faults.torn
      /\ ~faults.overrun /\ row \subseteq Addresses => ~faults'.overrun
  <2>1. faults \in [torn : BOOLEAN, outside : BOOLEAN, overrun : BOOLEAN]
    BY <1>2 DEF Types
  <2> DEFINE o == faults.overrun \/ ~(row \subseteq Addresses)
  <2>2. faults' = [faults EXCEPT !.overrun = o] /\ o \in BOOLEAN
    BY <1>1
  <2>3. ~faults.overrun /\ row \subseteq Addresses => o = FALSE
    OBVIOUS
  <2> HIDE DEF o, row
  <2>4. /\ faults' \in [torn : BOOLEAN, outside : BOOLEAN, overrun : BOOLEAN]
        /\ faults'.outside = faults.outside /\ faults'.torn = faults.torn /\ faults'.overrun = o
    BY <2>1, <2>2
  <2> QED
    BY <2>3, <2>4
<1>6. Types'
  BY <1>1, <1>2, <1>3, <1>4, <1>5 DEF Types, Drawing, Ops
<1>7. DrawsWhatIsAsked'
  BY <1>1, <1>5 DEF GraphicsInv, DrawsWhatIsAsked
<1>8. SwapInv'
  <2> SUFFICES ASSUME Quiet
               PROVE  /\ ~faults'.overrun /\ RegionOnScreen(drv) /\ Synced' /\ Swapping'
    BY <1>1, <1>4, <1>5 DEF SwapInv, Quiet, Marking, Drawn, Ops, RegionOnScreen
  <2>1. /\ ~faults.overrun /\ RegionOnScreen(drv) /\ Synced /\ Swapping
    BY DEF GraphicsInv, SwapInv
  <2> DEFINE r == SwapRect(drv)
  <2>2. /\ thread.region = r
        /\ thread.call.kind = IF drv.op = "REGION" THEN "swapRegion" ELSE "swap"
        /\ \A p \in Positions : Same(p) \/ p[2] >= r.y + thread.part
    BY <1>1, <2>1 DEF Swapping
  <2>3. thread.part < r.h
    BY <1>1, <1>2, <2>2, SwapRectFields DEF SwapRows
  <2>4. row \subseteq Addresses
    BY <1>2, <2>1, <2>2, <2>3, RowsInBuffer
  <2>5. ASSUME NEW p \in Positions
        PROVE  front'[Address(p[1], p[2])] =
                 IF Address(p[1], p[2]) \in row THEN back[Address(p[1], p[2])]
                 ELSE front[Address(p[1], p[2])]
    <3>1. Address(p[1], p[2]) \in Addresses
      BY PositionParts, AddressInRange
    <3> HIDE DEF row
    <3> QED
      BY <1>1, <3>1 DEF Copied
  <2> HIDE DEF r, row
  <2>6. \A p \in Positions : Same(p) => Same(p)'
    BY <1>1, <2>5 DEF Same
  <2>7. Synced'
    BY <1>1, <2>1, <2>6 DEF Synced, Marked
  <2>8. ASSUME NEW p \in Positions, ~(p[2] >= r.y + (thread.part + 1))
        PROVE  front'[Address(p[1], p[2])] = back[Address(p[1], p[2])]
    <3>1. p[2] \in Nat
      BY PositionParts
    <3>2. CASE Same(p)
      BY <2>5, <3>2 DEF Same
    <3>3. CASE ~Same(p)
      <4>1. Marked(drv, p) /\ p[2] >= r.y + thread.part
        BY <2>1, <2>2, <3>3 DEF Synced
      <4>2. r.y \in Int /\ Address(p[1], p[2]) \in Row(r, p[2] - r.y)
        BY <1>2, <4>1, MarkedIsInRows DEF r
      <4>3. p[2] - r.y = thread.part
        BY <1>2, <2>8, <3>1, <4>1, <4>2
      <4>4. Address(p[1], p[2]) \in row
        BY <2>2, <4>2, <4>3 DEF row
      <4> QED
        BY <2>5, <4>4
    <3> QED
      BY <3>2, <3>3
  <2>9. Swapping'
    <3>1. thread'.region = r /\ thread'.part = thread.part + 1
      BY <1>4, <2>2
    <3>2. thread'.region = SwapRect(drv')
      BY <1>1, <3>1 DEF r
    <3>3. \A p \in Positions : Same(p)' \/ p[2] >= thread'.region.y + thread'.part
      BY <1>1, <2>8, <3>1 DEF Same
    <3> QED
      BY <1>1, <1>4, <2>2, <3>2, <3>3 DEF Swapping
  <2> QED
    BY <1>5, <2>1, <2>4, <2>7, <2>9
<1> QED
  BY <1>6, <1>7, <1>8 DEF GraphicsInv

LEMMA EndSwapKeeps ==
  ASSUME GraphicsInv, EndSwap
  PROVE  GraphicsInv'
<1>1. /\ thread.step = "swap" /\ thread.part >= SwapRows
      /\ drv' = [drv EXCEPT !.op = "NONE"] /\ thread' = Idle
      /\ UNCHANGED <<back, front, asked, faults>>
  BY DEF EndSwap
<1>2. Types /\ drv \in Drivers /\ thread.part \in Nat
  BY DEF GraphicsInv, Types, Threads
<1>3. drv.init = "shell"
  BY <1>1, <1>2, IdleType DEF Types
<1>4. /\ drv' \in Drivers /\ drv'.init = "shell" /\ drv'.format = drv.format /\ drv'.op = "NONE"
  BY <1>1, <1>2, <1>3 DEF Drivers, Ops
<1>5. thread' \in Threads /\ thread'.step = "idle"
  BY <1>1, IdleType
<1>6. Types'
  BY <1>1, <1>2, <1>3, <1>4, <1>5 DEF Types, Drawing, Ops
<1>7. DrawsWhatIsAsked'
  BY <1>1, <1>3, <1>4 DEF GraphicsInv, DrawsWhatIsAsked
<1>8. SwapInv'
  <2> SUFFICES ASSUME Quiet PROVE ~faults.overrun /\ Synced'
    BY <1>1, <1>3, <1>4, <1>5 DEF SwapInv, Quiet, Marking, Drawn, Swapping, Ops, RegionOnScreen
  <2>1. /\ ~faults.overrun /\ Synced /\ Swapping
    BY DEF GraphicsInv, SwapInv
  <2> DEFINE r == SwapRect(drv)
  <2>2. /\ thread.region = r
        /\ thread.call.kind = IF drv.op = "REGION" THEN "swapRegion" ELSE "swap"
        /\ \A p \in Positions : Same(p) \/ p[2] >= r.y + thread.part
    BY <1>1, <2>1 DEF Swapping
  <2>3. thread.part >= r.h /\ r.h \in Int
    BY <1>1, <1>2, <2>2, SwapRectFields DEF SwapRows
  <2> HIDE DEF r
  <2>4. ASSUME NEW p \in Positions PROVE Same(p)
    <3> SUFFICES ASSUME ~Same(p) PROVE FALSE
      OBVIOUS
    <3>1. Marked(drv, p) /\ p[2] >= r.y + thread.part
      BY <2>1, <2>2 DEF Synced
    <3>2. r.y \in Int /\ p[2] - r.y \in 0..(r.h - 1)
      BY <1>2, <3>1, MarkedIsInRows DEF r
    <3>3. p[2] \in Nat
      BY PositionParts
    <3> QED
      BY <1>2, <2>3, <3>1, <3>2, <3>3
  <2> QED
    BY <1>1, <2>1, <2>4 DEF Synced, Same
<1> QED
  BY <1>6, <1>7, <1>8 DEF GraphicsInv

LEMMA CreateShellKeeps ==
  ASSUME GraphicsInv, CreateShell
  PROVE  GraphicsInv'
<1> DEFINE c == [kind |-> "clear", color |-> Background]
<1>1. /\ drv.init = "ready" /\ drv' = [drv EXCEPT !.init = "shell"]
      /\ back' = Painted(back, drv.format, c, 1)
      /\ front' = Copied(front, back', Addresses)
      /\ asked' = Wanted(asked, c, 1)
      /\ UNCHANGED <<thread, faults>>
  BY DEF CreateShell
<1>2. /\ Types /\ drv \in Drivers /\ drv.format \in Formats /\ thread = Idle
      /\ drv.op = "NONE" /\ ~faults.outside /\ ~faults.overrun
      /\ \A a \in Addresses : back[a] = <<0, 0, 0>>
  BY <1>1 DEF GraphicsInv, Types
<1>3. IsCall(c) /\ 1 \in 1..Parts(c) /\ c.kind = "clear"
  BY CallsAssumption DEF IsCall, Parts
<1>4. /\ drv' \in Drivers /\ drv'.init = "shell" /\ drv'.format = drv.format /\ drv'.op = "NONE"
  BY <1>1, <1>2 DEF Drivers
<1> HIDE DEF c
<1>5. thread' \in Threads /\ thread'.step = "idle"
  BY <1>1, <1>2, IdleType
<1>6. Types'
  BY <1>1, <1>2, <1>4, <1>5 DEF Types, Drawing, Ops
<1>7. \A p \in Positions : Shown(drv.format, back'[Address(p[1], p[2])]) = asked'[p]
  BY <1>1, <1>2, <1>3, PaintedPositions
<1>8. ASSUME NEW a \in Addresses, a % Stride >= Width PROVE back'[a] = <<0, 0, 0>>
  <2>1. Painted(back, drv.format, c, 1)[a] = back[a]
    BY <1>3, <1>8, PaintedElsewhere
  <2> QED
    BY <1>1, <1>2, <2>1
<1>9. DrawsWhatIsAsked'
  BY <1>1, <1>2, <1>4, <1>7, <1>8 DEF DrawsWhatIsAsked
<1>10. Synced'
  <2>1. ASSUME NEW p \in Positions PROVE front'[Address(p[1], p[2])] = back'[Address(p[1], p[2])]
    <3>1. Address(p[1], p[2]) \in Addresses
      BY PositionParts, AddressInRange
    <3> QED
      BY <1>1, <3>1 DEF Copied
  <2> QED
    BY <2>1 DEF Synced, Same
<1>11. SwapInv'
  BY <1>1, <1>2, <1>4, <1>5, <1>10 DEF SwapInv, Marking, Drawn, Swapping, Ops, RegionOnScreen
<1> QED
  BY <1>6, <1>9, <1>11 DEF GraphicsInv

(* The handler marks, draws and swaps in one go. *)
LEMMA HandlerKeeps ==
  ASSUME GraphicsInv, HandlerDraws
  PROVE  GraphicsInv'
<1>1. PICK c \in HandlerCalls :
        LET r == RectOf(c, 1)
            d == IF r = Nothing THEN drv ELSE Stored(drv, c, drv.op, NewRegion(drv, r))
            swap == SwapRect(d)
            copied == UNION {Row(swap, h) : h \in 0..(swap.h - 1)}
        IN  /\ drv' = [d EXCEPT !.op = "NONE"]
            /\ back' = Painted(back, drv.format, c, 1)
            /\ front' = Copied(front, back', copied)
            /\ asked' = Wanted(asked, c, 1)
            /\ faults' = [torn |-> faults.torn \/ thread # Idle,
                          outside |-> faults.outside \/ Strays(c, 1),
                          overrun |-> faults.overrun \/ ~(copied \subseteq Addresses)]
  BY DEF HandlerDraws
<1> DEFINE r == RectOf(c, 1)
           d == IF r = Nothing THEN drv ELSE Stored(drv, c, drv.op, NewRegion(drv, r))
           swap == SwapRect(d)
           copied == UNION {Row(swap, h) : h \in 0..(swap.h - 1)}
<1>2. /\ drv' = [d EXCEPT !.op = "NONE"]
      /\ back' = Painted(back, drv.format, c, 1)
      /\ front' = Copied(front, back', copied)
      /\ asked' = Wanted(asked, c, 1)
      /\ faults' = [torn |-> faults.torn \/ thread # Idle,
                    outside |-> faults.outside \/ Strays(c, 1),
                    overrun |-> faults.overrun \/ ~(copied \subseteq Addresses)]
  BY <1>1
<1>3. drv.init = "shell" /\ thread' = thread
  BY DEF HandlerDraws
<1>4. Types /\ drv \in Drivers /\ drv.op \in Ops /\ drv.format \in Formats
  BY <1>3 DEF GraphicsInv, Types, Drivers
<1>5. IsCall(c)
  BY CallsAssumption
<1>6. 1 \in 1..Parts(c)
  BY <1>5 DEF IsCall, Parts
<1>7. Drawable(r)
  BY <1>5, <1>6, RectClipped
<1> HIDE DEF r
<1>8. d \in Drivers /\ d.init = "shell" /\ d.format = drv.format
  <2>1. CASE r = Nothing
    BY <1>3, <1>4, <2>1
  <2>2. CASE r # Nothing
    <3> DEFINE n == NewRegion(drv, r)
    <3>1. OnScreen(r)
      BY <1>7, <2>2 DEF Drawable
    <3>2. n.x \in Int /\ n.y \in Int /\ n.w \in Int /\ n.h \in Int
      BY <1>4, <3>1, NewRegionType
    <3> HIDE DEF n
    <3>3. StoredAs(Stored(drv, c, drv.op, n), drv, c, drv.op, n)
      BY <1>4, <3>2, StoredFields
    <3>4. d = Stored(drv, c, drv.op, n)
      BY <2>2 DEF n
    <3> HIDE DEF d
    <3> QED
      BY <1>3, <3>3, <3>4 DEF StoredAs
  <2> QED
    BY <2>1, <2>2
<1> HIDE DEF d
<1>9. drv' \in Drivers /\ drv'.init = "shell" /\ drv'.format = drv.format /\ drv'.op = "NONE"
  BY <1>2, <1>8 DEF Drivers, Ops
<1>10. Shows(drv.format, back, asked) /\ ~faults.outside
  BY <1>3 DEF GraphicsInv, DrawsWhatIsAsked, Shows
<1>11. ~Strays(c, 1)
  BY <1>5, <1>6, NothingStrays
<1> HIDE DEF copied
<1>12. /\ faults' \in [torn : BOOLEAN, outside : BOOLEAN, overrun : BOOLEAN]
       /\ ~faults'.outside
       /\ ~faults'.torn => ~faults.torn /\ thread = Idle
       /\ ~faults.overrun /\ copied \subseteq Addresses => ~faults'.overrun
  BY <1>2, <1>10, <1>11
<1>13. Types'
  BY <1>3, <1>4, <1>9, <1>12 DEF Types
<1>14. DrawsWhatIsAsked'
  <2>1. Shows(drv.format, back', asked')
    BY <1>2, <1>4, <1>5, <1>6, <1>10, PaintedShows
  <2> QED
    BY <1>9, <1>12, <2>1 DEF DrawsWhatIsAsked, Shows
<1>15. SwapInv'
  <2> SUFFICES ASSUME ~faults'.torn PROVE ~faults'.overrun /\ Synced'
    <3>1. thread'.step = "idle" \/ faults'.torn
      BY <1>3, <1>12, IdleType
    <3>2. ~faults'.torn => Marking' /\ Drawn' /\ Swapping'
      BY <3>1 DEF Marking, Drawn, Swapping, Ops
    <3>3. RegionOnScreen(drv')
      BY <1>9 DEF RegionOnScreen
    <3> QED
      BY <3>2, <3>3 DEF SwapInv, Quiet, RegionOnScreen
  <2>1. Quiet
    BY <1>3, <1>12 DEF Quiet
  <2>2. ~faults.overrun /\ RegionOnScreen(drv) /\ Synced
    BY <2>1 DEF GraphicsInv, SwapInv
  <2>3. /\ RegionOnScreen(d)
        /\ \A p \in Positions : Marked(drv, p) \/ InRect(p, r) => Marked(d, p)
    <3>1. CASE r = Nothing
      <4>1. d = drv
        BY <3>1 DEF d
      <4> QED
        BY <2>2, <3>1, <4>1, NothingIsEmpty
    <3>2. CASE r # Nothing
      <4>1. OnScreen(r)
        BY <1>7, <3>2 DEF Drawable
      <4>2. d = Stored(drv, c, drv.op, NewRegion(drv, r))
        BY <3>2 DEF d
      <4> QED
        BY <1>4, <2>2, <4>1, <4>2, StoredCovers
    <3> QED
      BY <3>1, <3>2
  <2>4. copied \subseteq Addresses
    <3>1. ASSUME NEW h \in 0..(swap.h - 1) PROVE Row(swap, h) \subseteq Addresses
      <4>1. swap.h \in Int
        BY <1>8, SwapRectFields
      <4>2. h \in Nat /\ h < swap.h
        BY <4>1
      <4> QED
        BY <1>8, <2>3, <4>2, RowsInBuffer
    <3> HIDE DEF swap
    <3> QED
      BY <3>1 DEF copied
  <2>5. ASSUME NEW p \in Positions
        PROVE  front'[Address(p[1], p[2])] = back'[Address(p[1], p[2])]
    <3> DEFINE a == Address(p[1], p[2])
    <3>1. a \in Addresses
      BY PositionParts, AddressInRange
    <3>2. front'[a] = IF a \in copied THEN back'[a] ELSE front[a]
      BY <1>2, <3>1 DEF Copied
    <3>3. CASE Marked(d, p)
      <4>1. p[2] - swap.y \in 0..(swap.h - 1) /\ a \in Row(swap, p[2] - swap.y)
        BY <1>8, <3>3, MarkedIsInRows
      <4> HIDE DEF swap, a
      <4>2. a \in copied
        BY <4>1 DEF copied
      <4> QED
        BY <3>2, <4>2 DEF a
    <3>4. CASE ~Marked(d, p)
      <4>1. ~Marked(drv, p) /\ ~InRect(p, r)
        BY <2>3, <3>4
      <4>2. front[a] = back[a]
        BY <2>2, <4>1 DEF Synced, Same
      <4>3. Shown(drv.format, back[a]) = asked[p]
        BY <1>10 DEF Shows
      <4>4. back'[a] = back[a]
        BY <1>2, <1>4, <1>5, <1>6, <4>1, <4>3, PaintedPositions DEF r
      <4> QED
        BY <3>2, <4>2, <4>4
    <3> QED
      BY <3>3, <3>4
  <2>6. Synced'
    BY <2>5 DEF Synced, Same
  <2> QED
    BY <1>12, <2>2, <2>4, <2>6
<1> QED
  BY <1>13, <1>14, <1>15 DEF GraphicsInv

LEMMA NextGraphics ==
  ASSUME GraphicsInv, [Next]_vars
  PROVE  GraphicsInv'
BY InitDriverKeeps, CreateShellKeeps, BeginCallKeeps, SkipPartKeeps, MarkRegionKeeps,
   StoreRegionKeeps, DrawPartKeeps, BeginSwapKeeps, SwapRowKeeps, EndSwapKeeps, HandlerKeeps,
   StutterGraphics DEF Next

LEMMA GraphicsInvariant == Spec => []GraphicsInv
BY InitGraphics, NextGraphics, PTL DEF Spec

(* What has been drawn is what was asked for, for every screen and every   *)
(* order of the thread's and the handler's calls: CpuGrGraphicsClearScreen,*)
(* ...ClearScreenRegions and ...BlitImageToFramebuffer change exactly the  *)
(* positions they name and touch nothing beside the screen or the image.   *)
THEOREM DrawingIsExact == Spec => []DrawsWhatIsAsked
BY GraphicsInvariant, GraphicsInvImplies, PTL

(* Until a handler interrupts a call of the thread, the region marked by   *)
(* CpuGrMarkScreenRegionForSwapping holds every position at which the      *)
(* screen is behind, and a swap stays inside the buffers.                  *)
THEOREM NoDrawingIsForgotten == Spec => []ScreenCatchesUp
BY GraphicsInvariant, GraphicsInvImplies, PTL
=============================================================================
