------------------------- MODULE CpuGraphicsDriver -------------------------
(***************************************************************************)
(* The graphics driver (src/Drivers/Graphics/CpuGraphicsDriver.c): drawing *)
(* goes to a back buffer, clipped to the screen, and the region that has   *)
(* been drawn to is remembered; a swap copies that region to the           *)
(* framebuffer.  Both buffers have Stride pixels a row, Width of which are *)
(* on the screen.                                                          *)
(*                                                                         *)
(* The booting thread calls the driver and may be interrupted between the  *)
(* steps of a call by the keyboard's handler, which draws and swaps too    *)
(* (HandlersDoNotNest of Interrupts: the handler's calls are not           *)
(* interrupted).  One rectangle is drawn in one step.  Sizes and positions *)
(* are so small that no sum of them leaves 32 bits.                        *)
(***************************************************************************)
EXTENDS Integers, Sequences

CONSTANTS
  Width, Height, Stride,
  GopFormats,    \* pixel formats the firmware may report
  Background,    \* the shell's background colour
  Firmware,      \* the colour that is on the screen before
  ThreadCalls,   \* drawing calls of the booting thread and of the handler
  HandlerCalls

ASSUME ScreenAssumption ==
  Width \in Nat \ {0} /\ Height \in Nat \ {0} /\ Stride \in Nat /\ Width <= Stride

(* The calls the shell and the font make: regions of one size, and a part  *)
(* of an image that lies inside it.                                        *)
Colors == [r : 0..255, g : 0..255, b : 0..255]
Regions == [x : Int, y : Int, width : Nat, height : Nat]
IsCall(c) ==
  /\ c.kind \in {"clear", "regions", "blit"}
  /\ c.kind # "blit" => c.color \in Colors
  /\ c.kind = "regions" =>
       /\ c.regions \in Seq(Regions) /\ c.regions # <<>>
       /\ \A i \in 1..Len(c.regions) : /\ c.regions[i].width = c.regions[1].width
                                        /\ c.regions[i].height = c.regions[1].height
  /\ c.kind = "blit" =>
       /\ c.fbX \in Int /\ c.fbY \in Int /\ c.imageX \in Nat /\ c.imageY \in Nat
       /\ c.width \in Nat /\ c.height \in Nat /\ c.format \in {"RGB8", "RGBA8"}
       /\ \A x \in c.imageX..(c.imageX + c.width - 1), y \in c.imageY..(c.imageY + c.height - 1) :
            <<x, y>> \in DOMAIN c.image

ASSUME CallsAssumption ==
  Background \in Colors /\ \A c \in ThreadCalls \cup HandlerCalls : IsCall(c)

VARIABLES
  drv,      \* DexprOS_CpuGrGraphicsDrvData: [init, format, op, x, y, w, h]
  back,     \* pRenderFramebufferMemory and pMainFramebufferMemory: a pixel,
  front,    \* as its bytes, for every address
  thread,   \* the call the thread is in: [call, part, step, region]
  asked,    \* what was asked for: a colour for every position on the screen
  faults    \* [torn, outside, overrun]: a call of the thread was interrupted;
            \* drawing left the buffer or the image; a swap left the buffers

vars == <<drv, back, front, thread, asked, faults>>

Size == Stride * Height
Addresses == 0..(Size - 1)
Address(x, y) == y * Stride + x
Positions == (0..(Width - 1)) \X (0..(Height - 1))

Rect(x, y, w, h) == [x |-> x, y |-> y, w |-> w, h |-> h]
InRect(p, r) == r.x <= p[1] /\ p[1] < r.x + r.w /\ r.y <= p[2] /\ p[2] < r.y + r.h
Cells(r) == (0..(r.w - 1)) \X (0..(r.h - 1))
Nothing == Rect(0, 0, -1, -1)

Idle == [call |-> [kind |-> "none"], part |-> 1, step |-> "idle", region |-> Nothing]

-----------------------------------------------------------------------------
(* The bytes of a pixel. *)
Encode(format, c) == IF format = "RGB" THEN <<c.r, c.g, c.b>> ELSE <<c.b, c.g, c.r>>

(* What the screen makes of them. *)
Shown(format, p) ==
  IF format = "RGB" THEN [r |-> p[1], g |-> p[2], b |-> p[3]] ELSE [r |-> p[3], g |-> p[2], b |-> p[1]]

(* A byte of an image over one of the buffer: the double arithmetic is     *)
(* exact where alpha is 0 or 255, and off by at most one elsewhere.        *)
Mix(src, dst, alpha) == (src * alpha + dst * (255 - alpha)) \div 255

(* Faulty variant: the part left of the screen is not taken off the width. *)
ClippedRegionKeepsWidth(regions, i) ==
  LET r == regions[i]
      x == IF r.x >= 0 THEN r.x ELSE 0
      y == IF r.y >= 0 THEN r.y ELSE 0
      w == regions[1].width
      h == regions[1].height - (y - r.y)
  IN  IF x >= Width \/ y >= Height \/ w <= 0 \/ h <= 0 THEN Nothing
      ELSE Rect(x, y, IF x + w > Width THEN Width - x ELSE w, IF y + h > Height THEN Height - y ELSE h)

(* CpuGrGraphicsClearScreenRegions: the visible part of region i, with the *)
(* size of the first region (pRegions->width).                             *)
ClippedRegion(regions, i) ==
  LET r == regions[i]
      x == IF r.x >= 0 THEN r.x ELSE 0
      y == IF r.y >= 0 THEN r.y ELSE 0
      w == regions[1].width - (x - r.x)
      h == regions[1].height - (y - r.y)
  IN  IF x >= Width \/ y >= Height \/ (r.x < 0 /\ w <= 0) \/ (r.y < 0 /\ h <= 0) THEN Nothing
      ELSE Rect(x, y, IF x + w > Width THEN Width - x ELSE w, IF y + h > Height THEN Height - y ELSE h)

(* CpuGrGraphicsBlitImageToFramebuffer: the visible part, and where it is  *)
(* in the image.                                                           *)
ClippedBlit(c) ==
  LET x == IF c.fbX < 0 THEN 0 ELSE c.fbX
      y == IF c.fbY < 0 THEN 0 ELSE c.fbY
      imageX == c.imageX + (x - c.fbX)
      imageY == c.imageY + (y - c.fbY)
      left == c.width - (x - c.fbX)
      below == c.height - (y - c.fbY)
      w == IF x + left > Width THEN Width - x ELSE left
      h == IF y + below > Height THEN Height - y ELSE below
  IN  [rect |-> IF imageX < 0 \/ imageY < 0 \/ w < 0 \/ h < 0 \/ x >= Width \/ y >= Height
                THEN Nothing ELSE Rect(x, y, w, h),
       imageX |-> imageX, imageY |-> imageY]

(* The rectangles a call draws one after the other. *)
Parts(c) == IF c.kind = "regions" THEN Len(c.regions) ELSE 1
RectOf(c, i) ==
  CASE c.kind = "clear"   -> Rect(0, 0, Width, Height)
    [] c.kind = "regions" -> ClippedRegion(c.regions, i)
    [] c.kind = "blit"    -> ClippedBlit(c).rect

-----------------------------------------------------------------------------
Touched(r) == {Address(r.x + p[1], r.y + p[2]) : p \in Cells(r)}

ImageCell(c, p) == <<ClippedBlit(c).imageX + p[1], ClippedBlit(c).imageY + p[2]>>

(* The loops that clear and blit: each address of the rectangle is set to  *)
(* the colour, or to the image's pixel, mixed with the old one if the      *)
(* image has an alpha channel.                                             *)
PixelOver(format, c, p, old) ==
  IF c.kind # "blit" THEN Encode(format, c.color)
  ELSE IF ImageCell(c, p) \notin DOMAIN c.image THEN old
  ELSE LET src == c.image[ImageCell(c, p)]
           bytes == Encode(format, src)
       IN  IF c.format = "RGB8" THEN bytes
           ELSE [k \in 1..3 |-> Mix(bytes[k], old[k], src.alpha)]

Painted(buffer, format, c, i) ==
  LET r == RectOf(c, i)
      At(a) == CHOOSE p \in Cells(r) : a = Address(r.x + p[1], r.y + p[2])
  IN  [a \in Addresses |-> IF a \in Touched(r) THEN PixelOver(format, c, At(a), buffer[a]) ELSE buffer[a]]

Strays(c, i) ==
  \/ ~(Touched(RectOf(c, i)) \subseteq Addresses)
  \/ c.kind = "blit" /\ \E p \in Cells(RectOf(c, i)) : ImageCell(c, p) \notin DOMAIN c.image

(* Faulty variant: the new rectangle replaces the old one. *)
NewRegionOnly(d, r) == r

(* CpuGrMarkScreenRegionForSwapping: the region it works out, and what it  *)
(* stores for the operation it has seen.  A clear screen stores FULL.      *)
NewRegion(d, r) ==
  LET x == IF d.x < r.x THEN d.x ELSE r.x
      y == IF d.y < r.y THEN d.y ELSE r.y
      right == IF d.x + d.w > r.x + r.w THEN d.x + d.w ELSE r.x + r.w
      bottom == IF d.y + d.h > r.y + r.h THEN d.y + d.h ELSE r.y + r.h
  IN  IF d.op = "REGION" THEN Rect(x, y, right - x, bottom - y) ELSE r

Stored(d, c, saw, region) ==
  LET set == [d EXCEPT !.x = region.x, !.y = region.y, !.w = region.w, !.h = region.h]
  IN  IF c.kind = "clear" THEN [d EXCEPT !.op = "FULL"]
      ELSE CASE saw = "FULL"   -> d
             [] saw = "REGION" -> set
             [] saw = "NONE"   -> [set EXCEPT !.op = "REGION"]

(* CpuGrSwapBuffers: the rectangle that is copied, a row at a time. *)
SwapRect(d) ==
  CASE d.op = "FULL"   -> Rect(0, 0, Stride, Height)
    [] d.op = "REGION" -> Rect(d.x, d.y, d.w, d.h)
    [] d.op = "NONE"   -> Rect(0, 0, 0, 0)
Row(r, h) == {Address(r.x + i, r.y + h) : i \in 0..(r.w - 1)}

Copied(to, from, addresses) == [a \in Addresses |-> IF a \in addresses THEN from[a] ELSE to[a]]

(* What is asked for by part i of a call: that the positions it names show *)
(* its colour or its image.                                                *)
Wanted(picture, c, i) ==
  LET Region(k) == Rect(c.regions[k].x, c.regions[k].y, c.regions[k].width, c.regions[k].height)
      Over(src, old) == IF c.format = "RGB8" THEN [r |-> src.r, g |-> src.g, b |-> src.b]
                        ELSE [r |-> Mix(src.r, old.r, src.alpha), g |-> Mix(src.g, old.g, src.alpha),
                              b |-> Mix(src.b, old.b, src.alpha)]
  IN  [p \in Positions |->
         CASE c.kind = "clear"   -> c.color
           [] c.kind = "regions" -> IF InRect(p, Region(i)) THEN c.color ELSE picture[p]
           [] c.kind = "blit"    ->
                IF InRect(p, Rect(c.fbX, c.fbY, c.width, c.height))
                THEN Over(c.image[<<c.imageX + p[1] - c.fbX, c.imageY + p[2] - c.fbY>>], picture[p])
                ELSE picture[p]]

-----------------------------------------------------------------------------
(* Before DexprOS_InitCpuGraphicsDriver. *)
Init ==
  /\ drv = [init |-> "none", format |-> "none", op |-> "NONE", x |-> 0, y |-> 0, w |-> 0, h |-> 0]
  /\ back = [a \in Addresses |-> <<0, 0, 0>>]
  /\ front = [a \in Addresses |-> <<Firmware.r, Firmware.g, Firmware.b>>]
  /\ thread = Idle
  /\ asked = [p \in Positions |-> Firmware]
  /\ faults = [torn |-> FALSE, outside |-> FALSE, overrun |-> FALSE]

(* DexprOS_InitCpuGraphicsDriver fails for formats it does not support and *)
(* when one of its two allocations fails.                                  *)
InitCpuGraphicsDriver ==
  /\ drv.init = "none"
  /\ \E format \in GopFormats, outOfMemory \in BOOLEAN :
       drv' = IF format \notin {"RGB", "BGR"} \/ outOfMemory THEN [drv EXCEPT !.init = "failed"]
              ELSE [drv EXCEPT !.init = "ready", !.format = format]
  /\ UNCHANGED <<back, front, thread, asked, faults>>

(* DexprOS_CreateShell, with interrupts disabled: clearScreen, swapBuffers. *)
CreateShell ==
  LET clear == [kind |-> "clear", color |-> Background]
  IN  /\ drv.init = "ready"
      /\ drv' = [drv EXCEPT !.init = "shell"]
      /\ back' = Painted(back, drv.format, clear, 1)
      /\ front' = Copied(front, back', Addresses)
      /\ asked' = Wanted(asked, clear, 1)
      /\ UNCHANGED <<thread, faults>>

-----------------------------------------------------------------------------
(* The booting thread. *)

BeginCall ==
  /\ drv.init = "shell" /\ thread = Idle
  /\ \E c \in ThreadCalls : thread' = [Idle EXCEPT !.call = c, !.step = "mark"]
  /\ UNCHANGED <<drv, back, front, asked, faults>>

NextPart ==
  IF thread.part < Parts(thread.call)
  THEN [Idle EXCEPT !.call = thread.call, !.part = thread.part + 1, !.step = "mark"]
  ELSE Idle

(* A part that is not on the screen is left out. *)
SkipPart ==
  /\ thread.step = "mark" /\ RectOf(thread.call, thread.part) = Nothing
  /\ thread' = NextPart
  /\ asked' = Wanted(asked, thread.call, thread.part)
  /\ UNCHANGED <<drv, back, front, faults>>

MarkRegion ==
  LET r == RectOf(thread.call, thread.part)
  IN  /\ thread.step = "mark" /\ r # Nothing
      /\ thread' = [thread EXCEPT !.step = drv.op, !.region = NewRegion(drv, r)]
      /\ UNCHANGED <<drv, back, front, asked, faults>>

StoreRegion ==
  /\ thread.step \in {"FULL", "REGION", "NONE"}
  /\ drv' = Stored(drv, thread.call, thread.step, thread.region)
  /\ thread' = [thread EXCEPT !.step = "draw", !.region = Nothing]
  /\ UNCHANGED <<back, front, asked, faults>>

DrawPart ==
  /\ thread.step = "draw"
  /\ back' = Painted(back, drv.format, thread.call, thread.part)
  /\ asked' = Wanted(asked, thread.call, thread.part)
  /\ faults' = [faults EXCEPT !.outside = @ \/ Strays(thread.call, thread.part)]
  /\ thread' = NextPart
  /\ UNCHANGED <<drv, front>>

BeginSwap ==
  /\ drv.init = "shell" /\ thread = Idle
  /\ thread' = [Idle EXCEPT !.step = "swap", !.part = 0, !.region = SwapRect(drv),
                            !.call = [kind |-> IF drv.op = "REGION" THEN "swapRegion" ELSE "swap"]]
  /\ UNCHANGED <<drv, back, front, asked, faults>>

(* The number of rows of a region is read again for every row. *)
SwapRows == IF thread.call.kind = "swapRegion" THEN drv.h ELSE thread.region.h

SwapRow ==
  /\ thread.step = "swap" /\ thread.part < SwapRows
  /\ front' = Copied(front, back, Row(thread.region, thread.part))
  /\ faults' = [faults EXCEPT !.overrun = @ \/ ~(Row(thread.region, thread.part) \subseteq Addresses)]
  /\ thread' = [thread EXCEPT !.part = @ + 1]
  /\ UNCHANGED <<drv, back, asked>>

EndSwap ==
  /\ thread.step = "swap" /\ thread.part >= SwapRows
  /\ drv' = [drv EXCEPT !.op = "NONE"]
  /\ thread' = Idle
  /\ UNCHANGED <<back, front, asked, faults>>

-----------------------------------------------------------------------------
(* The keyboard's handler draws and swaps between two steps of the thread. *)
HandlerDraws ==
  /\ drv.init = "shell"
  /\ \E c \in HandlerCalls :
       LET r == RectOf(c, 1)
           d == IF r = Nothing THEN drv ELSE Stored(drv, c, drv.op, NewRegion(drv, r))
           swap == SwapRect(d)
           copied == UNION {Row(swap, h) : h \in 0..(swap.h - 1)}
       IN  /\ drv' = [d EXCEPT !.op = "NONE"]
           /\ back' = Painted(back, drv.format, c, 1)
           /\ front' = Copied(front, back', copied)
           /\ asked' = Wanted(asked, c, 1)
           /\ faults' = [torn |-> faults.torn \/ thread # Idle,
                         outside |-> faults.outside \/ Strays(c, 1),
                         overrun |-> faults.overrun \/ ~(copied \subseteq Addresses)]
  /\ UNCHANGED thread

Next ==
  \/ InitCpuGraphicsDriver \/ CreateShell
  \/ BeginCall \/ SkipPart \/ MarkRegion \/ StoreRegion \/ DrawPart
  \/ BeginSwap \/ SwapRow \/ EndSwap
  \/ HandlerDraws

Spec == Init /\ [][Next]_vars

-----------------------------------------------------------------------------
(* What has been drawn is what was asked for: each call changes exactly    *)
(* the positions on the screen that it names, also when it lies partly or  *)
(* wholly outside, in the framebuffer's order of bytes, and no call        *)
(* touches the part of the rows that is not on the screen or reads beside  *)
(* its image.                                                              *)
DrawsWhatIsAsked ==
  drv.init = "shell" =>
    /\ ~faults.outside
    /\ \A p \in Positions : Shown(drv.format, back[Address(p[1], p[2])]) = asked[p]
    /\ \A a \in Addresses : a % Stride >= Width => back[a] = <<0, 0, 0>>

(* Where the screen does not show the back buffer yet, the next swap will  *)
(* copy it, from inside the buffers: no drawing is forgotten between a     *)
(* swap by the handler and one by the thread.  A handler that comes in the *)
(* middle of a call breaks both: drawing after it is not swapped, and an   *)
(* interrupted swap goes on with the height of the handler's region, and   *)
(* may so leave the buffers.                                               *)
ToSwap(p) ==
  CASE drv.op = "FULL"   -> TRUE
    [] drv.op = "REGION" -> InRect(p, Rect(drv.x, drv.y, drv.w, drv.h))
    [] drv.op = "NONE"   -> FALSE
ScreenCatchesUp ==
  drv.init = "shell" /\ ~faults.torn =>
    /\ \A p \in Positions :
         front[Address(p[1], p[2])] = back[Address(p[1], p[2])] \/ ToSwap(p)
    /\ ~faults.overrun
    /\ drv.op = "REGION" => drv.x >= 0 /\ drv.y >= 0 /\ drv.x + drv.w <= Width /\ drv.y + drv.h <= Height
=============================================================================
