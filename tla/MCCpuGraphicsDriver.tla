------------------------ MODULE MCCpuGraphicsDriver ------------------------
(* A screen of two by two pixels in rows of three, glyphs of up to three   *)
(* by two pixels with transparent parts, and positions on all sides of it. *)
EXTENDS CpuGraphicsDriver

Teal == [r |-> 0, g |-> 128, b |-> 129]
White == [r |-> 255, g |-> 255, b |-> 254]
Black == [r |-> 0, g |-> 0, b |-> 0]

(* An image of the font: its last column belongs to the next glyph. *)
Font ==
  [c \in (0..3) \X (0..1) |->
     [r |-> White.r, g |-> White.g, b |-> White.b, alpha |-> IF (c[1] + c[2]) % 2 = 0 THEN 255 ELSE 0]]

Glyph(x, y, w, h, format) ==
  [kind |-> "blit", image |-> Font, format |-> format, imageX |-> 1, imageY |-> 0,
   fbX |-> x, fbY |-> y, width |-> w, height |-> h]
Clear(regions) == [kind |-> "regions", regions |-> regions, color |-> Teal]
Region(x, y, w, h) == [x |-> x, y |-> y, width |-> w, height |-> h]

MCThreadCalls ==
  {[kind |-> "clear", color |-> Teal]}
  \cup {Glyph(-1, -1, 3, 2, "RGBA8"), Glyph(1, 0, 3, 2, "RGBA8"),
        Glyph(-2, 0, 1, 2, "RGBA8"), Glyph(3, 0, 1, 2, "RGBA8"), Glyph(0, 2, 1, 2, "RGBA8")}
  \cup {Clear(<<Region(-1, 0, 2, 1)>>), Clear(<<Region(0, -1, 1, 1)>>), Clear(<<Region(2, 0, 1, 1)>>),
        Clear(<<Region(0, 1, 1, 1), Region(1, 0, 1, 1)>>)}
MCHandlerCalls == {Glyph(0, 0, 1, 1, "RGB8"), Clear(<<Region(0, 0, 2, 2)>>), Glyph(-1, 0, 1, 1, "RGB8")}
=============================================================================
