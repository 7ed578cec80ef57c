----------------------------- MODULE GxjGraphics -----------------------------
(***************************************************************************)
(* The pixel addressing of the putpixel primitives in gxj_graphics.c.      *)
(* A screen buffer is sbufWidth x sbufHeight pixels stored row by row;     *)
(* a pixel is addressed by its index into sbuf->pixelData.  Colours are    *)
(* data the properties do not tell apart: a primitive is modelled by the   *)
(* set of indices it stores to (and, for gx_draw_rgb, the rgbData element  *)
(* each store takes its colour from).                                      *)
(*                                                                         *)
(* A clip is [x1, y1, x2, y2] as in clip[0..3]: x1 <= a < x2, y1 <= b < y2. *)
(***************************************************************************)
EXTENDS Integers, Sequences

\* rows lo..hi-1 of a half-open range, empty when hi <= lo
Span(lo, hi) == lo..(hi - 1)

(***************************************************************************)
(* gx_draw_rgb.  The row loop runs b from y while b < y + height; each     *)
(* step adds scanlen to dataRowIndex and, unrotated, sbufWidth to          *)
(* sbufRowIndex, rotated, 1 to sbufColIndex.  "if (b >= clipY2) return"    *)
(* ends both loops, "if (b < clipY1) continue" skips the row.  The column  *)
(* loop runs a from x while a < x + width: "if (a >= clipX2) break" ends   *)
(* the row, a < clipX1 stores nothing.  A store is <<idx, element of       *)
(* rgbData the value is read from>>, in the order the loops make them.     *)
(* Unrotated idx = sbufRowIndex + a; rotated idx = sbufColIndex -          *)
(* (a - x) * sbufWidth.  sbufRowIndex starts at y * sbufWidth, sbufColIndex *)
(* at (sbufHeight - x) * sbufWidth + y; the other stays 0.                 *)
(***************************************************************************)
RECURSIVE DrawRgbCols(_, _, _, _, _, _, _, _, _)
DrawRgbCols(sbufWidth, rotated, clip, offset, x, width, a, dataRowIndex, rowCol) ==
    IF a >= x + width \/ a >= clip[3] THEN <<>>
    ELSE (IF a < clip[1] THEN <<>>
          ELSE <<<<IF ~rotated THEN rowCol + a ELSE rowCol - (a - x) * sbufWidth,
                   offset + (a - x) + dataRowIndex>>>>)
         \o DrawRgbCols(sbufWidth, rotated, clip, offset, x, width, a + 1, dataRowIndex, rowCol)

\* Mutant: a row above the clip ends the loop (return) instead of being skipped.
RECURSIVE DrawRgbRowsReturnAbove(_, _, _, _, _, _, _, _, _, _, _, _)
DrawRgbRowsReturnAbove(sbufWidth, rotated, clip, offset, scanlen, x, y, width, height, b, dataRowIndex, rowCol) ==
    IF b >= y + height \/ b >= clip[4] \/ b < clip[2] THEN <<>>
    ELSE DrawRgbCols(sbufWidth, rotated, clip, offset, x, width, x, dataRowIndex, rowCol)
         \o DrawRgbRowsReturnAbove(sbufWidth, rotated, clip, offset, scanlen, x, y, width, height,
                                   b + 1, dataRowIndex + scanlen,
                                   rowCol + (IF rotated THEN 1 ELSE sbufWidth))

\* rowCol is sbufRowIndex unrotated, sbufColIndex rotated.
RECURSIVE DrawRgbRows(_, _, _, _, _, _, _, _, _, _, _, _)
DrawRgbRows(sbufWidth, rotated, clip, offset, scanlen, x, y, width, height, b, dataRowIndex, rowCol) ==
    IF b >= y + height \/ b >= clip[4] THEN <<>>
    ELSE (IF b < clip[2] THEN <<>>
          ELSE DrawRgbCols(sbufWidth, rotated, clip, offset, x, width, x, dataRowIndex, rowCol))
         \o DrawRgbRows(sbufWidth, rotated, clip, offset, scanlen, x, y, width, height,
                        b + 1, dataRowIndex + scanlen,
                        rowCol + (IF rotated THEN 1 ELSE sbufWidth))

\* The stores of gx_draw_rgb, in order.
GxDrawRgb(sbufWidth, sbufHeight, rotated, clip, offset, scanlen, x, y, width, height) ==
    DrawRgbRows(sbufWidth, rotated, clip, offset, scanlen, x, y, width, height, y, 0,
                IF rotated THEN (sbufHeight - x) * sbufWidth + y ELSE y * sbufWidth)

(***************************************************************************)
(* fast_fill_rect: the early returns, then the clamps in code order (left  *)
(* edge to 0, top to cliptop, right edge to the screen width, bottom to    *)
(* clipbottom), then height rows of width pixels from                      *)
(* pixelData + y * screen_horiz + x.  fast_pixel_set stores nothing for a  *)
(* count <= 0 and the row loop nothing for height <= 0.                    *)
(***************************************************************************)
FastFillRectNoLeftClamp(sbufWidth, sbufHeight, x, y, width, height, cliptop, clipbottom) ==
    IF width <= 0 \/ x > sbufWidth \/ y > sbufHeight THEN {}
    ELSE LET h1 == IF y < cliptop THEN height + y - cliptop ELSE height
             y1 == IF y < cliptop THEN cliptop ELSE y
             w2 == IF x + width > sbufWidth THEN sbufWidth - x ELSE width
             h2 == IF y1 + h1 > clipbottom THEN clipbottom - y1 ELSE h1
         IN  {y1 * sbufWidth + x + r * sbufWidth + i : r \in 0..(h2 - 1), i \in 0..(w2 - 1)}

FastFillRect(sbufWidth, sbufHeight, x, y, width, height, cliptop, clipbottom) ==
    IF width <= 0 \/ x > sbufWidth \/ y > sbufHeight THEN {}
    ELSE LET w1 == IF x < 0 THEN width + x ELSE width
             x1 == IF x < 0 THEN 0 ELSE x
             h1 == IF y < cliptop THEN height + y - cliptop ELSE height
             y1 == IF y < cliptop THEN cliptop ELSE y
             w2 == IF x1 + w1 > sbufWidth THEN sbufWidth - x1 ELSE w1
             h2 == IF y1 + h1 > clipbottom THEN clipbottom - y1 ELSE h1
         IN  {y1 * sbufWidth + x1 + r * sbufWidth + i : r \in 0..(h2 - 1), i \in 0..(w2 - 1)}

\* draw_roundrect(..., filled 1, arc 0, 0) is outside this repository; what
\* the fill path relies on: it stores exactly the rectangle inside the clip.
ClippedFill(sbufWidth, clip, x, y, width, height) ==
    {b * sbufWidth + a : a \in {a \in Span(x, x + width) : clip[1] <= a /\ a < clip[3]},
                         b \in {b \in Span(y, y + height) : clip[2] <= b /\ b < clip[4]}}

(***************************************************************************)
(* gx_fill_rect on an unrotated buffer: the fast path when the clip spans  *)
(* the whole width and the line is not dotted, draw_roundrect otherwise.   *)
(***************************************************************************)
GxFillRect(sbufWidth, sbufHeight, clip, dotted, x, y, width, height) ==
    IF clip[1] = 0 /\ clip[3] = sbufWidth /\ ~dotted
    THEN FastFillRect(sbufWidth, sbufHeight, x, y, width, height, clip[2], clip[4])
    ELSE ClippedFill(sbufWidth, clip, x, y, width, height)
=============================================================================
