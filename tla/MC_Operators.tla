---------------------------- MODULE MC_Operators ----------------------------
(***************************************************************************)
(* Checks the pure operators of the graphics, the image decoder and the    *)
(* router over every bounded input.  Each input is one initial state; the  *)
(* behaviour then stutters.  Three families of inputs; in each, the        *)
(* variables of the other families hold a fixed value (pix = <<>>, an      *)
(* empty snapshot, one 1 x 1 rectangle):                                   *)
(*  - graphics: gx_draw_rgb and gx_fill_rect over every buffer of 2 or 3   *)
(*    pixels a side, every clip inside the screen (for a rotated buffer    *)
(*    the logical screen is sbufHeight wide and sbufWidth high, as the     *)
(*    fast-path test clipY2 == sbuf_width of gx_fill_rect says), and every *)
(*    rectangle from one pixel left of / above the screen to past its far  *)
(*    edge (x or y = 3 lies past a 2-pixel buffer, where fast_fill_rect    *)
(*    returns early); rgbData is read with offset 0 and scanlen = width;   *)
(*  - pixels: the image decoder's pixel packing (PixelFormat) for every    *)
(*    build, every PNG pixel type the decoder sends, with and without a    *)
(*    transparency map, every choice of channels from Channel, and a       *)
(*    colour map entry with a clear or set top byte;                       *)
(*  - unblock: the eventUnblockJavaThread loop against the contract of     *)
(*    unblockOne: every snapshot order of every subset of Threads, every   *)
(*    assignment of reentry data, every target its callers pass (a read    *)
(*    or write signal on a descriptor; no caller passes NO_SIGNAL).        *)
(***************************************************************************)
EXTENDS GxjGraphics, PixelFormat, Registry, FiniteSets, Sequences, TLC

CONSTANTS Threads, SignalSet, Descriptors

Sizes  == 2..3
Coords == -1..3
Extents == 0..3

\* Channel values: both ends and one whose low bits the 5/6-bit fields drop.
Channel == {0, 135, 255}
\* PNG pixel types: grey, truecolour, indexed, grey + alpha, truecolour + alpha.
PixelTypes == {0, CT_COLOR, CT_PALETTE + CT_COLOR, CT_ALPHA, CT_COLOR + CT_ALPHA}
PixelInputs == [fmt : PixelFormats, pixelType : PixelTypes, hasTransMap : BOOLEAN,
                r : Channel, g : Channel, b : Channel, a : Channel, top : {0, 255}]
Index == 5          \* the colour map index the row names
Following == 17     \* the bytes of the next pixel of the row

Entries == [waitingFor : SignalSet, descriptor : Descriptors, status : {"NO_STATUS"}]

VARIABLES sbufWidth, sbufHeight, rotated, clip, dotted, x, y, width, height, pix,
          snap, re, target
vars == <<sbufWidth, sbufHeight, rotated, clip, dotted, x, y, width, height, pix,
          snap, re, target>>

\* Logical screen size: the buffer's, or its transpose when rotated.
ScreenW == IF rotated THEN sbufHeight ELSE sbufWidth
ScreenH == IF rotated THEN sbufWidth ELSE sbufHeight

GraphicsInit ==
    /\ sbufWidth \in Sizes /\ sbufHeight \in Sizes
    /\ rotated \in BOOLEAN
    /\ clip \in {c \in [1..4 -> 0..3] :
                    c[1] <= c[3] /\ c[3] <= ScreenW /\ c[2] <= c[4] /\ c[4] <= ScreenH}
    /\ dotted \in BOOLEAN
    /\ x \in Coords /\ y \in Coords
    /\ width \in Extents /\ height \in Extents

GraphicsFixed ==
    /\ sbufWidth = 2 /\ sbufHeight = 2 /\ rotated = FALSE /\ clip = <<0, 0, 2, 2>>
    /\ dotted = FALSE /\ x = 0 /\ y = 0 /\ width = 1 /\ height = 1

UnblockInit ==
    /\ snap \in UNION {SetToSeqs(S) : S \in SUBSET Threads}
    /\ re \in [Threads -> Entries \cup {NULL}]
    /\ target \in [waitingFor : SignalSet, descriptor : Descriptors]

UnblockFixed ==
    /\ snap = <<>>
    /\ re = [t \in Threads |-> NULL]
    /\ target = [waitingFor |-> "NETWORK_READ_SIGNAL", descriptor |-> 0]

Init ==
    \/ GraphicsInit  /\ pix = <<>>          /\ UnblockFixed
    \/ GraphicsFixed /\ pix \in PixelInputs /\ UnblockFixed
    \/ GraphicsFixed /\ pix = <<>>          /\ UnblockInit

Next == UNCHANGED vars

Spec == Init /\ [][Next]_vars

\* Logical pixels of the rectangle inside the clip.
Clipped == {<<a, b>> \in Span(x, x + width) \X Span(y, y + height) :
               clip[1] <= a /\ a < clip[3] /\ clip[2] <= b /\ b < clip[4]}

Stores == GxDrawRgb(sbufWidth, sbufHeight, rotated, clip, 0, width, x, y, width, height)

(***************************************************************************)
(* gx_draw_rgb stores every pixel of the rectangle inside the clip exactly *)
(* once and nothing else, each from the rgbData element of that pixel;     *)
(* unrotated, pixel (a, b) lands at b * sbufWidth + a.  The reference is   *)
(* the set Clipped; the loops reach it only if the return, continue and    *)
(* break of both loops and the running dataRowIndex and sbufRowIndex agree *)
(* with it.                                                                *)
(***************************************************************************)
DrawRgbPlacesPixels ==
    /\ Len(Stores) = Cardinality(Clipped)
    /\ {Stores[i][2] : i \in DOMAIN Stores} = {(p[1] - x) + (p[2] - y) * width : p \in Clipped}
    /\ ~rotated => ToSet(Stores) = {<<p[2] * sbufWidth + p[1], (p[1] - x) + (p[2] - y) * width>> :
                                       p \in Clipped}

(***************************************************************************)
(* When gx_fill_rect takes the fast path (unrotated, the clip spans the    *)
(* whole width, not dotted) it fills exactly the rectangle inside the      *)
(* clip, although fast_fill_rect clamps to the screen's width rather than  *)
(* the clip's, returns early past the right or bottom edge, and applies    *)
(* its four clamps one after the other, each on the previous one's result. *)
(***************************************************************************)
FillRectFillsClip ==
    ~rotated /\ clip[1] = 0 /\ clip[3] = sbufWidth /\ ~dotted =>
        GxFillRect(sbufWidth, sbufHeight, clip, dotted, x, y, width, height)
            = ClippedFill(sbufWidth, clip, x, y, width, height)

(***************************************************************************)
(* Every pixel gx_draw_rgb stores lies inside sbuf->pixelData.  On a       *)
(* rotated buffer, logical column a goes to buffer row sbufHeight - a,     *)
(* one past the last row for a = 0.                                        *)
(***************************************************************************)
DrawRgbInBuffer ==
    \A i \in DOMAIN Stores : Stores[i][1] \in 0..(sbufWidth * sbufHeight - 1)

(***************************************************************************)
(* The row the PNG decoder hands sendPixelsColor for pix, from this        *)
(* pixel on: the colour triplet or the colour map index, then an alpha     *)
(* byte when the pixel type has one or, as sendPixelsColor assumes for     *)
(* grey and truecolour images, when the image has a transparency map;      *)
(* then the next pixel's bytes.                                            *)
(***************************************************************************)
OwnBytes ==
    (IF pix.pixelType \in {CT_COLOR, CT_COLOR + CT_ALPHA}
     THEN <<pix.r, pix.g, pix.b>> ELSE <<Index>>)
    \o (IF \/ (pix.pixelType & CT_ALPHA) # 0
           \/ pix.hasTransMap /\ (pix.pixelType & CT_PALETTE) = 0
        THEN <<pix.a>> ELSE <<>>)
PixelRow == OwnBytes \o <<Following, Following, Following>>
\* The alpha the image gives the pixel: its own, or the map's for its index.
PixelAlpha == IF (pix.pixelType & CT_ALPHA) # 0 \/ pix.hasTransMap THEN pix.a ELSE 255

\* The channels a putpixel-format pixel holds: r, g, b and alpha for the
\* 32-bit formats (RGBA8888 from the top byte down, ABGR from the bottom),
\* the 5-, 6- and 5-bit fields of an RGB565 pixel.
Channels(fmt, p) ==
    CASE fmt = "RGBA8888" -> <<p[3], p[2], p[1], p[0]>>
      [] Is16Bit(fmt)     -> <<p \div 2^11, (p \div 2^5) % 2^6, p % 2^5>>
      [] OTHER            -> <<p[0], p[1], p[2], p[3]>>
Expected(fmt, r, g, b, a) ==
    IF Is16Bit(fmt) THEN <<r \div 8, g \div 4, b \div 8>> ELSE <<r, g, b, a>>

(***************************************************************************)
(* Every pixel the image decoder stores is the putpixel-format pixel of    *)
(* its colour, whichever build, PNG pixel type and transparency map:       *)
(* sendPixelsColor's truecolour loop (IMGDCD_RGBA2PIXEL) and its indexed   *)
(* loop (IMGDCD_MIDPTOPIXEL of the colour map entry with alpha in the top  *)
(* byte) agree on the byte order, alphaData gets the pixel's alpha, and    *)
(* the loop reads the pixel's own bytes of the row.  The JPEG              *)
(* loop's IMGDCD_MIDPTOOPAQUEPIXEL turns the decoder's ARGB word into the  *)
(* same format with alpha 255.                                             *)
(***************************************************************************)
DecodedPixelMatchesLayout ==
    pix # <<>> =>
        LET s == SendPixelColor(pix.fmt, pix.pixelType, pix.hasTransMap, PixelRow,
                                Index :> Word(pix.top, pix.r, pix.g, pix.b),
                                Index :> pix.a)
        IN  /\ Channels(pix.fmt, s.pixel) = Expected(pix.fmt, pix.r, pix.g, pix.b, PixelAlpha)
            /\ s.alpha = PixelAlpha
            /\ ~Is16Bit(pix.fmt) =>
                   Channels(pix.fmt, JpegPixel(pix.fmt, Word(pix.top, pix.r, pix.g, pix.b)))
                       = <<pix.r, pix.g, pix.b, 255>>
\* Snapshot positions whose entry waits for the target exactly.
Candidates(tg) ==
    {i \in 1..Len(snap) : re[snap[i]] # NULL /\ re[snap[i]].descriptor = tg.descriptor
                                          /\ re[snap[i]].waitingFor = tg.waitingFor}

(***************************************************************************)
(* unblockOne (eventUnblockJavaThread): the first exact match in snapshot  *)
(* order, and only it, gets the status and is unblocked; no other entry's  *)
(* reentry data changes, later matches on the same key included; with no  *)
(* match nothing changes.  The VM chooses the snapshot order, so which of  *)
(* two waiters on one key wakes is the VM's choice, but never both.        *)
(***************************************************************************)
EventUnblockMeetsContract ==
    LET r == EventUnblockJavaThread(snap, re, target.waitingFor,
                                    target.descriptor, "DELIVERED")
        C == Candidates(target)
    IN  IF C = {} THEN r = ScanResult(re, {})
        ELSE LET t == snap[Min(C)] IN
             /\ r.woken = {t}
             /\ \A u \in Threads \ {t} : r.reentry[u] = re[u]
             /\ r.reentry[t] = [re[t] EXCEPT !.status = "DELIVERED"]
=============================================================================
