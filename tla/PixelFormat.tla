---------------------------- MODULE PixelFormat ----------------------------
(***************************************************************************)
(* The pixel packing of the reference image decoder (imgdcd_image_util.c): *)
(* the IMGDCD_* macros of each pixel-format build, one pixel of            *)
(* sendPixelsColor's two row loops, and one pixel of the conversion loop   *)
(* imgdcd_decode_jpeg runs over the JPEG decoder's output.                 *)
(*                                                                         *)
(* A 32-bit imgdcd_pixel_type value is a function from byte position      *)
(* (0 = bits 0..7) to the byte there.  Every mask the macros use is whole  *)
(* bytes and every shift a multiple of 8, so & and | act byte by byte, a   *)
(* left shift drops the bytes moved past bit 31 (the wrap the target       *)
(* builds give the signed overflow of alpha << 24), and a right shift      *)
(* brings in zero bytes: the operand is unsigned after the & with an       *)
(* unsigned constant, and wherever the operand may be signed the result   *)
(* is masked to the low byte, so the sign fill is never kept.             *)
(*                                                                         *)
(* A build is one of PixelFormats: ENABLE_DYNAMIC_PIXEL_FORMAT with        *)
(* img_enable_32bit_mode set ("DYNAMIC_32") or clear ("DYNAMIC_16"),       *)
(* ENABLE_RGBA8888_PIXEL_FORMAT, ENABLE_ABGR8888_PIXEL_FORMAT, or the      *)
(* default 16-bit RGB565 build.                                            *)
(***************************************************************************)
EXTENDS Integers, Bitwise

CT_PALETTE == 1
CT_COLOR   == 2
CT_ALPHA   == 4

PixelFormats == {"DYNAMIC_32", "DYNAMIC_16", "RGBA8888", "ABGR8888", "RGB565"}
Is16Bit(fmt) == fmt \in {"DYNAMIC_16", "RGB565"}

\* The 32-bit value whose bytes, from the most significant, are b3 .. b0.
Word(b3, b2, b1, b0) == LET s == <<b0, b1, b2, b3>> IN [i \in 0..3 |-> s[i + 1]]
\* An int's two's-complement bytes.
IntWord(v) == [i \in 0..3 |-> (v \div 2^(8 * i)) % 256]
Shl(w, n) == [i \in 0..3 |-> IF i >= n \div 8 THEN w[i - n \div 8] ELSE 0]
Shr(w, n) == [i \in 0..3 |-> IF i + n \div 8 <= 3 THEN w[i + n \div 8] ELSE 0]
BitAnd(w, m) == [i \in 0..3 |-> w[i] & m[i]]
BitOr(w, m) == [i \in 0..3 |-> w[i] | m[i]]

\* ENABLE_DYNAMIC_PIXEL_FORMAT, 32-bit mode: ABGR words.
IMGDCD_RGBA2PIXEL_32(r, g, b, a) ==
    BitOr(BitOr(BitAnd(Shl(IntWord(a), 24), Word(255, 0, 0, 0)),
                BitAnd(Shl(IntWord(b), 16), Word(0, 255, 0, 0))),
          BitOr(BitAnd(Shl(IntWord(g), 8), Word(0, 0, 255, 0)),
                BitAnd(IntWord(r), Word(0, 0, 0, 255))))

\* IMGDCD_MIDPTOPIXEL_32 with the two shifts written the other way round.
IMGDCD_MIDPTOPIXEL_32_ShiftsSwapped(x) ==
    BitOr(BitOr(BitAnd(x, Word(255, 0, 255, 0)), BitAnd(Shr(x, 16), Word(0, 255, 0, 0))),
          BitAnd(Shl(x, 16), Word(0, 0, 0, 255)))

IMGDCD_MIDPTOPIXEL_32(x) ==
    BitOr(BitOr(BitAnd(x, Word(255, 0, 255, 0)), BitAnd(Shl(x, 16), Word(0, 255, 0, 0))),
          BitAnd(Shr(x, 16), Word(0, 0, 0, 255)))

IMGDCD_MIDPTOOPAQUEPIXEL_32(x) == BitOr(IMGDCD_MIDPTOPIXEL_32(x), Word(255, 0, 0, 0))

\* The 16-bit macros; IMGDCD_RGB2PIXEL_16 casts to imgdcd_pixel16_type.
IMGDCD_RGB2PIXEL_16(r, g, b) == (b + g * 2^5 + r * 2^11) % 2^16
IMGDCD_RGB2PIXEL(r, g, b) == b + g * 2^5 + r * 2^11

\* ENABLE_RGBA8888_PIXEL_FORMAT.
IMGDCD_RGBA2PIXEL_RGBA8888(r, g, b, a) ==
    BitOr(BitOr(BitAnd(Shl(IntWord(r), 24), Word(255, 0, 0, 0)),
                BitAnd(Shl(IntWord(g), 16), Word(0, 255, 0, 0))),
          BitOr(BitAnd(Shl(IntWord(b), 8), Word(0, 0, 255, 0)),
                BitAnd(IntWord(a), Word(0, 0, 0, 255))))
IMGDCD_MIDPTOOPAQUEPIXEL_RGBA8888(x) == BitOr(Shl(x, 8), Word(0, 0, 0, 255))
IMGDCD_MIDPTOPIXEL_RGBA8888(x) ==
    BitOr(BitAnd(Shl(x, 8), Word(255, 255, 255, 0)), BitAnd(Shr(x, 24), Word(0, 0, 0, 255)))

\* ENABLE_ABGR8888_PIXEL_FORMAT: the same text as the 32-bit dynamic macros.
IMGDCD_RGBA2PIXEL_ABGR8888(r, g, b, a) == IMGDCD_RGBA2PIXEL_32(r, g, b, a)
IMGDCD_MIDPTOOPAQUEPIXEL_ABGR8888(x) == IMGDCD_MIDPTOOPAQUEPIXEL_32(x)
IMGDCD_MIDPTOPIXEL_ABGR8888(x) == IMGDCD_MIDPTOPIXEL_32(x)

\* The 32-bit macro each build compiles its IMGDCD_RGBA2PIXEL / MIDPTOPIXEL to.
RGBA2Pixel(fmt, r, g, b, a) ==
    CASE fmt = "DYNAMIC_32" -> IMGDCD_RGBA2PIXEL_32(r, g, b, a)
      [] fmt = "RGBA8888"   -> IMGDCD_RGBA2PIXEL_RGBA8888(r, g, b, a)
      [] fmt = "ABGR8888"   -> IMGDCD_RGBA2PIXEL_ABGR8888(r, g, b, a)
MidpToPixel(fmt, x) ==
    CASE fmt = "DYNAMIC_32" -> IMGDCD_MIDPTOPIXEL_32(x)
      [] fmt = "RGBA8888"   -> IMGDCD_MIDPTOPIXEL_RGBA8888(x)
      [] fmt = "ABGR8888"   -> IMGDCD_MIDPTOPIXEL_ABGR8888(x)
\* The 16-bit builds store IMGDCD_RGB2PIXEL_16 or IMGDCD_RGB2PIXEL.
RGB2Pixel(fmt, r, g, b) ==
    IF fmt = "DYNAMIC_16" THEN IMGDCD_RGB2PIXEL_16(r, g, b) ELSE IMGDCD_RGB2PIXEL(r, g, b)

\* The dead range checks of the indexed loop's 16-bit branch.
Clamp(v) == IF v < 0 THEN 0 ELSE IF v > 255 THEN 255 ELSE v

(***************************************************************************)
(* One iteration of sendPixelsColor's x loop: row holds the bytes from the *)
(* loop's pixels pointer on, cmap and tmap the image's maps.  The result   *)
(* is the pixelData and alphaData values stored and the bytes consumed.    *)
(***************************************************************************)
SendPixelColor(fmt, pixelType, hasTransMap, row, cmap, tmap) ==
    IF pixelType \in {CT_COLOR, CT_COLOR + CT_ALPHA}
    THEN LET hasAlphaChannel == (pixelType & CT_ALPHA) # 0 \/ hasTransMap
             r == row[1]  g == row[2]  b == row[3]
             alpha == IF hasAlphaChannel THEN row[4] ELSE 255
         IN  [pixel |-> IF Is16Bit(fmt) THEN RGB2Pixel(fmt, r \div 8, g \div 4, b \div 8)
                        ELSE RGBA2Pixel(fmt, r, g, b, alpha),
              alpha |-> alpha,
              used  |-> IF hasAlphaChannel THEN 4 ELSE 3]
    ELSE LET cmapIndex == row[1]
             color == cmap[cmapIndex]
             alphaInRow == \/ (pixelType & (CT_ALPHA + CT_COLOR)) = CT_ALPHA
                           \/ hasTransMap /\ (pixelType & CT_COLOR) = 0
             alpha == IF alphaInRow THEN row[2]
                      ELSE IF hasTransMap THEN tmap[cmapIndex] ELSE 255
         IN  [pixel |-> IF Is16Bit(fmt)
                        THEN RGB2Pixel(fmt, Clamp(color[2] \div 8), Clamp(color[1] \div 4),
                                       Clamp(color[0] \div 8))
                        ELSE MidpToPixel(fmt, BitOr(BitAnd(color, Word(0, 255, 255, 255)),
                                                    BitAnd(Shl(IntWord(alpha), 24),
                                                           Word(255, 0, 0, 0)))),
              alpha |-> alpha,
              used  |-> IF alphaInRow THEN 2 ELSE 1]

\* One iteration of imgdcd_decode_jpeg's loop over the decoded pixels; the
\* 16-bit builds leave the decoder's output as it is.
JpegPixel(fmt, x) ==
    CASE fmt = "DYNAMIC_32" -> IMGDCD_MIDPTOOPAQUEPIXEL_32(x)
      [] fmt = "RGBA8888"   -> IMGDCD_MIDPTOOPAQUEPIXEL_RGBA8888(x)
      [] fmt = "ABGR8888"   -> IMGDCD_MIDPTOOPAQUEPIXEL_ABGR8888(x)
      [] OTHER              -> x
=============================================================================
