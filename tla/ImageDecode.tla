----------------------------- MODULE ImageDecode -----------------------------
(***************************************************************************)
(* The image destination of imgdcd_image_util.c and the two entry points   *)
(* that drive it.  imgdcd_decode_png hands a _imageDstData to the PNG      *)
(* decoder (decode_png_image, outside this repository), which calls back   *)
(* setImageSize, setImageColormap, setImageTransparencyMap and             *)
(* sendPixelsColor; imgdcd_decode_jpeg calls setSize itself and then       *)
(* decode_jpeg_image on a plain buffer.                                    *)
(*                                                                         *)
(* Pixel values are data the properties do not tell apart: a row is        *)
(* modelled by the buffer elements it stores to and whether it holds a     *)
(* non-opaque alpha.  Buffers are named; heap[b] is the element count of   *)
(* buffer b, or -1 while it does not exist.                                *)
(***************************************************************************)
EXTENDS Integers, FiniteSets

CONSTANTS
    NULL,       \* the null pointer
    Dims,       \* widths and heights callers and image headers may give
    PixArgs,    \* what callers pass as pixelData: NULL or "callerPix"
    AlphaArgs,  \* what callers pass as alphaData: NULL or "callerAlpha"
    SameSize,   \* TRUE: the image header always matches the caller's size
    MallocCanFail \* midpMalloc may return NULL

Buffers == {"callerPix", "callerAlpha", "dstPix", "dstAlpha"}

IMG_NATIVE_IMAGE_NO_ERROR             == "NO_ERROR"
IMG_NATIVE_IMAGE_OUT_OF_MEMORY_ERROR  == "OUT_OF_MEMORY"
IMG_NATIVE_IMAGE_DECODING_ERROR       == "DECODING_ERROR"

VARIABLES
    call,     \* "idle"; "header", "png": decode_png_image running before and
              \* after the header's setSize; "returned"
    arg,      \* the entry point called, and the caller's width, height, pixelData, alphaData
    img,      \* width and height in the encoded image's header
    dst,      \* the _imageDstData on imgdcd_decode_*'s stack
    heap,     \* buffer -> element count, -1 if not allocated
    rows,     \* rows the PNG decoder has sent
    written,  \* <<buffer, index>> stores made during the call
    fault,    \* memory faults that happened during the call
    err       \* *creationErrorPtr

vars == <<call, arg, img, dst, heap, rows, written, fault, err>>

\* initImageDst, then the four fields imgdcd_decode_* copies from its arguments.
InitImageDst(a) ==
    [width |-> a.width, height |-> a.height, pixelData |-> a.pixelData,
     alphaData |-> a.alphaData, hasColorMap |-> FALSE, hasTransMap |-> FALSE,
     hasAlpha |-> FALSE]

\* Faults of storing elements idxs of buffer b: NULL, or past its end.
StoreFaults(h, b, idxs) ==
    IF idxs = {} THEN {}
    ELSE IF b = NULL THEN {"null_write"}
    ELSE IF \E i \in idxs : i >= h[b] THEN {"overflow"}
    ELSE {}

\* The stores to elements idxs of buffer b, as <<buffer, index>> pairs.
Stores(b, idxs) == {<<b, i>> : i \in idxs}

(***************************************************************************)
(* setImageSize: with no pixel buffer, take the size and allocate one      *)
(* (pix is what midpMalloc returned); with one, a size mismatch is         *)
(* noticed and nothing is done.  With no alpha buffer, allocate one of the *)
(* size given to the call.  Returns the new destination and heap.          *)
(***************************************************************************)
\* Mutant: the alpha buffer is only allocated together with the pixel buffer.
SetImageSizeAlphaInside(d, h, width, height, pix, alpha) ==
    IF d.pixelData = NULL
    THEN [dst |-> [d EXCEPT !.width = width, !.height = height, !.pixelData = pix,
                            !.alphaData = IF d.alphaData = NULL THEN alpha ELSE d.alphaData],
          heap |-> [b \in Buffers |->
                      IF b = pix THEN width * height
                      ELSE IF b = alpha /\ d.alphaData = NULL THEN width * height
                      ELSE h[b]]]
    ELSE [dst |-> d, heap |-> h]

SetImageSize(d, h, width, height, pix, alpha) ==
    LET d1 == IF d.pixelData = NULL
              THEN [d EXCEPT !.width = width, !.height = height, !.pixelData = pix]
              ELSE d
        h1 == IF d.pixelData = NULL /\ pix # NULL THEN [h EXCEPT ![pix] = width * height]
              ELSE h
    IN  IF d.alphaData = NULL
        THEN [dst |-> [d1 EXCEPT !.alphaData = alpha],
              heap |-> IF alpha # NULL THEN [h1 EXCEPT ![alpha] = width * height] ELSE h1]
        ELSE [dst |-> d1, heap |-> h1]

\* What a caller may pass, and the image it passes: buffers of the size it names.
Args(entry) ==
    [entry : {entry}, width : Dims, height : Dims, pixelData : PixArgs, alphaData : AlphaArgs]

Headers(a) ==
    IF SameSize THEN {[width |-> a.width, height |-> a.height]}
    ELSE [width : Dims, height : Dims]

CallerHeap(a) ==
    [b \in Buffers |-> IF b \in {a.pixelData, a.alphaData} THEN a.width * a.height ELSE -1]

Init ==
    /\ call = "idle"
    /\ arg = [entry |-> "none", width |-> 0, height |-> 0, pixelData |-> NULL, alphaData |-> NULL]
    /\ img = [width |-> 0, height |-> 0]
    /\ dst = InitImageDst(arg)
    /\ heap = [b \in Buffers |-> -1]
    /\ rows = {}
    /\ written = {}
    /\ fault = {}
    /\ err = IMG_NATIVE_IMAGE_NO_ERROR

\* What midpMalloc returns for buffer b: b, or NULL when memory runs out.
Mallocs(b) == IF MallocCanFail THEN {b, NULL} ELSE {b}

(***************************************************************************)
(* imgdcd_decode_png up to the decoder: initImageDst and the copied        *)
(* arguments; create_imagesrc_from_data fails (out of memory, the call     *)
(* returns) or decode_png_image starts calling back.                       *)
(***************************************************************************)
ImgdcdDecodePng ==
    /\ call \in {"idle", "returned"}
    /\ \E a \in Args("png") : \E i \in Headers(a) :
        /\ arg' = a
        /\ img' = i
        /\ dst' = InitImageDst(a)
        /\ heap' = CallerHeap(a)
        /\ rows' = {} /\ written' = {} /\ fault' = {}
        /\ \/ call' = "returned" /\ err' = IMG_NATIVE_IMAGE_OUT_OF_MEMORY_ERROR
           \/ call' = "header" /\ UNCHANGED err

\* The decoder reports the header's size through setSize, before any other
\* callback (IHDR is the first chunk).
PngSetSize ==
    /\ call = "header"
    /\ call' = "png"
    /\ \E pix \in Mallocs("dstPix"), alpha \in Mallocs("dstAlpha") :
          LET r == SetImageSize(dst, heap, img.width, img.height, pix, alpha)
          IN  dst' = r.dst /\ heap' = r.heap
    /\ UNCHANGED <<arg, img, rows, written, fault, err>>

\* setImageColormap (the map itself is data).
PngSetColormap ==
    /\ call = "png"
    /\ dst' = [dst EXCEPT !.hasColorMap = TRUE]
    /\ UNCHANGED <<call, arg, img, heap, rows, written, fault, err>>

\* setImageTransparencyMap (the map itself is data).
PngSetTransMap ==
    /\ call = "png"
    /\ dst' = [dst EXCEPT !.hasTransMap = TRUE]
    /\ UNCHANGED <<call, arg, img, heap, rows, written, fault, err>>

(***************************************************************************)
(* sendPixelsColor for row y of the image: nothing without both buffers;   *)
(* otherwise p->width pixels and alphas at y * p->width + x, read from a   *)
(* row the decoder made img.width pixels long; a stored alpha other than   *)
(* 0xff sets hasAlpha.                                                     *)
(***************************************************************************)
\* Mutant: the column loop runs to x <= p->width.
PngSendPixelsPastRow ==
    /\ call = "png"
    /\ \E y \in 0..(img.height - 1), translucent \in BOOLEAN :
        /\ rows' = rows \cup {y}
        /\ IF dst.pixelData = NULL \/ dst.alphaData = NULL
           THEN UNCHANGED <<dst, written, fault>>
           ELSE LET idxs == {y * dst.width + x : x \in 0..dst.width}
                IN  /\ written' = written \cup Stores(dst.pixelData, idxs)
                                          \cup Stores(dst.alphaData, idxs)
                    /\ fault' = fault \cup StoreFaults(heap, dst.pixelData, idxs)
                                      \cup StoreFaults(heap, dst.alphaData, idxs)
                                      \cup (IF dst.width > img.width THEN {"row_overrun"}
                                            ELSE {})
                    /\ dst' = [dst EXCEPT !.hasAlpha = @ \/ translucent]
    /\ UNCHANGED <<call, arg, img, heap, err>>

PngSendPixels ==
    /\ call = "png"
    /\ \E y \in 0..(img.height - 1), translucent \in BOOLEAN :
        /\ rows' = rows \cup {y}
        /\ IF dst.pixelData = NULL \/ dst.alphaData = NULL
           THEN UNCHANGED <<dst, written, fault>>
           ELSE LET idxs == {y * dst.width + x : x \in 0..(dst.width - 1)}
                IN  /\ written' = written \cup Stores(dst.pixelData, idxs)
                                          \cup Stores(dst.alphaData, idxs)
                    /\ fault' = fault \cup StoreFaults(heap, dst.pixelData, idxs)
                                      \cup StoreFaults(heap, dst.alphaData, idxs)
                                      \cup (IF dst.width > img.width THEN {"row_overrun"}
                                            ELSE {})
                    /\ dst' = [dst EXCEPT !.hasAlpha = @ \/ translucent]
    /\ UNCHANGED <<call, arg, img, heap, err>>

\* decode_png_image returns: success once every row was sent, or failure
\* (at any point, the header included); imgdcd_decode_png frees src and
\* returns dstData.hasAlpha.
PngDecodeEnds ==
    /\ call \in {"header", "png"}
    /\ call' = "returned"
    /\ \/ rows = 0..(img.height - 1) /\ err' = IMG_NATIVE_IMAGE_NO_ERROR
       \/ err' = IMG_NATIVE_IMAGE_DECODING_ERROR
    /\ UNCHANGED <<arg, img, dst, heap, rows, written, fault>>

(***************************************************************************)
(* imgdcd_decode_jpeg, one call: initImageDst and the copied arguments;    *)
(* with no pixel buffer, setSize (which fills dstData.pixelData); then     *)
(* create_imagesrc_from_data fails, or decode_jpeg_image runs on the       *)
(* *argument* pixelData and either fails before writing (init or header)  *)
(* or stores width * height pixels, which the 32-bit builds then convert   *)
(* in place.                                                               *)
(***************************************************************************)
(***************************************************************************)
(* decode_jpeg_image: TRUE only when JPEG_To_RGB_init gives a context, the  *)
(* header decodes and JPEG_To_RGB_decodeData2 fills the buffer.  The branch *)
(* for a JPEG smaller than the buffer is an empty TBD block, and the        *)
(* context is freed on every path after init, so neither changes state.    *)
(***************************************************************************)
DecodeJpegImage(initOk, headerOk, dataOk) == initOk /\ headerOk /\ dataOk

ImgdcdDecodeJpeg ==
    /\ call \in {"idle", "returned"}
    /\ \E a \in Args("jpeg"), pix \in Mallocs("dstPix"), alpha \in Mallocs("dstAlpha"),
          srcOk, initOk, headerOk, dataOk \in BOOLEAN :
        \E i \in Headers(a) :
        LET outcome == IF ~srcOk THEN "src_out_of_memory"
                       ELSE IF DecodeJpegImage(initOk, headerOk, dataOk) THEN "decoded"
                       ELSE "decode_failed"
            d0 == InitImageDst(a)
            r  == IF a.pixelData = NULL
                  THEN SetImageSize(d0, CallerHeap(a), a.width, a.height, pix, alpha)
                  ELSE [dst |-> d0, heap |-> CallerHeap(a)]
            idxs == IF outcome = "decoded" THEN 0..(a.width * a.height - 1) ELSE {}
        IN  /\ arg' = a
            /\ img' = i
            /\ dst' = r.dst
            /\ heap' = r.heap
            /\ rows' = {}
            /\ written' = Stores(a.pixelData, idxs)
            /\ fault' = StoreFaults(r.heap, a.pixelData, idxs)
            /\ err' = CASE outcome = "src_out_of_memory" -> IMG_NATIVE_IMAGE_OUT_OF_MEMORY_ERROR
                        [] outcome = "decoded"           -> IMG_NATIVE_IMAGE_NO_ERROR
                        [] OTHER                         -> IMG_NATIVE_IMAGE_DECODING_ERROR
            /\ call' = "returned"

Next ==
    \/ ImgdcdDecodePng
    \/ PngSetSize \/ PngSetColormap \/ PngSetTransMap \/ PngSendPixels \/ PngDecodeEnds
    \/ ImgdcdDecodeJpeg

Spec == Init /\ [][Next]_vars

-----------------------------------------------------------------------------
(***************************************************************************)
(* A decode that reports success leaves every pixel of the caller's image  *)
(* stored in the caller's pixel buffer (and, for PNG, in its alpha buffer  *)
(* too).  Guards the row loop of sendPixelsColor, the early return         *)
(* without buffers and the allocations of setImageSize.                    *)
(***************************************************************************)
DecodedImageComplete ==
    call = "returned" /\ err = IMG_NATIVE_IMAGE_NO_ERROR =>
        LET all == 0..(arg.width * arg.height - 1) IN
        /\ arg.pixelData # NULL => Stores(arg.pixelData, all) \subseteq written
        /\ arg.entry = "png" /\ arg.alphaData # NULL =>
               Stores(arg.alphaData, all) \subseteq written

(***************************************************************************)
(* No store of a decode goes through a NULL pointer or past the end of     *)
(* the buffer it addresses, and no row is read past the decoder's row.     *)
(* Guards setImageSize's handling of a size that differs from the          *)
(* caller's, and the pixel pointer imgdcd_decode_jpeg decodes into.        *)
(***************************************************************************)
NoMemoryFault == fault = {}
====
