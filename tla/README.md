# TLA+ models of the phoneMIDP slave-mode event router

These modules model the native event router of phoneME MIDP in slave mode,
`src/src/events/slavemode_port/javacall/native/midp_slavemode_javacall.c`.
They are checked with TLC.

## The system

In slave mode, the host platform drives the Java VM. Two entry points connect them.

* `javanotify_inform_event` is called when a native event is waiting. It takes the
  VM's snapshot of blocked threads (`SNI_GetBlockedThreads`) and runs
  `midp_slave_handle_events` with timeout 0. That function does two things:
  * **Event Decoder**: `checkForSystemSignal` receives one raw event
    (`javacall_event_receive`). It decodes the event into the *static*
    `newSignal` (waitingFor, descriptor, status) and a `MidpEvent`. Only
    `waitingFor` and `pResult` are reset per call. A case that does not write
    `descriptor` or `status` leaves the previous event's values.
  * **Signal Dispatcher**: a switch on `newSignal.waitingFor`. It either forwards
    the `MidpEvent` to a sink (AMS, the foreground, the VM thread), or it unblocks
    threads through the **Registry Scanner**:
    * `eventUnblockJavaThread` (unblockOne): first match wins. Its NO_SIGNAL
      forced unblock is modelled but unreachable: the function is static and
      its three callers pass a read or write signal.
    * the MEDIA_EVENT_SIGNAL loop: first exact match.
    * `midp_thread_signal_list` (unblockAll).
* `javanotify_vm_timeslice` is the **Time-Slice hook**. `midpTimeSlice` asks the
  VM how long the host may sleep. An answer of -2 triggers finalisation. Any
  other answer is converted to milliseconds for `jcapp_refresh_pending`, and the
  VM's unclamped answer is returned.

The other three source files are not part of the router:

* `gxj_graphics.c` holds the putpixel graphics primitives. They are modelled by
  the pixel indices they store to. `gx_draw_rgb` copies an RGB array into a
  screen buffer, which may be rotated. `gx_fill_rect` either fills whole-width
  clips itself (`fast_fill_rect`) or hands the rectangle to `draw_roundrect`.
* `imgdcd_image_util.c` holds the reference decoder glue.
  * `imgdcd_decode_png` sets up a stack-local `_imageDstData`. It then lets the
    PNG decoder call back `setImageSize`, `setImageColormap`,
    `setImageTransparencyMap` and `sendPixelsColor`, one row at a time.
  * `imgdcd_decode_jpeg` calls `setSize` itself, then decodes into a buffer.
* `lfpport_canvas.c` is the **canvas peer** of the LCDUI layer.
  `lfpport_canvas_create` builds a GTK form with a drawing area and shows it,
  although its doc comment says it "does not display it".
  It fills the `MidpDisplayable` with its callbacks, adds the form to the main
  window and makes it current, then sets the title through `setTitle`. The
  MIDP layer later calls `show`, `hideAndDelete`, `handleEvent`, `setTitle`
  and `setTicker` through those pointers.

## Modules

| module | models | state / actions |
|---|---|---|
| `Registry` | the three scans | pure operators on a snapshot (sequence of thread ids) and the reentry map; each scan returns the new reentry data and the set of threads handed to `midp_thread_unblock` |
| `LfpportCanvas` | the canvas peer | pure operators, checked by no run (see Not modelled). The peer is a record: the main window's forms and current form, the visible forms, each canvas's title, and the set pointers. `LfpportCanvasCreate` and the callbacks are folded over a call sequence by `CanvasRun` |
| `Signals` | the shared vocabulary | the `midpSignalType` names, the router's own statuses, the wait key, `MAKE_PLAYER_DESCRIPTOR` (compiled from KNICommon.h, outside this repository; modelled from the text quoted in the file's comment), the MMAPI/player split, the card-device descriptors, the classes network down signals |
| `Router` | the abstract router: what `javanotify_inform_event` promises | `phase`, `waitOn`, `status`, `pending`, `connected`; `Deliver` handles the oldest event and unblocks exactly the waiters the dispatch policy (`WakeOne`, `WakeAll`, `StatusAllowed`, `ConnectedAfter`) names; `Wait`, `Block`, `Resume`, `Run`, `Post`, `Connect` |
| `SlaveEvents` | decoder + dispatcher + their environment | `tstate`, `reentry`, `evq` (posted raw events), `newSignal` (the static's persistent fields), `netConnected`, `sinks`; actions `JavanotifyInformEvent` (one whole call: receive, decode, dispatch, unblock), `InformEventNoEvent` (failed receive), and the environment `MidpThreadWait`, `VmBlock`, `VmResume`, `ThreadRuns`, `PlatformPost`, `SetMidpNetworkConnected` |
| `MC_SlaveEvents` | instance for TLC | 2 threads; socket descriptor 5, which push is also registered for, so a reader and the push thread compete for one read event; descriptor 7, neither waited on nor registered; alarm 9 (registered) and 8 (not); one player; one sensor; the core events, the AMMS events, and the optional-JSR events (location, proximity, content handler, card device, isolate switches, on-device debug, JSR 75, WMA) |
| `TimeSlice` | `midpTimeSlice` | `vmFinished`, `refreshed` (argument to `jcapp_refresh_pending`), `returned`, `finalized`; action `JavanotifyVmTimeslice`, which the host stops calling once it has been told -2 |
| `MC_TimeSlice` | instance | the millisecond type scaled to 7 value bits (bound 127); VM answers -140..300 |
| `GxjGraphics` | `gx_draw_rgb`, `fast_fill_rect`, `gx_fill_rect` (unrotated) | pure operators. `gx_draw_rgb` is its two loops as RECURSIVE operators (`DrawRgbRows`, `DrawRgbCols`) with the return, continue and break in code order, giving the sequence of stores (pixel index, `rgbData` element read). `fast_fill_rect` is the set of indices it stores |
| `MC_Operators` | checks every pure operator over bounded inputs | each input is one initial state, and the behaviour then stutters. There are three families; in each, the other families' variables hold a fixed value. **Graphics**: every buffer of 2..3 × 2..3 pixels, rotated or not, every clip inside it, and every rectangle at -1..3 of extent 0..3, dotted or not. **Pixels** (`pix`): a build, a PNG pixel type, a transparency map or none, channels from {0, 135, 255}, and a colour map entry with a clear or set top byte. **Unblock**: every snapshot order of every subset of 3 threads × every reentry assignment × every target a caller passes (read or write signal, descriptor 0 or 5) |
| `PixelFormat` | the decoder's pixel packing | pure operators. A 32-bit pixel is its four bytes, so the byte-aligned masks and shifts of the `IMGDCD_*` macros act byte by byte. `SendPixelColor` is one iteration of either `sendPixelsColor` loop: the pixel and alpha stored, and the row bytes consumed. `JpegPixel` is one iteration of `imgdcd_decode_jpeg`'s conversion loop |
| `ImageDecode` | the image destination and both entry points | `call` (idle, PNG decoder before/after the header, returned), `arg`, `img` (the encoded header), `dst` (the `_imageDstData`), `heap` (named buffers → element count), `rows`, `written` (stores made), `fault`, `err`; actions `ImgdcdDecodePng`, `PngSetSize`, `PngSetColormap`, `PngSetTransMap`, `PngSendPixels`, `PngDecodeEnds`, `ImgdcdDecodeJpeg` (whose outcome follows `DecodeJpegImage`, the control of `decode_jpeg_image`) |
| `MC_ImageDecode` | instance | images of 1..2 × 1..2; the cfgs choose what callers pass and whether headers match and allocations may fail |

How the model corresponds to the code:

* One `JavanotifyInformEvent` step is a whole call of `javanotify_inform_event`.
  Its scans, its sink notifications and its update of the static `newSignal`
  happen in that one step, because the code runs them to completion without
  yielding.
* The snapshot order is any permutation of the blocked threads.
* `midpCheckSocketInUse` is a free boolean, chosen for network events, the
  only ones that ask it. `jsr120_check_signal` is outside this repository. Its
  answer is a free boolean where the code uses it, which is for write and
  host-lookup events when `JSR120` (ENABLE_JSR_120 or ENABLE_JSR_205) is set.
  It has no other effect on router state, and no modelled thread waits on a
  WMA key.
* The decoder's switch is split in two operators at the multimedia case
  (`CheckForSystemSignal`, `CheckForOptionalSignal`), and so is the
  dispatcher's, after MEDIA_EVENT_SIGNAL (`MidpSlaveHandleEvents`,
  `HandleOptionalSignal`). A build is the set of events its platform posts:
  a case whose event is never posted is a case the build does not compile.
* `findPushBlockedHandle` and `findPushTimerBlockedHandle` are membership in the
  constants `PushFds` and `PushAlarms`.
* A thread is "ready" between `midp_thread_unblock` and the moment it runs and
  reads its status.
* The `events` run models the full build without JSR 234: JSR 75, 120/205,
  135, 177, 179, 211, 256, multiple isolates and on-device debug. The AMMS
  run adds JSR 234 to the core build. The write and network-down runs use
  the core build, without WMA.
* `midp_thread_signal_list`, `midp_thread_wait` and the VM's thread states are
  outside this repository. They are modelled from the spec and marked
  `spec_modelled` in `PROJECT.json`.

For the graphics and the image decoder:

* A primitive's loops and clip tests are the set comprehension over the
  rectangle's pixels. Both loops run upward, so the `return` and `break` on
  the upper clip edges cut off every later value, as the set's bound does.
* `draw_roundrect` is outside this repository. `ClippedFill` is what the fill
  path relies on it for: it fills exactly the rectangle inside the clip.
* The PNG decoder (`decode_png_image`) is outside this repository. It is the
  environment that calls the callbacks, in any order and any number of times,
  with one rule: `setSize` comes first, because IHDR is the first chunk. It may
  fail at any point, and it reports success only after sending every row.
* `midpMalloc` returns the named buffer, or NULL when `MallocCanFail`.

## Runs

| run | result | what it shows |
|---|---|---|
| `events` | pass (about 1.06M states, 2.5 min) | `RouterRefinement`: `SlaveEvents` implements `Router` under the mapping below, in the full build. Every call handles the oldest event. It unblocks exactly the waiters the policy names: one per unblockOne key, all of a broadcast key, the push thread only when nobody reads, nobody when WMA claims a write. Each gets the policy's status, and no other blocked thread changes |
| `write_wakes_all` | violation | write-ready and host-lookup events unblock all waiters (the spec says one) |
| `network_down_descriptor` | violation | network down releases only descriptor-0 waiters (the spec says all) |
| `amms_stale_descriptor` | violation | `RouterRefinement` fails with JSR 234: an AMMS event wakes a player waiter through the stale static descriptor, which the abstract router does not allow |
| `timeslice` | pass | `TypeOK`: every answer reaches `jcapp_refresh_pending` as -1 or a value in range, and finalisation runs once, only on -2 |
| `timeslice_unclamped` | violation | `HostGetsClampedSlice`: the host is returned the VM's raw answer (line 656), not the clamped value the notifier got; spec 4.4 and the testable properties of spec 8 (-5 → -1) say it gets the clamped one |
| `operators` | pass (426k initial states) | `DrawRgbPlacesPixels`: the loops of `gx_draw_rgb`, with their return, continue and break, store every pixel of the reference set (the rectangle inside the clip) exactly once and nothing else, each from its own `rgbData` element; unrotated, at `b * sbufWidth + a`. `FillRectFillsClip`: when `gx_fill_rect` takes the fast path, `fast_fill_rect`'s early returns and chained clamps fill exactly the clipped rectangle. `DecodedPixelMatchesLayout`: in all five pixel-format builds, the truecolour loop (`IMGDCD_RGBA2PIXEL`), the indexed loop (`IMGDCD_MIDPTOPIXEL` of the colour map entry) and the JPEG loop (`IMGDCD_MIDPTOOPAQUEPIXEL`), three separately written macro families, store each colour in the putpixel byte order, and `alphaData` gets the pixel's own alpha. `EventUnblockMeetsContract`: `eventUnblockJavaThread` gives the status to the first exact match in snapshot order and only it; later matches on the same key keep their reentry data |
| `gxj_rotated_bounds` | violation | rotated `gx_draw_rgb` stores logical column 0 one row past the end of the buffer (index `(sbufHeight - x) * sbufWidth + y` at line 132) |
| `image_decode` | pass | when the header matches the caller's size and memory suffices, a successful decode stores every pixel (and, for PNG, every alpha) and nothing faults |
| `image_size_mismatch` | violation | `setImageSize` ignores a header larger than the caller's buffers, and rows are stored past their end |
| `image_jpeg_null` | violation | `imgdcd_decode_jpeg` with NULL `pixelData` decodes through NULL, not into the buffer `setSize` allocated |
| `image_alloc_fail` | violation | a failed allocation in `setImageSize` makes `sendPixelsColor` drop every row, yet the PNG decode reports success |

## The refinement

`Router` says what the router promises, with no snapshot order, no static
`newSignal`, no scans and no sinks. `SlaveEvents` instantiates it as
`R == INSTANCE Router WITH ...` and checks `RouterRefinement == R!Spec` as a
PROPERTY. The mapping is:

* `phase` is `tstate`.
* `waitOn` is the key of a blocked thread's reentry data. It is NULL for a
  thread the VM blocked itself.
* `status` is the status of a thread unblocked and not yet run.
* `pending` is the platform queue `evq`.
* `connected` is `netConnected`.

A `JavanotifyInformEvent` step is a `Deliver` step. Every environment action
is its abstract counterpart, and `InformEventNoEvent` is a stuttering step.
The static `newSignal` and the sinks map to nothing. That is exactly why a
stale descriptor shows up as a refinement violation.

## Bounds and why they suffice

* Two threads and a queue of one raw event are enough for everything these
  properties are about:
  * two waiters on one key (unblockOne versus unblockAll);
  * a reader versus the push thread;
  * a stale descriptor, which needs two events *in sequence*, not queued together.
* The snapshot order ranges over all permutations, and thread symmetry is sound
  because all properties are safety properties.
* The full build shares one descriptor value (5) among the socket, location,
  WMA and content-handler events. A key is a (class, descriptor) pair, so
  the classes still stay apart. The card-device constants `SIGNAL_RESET`,
  `SIGNAL_XFER` and `SIGNAL_LOCK` come from a header outside this
  repository, so any three distinct integers instantiate them. The cfg reuses
  3, 5 and 7, which keeps `newSignal.descriptor` to few values. The full build
  has a location waiter and a card-reader (XFER) waiter. It drops the
  host-lookup waiter, which the write branch also serves, and the sensor
  waiter, which the core runs keep.
* The registry check covers three threads with all orders exhaustively.
* The time slice keeps the code's comparisons and mask. The millisecond width
  is a parameter because TLC integers are 32-bit and cannot hold 0x80000000.
  With 7 bits, every class of answer is tried: negative values, the -2 and -1
  sentinels, 0, the bound itself, the bound + 1, and values whose low bits would
  survive the mask.
* Graphics: buffers up to 3 × 3 with rectangles starting at -1 and reaching past
  the far edge. Every case occurs: every clamp of `fast_fill_rect`; both early
  returns, since x or y = 3 lies past a 2-pixel buffer; the return, continue
  and break of `gx_draw_rgb`'s loops; and zero-sized rectangles.
* Pixel formats: channel values 0, 135 and 255 are distinct in every byte
  and in the bits the 5/6-bit fields keep, so a swapped, shifted or dropped
  channel shows. 255 exercises the signed overflow of `alpha << 24`, and a
  colour map entry with its top byte set exercises the masks.
* Image decoder: one or two rows and columns. That is enough for a header
  that is larger than the caller's buffers in either direction, a row beyond
  the first, and both buffers missing or failing to allocate.

## Fairness

None. Every property checked is a safety property, refinement included:
`Router` has no fairness conjunct. Nothing in this repository guarantees
progress:

* The host decides when to call `javanotify_inform_event`.
* The VM decides the snapshot order, and so whether a second waiter on an
  unblockOne key is ever chosen.
* The PNG decoder outside the repository decides whether a decode
  terminates.
* Whether MIDP_NETWORK_DOWN_REQUEST is retried is the caller's job (spec 4.3).

A liveness property would hold or fail by the assumption chosen, not by
this code.

## Not modelled (yet), and the plan

1. The WMA subsystem behind `jsr120_check_signal`, and the JSR 211 handlers.
   They are outside this repository, and the model treats their answers as
   free choices. The VM_DEBUG_SIGNAL case is unreachable, because no decoder
   case produces it.
2. The rotated wrappers of `gx_fill_triangle`, `gx_draw_arc` and
   `gx_fill_arc`. Their suspicious argument transforms (a swapped third
   vertex, a rotated sweep) are hazards in `PROJECT.json`. The primitives
   they call are outside this repository.
3. Liveness: see Fairness.
4. The rotated fill path of `gx_fill_rect`. It depends on the `RPIXEL`/`RCLIP`
   macros, which are not in this repository. The model would need their
   definition from the platform headers.
5. A leak read directly from the code, with no run spent on it, because every
   run slot is in use. It is listed as a hazard in `PROJECT.json`:
   * Buffers that `setImageSize` allocates into the stack-local `dstData` are
     never freed or returned (the model's `heap` shows them still allocated
     after the call returns).
6. The PNG and JPEG byte decoders. The model's rows carry the bytes
   `sendPixelsColor` reads, because what `decode_png_image` sends is outside
   this repository. The same holds for whether `JPEG_To_RGB_decodeData2` fills the buffer beyond a smaller JPEG:
   `decode_jpeg_image` leaves that area to an empty TBD block. Both are
   hazards. `set_img_enable_32bit_mode` only flips the mode and calls ROM
   selection functions outside this repository, so the mode is an input of
   the pixel check.
7. The `tmap`/`cmap` bounds of the transparency and colour maps. They depend on
   what the PNG decoder outside this repository passes.
8. The canvas's GTK sizing and drawing calls. They are toolkit I/O and leave
   no state that the MIDP layer reads. `lfpport_canvas_expose_event_callback`
   is never connected (its `g_signal_connect` is commented out), so it never
   runs. Whether `pcsl_string_convert_to_utf8` writes `len` when it fails is
   outside this repository, so the model takes it to succeed. The
   uninitialised `len` is a hazard.
   No run checks `LfpportCanvas`. Each callback is one assignment, and a
   property over call sequences would restate them. The claim worth
   checking is the doc comment of `lfpport_canvas_create`, "creates a
   canvas's native peer but does not display it". `gtk_widget_show_all`
   (line 146) and `gtk_main_window_set_current_form` (line 167) contradict
   it, but that would need a violation run of its own, and every slot is in
   use. The same holds for the show, title and hide behaviour listed as
   hazards.
9. Finalisation on a repeated -2. Whether a finished VM answers -2 again is
   outside this repository. Spec 4.4 asks that repeated shutdown calls be
   idempotent, not that the block run once. `pushcheckinall` and
   `midpFinalize` are outside it too. So the model's host stops calling
   after -2.
10. Not to be modelled: JSR 82 (dead code under `xxENABLE_JSR_82`).
