---------------------------- MODULE LfpportCanvas ----------------------------
(***************************************************************************)
(* The GTK canvas peer of lfpport_canvas.c: lfpport_canvas_create and the  *)
(* callbacks it installs in the MidpDisplayable, folded over a sequence    *)
(* of calls the MIDP layer makes.  The peer's observable state is a record *)
(*   forms     canvases whose form was added to the main window            *)
(*   visible   canvases whose form is shown (gtk_widget_show_all)          *)
(*   current   the main window's current form, or NONE                     *)
(*   title     the form's title per canvas, or NO_TITLE                    *)
(*   installed the function pointers set in each canvas's MidpDisplayable  *)
(*   fault     a call went through a pointer that was not set              *)
(* A title is a string; pcsl_string_convert_to_utf8 gives len > 0 exactly  *)
(* for a non-empty one.  GTK sizing (gtk_widget_set_size_request,          *)
(* lfpport_form_set_content_size) changes no state the MIDP layer reads.   *)
(* A call is a record [op, canvas, title].                                 *)
(***************************************************************************)
EXTENDS Sequences

CONSTANTS NONE, NO_TITLE

\* The MidpDisplayable pointers lfpport_canvas_create sets.
Callbacks == {"show", "hideAndDelete", "handleEvent", "setTitle", "setTicker"}

EmptyPeer(canvases) ==
    [forms |-> {}, visible |-> {}, current |-> NONE,
     title |-> [c \in canvases |-> NO_TITLE],
     installed |-> [c \in canvases |-> {}], fault |-> FALSE]

\* A call through canvasPtr->cb: a fault when the pointer is not set.
Through(st, c, cb) == IF cb \in st.installed[c] THEN st ELSE [st EXCEPT !.fault = TRUE]

\* canvas_set_title_cb with the len > 0 test left out.
CanvasSetTitleCbNoLenCheck(st, c, t) == [st EXCEPT !.title[c] = t]

\* canvas_set_title_cb: the title is set only when its UTF-8 form is non-empty.
CanvasSetTitleCb(st, c, t) == IF t # "" THEN [st EXCEPT !.title[c] = t] ELSE st

\* canvas_show_cb and canvas_set_ticker_cb change nothing; canvas_handle_event_cb
\* returns KNI_OK (0, "not handled") and changes nothing.
CanvasShowCb(st, c) == st

\* canvas_hide_and_delete_cb: hides the form; it stays in the main window and,
\* if it was, current.
CanvasHideAndDeleteCb(st, c) == [st EXCEPT !.visible = @ \ {c}]

(***************************************************************************)
(* lfpport_canvas_create: the form is shown with its drawing area, the     *)
(* pointers are set, the form is added to the main window and made its     *)
(* current form, then the title is set through canvasPtr->setTitle.        *)
(***************************************************************************)
LfpportCanvasCreate(st, c, t) ==
    LET made == [st EXCEPT !.visible = @ \cup {c},
                           !.installed[c] = Callbacks,
                           !.forms = @ \cup {c},
                           !.current = c]
    IN  CanvasSetTitleCb(Through(made, c, "setTitle"), c, t)

\* One call of the MIDP layer: create, or a call through a MidpDisplayable pointer.
CanvasCall(st, call) ==
    LET c == call.canvas IN
    CASE call.op = "create"        -> LfpportCanvasCreate(st, c, call.title)
      [] call.op = "setTitle"      -> CanvasSetTitleCb(Through(st, c, "setTitle"), c, call.title)
      [] call.op = "hideAndDelete" -> CanvasHideAndDeleteCb(Through(st, c, "hideAndDelete"), c)
      [] OTHER                     -> CanvasShowCb(Through(st, c, call.op), c)

RECURSIVE CanvasRun(_, _)
\* The peer after the calls of seq, in order, from st.
CanvasRun(st, seq) ==
    IF seq = <<>> THEN st ELSE CanvasRun(CanvasCall(st, Head(seq)), Tail(seq))
=============================================================================
