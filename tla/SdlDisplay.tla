----------------------------- MODULE SdlDisplay -----------------------------
(***************************************************************************)
(* The simulated display of the littlevgl sample                           *)
(* (samples/littlevgl/vgl-wasm-runtime/src/platform/linux/display_indev.c):*)
(* applications draw into tft_fb, each on its own thread, and a thread of  *)
(* SDL shows it.  There is no lock: a drawing raises sdl_refr_qry when it  *)
(* is complete, and the thread takes the flag down before it copies.       *)
(*                                                                         *)
(* The frame buffer is a column of pixels, an image one colour.  In what   *)
(* order a drawing writes its pixels is left open.                         *)
(***************************************************************************)
EXTENDS Integers

CONSTANTS
  Drawer,      \* applications that draw
  Colour,      \* what they draw
  Height,      \* MONITOR_VER_RES
  MaxDrawings  \* drawings begun, a bound of the model

ASSUME DisplayAssumption == Height \in Nat \ {0} /\ MaxDrawings \in Nat

VARIABLES
  tft_fb,
  sdl_refr_qry,
  sdl_inited,
  sdl_quit_qry,
  texture,    \* what was copied out of tft_fb
  screen,     \* what the renderer showed last
  refresher,  \* where the thread of SDL is
  copied,     \* pixels SDL_UpdateTexture has copied
  drawing,    \* per application: the drawing it is in
  drawings       \* drawings begun

displayVars == <<tft_fb, sdl_refr_qry, sdl_inited, sdl_quit_qry, texture, screen,
                 refresher, copied, drawing, drawings>>
sdlVars     == <<sdl_inited, sdl_quit_qry, texture, screen, refresher, copied>>

Pixel == 0 .. Height - 1
Blank == [p \in Pixel |-> "nothing"]
Gray  == [p \in Pixel |-> "gray"]
Idle  == [busy |-> FALSE, left |-> {}, colour |-> "nothing"]

DisplayInit ==
  /\ tft_fb = Blank /\ texture = Blank /\ screen = Blank
  /\ sdl_refr_qry = FALSE /\ sdl_inited = FALSE /\ sdl_quit_qry = FALSE
  /\ refresher = "none" /\ copied = 0
  /\ drawing = [d \in Drawer |-> Idle] /\ drawings = 0

-----------------------------------------------------------------------------
(* The drawing functions, which the applications call.  The runtime lets   *)
(* no application run before display_SDL_init has returned, which waits    *)
(* for sdl_inited.  The end of the thread of SDL is that of the process.   *)

Running == sdl_inited /\ refresher # "gone"

\* A drawing of what is cut to the screen; outside of it there is none.
Begins(d, pixels, colour) ==
  /\ Running /\ ~drawing[d].busy /\ drawings < MaxDrawings /\ pixels # {}
  /\ drawing' = [drawing EXCEPT ![d] = [busy |-> TRUE, left |-> pixels, colour |-> colour]]
  /\ drawings' = drawings + 1
  /\ UNCHANGED <<tft_fb, sdl_refr_qry, sdlVars>>

\* monitor_flush does not cut: LVGL flushes areas on the screen.
MonitorFlush(d) ==
  \E y1, y2 \in Pixel, c \in Colour : y1 <= y2 /\ Begins(d, y1 .. y2, c)

MonitorFill(d) ==
  \E y1, y2 \in -1 .. Height, c \in Colour : y1 <= y2 /\ Begins(d, (y1 .. y2) \cap Pixel, c)

MonitorMap(d) ==
  \E y1, y2 \in -1 .. Height, c \in Colour : y1 <= y2 /\ Begins(d, (y1 .. y2) \cap Pixel, c)

DrawPixel(d) ==
  /\ Running
  /\ \E p \in drawing[d].left :
       /\ tft_fb' = [tft_fb EXCEPT ![p] = drawing[d].colour]
       /\ drawing' = [drawing EXCEPT ![d].left = @ \ {p}]
  /\ UNCHANGED <<sdl_refr_qry, drawings, sdlVars>>

\* The last line of each of the three functions.
QueryRefresh(d) ==
  /\ Running /\ drawing[d].busy /\ drawing[d].left = {}
  /\ sdl_refr_qry' = TRUE
  /\ drawing' = [drawing EXCEPT ![d] = Idle]
  /\ UNCHANGED <<tft_fb, drawings, sdlVars>>

-----------------------------------------------------------------------------
(* The thread of SDL: monitor_sdl_refr_thread and monitor_sdl_refr_core.   *)

DisplayStays == UNCHANGED <<drawing, drawings>>

\* SDL_CreateThread and monitor_sdl_init, which starts from a gray screen.
MonitorSdlInit ==
  /\ refresher = "none"
  /\ tft_fb' = Gray /\ texture' = Gray
  /\ sdl_refr_qry' = TRUE /\ sdl_inited' = TRUE /\ refresher' = "loop"
  /\ UNCHANGED <<sdl_quit_qry, screen, copied>> /\ DisplayStays

TakeQuery ==
  /\ refresher = "loop" /\ ~sdl_quit_qry
  /\ refresher' = (IF sdl_refr_qry THEN "refresh" ELSE "events") /\ copied' = 0
  /\ sdl_refr_qry' = FALSE
  /\ UNCHANGED <<tft_fb, sdl_inited, sdl_quit_qry, texture, screen>> /\ DisplayStays

\* SDL_UpdateTexture, while applications draw.
UpdateTexture ==
  /\ refresher = "refresh" /\ copied < Height
  /\ texture' = [texture EXCEPT ![copied] = tft_fb[copied]] /\ copied' = copied + 1
  /\ UNCHANGED <<tft_fb, sdl_refr_qry, sdl_inited, sdl_quit_qry, screen, refresher>>
  /\ DisplayStays

\* Variant: the flag goes down when the screen is up to date.
PresentAndClear ==
  /\ refresher = "refresh" /\ copied = Height
  /\ screen' = texture /\ refresher' = "events" /\ sdl_refr_qry' = FALSE
  /\ UNCHANGED <<tft_fb, sdl_inited, sdl_quit_qry, texture, copied>> /\ DisplayStays

\* SDL_RenderClear, SDL_RenderCopy, SDL_RenderPresent.
Present ==
  /\ refresher = "refresh" /\ copied = Height
  /\ screen' = texture /\ refresher' = "events"
  /\ UNCHANGED <<tft_fb, sdl_refr_qry, sdl_inited, sdl_quit_qry, texture, copied>>
  /\ DisplayStays

\* SDL_PollEvent: the window is uncovered, and shown again; the flag stays.
Exposed ==
  /\ refresher = "events"
  /\ refresher' = "refresh" /\ copied' = 0
  /\ UNCHANGED <<tft_fb, sdl_refr_qry, sdl_inited, sdl_quit_qry, texture, screen>>
  /\ DisplayStays

\* SDL_QUIT reaches quit_filter while the thread polls.
QuitFilter ==
  /\ refresher = "events" /\ sdl_quit_qry' = TRUE
  /\ UNCHANGED <<tft_fb, sdl_refr_qry, sdl_inited, texture, screen, refresher, copied>>
  /\ DisplayStays

\* There are no more events; the thread sleeps.
Delay ==
  /\ refresher = "events" /\ refresher' = "loop"
  /\ UNCHANGED <<tft_fb, sdl_refr_qry, sdl_inited, sdl_quit_qry, texture, screen, copied>>
  /\ DisplayStays

\* monitor_sdl_clean_up and exit(0).
CleanUp ==
  /\ refresher = "loop" /\ sdl_quit_qry /\ refresher' = "gone"
  /\ UNCHANGED <<tft_fb, sdl_refr_qry, sdl_inited, sdl_quit_qry, texture, screen, copied>>
  /\ DisplayStays

DisplayNext ==
  \/ MonitorSdlInit \/ TakeQuery \/ UpdateTexture \/ Present \/ Exposed \/ QuitFilter
  \/ Delay \/ CleanUp
  \/ \E d \in Drawer :
       MonitorFlush(d) \/ MonitorFill(d) \/ MonitorMap(d) \/ DrawPixel(d) \/ QueryRefresh(d)

DisplaySpec == DisplayInit /\ [][DisplayNext]_displayVars

-----------------------------------------------------------------------------
\* No drawing is lost: when the applications have ended their drawings, no refresh is
\* asked for and the thread is in none, what is on the screen is what they drew, however
\* their drawings and the copying went on at the same time (display_indev.c:256, where
\* the flag goes down before the copy).
DrawnIsShown ==
  (sdl_inited /\ ~sdl_refr_qry /\ refresher # "refresh" /\ \A d \in Drawer : ~drawing[d].busy)
    => screen = tft_fb
=============================================================================
