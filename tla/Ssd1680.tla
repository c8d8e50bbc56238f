------------------------------ MODULE Ssd1680 -------------------------------
(***************************************************************************)
(* The SSD1680 e-paper driver                                              *)
(* (components/ai_display_drivers/ssd1680/ssd1680.c) and the panel it      *)
(* drives.  A driver call is the sequence of commands it sends; the panel  *)
(* takes them one by one, is deaf while it is busy or asleep, and ends its *)
(* busy time on its own.  A partial update is differential: it drives only *)
(* the cells where the new bank (0x24) differs from the base bank (0x26),  *)
(* so it is right only when the base bank holds what the panel shows.      *)
(***************************************************************************)
EXTENDS Integers, Sequences

CONSTANTS
    Width,      \* SSD1680_WIDTH, in pixels: the 122 of the board is no multiple of 8
    Height,     \* SSD1680_HEIGHT
    Rects,      \* the regions callers ask for, as they pass them
    Inks,       \* what a cell can hold
    White,      \* the ink of a cleared cell
    FullFirst,  \* callers start with a full refresh after ssd1680_init or _wake
    SlowPanel   \* BUSY may stay up beyond the 10 s of epd_wait_busy

ASSUME PanelAssumption == White \in Inks /\ FullFirst \in BOOLEAN /\ SlowPanel \in BOOLEAN

\* A region may start or end off the panel, but is at least a pixel wide and high.
ASSUME RegionAssumption ==
    /\ Width \in Nat \ {0} /\ Height \in Nat \ {0}
    /\ Rects \subseteq [x : Int, y : Int, w : Nat \ {0}, h : Nat \ {0}]

\* SSD1680_ROW_BYTES: the framebuffer and both banks hold whole bytes of 8 pixels.
RowBytes == (Width + 7) \div 8

Cells == (0 .. RowBytes - 1) \X (0 .. Height - 1)

Picture == [Cells -> Inks]

VARIABLES
    fb,      \* s_fb
    mode,    \* s_mode
    ready,   \* ssd1680_init has set up GPIO and SPI
    todo,    \* the commands the call in progress has still to send
    panel,   \* the panel: power, BUSY, waveform registers
    ram24,   \* the panel's new-image bank
    ram26,   \* the panel's base bank
    shown,   \* what the panel displays
    late,    \* history: a wait timed out since the panel was last reset
    lost,    \* history: the panel has missed a command since it was last reset
    want,    \* history: the picture the flushes so far ask for
    seeded   \* history: a full refresh since the last init, wake or sleep

vars == <<fb, mode, ready, todo, panel, ram24, ram26, shown, late, lost, want, seeded>>

-----------------------------------------------------------------------------
(* The window of a partial refresh.                                        *)

\* x & ~7: the first pixel of the byte x is in.
ByteStart(x) == x - (x % 8)

AtLeast(x, low) == IF x < low THEN low ELSE x

AtMost(x, high) == IF x > high THEN high ELSE x

\* The bytes of the rows between two corners; none if they are out of order.
Window(x0, y0, x1, y1) ==
    IF x1 < x0 \/ y1 < y0 THEN {} ELSE (x0 \div 8 .. x1 \div 8) \X (y0 .. y1)

\* The region is rounded out to bytes, then clipped to the panel.
Region(r) ==
    Window(AtLeast(ByteStart(r.x), 0), AtLeast(r.y, 0),
           AtMost(ByteStart(r.x + r.w + 7) - 1, Width - 1), AtMost(r.y + r.h - 1, Height - 1))

\* The cells that a pixel of the region lies in, whatever the driver makes of it;
\* the last cell of a row also has the pixels that pad it to eight.
Touched(r) ==
    {c \in Cells :
        /\ c[2] \in r.y .. r.y + r.h - 1
        /\ \E px \in 8 * c[1] .. 8 * c[1] + 7 : px \in r.x .. r.x + r.w - 1}

-----------------------------------------------------------------------------
(* Driver calls as command sequences.                                      *)

Op(name) == [op |-> name, cells |-> {}]

OpOn(name, cells) == [op |-> name, cells |-> cells]

\* epd_init_full: hardware and software reset, configuration, full waveform.
InitFull ==
    <<Op("reset"), Op("wait"), Op("swreset"), Op("wait"),
      Op("config"), Op("lutFull"), Op("wait")>>

\* Faulty variant of InitPartial: no wait for the waveform to be loaded.
InitPartialNoWait ==
    <<Op("vcomPartial"), Op("wait"), Op("lutPartial"), Op("loadLut")>>

\* epd_init_partial: partial VCOM and waveform over a full initialisation.
InitPartial ==
    <<Op("vcomPartial"), Op("wait"), Op("lutPartial"), Op("loadLut"), Op("wait")>>

\* Faulty variant of RefreshFull: the mode left as it was.
RefreshFullKeepsMode ==
    InitFull \o
    <<OpOn("ram24", Cells), OpOn("ram26", Cells), Op("updFull"), Op("wait")>>

\* Faulty variant of RefreshFull: the base bank is not seeded.
RefreshFullNoBase ==
    InitFull \o <<Op("modeFull"), OpOn("ram24", Cells), Op("updFull"), Op("wait")>>

\* ssd1680_refresh_full: both banks are written, then the whole panel driven.
RefreshFull ==
    InitFull \o
    <<Op("modeFull"), OpOn("ram24", Cells), OpOn("ram26", Cells), Op("updFull"), Op("wait")>>

\* Faulty variant of WriteAndUpdate: the base bank is not brought up to date.
WriteAndUpdateOnly(cells) == <<OpOn("ram24", cells), Op("updPartial"), Op("wait")>>

WriteAndUpdate(cells) ==
    <<OpOn("ram24", cells), Op("updPartial"), Op("wait"), OpOn("ram26", cells)>>

\* Faulty variant of RefreshPartial: a sleeping panel is not woken first.
RefreshPartialAsleep(cells) ==
    (IF mode # "PARTIAL" THEN Append(InitPartial, Op("modePartial")) ELSE <<>>) \o
    (IF cells # {} THEN WriteAndUpdate(cells) ELSE <<>>)

\* ssd1680_refresh_partial: a region clipped to nothing still loads the waveform.
RefreshPartial(cells) ==
    (IF mode = "NONE" THEN RefreshFull ELSE <<>>) \o
    (IF mode # "PARTIAL" THEN Append(InitPartial, Op("modePartial")) ELSE <<>>) \o
    (IF cells # {} THEN WriteAndUpdate(cells) ELSE <<>>)

Sleep == <<Op("sleep"), Op("modeNone")>>

Wake == Append(InitFull, Op("modeFull"))

-----------------------------------------------------------------------------
(* Callers.  All run on the main task, one call at a time.                 *)

Idle == todo = <<>>

Overlay(cells) == [c \in Cells |-> IF c \in cells THEN fb[c] ELSE want[c]]

ssd1680_init ==
    /\ Idle /\ ~ready
    /\ ready' = TRUE
    /\ fb' = [c \in Cells |-> White]
    /\ todo' = Wake
    /\ seeded' = FALSE
    /\ UNCHANGED <<mode, panel, ram24, ram26, shown, late, lost, want>>

\* ssd1680_draw_pixel, ssd1680_fill_rect, ssd1680_clear, or the HAL's memcpy.
Draw ==
    /\ Idle /\ ready
    /\ fb' \in Picture
    /\ UNCHANGED <<mode, ready, todo, panel, ram24, ram26, shown, late, lost, want, seeded>>

ssd1680_refresh_full ==
    /\ Idle /\ ready
    /\ todo' = RefreshFull
    /\ want' = fb
    /\ seeded' = TRUE
    /\ UNCHANGED <<fb, mode, ready, panel, ram24, ram26, shown, late, lost>>

ssd1680_refresh_partial(r) ==
    /\ Idle /\ ready
    /\ FullFirst => seeded \/ mode = "NONE"
    /\ todo' = RefreshPartial(Region(r))
    /\ want' = Overlay(IF mode = "NONE" THEN Cells ELSE Touched(r))
    /\ seeded' = (seeded \/ mode = "NONE")
    /\ UNCHANGED <<fb, mode, ready, panel, ram24, ram26, shown, late, lost>>

ssd1680_sleep ==
    /\ Idle /\ ready
    /\ todo' = Sleep
    /\ seeded' = FALSE
    /\ UNCHANGED <<fb, mode, ready, panel, ram24, ram26, shown, late, lost, want>>

ssd1680_wake ==
    /\ Idle /\ ready
    /\ todo' = Wake
    /\ seeded' = FALSE
    /\ UNCHANGED <<fb, mode, ready, panel, ram24, ram26, shown, late, lost, want>>

\* A restart of the chip, at any point of a call; the panel keeps its power.
Restart ==
    /\ ready
    /\ ready' = FALSE /\ mode' = "NONE" /\ todo' = <<>> /\ seeded' = FALSE
    /\ UNCHANGED <<fb, panel, ram24, ram26, shown, late, lost, want>>

-----------------------------------------------------------------------------
(* The driver sends, and the panel hears.                                  *)

Sending(op) == todo # <<>> /\ Head(todo).op = op

Waiting == Sending("wait")

\* epd_wait_busy, which polls BUSY every 2 ms.
WaitOver ==
    /\ Waiting
    /\ ~panel.busy
    /\ todo' = Tail(todo)
    /\ UNCHANGED <<fb, mode, ready, panel, ram24, ram26, shown, late, lost, want, seeded>>

\* Faulty variant of WaitTimesOut: BUSY is polled without end.
WaitForever == FALSE

\* After about 10 s epd_wait_busy returns with the panel still busy.
WaitTimesOut ==
    /\ Waiting
    /\ SlowPanel
    /\ panel.busy
    /\ todo' = Tail(todo)
    /\ late' = TRUE
    /\ UNCHANGED <<fb, mode, ready, panel, ram24, ram26, shown, lost, want, seeded>>

ModeOf == [modeFull |-> "FULL", modePartial |-> "PARTIAL", modeNone |-> "NONE"]

SetMode ==
    /\ todo # <<>>
    /\ Head(todo).op \in DOMAIN ModeOf
    /\ mode' = ModeOf[Head(todo).op]
    /\ todo' = Tail(todo)
    /\ UNCHANGED <<fb, ready, panel, ram24, ram26, shown, late, lost, want, seeded>>

\* epd_reset pulls the reset line, which a busy or sleeping panel obeys too.
Reset ==
    /\ Sending("reset")
    /\ panel' = [awake |-> TRUE, busy |-> TRUE, config |-> FALSE, lut |-> "none", vcom |-> "none"]
    /\ late' = FALSE /\ lost' = FALSE
    /\ todo' = Tail(todo)
    /\ UNCHANGED <<fb, mode, ready, ram24, ram26, shown, want, seeded>>

Hears == panel.awake /\ ~panel.busy

\* What a command does to the waveform registers, BUSY and power.
Registers(op) ==
    CASE op = "swreset" ->
            [panel EXCEPT !.busy = TRUE, !.config = FALSE, !.lut = "none", !.vcom = "none"]
      [] op = "config" -> [panel EXCEPT !.config = TRUE, !.vcom = "full"]
      [] op = "lutFull" -> [panel EXCEPT !.lut = "full"]
      [] op = "vcomPartial" -> [panel EXCEPT !.vcom = "partial"]
      [] op = "lutPartial" -> [panel EXCEPT !.lut = "partial"]
      [] op \in {"loadLut", "updFull", "updPartial"} -> [panel EXCEPT !.busy = TRUE]
      [] op = "sleep" -> [panel EXCEPT !.awake = FALSE]
      [] OTHER -> panel

Written(bank, op) ==
    IF Sending(op) THEN [c \in Cells |-> IF c \in Head(todo).cells THEN fb[c] ELSE bank[c]]
    ELSE bank

Displayed ==
    IF Sending("updFull") THEN ram24
    ELSE IF Sending("updPartial")
         THEN [c \in Cells |-> IF ram24[c] # ram26[c] THEN ram24[c] ELSE shown[c]]
         ELSE shown

IsCommand == todo # <<>> /\ Head(todo).op \notin DOMAIN ModeOf \cup {"wait", "reset"}

CommandHeard ==
    /\ IsCommand
    /\ Hears
    /\ panel' = Registers(Head(todo).op)
    /\ ram24' = Written(ram24, "ram24")
    /\ ram26' = Written(ram26, "ram26")
    /\ shown' = Displayed
    /\ todo' = Tail(todo)
    /\ UNCHANGED <<fb, mode, ready, late, lost, want, seeded>>

\* The panel misses what it is sent while busy or asleep.  Being told again to
\* sleep is no loss.
CommandMissed ==
    /\ IsCommand
    /\ ~Hears
    /\ lost' = (lost \/ ~Sending("sleep"))
    /\ todo' = Tail(todo)
    /\ UNCHANGED <<fb, mode, ready, panel, ram24, ram26, shown, late, want, seeded>>

DriverStep ==
    \/ WaitOver \/ WaitTimesOut
    \/ SetMode \/ Reset \/ CommandHeard \/ CommandMissed

BusyEnds ==
    /\ panel.busy
    /\ panel' = [panel EXCEPT !.busy = FALSE]
    /\ UNCHANGED <<fb, mode, ready, todo, ram24, ram26, shown, late, lost, want, seeded>>

\* The banks of a sleeping panel may not survive.
BanksDecay ==
    /\ ~panel.awake
    /\ ram24' \in Picture /\ ram26' \in Picture
    /\ UNCHANGED <<fb, mode, ready, todo, panel, shown, late, lost, want, seeded>>

-----------------------------------------------------------------------------

\* Power-on: the panel shows what it showed last, its banks hold anything.
Init ==
    /\ fb = [c \in Cells |-> White]
    /\ mode = "NONE" /\ ready = FALSE /\ todo = <<>>
    /\ panel = [awake |-> TRUE, busy |-> FALSE, config |-> FALSE, lut |-> "none", vcom |-> "none"]
    /\ ram24 \in Picture /\ ram26 \in Picture /\ shown \in Picture
    /\ late = FALSE /\ lost = FALSE /\ want = shown /\ seeded = FALSE

Next ==
    \/ ssd1680_init
    \/ Draw
    \/ ssd1680_refresh_full
    \/ \E r \in Rects : ssd1680_refresh_partial(r)
    \/ ssd1680_sleep
    \/ ssd1680_wake
    \/ Restart
    \/ DriverStep
    \/ BusyEnds
    \/ BanksDecay

Spec == Init /\ [][Next]_vars

\* The main task keeps running.  The panel owes nothing: BUSY may stay up.
FairSpec == Spec /\ WF_vars(DriverStep)

-----------------------------------------------------------------------------
(* Properties.                                                             *)

TypeOK ==
    /\ fb \in Picture /\ ram24 \in Picture /\ ram26 \in Picture
    /\ shown \in Picture /\ want \in Picture
    /\ mode \in {"NONE", "FULL", "PARTIAL"}
    /\ panel \in [awake : BOOLEAN, busy : BOOLEAN, config : BOOLEAN,
                  lut : {"none", "full", "partial"}, vcom : {"none", "full", "partial"}]
    /\ {ready, late, lost, seeded} \subseteq BOOLEAN

\* The panel never misses a command unless a wait timed out: every command that
\* makes it busy is waited for, and no call speaks to a sleeping panel before
\* resetting it, after any sequence of calls and restarts.
NoCommandLost == lost => late

\* The banks agree with the panel between calls, and the panel shows what the
\* flushes asked for, to the pixel: s_mode never lets a partial refresh work from a
\* stale base, and the window it drives is the region asked for, on every edge.
PanelShowsFlushed ==
    Idle /\ ready /\ seeded /\ ~late => shown = want /\ ram24 = shown /\ ram26 = shown

\* Every update runs on the waveform and VCOM made for it, on a configured panel.
RightWaveform ==
    [][CommandHeard /\ ~late =>
          /\ Sending("updFull") => panel.config /\ panel.lut = "full" /\ panel.vcom = "full"
          /\ Sending("updPartial") =>
                panel.config /\ panel.lut = "partial" /\ panel.vcom = "partial"]_vars

\* What the comments of ssd1680_refresh_partial claim for every caller: the base
\* bank is in sync with the panel when a differential update starts.
BaselineInSync ==
    [][CommandHeard /\ ~late /\ Sending("updPartial") => ram26 = shown]_vars

Has(op) == \E k \in DOMAIN todo : todo[k].op = op

Phase ==
    IF ~ready THEN "off" ELSE IF Idle THEN "idle"
    ELSE IF Has("updFull") THEN "full" ELSE IF Has("updPartial") THEN "partial" ELSE "busy"

Display == INSTANCE AiDisplay WITH
    SupportsPartial <- TRUE, picture <- fb, goal <- want, phase <- Phase,
    trusted <- seeded /\ ~late /\ ~Has("updFull")

\* Whatever the calls, restarts and overruns, callers that start with a full
\* refresh get from this driver what the Display HAL offers: the image changes in
\* the update of a flush alone, and then to exactly what was asked for.
ImplementsDisplay == Display!Spec

\* A call returns even if BUSY never falls again.
CallReturns == todo # <<>> ~> Idle
=============================================================================
