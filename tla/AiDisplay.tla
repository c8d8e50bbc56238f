------------------------------ MODULE AiDisplay -----------------------------
(***************************************************************************)
(* What the Display HAL (components/ai_hal/ai_display.c) gives its callers *)
(* whatever panel is behind it: a flush makes the panel show the           *)
(* framebuffer in the region it names and leaves the rest alone, the image *)
(* changes in a flush and at no other time, and sleep and restarts keep    *)
(* it.  The promise is void (not trusted) from sleep, wakeup, a restart or *)
(* a panel that overran its time until the next full flush is through.     *)
(***************************************************************************)
CONSTANTS
    Cells,           \* the panel's bytes of eight pixels
    Inks,            \* what a cell can hold
    White,           \* the ink of a cleared cell
    SupportsPartial  \* supports_partial and flush_partial of the active driver

VARIABLES
    picture,  \* the driver's framebuffer
    shown,    \* what the panel displays
    goal,     \* what the flushes so far ask for
    phase,    \* "off", "idle", or what a call in progress has still to do
    trusted   \* the panel owes the goal

vars == <<picture, shown, goal, phase, trusted>>

Image == [Cells -> Inks]

-----------------------------------------------------------------------------

ai_display_init ==
    /\ phase = "off"
    /\ picture' = [c \in Cells |-> White]
    /\ phase' = "busy"
    /\ UNCHANGED <<shown, goal, trusted>>

\* The frame a flush is handed, or drawing straight into the driver's own.
Draw ==
    /\ phase = "idle"
    /\ picture' \in Image
    /\ UNCHANGED <<shown, goal, phase, trusted>>

ai_display_flush_full ==
    /\ phase = "idle"
    /\ goal' = picture
    /\ phase' = "full"
    /\ trusted' = FALSE
    /\ UNCHANGED <<picture, shown>>

FlushRegion(cells) ==
    /\ phase = "idle"
    /\ goal' = [c \in Cells |-> IF c \in cells THEN picture[c] ELSE goal[c]]
    /\ phase' \in IF cells = {} THEN {"idle", "busy"} ELSE {"partial"}
    /\ UNCHANGED <<picture, shown, trusted>>

\* A panel without partial refresh gets a full one, and so may one that has
\* nothing to refine.
ai_display_flush_partial(cells) ==
    \/ SupportsPartial /\ FlushRegion(cells)
    \/ (SupportsPartial => ~trusted) /\ ai_display_flush_full

\* ai_display_sleep and ai_display_wakeup: the panel keeps its image.
SleepOrWakeup ==
    /\ phase = "idle"
    /\ phase' = "busy"
    /\ trusted' = FALSE
    /\ UNCHANGED <<picture, shown, goal>>

\* A full refresh drives every cell, and with it the panel can be trusted again.
DriveAll ==
    /\ phase = "full"
    /\ phase' \in {"partial", "busy"}
    /\ shown' \in Image
    /\ trusted' => shown' = goal
    /\ UNCHANGED <<picture, goal>>

\* A partial refresh of a panel that can be trusted reaches the goal exactly.
DriveRegion ==
    /\ phase = "partial"
    /\ phase' = "busy"
    /\ shown' \in Image
    /\ trusted => shown' = goal
    /\ UNCHANGED <<picture, goal, trusted>>

\* The driver gave up waiting for the panel.
Overrun ==
    /\ phase \in {"full", "partial", "busy"}
    /\ trusted' = FALSE
    /\ UNCHANGED <<picture, shown, goal, phase>>

Return ==
    /\ phase = "busy"
    /\ phase' = "idle"
    /\ trusted' \in {trusted, FALSE}
    /\ UNCHANGED <<picture, shown, goal>>

Restart ==
    /\ phase' = "off"
    /\ trusted' = FALSE
    /\ UNCHANGED <<picture, shown, goal>>

-----------------------------------------------------------------------------

Init ==
    /\ picture = [c \in Cells |-> White]
    /\ shown \in Image
    /\ goal = shown
    /\ phase = "off"
    /\ trusted = FALSE

Next ==
    \/ ai_display_init
    \/ Draw
    \/ ai_display_flush_full
    \/ \E cells \in SUBSET Cells : ai_display_flush_partial(cells)
    \/ SleepOrWakeup
    \/ DriveAll
    \/ DriveRegion
    \/ Overrun
    \/ Return
    \/ Restart

Spec == Init /\ [][Next]_vars
=============================================================================
