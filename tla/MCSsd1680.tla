----------------------------- MODULE MCSsd1680 -----------------------------
(* Ssd1680 on a panel of ten by one pixels: two cells, the second cut short as *)
(* the last byte column of the board's 122 pixels is. *)
EXTENDS Ssd1680

Rect(x, y, w, h) == [x |-> x, y |-> y, w |-> w, h |-> h]

\* Inside the first cell, across both, the last pixel, over every edge, in the
\* padding of the last cell, and off the panel.
MCRects == {Rect(6, 0, 2, 1), Rect(7, 0, 2, 1), Rect(9, -1, 1, 2), Rect(-3, 0, 4, 3),
            Rect(10, 0, 3, 1), Rect(0, 1, 8, 1), Rect(16, 0, 8, 1)}
=============================================================================
