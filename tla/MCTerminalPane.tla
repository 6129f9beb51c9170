--------------------------- MODULE MCTerminalPane ---------------------------
(* A pane that fits the largest terminal but for a row, or a larger one;   *)
(* other clients ask for sizes up to one or two above the clamps.          *)
EXTENDS TerminalPane
MCContainers == {Size(2, 2), Size(3, 3)}
=============================================================================
