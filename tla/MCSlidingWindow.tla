--------------------------- MODULE MCSlidingWindow ---------------------------
(* Inputs on which TLC checks SlidingWindow.                               *)
EXTENDS SlidingWindow

CONSTANTS c1, c2

\* Lengths 0 to 3 against windows of 1 to 3: the last window full, cut short
\* after one or two packets, or never opened.
MCPayloads == {<<>>, <<1>>, <<1, 2>>, <<1, 2, 1>>}

\* The value that ends the stream appears as data: first, inside, or last.
MCInBandPayloads ==
  {<<>>, <<1, 1, 2>>, <<FIN, 1>>, <<1, FIN, 2>>, <<1, 1, FIN>>}

=============================================================================
