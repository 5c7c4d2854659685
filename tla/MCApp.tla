-------------------------------- MODULE MCApp --------------------------------
EXTENDS App

\* Two steps either way, so that a stepper and a link both get past the ends.
MCMinStep == -2
MCMaxStep == 2

\* Zero, on a tie of the grid, between two steps, past its end.
MCTyped == {0, 9625, 10300, 40000}
=============================================================================
