--------------------------- MODULE MCInputControl ---------------------------
(* A small instance of InputControl for TLC.                               *)
EXTENDS InputControl

CONSTANTS shift, left_button

TwoInputs == {shift, left_button}

(* Single inputs, a chord of two, and one input named twice.               *)
SomeChords == {<<shift>>, <<left_button>>, <<shift, left_button>>, <<shift, shift>>}
=============================================================================
