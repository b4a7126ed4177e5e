---------------------------- MODULE MCRotatingFile ----------------------------
(* Values for RotatingFile's constants.                                      *)
EXTENDS RotatingFile

(* Two of the first fit in a file of maxBytes = 3, and none of the third.    *)
MCTexts == {<<1, 1>>, <<2, 2>>, <<4, 4>>}

(* One character that the encoding writes as two bytes.                      *)
WideTexts == {<<1, 2>>}
==============================================================================
