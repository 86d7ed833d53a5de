--------------------------- MODULE MCDisplayWriter ---------------------------
(* Screens of one to three cells each way, with and without pixels to spare, *)
(* and strings that leave the cursor anywhere on them.                     *)
EXTENDS KernelMain

MCScreens ==
  {[w |-> w, h |-> h, stride |-> st, rgb |-> r] :
     w \in {3, 11}, h \in {4, 9, 13}, st \in {11, 12}, r \in BOOLEAN}
MCTexts == {<<>>, <<"a", "a", "newline">>, <<"a">>, <<"b", "newline">>, <<"a", "control", "b">>, <<"newline", "a", "a">>, <<"b", "high">>}
=============================================================================
