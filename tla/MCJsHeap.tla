------------------------------ MODULE MCJsHeap ------------------------------
(* Small arenas for JsHeap: one string for its memory , three for the      *)
(* order of the table, where one that is like a number has others around.  *)
EXTENDS JsHeap

MCString == {1}
MCChars == {1, 2, 3}
MCNumeric == {2}
=============================================================================
