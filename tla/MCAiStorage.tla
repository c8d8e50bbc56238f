---------------------------- MODULE MCAiStorage ----------------------------
(* Small strings for AiStorage: one longer than a read returns, one with a *)
(* zero byte in it.                                                        *)
EXTENDS AiStorage

MCDatas == {<<"x", "y", "x">>, <<"y", "nul", "x">>}

MCText == <<"y", "y">>
=============================================================================
