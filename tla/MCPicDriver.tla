---------------------------- MODULE MCPicDriver -----------------------------
(* PicDriver with pins on both chips.                                      *)
EXTENDS PicDriver
MCLines == {0, 1, 8, 12}
====
