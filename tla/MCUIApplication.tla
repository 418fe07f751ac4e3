--------------------------- MODULE MCUIApplication ---------------------------
(* Instances of UIApplication for TLC: a panel with a button in it, and an    *)
(* input box.                                                                 *)
EXTENDS UIApplication, TLC

CONSTANTS panel, button, box

Boxes == [w \in Widget |-> IF w = panel THEN {panel, button} ELSE {w}]

KeyC == [type |-> "key"]
OtherKey == [type |-> "unknown"]
Keys == {KeyC}
Mouse == [type : {"mouse"}, place : Widget \cup {NoWidget}, press : BOOLEAN]
Inputs == Keys \cup Mouse
==============================================================================
