---------------------------- MODULE MCFileStreams ----------------------------
(* Instances of FileStreams for TLC: files of a few bytes of two values.      *)
EXTENDS FileStreams, TLC

CONSTANTS a, nl

SmallDisks == {<<>>, <<nl, a>>}
SmallWrites == {<<a>>, <<a, a, nl>>}
SomeSeeks == {<<0, "Beg">>, <<0, "Cur">>, <<-1, "End">>, <<1, "End">>}
OpenModes == {{"Read"}, {"Read", "Write"}, {"Read", "Write", "App"}, {"Read", "Write", "Trunc"}}
==============================================================================
