------------------------------- MODULE MCHttp -------------------------------
(* Instances of HttpStream for TLC.                                        *)
EXTENDS HttpStream

CONSTANTS f1, f2

\* Two players of one or of two files; openings that overlap.
Seek == [race |-> FALSE, files |-> {f1}]
Apart == [race |-> FALSE, files |-> {f1, f2}]
Race == [race |-> TRUE, files |-> {f1, f2}]

All == {Seek, Apart, Race}
=============================================================================
