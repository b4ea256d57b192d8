---------------------------- MODULE MCS3TPServer -----------------------------
(***************************************************************************)
(* Instances of S3TPServer for TLC.                                        *)
(***************************************************************************)
EXTENDS S3TPServer

Stdin        == [type |-> "STDIN", len |-> 2]
Eof          == [type |-> "ENDOFFILE", len |-> 0]
InputAndEof  == {Stdin, Eof}
InputOnly    == {Stdin}
EofOnly      == {Eof}
Silent       == {}
OneOrTwo     == {1, 2}
OneByte      == {1}

=============================================================================
