--------------------------- MODULE MCSocketClient ---------------------------
(***************************************************************************)
(* SocketClient for TLC: a body of five bytes that arrives in three        *)
(* records, the first of which ends with the headers and a byte of it.     *)
(***************************************************************************)
EXTENDS SocketClient

FiveBytes == <<"b1", "b2", "b3", "b4", "b5">>
ThreePieces ==
    <<<<"status", "cr", "lf", "name", "value", "cr", "lf", "cr", "lf", "b1">>,
      <<"b2", "b3">>, <<"b4", "b5">>>>
=============================================================================
