------------------------- MODULE MCHttp2Connection --------------------------
(***************************************************************************)
(* Instances of Http2Connection for TLC.  One client sends settings, a     *)
(* window update and the acknowledgement of the server's settings; others  *)
(* send settings with an unknown and a repeated parameter, settings with   *)
(* half a parameter at the end, less than a parameter, and a request of    *)
(* their own.  A value of two cells has a high half.                       *)
(***************************************************************************)
EXTENDS Http2Connection

Frame(type, payload) == [type |-> type, payload |-> payload]

FiveClients == {
    << Frame("Settings", <<4, 1, 9, 1, 0, 7>>), Frame("WindowUpdate", <<5>>),
       Frame("Settings", <<>>) >>,
    << Frame("Settings", <<2, 0, 1, 9, 0, 5, 2, 0, 2>>), Frame("Settings", <<>>) >>,
    << Frame("Settings", <<2, 1, 0, 3>>), Frame("WindowUpdate", <<5>>) >>,
    << Frame("Settings", <<3, 0>>) >>,
    << Frame("Settings", <<3, 0, 8>>), Frame("Headers", <<6>>) >> }
=============================================================================
