------------------------------- MODULE Values -------------------------------
(***************************************************************************)
(* The library's values, one behaviour about one of them: either a         *)
(* document that is decoded and encoded (Json) beside a DateTime that is   *)
(* left alone, or a DateTime and the calls it gets, without a document.    *)
(***************************************************************************)
EXTENDS DateTime, JsonValues

CONSTANTS Documents, Strings       \* of Json

VARIABLES document, round, index, stack, pc, decoded, buffers

documentVars == <<document, round, index, stack, pc, decoded, buffers>>

JSON == INSTANCE Json

ASSUME DocumentsAssumption == JSON!JsonAssumption

DocumentInit ==
    /\ JSON!Init
    /\ start = (CHOOSE s \in Starts : TRUE) /\ d_tz = "UTC" /\ d_tzOffset = 0 /\ d_isDST = FALSE
    /\ Init

InstantInit ==
    /\ Init
    /\ document = [text |-> <<>>, value |-> Object(<<>>)]
    /\ round = 1 /\ index = 1 /\ stack = <<>> /\ pc = "none"
    /\ decoded = Object(<<>>) /\ buffers = <<>>

DocumentNext == pc # "none" /\ JSON!Next /\ UNCHANGED vars
InstantNext == pc = "none" /\ Next /\ UNCHANGED documentVars

ValuesSpec == (DocumentInit \/ InstantInit) /\ [][DocumentNext \/ InstantNext]_<<vars, documentVars>>

-----------------------------------------------------------------------------
\* The types of the documents' part (JsonObject, JsonArray).
DocumentTypeOK == pc # "none" => JSON!TypeOK
=============================================================================
