----------------------------- MODULE JsonValues -----------------------------
(***************************************************************************)
(* The values of fwoop::JsonArray and JsonObject: a value is a leaf, which *)
(* is its token, an array, or an object with its members in the order of   *)
(* their insertion.                                                        *)
(***************************************************************************)
Empty == "empty string"
Other == "another number"
Long == "a fraction of 256 bytes or more"

Leaf(t) == [kind |-> "leaf", token |-> t]
Array(items) == [kind |-> "array", items |-> items]
Object(members) == [kind |-> "object", members |-> members]
=============================================================================
