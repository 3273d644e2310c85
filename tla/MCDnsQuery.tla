----------------------------- MODULE MCDnsQuery -----------------------------
(***************************************************************************)
(* Instances of DnsQuery for TLC.  Every answer repeats the question: one  *)
(* label, a zero, type and class.                                          *)
(***************************************************************************)
EXTENDS DnsQuery

TwoLines == <<"10.0.0.1", "10.0.0.2">>

Label == [k |-> "label"]
Zero == [k |-> "zero"]
To(i) == [k |-> "pointer", to |-> i]
Fixed(type, len) == [k |-> "fixed", type |-> type, len |-> len]
Data(ip) == [k |-> "data", ip |-> ip]
Question == <<Label, Zero, [k |-> "query"]>>
Address(name, ip) == <<To(name), Fixed("A", 1), Data(ip)>>

\* An alias spelled out, then two addresses of the alias: their names point into
\* the data of the first record.
Alias ==
    [answers |-> 3, tokens |-> Question \o <<To(1), Fixed("CNAME", 2), Label, Zero>>
                                        \o Address(6, "x") \o Address(6, "y")]

\* The alias ends with a pointer into the question: the name of its address leads to
\* that pointer.
ChainedAlias ==
    [answers |-> 2, tokens |-> Question \o <<To(1), Fixed("CNAME", 2), Label, To(1)>>
                                        \o Address(6, "x")]

\* The name of the record is a pointer to itself.
Cyclic == [answers |-> 1, tokens |-> Question \o Address(4, "x")]

NoAddress == [answers |-> 0, tokens |-> Question]

SomeAnswers == {Alias, ChainedAlias, Cyclic, NoAddress}
=============================================================================
