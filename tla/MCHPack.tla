------------------------------ MODULE MCHPack -------------------------------
(***************************************************************************)
(* Instances of HPack for TLC.  Three static entries: one with a value,    *)
(* one that is only a name, and one whose name is two words.               *)
(***************************************************************************)
EXTENDS HPack, TLC

Entry(n, v) == [name |-> n, value |-> v]

ThreeStatic == <<
    Entry(<<":method">>, <<"get">>),
    Entry(<<"accept">>, <<>>),
    Entry(<<"accept", "charset">>, <<>>) >>

\* A field in the static table, one with a static name, two with new names, and
\* one whose value is as long as a length that announces a longer one.
PlainFields == {
    Entry(<<":method">>, <<"get">>),
    Entry(<<"accept">>, <<"html">>),
    Entry(<<"x", "id">>, <<"1">>),
    Entry(<<"x", "trace">>, <<"1">>),
    Entry(<<"accept">>, <<"html", "xml", "json">>) }

FrameSymmetry == Permutations(Frames)
=============================================================================
