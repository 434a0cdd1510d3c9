----------------------------- MODULE MCGetData -----------------------------
(* SQLGetData for TLC: a text, a BLOB and a BIT column; a procedure with an *)
(* ordinary output parameter between two streams.                           *)
EXTENDS GetData, TLC

ThreeKinds == <<"text", "blob", "bit">>

Samples == [text |-> {<<>>, <<"n", "n", "n">>, <<"n", "p", "n">>,
                      <<"p", "p">>, Null},
            blob |-> {<<"n", "n", "n">>},
            bit  |-> {<<"n", "n">>}]

Params  == <<"in", "stream", "out", "stream">>
Chunks  == {<<>>, <<"n", "n", "n">>}
=============================================================================
