------------------------------ MODULE MCFormat ------------------------------
(* Formats of up to MaxItems items, for a two-byte long and a one-byte int. *)
EXTENDS Format

MCItems == { <<"a">>, <<" ">>, <<"%", "d">>, <<"%", "l", "d">>, <<"%", "l", "u">>,
             <<"%", "u">>, <<"%", "9", "x">>, <<"%", "p">>, <<"%", "s">>,
             <<"%", "c">> }
MCNumbers == {-32768, -7, 0, 127}
MCTexts == { << >>, <<"b", "%", "d">> }
=============================================================================
