------------------------------ MODULE MC_Scanf ------------------------------
(***************************************************************************)
(* Calls of sscanf: for each family of formats, every string up to a       *)
(* length over the characters that family tells apart.                     *)
(***************************************************************************)
EXTENDS Scanf

Strings(cs, n) == UNION {[1..k -> cs] : k \in 0..n}
Family(cs, n, fmts) == Strings(cs, n) \X fmts

(* LongMax = 127: three digits reach over both ends of the range.          *)
Decimals == Family({"-", "+", "1", "2", "7", "8", " "}, 4,
                   {<<"%", "d">>, <<"%", "l", "u">>, <<"%", "d", "%", "i">>})
Bases == Family({"-", "0", "x", "7", "8", "F"}, 4,
                {<<"%", "i">>, <<"%", "x">>, <<"%", "h", "h", "o">>, <<"%", "X", "%", "c">>})
Floats == Family({"-", "1", "9", ".", "e"}, 5, {<<"%", "l", "f">>, <<"%", "g">>})
            \cup {<<w \o t, <<"%", "e", "%", "c">>>> :
                    w \in {<<"I", "n", "f">>, <<"-", "i", "N", "F", "i", "n", "i", "t">>,
                           <<"i", "n">>, <<"+", "N", "a", "n">>, <<"i">>, <<"n", "a">>},
                    t \in Strings({"y", "i", "0"}, 2)}
Words == Family({"a", "b", " ", "%"}, 4,
                {<<"%", "s", "%", "s">>, <<"%", "2", "s", "%", "c">>,
                 <<"%", "1", "s", " ", "%", "s">>, <<"%", "*", "s", "%", "%", "%", "c">>,
                 <<"a", "%", "c", " ", "%", "s">>, <<"a", " ", "b">>, <<" ", "%", "%">>})
Sets == Family({"a", "b", "-", "]"}, 4,
               {<<"%", "[", "a", "-", "c", "]", "%", "c">>, <<"%", "2", "[", "^", "]", "b", "]", "%", "s">>,
                <<"%", "[", "]", "a", "-", "]", "%", "[", "-", "b", "]">>,
                <<"%", "*", "[", "^", "-", "]", "%", "1", "[", "-", "]", "%", "c">>})
Oddities == Family({"1", " "}, 2,
                   {<<>>, <<"%">>, <<"%", "*">>, <<"%", "1", "2">>, <<"%", "l">>, <<"%", "h", "l">>,
                    <<"%", "[">>, <<"%", "[", "]">>, <<"%", "[", "^", "a">>, <<"%", "k", "%", "d">>,
                    <<"%", "*", "d", "%", "d">>, <<"%", "*", "d">>, <<"1", "%", "*", "c">>})

MCCases == Decimals \cup Bases \cup Floats \cup Words \cup Sets \cup Oddities
=============================================================================
