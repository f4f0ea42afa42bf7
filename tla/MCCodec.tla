------------------------------ MODULE MCCodec ------------------------------
(***************************************************************************)
(* Inputs at the boundaries of each conversion.                            *)
(***************************************************************************)
EXTENDS Codec

Names(A, n) == UNION {[1 .. k -> A] : k \in 1 .. n}
MCPatterns == Names({"a", ".", "*", ">"}, 5)
MCSubjects == Names({"a", "b", "."}, 5)

MCRedisTexts == {R!Empty, R!Text("x"), R!Numeral(3, "int")}
MCRedisInts  == -1 .. 2

MCLuaValues ==
    {<<"nil", 0>>} \cup {<<"boolean", b>> : b \in BOOLEAN} \cup {<<"integer", n>> : n \in -2 .. 2}
    \cup {<<"number", d>> : d \in -21 .. 21}
    \cup {<<"string", s>> : s \in {P!Chars(""), P!Chars("t"), P!Integral(1), P!Fixed(1500000)}}

\* Words whose bytes are high, then one byte at a boundary, then low.
Words == {M!Fill(k, h) \o <<b>> \o M!Fill(7 - k, l) :
             k \in 0 .. 7, h \in {0, 255}, b \in {0, 1, 32, 127, 128, 223, 224, 225, 255}, l \in {0, 255}}

Seven  == M!Fill(7, 0) \o <<7>>
X(n)   == M!Fill(n, 120)
Frac   == <<"frac", <<31, 133, 235, 81, 184, 30, 9, 64>>>>
Key(i) == <<100, i>>

NativeValues ==
    UNION {{<<<<"int", n>>, w>> : w \in {x \in Words : M!FitsSigned(x, n)}} : n \in {1, 2, 4, 8}}
    \cup UNION {{<<<<"uint", n>>, w>> : w \in {x \in Words : M!FitsUnsigned(x, n)}} : n \in {1, 2, 4, 8}}
    \cup {<<<<"double">>, <<"whole", Seven>>>>, <<<<"double">>, Frac>>, <<<<"nil">>, 0>>,
          <<<<"float">>, <<"frac", <<195, 245, 72, 64>>>>>>, <<<<"float">>, <<"whole", Minus32>>>>}
    \cup {<<<<"bool">>, b>> : b \in BOOLEAN}
    \cup {<<<<"string">>, X(n)>> : n \in {0, 31, 32, 255, 256}}
    \cup {<<<<"bin">>, X(n)>> : n \in {0, 254, 255, 256}}
    \cup {<<<<"vector", <<"int", 2>>>>, M!Fill(n, Seven)>> : n \in {0, 1, 15, 16, 17}}
    \cup {<<<<"vector", <<"vector", <<"string">>>>>>, <<<<X(1)>>, <<>>, M!Fill(n, X(2))>>>> : n \in {15, 16}}
    \cup {<<<<"map", <<"string">>, <<"int", 4>>>>, [i \in 1 .. n |-> <<Key(i), Minus32>>]>> : n \in {0, 1, 15, 16}}

MCNativeArgs == {<<<<x[1], <<"int", 8>>>>, <<x[2], Seven>>>> : x \in NativeValues}

Integer(w) == <<"integer", w>>
LuaScalars ==
    {<<"nil", 0>>, <<"number", Frac>>, <<"number", <<"whole", Seven>>>>}
    \cup {<<"boolean", b>> : b \in BOOLEAN}
    \cup {Integer(w) : w \in Words} \cup {<<"string", X(n)>> : n \in {0, 31, 32, 255, 256}}
LuaTables ==
    {<<"table", [i \in 1 .. n |-> <<Integer(M!ZeroFill(<<i>>)), <<"boolean", TRUE>>>>]>> : n \in {0, 1, 16, 20}}
    \cup {<<"table", <<<<<<"string", X(1)>>, x>>>>>> :
            x \in {Integer(Minus32), <<"string", X(256)>>, <<"number", Frac>>, <<"table", <<>>>>}}

MCLuaArgs == {<<x, Integer(Seven)>> : x \in LuaScalars \cup LuaTables}

MCPayloads == {[i \in 1 .. n |-> <<"byte", i>>] : n \in 0 .. 5}
=============================================================================
