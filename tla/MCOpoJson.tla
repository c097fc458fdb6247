------------------------------ MODULE MCOpoJson -----------------------------
(* Short texts, and values two levels deep, for OpoJson, with two decimal digits *)
(* in a float, seven bits in a double and nine in an int.                        *)
EXTENDS OpoJson, TLC

MCDenotes ==
    [d \in {"1", "1.5", "12", "128", "129", "6e+02"} |->
        CASE d = "1" -> 10 [] d = "1.5" -> 15 [] d = "12" -> 120
          [] d = "128" -> 1280 [] d = "129" -> 1290 [] d = "6e+02" -> 6000]

Short(n) ==
    {t \in UNION {[1 .. k -> (Signs \ {"false"}) \cup {"1"}] : k \in 0 .. n} :
        \A i \in 2 .. Len(t) : ~ (t[i - 1] = "1" /\ t[i] = "1")}

\* 1, -1, 1.5, 128 and 600.0, which survive, and 1.0, 12.3, -12.3 and 129, which do not
Int1 == <<"int", 10>>
Numbers ==
    ({"int"} \X {10, -10, 1280, 1290}) \cup ({"flt"} \X {15, 6000, 10, 123, -123})

Strings == {<<>>, <<Comma, "]", Space>>}
Leaves ==
    {<<"str", s>> : s \in Strings} \cup {<<"word", w>> : w \in Words}
    \cup Numbers \cup {<<"str", <<Other>>>>}

Keys == {<<"str", <<Other>>>>, Int1}

\* arrays and maps of up to two elements of S
Arrays(S) == {<<"arr", s>> : s \in UNION {[1 .. n -> S] : n \in 0 .. 2}}
Maps(S) ==
    {<<"map", <<>>>>} \cup {<<"map", <<<<k, v>>>>>> : k \in Keys, v \in S}
    \cup {<<"map", <<<<k[1], v>>, <<k[2], w>>>>>> :
            k \in {p \in Keys \X Keys : p[1] # p[2]}, v \in S, w \in S}

Some == {<<"str", <<>>>>, Int1, <<"word", "null">>}
Flat == Arrays(Leaves) \cup Maps(Leaves)
Deep == Arrays(Some \cup Arrays(Some)) \cup Maps(Some \cup Maps({<<"word", "true">>}))
MCValues == Leaves \cup Flat \cup Deep

MCTexts == Short(4)
=============================================================================
