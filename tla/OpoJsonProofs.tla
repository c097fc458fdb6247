--------------------------- MODULE OpoJsonProofs ----------------------------
(***************************************************************************)
(* The theorem on OpoJson, for all values: what json_stringify has written *)
(* of a value whose numbers survive, json_parse reads as that value.       *)
(*                                                                         *)
(* Neither the writer nor the reader has a grammar, so the argument needs  *)
(* one.  A layout is a set of places <<p, v, q>>, which say that value v   *)
(* stands in the text from p up to q, each of them justified by the text   *)
(* and by the places of the parts of v.  The writer builds a layout from   *)
(* the inside outwards, and leaves one with a place for the value it was   *)
(* given.  The reader goes through it from the outside inwards: each of    *)
(* its calls under way stands for a place, and what it has read so far is  *)
(* a part of the value of that place (Reads).                              *)
(***************************************************************************)
EXTENDS OpoJson, SequenceTheorems, TLAPS

CharAt(t, p) == IF p <= Len(t) THEN t[p] ELSE End

\* there is white space from p up to b, and something else at b
Skips(t, p, b) ==
    /\ p \in Nat \ {0} /\ b \in Nat /\ p <= b /\ b <= Len(t) + 1
    /\ \A r \in p .. b - 1 : t[r] = Space
    /\ CharAt(t, b) # Space

\* the first character from p on is c, and q is behind it
Token(t, p, c, q) == Skips(t, p, q - 1) /\ q \in Nat /\ q - 1 <= Len(t) /\ t[q - 1] = c

\* the leaf v is spelled at b and ends in front of q, and is no number that changes
Spelled(t, b, v, q) ==
    /\ b \in Nat \ {0} /\ q = b + Len(Spelling(v)) /\ q <= Len(t) + 1
    /\ \A i \in 1 .. Len(Spelling(v)) : t[b + i - 1] = Spelling(v)[i]
    /\ Survives(v)

LeafAt(t, p, v, q) == \E b \in Nat : Skips(t, p, b) /\ Spelled(t, b, v, q)

Opening(v) == IF v[1] = "arr" THEN "[" ELSE LeftBrace
Closed(v) == IF v[1] = "arr" THEN "]" ELSE RightBrace

\* item i of v, with its key, stands from s up to y
ItemAt(t, L, v, i, s, y) ==
    IF v[1] = "arr" THEN <<s, v[2][i], y>> \in L
    ELSE \E a, b \in Nat : /\ <<s, v[2][i][1], a>> \in L
                           /\ Token(t, a, ":", b)
                           /\ <<b, v[2][i][2], y>> \in L

\* from x on there is what is in front of item i, and s is behind it
Ahead(t, x, i, s) == IF i = 1 THEN s = x ELSE Token(t, x, Comma, s)

Entry(t, L, v, i, x, y) ==
    x \in Nat /\ y \in Nat /\ \E s \in Nat : Ahead(t, x, i, s) /\ ItemAt(t, L, v, i, s, y)

\* the opening bracket of v stands at p, and its first i items up to x
Prefix(t, L, v, i, p, x) ==
    \E m \in [0 .. i -> Nat] :
        /\ Token(t, p, Opening(v), m[0])
        /\ \A j \in 1 .. i : Entry(t, L, v, j, m[j - 1], m[j])
        /\ m[i] = x

\* behind its first i items, from x up to q, stands the rest of v
Rest(t, L, v, i, x, q) ==
    \E m \in [i .. Len(v[2]) -> Nat] :
        /\ m[i] = x
        /\ \A j \in i + 1 .. Len(v[2]) : Entry(t, L, v, j, m[j - 1], m[j])
        /\ Token(t, m[Len(v[2])], Closed(v), q)

Bracketed(t, L, p, v, q) ==
    \E x \in Nat : Token(t, p, Opening(v), x) /\ Rest(t, L, v, 0, x, q)

Composite(v) == v[1] \in {"arr", "map"}

Justified(t, L, p, v, q) ==
    \/ Leaf(v) /\ LeafAt(t, p, v, q)
    \/ Composite(v) /\ Bracketed(t, L, p, v, q)

Layout(t, L) ==
    /\ L \subseteq Nat \X Values \X Nat
    /\ \A p, v, q : <<p, v, q>> \in L => Justified(t, L, p, v, q)

-----------------------------------------------------------------------------
(* Values *)

IsNumber(v) == v[1] \in {"int", "flt"}

LEMMA LeafKinds ==
    ASSUME NEW v, Leaf(v)
    PROVE  /\ v[1] = "word" \/ IsNumber(v) \/ v[1] = "str"
           /\ v[1] = "word" => v \in {"word"} \X Words
           /\ IsNumber(v) => Numeral(v) /\ v[2] \in Int
           /\ v[1] = "str" => v \in {"str"} \X Seq(Characters \ {Quote})
           /\ ~Composite(v)
<1>1. CASE v \in {"word"} \X Words
  BY <1>1 DEF IsNumber, Composite
<1>2. CASE Numeral(v)
  <2>1. v \in {"int"} \X Int \/ v \in {"flt"} \X Int
    BY <1>2 DEF Numeral
  <2> QED
    BY <1>2, <2>1 DEF IsNumber, Composite
<1>3. CASE v \in {"str"} \X Seq(Characters \ {Quote})
  BY <1>3 DEF IsNumber, Composite
<1> QED
  BY <1>1, <1>2, <1>3 DEF Leaf

LEMMA Kinds ==
    ASSUME NEW v \in Values
    PROVE  /\ v # <<>>
           /\ \/ Leaf(v) /\ (v[1] = "word" \/ IsNumber(v) \/ v[1] = "str")
              \/ v[1] = "arr" /\ Array(v) /\ Len(v[2]) <= MaxItems
              \/ v[1] = "map" /\ Map(v) /\ Len(v[2]) <= MaxItems
<1>1. Leaf(v) \/ ((Array(v) \/ Map(v)) /\ Len(v[2]) <= MaxItems)
  BY JsonAssumption
<1>2. CASE Leaf(v)
  <2>1. v # <<>>
    BY <1>2 DEF Leaf, Numeral
  <2> QED
    BY <1>2, <2>1, LeafKinds
<1>3. CASE (Array(v) \/ Map(v)) /\ Len(v[2]) <= MaxItems
  BY <1>3 DEF Array, Map
<1> QED
  BY <1>1, <1>2, <1>3

LEMMA SpellingIs ==
    ASSUME NEW v
    PROVE  /\ v[1] = "word" => Spelling(v) = <<v[2]>>
           /\ IsNumber(v) => Spelling(v) = IF v[2] < 0 THEN <<"-", NumeralOf(v)>>
                                           ELSE <<NumeralOf(v)>>
           /\ v[1] = "str" => Spelling(v) = <<Quote>> \o v[2] \o <<Quote>>
<1>1. /\ "word" \notin {"int", "flt"} /\ "word" # "str" /\ "str" \notin {"int", "flt"}
  OBVIOUS
<1> QED
  BY <1>1, Zenon DEF Spelling, IsNumber

\* The numeral of a number that can be written.
LEMMA NumeralIs ==
    ASSUME NEW v, Numeral(v)
    PROVE  NumeralOf(v) \in Digits /\ Denotes[NumeralOf(v)] = Printed(v)
BY Zenon DEF Numeral, NumeralOf

LEMMA CompositeIs ==
    ASSUME NEW v \in Values, Composite(v)
    PROVE  /\ Len(v[2]) \in Nat /\ Len(v[2]) <= MaxItems
           /\ v[1] = "arr" => v[2] \in Seq(Values)
           /\ v[1] = "map" => v[2] \in Seq(Values \X Values)
           /\ v = <<v[1], v[2]>>
BY Kinds, LeafKinds DEF Composite, Array, Map

-----------------------------------------------------------------------------
(* Texts that grow *)

LEMMA Appended ==
    ASSUME NEW t \in Seq(Characters), NEW u \in Seq(Characters)
    PROVE  /\ t \o u \in Seq(Characters)
           /\ Len(t \o u) = Len(t) + Len(u) /\ Len(t) \in Nat /\ Len(u) \in Nat
           /\ \A i \in 1 .. Len(t) : (t \o u)[i] = t[i]
           /\ \A i \in 1 .. Len(u) : (t \o u)[Len(t) + i] = u[i]
OBVIOUS

LEMMA SkipsStays ==
    ASSUME NEW t \in Seq(Characters), NEW u \in Seq(Characters), NEW p, NEW b,
           Skips(t, p, b), b <= Len(t)
    PROVE  Skips(t \o u, p, b)
<1>1. Len(t) \in Nat /\ Len(u) \in Nat /\ Len(t \o u) = Len(t) + Len(u)
  BY Appended
<1>2. /\ p \in Nat \ {0} /\ b \in Nat /\ p <= b
      /\ \A r \in p .. b - 1 : t[r] = Space
      /\ t[b] # Space
  BY DEF Skips, CharAt
<1>3. \A r \in p .. b : r \in 1 .. Len(t)
  BY <1>1, <1>2
<1>4. \A r \in p .. b : (t \o u)[r] = t[r]
  BY <1>3, Appended
<1>5. \A r \in p .. b - 1 : (t \o u)[r] = Space
  BY <1>2, <1>4
<1>6. CharAt(t \o u, b) # Space
  BY <1>1, <1>2, <1>4 DEF CharAt
<1> QED
  BY <1>1, <1>2, <1>5, <1>6 DEF Skips

LEMMA TokenStays ==
    ASSUME NEW t \in Seq(Characters), NEW u \in Seq(Characters), NEW p, NEW c, NEW q,
           Token(t, p, c, q)
    PROVE  Token(t \o u, p, c, q)
<1>1. q - 1 \in 1 .. Len(t)
  BY Appended DEF Token, Skips
<1>2. Skips(t \o u, p, q - 1)
  BY <1>1, SkipsStays DEF Token
<1> QED
  BY <1>1, <1>2, Appended DEF Token

LEMMA LeafStays ==
    ASSUME NEW t \in Seq(Characters), NEW u \in Seq(Characters), NEW p, NEW v, NEW q,
           Len(Spelling(v)) \in Nat \ {0}, LeafAt(t, p, v, q)
    PROVE  LeafAt(t \o u, p, v, q)
<1>1. PICK b \in Nat : Skips(t, p, b) /\ Spelled(t, b, v, q)
  BY DEF LeafAt
<1>2. b <= Len(t)
  BY <1>1, Appended DEF Spelled
<1>3. Skips(t \o u, p, b)
  BY <1>1, <1>2, SkipsStays
<1>4. \A i \in 1 .. Len(Spelling(v)) : b + i - 1 \in 1 .. Len(t)
  BY <1>1, Appended DEF Spelled
<1>5. Spelled(t \o u, b, v, q)
  BY <1>1, <1>4, Appended DEF Spelled
<1> QED
  BY <1>3, <1>5 DEF LeafAt

LEMMA EntryStays ==
    ASSUME NEW t \in Seq(Characters), NEW u \in Seq(Characters), NEW L, NEW M, L \subseteq M,
           NEW v, NEW i, NEW x, NEW y, Entry(t, L, v, i, x, y)
    PROVE  Entry(t \o u, M, v, i, x, y)
<1>1. PICK s \in Nat : Ahead(t, x, i, s) /\ ItemAt(t, L, v, i, s, y)
  BY DEF Entry
<1>2. Ahead(t \o u, x, i, s)
  BY <1>1, TokenStays DEF Ahead
<1>3. ItemAt(t \o u, M, v, i, s, y)
  <2>1. CASE v[1] = "arr"
    BY <1>1, <2>1 DEF ItemAt
  <2>2. CASE v[1] # "arr"
    <3>1. PICK a, b \in Nat : /\ <<s, v[2][i][1], a>> \in L
                              /\ Token(t, a, ":", b)
                              /\ <<b, v[2][i][2], y>> \in L
      BY <1>1, <2>2 DEF ItemAt
    <3> QED
      BY <2>2, <3>1, TokenStays DEF ItemAt
  <2> QED
    BY <2>1, <2>2
<1> QED
  BY <1>2, <1>3 DEF Entry

LEMMA PrefixStays ==
    ASSUME NEW t \in Seq(Characters), NEW u \in Seq(Characters), NEW L, NEW M, L \subseteq M,
           NEW v, NEW i, NEW p, NEW x, Prefix(t, L, v, i, p, x)
    PROVE  Prefix(t \o u, M, v, i, p, x)
<1>1. PICK m \in [0 .. i -> Nat] :
            /\ Token(t, p, Opening(v), m[0])
            /\ \A j \in 1 .. i : Entry(t, L, v, j, m[j - 1], m[j])
            /\ m[i] = x
  BY DEF Prefix
<1>2. Token(t \o u, p, Opening(v), m[0])
  BY <1>1, TokenStays
<1>3. \A j \in 1 .. i : Entry(t \o u, M, v, j, m[j - 1], m[j])
  BY <1>1, EntryStays
<1> QED
  BY <1>1, <1>2, <1>3 DEF Prefix

LEMMA RestStays ==
    ASSUME NEW t \in Seq(Characters), NEW u \in Seq(Characters), NEW L, NEW M, L \subseteq M,
           NEW v, NEW i, NEW x, NEW q, Rest(t, L, v, i, x, q)
    PROVE  Rest(t \o u, M, v, i, x, q)
<1>1. PICK m \in [i .. Len(v[2]) -> Nat] :
            /\ m[i] = x
            /\ \A j \in i + 1 .. Len(v[2]) : Entry(t, L, v, j, m[j - 1], m[j])
            /\ Token(t, m[Len(v[2])], Closed(v), q)
  BY DEF Rest
<1>2. Token(t \o u, m[Len(v[2])], Closed(v), q)
  BY <1>1, TokenStays
<1>3. \A j \in i + 1 .. Len(v[2]) : Entry(t \o u, M, v, j, m[j - 1], m[j])
  BY <1>1, EntryStays
<1> QED
  BY <1>1, <1>2, <1>3 DEF Rest

LEMMA ShortSeqs ==
    ASSUME NEW S, NEW a \in S, NEW b \in S
    PROVE  /\ <<a>> \in Seq(S) /\ Len(<<a>>) = 1 /\ <<a>>[1] = a
           /\ <<a, b>> \in Seq(S) /\ Len(<<a, b>>) = 2
           /\ <<a, b>>[1] = a /\ <<a, b>>[2] = b
OBVIOUS

LEMMA SpellingLength ==
    ASSUME NEW v, Leaf(v)
    PROVE  Spelling(v) \in Seq(Characters) /\ Len(Spelling(v)) \in Nat \ {0}
<1>1. CASE v[1] = "word"
  <2>1. v[2] \in Characters
    BY <1>1, LeafKinds DEF Characters, Signs
  <2>2. Spelling(v) = <<v[2]>>
    BY <1>1, SpellingIs
  <2> QED
    BY <2>1, <2>2
<1>2. CASE IsNumber(v)
  <2> DEFINE d == NumeralOf(v)
             minus == "-"
  <2>1. d \in Characters /\ minus \in Characters
    BY <1>2, LeafKinds, NumeralIs DEF Characters, Signs
  <2>2. Spelling(v) = <<d>> \/ Spelling(v) = <<minus, d>>
    BY <1>2, SpellingIs
  <2> HIDE DEF d, minus
  <2> DEFINE one == <<d>>
             two == <<minus, d>>
  <2>3. one \in Seq(Characters) /\ Len(one) = 1
    BY <2>1, ShortSeqs
  <2>4. two \in Seq(Characters) /\ Len(two) = 2
    BY <2>1, ShortSeqs
  <2>5. Spelling(v) = one \/ Spelling(v) = two
    BY <2>2
  <2> HIDE DEF one, two
  <2>6. 1 \in Nat \ {0} /\ 2 \in Nat \ {0}
    OBVIOUS
  <2> QED
    BY <2>3, <2>4, <2>5, <2>6, Zenon
<1>3. CASE v[1] = "str"
  <2>1. v[2] \in Seq(Characters)
    BY <1>3, LeafKinds
  <2>2. Quote \in Characters
    BY DEF Characters, Signs
  <2>3. Spelling(v) = <<Quote>> \o v[2] \o <<Quote>>
    BY <1>3, SpellingIs
  <2> QED
    BY <2>1, <2>2, <2>3
<1> QED
  BY <1>1, <1>2, <1>3, LeafKinds

LEMMA JustifiedStays ==
    ASSUME NEW t \in Seq(Characters), NEW u \in Seq(Characters), NEW L, NEW M, L \subseteq M,
           NEW p, NEW v, NEW q, Justified(t, L, p, v, q)
    PROVE  Justified(t \o u, M, p, v, q)
<1>1. CASE Leaf(v) /\ LeafAt(t, p, v, q)
  BY <1>1, LeafStays, SpellingLength DEF Justified
<1>2. CASE Composite(v) /\ Bracketed(t, L, p, v, q)
  <2>1. PICK x \in Nat : Token(t, p, Opening(v), x) /\ Rest(t, L, v, 0, x, q)
    BY <1>2 DEF Bracketed
  <2>2. Token(t \o u, p, Opening(v), x) /\ Rest(t \o u, M, v, 0, x, q)
    BY <2>1, TokenStays, RestStays
  <2> QED
    BY <1>2, <2>2 DEF Bracketed, Justified
<1> QED
  BY <1>1, <1>2 DEF Justified

LEMMA LayoutStays ==
    ASSUME NEW t \in Seq(Characters), NEW u \in Seq(Characters), NEW L, Layout(t, L)
    PROVE  Layout(t \o u, L)
<1>1. \A p, v, q : <<p, v, q>> \in L => Justified(t \o u, L, p, v, q)
  BY JustifiedStays DEF Layout
<1> QED
  BY <1>1 DEF Layout

LEMMA LayoutAdd ==
    ASSUME NEW t \in Seq(Characters), NEW L, Layout(t, L),
           NEW p \in Nat, NEW v \in Values, NEW q \in Nat, Justified(t, L, p, v, q)
    PROVE  Layout(t, L \cup {<<p, v, q>>})
<1> DEFINE M == L \cup {<<p, v, q>>}
<1>1. <<>> \in Seq(Characters) /\ t \o <<>> = t
  OBVIOUS
<1>2. ASSUME NEW a, NEW w, NEW b, <<a, w, b>> \in M
      PROVE  Justified(t, L, a, w, b)
  <2>1. CASE <<a, w, b>> \in L
    BY <2>1 DEF Layout
  <2>2. CASE <<a, w, b>> = <<p, v, q>>
    BY <2>2
  <2> QED
    BY <1>2, <2>1, <2>2
<1>3. \A a, w, b : <<a, w, b>> \in M => Justified(t, M, a, w, b)
  <2> SUFFICES ASSUME NEW a, NEW w, NEW b, <<a, w, b>> \in M
               PROVE  Justified(t, M, a, w, b)
    OBVIOUS
  <2>1. Justified(t, L, a, w, b) /\ L \subseteq M
    BY <1>2
  <2>2. Justified(t \o <<>>, M, a, w, b)
    BY <1>1, <2>1, JustifiedStays
  <2> QED
    BY <1>1, <2>2
<1>4. M \subseteq Nat \X Values \X Nat
  BY DEF Layout
<1> QED
  BY <1>3, <1>4 DEF Layout

-----------------------------------------------------------------------------
(* The writer builds a layout *)

\* What is in front of every token is white space, or nothing.
LEMMA GapSkipped ==
    ASSUME NEW t \in Seq(Characters), NEW g \in {<<>>, <<Space>>},
           NEW w \in Seq(Characters), Len(w) \in Nat \ {0}, w[1] # Space
    PROVE  /\ t \o g \o w \in Seq(Characters)
           /\ Len(t \o g \o w) = Len(t) + Len(g) + Len(w)
           /\ Len(t) \in Nat /\ Len(g) \in Nat
           /\ Skips(t \o g \o w, Len(t) + 1, Len(t) + Len(g) + 1)
           /\ \A i \in 1 .. Len(w) : (t \o g \o w)[Len(t) + Len(g) + i] = w[i]
<1> DEFINE u == t \o g
           x == u \o w
<1>1. Space \in Characters
  BY DEF Characters, Signs
<1>2. g \in Seq(Characters) /\ \A i \in 1 .. Len(g) : g[i] = Space
  <2>1. CASE g = <<>>
    BY <2>1
  <2>2. CASE g = <<Space>>
    BY <1>1, <2>2, ShortSeqs
  <2> QED
    BY <2>1, <2>2
<1>3. /\ u \in Seq(Characters) /\ Len(u) = Len(t) + Len(g) /\ Len(t) \in Nat
      /\ Len(g) \in Nat
      /\ \A i \in 1 .. Len(g) : u[Len(t) + i] = g[i]
  BY <1>2, Appended
<1> HIDE DEF u
<1>4. /\ x \in Seq(Characters) /\ Len(x) = Len(u) + Len(w) /\ Len(w) \in Nat
      /\ \A i \in 1 .. Len(u) : x[i] = u[i]
      /\ \A i \in 1 .. Len(w) : x[Len(u) + i] = w[i]
  BY <1>3, Appended, ZenonT(30)
<1> HIDE DEF x
<1>5. \A r \in Len(t) + 1 .. Len(t) + Len(g) : x[r] = Space
  <2> SUFFICES ASSUME NEW r \in Len(t) + 1 .. Len(t) + Len(g)
               PROVE  x[r] = Space
    OBVIOUS
  <2>1. r - Len(t) \in 1 .. Len(g) /\ r \in 1 .. Len(u) /\ Len(t) + (r - Len(t)) = r
    BY <1>3
  <2> QED
    BY <1>2, <1>3, <1>4, <2>1, ZenonT(30)
<1>6. x[Len(u) + 1] = w[1]
  BY <1>4
<1>7. Skips(x, Len(t) + 1, Len(t) + Len(g) + 1)
  BY <1>3, <1>4, <1>5, <1>6 DEF Skips, CharAt
<1>8. x = t \o g \o w
  BY DEF x, u
<1> QED
  BY <1>3, <1>4, <1>7, <1>8

LEMMA TokenWritten ==
    ASSUME NEW t \in Seq(Characters), NEW g \in {<<>>, <<Space>>},
           NEW c \in Characters \ {Space}
    PROVE  /\ t \o g \o <<c>> \in Seq(Characters)
           /\ Len(t \o g \o <<c>>) + 1 \in Nat
           /\ Token(t \o g \o <<c>>, Len(t) + 1, c, Len(t \o g \o <<c>>) + 1)
<1>1. <<c>> \in Seq(Characters) /\ Len(<<c>>) = 1 /\ <<c>>[1] = c
  OBVIOUS
<1> DEFINE w == <<c>>
           x == t \o g \o w
<1> HIDE DEF w
<1>2. /\ x \in Seq(Characters)
      /\ Len(x) = Len(t) + Len(g) + 1
      /\ Len(t) \in Nat /\ Len(g) \in Nat
      /\ Skips(x, Len(t) + 1, Len(t) + Len(g) + 1)
      /\ x[Len(t) + Len(g) + 1] = c
  <2>1. w \in Seq(Characters) /\ Len(w) \in Nat \ {0} /\ w[1] # Space /\ w[1] = c /\ Len(w) = 1
    BY <1>1 DEF w
  <2>2. /\ x \in Seq(Characters)
        /\ Len(x) = Len(t) + Len(g) + Len(w)
        /\ Len(t) \in Nat /\ Len(g) \in Nat
        /\ Skips(x, Len(t) + 1, Len(t) + Len(g) + 1)
        /\ \A i \in 1 .. Len(w) : x[Len(t) + Len(g) + i] = w[i]
    BY <2>1, GapSkipped
  <2> HIDE DEF x
  <2> QED
    BY <2>1, <2>2
<1> HIDE DEF x
<1>3. Token(x, Len(t) + 1, c, Len(x) + 1)
  BY <1>2 DEF Token
<1> QED
  BY <1>2, <1>3 DEF x, w

LEMMA LeafWritten ==
    ASSUME NEW t \in Seq(Characters), NEW g \in {<<>>, <<Space>>},
           NEW v, Leaf(v), Survives(v), Spelling(v)[1] # Space
    PROVE  LET x == t \o g \o Spelling(v)
           IN /\ x \in Seq(Characters)
              /\ Len(x) + 1 \in Nat
              /\ LeafAt(x, Len(t) + 1, v, Len(x) + 1)
<1> DEFINE w == Spelling(v)
           x == t \o g \o w
           b == Len(t) + Len(g) + 1
<1>1. w \in Seq(Characters) /\ Len(w) \in Nat \ {0} /\ w[1] # Space
  BY SpellingLength
<1> HIDE DEF w
<1>2. /\ x \in Seq(Characters)
      /\ Len(x) = Len(t) + Len(g) + Len(w)
      /\ Len(t) \in Nat /\ Len(g) \in Nat
      /\ Skips(x, Len(t) + 1, b)
      /\ \A i \in 1 .. Len(w) : x[Len(t) + Len(g) + i] = w[i]
  BY <1>1, GapSkipped
<1> HIDE DEF x
<1>3. Spelled(x, b, v, Len(x) + 1)
  <2>1. b \in Nat \ {0} /\ Len(x) + 1 = b + Len(w) /\ Len(x) + 1 <= Len(x) + 1
    BY <1>1, <1>2
  <2>2. \A i \in 1 .. Len(w) : x[b + i - 1] = w[i]
    <3> SUFFICES ASSUME NEW i \in 1 .. Len(w)
                 PROVE  x[b + i - 1] = w[i]
      OBVIOUS
    <3>1. b + i - 1 = Len(t) + Len(g) + i
      BY <1>1, <1>2
    <3> QED
      BY <1>2, <3>1
  <2> HIDE DEF b
  <2> QED
    BY <2>1, <2>2 DEF Spelled, w
<1>4. LeafAt(x, Len(t) + 1, v, Len(x) + 1)
  <2>1. b \in Nat
    BY <1>2
  <2> QED
    BY <1>2, <1>3, <2>1 DEF LeafAt
<1> QED
  BY <1>1, <1>2, <1>4 DEF x, w

LEMMA PrefixNext ==
    ASSUME NEW t, NEW L, NEW v, NEW i \in Nat, NEW p, NEW x, NEW y,
           Prefix(t, L, v, i, p, x), Entry(t, L, v, i + 1, x, y)
    PROVE  Prefix(t, L, v, i + 1, p, y)
<1>1. PICK m \in [0 .. i -> Nat] :
            /\ Token(t, p, Opening(v), m[0])
            /\ \A j \in 1 .. i : Entry(t, L, v, j, m[j - 1], m[j])
            /\ m[i] = x
  BY DEF Prefix
<1> DEFINE n == [j \in 0 .. i + 1 |-> IF j = i + 1 THEN y ELSE m[j]]
<1>2. y \in Nat
  BY DEF Entry
<1>3. n \in [0 .. i + 1 -> Nat] /\ n[i + 1] = y /\ \A j \in 0 .. i : n[j] = m[j]
  BY <1>1, <1>2
<1> HIDE DEF n
<1>4. Token(t, p, Opening(v), n[0])
  BY <1>1, <1>3
<1>5. ASSUME NEW j \in 1 .. i + 1
      PROVE  Entry(t, L, v, j, n[j - 1], n[j])
  <2>1. CASE j = i + 1
    <3>1. n[j - 1] = x /\ n[j] = y
      BY <1>1, <1>3, <2>1
    <3> QED
      BY <2>1, <3>1
  <2>2. CASE j \in 1 .. i
    <3>1. n[j - 1] = m[j - 1] /\ n[j] = m[j]
      BY <1>3, <2>2
    <3> QED
      BY <1>1, <2>2, <3>1
  <2> QED
    BY <2>1, <2>2
<1> QED
  BY <1>3, <1>4, <1>5 DEF Prefix

LEMMA PrefixClosed ==
    ASSUME NEW t, NEW L, NEW v, Len(v[2]) \in Nat, NEW p, NEW x, NEW q,
           Prefix(t, L, v, Len(v[2]), p, x), Token(t, x, Closed(v), q)
    PROVE  Bracketed(t, L, p, v, q)
<1>1. PICK m \in [0 .. Len(v[2]) -> Nat] :
            /\ Token(t, p, Opening(v), m[0])
            /\ \A j \in 1 .. Len(v[2]) : Entry(t, L, v, j, m[j - 1], m[j])
            /\ m[Len(v[2])] = x
  BY DEF Prefix
<1>2. Rest(t, L, v, 0, m[0], q)
  BY <1>1 DEF Rest
<1>3. m[0] \in Nat
  OBVIOUS
<1> QED
  BY <1>1, <1>2, <1>3 DEF Bracketed

-----------------------------------------------------------------------------
(* The reader goes through a layout *)

LEMMA RestNext ==
    ASSUME NEW t, NEW L, NEW v, Len(v[2]) \in Nat, NEW i \in 0 .. Len(v[2]) - 1,
           NEW x, NEW q, Rest(t, L, v, i, x, q)
    PROVE  \E y \in Nat : Entry(t, L, v, i + 1, x, y) /\ Rest(t, L, v, i + 1, y, q)
<1>1. PICK m \in [i .. Len(v[2]) -> Nat] :
            /\ m[i] = x
            /\ \A j \in i + 1 .. Len(v[2]) : Entry(t, L, v, j, m[j - 1], m[j])
            /\ Token(t, m[Len(v[2])], Closed(v), q)
  BY DEF Rest
<1> DEFINE n == [j \in i + 1 .. Len(v[2]) |-> m[j]]
<1>2. n \in [i + 1 .. Len(v[2]) -> Nat] /\ \A j \in i + 1 .. Len(v[2]) : n[j] = m[j]
  BY <1>1
<1> HIDE DEF n
<1>3. ASSUME NEW j \in (i + 1) + 1 .. Len(v[2])
      PROVE  Entry(t, L, v, j, n[j - 1], n[j])
  <2>1. n[j - 1] = m[j - 1] /\ n[j] = m[j] /\ j \in i + 1 .. Len(v[2])
    BY <1>2
  <2> QED
    BY <1>1, <2>1
<1>4. Token(t, n[Len(v[2])], Closed(v), q)
  <2>1. n[Len(v[2])] = m[Len(v[2])]
    BY <1>2
  <2> QED
    BY <1>1, <2>1
<1>5. Rest(t, L, v, i + 1, n[i + 1], q)
  BY <1>2, <1>3, <1>4 DEF Rest
<1>6. Entry(t, L, v, i + 1, x, n[i + 1])
  <2>1. i + 1 \in i + 1 .. Len(v[2]) /\ (i + 1) - 1 = i
    OBVIOUS
  <2>2. Entry(t, L, v, i + 1, m[(i + 1) - 1], m[i + 1])
    BY <1>1, <2>1
  <2> QED
    BY <1>1, <1>2, <2>1, <2>2
<1>7. n[i + 1] \in Nat
  BY <1>2
<1> QED
  BY <1>5, <1>6, <1>7

LEMMA RestEnd ==
    ASSUME NEW t, NEW L, NEW v, Len(v[2]) \in Nat, NEW x, NEW q,
           Rest(t, L, v, Len(v[2]), x, q)
    PROVE  Token(t, x, Closed(v), q)
BY DEF Rest

LEMMA SkipsOnce ==
    ASSUME NEW t \in Seq(Characters), NEW p, NEW b, NEW c, Skips(t, p, b), Skips(t, p, c)
    PROVE  b = c
<1>1. /\ p \in Nat \ {0} /\ b \in Nat /\ c \in Nat /\ p <= b /\ p <= c
      /\ b <= Len(t) + 1 /\ c <= Len(t) + 1 /\ Len(t) \in Nat
      /\ \A r \in p .. b - 1 : t[r] = Space
      /\ \A r \in p .. c - 1 : t[r] = Space
      /\ CharAt(t, b) # Space /\ CharAt(t, c) # Space
  BY Appended DEF Skips
<1>2. ~(b < c)
  BY <1>1 DEF CharAt
<1>3. ~(c < b)
  BY <1>1 DEF CharAt
<1> QED
  BY <1>1, <1>2, <1>3

LEMMA SkipsNone ==
    ASSUME NEW t, NEW p, NEW b, Skips(t, p, b)
    PROVE  Skips(t, b, b)
BY DEF Skips

-----------------------------------------------------------------------------
(* The characters with which a value starts *)

Starts == {Quote, "-", "[", LeftBrace} \cup Words \cup Digits

LEMMA DigitsDiffer ==
    ASSUME NEW d \in Digits
    PROVE  /\ d # Quote /\ d # "-" /\ d # "[" /\ d # LeftBrace /\ d \notin Words
           /\ d \notin {"]", RightBrace, Comma, ":", Space, Other, End}
<1>1. d \notin Signs /\ d # End
  BY JsonAssumption
<1> QED
  BY <1>1, Zenon DEF Signs

LEMMA Differ ==
    /\ Starts \subseteq Characters
    /\ {"]", RightBrace, Comma, ":"} \subseteq Characters
    /\ \A c \in {"]", RightBrace, Comma, ":", Space, Other, End} : c \notin Starts
    /\ \A c \in {"]", RightBrace, Comma, ":"} : c # Space
    /\ "]" # Comma /\ RightBrace # Comma
    /\ Quote # "-" /\ Quote # "[" /\ Quote # LeftBrace
    /\ "-" # "[" /\ "-" # LeftBrace /\ "[" # LeftBrace
    /\ \A w \in Words : w # Quote /\ w # "-" /\ w # "[" /\ w # LeftBrace
    /\ \A d \in Digits : /\ d # Quote /\ d # "-" /\ d # "[" /\ d # LeftBrace
                         /\ d \notin Words
<1> DEFINE Some == {Quote, "-", "[", LeftBrace} \cup Words
<1>1. Starts \subseteq Characters
  BY Zenon DEF Starts, Characters, Signs
<1>2. {"]", RightBrace, Comma, ":"} \subseteq Characters
  BY Zenon DEF Characters, Signs
<1>3. \A c \in {"]", RightBrace, Comma, ":", Space, Other, End} : c \notin Starts
  <2>1. \A c \in {"]", RightBrace, Comma, ":", Space, Other, End} : c \notin Some
    BY Zenon DEF Words, Quote, LeftBrace, RightBrace, Comma, Space, Other, End
  <2> HIDE DEF Some
  <2>2. \A c \in {"]", RightBrace, Comma, ":", Space, Other, End} : c \notin Digits
    BY DigitsDiffer, Zenon
  <2>3. Starts = Some \cup Digits
    BY DEF Starts, Some
  <2> QED
    BY <2>1, <2>2, <2>3, Zenon
<1>4. \A c \in {"]", RightBrace, Comma, ":"} : c # Space
  BY Zenon DEF RightBrace, Comma, Space
<1>5. "]" # Comma /\ RightBrace # Comma
  BY Zenon DEF RightBrace, Comma
<1>6. /\ Quote # "-" /\ Quote # "[" /\ Quote # LeftBrace
      /\ "-" # "[" /\ "-" # LeftBrace /\ "[" # LeftBrace
  BY Zenon DEF Quote, LeftBrace
<1>7. \A w \in Words : w # Quote /\ w # "-" /\ w # "[" /\ w # LeftBrace
  BY Zenon DEF Words, Quote, LeftBrace
<1>8. \A d \in Digits : /\ d # Quote /\ d # "-" /\ d # "[" /\ d # LeftBrace
                        /\ d \notin Words
  BY DigitsDiffer, Zenon
<1> QED
  BY <1>1, <1>2, <1>3, <1>4, <1>5, <1>6, <1>7, <1>8

\* The first character of a leaf.
LEMMA LeafStarts ==
    ASSUME NEW v, Leaf(v)
    PROVE  /\ Spelling(v)[1] \in Starts
           /\ v[1] = "word" => v[2] \in Words /\ Spelling(v)[1] = v[2]
           /\ IsNumber(v) => Spelling(v)[1] \in {"-"} \cup Digits
           /\ v[1] = "str" => /\ v[2] \in Seq(Characters \ {Quote})
                             /\ Spelling(v)[1] = Quote
<1>1. CASE v[1] = "word"
  <2>1. v[2] \in Words /\ Spelling(v) = <<v[2]>>
    BY <1>1, SpellingIs, LeafKinds
  <2> QED
    BY <1>1, <2>1 DEF Starts, IsNumber
<1>2. CASE IsNumber(v)
  <2> DEFINE d == NumeralOf(v)
  <2>1. d \in Digits
    BY <1>2, LeafKinds, NumeralIs
  <2>2. Spelling(v) = <<d>> \/ Spelling(v) = <<"-", d>>
    BY <1>2, SpellingIs
  <2> HIDE DEF d
  <2>3. Spelling(v)[1] = d \/ Spelling(v)[1] = "-"
    BY <2>2
  <2>4. \A c \in {"-"} \cup Digits : c \in Starts
    BY Zenon DEF Starts
  <2>5. v[1] # "word" /\ v[1] # "str"
    BY <1>2 DEF IsNumber
  <2> QED
    BY <2>1, <2>3, <2>4, <2>5
<1>3. CASE v[1] = "str"
  <2>1. v[2] \in Seq(Characters \ {Quote}) /\ Spelling(v) = <<Quote>> \o v[2] \o <<Quote>>
    BY <1>3, SpellingIs, LeafKinds
  <2>2. Spelling(v)[1] = Quote
    BY <2>1
  <2> QED
    BY <1>3, <2>1, <2>2 DEF Starts, IsNumber
<1> QED
  BY <1>1, <1>2, <1>3, LeafKinds

LEMMA Brackets ==
    ASSUME NEW v
    PROVE  /\ Opening(v) \in Starts /\ Opening(v) \in Characters \ {Space}
           /\ Closed(v) \in Characters \ {Space} /\ Closed(v) \notin Starts
           /\ Closed(v) # Comma
<1>1. /\ "[" \in Starts /\ LeftBrace \in Starts
      /\ Space \notin Starts /\ Starts \subseteq Characters
      /\ \A c \in {"]", RightBrace} : /\ c \in Characters /\ c # Space /\ c \notin Starts
                                     /\ c # Comma
  BY Differ, Zenon DEF Starts
<1>2. Opening(v) = "[" \/ Opening(v) = LeftBrace
  BY DEF Opening
<1>3. Closed(v) = "]" \/ Closed(v) = RightBrace
  BY DEF Closed
<1> QED
  BY <1>1, <1>2, <1>3, Zenon

\* What stands at the place of a value starts with a character of that value.
LEMMA PlaceStarts ==
    ASSUME NEW t \in Seq(Characters), NEW L, Layout(t, L), NEW p, NEW v, NEW q,
           <<p, v, q>> \in L
    PROVE  \E b \in Nat : /\ Skips(t, p, b) /\ b <= Len(t) /\ t[b] \in Starts
                          /\ Leaf(v) => t[b] = Spelling(v)[1]
                          /\ Composite(v) => t[b] = Opening(v)
<1>1. Justified(t, L, p, v, q) /\ v \in Values
  BY DEF Layout
<1>2. ~(Leaf(v) /\ Composite(v))
  BY LeafKinds
<1>3. CASE Leaf(v)
  <2>1. PICK b \in Nat : Skips(t, p, b) /\ Spelled(t, b, v, q)
    BY <1>1, <1>2, <1>3 DEF Justified, LeafAt
  <2>2. Len(Spelling(v)) \in Nat \ {0}
    BY <1>3, SpellingLength
  <2>3. t[b + 1 - 1] = Spelling(v)[1] /\ b <= Len(t)
    BY <2>1, <2>2, Appended DEF Spelled
  <2>4. t[b] = Spelling(v)[1]
    BY <2>3
  <2> QED
    BY <1>2, <1>3, <2>1, <2>3, <2>4, LeafStarts
<1>4. CASE Composite(v)
  <2>1. PICK x \in Nat : Token(t, p, Opening(v), x)
    BY <1>1, <1>2, <1>4 DEF Justified, Bracketed
  <2>2. Skips(t, p, x - 1) /\ x - 1 \in Nat /\ x - 1 <= Len(t) /\ t[x - 1] = Opening(v)
    BY <2>1 DEF Token, Skips
  <2> QED
    BY <1>2, <1>4, <2>2, Brackets
<1> QED
  BY <1>1, <1>3, <1>4 DEF Justified

-----------------------------------------------------------------------------
(* The calls of the writer *)

CallType == [value : Values, item : Nat, key : BOOLEAN]

\* a call is at one of the items, or in front of them, and at keys in maps only
AtItem(c) ==
    /\ Composite(c.value) /\ c.item <= Len(c.value[2])
    /\ c.key => c.value[1] = "map" /\ c.item >= 1

\* what call c has passed on last
Part(c) ==
    IF c.value[1] = "arr" THEN c.value[2][c.item]
    ELSE IF c.key THEN c.value[2][c.item][1]
    ELSE c.value[2][c.item][2]

\* what call k was given
Given(src, cs, k) == IF k = 1 THEN src ELSE Part(cs[k - 1])

\* all that call c, whose value stands from p on, has in front of its part has
\* been written, up to s
Expects(t, L, c, p, s) ==
    /\ c.item \in 1 .. Len(c.value[2])
    /\ \E x, k, a \in Nat :
          /\ Prefix(t, L, c.value, c.item - 1, p, x)
          /\ Ahead(t, x, c.item, k)
          /\ IF c.value[1] = "arr" \/ c.key THEN s = k
             ELSE <<k, c.value[2][c.item][1], a>> \in L /\ Token(t, a, ":", s)

\* call c, whose value stands from p on, has written up to y
Reached(t, L, c, p, y) ==
    IF c.key
      THEN /\ c.item \in 1 .. Len(c.value[2])
           /\ \E x, k \in Nat : /\ Prefix(t, L, c.value, c.item - 1, p, x)
                                /\ Ahead(t, x, c.item, k)
                                /\ <<k, c.value[2][c.item][1], y>> \in L
      ELSE Prefix(t, L, c.value, c.item, p, y)

\* P are the positions at which the values of the calls begin, and the one that
\* the last of them has passed on
Chain(t, L, src, cs, P) ==
    /\ P \in Seq(Nat)
    /\ Len(P) >= 1 => P[1] = 1
    /\ \A k \in 1 .. Len(cs) : cs[k].value = Given(src, cs, k)
    /\ \A k \in 2 .. Len(P) : Expects(t, L, cs[k - 1], P[k - 1], P[k])

\* the last value that was passed on is to be written at the end of the text
ToWrite(t, L, src, cs, P) ==
    /\ Len(P) = Len(cs) + 1
    /\ P[Len(P)] = Len(t) + 1

\* it has been written
IsWritten(t, L, src, cs, P) ==
    /\ Len(P) = Len(cs)
    /\ cs = <<>> => <<1, src, Len(t) + 1>> \in L
    /\ cs # <<>> => Reached(t, L, cs[Len(cs)], P[Len(P)], Len(t) + 1)

LEMMA ExpectsStays ==
    ASSUME NEW t \in Seq(Characters), NEW u \in Seq(Characters), NEW L, NEW M, L \subseteq M,
           NEW c, NEW p, NEW s, Expects(t, L, c, p, s)
    PROVE  Expects(t \o u, M, c, p, s)
<1>1. PICK x \in Nat, k \in Nat, a \in Nat :
          /\ Prefix(t, L, c.value, c.item - 1, p, x)
          /\ Ahead(t, x, c.item, k)
          /\ IF c.value[1] = "arr" \/ c.key THEN s = k
             ELSE <<k, c.value[2][c.item][1], a>> \in L /\ Token(t, a, ":", s)
  BY DEF Expects
<1>2. Prefix(t \o u, M, c.value, c.item - 1, p, x)
  BY <1>1, PrefixStays
<1>3. Ahead(t \o u, x, c.item, k)
  BY <1>1, TokenStays DEF Ahead
<1>4. IF c.value[1] = "arr" \/ c.key THEN s = k
      ELSE <<k, c.value[2][c.item][1], a>> \in M /\ Token(t \o u, a, ":", s)
  BY <1>1, TokenStays
<1> QED
  BY <1>2, <1>3, <1>4 DEF Expects

LEMMA ChainStays ==
    ASSUME NEW t \in Seq(Characters), NEW u \in Seq(Characters), NEW L, NEW M, L \subseteq M,
           NEW src, NEW cs, NEW P, Chain(t, L, src, cs, P)
    PROVE  Chain(t \o u, M, src, cs, P)
<1>1. \A k \in 2 .. Len(P) : Expects(t \o u, M, cs[k - 1], P[k - 1], P[k])
  BY ExpectsStays DEF Chain
<1> QED
  BY <1>1 DEF Chain

\* The part that a call was at has been written.
LEMMA PartWritten ==
    ASSUME NEW t, NEW L, L \subseteq Nat \X Values \X Nat,
           NEW c, c \in CallType, AtItem(c), NEW p, NEW s, NEW y,
           Expects(t, L, c, p, s), <<s, Part(c), y>> \in L
    PROVE  Reached(t, L, c, p, y)
<1>1. PICK x \in Nat, k \in Nat, a \in Nat :
          /\ Prefix(t, L, c.value, c.item - 1, p, x)
          /\ Ahead(t, x, c.item, k)
          /\ IF c.value[1] = "arr" \/ c.key THEN s = k
             ELSE <<k, c.value[2][c.item][1], a>> \in L /\ Token(t, a, ":", s)
  BY DEF Expects
<1>2. y \in Nat /\ s \in Nat /\ c.item \in Nat /\ c.item - 1 \in Nat
  BY DEF Expects, CallType
<1>3. CASE c.key
  <2>1. c.value[1] = "map" /\ c.value[1] # "arr"
    BY <1>3 DEF AtItem
  <2>2. s = k /\ Part(c) = c.value[2][c.item][1]
    BY <1>1, <1>3, <2>1 DEF Part
  <2> QED
    BY <1>1, <1>3, <2>2 DEF Reached, Expects
<1>4. CASE ~c.key
  <2>1. ItemAt(t, L, c.value, c.item, k, y)
    <3>1. CASE c.value[1] = "arr"
      BY <1>1, <3>1 DEF ItemAt, Part
    <3>2. CASE c.value[1] # "arr"
      BY <1>1, <1>2, <1>4, <3>2 DEF ItemAt, Part
    <3> QED
      BY <3>1, <3>2
  <2>2. Entry(t, L, c.value, c.item, x, y)
    BY <1>1, <1>2, <2>1 DEF Entry
  <2>3. (c.item - 1) + 1 = c.item
    BY <1>2
  <2>4. Prefix(t, L, c.value, c.item, p, y)
    BY <1>1, <1>2, <2>2, <2>3, PrefixNext
  <2> QED
    BY <1>4, <2>4 DEF Reached
<1> QED
  BY <1>3, <1>4

\* The value that was passed on last has been written.
LEMMA GivenWritten ==
    ASSUME NEW t, NEW L, L \subseteq Nat \X Values \X Nat,
           NEW src, NEW cs \in Seq(CallType), \A k \in 1 .. Len(cs) : AtItem(cs[k]),
           NEW P, Chain(t, L, src, cs, P), Len(P) = Len(cs) + 1,
           <<P[Len(P)], Given(src, cs, Len(P)), Len(t) + 1>> \in L
    PROVE  \E Q : Chain(t, L, src, cs, Q) /\ IsWritten(t, L, src, cs, Q)
<1> DEFINE n == Len(cs)
           Q == SubSeq(P, 1, n)
<1>1. /\ n \in Nat /\ P \in Seq(Nat) /\ Len(P) = n + 1
      /\ Q \in Seq(Nat) /\ Len(Q) = n /\ \A k \in 1 .. n : Q[k] = P[k]
      /\ P[1] = 1 /\ n = Len(cs)
  BY DEF Chain
<1> HIDE DEF Q, n
<1>2. Chain(t, L, src, cs, Q)
  <2>1. Len(Q) >= 1 => Q[1] = 1
    BY <1>1
  <2>2. ASSUME NEW k \in 2 .. n
        PROVE  Expects(t, L, cs[k - 1], Q[k - 1], Q[k])
    <3>1. k \in 2 .. Len(P) /\ k \in 1 .. n /\ k - 1 \in 1 .. n
      BY <1>1
    <3>2. Q[k - 1] = P[k - 1] /\ Q[k] = P[k]
      BY <1>1, <3>1
    <3> QED
      BY <3>1, <3>2 DEF Chain
  <2> QED
    BY <1>1, <2>1, <2>2 DEF Chain
<1>3. CASE cs = <<>>
  <2>1. n = 0 /\ P[Len(P)] = 1 /\ Given(src, cs, Len(P)) = src
    BY <1>1, <1>3 DEF Given
  <2> QED
    BY <1>1, <1>2, <1>3, <2>1 DEF IsWritten
<1>4. CASE cs # <<>>
  <2>1. n \in 1 .. Len(cs) /\ Len(P) \in 2 .. Len(P) /\ Len(P) - 1 = n /\ Len(P) # 1
    BY <1>1, <1>4
  <2>2. Given(src, cs, Len(P)) = Part(cs[n])
    BY <2>1 DEF Given
  <2>3. Expects(t, L, cs[n], P[n], P[Len(P)])
    BY <2>1 DEF Chain
  <2>4. Reached(t, L, cs[n], P[n], Len(t) + 1)
    <3> DEFINE c == cs[n]
               p == P[n]
               s == P[Len(P)]
               y == Len(t) + 1
    <3>1. c \in CallType /\ AtItem(c) /\ Expects(t, L, c, p, s) /\ <<s, Part(c), y>> \in L
      BY <2>1, <2>2, <2>3
    <3> HIDE DEF c, p, s, y
    <3>2. Reached(t, L, c, p, y)
      BY <3>1, PartWritten
    <3> QED
      BY <3>2 DEF c, p, y
  <2>5. P[n] = Q[Len(Q)]
    BY <1>1, <2>1
  <2> QED
    BY <1>1, <1>2, <1>4, <2>4, <2>5 DEF IsWritten
<1> QED
  BY <1>3, <1>4

\* A token is in front of the rest of the text for good.
LEMMA GapGrows ==
    ASSUME NEW t \in Seq(Characters), NEW g \in {<<>>, <<Space>>}, NEW w \in Seq(Characters)
    PROVE  g \o w \in Seq(Characters) /\ t \o g \o w = t \o (g \o w)
<1>1. Space \in Characters
  BY DEF Characters, Signs
<1>2. g \in Seq(Characters)
  <2>1. CASE g = <<>>
    BY <2>1
  <2>2. CASE g = <<Space>>
    BY <1>1, <2>2, ShortSeqs
  <2> QED
    BY <2>1, <2>2
<1> QED
  BY <1>2

\* The steps of the writer, from a text t to a text x.

LEMMA LeafStep ==
    ASSUME NEW t \in Seq(Characters), NEW g \in {<<>>, <<Space>>}, NEW L, Layout(t, L),
           NEW src, NEW cs \in Seq(CallType), \A k \in 1 .. Len(cs) : AtItem(cs[k]),
           NEW P, Chain(t, L, src, cs, P), ToWrite(t, L, src, cs, P),
           NEW v \in Values, Leaf(v), Survives(v), v = Given(src, cs, Len(P)),
           NEW x, x = t \o g \o Spelling(v)
    PROVE  /\ x \in Seq(Characters)
           /\ \E M, Q : /\ Layout(x, M) /\ Chain(x, M, src, cs, Q)
                        /\ IsWritten(x, M, src, cs, Q)
<1> DEFINE w == Spelling(v)
           u == g \o w
           b == Len(t) + 1
           y == Len(x) + 1
           M == L \cup {<<b, v, y>>}
<1>1. u \in Seq(Characters) /\ x = t \o u
  <2>1. w \in Seq(Characters) /\ x = t \o g \o w
    BY SpellingLength
  <2> HIDE DEF w
  <2> QED
    BY <2>1, GapGrows, ZenonT(30)
<1>2. Spelling(v)[1] # Space
  BY LeafStarts, Differ
<1>3. x \in Seq(Characters) /\ y \in Nat /\ LeafAt(x, b, v, y)
  BY <1>2, LeafWritten
<1>4. b \in Nat
  BY Appended
<1> HIDE DEF u, y, b
<1>5. Layout(x, L)
  BY <1>1, LayoutStays
<1>6. Layout(x, M)
  <2>1. Justified(x, L, b, v, y)
    BY <1>3 DEF Justified
  <2> QED
    BY <1>3, <1>4, <1>5, <2>1, LayoutAdd
<1>7. Chain(x, M, src, cs, P)
  BY <1>1, ChainStays
<1>8. <<P[Len(P)], Given(src, cs, Len(P)), Len(x) + 1>> \in M /\ Len(P) = Len(cs) + 1
  BY DEF ToWrite, b, y
<1>9. M \subseteq Nat \X Values \X Nat
  BY <1>6 DEF Layout
<1> HIDE DEF M
<1>10. \E Q : Chain(x, M, src, cs, Q) /\ IsWritten(x, M, src, cs, Q)
  BY <1>7, <1>8, <1>9, GivenWritten
<1> QED
  BY <1>3, <1>6, <1>10

\* A call in front of another goes on as it was.
LEMMA OpenStep ==
    ASSUME NEW t \in Seq(Characters), NEW g \in {<<>>, <<Space>>}, NEW L, Layout(t, L),
           NEW src, NEW cs \in Seq(CallType), \A k \in 1 .. Len(cs) : AtItem(cs[k]),
           NEW P, Chain(t, L, src, cs, P), ToWrite(t, L, src, cs, P),
           NEW v \in Values, Composite(v), v = Given(src, cs, Len(P)),
           NEW x, x = t \o g \o <<Opening(v)>>,
           NEW ds, ds = Append(cs, [value |-> v, item |-> 0, key |-> FALSE])
    PROVE  /\ x \in Seq(Characters)
           /\ ds \in Seq(CallType) /\ \A k \in 1 .. Len(ds) : AtItem(ds[k])
           /\ \E M, Q : /\ Layout(x, M) /\ Chain(x, M, src, ds, Q)
                        /\ IsWritten(x, M, src, ds, Q)
<1> DEFINE w == <<Opening(v)>>
           u == g \o w
           d == [value |-> v, item |-> 0, key |-> FALSE]
           n == Len(cs)
<1>1. /\ Opening(v) \in Characters \ {Space}
      /\ w \in Seq(Characters) /\ x = t \o g \o w
  BY Brackets, ShortSeqs
<1>2. u \in Seq(Characters) /\ x = t \o u
  <2> HIDE DEF w
  <2> QED
    BY <1>1, GapGrows, ZenonT(30)
<1>3. x \in Seq(Characters) /\ Len(x) + 1 \in Nat /\ Token(x, Len(t) + 1, Opening(v), Len(x) + 1)
  BY <1>1, TokenWritten
<1>4. /\ d \in CallType /\ d.value = v /\ d.item = 0 /\ d.key = FALSE
      /\ ds = Append(cs, d)
  BY DEF CallType
<1>5. AtItem(d)
  BY <1>4, CompositeIs DEF AtItem
<1> HIDE DEF u, d
<1>6. /\ ds \in Seq(CallType) /\ Len(ds) = n + 1 /\ n \in Nat /\ ds[n + 1] = d /\ n = Len(cs)
      /\ \A k \in 1 .. n : ds[k] = cs[k]
  BY <1>4
<1> HIDE DEF n
<1>7. ASSUME NEW k \in 1 .. Len(ds)
      PROVE  AtItem(ds[k])
  <2>1. k = n + 1 \/ k \in 1 .. n
    BY <1>6
  <2> QED
    BY <1>5, <1>6, <2>1
<1>8. Layout(x, L) /\ Chain(x, L, src, cs, P)
  BY <1>2, LayoutStays, ChainStays
<1>9. Len(P) = n + 1 /\ P[n + 1] = Len(t) + 1
  BY <1>6 DEF ToWrite
<1>10. Chain(x, L, src, ds, P)
  <2>1. \A k \in 1 .. n + 1 : Given(src, ds, k) = Given(src, cs, k)
    BY <1>6 DEF Given
  <2>2. ASSUME NEW k \in 1 .. Len(ds)
        PROVE  ds[k].value = Given(src, ds, k)
    <3>1. CASE k = n + 1
      BY <1>4, <1>6, <1>9, <2>1, <3>1
    <3>2. CASE k \in 1 .. n
      <4>1. cs[k].value = Given(src, cs, k)
        BY <1>6, <1>8, <3>2 DEF Chain
      <4> QED
        BY <1>6, <2>1, <3>2, <4>1
    <3> QED
      BY <1>6, <3>1, <3>2
  <2>3. ASSUME NEW k \in 2 .. Len(P)
        PROVE  Expects(x, L, ds[k - 1], P[k - 1], P[k])
    <3>1. k - 1 \in 1 .. n
      BY <1>6, <1>9
    <3>2. ds[k - 1] = cs[k - 1]
      BY <1>6, <3>1
    <3> QED
      BY <1>8, <3>2 DEF Chain
  <2> QED
    BY <1>8, <2>2, <2>3 DEF Chain
<1>11. IsWritten(x, L, src, ds, P)
  <2>1. Prefix(x, L, v, 0, Len(t) + 1, Len(x) + 1)
    <3> DEFINE y == Len(x) + 1
               m == [j \in 0 .. 0 |-> y]
    <3>1. y \in Nat /\ Token(x, Len(t) + 1, Opening(v), y)
      BY <1>3
    <3> HIDE DEF y
    <3>2. m \in [0 .. 0 -> Nat] /\ m[0] = y
      BY <3>1
    <3> HIDE DEF m
    <3>3. Prefix(x, L, v, 0, Len(t) + 1, y)
      BY <3>1, <3>2, SMTT(30) DEF Prefix
    <3> QED
      BY <3>3 DEF y
  <2>2. Reached(x, L, d, P[n + 1], Len(x) + 1)
    BY <1>4, <1>9, <2>1 DEF Reached
  <2>3. ds[Len(ds)] = d /\ P[Len(P)] = P[n + 1] /\ ds # <<>> /\ Len(P) = Len(ds)
    BY <1>6, <1>9
  <2> QED
    BY <2>2, <2>3 DEF IsWritten
<1> QED
  BY <1>3, <1>6, <1>7, <1>8, <1>10, <1>11

\* the last call goes on as d
GoesOn(cs, d, ds) == ds = [cs EXCEPT ![Len(cs)] = d]

\* its part is to be written at the end
Passing(x, L, src, cs, P, d, ds) ==
    /\ x \in Seq(Characters)
    /\ cs \in Seq(CallType) /\ \A k \in 1 .. Len(cs) : AtItem(cs[k])
    /\ cs # <<>> /\ Chain(x, L, src, cs, P) /\ Len(P) = Len(cs)
    /\ d \in CallType /\ AtItem(d) /\ d.value = cs[Len(cs)].value
    /\ Expects(x, L, d, P[Len(P)], Len(x) + 1)
    /\ GoesOn(cs, d, ds)

LEMMA PassOn ==
    ASSUME NEW x, NEW L, NEW src, NEW cs, NEW P, NEW d, NEW ds,
           Passing(x, L, src, cs, P, d, ds)
    PROVE  /\ ds \in Seq(CallType) /\ \A k \in 1 .. Len(ds) : AtItem(ds[k])
           /\ \E Q : /\ Chain(x, L, src, ds, Q) /\ ToWrite(x, L, src, ds, Q)
                     /\ Given(src, ds, Len(Q)) = Part(d)
<1> USE DEF Passing, GoesOn
<1> DEFINE n == Len(cs)
           y == Len(x) + 1
           Q == Append(P, y)
<1>1. /\ n \in Nat \ {0} /\ n = Len(cs) /\ ds \in Seq(CallType) /\ Len(ds) = n /\ ds[n] = d
      /\ \A k \in 1 .. n - 1 : ds[k] = cs[k]
  OBVIOUS
<1>2. \A k \in 1 .. Len(ds) : AtItem(ds[k])
  BY <1>1
<1>3. y \in Nat /\ P \in Seq(Nat)
  BY DEF Chain
<1> HIDE DEF y
<1>4. Q \in Seq(Nat) /\ Len(Q) = n + 1 /\ Q[n + 1] = y /\ \A k \in 1 .. n : Q[k] = P[k]
  BY <1>1, <1>3
<1> HIDE DEF Q, n
<1>5. \A k \in 1 .. n : Given(src, ds, k) = Given(src, cs, k)
  BY <1>1 DEF Given
<1>6. ASSUME NEW k \in 1 .. n
      PROVE  ds[k].value = Given(src, ds, k)
  <2>1. cs[k].value = Given(src, cs, k)
    BY <1>1 DEF Chain
  <2>2. ds[k].value = cs[k].value
    BY <1>1
  <2> QED
    BY <1>5, <2>1, <2>2
<1>7. ASSUME NEW k \in 2 .. n + 1
      PROVE  Expects(x, L, ds[k - 1], Q[k - 1], Q[k])
  <2>1. CASE k = n + 1
    <3>1. k - 1 = n /\ ds[k - 1] = d /\ Q[k - 1] = P[n] /\ Q[k] = y /\ Len(P) = n
      BY <1>1, <1>4, <2>1
    <3> QED
      BY <3>1 DEF y
  <2>2. CASE k \in 2 .. n
    <3>1. k - 1 \in 1 .. n - 1 /\ k - 1 \in 1 .. n /\ k \in 1 .. n /\ k \in 2 .. Len(P)
      BY <1>1, <2>2
    <3>2. ds[k - 1] = cs[k - 1] /\ Q[k - 1] = P[k - 1] /\ Q[k] = P[k]
      BY <1>1, <1>4, <3>1
    <3> QED
      BY <3>1, <3>2 DEF Chain
  <2>3. k = n + 1 \/ k \in 2 .. n
    BY <1>1
  <2> QED
    BY <2>1, <2>2, <2>3
<1>8. Chain(x, L, src, ds, Q)
  <2>1. Q[1] = 1
    <3>1. 1 \in 1 .. n
      BY <1>1
    <3>2. P[1] = 1
      BY <1>1 DEF Chain
    <3> QED
      BY <1>4, <3>1, <3>2
  <2> QED
    BY <1>1, <1>4, <1>6, <1>7, <2>1 DEF Chain
<1>9. ToWrite(x, L, src, ds, Q)
  BY <1>1, <1>4 DEF ToWrite, y
<1>10. Given(src, ds, Len(Q)) = Part(d)
  <2>1. Len(Q) # 1 /\ Len(Q) - 1 = n
    BY <1>1, <1>4
  <2> QED
    BY <1>1, <2>1 DEF Given
<1> QED
  BY <1>1, <1>2, <1>8, <1>9, <1>10

\* x is t with a token c at its end
Appends(t, x, c) ==
    /\ x \in Seq(Characters)
    /\ \E u \in Seq(Characters) : x = t \o u
    /\ Len(t) + 1 \in Nat /\ Len(x) + 1 \in Nat
    /\ Token(x, Len(t) + 1, c, Len(x) + 1)

LEMMA TokenAppended ==
    ASSUME NEW t \in Seq(Characters), NEW g \in {<<>>, <<Space>>},
           NEW c \in Characters \ {Space}
    PROVE  Appends(t, t \o g \o <<c>>, c)
<1> DEFINE w == <<c>>
           x == t \o g \o w
           u == g \o w
<1>1. w \in Seq(Characters)
  OBVIOUS
<1>2. /\ x \in Seq(Characters) /\ Len(x) + 1 \in Nat
      /\ Token(x, Len(t) + 1, c, Len(x) + 1)
  BY TokenWritten
<1> HIDE DEF w
<1>3. u \in Seq(Characters) /\ x = t \o u
  BY <1>1, GapGrows, ZenonT(30)
<1>4. Len(t) + 1 \in Nat
  BY Appended
<1> HIDE DEF x, u
<1>5. Appends(t, x, c)
  BY <1>2, <1>3, <1>4 DEF Appends
<1> QED
  BY <1>5 DEF x, w

LEMMA LastCall ==
    ASSUME NEW t, NEW L, NEW src,
           NEW cs \in Seq(CallType), \A k \in 1 .. Len(cs) : AtItem(cs[k]),
           cs # <<>>, NEW P, Chain(t, L, src, cs, P), IsWritten(t, L, src, cs, P)
    PROVE  /\ cs[Len(cs)] \in CallType /\ AtItem(cs[Len(cs)]) /\ cs[Len(cs)].item \in Nat
           /\ Len(cs) \in 1 .. Len(cs) /\ Len(P) = Len(cs) /\ P \in Seq(Nat)
           /\ Reached(t, L, cs[Len(cs)], P[Len(cs)], Len(t) + 1)
<1>1. Len(cs) \in 1 .. Len(cs)
  OBVIOUS
<1>2. cs[Len(cs)] \in CallType /\ AtItem(cs[Len(cs)])
  BY <1>1
<1>3. cs[Len(cs)].item \in Nat
  BY <1>2 DEF CallType
<1>4. Len(P) = Len(cs) /\ P \in Seq(Nat)
  BY DEF IsWritten, Chain
<1>5. Reached(t, L, cs[Len(cs)], P[Len(cs)], Len(t) + 1)
  BY <1>4 DEF IsWritten
<1> QED
  BY <1>1, <1>2, <1>3, <1>4, <1>5

\* Call d is the last one of cs at its next item, and x is t with what is in front
\* of that item.
ItemAhead(t, L, src, cs, P, d, x, ds) ==
    LET c == cs[Len(cs)]
    IN /\ t \in Seq(Characters) /\ Layout(t, L)
       /\ cs \in Seq(CallType) /\ \A k \in 1 .. Len(cs) : AtItem(cs[k])
       /\ cs # <<>> /\ Chain(t, L, src, cs, P) /\ IsWritten(t, L, src, cs, P)
       /\ ~c.key /\ c.item < Len(c.value[2])
       /\ d \in CallType /\ d.value = c.value /\ d.item = c.item + 1
       /\ d.key <=> c.value[1] = "map"
       /\ IF c.item = 0 THEN x = t ELSE Appends(t, x, Comma)
       /\ GoesOn(cs, d, ds)

LEMMA ItemStep ==
    ASSUME NEW t, NEW L, NEW src, NEW cs, NEW P, NEW d, NEW x, NEW ds,
           ItemAhead(t, L, src, cs, P, d, x, ds)
    PROVE  /\ x \in Seq(Characters)
           /\ ds \in Seq(CallType) /\ \A k \in 1 .. Len(ds) : AtItem(ds[k])
           /\ \E M, Q : /\ Layout(x, M) /\ Chain(x, M, src, ds, Q) /\ ToWrite(x, M, src, ds, Q)
                        /\ Given(src, ds, Len(Q)) = Part(d)
<1> SUFFICES ASSUME t \in Seq(Characters), Layout(t, L),
                    cs \in Seq(CallType), \A k \in 1 .. Len(cs) : AtItem(cs[k]),
                    cs # <<>>, Chain(t, L, src, cs, P), IsWritten(t, L, src, cs, P),
                    NEW c, c = cs[Len(cs)], ~c.key, c.item < Len(c.value[2]),
                    d \in CallType, d.value = c.value, d.item = c.item + 1,
                    d.key <=> c.value[1] = "map",
                    IF c.item = 0 THEN x = t ELSE Appends(t, x, Comma),
                    GoesOn(cs, d, ds)
             PROVE  /\ x \in Seq(Characters)
                    /\ ds \in Seq(CallType) /\ \A k \in 1 .. Len(ds) : AtItem(ds[k])
                    /\ \E M, Q : /\ Layout(x, M) /\ Chain(x, M, src, ds, Q)
                                 /\ ToWrite(x, M, src, ds, Q)
                                 /\ Given(src, ds, Len(Q)) = Part(d)
  BY DEF ItemAhead
<1> DEFINE e == Len(t) + 1
           y == Len(x) + 1
           n == Len(cs)
<1>1. /\ c \in CallType /\ AtItem(c) /\ c.item \in Nat
      /\ n \in 1 .. n /\ Len(P) = n
      /\ Reached(t, L, c, P[n], e)
  BY LastCall
<1>2. PICK u \in Seq(Characters) : x = t \o u
  <2>1. <<>> \in Seq(Characters) /\ t = t \o <<>>
    OBVIOUS
  <2> QED
    BY <2>1 DEF Appends
<1>3. x \in Seq(Characters) /\ e \in Nat /\ y \in Nat
  BY Appended DEF Appends
<1>4. Ahead(x, e, c.item + 1, y)
  <2>1. CASE c.item = 0
    BY <2>1 DEF Ahead
  <2>2. CASE c.item # 0
    <3>1. Token(x, e, Comma, y) /\ c.item + 1 # 1
      BY <1>1, <2>2 DEF Appends
    <3> QED
      BY <3>1 DEF Ahead
  <2> QED
    BY <2>1, <2>2
<1> HIDE DEF e, n
<1>5. Layout(x, L) /\ Chain(x, L, src, cs, P)
  BY <1>2, LayoutStays, ChainStays
<1>6. Prefix(x, L, c.value, c.item, P[n], e)
  <2>1. Prefix(t, L, c.value, c.item, P[n], e)
    BY <1>1 DEF Reached
  <2> QED
    BY <1>2, <2>1, PrefixStays
<1>7. Len(c.value[2]) \in Nat /\ Composite(c.value)
  BY <1>1, CompositeIs DEF AtItem, CallType
<1>8. d.item \in 1 .. Len(d.value[2]) /\ d.item - 1 = c.item
  BY <1>1, <1>7, SMTT(30)
<1>9. AtItem(d)
  <2>1. d.key => d.value[1] = "map"
    BY Zenon
  <2>2. Composite(d.value) /\ d.item <= Len(d.value[2]) /\ d.item >= 1
    BY <1>1, <1>7, <1>8
  <2> QED
    BY <2>1, <2>2 DEF AtItem
<1>10. c.value[1] = "arr" \/ d.key
  BY <1>7 DEF Composite
<1>11. Expects(x, L, d, P[n], y)
  <2>1. /\ Prefix(x, L, d.value, d.item - 1, P[n], e)
        /\ Ahead(x, e, d.item, y)
        /\ d.value[1] = "arr" \/ d.key
    BY <1>4, <1>6, <1>8, <1>10
  <2> QED
    BY <1>3, <1>8, <2>1 DEF Expects
<1>12. Expects(x, L, d, P[Len(P)], Len(x) + 1) /\ Len(P) = Len(cs)
  BY <1>1, <1>11 DEF n
<1>13. /\ ds \in Seq(CallType) /\ \A k \in 1 .. Len(ds) : AtItem(ds[k])
       /\ \E Q : /\ Chain(x, L, src, ds, Q) /\ ToWrite(x, L, src, ds, Q)
                 /\ Given(src, ds, Len(Q)) = Part(d)
  <2>1. Passing(x, L, src, cs, P, d, ds)
    BY <1>3, <1>5, <1>9, <1>12 DEF Passing
  <2> QED
    BY <2>1, PassOn
<1> QED
  BY <1>3, <1>5, <1>13

\* Call d is the last one of cs at the value of its item, and x is t with a colon.
ValueAhead(t, L, src, cs, P, d, x, ds) ==
    LET c == cs[Len(cs)]
    IN /\ t \in Seq(Characters) /\ Layout(t, L)
       /\ cs \in Seq(CallType) /\ \A k \in 1 .. Len(cs) : AtItem(cs[k])
       /\ cs # <<>> /\ Chain(t, L, src, cs, P) /\ IsWritten(t, L, src, cs, P)
       /\ c.key
       /\ d \in CallType /\ d.value = c.value /\ d.item = c.item /\ ~d.key
       /\ Appends(t, x, ":")
       /\ GoesOn(cs, d, ds)

LEMMA ValueStep ==
    ASSUME NEW t, NEW L, NEW src, NEW cs, NEW P, NEW d, NEW x, NEW ds,
           ValueAhead(t, L, src, cs, P, d, x, ds)
    PROVE  /\ ds \in Seq(CallType) /\ \A k \in 1 .. Len(ds) : AtItem(ds[k])
           /\ \E M, Q : /\ Layout(x, M) /\ Chain(x, M, src, ds, Q) /\ ToWrite(x, M, src, ds, Q)
                        /\ Given(src, ds, Len(Q)) = Part(d)
<1> SUFFICES ASSUME t \in Seq(Characters), Layout(t, L),
                    cs \in Seq(CallType), \A k \in 1 .. Len(cs) : AtItem(cs[k]),
                    cs # <<>>, Chain(t, L, src, cs, P), IsWritten(t, L, src, cs, P),
                    NEW c, c = cs[Len(cs)], c.key,
                    d \in CallType, d.value = c.value, d.item = c.item, ~d.key,
                    Appends(t, x, ":"),
                    GoesOn(cs, d, ds)
             PROVE  /\ ds \in Seq(CallType) /\ \A k \in 1 .. Len(ds) : AtItem(ds[k])
                    /\ \E M, Q : /\ Layout(x, M) /\ Chain(x, M, src, ds, Q)
                                 /\ ToWrite(x, M, src, ds, Q)
                                 /\ Given(src, ds, Len(Q)) = Part(d)
  BY DEF ValueAhead
<1> DEFINE e == Len(t) + 1
           y == Len(x) + 1
           n == Len(cs)
<1>1. /\ c \in CallType /\ AtItem(c) /\ c.item \in Nat
      /\ n \in 1 .. n /\ Len(P) = n
      /\ Reached(t, L, c, P[n], e)
  BY LastCall
<1>2. PICK u \in Seq(Characters) : x = t \o u
  BY DEF Appends
<1>3. x \in Seq(Characters) /\ e \in Nat /\ y \in Nat /\ Token(x, e, ":", y)
  BY DEF Appends
<1> HIDE DEF e, n, y
<1>4. Layout(x, L) /\ Chain(x, L, src, cs, P)
  BY <1>2, LayoutStays, ChainStays
<1>5. PICK z \in Nat, k \in Nat :
            /\ Prefix(t, L, c.value, c.item - 1, P[n], z)
            /\ Ahead(t, z, c.item, k)
            /\ <<k, c.value[2][c.item][1], e>> \in L
  BY <1>1 DEF Reached
<1>6. Prefix(x, L, c.value, c.item - 1, P[n], z)
  BY <1>2, <1>5, PrefixStays
<1>7. Ahead(x, z, c.item, k)
  BY <1>2, <1>5, TokenStays DEF Ahead
<1>8. c.value[1] # "arr" /\ ~d.key /\ c.item \in 1 .. Len(c.value[2])
  BY <1>1 DEF AtItem, Reached
<1>9. AtItem(d)
  BY <1>1 DEF AtItem
<1>10. Expects(x, L, d, P[n], y)
  <2>1. /\ Prefix(x, L, d.value, d.item - 1, P[n], z)
        /\ Ahead(x, z, d.item, k)
        /\ <<k, d.value[2][d.item][1], e>> \in L /\ Token(x, e, ":", y)
        /\ d.value[1] # "arr" /\ d.item \in 1 .. Len(d.value[2])
    BY <1>3, <1>5, <1>6, <1>7, <1>8
  <2> QED
    BY <1>3, <1>8, <2>1 DEF Expects
<1>11. Expects(x, L, d, P[Len(P)], Len(x) + 1) /\ Len(P) = Len(cs)
  BY <1>1, <1>10 DEF n, y
<1>12. /\ ds \in Seq(CallType) /\ \A i \in 1 .. Len(ds) : AtItem(ds[i])
       /\ \E Q : /\ Chain(x, L, src, ds, Q) /\ ToWrite(x, L, src, ds, Q)
                 /\ Given(src, ds, Len(Q)) = Part(d)
  <2>1. Passing(x, L, src, cs, P, d, ds)
    BY <1>3, <1>4, <1>9, <1>11 DEF Passing
  <2> QED
    BY <2>1, PassOn
<1> QED
  BY <1>4, <1>12

LEMMA CloseStep ==
    ASSUME NEW t \in Seq(Characters), NEW L, Layout(t, L),
           NEW src, NEW cs \in Seq(CallType), \A k \in 1 .. Len(cs) : AtItem(cs[k]),
           cs # <<>>, NEW P, Chain(t, L, src, cs, P), IsWritten(t, L, src, cs, P),
           NEW c, c = cs[Len(cs)], ~c.key, c.item = Len(c.value[2]),
           NEW x, Appends(t, x, Closed(c.value)),
           NEW ds, ds = SubSeq(cs, 1, Len(cs) - 1)
    PROVE  /\ ds \in Seq(CallType) /\ \A k \in 1 .. Len(ds) : AtItem(ds[k])
           /\ \E M, Q : /\ Layout(x, M) /\ Chain(x, M, src, ds, Q)
                        /\ IsWritten(x, M, src, ds, Q)
<1> DEFINE e == Len(t) + 1
           y == Len(x) + 1
           v == c.value
           n == Len(cs)
           p == P[n]
           M == L \cup {<<p, v, y>>}
<1>1. /\ c \in CallType /\ AtItem(c) /\ n \in Nat \ {0} /\ n = Len(cs)
      /\ Len(P) = n /\ P \in Seq(Nat)
      /\ Reached(t, L, c, p, e)
  BY LastCall
<1>2. PICK u \in Seq(Characters) : x = t \o u
  BY DEF Appends
<1>3. x \in Seq(Characters) /\ y \in Nat /\ Token(x, e, Closed(v), y)
  BY DEF Appends
<1>4. v \in Values /\ Composite(v)
  BY <1>1 DEF CallType, AtItem
<1>5. p \in Nat
  BY <1>1
<1>6. /\ ds \in Seq(CallType) /\ Len(ds) = n - 1 /\ n - 1 \in Nat
      /\ \A k \in 1 .. n - 1 : ds[k] = cs[k]
  BY <1>1
<1>7. ASSUME NEW k \in 1 .. Len(ds)
      PROVE  AtItem(ds[k])
  BY <1>1, <1>6
<1>8. Prefix(x, L, v, Len(v[2]), p, e)
  <2>1. Prefix(t, L, v, Len(v[2]), p, e)
    BY <1>1 DEF Reached
  <2> HIDE DEF v, p, e
  <2> QED
    BY <1>2, <2>1, PrefixStays
<1>9. v = Given(src, cs, n) /\ \A k \in 1 .. n : Given(src, ds, k) = Given(src, cs, k)
  <2>1. v = Given(src, cs, n)
    BY <1>1 DEF Chain
  <2> QED
    BY <1>1, <1>6, <2>1 DEF Given
<1> HIDE DEF e, y, v, n, p
<1>10. Layout(x, L)
  BY <1>2, LayoutStays
<1>11. Layout(x, M)
  <2>1. Len(v[2]) \in Nat
    BY <1>4, CompositeIs
  <2>2. Bracketed(x, L, p, v, y)
    BY <1>3, <1>8, <2>1, PrefixClosed
  <2>3. Justified(x, L, p, v, y)
    BY <1>4, <2>2 DEF Justified
  <2> QED
    BY <1>3, <1>4, <1>5, <1>10, <2>3, LayoutAdd
<1>12. L \subseteq M
  OBVIOUS
<1>13. <<p, v, y>> \in M /\ M \subseteq Nat \X Values \X Nat
  BY <1>11 DEF Layout
<1> HIDE DEF M
<1>14. Chain(x, M, src, ds, P)
  <2>1. Chain(x, M, src, cs, P)
    BY <1>2, <1>12, ChainStays
  <2>2. ASSUME NEW k \in 1 .. Len(ds)
        PROVE  ds[k].value = Given(src, ds, k)
    <3>1. k \in 1 .. n - 1 /\ k \in 1 .. n /\ k \in 1 .. Len(cs)
      BY <1>1, <1>6
    <3>2. cs[k].value = Given(src, cs, k)
      BY <2>1, <3>1 DEF Chain
    <3> QED
      BY <1>6, <1>9, <3>1, <3>2
  <2>3. ASSUME NEW k \in 2 .. Len(P)
        PROVE  Expects(x, M, ds[k - 1], P[k - 1], P[k])
    <3>1. k - 1 \in 1 .. n - 1
      BY <1>1
    <3>2. ds[k - 1] = cs[k - 1]
      BY <1>6, <3>1
    <3> QED
      BY <2>1, <3>2 DEF Chain
  <2> QED
    BY <2>1, <2>2, <2>3 DEF Chain
<1>15. /\ <<P[Len(P)], Given(src, ds, Len(P)), Len(x) + 1>> \in M
       /\ Len(P) = Len(ds) + 1
  <2>1. P[Len(P)] = p /\ Given(src, ds, Len(P)) = v
    BY <1>1, <1>9 DEF p
  <2>2. Len(x) + 1 = y
    BY DEF y
  <2>3. Len(P) = Len(ds) + 1
    BY <1>1, <1>6
  <2> QED
    BY <1>13, <2>1, <2>2, <2>3, Zenon
<1>16. \E Q : Chain(x, M, src, ds, Q) /\ IsWritten(x, M, src, ds, Q)
  BY <1>6, <1>7, <1>13, <1>14, <1>15, GivenWritten
<1> QED
  BY <1>6, <1>7, <1>11, <1>16

-----------------------------------------------------------------------------
(* The calls of the reader *)

Place == Nat \X Values \X Nat
ReadType == [kind : {"arr", "map"}, items : Seq(Values) \cup Seq(Values \X Values),
             key : Values \cup {<<>>}]

\* f has read the first items of v
FrameOf(f, v) ==
    /\ f \in ReadType /\ f.kind = v[1] /\ Composite(v)
    /\ Len(f.items) <= Len(v[2])
    /\ \A i \in 1 .. Len(f.items) : f.items[i] = v[2][i]

\* f, which stands for place e, waits for the value of place c
Awaits(t, L, f, e, c) ==
    LET v == e[2]
        i == Len(f.items) + 1
    IN /\ i <= Len(v[2])
       /\ \/ v[1] = "arr" /\ f.key = <<>> /\ c[2] = v[2][i] /\ Rest(t, L, v, i, c[3], e[3])
          \/ /\ v[1] = "map" /\ f.key = <<>> /\ c[2] = v[2][i][1]
             /\ \E b, m \in Nat : /\ Token(t, c[3], ":", b)
                                  /\ <<b, v[2][i][2], m>> \in L
                                  /\ Rest(t, L, v, i, m, e[3])
          \/ /\ v[1] = "map" /\ f.key = v[2][i][1] /\ c[2] = v[2][i][2]
             /\ Rest(t, L, v, i, c[3], e[3])

\* f, which stands for place e, is in its loop, and a is the first character of
\* the next item or the closing bracket
Looping(t, L, f, e, a) ==
    LET v == e[2]
        i == Len(f.items) + 1
    IN /\ f.key = <<>>
       /\ \/ i = Len(v[2]) + 1 /\ Token(t, a, Closed(v), e[3]) /\ e[3] = a + 1
          \/ /\ i <= Len(v[2])
             /\ \E s, y \in Nat : /\ ItemAt(t, L, v, i, s, y) /\ Rest(t, L, v, i, y, e[3])
                                  /\ Skips(t, s, a)

\* C are the places for which the calls of the reader stand
Reads(t, L, src, st, C) ==
    /\ st \in Seq(ReadType)
    /\ C \in Seq(Place) /\ Len(C) >= 1 /\ C[1] = <<1, src, Len(t) + 1>>
    /\ \A k \in 1 .. Len(C) : C[k] \in L
    /\ Len(st) <= Len(C)
    /\ \A k \in 1 .. Len(st) : FrameOf(st[k], C[k][2])
    /\ \A k \in 2 .. Len(C) : Awaits(t, L, st[k - 1], C[k - 1], C[k])

\* The innermost call has returned, and the one around it goes on as f.
GoesBack(t, L, src, st, C, f, u) ==
    /\ Reads(t, L, src, st, C) /\ st # <<>> /\ Len(C) = Len(st) + 1
    /\ FrameOf(f, C[Len(st)][2]) /\ u = [st EXCEPT ![Len(st)] = f]

LEMMA ReadsBack ==
    ASSUME NEW t, NEW L, NEW src, NEW st, NEW C, NEW f, NEW u, GoesBack(t, L, src, st, C, f, u)
    PROVE  \E D : /\ Reads(t, L, src, u, D) /\ Len(D) = Len(st) /\ D[Len(st)] = C[Len(st)]
                  /\ Len(u) = Len(st) /\ u[Len(u)] = f
<1> USE DEF GoesBack
<1> DEFINE n == Len(st)
           D == SubSeq(C, 1, n)
<1>1. /\ n \in Nat \ {0} /\ Len(C) = n + 1 /\ C \in Seq(Place) /\ st \in Seq(ReadType)
      /\ n = Len(st)
  BY DEF Reads
<1>2. D \in Seq(Place) /\ Len(D) = n /\ \A k \in 1 .. n : D[k] = C[k]
  BY <1>1
<1>3. /\ u \in Seq(ReadType) /\ Len(u) = n /\ u[n] = f
      /\ \A k \in 1 .. n - 1 : u[k] = st[k]
  BY <1>1 DEF FrameOf
<1> HIDE DEF D, n
<1>4. ASSUME NEW k \in 1 .. n
      PROVE  FrameOf(u[k], D[k][2])
  <2>1. CASE k = n
    <3>1. FrameOf(f, C[n][2])
      BY DEF n
    <3> QED
      BY <1>2, <1>3, <2>1, <3>1
  <2>2. CASE k \in 1 .. n - 1
    <3>1. k \in 1 .. Len(st)
      BY <1>1, <2>2
    <3>2. FrameOf(st[k], C[k][2])
      BY <3>1 DEF Reads
    <3> QED
      BY <1>2, <1>3, <2>2, <3>2
  <2> QED
    BY <1>1, <2>1, <2>2
<1>5. ASSUME NEW k \in 2 .. n
      PROVE  Awaits(t, L, u[k - 1], D[k - 1], D[k])
  <2>1. k - 1 \in 1 .. n - 1 /\ k \in 1 .. n /\ k - 1 \in 1 .. n /\ k \in 2 .. Len(C)
    BY <1>1
  <2>2. u[k - 1] = st[k - 1] /\ D[k - 1] = C[k - 1] /\ D[k] = C[k]
    BY <1>2, <1>3, <2>1
  <2> QED
    BY <2>1, <2>2 DEF Reads
<1>6. D[1] = <<1, src, Len(t) + 1>> /\ \A k \in 1 .. n : D[k] \in L
  <2>1. \A k \in 1 .. n : k \in 1 .. Len(C)
    BY <1>1
  <2>2. 1 \in 1 .. n
    BY <1>1
  <2> QED
    BY <1>2, <2>1, <2>2 DEF Reads
<1>7. Reads(t, L, src, u, D)
  BY <1>1, <1>2, <1>3, <1>4, <1>5, <1>6 DEF Reads
<1>8. D[n] = C[n]
  BY <1>1, <1>2
<1> QED
  BY <1>2, <1>3, <1>7, <1>8 DEF D, n

\* A call of the reader begins for the part that the innermost one waits for.
LEMMA ReadsOn ==
    ASSUME NEW t, NEW L, NEW src, NEW st, NEW C, Reads(t, L, src, st, C),
           Len(C) = Len(st), NEW c, c \in L, L \subseteq Place,
           Awaits(t, L, st[Len(st)], C[Len(st)], c)
    PROVE  /\ Reads(t, L, src, st, Append(C, c))
           /\ Len(Append(C, c)) = Len(st) + 1
           /\ Append(C, c)[Len(st) + 1] = c
<1> DEFINE n == Len(st)
           D == Append(C, c)
<1>1. n \in Nat \ {0} /\ Len(C) = n /\ C \in Seq(Place) /\ n = Len(st) /\ c \in Place
  BY DEF Reads
<1>2. /\ D \in Seq(Place) /\ Len(D) = n + 1 /\ D[n + 1] = c
      /\ \A k \in 1 .. n : D[k] = C[k]
  BY <1>1
<1>3. Awaits(t, L, st[n], C[n], c)
  OBVIOUS
<1> HIDE DEF D, n
<1>4. ASSUME NEW k \in 1 .. n + 1
      PROVE  D[k] \in L
  <2>1. k = n + 1 \/ k \in 1 .. Len(C)
    BY <1>1
  <2>2. \A i \in 1 .. Len(C) : C[i] \in L
    BY DEF Reads
  <2> QED
    BY <1>1, <1>2, <2>1, <2>2
<1>5. ASSUME NEW k \in 1 .. n
      PROVE  FrameOf(st[k], D[k][2])
  <2>1. FrameOf(st[k], C[k][2])
    BY <1>1 DEF Reads
  <2> QED
    BY <1>2, <2>1
<1>6. ASSUME NEW k \in 2 .. n + 1
      PROVE  Awaits(t, L, st[k - 1], D[k - 1], D[k])
  <2>1. CASE k = n + 1
    <3>1. k - 1 = n /\ n \in 1 .. n
      BY <1>1, <2>1
    <3> QED
      BY <1>2, <1>3, <2>1, <3>1
  <2>2. CASE k \in 2 .. n
    <3>1. k - 1 \in 1 .. n /\ k \in 1 .. n /\ k \in 2 .. Len(C)
      BY <1>1, <2>2
    <3>2. D[k - 1] = C[k - 1] /\ D[k] = C[k]
      BY <1>2, <3>1
    <3> QED
      BY <3>1, <3>2 DEF Reads
  <2>3. k = n + 1 \/ k \in 2 .. n
    BY <1>1
  <2> QED
    BY <2>1, <2>2, <2>3
<1>7. D[1] = <<1, src, Len(t) + 1>>
  <2>1. 1 \in 1 .. n
    BY <1>1
  <2> QED
    BY <1>2, <2>1 DEF Reads
<1>8. st \in Seq(ReadType)
  BY DEF Reads
<1>9. Reads(t, L, src, st, D)
  BY <1>1, <1>2, <1>4, <1>5, <1>6, <1>7, <1>8 DEF Reads
<1> QED
  BY <1>2, <1>9 DEF D, n

\* The innermost call opens a bracket.
Opens(t, L, src, st, C, f, u) ==
    /\ Reads(t, L, src, st, C) /\ Len(C) = Len(st) + 1
    /\ FrameOf(f, C[Len(C)][2]) /\ u = Append(st, f)

LEMMA ReadsOpen ==
    ASSUME NEW t, NEW L, NEW src, NEW st, NEW C, NEW f, NEW u, Opens(t, L, src, st, C, f, u)
    PROVE  Reads(t, L, src, u, C) /\ Len(u) = Len(C) /\ u[Len(u)] = f
<1> USE DEF Opens
<1> DEFINE n == Len(st)
<1>1. /\ n \in Nat /\ Len(C) = n + 1 /\ n = Len(st)
      /\ u \in Seq(ReadType) /\ Len(u) = n + 1 /\ u[n + 1] = f
      /\ \A k \in 1 .. n : u[k] = st[k]
  BY DEF Reads, FrameOf
<1> HIDE DEF n
<1>2. ASSUME NEW k \in 1 .. n + 1
      PROVE  FrameOf(u[k], C[k][2])
  <2>1. CASE k = n + 1
    BY <1>1, <2>1
  <2>2. CASE k \in 1 .. n
    BY <1>1, <2>2 DEF Reads
  <2> QED
    BY <1>1, <2>1, <2>2
<1>3. ASSUME NEW k \in 2 .. Len(C)
      PROVE  Awaits(t, L, u[k - 1], C[k - 1], C[k])
  <2>1. k - 1 \in 1 .. n
    BY <1>1
  <2>2. u[k - 1] = st[k - 1]
    BY <1>1, <2>1
  <2> QED
    BY <2>2 DEF Reads
<1>4. Reads(t, L, src, u, C)
  BY <1>1, <1>2, <1>3 DEF Reads
<1> QED
  BY <1>1, <1>4

\* It closes it, and returns.
Closes(t, L, src, st, C, u) ==
    Reads(t, L, src, st, C) /\ Len(C) = Len(st) /\ u = SubSeq(st, 1, Len(st) - 1)

LEMMA ReadsClose ==
    ASSUME NEW t, NEW L, NEW src, NEW st, NEW C, NEW u, Closes(t, L, src, st, C, u)
    PROVE  Reads(t, L, src, u, C) /\ Len(C) = Len(u) + 1
<1> USE DEF Closes
<1> DEFINE n == Len(st)
<1>1. /\ n \in Nat \ {0} /\ Len(C) = n /\ n = Len(st)
      /\ u \in Seq(ReadType) /\ Len(u) = n - 1 /\ n - 1 \in Nat
      /\ \A k \in 1 .. n - 1 : u[k] = st[k]
  BY DEF Reads
<1> HIDE DEF n
<1>2. ASSUME NEW k \in 1 .. n - 1
      PROVE  FrameOf(u[k], C[k][2])
  <2>1. k \in 1 .. Len(st)
    BY <1>1
  <2>2. FrameOf(st[k], C[k][2])
    BY <2>1 DEF Reads
  <2> QED
    BY <1>1, <2>2
<1>3. ASSUME NEW k \in 2 .. Len(C)
      PROVE  Awaits(t, L, u[k - 1], C[k - 1], C[k])
  <2>1. k - 1 \in 1 .. n - 1
    BY <1>1
  <2>2. u[k - 1] = st[k - 1]
    BY <1>1, <2>1
  <2> QED
    BY <2>2 DEF Reads
<1>4. Reads(t, L, src, u, C)
  BY <1>1, <1>2, <1>3 DEF Reads
<1> QED
  BY <1>1, <1>4

-----------------------------------------------------------------------------
(* What the functions of the reader find in the text *)

LEMMA CharIs ==
    ASSUME NEW p
    PROVE  Char(p) = CharAt(text, p)
BY DEF Char, CharAt

LEMMA AfterIs ==
    ASSUME text \in Seq(Characters), NEW p \in Nat \ {0}, NEW q \in Nat, NEW S,
           p <= q, q <= Len(text) + 1, Char(q) \notin S,
           \A r \in p .. q - 1 : text[r] \in S
    PROVE  After(p, S) = q
<1> DEFINE Found(z) == Char(z) \notin S /\ \A r \in p .. z - 1 : text[r] \in S
<1>1. q \in p .. Len(text) + 1 /\ Found(q) /\ Len(text) \in Nat
  OBVIOUS
<1>2. ASSUME NEW z \in p .. Len(text) + 1, Found(z)
      PROVE  z = q
  <2>1. z \in Nat
    BY <1>1
  <2>2. ASSUME z < q
        PROVE  FALSE
    <3>1. z \in p .. q - 1 /\ z <= Len(text)
      BY <1>1, <1>2, <2>1, <2>2
    <3> QED
      BY <1>2, <3>1 DEF Char
  <2>3. ASSUME q < z
        PROVE  FALSE
    <3>1. q \in p .. z - 1 /\ q <= Len(text)
      BY <1>1, <1>2, <2>1, <2>3
    <3> QED
      BY <1>2, <3>1 DEF Char
  <2> QED
    BY <2>1, <2>2, <2>3
<1> HIDE DEF Found
<1>3. (CHOOSE z \in p .. Len(text) + 1 : Found(z)) = q
  BY <1>1, <1>2
<1> QED
  BY <1>3 DEF After, Found

LEMMA SkipIs ==
    ASSUME text \in Seq(Characters), NEW p, NEW b, Skips(text, p, b)
    PROVE  skip_space(p) = b
<1>1. /\ p \in Nat \ {0} /\ b \in Nat /\ p <= b /\ b <= Len(text) + 1
      /\ \A r \in p .. b - 1 : text[r] \in {Space}
  BY DEF Skips
<1>2. Char(b) \notin {Space}
  BY CharIs DEF Skips
<1> QED
  BY <1>1, <1>2, AfterIs DEF skip_space

\* What stands at the place that is read.
LEMMA AtValue ==
    ASSUME text \in Seq(Characters), NEW L, Layout(text, L),
           NEW p, NEW v, NEW q, <<p, v, q>> \in L,
           NEW a, NEW b, Skips(text, a, b), Skips(text, p, b)
    PROVE  /\ skip_space(a) = b /\ b \in Nat \ {0} /\ b <= Len(text)
           /\ Char(b) = text[b] /\ text[b] \in Starts
           /\ v \in Values /\ q \in Nat
           /\ Leaf(v) => text[b] = Spelling(v)[1] /\ Spelled(text, b, v, q)
           /\ Composite(v) => /\ text[b] = Opening(v)
                              /\ Rest(text, L, v, 0, b + 1, q)
<1>1. skip_space(a) = b
  BY SkipIs
<1>2. PICK z \in Nat : /\ Skips(text, p, z) /\ z <= Len(text) /\ text[z] \in Starts
                       /\ Leaf(v) => text[z] = Spelling(v)[1]
                       /\ Composite(v) => text[z] = Opening(v)
  BY PlaceStarts
<1>3. z = b
  BY <1>2, SkipsOnce
<1>4. b \in Nat \ {0} /\ Len(text) \in Nat
  BY Appended DEF Skips
<1>5. Char(b) = text[b]
  BY <1>2, <1>3 DEF Char
<1>6. v \in Values /\ q \in Nat /\ Justified(text, L, p, v, q)
  BY DEF Layout
<1>7. ~(Leaf(v) /\ Composite(v))
  BY LeafKinds
<1>8. ASSUME Leaf(v)
      PROVE  Spelled(text, b, v, q)
  <2>1. PICK c \in Nat : Skips(text, p, c) /\ Spelled(text, c, v, q)
    BY <1>6, <1>7, <1>8 DEF Justified, LeafAt
  <2>2. c = b
    BY <2>1, SkipsOnce
  <2> QED
    BY <2>1, <2>2
<1>9. ASSUME Composite(v)
      PROVE  Rest(text, L, v, 0, b + 1, q)
  <2>1. PICK x \in Nat : Token(text, p, Opening(v), x) /\ Rest(text, L, v, 0, x, q)
    BY <1>6, <1>7, <1>9 DEF Justified, Bracketed
  <2>2. x - 1 = b
    BY <2>1, SkipsOnce DEF Token
  <2>3. x = b + 1
    BY <1>4, <2>2
  <2> QED
    BY <2>1, <2>3
<1> QED
  BY <1>1, <1>2, <1>3, <1>4, <1>5, <1>6, <1>8, <1>9

LEMMA WordText ==
    ASSUME NEW v, Leaf(v), v[1] = "word", NEW b \in Nat \ {0}, NEW q, Spelled(text, b, v, q)
    PROVE  q = b + 1 /\ v = <<"word", v[2]>>
<1>1. Spelling(v) = <<v[2]>>
  BY SpellingIs
<1>2. Len(Spelling(v)) = 1
  BY <1>1
<1>3. q = b + 1
  BY <1>2 DEF Spelled
<1> QED
  BY <1>3, LeafKinds

LEMMA SubSeqIs ==
    ASSUME NEW t \in Seq(Characters), NEW a \in Nat \ {0}, NEW e \in Nat, e <= Len(t),
           NEW s \in Seq(Characters), Len(s) = e - a + 1,
           \A i \in 1 .. Len(s) : t[a + i - 1] = s[i]
    PROVE  SubSeq(t, a, e) = s
<1> DEFINE u == SubSeq(t, a, e)
<1>1. Len(s) \in Nat /\ Len(t) \in Nat
  OBVIOUS
<1>2. u = [i \in 1 .. Len(s) |-> t[a + i - 1]]
  BY <1>1
<1>3. \A i \in 1 .. Len(s) : u[i] = s[i]
  BY <1>2
<1>4. s = [i \in 1 .. Len(s) |-> s[i]]
  OBVIOUS
<1>5. u = [i \in 1 .. Len(s) |-> u[i]]
  BY <1>2
<1> HIDE DEF u
<1>6. u = s
  BY <1>3, <1>4, <1>5
<1> QED
  BY <1>6 DEF u

LEMMA StringText ==
    ASSUME text \in Seq(Characters), NEW v, Leaf(v), v[1] = "str",
           NEW b \in Nat \ {0}, NEW q, Spelled(text, b, v, q)
    PROVE  LET last == After(b + 1, Characters \ {Quote})
           IN /\ Past(last, Quote) = q
              /\ <<"str", SubSeq(text, b + 1, last - 1)>> = v
<1> DEFINE s == v[2]
           n == Len(s)
           S == Characters \ {Quote}
           z == b + 1 + n
<1>1. s \in Seq(S) /\ Spelling(v) = <<Quote>> \o s \o <<Quote>> /\ v = <<"str", s>>
  BY LeafStarts, SpellingIs, LeafKinds
<1> HIDE DEF s, S
<1>2. /\ n \in Nat /\ Len(Spelling(v)) = n + 2
      /\ \A i \in 1 .. n : Spelling(v)[i + 1] = s[i] /\ s[i] \in S
      /\ Spelling(v)[n + 2] = Quote
  BY <1>1
<1>3. /\ q = b + (n + 2) /\ q <= Len(text) + 1 /\ Len(text) \in Nat
      /\ \A i \in 1 .. n + 2 : text[b + i - 1] = Spelling(v)[i]
  BY <1>2, Appended DEF Spelled
<1> HIDE DEF n
<1>4. \A i \in 1 .. n : text[b + i] = s[i]
  <2> SUFFICES ASSUME NEW i \in 1 .. n
               PROVE  text[b + i] = s[i]
    OBVIOUS
  <2>1. i + 1 \in 1 .. n + 2 /\ b + (i + 1) - 1 = b + i
    BY <1>2
  <2>2. text[b + (i + 1) - 1] = Spelling(v)[i + 1]
    BY <1>3, <2>1
  <2> QED
    BY <1>2, <2>1, <2>2
<1>5. text[z] = Quote /\ z <= Len(text) /\ z \in Nat /\ q = z + 1
  <2>1. n + 2 \in 1 .. n + 2 /\ b + (n + 2) - 1 = z
    BY <1>2
  <2>2. text[b + (n + 2) - 1] = Spelling(v)[n + 2]
    BY <1>3, <2>1
  <2> QED
    BY <1>2, <1>3, <2>1, <2>2
<1>6. After(b + 1, S) = z
  <2>1. Char(z) \notin S
    BY <1>5 DEF Char, S
  <2>2. ASSUME NEW r \in b + 1 .. z - 1
        PROVE  text[r] \in S
    <3>1. r - b \in 1 .. n /\ b + (r - b) = r
      BY <1>2
    <3>2. text[b + (r - b)] = s[r - b] /\ s[r - b] \in S
      BY <1>2, <1>4, <3>1
    <3> QED
      BY <3>1, <3>2
  <2>3. b + 1 \in Nat \ {0} /\ b + 1 <= z /\ z <= Len(text) + 1
    BY <1>2, <1>3, <1>5
  <2> QED
    BY <1>5, <2>1, <2>2, <2>3, AfterIs
<1>7. Past(z, Quote) = q
  BY <1>5 DEF Past, Char
<1>8. SubSeq(text, b + 1, z - 1) = s
  <2>1. z - 1 \in Nat /\ z - 1 <= Len(text) /\ b + 1 \in Nat \ {0}
    BY <1>2, <1>3, <1>5
  <2>2. Len(s) = n /\ Len(s) = (z - 1) - (b + 1) + 1
    BY <1>2 DEF n
  <2>3. s \in Seq(Characters)
    BY <1>1 DEF S
  <2>4. \A i \in 1 .. Len(s) : text[(b + 1) + i - 1] = s[i]
    <3>1. \A i \in 1 .. n : (b + 1) + i - 1 = b + i
      BY <1>2
    <3> QED
      BY <1>4, <2>2, <3>1
  <2> HIDE DEF z
  <2> QED
    BY <2>1, <2>2, <2>3, <2>4, SubSeqIs
<1>9. v = <<"str", SubSeq(text, b + 1, z - 1)>>
  BY <1>1, <1>8
<1> QED
  BY <1>6, <1>7, <1>9 DEF S

LEMMA NumberText ==
    ASSUME text \in Seq(Characters), NEW v, Leaf(v), IsNumber(v),
           NEW b \in Nat \ {0}, NEW q, Spelled(text, b, v, q)
    PROVE  LET digits == Past(b, "-")
           IN /\ Char(digits) \in Digits /\ digits + 1 = q
              /\ Scanned(digits # b, Denotes[Char(digits)]) = v
<1> DEFINE d == NumeralOf(v)
           digits == Past(b, "-")
<1>1. d \in Digits /\ Denotes[d] = Printed(v) /\ v[2] \in Int
  BY LeafKinds, NumeralIs
<1>2. Scanned(v[2] < 0, Printed(v)) = v
  BY DEF Spelled, Survives, IsNumber
<1>3. d # "-" /\ Len(text) \in Nat
  BY <1>1, Differ, Appended
<1>4. Spelling(v) = IF v[2] < 0 THEN <<"-", d>> ELSE <<d>>
  BY SpellingIs
<1> HIDE DEF d
<1>5. CASE v[2] < 0
  <2> DEFINE w == Spelling(v)
  <2>1. Len(w) = 2 /\ w[1] = "-" /\ w[2] = d
    BY <1>4, <1>5
  <2>2. /\ q = b + 2 /\ q <= Len(text) + 1
        /\ text[b + 1 - 1] = "-" /\ text[b + 2 - 1] = d
    BY <2>1 DEF Spelled
  <2>3. text[b] = "-" /\ text[b + 1] = d /\ b + 1 <= Len(text)
    BY <1>3, <2>2
  <2>4. Char(b) = "-" /\ Char(b + 1) = d
    BY <1>3, <2>3 DEF Char
  <2>5. digits = b + 1 /\ (digits # b) = (v[2] < 0)
    BY <1>5, <2>4 DEF Past
  <2> HIDE DEF digits
  <2>6. Scanned(digits # b, Denotes[Char(digits)]) = v
    BY <1>1, <1>2, <2>4, <2>5
  <2> QED
    BY <1>1, <2>2, <2>4, <2>5, <2>6 DEF digits
<1>6. CASE ~(v[2] < 0)
  <2> DEFINE w == Spelling(v)
  <2>1. Len(w) = 1 /\ w[1] = d
    BY <1>4, <1>6
  <2>2. q = b + 1 /\ q <= Len(text) + 1 /\ text[b + 1 - 1] = d
    BY <2>1 DEF Spelled
  <2>3. text[b] = d /\ b <= Len(text)
    BY <1>3, <2>2
  <2>4. Char(b) = d
    BY <2>3 DEF Char
  <2>5. digits = b /\ (digits # b) = (v[2] < 0)
    BY <1>3, <1>6, <2>4 DEF Past
  <2> HIDE DEF digits
  <2>6. Scanned(digits # b, Denotes[Char(digits)]) = v
    BY <1>1, <1>2, <2>4, <2>5
  <2> QED
    BY <1>1, <2>2, <2>4, <2>5, <2>6 DEF digits
<1> QED
  BY <1>5, <1>6

-----------------------------------------------------------------------------
(* The inductive invariant *)

WriterInv ==
    /\ text \in Seq(Characters) /\ gap \in {<<>>, <<Space>>} /\ source \in Values
    /\ calls \in Seq(CallType) /\ \A k \in 1 .. Len(calls) : AtItem(calls[k])
    /\ at = 1 /\ stack = <<>>
    /\ mode = "write" => result \in Values
    /\ \E L, P : /\ Layout(text, L) /\ Chain(text, L, source, calls, P)
                 /\ mode = "write" => /\ ToWrite(text, L, source, calls, P)
                                      /\ result = Given(source, calls, Len(P))
                 /\ mode = "written" => IsWritten(text, L, source, calls, P)

\* the innermost call of the reader is at place c
Inner(L, C) ==
    LET c == C[Len(C)]
    IN \/ /\ mode = "value" /\ Len(C) = Len(stack) + 1
          /\ \E b \in Nat : Skips(text, at, b) /\ Skips(text, c[1], b)
       \/ /\ mode = "return" /\ Len(C) = Len(stack) + 1
          /\ result = c[2] /\ at = c[3]
       \/ /\ mode = "loop" /\ Len(C) = Len(stack)
          /\ Looping(text, L, stack[Len(stack)], c, at)

ReaderInv ==
    /\ text \in Seq(Characters) /\ source \in Values
    /\ \E L, C : Layout(text, L) /\ Reads(text, L, source, stack, C) /\ Inner(L, C)

IInv ==
    /\ mode \in {"write", "written", "value", "loop", "return", "done"}
    /\ mode \in {"write", "written"} => WriterInv
    /\ mode \in {"value", "loop", "return"} /\ source # <<>> => ReaderInv
    /\ RoundTrip

LEMMA InitInv == Init => IInv
<1> SUFFICES ASSUME Init
             PROVE  IInv
  OBVIOUS
<1>1. CASE mode = "value" /\ source = <<>>
  BY <1>1 DEF IInv, RoundTrip
<1>2. CASE mode = "write"
  <2>1. /\ text = <<>> /\ source \in Values /\ result = source /\ gap \in {<<>>, <<Space>>}
        /\ calls = <<>> /\ at = 1 /\ stack = <<>>
    BY <1>2 DEF Init
  <2> DEFINE P == <<1>>
  <2>2. P \in Seq(Nat) /\ Len(P) = 1 /\ P[1] = 1
    OBVIOUS
  <2> HIDE DEF P
  <2>3. text \in Seq(Characters) /\ Len(text) = 0 /\ calls \in Seq(CallType) /\ Len(calls) = 0
    BY <2>1
  <2>4. Layout(text, {})
    BY DEF Layout
  <2>5. Chain(text, {}, source, calls, P)
    BY <2>2, <2>3 DEF Chain
  <2>6. ToWrite(text, {}, source, calls, P)
    BY <2>2, <2>3 DEF ToWrite
  <2>7. result = Given(source, calls, Len(P))
    BY <2>1, <2>2 DEF Given
  <2>8. WriterInv
    BY <1>2, <2>1, <2>3, <2>4, <2>5, <2>6, <2>7 DEF WriterInv
  <2> QED
    BY <1>2, <2>8 DEF IInv, RoundTrip
<1> QED
  BY <1>1, <1>2 DEF Init

\* Steps of the writer other than the last lead to its invariant.
LEMMA StillWriting ==
    ASSUME mode' \in {"write", "written"}, WriterInv'
    PROVE  IInv'
BY DEF IInv, RoundTrip

LEMMA WriteLeafInv ==
    ASSUME IInv, WriteLeaf, Survives(result)
    PROVE  IInv'
<1>1. mode = "write" /\ WriterInv /\ Leaf(result) /\ mode' = "written"
  BY DEF IInv, WriteLeaf
<1>2. PICK L, P : /\ Layout(text, L) /\ Chain(text, L, source, calls, P)
                  /\ ToWrite(text, L, source, calls, P)
                  /\ result = Given(source, calls, Len(P))
  BY <1>1 DEF WriterInv
<1>3. text' = text \o gap \o Spelling(result) /\ UNCHANGED <<source, gap, calls, at, stack>>
  BY DEF WriteLeaf, Write, Reading
<1>4. /\ text \in Seq(Characters) /\ gap \in {<<>>, <<Space>>} /\ source \in Values
      /\ calls \in Seq(CallType) /\ \A k \in 1 .. Len(calls) : AtItem(calls[k])
      /\ at = 1 /\ stack = <<>> /\ result \in Values
  BY <1>1 DEF WriterInv
<1>5. /\ text' \in Seq(Characters)
      /\ \E M, Q : /\ Layout(text', M) /\ Chain(text', M, source, calls, Q)
                   /\ IsWritten(text', M, source, calls, Q)
  BY <1>1, <1>2, <1>3, <1>4, LeafStep
<1>6. WriterInv'
  BY <1>1, <1>3, <1>4, <1>5 DEF WriterInv
<1> QED
  BY <1>1, <1>6, StillWriting

LEMMA WriteOpenInv ==
    ASSUME IInv, WriteOpen
    PROVE  IInv'
<1>1. mode = "write" /\ WriterInv /\ Composite(result) /\ mode' = "written"
  BY DEF IInv, WriteOpen, Composite
<1>2. PICK L, P : /\ Layout(text, L) /\ Chain(text, L, source, calls, P)
                  /\ ToWrite(text, L, source, calls, P)
                  /\ result = Given(source, calls, Len(P))
  BY <1>1 DEF WriterInv
<1>3. /\ text' = text \o gap \o <<Opening(result)>>
      /\ calls' = Append(calls, [value |-> result, item |-> 0, key |-> FALSE])
      /\ UNCHANGED <<source, gap, at, stack>>
  BY DEF WriteOpen, Write, Reading, Opening
<1>4. /\ text \in Seq(Characters) /\ gap \in {<<>>, <<Space>>} /\ source \in Values
      /\ calls \in Seq(CallType) /\ \A k \in 1 .. Len(calls) : AtItem(calls[k])
      /\ at = 1 /\ stack = <<>> /\ result \in Values
  BY <1>1 DEF WriterInv
<1>5. /\ text' \in Seq(Characters)
      /\ calls' \in Seq(CallType) /\ \A k \in 1 .. Len(calls') : AtItem(calls'[k])
      /\ \E M, Q : /\ Layout(text', M) /\ Chain(text', M, source, calls', Q)
                   /\ IsWritten(text', M, source, calls', Q)
  BY <1>1, <1>2, <1>3, <1>4, OpenStep, ZenonT(30)
<1>6. WriterInv'
  BY <1>1, <1>3, <1>4, <1>5 DEF WriterInv
<1> QED
  BY <1>1, <1>6, StillWriting

\* What the writer's steps between values start from.
LEMMA BetweenValues ==
    ASSUME IInv, mode = "written"
    PROVE  /\ text \in Seq(Characters) /\ gap \in {<<>>, <<Space>>} /\ source \in Values
           /\ calls \in Seq(CallType) /\ \A k \in 1 .. Len(calls) : AtItem(calls[k])
           /\ at = 1 /\ stack = <<>>
           /\ \E L, P : /\ Layout(text, L) /\ Chain(text, L, source, calls, P)
                        /\ IsWritten(text, L, source, calls, P)
BY DEF IInv, WriterInv

LEMMA WriteItemInv ==
    ASSUME IInv, WriteItem
    PROVE  IInv'
<1> DEFINE n == Len(calls)
           c == calls[n]
           key == c.value[1] = "map"
           d == [value |-> c.value, item |-> c.item + 1, key |-> key]
<1>1. /\ text \in Seq(Characters) /\ gap \in {<<>>, <<Space>>} /\ source \in Values
      /\ calls \in Seq(CallType) /\ \A k \in 1 .. Len(calls) : AtItem(calls[k])
      /\ at = 1 /\ stack = <<>>
  BY BetweenValues DEF WriteItem
<1>2. PICK L, P : /\ Layout(text, L) /\ Chain(text, L, source, calls, P)
                  /\ IsWritten(text, L, source, calls, P)
  BY BetweenValues DEF WriteItem
<1>3. /\ calls # <<>> /\ ~c.key /\ c.item < Len(c.value[2])
      /\ mode' = "write" /\ UNCHANGED <<source, gap, at, stack>>
      /\ IF c.item = 0 THEN text' = text ELSE text' = text \o gap \o <<Comma>>
      /\ result' = IF key THEN c.value[2][c.item + 1][1] ELSE c.value[2][c.item + 1]
  BY DEF WriteItem, Write, Reading, Call, Items, Last
<1>4. n \in 1 .. Len(calls) /\ c \in CallType /\ AtItem(c) /\ c.item \in Nat
  BY <1>1, <1>2, <1>3, LastCall
<1>5. d \in CallType /\ d.value = c.value /\ d.item = c.item + 1 /\ d.key = key
  BY <1>4 DEF CallType
<1>6. GoesOn(calls, d, calls')
  BY DEF WriteItem, Becomes, Call, Last, GoesOn
<1>7. IF c.item = 0 THEN text' = text ELSE Appends(text, text', Comma)
  <2>1. Comma \in Characters \ {Space}
    BY Differ
  <2>2. Appends(text, text \o gap \o <<Comma>>, Comma)
    BY <1>1, <2>1, TokenAppended
  <2> QED
    BY <1>3, <2>2
<1>8. result' = Part(d) /\ result' \in Values
  <2>1. c.value \in Values /\ Composite(c.value)
    BY <1>4 DEF CallType, AtItem
  <2>2. c.item + 1 \in 1 .. Len(c.value[2])
    BY <1>3, <1>4, <2>1, CompositeIs
  <2>3. CASE c.value[1] = "arr"
    <3>1. c.value[1] # "map" /\ c.value[2] \in Seq(Values)
      BY <2>1, <2>3, CompositeIs
    <3>2. result' = c.value[2][c.item + 1]
      BY <1>3, <3>1
    <3> QED
      BY <1>5, <2>2, <2>3, <3>1, <3>2 DEF Part
  <2>4. CASE c.value[1] = "map"
    <3>1. c.value[1] # "arr" /\ c.value[2] \in Seq(Values \X Values)
      BY <2>1, <2>4, CompositeIs
    <3>2. result' = c.value[2][c.item + 1][1] /\ d.key
      BY <1>3, <1>5, <2>4
    <3> QED
      BY <1>5, <2>2, <3>1, <3>2 DEF Part
  <2> QED
    BY <2>1, <2>3, <2>4 DEF Composite
<1> HIDE DEF d, n, c, key
<1>9. c = calls[Len(calls)] /\ (d.key <=> c.value[1] = "map")
  BY <1>5 DEF c, n, key
<1>10. /\ text' \in Seq(Characters)
       /\ calls' \in Seq(CallType) /\ \A k \in 1 .. Len(calls') : AtItem(calls'[k])
       /\ \E M, Q : /\ Layout(text', M) /\ Chain(text', M, source, calls', Q)
                    /\ ToWrite(text', M, source, calls', Q)
                    /\ Given(source, calls', Len(Q)) = Part(d)
  <2>1. ItemAhead(text, L, source, calls, P, d, text', calls')
    BY <1>1, <1>2, <1>3, <1>5, <1>6, <1>7, <1>9 DEF ItemAhead
  <2> QED
    BY <2>1, ItemStep
<1>11. WriterInv'
  BY <1>1, <1>3, <1>8, <1>10 DEF WriterInv
<1> QED
  BY <1>3, <1>11, StillWriting

LEMMA WriteValueInv ==
    ASSUME IInv, WriteValue
    PROVE  IInv'
<1> DEFINE n == Len(calls)
           c == calls[n]
           d == [value |-> c.value, item |-> c.item, key |-> FALSE]
<1>1. /\ text \in Seq(Characters) /\ gap \in {<<>>, <<Space>>} /\ source \in Values
      /\ calls \in Seq(CallType) /\ \A k \in 1 .. Len(calls) : AtItem(calls[k])
      /\ at = 1 /\ stack = <<>>
  BY BetweenValues DEF WriteValue
<1>2. PICK L, P : /\ Layout(text, L) /\ Chain(text, L, source, calls, P)
                  /\ IsWritten(text, L, source, calls, P)
  BY BetweenValues DEF WriteValue
<1>3. /\ calls # <<>> /\ c.key
      /\ mode' = "write" /\ UNCHANGED <<source, gap, at, stack>>
      /\ text' = text \o gap \o <<":">>
      /\ result' = c.value[2][c.item][2]
  BY DEF WriteValue, Write, Reading, Call, Items, Last
<1>4. n \in 1 .. Len(calls) /\ c \in CallType /\ AtItem(c) /\ c.item \in Nat
  BY <1>1, <1>2, <1>3, LastCall
<1>5. d \in CallType /\ d.value = c.value /\ d.item = c.item /\ d.key = FALSE
  BY <1>4 DEF CallType
<1>6. GoesOn(calls, d, calls')
  BY DEF WriteValue, Becomes, Call, Last, GoesOn
<1>7. Appends(text, text', ":")
  <2>1. ":" \in Characters \ {Space}
    BY Differ
  <2>2. Appends(text, text \o gap \o <<":">>, ":")
    BY <1>1, <2>1, TokenAppended
  <2> QED
    BY <1>3, <2>2
<1>8. result' = Part(d) /\ result' \in Values
  <2>1. c.value \in Values /\ Composite(c.value) /\ c.value[1] = "map" /\ c.value[1] # "arr"
    BY <1>3, <1>4 DEF CallType, AtItem
  <2>2. c.item \in 1 .. Len(c.value[2]) /\ c.value[2] \in Seq(Values \X Values)
    BY <1>3, <1>4, <2>1, CompositeIs DEF AtItem
  <2> QED
    BY <1>3, <1>5, <2>1, <2>2 DEF Part
<1> HIDE DEF d, n, c
<1>9. c = calls[Len(calls)]
  BY DEF c, n
<1>10. /\ calls' \in Seq(CallType) /\ \A k \in 1 .. Len(calls') : AtItem(calls'[k])
       /\ \E M, Q : /\ Layout(text', M) /\ Chain(text', M, source, calls', Q)
                    /\ ToWrite(text', M, source, calls', Q)
                    /\ Given(source, calls', Len(Q)) = Part(d)
  <2>1. ValueAhead(text, L, source, calls, P, d, text', calls')
    BY <1>1, <1>2, <1>3, <1>5, <1>6, <1>7, <1>9 DEF ValueAhead
  <2> QED
    BY <2>1, ValueStep
<1>11. text' \in Seq(Characters)
  BY <1>7 DEF Appends
<1>12. WriterInv'
  BY <1>1, <1>3, <1>8, <1>10, <1>11 DEF WriterInv
<1> QED
  BY <1>3, <1>12, StillWriting

LEMMA WriteCloseInv ==
    ASSUME IInv, WriteClose
    PROVE  IInv'
<1> DEFINE n == Len(calls)
           c == calls[n]
<1>1. /\ text \in Seq(Characters) /\ gap \in {<<>>, <<Space>>} /\ source \in Values
      /\ calls \in Seq(CallType) /\ \A k \in 1 .. Len(calls) : AtItem(calls[k])
      /\ at = 1 /\ stack = <<>>
  BY BetweenValues DEF WriteClose
<1>2. PICK L, P : /\ Layout(text, L) /\ Chain(text, L, source, calls, P)
                  /\ IsWritten(text, L, source, calls, P)
  BY BetweenValues DEF WriteClose
<1>3. /\ calls # <<>> /\ ~c.key /\ c.item = Len(c.value[2])
      /\ mode' = "written" /\ UNCHANGED <<source, gap, at, stack>>
      /\ text' = text \o gap \o <<Closed(c.value)>>
      /\ calls' = SubSeq(calls, 1, Len(calls) - 1)
  BY DEF WriteClose, Write, Reading, Call, Items, Last, Front, Closed
<1>4. Appends(text, text', Closed(c.value))
  <2>1. Closed(c.value) \in Characters \ {Space}
    BY Brackets
  <2>2. Appends(text, text \o gap \o <<Closed(c.value)>>, Closed(c.value))
    BY <1>1, <2>1, TokenAppended
  <2> QED
    BY <1>3, <2>2
<1> HIDE DEF n, c
<1>5. c = calls[Len(calls)]
  BY DEF c, n
<1>6. /\ calls' \in Seq(CallType) /\ \A k \in 1 .. Len(calls') : AtItem(calls'[k])
      /\ \E M, Q : /\ Layout(text', M) /\ Chain(text', M, source, calls', Q)
                   /\ IsWritten(text', M, source, calls', Q)
  BY <1>1, <1>2, <1>3, <1>4, <1>5, CloseStep
<1>7. text' \in Seq(Characters)
  BY <1>4 DEF Appends
<1>8. WriterInv'
  BY <1>1, <1>3, <1>6, <1>7 DEF WriterInv
<1> QED
  BY <1>3, <1>8, StillWriting

LEMMA DeliverInv ==
    ASSUME IInv, Deliver
    PROVE  IInv'
<1>1. /\ text \in Seq(Characters) /\ source \in Values /\ calls = <<>>
      /\ at = 1 /\ stack = <<>>
      /\ mode' = "value" /\ at' = at /\ stack' = stack
  BY BetweenValues DEF Deliver, Reading
<1>2. PICK L, P : Layout(text, L) /\ IsWritten(text, L, source, calls, P)
  BY BetweenValues DEF Deliver
<1>3. ASSUME source' # <<>>
      PROVE  ReaderInv'
  <2>1. text' = SubSeq(text, 1, Len(text)) /\ source' = source
    BY <1>3 DEF Deliver
  <2>2. text' = text
    BY <1>1, <2>1
  <2>3. <<1, source, Len(text) + 1>> \in L
    BY <1>1, <1>2 DEF IsWritten
  <2>4. PICK c : c = <<1, source, Len(text) + 1>>
    OBVIOUS
  <2>5. c \in L /\ c \in Place /\ c[1] = 1
    BY <1>2, <2>3, <2>4 DEF Layout, Place
  <2>6. PICK C \in Seq(Place) : Len(C) = 1 /\ C[1] = c
    <3>1. <<c>> \in Seq(Place) /\ Len(<<c>>) = 1 /\ <<c>>[1] = c
      BY <2>5
    <3> QED
      BY <3>1
  <2>7. PICK b \in Nat : Skips(text, 1, b)
    BY <1>1, <1>2, <2>3, PlaceStarts
  <2>8. Reads(text, L, source, stack, C)
    BY <1>1, <2>4, <2>5, <2>6 DEF Reads
  <2>9. Inner(L, C)'
    <3>1. mode' = "value" /\ Len(C) = Len(stack') + 1
      BY <1>1, <2>6
    <3>2. Skips(text', at', b) /\ Skips(text', C[Len(C)][1], b)
      BY <1>1, <2>2, <2>5, <2>6, <2>7
    <3> QED
      BY <3>1, <3>2 DEF Inner
  <2> QED
    BY <1>1, <1>2, <2>1, <2>2, <2>8, <2>9 DEF ReaderInv
<1> QED
  BY <1>1, <1>3 DEF IInv, RoundTrip

-----------------------------------------------------------------------------
(* The steps of the reader *)

\* The character at the place of a value says of what kind the value is.
LEMMA KindOf ==
    ASSUME NEW v \in Values, NEW c,
           Leaf(v) => c = Spelling(v)[1], Composite(v) => c = Opening(v)
    PROVE  /\ c = Quote => Leaf(v) /\ v[1] = "str"
           /\ c \in {"-"} \cup Digits => Leaf(v) /\ IsNumber(v)
           /\ c \in Words => Leaf(v) /\ v[1] = "word" /\ v[2] = c
           /\ c = "[" => v[1] = "arr"
           /\ c = LeftBrace => v[1] = "map"
<1>1. CASE Leaf(v) /\ v[1] = "word"
  <2>1. c \in Words /\ v[2] = c
    BY <1>1, LeafStarts
  <2> QED
    BY <1>1, <2>1, Differ
<1>2. CASE Leaf(v) /\ IsNumber(v)
  <2>1. c \in {"-"} \cup Digits
    BY <1>2, LeafStarts
  <2>2. c # Quote /\ c \notin Words /\ c # "[" /\ c # LeftBrace
    BY <2>1, Differ
  <2> QED
    BY <1>2, <2>1, <2>2
<1>3. CASE Leaf(v) /\ v[1] = "str"
  <2>1. c = Quote
    BY <1>3, LeafStarts
  <2>2. c # "-" /\ c \notin Digits /\ c \notin Words /\ c # "[" /\ c # LeftBrace
    BY <2>1, Differ
  <2> QED
    BY <1>3, <2>1, <2>2
<1>4. CASE v[1] = "arr"
  <2>1. c = "["
    BY <1>4 DEF Composite, Opening
  <2>2. c # Quote /\ c # "-" /\ c \notin Digits /\ c \notin Words /\ c # LeftBrace
    BY <2>1, Differ
  <2> QED
    BY <1>4, <2>1, <2>2
<1>5. CASE v[1] = "map"
  <2>1. c = LeftBrace
    BY <1>5 DEF Composite, Opening
  <2>2. c # Quote /\ c # "-" /\ c \notin Digits /\ c \notin Words /\ c # "["
    BY <2>1, Differ
  <2> QED
    BY <1>5, <2>1, <2>2
<1> QED
  BY <1>1, <1>2, <1>3, <1>4, <1>5, Kinds

\* An item of an array or of a map starts with a character of a value.
LEMMA ItemStarts ==
    ASSUME NEW t \in Seq(Characters), NEW L, Layout(t, L), NEW v, NEW i, NEW s, NEW y,
           ItemAt(t, L, v, i, s, y)
    PROVE  \E b \in Nat : Skips(t, s, b) /\ b <= Len(t) /\ t[b] \in Starts
<1>1. CASE v[1] = "arr"
  <2>1. <<s, v[2][i], y>> \in L
    BY <1>1 DEF ItemAt
  <2> QED
    BY <2>1, PlaceStarts
<1>2. CASE v[1] # "arr"
  <2>1. PICK a \in Nat : <<s, v[2][i][1], a>> \in L
    BY <1>2 DEF ItemAt
  <2> QED
    BY <2>1, PlaceStarts
<1> QED
  BY <1>1, <1>2

\* Where the loop of a call goes on, behind its opening bracket and behind an
\* item.
LEMMA LoopsOn ==
    ASSUME text \in Seq(Characters), NEW L, Layout(text, L),
           NEW e, e[2] \in Values, NEW f, FrameOf(f, e[2]), f.key = <<>>,
           NEW x \in Nat, Rest(text, L, e[2], Len(f.items), x, e[3])
    PROVE  /\ f.items = <<>> => Looping(text, L, f, e, skip_space(x))
           /\ f.items # <<>> =>
                 LET p == skip_space(x)
                 IN Looping(text, L, f, e, IF Char(p) = Comma THEN skip_space(p + 1) ELSE p)
<1> DEFINE v == e[2]
           q == e[3]
           i == Len(f.items)
           p == skip_space(x)
<1>1. /\ i \in Nat /\ Len(v[2]) \in Nat /\ i <= Len(v[2]) /\ (i = 0 <=> f.items = <<>>)
      /\ Len(text) \in Nat
  BY CompositeIs, Appended DEF FrameOf, ReadType
<1>2. CASE i = Len(v[2])
  <2>1. Token(text, x, Closed(v), q)
    BY <1>1, <1>2, RestEnd
  <2>2. Skips(text, x, q - 1) /\ q \in Nat /\ q - 1 <= Len(text) /\ text[q - 1] = Closed(v)
    BY <2>1 DEF Token
  <2>3. p = q - 1
    BY <2>2, SkipIs
  <2>4. Char(p) = Closed(v) /\ Closed(v) # Comma
    BY <2>2, <2>3, Brackets DEF Char
  <2>5. Token(text, p, Closed(v), q) /\ q = p + 1
    BY <2>2, <2>3, SkipsNone DEF Token
  <2> HIDE DEF p
  <2>6. Looping(text, L, f, e, p)
    BY <1>1, <1>2, <2>5 DEF Looping
  <2> QED
    BY <2>4, <2>6 DEF p
<1>3. CASE i < Len(v[2])
  <2>1. PICK y \in Nat : Entry(text, L, v, i + 1, x, y) /\ Rest(text, L, v, i + 1, y, q)
    BY <1>1, <1>3, RestNext
  <2>2. PICK s \in Nat : Ahead(text, x, i + 1, s) /\ ItemAt(text, L, v, i + 1, s, y)
    BY <2>1 DEF Entry
  <2>3. PICK b \in Nat : Skips(text, s, b) /\ b <= Len(text) /\ text[b] \in Starts
    BY <2>2, ItemStarts
  <2>4. Looping(text, L, f, e, b)
    BY <1>1, <1>3, <2>1, <2>2, <2>3, SMTT(30) DEF Looping
  <2>5. skip_space(s) = b
    BY <2>3, SkipIs
  <2>6. CASE i = 0
    BY <1>1, <2>2, <2>4, <2>5, <2>6 DEF Ahead
  <2>7. CASE i # 0
    <3>1. Token(text, x, Comma, s)
      BY <1>1, <2>2, <2>7 DEF Ahead
    <3>2. p = s - 1
      BY <3>1, SkipIs DEF Token
    <3>3. Char(p) = Comma /\ p + 1 = s
      BY <3>1, <3>2 DEF Token, Char
    <3> HIDE DEF p
    <3> QED
      BY <1>1, <2>4, <2>5, <2>7, <3>3 DEF p
  <2> QED
    BY <2>6, <2>7
<1> QED
  BY <1>1, <1>2, <1>3

\* Steps of the reader lead to its invariant.
LEMMA StillReading ==
    ASSUME NEW L, NEW C, UNCHANGED written, text \in Seq(Characters), source \in Values,
           Layout(text, L), Reads(text, L, source, stack', C), Inner(L, C)'
    PROVE  IInv'
<1>1. text' = text /\ source' = source
  BY DEF written
<1>2. ReaderInv'
  BY <1>1 DEF ReaderInv
<1>3. mode' \in {"value", "loop", "return"}
  BY DEF Inner
<1> QED
  BY <1>2, <1>3 DEF IInv, RoundTrip

\* The innermost call of the reader is at place <<p, v, q>>, and the value starts
\* at b.
ValueAt(L, C, p, v, q, b) ==
    /\ text \in Seq(Characters) /\ source \in Values
    /\ Layout(text, L) /\ Reads(text, L, source, stack, C) /\ Len(C) = Len(stack) + 1
    /\ C[Len(C)] = <<p, v, q>>
    /\ skip_space(at) = b /\ b \in Nat \ {0} /\ b <= Len(text)
    /\ Char(b) = text[b] /\ text[b] \in Starts
    /\ v \in Values /\ q \in Nat
    /\ Leaf(v) => text[b] = Spelling(v)[1] /\ Spelled(text, b, v, q)
    /\ Composite(v) => text[b] = Opening(v) /\ Rest(text, L, v, 0, b + 1, q)

LEMMA ValueFound ==
    ASSUME IInv, mode = "value", source # <<>>
    PROVE  \E L, C, p, v, q, b : ValueAt(L, C, p, v, q, b)
<1>1. text \in Seq(Characters) /\ source \in Values
  BY DEF IInv, ReaderInv
<1>2. PICK L, C : Layout(text, L) /\ Reads(text, L, source, stack, C) /\ Inner(L, C)
  BY DEF IInv, ReaderInv
<1>3. Len(C) \in 1 .. Len(C) /\ C[Len(C)] \in L /\ C[Len(C)] \in Place
  BY <1>2 DEF Reads
<1>4. PICK p, v, q : C[Len(C)] = <<p, v, q>>
  BY <1>3 DEF Place
<1>5. Len(C) = Len(stack) + 1 /\ \E b \in Nat : Skips(text, at, b) /\ Skips(text, p, b)
  BY <1>2, <1>4 DEF Inner
<1>6. PICK b \in Nat : Skips(text, at, b) /\ Skips(text, p, b)
  BY <1>5
<1>7. <<p, v, q>> \in L
  BY <1>3, <1>4
<1>8. /\ skip_space(at) = b /\ b \in Nat \ {0} /\ b <= Len(text)
      /\ Char(b) = text[b] /\ text[b] \in Starts
      /\ v \in Values /\ q \in Nat
      /\ Leaf(v) => text[b] = Spelling(v)[1] /\ Spelled(text, b, v, q)
      /\ Composite(v) => text[b] = Opening(v) /\ Rest(text, L, v, 0, b + 1, q)
  BY <1>1, <1>2, <1>6, <1>7, AtValue
<1>9. ValueAt(L, C, p, v, q, b)
  BY <1>1, <1>2, <1>4, <1>5, <1>8 DEF ValueAt
<1> QED
  BY <1>9

\* The innermost call returns the value of its place.
LEMMA Returned ==
    ASSUME NEW L, NEW C, NEW p, NEW v, NEW q, NEW b, ValueAt(L, C, p, v, q, b),
           UNCHANGED <<written, stack>>, mode' = "return", result' = v, at' = q
    PROVE  IInv'
<1>1. /\ text \in Seq(Characters) /\ source \in Values /\ Layout(text, L)
      /\ Reads(text, L, source, stack', C) /\ Len(C) = Len(stack') + 1
      /\ C[Len(C)][2] = v /\ C[Len(C)][3] = q
  BY DEF ValueAt
<1>2. Inner(L, C)'
  BY <1>1 DEF Inner
<1> QED
  BY <1>1, <1>2, StillReading

LEMMA StringInv ==
    ASSUME IInv, String, source # <<>>
    PROVE  IInv'
<1>1. mode = "value" /\ Char(skip_space(at)) = Quote /\ mode' = "return"
      /\ UNCHANGED <<written, stack>>
  BY DEF String, Start, Returns
<1>2. PICK L, C, p, v, q, b : ValueAt(L, C, p, v, q, b)
  BY <1>1, ValueFound
<1>3. /\ text \in Seq(Characters) /\ skip_space(at) = b /\ b \in Nat \ {0} /\ text[b] = Quote
      /\ v \in Values
      /\ Leaf(v) => text[b] = Spelling(v)[1] /\ Spelled(text, b, v, q)
      /\ Composite(v) => text[b] = Opening(v)
  BY <1>1, <1>2 DEF ValueAt
<1>4. Leaf(v) /\ v[1] = "str"
  BY <1>3, KindOf
<1> DEFINE last == After(b + 1, Characters \ {Quote})
<1>5. Past(last, Quote) = q /\ <<"str", SubSeq(text, b + 1, last - 1)>> = v
  BY <1>3, <1>4, StringText, ZenonT(30)
<1>6. result' = <<"str", SubSeq(text, b + 1, last - 1)>> /\ at' = Past(last, Quote)
  BY <1>3 DEF String, Returns
<1> QED
  BY <1>1, <1>2, <1>5, <1>6, Returned

LEMMA NumberInv ==
    ASSUME IInv, Number, source # <<>>
    PROVE  IInv'
<1>1. mode = "value" /\ Char(skip_space(at)) \in {"-"} \cup Digits /\ mode' = "return"
      /\ UNCHANGED <<written, stack>>
  BY DEF Number, Start, Returns
<1>2. PICK L, C, p, v, q, b : ValueAt(L, C, p, v, q, b)
  BY <1>1, ValueFound
<1>3. /\ text \in Seq(Characters) /\ skip_space(at) = b /\ b \in Nat \ {0}
      /\ text[b] \in {"-"} \cup Digits
      /\ v \in Values
      /\ Leaf(v) => text[b] = Spelling(v)[1] /\ Spelled(text, b, v, q)
      /\ Composite(v) => text[b] = Opening(v)
  BY <1>1, <1>2 DEF ValueAt
<1>4. Leaf(v) /\ IsNumber(v)
  BY <1>3, KindOf
<1> DEFINE digits == Past(b, "-")
<1>5. /\ Char(digits) \in Digits /\ digits + 1 = q
      /\ Scanned(digits # b, Denotes[Char(digits)]) = v
  BY <1>3, <1>4, NumberText
<1>6. result' = v /\ at' = q
  <2>1. LET found == Char(digits) \in Digits
            size == IF found THEN Denotes[Char(digits)] ELSE 0
        IN /\ result' = Scanned(digits # b, size)
           /\ at' = IF found THEN digits + 1 ELSE b
    BY <1>3 DEF Number, Returns
  <2> HIDE DEF digits
  <2> QED
    BY <1>5, <2>1
<1> QED
  BY <1>1, <1>2, <1>6, Returned

LEMMA WordInv ==
    ASSUME IInv, Word, source # <<>>
    PROVE  IInv'
<1>1. PICK w \in Words : /\ mode = "value" /\ Char(skip_space(at)) = w /\ mode' = "return"
                         /\ result' = <<"word", w>> /\ at' = skip_space(at) + 1
                         /\ UNCHANGED <<written, stack>>
  BY DEF Word, Start, Returns
<1>2. PICK L, C, p, v, q, b : ValueAt(L, C, p, v, q, b)
  BY <1>1, ValueFound
<1>3. /\ skip_space(at) = b /\ b \in Nat \ {0} /\ text[b] = w
      /\ v \in Values
      /\ Leaf(v) => text[b] = Spelling(v)[1] /\ Spelled(text, b, v, q)
      /\ Composite(v) => text[b] = Opening(v)
  BY <1>1, <1>2 DEF ValueAt
<1>4. Leaf(v) /\ v[1] = "word" /\ v[2] = w
  BY <1>3, KindOf
<1>5. q = b + 1 /\ v = <<"word", w>>
  BY <1>3, <1>4, WordText
<1> QED
  BY <1>1, <1>2, <1>3, <1>5, Returned

\* Where a value was written, one starts.
LEMMA NothingInv ==
    ASSUME IInv, Nothing, source # <<>>
    PROVE  FALSE
<1>1. mode = "value" /\ Char(skip_space(at)) \in {"]", RightBrace, Comma, ":", Other, End}
  BY DEF Nothing, Start
<1>2. PICK L, C, p, v, q, b : ValueAt(L, C, p, v, q, b)
  BY <1>1, ValueFound
<1>3. Char(skip_space(at)) \in Starts
  BY <1>2 DEF ValueAt
<1> QED
  BY <1>1, <1>3, Differ

\* A call that opens a bracket.
LEMMA OpenInv ==
    ASSUME IInv, source # <<>>, mode = "value", mode' = "loop", UNCHANGED written,
           Char(skip_space(at)) \in {"[", LeftBrace},
           at' = skip_space(skip_space(at) + 1),
           NEW f \in ReadType, f.items = <<>>, f.key = <<>>,
           Char(skip_space(at)) = "[" => f.kind = "arr",
           Char(skip_space(at)) = LeftBrace => f.kind = "map",
           stack' = Append(stack, f)
    PROVE  IInv'
<1>1. PICK L, C, p, v, q, b : ValueAt(L, C, p, v, q, b)
  BY ValueFound
<1>2. /\ text \in Seq(Characters) /\ source \in Values /\ Layout(text, L)
      /\ Reads(text, L, source, stack, C) /\ Len(C) = Len(stack) + 1
      /\ C[Len(C)] = <<p, v, q>>
      /\ skip_space(at) = b /\ b \in Nat /\ Char(b) = text[b] /\ v \in Values
      /\ Leaf(v) => text[b] = Spelling(v)[1]
      /\ Composite(v) => text[b] = Opening(v) /\ Rest(text, L, v, 0, b + 1, q)
  BY <1>1 DEF ValueAt
<1>3. /\ text[b] = "[" => v[1] = "arr"
      /\ text[b] = LeftBrace => v[1] = "map"
  BY <1>2, KindOf
<1>4. f.kind = v[1] /\ Composite(v)
  <2>1. text[b] = "[" \/ text[b] = LeftBrace
    BY <1>2
  <2>2. "[" # LeftBrace
    BY Differ
  <2> QED
    BY <1>2, <1>3, <2>1, <2>2 DEF Composite
<1>5. FrameOf(f, v) /\ Len(f.items) = 0
  BY <1>2, <1>4, CompositeIs DEF FrameOf
<1> DEFINE e == C[Len(C)]
<1>6. e[2] = v /\ e[3] = q
  BY <1>2
<1> HIDE DEF e
<1>7. Looping(text, L, f, e, skip_space(b + 1))
  <2>1. Rest(text, L, e[2], Len(f.items), b + 1, e[3]) /\ b + 1 \in Nat
    BY <1>2, <1>4, <1>5, <1>6
  <2> QED
    BY <1>2, <1>4, <1>5, <1>6, <2>1, LoopsOn
<1>8. Reads(text, L, source, stack', C) /\ Len(stack') = Len(C) /\ stack'[Len(stack')] = f
  <2>1. FrameOf(f, C[Len(C)][2])
    BY <1>5, <1>6 DEF e
  <2>2. PICK u : u = stack'
    OBVIOUS
  <2>3. Opens(text, L, source, stack, C, f, u)
    BY <1>2, <2>1, <2>2 DEF Opens
  <2>4. Reads(text, L, source, u, C) /\ Len(u) = Len(C) /\ u[Len(u)] = f
    BY <2>3, ReadsOpen
  <2> QED
    BY <2>2, <2>4
<1>9. Inner(L, C)'
  <2>1. text' = text
    BY DEF written
  <2>2. Looping(text', L, stack'[Len(stack')], C[Len(C)], at')
    BY <1>2, <1>7, <1>8, <2>1 DEF e
  <2> QED
    BY <1>8, <2>2 DEF Inner
<1> QED
  BY <1>2, <1>8, <1>9, StillReading

LEMMA EmptyFrame ==
    ASSUME NEW k \in {"arr", "map"}
    PROVE  \E f \in ReadType : /\ f.kind = k /\ f.items = <<>> /\ f.key = <<>>
                               /\ [kind |-> k, items |-> <<>>, key |-> <<>>] = f
<1> DEFINE f == [kind |-> k, items |-> <<>>, key |-> <<>>]
<1>1. f.kind = k /\ f.items = <<>> /\ f.key = <<>>
  OBVIOUS
<1>2. <<>> \in Seq(Values) \cup Seq(Values \X Values) /\ <<>> \in Values \cup {<<>>}
  OBVIOUS
<1>3. f \in ReadType
  BY <1>2 DEF ReadType
<1> QED
  BY <1>1, <1>3

LEMMA OpenArrayInv ==
    ASSUME IInv, OpenArray, source # <<>>
    PROVE  IInv'
<1>1. PICK f \in ReadType : /\ f.kind = "arr" /\ f.items = <<>> /\ f.key = <<>>
                           /\ [kind |-> "arr", items |-> <<>>, key |-> <<>>] = f
  BY EmptyFrame
<1>2. /\ mode = "value" /\ mode' = "loop" /\ UNCHANGED written
      /\ Char(skip_space(at)) = "[" /\ at' = skip_space(skip_space(at) + 1)
      /\ stack' = Append(stack, [kind |-> "arr", items |-> <<>>, key |-> <<>>])
  BY DEF OpenArray, Start
<1>3. stack' = Append(stack, f) /\ f.items = <<>> /\ f.key = <<>> /\ f.kind = "arr"
  BY <1>1, <1>2
<1>4. LeftBrace # "["
  BY Differ
<1> QED
  BY <1>2, <1>3, <1>4, OpenInv

LEMMA OpenObjectInv ==
    ASSUME IInv, OpenObject, source # <<>>
    PROVE  IInv'
<1>1. PICK f \in ReadType : /\ f.kind = "map" /\ f.items = <<>> /\ f.key = <<>>
                           /\ [kind |-> "map", items |-> <<>>, key |-> <<>>] = f
  BY EmptyFrame
<1>2. /\ mode = "value" /\ mode' = "loop" /\ UNCHANGED written
      /\ Char(skip_space(at)) = LeftBrace /\ at' = skip_space(skip_space(at) + 1)
      /\ stack' = Append(stack, [kind |-> "map", items |-> <<>>, key |-> <<>>])
  BY DEF OpenObject, Start
<1>3. stack' = Append(stack, f) /\ f.items = <<>> /\ f.key = <<>> /\ f.kind = "map"
  BY <1>1, <1>2
<1>4. LeftBrace # "["
  BY Differ
<1> QED
  BY <1>2, <1>3, <1>4, OpenInv

\* The innermost call is f, which is in its loop, and stands for place e.
LoopAt(L, C, f, e) ==
    /\ text \in Seq(Characters) /\ source \in Values
    /\ Layout(text, L) /\ Reads(text, L, source, stack, C)
    /\ Len(C) = Len(stack) /\ stack # <<>>
    /\ f = stack[Len(stack)] /\ e = C[Len(C)] /\ e[2] \in Values
    /\ FrameOf(f, e[2]) /\ Looping(text, L, f, e, at)

LEMMA LoopFound ==
    ASSUME IInv, mode = "loop", source # <<>>
    PROVE  \E L, C, f, e : LoopAt(L, C, f, e)
<1>1. text \in Seq(Characters) /\ source \in Values
  BY DEF IInv, ReaderInv
<1>2. PICK L, C : Layout(text, L) /\ Reads(text, L, source, stack, C) /\ Inner(L, C)
  BY DEF IInv, ReaderInv
<1>3. Len(C) = Len(stack) /\ Looping(text, L, stack[Len(stack)], C[Len(C)], at)
  BY <1>2 DEF Inner
<1>4. Len(C) \in 1 .. Len(C) /\ C[Len(C)] \in L /\ C[Len(C)] \in Place /\ stack # <<>>
  BY <1>2, <1>3 DEF Reads
<1>5. C[Len(C)][2] \in Values
  BY <1>4 DEF Place
<1>6. FrameOf(stack[Len(stack)], C[Len(C)][2])
  BY <1>2, <1>3, <1>4 DEF Reads
<1>7. LoopAt(L, C, stack[Len(stack)], C[Len(C)])
  BY <1>1, <1>2, <1>3, <1>4, <1>5, <1>6 DEF LoopAt
<1> QED
  BY <1>7

\* At the closing bracket all items have been read, in front of it an item starts.
LEMMA LoopChar ==
    ASSUME NEW L, NEW C, NEW f, NEW e, LoopAt(L, C, f, e)
    PROVE  /\ Closing = Closed(e[2])
           /\ \/ Char(at) = Closing /\ Len(f.items) = Len(e[2][2]) /\ e[3] = at + 1
              \/ /\ Char(at) \in Starts /\ Len(f.items) + 1 <= Len(e[2][2])
                 /\ f.key = <<>>
                 /\ \E s, y \in Nat : /\ ItemAt(text, L, e[2], Len(f.items) + 1, s, y)
                                      /\ Rest(text, L, e[2], Len(f.items) + 1, y, e[3])
                                      /\ Skips(text, s, at)
<1> DEFINE v == e[2]
           i == Len(f.items) + 1
<1>1. /\ text \in Seq(Characters) /\ Layout(text, L) /\ f = stack[Len(stack)]
      /\ FrameOf(f, v) /\ Looping(text, L, f, e, at) /\ v \in Values
  BY DEF LoopAt
<1>2. Closing = Closed(v)
  BY <1>1 DEF Closing, Closed, Last, FrameOf
<1>3. Len(f.items) \in Nat /\ Len(v[2]) \in Nat
  BY <1>1, CompositeIs DEF FrameOf, ReadType
<1>4. CASE i = Len(v[2]) + 1 /\ Token(text, at, Closed(v), e[3]) /\ e[3] = at + 1
  <2>1. e[3] - 1 = at /\ at <= Len(text) /\ text[at] = Closed(v)
    BY <1>4 DEF Token, Skips
  <2>2. Char(at) = Closed(v)
    BY <2>1 DEF Char
  <2> QED
    BY <1>2, <1>3, <1>4, <2>2
<1>5. CASE /\ i <= Len(v[2])
           /\ \E s, y \in Nat : /\ ItemAt(text, L, v, i, s, y) /\ Rest(text, L, v, i, y, e[3])
                                /\ Skips(text, s, at)
  <2>1. PICK s \in Nat, y \in Nat : /\ ItemAt(text, L, v, i, s, y)
                                    /\ Rest(text, L, v, i, y, e[3]) /\ Skips(text, s, at)
    BY <1>5
  <2>2. PICK b \in Nat : Skips(text, s, b) /\ b <= Len(text) /\ text[b] \in Starts
    BY <1>1, <2>1, ItemStarts
  <2>3. b = at
    BY <1>1, <2>1, <2>2, SkipsOnce
  <2>4. Char(at) \in Starts
    BY <2>2, <2>3 DEF Char
  <2>5. f.key = <<>>
    BY <1>1 DEF Looping
  <2> QED
    BY <1>2, <1>5, <2>1, <2>4, <2>5
<1> QED
  BY <1>1, <1>4, <1>5 DEF Looping

LEMMA ItemInv ==
    ASSUME IInv, Item, source # <<>>
    PROVE  IInv'
<1>1. /\ mode = "loop" /\ Char(at) # Closing /\ mode' = "value"
      /\ UNCHANGED <<written, at, stack, result>>
  BY DEF Item
<1>2. PICK L, C, f, e : LoopAt(L, C, f, e)
  BY <1>1, LoopFound
<1> DEFINE v == e[2]
           i == Len(f.items) + 1
<1>3. /\ text \in Seq(Characters) /\ source \in Values /\ Layout(text, L)
      /\ Reads(text, L, source, stack, C) /\ Len(C) = Len(stack)
      /\ f = stack[Len(stack)] /\ e = C[Len(C)] /\ FrameOf(f, v)
  BY <1>2 DEF LoopAt
<1>4. i <= Len(v[2]) /\ f.key = <<>>
  BY <1>1, <1>2, LoopChar
<1>5. PICK s \in Nat, y \in Nat : /\ ItemAt(text, L, v, i, s, y)
                                  /\ Rest(text, L, v, i, y, e[3]) /\ Skips(text, s, at)
  BY <1>1, <1>2, LoopChar
<1>6. \E c \in L : c[1] = s /\ Awaits(text, L, f, e, c)
  <2>1. CASE v[1] = "arr"
    <3>1. <<s, v[2][i], y>> \in L
      BY <1>5, <2>1 DEF ItemAt
    <3>2. PICK c \in L : c[1] = s /\ c[2] = v[2][i] /\ c[3] = y
      BY <3>1
    <3> QED
      BY <1>4, <1>5, <2>1, <3>2 DEF Awaits
  <2>2. CASE v[1] = "map"
    <3>1. PICK a \in Nat, b \in Nat : /\ <<s, v[2][i][1], a>> \in L
                                      /\ Token(text, a, ":", b)
                                      /\ <<b, v[2][i][2], y>> \in L
      BY <1>5, <2>2 DEF ItemAt
    <3>2. PICK c \in L : c[1] = s /\ c[2] = v[2][i][1] /\ c[3] = a
      BY <3>1
    <3> QED
      BY <1>4, <1>5, <2>2, <3>1, <3>2 DEF Awaits
  <2> QED
    BY <1>3, <2>1, <2>2 DEF FrameOf, Composite
<1>7. PICK c \in L : c[1] = s /\ Awaits(text, L, f, e, c)
  BY <1>6
<1>8. PICK D : D = Append(C, c)
  OBVIOUS
<1>9. Reads(text, L, source, stack, D) /\ Len(D) = Len(stack) + 1 /\ D[Len(stack) + 1] = c
  <2>1. L \subseteq Place /\ Awaits(text, L, stack[Len(stack)], C[Len(stack)], c)
    BY <1>3, <1>7 DEF Layout, Place
  <2> QED
    BY <1>3, <1>8, <2>1, ReadsOn
<1>10. Inner(L, D)'
  <2>1. Len(D) = Len(stack') + 1 /\ text' = text /\ at' = at
    BY <1>1, <1>9 DEF written
  <2>2. Skips(text, at, at) /\ at \in Nat
    BY <1>5, SkipsNone DEF Skips
  <2>3. Skips(text', at', at) /\ Skips(text', D[Len(D)][1], at)
    BY <1>1, <1>5, <1>7, <1>9, <2>1, <2>2
  <2> QED
    BY <1>1, <2>1, <2>2, <2>3 DEF Inner
<1>11. Reads(text, L, source, stack', D) /\ UNCHANGED written
  BY <1>1, <1>9
<1> QED
  BY <1>3, <1>10, <1>11, StillReading

LEMMA SameItems ==
    ASSUME NEW S, NEW T, NEW s \in Seq(S), NEW u \in Seq(T), Len(s) = Len(u),
           \A i \in 1 .. Len(s) : s[i] = u[i]
    PROVE  s = u
<1>1. s = [i \in 1 .. Len(s) |-> s[i]]
  OBVIOUS
<1>2. u = [i \in 1 .. Len(u) |-> u[i]]
  OBVIOUS
<1> QED
  BY <1>1, <1>2

\* What f has read is the value, when it has read as many items.
LEMMA AllItems ==
    ASSUME NEW v \in Values, NEW f, FrameOf(f, v), Len(f.items) = Len(v[2])
    PROVE  <<f.kind, f.items>> = v
<1>1. Composite(v) /\ v = <<v[1], v[2]>>
  BY CompositeIs DEF FrameOf
<1>2. v[2] \in Seq(Values) \/ v[2] \in Seq(Values \X Values)
  BY <1>1, CompositeIs DEF Composite
<1>3. f.items \in Seq(Values) \/ f.items \in Seq(Values \X Values)
  BY DEF FrameOf, ReadType
<1>4. \A i \in 1 .. Len(f.items) : f.items[i] = v[2][i]
  BY DEF FrameOf
<1>5. f.items = v[2]
  BY <1>2, <1>3, <1>4, SameItems
<1> QED
  BY <1>1, <1>5 DEF FrameOf

LEMMA CloseInv ==
    ASSUME IInv, Close, source # <<>>
    PROVE  IInv'
<1>1. /\ mode = "loop" /\ Char(at) \in {Closing, End} /\ mode' = "return"
      /\ result' = <<Last(stack).kind, Last(stack).items>>
      /\ at' = Past(at, Closing) /\ stack' = Front(stack) /\ UNCHANGED written
  BY DEF Close, Returns
<1>2. PICK L, C, f, e : LoopAt(L, C, f, e)
  BY <1>1, LoopFound
<1>3. /\ text \in Seq(Characters) /\ source \in Values /\ Layout(text, L)
      /\ Reads(text, L, source, stack, C) /\ Len(C) = Len(stack)
      /\ f = stack[Len(stack)] /\ e = C[Len(C)] /\ FrameOf(f, e[2]) /\ e[2] \in Values
  BY <1>2 DEF LoopAt
<1>4. Char(at) = Closing /\ Len(f.items) = Len(e[2][2]) /\ e[3] = at + 1
  <2>1. Closed(e[2]) \notin Starts /\ End \notin Starts
    BY Brackets, Differ
  <2> QED
    BY <1>1, <1>2, <2>1, LoopChar
<1>5. result' = e[2]
  <2>1. <<f.kind, f.items>> = e[2]
    BY <1>3, <1>4, AllItems
  <2> QED
    BY <1>1, <1>3, <2>1 DEF Last
<1>6. at' = e[3]
  BY <1>1, <1>4 DEF Past
<1>7. stack' = SubSeq(stack, 1, Len(stack) - 1)
  BY <1>1 DEF Front
<1>8. Reads(text, L, source, stack', C) /\ Len(C) = Len(stack') + 1
  <2>1. PICK u : u = stack'
    OBVIOUS
  <2>2. Closes(text, L, source, stack, C, u)
    BY <1>3, <1>7, <2>1 DEF Closes
  <2>3. Reads(text, L, source, u, C) /\ Len(C) = Len(u) + 1
    BY <2>2, ReadsClose
  <2> QED
    BY <2>1, <2>3
<1>9. Inner(L, C)'
  BY <1>1, <1>3, <1>5, <1>6, <1>8 DEF Inner
<1> QED
  BY <1>1, <1>3, <1>8, <1>9, StillReading

\* The innermost call has returned to call f, which stands for place e and has
\* waited for place c.
BackAt(L, C, f, e, c) ==
    /\ text \in Seq(Characters) /\ source \in Values
    /\ Layout(text, L) /\ Reads(text, L, source, stack, C)
    /\ Len(C) = Len(stack) + 1 /\ stack # <<>>
    /\ f = stack[Len(stack)] /\ e = C[Len(stack)]
    /\ e[2] \in Values /\ FrameOf(f, e[2]) /\ Awaits(text, L, f, e, c)
    /\ result = c[2] /\ at = c[3] /\ c[3] \in Nat /\ c[2] \in Values

LEMMA BackFound ==
    ASSUME IInv, mode = "return", source # <<>>, stack # <<>>
    PROVE  \E L, C, f, e, c : BackAt(L, C, f, e, c)
<1>1. text \in Seq(Characters) /\ source \in Values
  BY DEF IInv, ReaderInv
<1>2. PICK L, C : Layout(text, L) /\ Reads(text, L, source, stack, C) /\ Inner(L, C)
  BY DEF IInv, ReaderInv
<1>3. Len(C) = Len(stack) + 1 /\ result = C[Len(C)][2] /\ at = C[Len(C)][3]
  BY <1>2 DEF Inner
<1> DEFINE n == Len(stack)
<1>4. n \in Nat \ {0}
  BY <1>2 DEF Reads
<1>5. C[n] \in Place /\ C[n + 1] \in Place
  BY <1>2, <1>3, <1>4 DEF Reads
<1>6. FrameOf(stack[n], C[n][2])
  BY <1>2, <1>4 DEF Reads
<1>7. Awaits(text, L, stack[n], C[n], C[n + 1])
  <2>1. n + 1 \in 2 .. Len(C) /\ (n + 1) - 1 = n
    BY <1>3, <1>4
  <2>2. Awaits(text, L, stack[(n + 1) - 1], C[(n + 1) - 1], C[n + 1])
    BY <1>2, <2>1 DEF Reads
  <2> QED
    BY <2>1, <2>2
<1>8. C[n][2] \in Values /\ C[n + 1][3] \in Nat /\ C[n + 1][2] \in Values
  BY <1>5 DEF Place
<1>9. BackAt(L, C, stack[n], C[n], C[n + 1])
  BY <1>1, <1>2, <1>3, <1>6, <1>7, <1>8 DEF BackAt
<1> QED
  BY <1>9

\* items are those that f has read of v, and the next one
WithNext(f, v, items) ==
    /\ FrameOf(f, v) /\ Len(f.items) + 1 <= Len(v[2])
    /\ items = Append(f.items, v[2][Len(f.items) + 1])

LEMMA ItemAdded ==
    ASSUME NEW v \in Values, NEW f, NEW items, WithNext(f, v, items)
    PROVE  /\ items \in Seq(Values) \cup Seq(Values \X Values)
           /\ Len(items) = Len(f.items) + 1 /\ items # <<>>
           /\ \A j \in 1 .. Len(items) : items[j] = v[2][j]
           /\ Add(f.items, v[2][Len(f.items) + 1]) = items
<1> USE DEF WithNext
<1> DEFINE n == Len(f.items)
<1>1. /\ Composite(v) /\ f.items \in Seq(Values) \cup Seq(Values \X Values)
      /\ \A j \in 1 .. n : f.items[j] = v[2][j]
  BY DEF FrameOf, ReadType
<1>2. /\ n \in Nat /\ Len(v[2]) \in Nat /\ n + 1 <= Len(v[2]) /\ Len(v[2]) <= MaxItems
      /\ n = Len(f.items)
  BY <1>1, CompositeIs
<1>3. PICK S : S \in {Values, Values \X Values} /\ v[2] \in Seq(S)
  BY <1>1, CompositeIs DEF Composite
<1>4. f.items \in Seq(S)
  <2>1. f.items = [j \in 1 .. n |-> f.items[j]]
    <3> DEFINE t == f.items
    <3>1. t \in Seq(Values) \/ t \in Seq(Values \X Values)
      BY <1>1
    <3> HIDE DEF t
    <3>2. t = [j \in 1 .. Len(t) |-> t[j]]
      BY <3>1
    <3> QED
      BY <3>2 DEF t
  <2>2. \A j \in 1 .. n : f.items[j] \in S
    BY <1>1, <1>2, <1>3
  <2>3. f.items \in [1 .. n -> S]
    BY <2>1, <2>2
  <2> QED
    BY <1>2, <2>3
<1>5. v[2][n + 1] \in S
  BY <1>2, <1>3
<1> HIDE DEF n
<1>6. /\ items \in Seq(S) /\ Len(items) = n + 1 /\ items[n + 1] = v[2][n + 1]
      /\ \A j \in 1 .. n : items[j] = f.items[j]
  BY <1>2, <1>4, <1>5
<1>7. \A j \in 1 .. Len(items) : items[j] = v[2][j]
  <2> SUFFICES ASSUME NEW j \in 1 .. n + 1
               PROVE  items[j] = v[2][j]
    BY <1>6
  <2>1. j = n + 1 \/ j \in 1 .. n
    BY <1>2
  <2> QED
    BY <1>1, <1>6, <2>1 DEF n
<1>8. items # <<>>
  BY <1>2, <1>6
<1>9. Add(f.items, v[2][n + 1]) = items
  <2>1. Len(f.items) < MaxItems
    BY <1>2, JsonAssumption
  <2> QED
    BY <2>1 DEF Add, n
<1> QED
  BY <1>3, <1>6, <1>7, <1>8, <1>9 DEF n

\* f becomes g, with its next item, behind which the rest of its value stands
HasNext(L, C, f, e, c, items, g) ==
    /\ BackAt(L, C, f, e, c) /\ WithNext(f, e[2], items)
    /\ Rest(text, L, e[2], Len(f.items) + 1, c[3], e[3])
    /\ g \in ReadType /\ g.kind = f.kind /\ g.key = <<>> /\ g.items = items

\* The call around goes on with its loop.
LEMMA ItemRead ==
    ASSUME NEW L, NEW C, NEW f, NEW e, NEW c, NEW items, NEW g,
           HasNext(L, C, f, e, c, items, g),
           stack' = [stack EXCEPT ![Len(stack)] = g], NextItem, UNCHANGED written
    PROVE  IInv'
<1>1. /\ text \in Seq(Characters) /\ source \in Values /\ Layout(text, L)
      /\ Reads(text, L, source, stack, C) /\ Len(C) = Len(stack) + 1 /\ stack # <<>>
      /\ e = C[Len(stack)] /\ e[2] \in Values /\ FrameOf(f, e[2])
      /\ Len(f.items) + 1 <= Len(e[2][2]) /\ at = c[3] /\ c[3] \in Nat
      /\ WithNext(f, e[2], items) /\ Rest(text, L, e[2], Len(f.items) + 1, c[3], e[3])
      /\ g \in ReadType /\ g.kind = f.kind /\ g.key = <<>> /\ g.items = items
  BY DEF HasNext, WithNext, BackAt
<1>2. /\ Len(items) = Len(f.items) + 1 /\ items # <<>>
      /\ \A j \in 1 .. Len(items) : items[j] = e[2][2][j]
  BY <1>1, ItemAdded
<1>3. FrameOf(g, e[2])
  BY <1>1, <1>2 DEF FrameOf
<1>4. Looping(text, L, g, e, at')
  <2>1. Rest(text, L, e[2], Len(g.items), at, e[3]) /\ g.items # <<>>
    BY <1>1, <1>2
  <2> DEFINE p == skip_space(at)
  <2>2. Looping(text, L, g, e, IF Char(p) = Comma THEN skip_space(p + 1) ELSE p)
    BY <1>1, <1>3, <2>1, LoopsOn
  <2>3. at' = IF Char(p) = Comma THEN skip_space(p + 1) ELSE p
    BY DEF NextItem
  <2> QED
    BY <2>2, <2>3
<1>5. PICK u : u = stack'
  OBVIOUS
<1>6. GoesBack(text, L, source, stack, C, g, u)
  BY <1>1, <1>3, <1>5 DEF GoesBack
<1>7. PICK D : /\ Reads(text, L, source, u, D) /\ Len(D) = Len(stack)
               /\ D[Len(stack)] = C[Len(stack)]
               /\ Len(u) = Len(stack) /\ u[Len(u)] = g
  BY <1>6, ReadsBack
<1>8. Inner(L, D)'
  <2>1. text' = text /\ mode' = "loop"
    BY DEF written, NextItem
  <2>2. Len(D) = Len(stack') /\ stack'[Len(stack')] = g /\ D[Len(D)] = e
    BY <1>1, <1>5, <1>7
  <2>3. Looping(text', L, stack'[Len(stack')], D[Len(D)], at')
    BY <1>4, <2>1, <2>2
  <2> QED
    BY <2>1, <2>2, <2>3 DEF Inner
<1>9. Reads(text, L, source, stack', D)
  BY <1>5, <1>7
<1> QED
  BY <1>1, <1>8, <1>9, StillReading

LEMMA ArrayItemInv ==
    ASSUME IInv, ArrayItem, source # <<>>
    PROVE  IInv'
<1>1. /\ mode = "return" /\ stack # <<>> /\ stack[Len(stack)].kind = "arr"
      /\ stack' = [stack EXCEPT ![Len(stack)].items = Add(@, result)]
      /\ NextItem /\ UNCHANGED written
  BY DEF ArrayItem, In, Last
<1>2. PICK L, C, f, e, c : BackAt(L, C, f, e, c)
  BY <1>1, BackFound
<1> DEFINE v == e[2]
           i == Len(f.items) + 1
<1>3. /\ f = stack[Len(stack)] /\ FrameOf(f, v) /\ v \in Values /\ result = c[2]
      /\ i <= Len(v[2]) /\ Awaits(text, L, f, e, c)
      /\ stack \in Seq(ReadType)
  BY <1>2 DEF BackAt, Awaits, Reads
<1>4. v[1] = "arr" /\ f \in ReadType
  BY <1>1, <1>3 DEF FrameOf
<1>5. f.key = <<>> /\ c[2] = v[2][i] /\ Rest(text, L, v, i, c[3], e[3])
  BY <1>3, <1>4 DEF Awaits
<1>6. PICK items : WithNext(f, v, items)
  BY <1>3 DEF WithNext
<1>7. /\ items \in Seq(Values) \cup Seq(Values \X Values)
      /\ Add(f.items, result) = items
  BY <1>3, <1>5, <1>6, ItemAdded
<1>8. PICK g : g = [f EXCEPT !.items = items]
  OBVIOUS
<1>9. g \in ReadType /\ g.kind = f.kind /\ g.key = <<>> /\ g.items = items
  BY <1>4, <1>5, <1>7, <1>8 DEF ReadType
<1>10. stack' = [stack EXCEPT ![Len(stack)] = g]
  BY <1>1, <1>3, <1>7, <1>8
<1>11. HasNext(L, C, f, e, c, items, g)
  BY <1>2, <1>5, <1>6, <1>9 DEF HasNext
<1> QED
  BY <1>1, <1>10, <1>11, ItemRead

LEMMA ObjectEntryInv ==
    ASSUME IInv, ObjectEntry, source # <<>>
    PROVE  IInv'
<1>1. /\ mode = "return" /\ stack # <<>> /\ stack[Len(stack)].kind = "map"
      /\ stack[Len(stack)].key # <<>>
      /\ stack' = [stack EXCEPT ![Len(stack)].key = <<>>,
                                ![Len(stack)].items = Set(@, stack[Len(stack)].key, result)]
      /\ NextItem /\ UNCHANGED written
  BY DEF ObjectEntry, In, Last
<1>2. PICK L, C, f, e, c : BackAt(L, C, f, e, c)
  BY <1>1, BackFound
<1> DEFINE v == e[2]
           i == Len(f.items) + 1
<1>3. /\ f = stack[Len(stack)] /\ FrameOf(f, v) /\ v \in Values /\ result = c[2]
      /\ i <= Len(v[2]) /\ Awaits(text, L, f, e, c)
      /\ stack \in Seq(ReadType)
  BY <1>2 DEF BackAt, Awaits, Reads
<1>4. v[1] = "map" /\ f \in ReadType
  BY <1>1, <1>3 DEF FrameOf
<1>5. f.key = v[2][i][1] /\ c[2] = v[2][i][2] /\ Rest(text, L, v, i, c[3], e[3])
  BY <1>1, <1>3, <1>4 DEF Awaits
<1>6. PICK items : WithNext(f, v, items)
  BY <1>3 DEF WithNext
<1>7. /\ items \in Seq(Values) \cup Seq(Values \X Values)
      /\ Add(f.items, v[2][i]) = items
  BY <1>3, <1>6, ItemAdded
<1>8. Set(f.items, f.key, result) = items
  <2>1. /\ Map(v) /\ v[2] \in Seq(Values \X Values) /\ Len(v[2]) \in Nat
        /\ Len(f.items) \in Nat /\ DOMAIN f.items = 1 .. Len(f.items)
        /\ \A j \in 1 .. Len(f.items) : f.items[j] = v[2][j]
    <3>1. Map(v)
      BY <1>3, <1>4, Kinds, LeafKinds DEF Composite
    <3>2. v[2] \in Seq(Values \X Values) /\ Len(v[2]) \in Nat
      BY <1>3, <1>4, CompositeIs DEF FrameOf
    <3>3. Len(f.items) \in Nat /\ DOMAIN f.items = 1 .. Len(f.items)
      BY <1>4 DEF ReadType
    <3>4. \A j \in 1 .. Len(f.items) : f.items[j] = v[2][j]
      BY <1>3 DEF FrameOf
    <3> QED
      BY <3>1, <3>2, <3>3, <3>4
  <2>2. i \in 1 .. Len(v[2])
    BY <1>3, <2>1
  <2>3. v[2][i] = <<f.key, result>>
    <3>1. v[2][i] \in Values \X Values
      BY <2>1, <2>2
    <3>2. v[2][i] = <<v[2][i][1], v[2][i][2]>>
      BY <3>1
    <3> QED
      BY <1>3, <1>5, <3>2
  <2> DEFINE same == {j \in DOMAIN f.items : f.items[j][1] = f.key}
  <2>4. same = {} \/ NeverEqual(f.key)
    <3> SUFFICES ASSUME NEW j \in DOMAIN f.items, f.items[j][1] = f.key
                 PROVE  NeverEqual(f.key)
      OBVIOUS
    <3>1. DOMAIN f.items = 1 .. Len(f.items) /\ DOMAIN v[2] = 1 .. Len(v[2])
      BY <2>1
    <3>2. j # i /\ j \in DOMAIN v[2] /\ i \in DOMAIN v[2]
      BY <1>3, <2>1, <2>2, <3>1
    <3>3. v[2][j][1] = v[2][i][1]
      BY <1>5, <2>1, <3>1
    <3>4. NeverEqual(v[2][j][1])
      BY <2>1, <3>2, <3>3 DEF Map
    <3> QED
      BY <1>5, <3>3, <3>4
  <2> HIDE DEF same
  <2>5. Set(f.items, f.key, result) = Add(f.items, <<f.key, result>>)
    BY <2>4 DEF Set, same
  <2> QED
    BY <1>7, <2>3, <2>5
<1>9. PICK g : g = [f EXCEPT !.key = <<>>, !.items = items]
  OBVIOUS
<1>10. g \in ReadType /\ g.kind = f.kind /\ g.key = <<>> /\ g.items = items
  BY <1>4, <1>7, <1>9 DEF ReadType
<1>11. stack' = [stack EXCEPT ![Len(stack)] = g]
  BY <1>1, <1>3, <1>8, <1>9
<1>12. HasNext(L, C, f, e, c, items, g)
  BY <1>2, <1>5, <1>6, <1>10 DEF HasNext
<1> QED
  BY <1>1, <1>11, <1>12, ItemRead

LEMMA ObjectKeyInv ==
    ASSUME IInv, ObjectKey, source # <<>>
    PROVE  IInv'
<1>1. /\ mode = "return" /\ stack # <<>> /\ stack[Len(stack)].kind = "map"
      /\ stack[Len(stack)].key = <<>>
      /\ stack' = [stack EXCEPT ![Len(stack)].key = result]
      /\ at' = skip_space(Past(skip_space(at), ":"))
      /\ mode' = "value" /\ UNCHANGED written
  BY DEF ObjectKey, In, Last
<1>2. PICK L, C, f, e, c : BackAt(L, C, f, e, c)
  BY <1>1, BackFound
<1> DEFINE v == e[2]
           i == Len(f.items) + 1
<1>3. /\ text \in Seq(Characters) /\ source \in Values /\ Layout(text, L)
      /\ Reads(text, L, source, stack, C) /\ Len(C) = Len(stack) + 1
      /\ f = stack[Len(stack)] /\ e = C[Len(stack)] /\ FrameOf(f, v) /\ v \in Values
      /\ result = c[2] /\ at = c[3] /\ c[2] \in Values
      /\ i <= Len(v[2]) /\ Awaits(text, L, f, e, c)
      /\ stack \in Seq(ReadType)
  BY <1>2 DEF BackAt, Awaits, Reads
<1>4. v[1] = "map" /\ f \in ReadType /\ f.key = <<>>
  BY <1>1, <1>3 DEF FrameOf
<1>5. v[2][i][1] # <<>>
  <2>1. v[2] \in Seq(Values \X Values) /\ Len(f.items) \in Nat /\ Len(v[2]) \in Nat
    BY <1>3, <1>4, CompositeIs DEF FrameOf, ReadType
  <2>2. v[2][i] \in Values \X Values
    BY <1>3, <2>1, SMTT(30)
  <2>3. v[2][i][1] \in Values
    BY <2>2
  <2> QED
    BY <2>3, Kinds
<1>6. /\ c[2] = v[2][i][1]
      /\ \E b, m \in Nat : /\ Token(text, c[3], ":", b) /\ <<b, v[2][i][2], m>> \in L
                           /\ Rest(text, L, v, i, m, e[3])
  BY <1>3, <1>4, <1>5 DEF Awaits
<1>7. PICK b \in Nat, m \in Nat : /\ Token(text, c[3], ":", b) /\ <<b, v[2][i][2], m>> \in L
                                  /\ Rest(text, L, v, i, m, e[3])
  BY <1>6
<1>8. PICK z \in Nat : Skips(text, b, z)
  BY <1>3, <1>7, PlaceStarts
<1>9. at' = z
  <2>1. skip_space(at) = b - 1
    BY <1>3, <1>7, SkipIs DEF Token
  <2>2. Char(b - 1) = ":" /\ (b - 1) + 1 = b
    BY <1>7 DEF Token, Char
  <2>3. Past(skip_space(at), ":") = b
    BY <2>1, <2>2 DEF Past
  <2> QED
    BY <1>1, <1>3, <1>8, <2>3, SkipIs
<1>10. PICK g : g = [f EXCEPT !.key = result]
  OBVIOUS
<1>11. g \in ReadType /\ g.kind = f.kind /\ g.items = f.items /\ g.key = result
  BY <1>3, <1>4, <1>10 DEF ReadType
<1>12. FrameOf(g, v)
  BY <1>3, <1>11 DEF FrameOf
<1>13. stack' = [stack EXCEPT ![Len(stack)] = g]
  BY <1>1, <1>3, <1>10
<1>14. PICK u : u = stack'
  OBVIOUS
<1>15. GoesBack(text, L, source, stack, C, g, u)
  BY <1>1, <1>3, <1>12, <1>13, <1>14 DEF GoesBack
<1>16. PICK D : /\ Reads(text, L, source, u, D) /\ Len(D) = Len(stack)
                /\ D[Len(stack)] = C[Len(stack)]
                /\ Len(u) = Len(stack) /\ u[Len(u)] = g
  BY <1>15, ReadsBack
<1>17. PICK d \in L : d[1] = b /\ d[2] = v[2][i][2] /\ d[3] = m
  BY <1>7
<1>18. Awaits(text, L, g, e, d)
  BY <1>3, <1>4, <1>6, <1>7, <1>11, <1>17 DEF Awaits
<1>19. PICK E : E = Append(D, d)
  OBVIOUS
<1>20. Reads(text, L, source, u, E) /\ Len(E) = Len(u) + 1 /\ E[Len(u) + 1] = d
  <2>1. L \subseteq Place /\ Awaits(text, L, u[Len(u)], D[Len(u)], d) /\ Len(D) = Len(u)
    BY <1>3, <1>16, <1>18 DEF Layout, Place
  <2> QED
    BY <1>16, <1>17, <1>19, <2>1, ReadsOn, SMTT(30)
<1>21. Inner(L, E)'
  <2>1. Len(E) = Len(stack') + 1 /\ text' = text /\ E[Len(E)] = d
    BY <1>1, <1>14, <1>20 DEF written
  <2>2. Skips(text, z, z)
    BY <1>8, SkipsNone
  <2>3. Skips(text', at', z) /\ Skips(text', E[Len(E)][1], z)
    BY <1>8, <1>9, <1>17, <2>1, <2>2
  <2> QED
    BY <1>1, <2>1, <2>3 DEF Inner
<1>22. Reads(text, L, source, stack', E)
  BY <1>14, <1>20
<1> QED
  BY <1>1, <1>3, <1>21, <1>22, StillReading

\* The outermost call returns the value that was written, at the end of the text.
LEMMA FinishInv ==
    ASSUME IInv, Finish
    PROVE  IInv'
<1>1. /\ mode = "return" /\ stack = <<>> /\ mode' = "done" /\ source' = source
      /\ result' = IF result = Void /\ at <= Len(text) THEN <<"err">> ELSE <<"ok", result>>
  BY DEF Finish, written
<1>2. ASSUME source # <<>>
      PROVE  result' = <<"ok", source>>
  <2>1. text \in Seq(Characters)
    BY <1>1, <1>2 DEF IInv, ReaderInv
  <2>2. PICK L, C : Reads(text, L, source, stack, C) /\ Inner(L, C)
    BY <1>1, <1>2 DEF IInv, ReaderInv
  <2>3. Len(C) = 1 /\ C[1] = <<1, source, Len(text) + 1>>
    BY <1>1, <2>2 DEF Reads, Inner
  <2>4. result = source /\ at = Len(text) + 1
    BY <1>1, <2>2, <2>3 DEF Inner
  <2>5. ~(at <= Len(text))
    BY <2>1, <2>4
  <2> QED
    BY <1>1, <2>4, <2>5
<1> QED
  BY <1>1, <1>2 DEF IInv, RoundTrip

\* A reader of a text that was not written from a value claims nothing.
LEMMA NoSource ==
    ASSUME IInv, source = <<>>, UNCHANGED written,
           mode' \in {"value", "loop", "return"}
    PROVE  IInv'
BY DEF IInv, RoundTrip, written

LEMMA ReaderStep ==
    ASSUME IInv, \/ String \/ Number \/ Word \/ Nothing \/ OpenArray \/ OpenObject
                 \/ Item \/ Close \/ ArrayItem \/ ObjectKey \/ ObjectEntry
    PROVE  IInv'
<1>1. CASE source = <<>>
  <2>1. UNCHANGED written /\ mode' \in {"value", "loop", "return"}
    BY DEF String, Number, Word, Nothing, OpenArray, OpenObject, Item, Close, ArrayItem,
           ObjectKey, ObjectEntry, NextItem, Returns
  <2> QED
    BY <1>1, <2>1, NoSource
<1>2. CASE source # <<>>
  BY <1>2, StringInv, NumberInv, WordInv, NothingInv, OpenArrayInv, OpenObjectInv, ItemInv,
     CloseInv, ArrayItemInv, ObjectKeyInv, ObjectEntryInv
<1> QED
  BY <1>1, <1>2

LEMMA NextIInv ==
    ASSUME IInv, [Next]_vars, WriteLeaf => Survives(result)
    PROVE  IInv'
<1>1. CASE WriteLeaf
  BY <1>1, WriteLeafInv
<1>2. CASE WriteOpen
  BY <1>2, WriteOpenInv
<1>3. CASE WriteItem
  BY <1>3, WriteItemInv
<1>4. CASE WriteValue
  BY <1>4, WriteValueInv
<1>5. CASE WriteClose
  BY <1>5, WriteCloseInv
<1>6. CASE Deliver
  BY <1>6, DeliverInv
<1>7. CASE \/ String \/ Number \/ Word \/ Nothing \/ OpenArray \/ OpenObject
           \/ Item \/ Close \/ ArrayItem \/ ObjectKey \/ ObjectEntry
  BY <1>7, ReaderStep
<1>8. CASE Finish
  BY <1>8, FinishInv
<1>9. CASE UNCHANGED vars
  <2>1. /\ UNCHANGED text /\ UNCHANGED source /\ UNCHANGED gap /\ UNCHANGED exact
        /\ UNCHANGED calls
        /\ UNCHANGED at /\ UNCHANGED stack /\ UNCHANGED mode /\ UNCHANGED result
    BY <1>9 DEF vars, written
  <2> QED
    BY <2>1 DEF IInv, WriterInv, ReaderInv, Inner, RoundTrip
<1> QED
  BY <1>1, <1>2, <1>3, <1>4, <1>5, <1>6, <1>7, <1>8, <1>9 DEF Next, Step, Ended

\* A text in which every number survived may be continued by one that does not.
Inv == exact => IInv

LEMMA NextInv == Inv /\ [Next]_vars => Inv'
<1> SUFFICES ASSUME Inv, [Next]_vars, exact'
             PROVE  IInv'
  BY DEF Inv
<1>1. exact /\ (WriteLeaf => Survives(result))
  <2>1. CASE WriteLeaf
    BY <2>1 DEF WriteLeaf
  <2>2. CASE ~WriteLeaf
    <3>1. exact' = exact
      BY <2>2 DEF Next, Step, Ended, vars, written, WriteOpen, WriteItem, WriteValue,
         WriteClose, Deliver, String, Number, Word, Nothing, OpenArray, OpenObject, Item,
         Close, ArrayItem, ObjectKey, ObjectEntry, Finish
    <3> QED
      BY <2>2, <3>1
  <2> QED
    BY <2>1, <2>2
<1> QED
  BY <1>1, NextIInv DEF Inv

\* What json_stringify has written of a value (stringify_inner), with white space
\* in front of its tokens or without, json_parse reads as that value, if every
\* number in it survives being written by %ld or %g and read as a double, whatever
\* values there are and however deep they are nested.
THEOREM RoundTripHolds == Spec => []RoundTrip
<1>1. Init => Inv
  BY InitInv DEF Inv
<1>2. Inv => RoundTrip
  BY DEF Inv, IInv, RoundTrip
<1> QED
  BY <1>1, <1>2, NextInv, PTL DEF Spec
=============================================================================
