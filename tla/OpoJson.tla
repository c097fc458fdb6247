------------------------------- MODULE OpoJson ------------------------------
(***************************************************************************)
(* The natives json_stringify and json_parse (src/src/vm.c): how a value   *)
(* becomes a text, and the recursive-descent reader with its loops, which  *)
(* go on until they see a closing bracket or the end of the text.          *)
(*                                                                         *)
(* A text is a sequence of characters, except that the three words and     *)
(* a number without its sign are one element each.  Numbers are counted    *)
(* in parts of one, Unit of which make one.  stack are the calls of        *)
(* parse_array and parse_object under way, at is where the pointer *pp     *)
(* points to, mode says what the innermost call does next.                 *)
(***************************************************************************)
EXTENDS Integers, SequencesExt

CONSTANTS
    Texts,      \* what programs may parse
    Values,     \* values that are written and parsed again
    Denotes,    \* how many parts the unsigned numbers of a text stand for
    Unit,       \* how many parts are one
    Kept,       \* %g keeps the digits of fewer parts: ten to the sixth
    Exact,      \* a double tells whole numbers apart up to here: two to the 53rd
    MaxInt,     \* an int64_t is smaller: two to the 63rd
    MaxItems    \* bound on the items of an array and of a map

Quote == "quote"
Space == " "
Comma == ","
LeftBrace == "{"
RightBrace == "}"
Words == {"true", "false", "null"}
Digits == DOMAIN Denotes
Other == "a"    \* a character that starts no value
Signs == {Quote, "[", "]", LeftBrace, RightBrace, Comma, ":", "-", Space, Other} \cup Words
Characters == Signs \cup Digits
End == "end"

Void == <<"word", "null">>

\* no two arrays, maps or void values are equal as keys of a map
NeverEqual(key) == key[1] \in {"arr", "map"} \/ key = Void

-----------------------------------------------------------------------------
(* Numbers *)

Magnitude(n) == IF n < 0 THEN -n ELSE n

\* the multiple of m that is nearest to a, the even one of two
Nearest(a, m) ==
    LET below == a \div m
        above == \/ 2 * (a % m) > m
                 \/ 2 * (a % m) = m /\ below % 2 = 1
    IN m * IF above THEN below + 1 ELSE below

\* the place of the last digit that %g writes
LastPlace[a \in Nat] == IF a < Kept THEN 1 ELSE 10 * LastPlace[a \div 10]

\* the distance of doubles around a whole number
Spacing[a \in Nat] == IF a <= Exact THEN 1 ELSE 2 * Spacing[(a + 1) \div 2]

\* a number as a double; fractions of as many digits as %g writes are told apart
Double(a) ==
    IF a <= Exact * Unit THEN a ELSE Nearest(a, Unit * Spacing[(a + Unit - 1) \div Unit])

\* d == (double)(int64_t)d; where the conversion overflows, the processor gives
\* the smallest int64_t, which is another number
Whole(n) == n % Unit = 0 /\ -(MaxInt * Unit) <= n /\ n < MaxInt * Unit

\* what %ld or %g writes behind the sign
Printed(v) ==
    LET a == Magnitude(v[2])
    IN IF v[1] = "int" THEN a ELSE Nearest(a, LastPlace[a])

\* what parse_number makes of a sign and a number: an int if it is one
Scanned(minus, a) ==
    LET d == IF minus THEN -Double(a) ELSE Double(a)
    IN IF Whole(d) THEN <<"int", d>> ELSE <<"flt", d>>

\* a number comes back as it was
Survives(v) == v[1] \in {"int", "flt"} => Scanned(v[2] < 0, Printed(v)) = v

Numeral(v) ==
    /\ \/ v \in {"int"} \X Int /\ Whole(v[2])
       \/ v \in {"flt"} \X Int /\ Double(Magnitude(v[2])) = Magnitude(v[2])
    /\ \E d \in Digits : Denotes[d] = Printed(v)

-----------------------------------------------------------------------------
(* Values *)

Leaf(v) ==
    \/ v \in {"word"} \X Words
    \/ Numeral(v)
    \/ v \in {"str"} \X Seq(Characters \ {Quote})

NumeralOf(v) == CHOOSE d \in Digits : Denotes[d] = Printed(v)

Spelling(v) ==
    CASE v[1] = "word" -> <<v[2]>>
      [] v[1] \in {"int", "flt"} ->
            IF v[2] < 0 THEN <<"-", NumeralOf(v)>> ELSE <<NumeralOf(v)>>
      [] v[1] = "str" -> <<Quote>> \o v[2] \o <<Quote>>

Array(v) == v \in {"arr"} \X Seq(Values)

Map(v) ==
    /\ v \in {"map"} \X Seq(Values \X Values)
    /\ \A i, j \in DOMAIN v[2] :
          i # j /\ v[2][i][1] = v[2][j][1] => NeverEqual(v[2][i][1])

ASSUME JsonAssumption ==
    /\ Digits \cap (Signs \cup {End}) = {}
    /\ Denotes \in [Digits -> Nat]
    /\ \A t \in Texts :
          t \in Seq(Characters) /\ \A i \in 2 .. Len(t) : ~ {t[i - 1], t[i]} \subseteq Digits
    /\ Unit \in Nat \ {0} /\ Kept \in Nat \ {0} /\ Exact \in Nat /\ MaxInt \in Nat
    /\ MaxItems \in Nat
    /\ \A v \in Values : \/ Leaf(v)
                        \/ /\ Array(v) \/ Map(v)
                           /\ Len(v[2]) <= MaxItems

VARIABLES
    text, source,   \* source is the value that all of text is written from, or <<>>
    gap,            \* what is in front of every token of a text written from a value
    exact,          \* every number written so far comes back as it was
    calls,          \* the calls of stringify_inner under way for arrays and maps
    at,             \* index of **pp in text, or the one behind the last
    stack,
    mode,           \* "write", "written", then "value", "loop", "return" or "done"
    result          \* what the last call of the reader returned; in the writer,
                    \* what the last call was given

written == <<text, source, gap, exact, calls>>
vars == <<written, at, stack, mode, result>>

\* any text, or one to be written of a value
Init ==
    /\ \/ /\ mode = "write" /\ text = <<>>
          /\ source \in Values /\ result = source
          /\ gap \in {<<>>, <<Space>>}
       \/ /\ mode = "value" /\ text \in Texts
          /\ source = <<>> /\ result = Void /\ gap = <<>>
    /\ exact = TRUE
    /\ calls = <<>>
    /\ at = 1
    /\ stack = <<>>

-----------------------------------------------------------------------------
(* stringify_inner; it never writes a gap, but a text that something else *)
(* has written may have one in front of every token                       *)

Write(tokens) == text' = text \o gap \o tokens
Reading == <<at, stack>>

WriteLeaf ==
    /\ mode = "write" /\ Leaf(result)
    /\ Write(Spelling(result))
    /\ exact' = (exact /\ Survives(result))
    /\ mode' = "written"
    /\ UNCHANGED <<source, gap, calls, Reading, result>>

\* item is the index of the item that is written, key says that it is at its key
WriteOpen ==
    /\ mode = "write" /\ result[1] \in {"arr", "map"}
    /\ Write(IF result[1] = "arr" THEN <<"[">> ELSE <<LeftBrace>>)
    /\ calls' = Append(calls, [value |-> result, item |-> 0, key |-> FALSE])
    /\ mode' = "written"
    /\ UNCHANGED <<source, gap, exact, Reading, result>>

Call == Last(calls)
Items == Call.value[2]

Becomes(item, key) ==
    calls' = [calls EXCEPT ![Len(calls)] = [value |-> Call.value, item |-> item, key |-> key]]

\* the next item of an array, or the next key of a map
WriteItem ==
    /\ mode = "written" /\ calls # <<>>
    /\ ~Call.key /\ Call.item < Len(Items)
    /\ IF Call.item = 0 THEN UNCHANGED text ELSE Write(<<Comma>>)
    /\ LET next == Items[Call.item + 1]
           key == Call.value[1] = "map"
       IN /\ Becomes(Call.item + 1, key)
          /\ result' = IF key THEN next[1] ELSE next
    /\ mode' = "write"
    /\ UNCHANGED <<source, gap, exact, Reading>>

WriteValue ==
    /\ mode = "written" /\ calls # <<>>
    /\ Call.key
    /\ Write(<<":">>)
    /\ Becomes(Call.item, FALSE)
    /\ result' = Items[Call.item][2]
    /\ mode' = "write"
    /\ UNCHANGED <<source, gap, exact, Reading>>

WriteClose ==
    /\ mode = "written" /\ calls # <<>>
    /\ ~Call.key /\ Call.item = Len(Items)
    /\ Write(IF Call.value[1] = "arr" THEN <<"]">> ELSE <<RightBrace>>)
    /\ calls' = Front(calls)
    /\ UNCHANGED <<source, gap, exact, Reading, mode, result>>

\* native_json_stringify() returns the text, which may have been cut off when
\* it is parsed
Deliver ==
    /\ mode = "written" /\ calls = <<>>
    /\ \E n \in 0 .. Len(text) :
          /\ text' = SubSeq(text, 1, n)
          /\ source' = IF n = Len(text) THEN source ELSE <<>>
    /\ mode' = "value" /\ result' = Void
    /\ UNCHANGED <<gap, exact, calls, Reading>>

-----------------------------------------------------------------------------
(* The text at the pointer *)

Char(p) == IF p <= Len(text) THEN text[p] ELSE End

\* the first position from p on whose character is not in S
After(p, S) == CHOOSE q \in p .. Len(text) + 1 :
                  Char(q) \notin S /\ \A r \in p .. q - 1 : text[r] \in S

skip_space(p) == After(p, {Space})

\* one character c at p, if it is there
Past(p, c) == IF Char(p) = c THEN p + 1 ELSE p

Returns(v) == mode' = "return" /\ result' = v

Start(c) ==
    /\ mode = "value"
    /\ Char(skip_space(at)) = c

-----------------------------------------------------------------------------
(* parse_value *)

\* parse_string(): up to the next quotation mark, or the end
String ==
    LET first == skip_space(at) + 1
        last == After(first, Characters \ {Quote})
    IN /\ Start(Quote)
       /\ Returns(<<"str", SubSeq(text, first, last - 1)>>)
       /\ at' = Past(last, Quote)
       /\ UNCHANGED <<written, stack>>

\* parse_number(): where strtod finds no number it returns 0 and stays
Number ==
    LET first == skip_space(at)
        digits == Past(first, "-")
        found == Char(digits) \in Digits
        size == IF found THEN Denotes[Char(digits)] ELSE 0
    IN /\ Start("-") \/ \E d \in Digits : Start(d)
       /\ Returns(Scanned(digits # first, size))
       /\ at' = IF found THEN digits + 1 ELSE first
       /\ UNCHANGED <<written, stack>>

\* parse_bool(), parse_null()
Word ==
    \E w \in Words :
        /\ Start(w)
        /\ Returns(<<"word", w>>)
        /\ at' = skip_space(at) + 1
        /\ UNCHANGED <<written, stack>>

\* anything else is void, and not passed over
Nothing ==
    /\ \E c \in {"]", RightBrace, Comma, ":", Other, End} : Start(c)
    /\ Returns(Void)
    /\ at' = skip_space(at)
    /\ UNCHANGED <<written, stack>>

\* parse_array() and parse_object() up to their loops
OpenArray ==
    /\ Start("[")
    /\ stack' = Append(stack, [kind |-> "arr", items |-> <<>>, key |-> <<>>])
    /\ at' = skip_space(skip_space(at) + 1)
    /\ mode' = "loop"
    /\ UNCHANGED <<written, result>>

OpenObject ==
    /\ Start(LeftBrace)
    /\ stack' = Append(stack, [kind |-> "map", items |-> <<>>, key |-> <<>>])
    /\ at' = skip_space(skip_space(at) + 1)
    /\ mode' = "loop"
    /\ UNCHANGED <<written, result>>

-----------------------------------------------------------------------------
(* The loops of parse_array and parse_object *)

In(kind) == stack # <<>> /\ Last(stack).kind = kind
Closing == IF Last(stack).kind = "arr" THEN "]" ELSE RightBrace

Add(items, item) == IF Len(items) < MaxItems THEN Append(items, item) ELSE items

\* the loop goes on, with the next item or key
Item ==
    /\ mode = "loop"
    /\ Char(at) \notin {Closing, End}
    /\ mode' = "value"
    /\ UNCHANGED <<written, at, stack, result>>

Close ==
    /\ mode = "loop"
    /\ Char(at) \in {Closing, End}
    /\ Returns(<<Last(stack).kind, Last(stack).items>>)
    /\ at' = Past(at, Closing)
    /\ stack' = Front(stack)
    /\ UNCHANGED written

(* the comma is not passed over *)
NextItem_AtComma == mode' = "loop" /\ at' = skip_space(at)

\* behind an item: a comma, if there is one
NextItem ==
    LET p == skip_space(at)
    IN /\ mode' = "loop"
       /\ at' = IF Char(p) = Comma THEN skip_space(p + 1) ELSE p

ArrayItem ==
    /\ mode = "return" /\ In("arr")
    /\ stack' = [stack EXCEPT ![Len(stack)].items = Add(@, result)]
    /\ NextItem
    /\ UNCHANGED <<written, result>>

(* white space in front of the colon is not passed over *)
ObjectKey_NoSpace ==
    /\ mode = "return" /\ In("map")
    /\ Last(stack).key = <<>>
    /\ stack' = [stack EXCEPT ![Len(stack)].key = result]
    /\ at' = skip_space(Past(at, ":"))
    /\ mode' = "value"
    /\ UNCHANGED <<written, result>>

\* a key, and a colon if there is one
ObjectKey ==
    /\ mode = "return" /\ In("map")
    /\ Last(stack).key = <<>>
    /\ stack' = [stack EXCEPT ![Len(stack)].key = result]
    /\ at' = skip_space(Past(skip_space(at), ":"))
    /\ mode' = "value"
    /\ UNCHANGED <<written, result>>

\* map_set()
Set(entries, key, value) ==
    LET same == {i \in DOMAIN entries : entries[i][1] = key}
    IN IF same = {} \/ NeverEqual(key)
         THEN Add(entries, <<key, value>>)
         ELSE [i \in DOMAIN entries |-> IF i \in same THEN <<key, value>> ELSE entries[i]]

ObjectEntry ==
    /\ mode = "return" /\ In("map")
    /\ Last(stack).key # <<>>
    /\ stack' = [stack EXCEPT ![Len(stack)].key = <<>>,
                              ![Len(stack)].items = Set(@, Last(stack).key, result)]
    /\ NextItem
    /\ UNCHANGED <<written, result>>

\* native_json_parse(): what is behind the value is an error only when the
\* value is void
Finish ==
    /\ mode = "return" /\ stack = <<>>
    /\ mode' = "done"
    /\ result' = IF result = Void /\ at <= Len(text) THEN <<"err">> ELSE <<"ok", result>>
    /\ UNCHANGED <<written, at, stack>>

Step ==
    \/ WriteLeaf \/ WriteOpen \/ WriteItem \/ WriteValue \/ WriteClose \/ Deliver
    \/ String \/ Number \/ Word \/ Nothing \/ OpenArray \/ OpenObject
    \/ Item \/ Close \/ ArrayItem \/ ObjectKey \/ ObjectEntry
    \/ Finish

Ended == mode = "done" /\ UNCHANGED vars

Next == Step \/ Ended

\* the thread that runs the native goes on
Spec == Init /\ [][Next]_vars /\ WF_vars(Step)

-----------------------------------------------------------------------------
(* Properties *)

\* Something stands in the text where nothing may start: outside of strings, a
\* character that starts no value, a minus without a number, or, in the
\* innermost bracket that is open, a closing one or a colon that does not belong
\* there.
Stray ==
    LET scan[i \in 0 .. Len(text)] ==
          IF i = 0 THEN [open |-> <<>>, string |-> FALSE, stray |-> FALSE]
          ELSE LET s == scan[i - 1]
                   c == text[i]
                   inner == IF s.open = <<>> THEN End ELSE Last(s.open)
                   misplaced == \/ c = Other
                                \/ c = "-" /\ Char(i + 1) \notin Digits
                                \/ c \in {":", RightBrace} /\ inner = "["
                                \/ c = "]" /\ inner = LeftBrace
               IN IF c = Quote THEN [s EXCEPT !.string = ~@]
                  ELSE IF s.string THEN s
                  ELSE [s EXCEPT
                          !.open = IF c \in {"[", LeftBrace} THEN Append(@, c)
                                   ELSE IF c \in {"]", RightBrace} /\ @ # <<>> THEN Front(@)
                                   ELSE @,
                          !.stray = @ \/ misplaced]
    IN scan[Len(text)].stray

\* The reader comes to an end with every text in which nothing stands where
\* nothing may start, however it is cut off, and with whatever commas and colons
\* it has or lacks.
Terminates ==
    /\ mode = "write" ~> mode = "value"
    /\ mode = "value" /\ ~Stray ~> mode = "done"
TerminatesAlways == <>(mode = "done")

\* What has been written of a value is read as that value, with white space in
\* front of its tokens or without, if every number in it survives: one with more
\* than six digits in a float, a float without a fraction (it comes back as an
\* int) and an int that a double does not hold do not.
RoundTrip == mode = "done" /\ source # <<>> /\ exact => result = <<"ok", source>>
=============================================================================
