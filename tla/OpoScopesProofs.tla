--------------------------- MODULE OpoScopesProofs ---------------------------
(***************************************************************************)
(* Theorems on OpoScopes.                                                  *)
(*                                                                         *)
(* For all tables and programs: jumps leave and repeat the innermost loop  *)
(* of their own function.  The compiler has one pointer, current_loop, and *)
(* each loop keeps the one before it (loop.next), across functions too.    *)
(* So the loops under way are a chain from current_loop outwards, on which *)
(* none is left out (Chain).  A loop of the function that is being         *)
(* compiled is therefore the one that current_loop points to; only where   *)
(* the function has no loop do the text and the compiler differ.           *)
(*                                                                         *)
(* For all tables: a name stands for the variable that the text means, and *)
(* variables that live together have slots of their own, in programs       *)
(* without the constructs in Misleads.                                     *)
(*                                                                         *)
(* local_count is one counter for all functions under way.  What it was,   *)
(* or will be again, when an element of open is the last one, is its       *)
(* level.  A level is kept by the functions, arms and calls that open on   *)
(* top, and counted back by catch blocks (Levels).  Every variable has a   *)
(* slot below the level of its block (Placed), and no entry above it that  *)
(* is in use has its name, unless an inner block declares the name too     *)
(* (Latest, Shadowed).  A nested function writes into the same entries;    *)
(* that does no harm because only one function under way has variables     *)
(* (OneDeclares).                                                          *)
(*                                                                         *)
(* TypeCorrect holds in all programs, those with Misleads included, whose  *)
(* counts may differ from the levels; it needs lower bounds only (Room).   *)
(*                                                                         *)
(* VerdictIsRight is about programs without any of the constructs in which *)
(* the table goes wrong.  There it says of each variable what the text     *)
(* says: its type (Typed), and whether it has been tested and what for     *)
(* (Tested, Guards, Untested).  An entry that is in use and belongs to no  *)
(* variable is one of a block that has ended, and a program that uses its  *)
(* name again has one of those constructs (Remembered).                    *)
(***************************************************************************)
EXTENDS OpoScopes, SequenceTheorems, WellFoundedInduction, TLAPS

\* c has the fields of a construct
Complete(c) ==
    c = [kind |-> c.kind, names |-> c.names, past |-> c.past, tests |-> c.tests,
         finds |-> c.finds, keep |-> c.keep, local |-> c.local, was |-> c.was,
         exits |-> c.exits, again |-> c.again]

\* s is a sequence of constructs
Constructs(s) ==
    /\ s \in Seq(ToSet(s))
    /\ \A i \in 1 .. Len(s) : Complete(s[i]) /\ s[i].exits \in Seq(Int)

\* l is the last loop of the first n constructs of s, or 0
Innermost(s, n, l) ==
    /\ l \in 0 .. n
    /\ l # 0 => s[l].kind = "loop"
    /\ \A j \in l + 1 .. n : s[j].kind # "loop"

\* the loops of s, from l on, each with the one around it
Chain(s, l) ==
    /\ Innermost(s, Len(s), l)
    /\ \A i \in 1 .. Len(s) : s[i].kind = "loop" => Innermost(s, i - 1, s[i].keep)

\* every jump in s goes to the loop that is meant
Lands(s) ==
    \A i \in 1 .. Len(s) : ToSet(s[i].exits) \cup s[i].again \subseteq {i}

\* a function is outermost
Rooted(s) == Len(s) >= 1 /\ s[1].kind = "function"

IInv ==
    /\ Constructs(open)
    /\ Chain(open, current_loop)
    /\ Going => Rooted(open)
    /\ "nested_jump" \notin features => Lands(open)

-----------------------------------------------------------------------------

\* Which loop is the last depends on the kinds of the constructs only.
LEMMA SameInnermost ==
    ASSUME NEW s, NEW t, NEW n \in Nat, NEW l, Innermost(s, n, l),
           \A i \in 1 .. n : t[i].kind = s[i].kind
    PROVE  Innermost(t, n, l)
<1>1. l \in 0 .. n
  BY DEF Innermost
<1> QED
  BY <1>1 DEF Innermost

\* A sequence of constructs is a function to the set of its elements.
LEMMA IsSequence ==
    ASSUME NEW s, NEW n \in Nat, s = [i \in 1 .. n |-> s[i]]
    PROVE  s \in Seq(ToSet(s)) /\ Len(s) = n
<1>1. DOMAIN s = 1 .. n
  OBVIOUS
<1>2. \A i \in 1 .. n : s[i] \in ToSet(s)
  BY <1>1 DEF ToSet
<1> QED
  BY <1>1, <1>2

LEMMA OwnElements ==
    ASSUME NEW S, NEW s \in Seq(S)
    PROVE  s \in Seq(ToSet(s)) /\ s = [i \in 1 .. Len(s) |-> s[i]]
<1>1. Len(s) \in Nat /\ s \in [1 .. Len(s) -> S]
  OBVIOUS
<1>2. s = [i \in 1 .. Len(s) |-> s[i]]
  BY <1>1
<1> QED
  BY <1>1, <1>2, IsSequence

\* Constructs may change in what they declare and test, and the last ones may go.
LEMMA SameLoops ==
    ASSUME NEW s, Constructs(s), NEW t, NEW n \in 0 .. Len(s),
           t = [i \in 1 .. n |-> t[i]],
           \A i \in 1 .. n :
                /\ Complete(t[i])
                /\ t[i].kind = s[i].kind /\ t[i].keep = s[i].keep
                /\ t[i].exits = s[i].exits /\ t[i].again = s[i].again
    PROVE  /\ Constructs(t) /\ Len(t) = n
           /\ \A l : Innermost(s, n, l) /\ Chain(s, current_loop) => Chain(t, l)
           /\ Lands(s) => Lands(t)
<1>1. Len(s) \in Nat /\ n \in Nat
  BY DEF Constructs
<1>2. t \in Seq(ToSet(t)) /\ Len(t) = n
  BY <1>1, IsSequence
<1>3. Constructs(t)
  BY <1>1, <1>2 DEF Constructs
<1>4. ASSUME NEW l, Innermost(s, n, l), Chain(s, current_loop)
      PROVE  Chain(t, l)
  <2>1. Innermost(t, Len(t), l)
    BY <1>1, <1>2, <1>4, SameInnermost
  <2>2. ASSUME NEW i \in 1 .. Len(t), t[i].kind = "loop"
        PROVE  Innermost(t, i - 1, t[i].keep)
    <3>1. i \in 1 .. Len(s) /\ s[i].kind = "loop" /\ t[i].keep = s[i].keep
      BY <1>1, <1>2, <2>2
    <3>2. Innermost(s, i - 1, t[i].keep)
      BY <1>4, <3>1 DEF Chain
    <3>3. i - 1 \in Nat /\ \A j \in 1 .. i - 1 : t[j].kind = s[j].kind
      BY <1>1, <1>2
    <3> QED
      BY <3>2, <3>3, SameInnermost
  <2> QED
    BY <2>1, <2>2 DEF Chain
<1>5. ASSUME Lands(s)
      PROVE  Lands(t)
  <2>1. ASSUME NEW i \in 1 .. n
        PROVE  ToSet(t[i].exits) \cup t[i].again \subseteq {i}
    <3>1. i \in 1 .. Len(s) /\ t[i].exits = s[i].exits /\ t[i].again = s[i].again
      BY <1>1
    <3> QED
      BY <1>5, <3>1 DEF Lands
  <2> QED
    BY <1>2, <2>1 DEF Lands
<1> QED
  BY <1>2, <1>3, <1>4, <1>5

\* A new construct, with no jumps yet: a loop keeps the one before it.
LEMMA Opened ==
    ASSUME NEW s, Constructs(s), NEW l, Chain(s, l),
           NEW c, Complete(c), c.exits = <<>>, c.again = {},
           c.kind = "loop" => c.keep = l
    PROVE  /\ Constructs(Append(s, c))
           /\ Chain(Append(s, c), IF c.kind = "loop" THEN Len(s) + 1 ELSE l)
           /\ Lands(s) => Lands(Append(s, c))
<1> DEFINE t == Append(s, c)  n == Len(s)
<1>1. n \in Nat /\ s \in Seq(ToSet(s))
  BY DEF Constructs
<1>2. s \in Seq(ToSet(s) \cup {c})
  BY <1>1, SeqMonotonic
<1>3. /\ Len(t) = n + 1 /\ t[n + 1] = c
      /\ \A i \in 1 .. n : t[i] = s[i]
      /\ t \in Seq(ToSet(s) \cup {c})
  BY <1>2, AppendProperties
<1> HIDE DEF t
<1>4. t \in Seq(ToSet(t))
  BY <1>3, OwnElements
<1>5. Constructs(t)
  <2>1. \A i \in 1 .. n + 1 : i \in 1 .. n \/ i = n + 1
    BY <1>1
  <2>2. c.exits \in Seq(Int)
    BY EmptySeq
  <2> QED
    BY <1>3, <1>4, <2>1, <2>2 DEF Constructs
<1>6. l \in 0 .. n
  BY DEF Chain, Innermost
<1>7. Innermost(t, n + 1, IF c.kind = "loop" THEN n + 1 ELSE l)
  <2>1. CASE c.kind = "loop"
    BY <1>1, <1>3, <2>1 DEF Innermost
  <2>2. CASE c.kind # "loop"
    BY <1>1, <1>3, <1>6, <2>2 DEF Chain, Innermost
  <2> QED
    BY <2>1, <2>2
<1>8. ASSUME NEW i \in 1 .. n + 1, t[i].kind = "loop"
      PROVE  Innermost(t, i - 1, t[i].keep)
  <2>1. Innermost(s, i - 1, t[i].keep)
    <3>1. CASE i = n + 1
      BY <1>1, <1>3, <1>8, <3>1 DEF Chain
    <3>2. CASE i \in 1 .. n
      BY <1>3, <1>8, <3>2 DEF Chain
    <3> QED
      BY <1>1, <3>1, <3>2
  <2>2. i - 1 \in Nat /\ \A j \in 1 .. i - 1 : t[j].kind = s[j].kind
    BY <1>1, <1>3
  <2> QED
    BY <2>1, <2>2, SameInnermost
<1>9. Chain(t, IF c.kind = "loop" THEN n + 1 ELSE l)
  BY <1>3, <1>7, <1>8 DEF Chain
<1>10. ASSUME Lands(s)
       PROVE  Lands(t)
  <2>1. ASSUME NEW i \in 1 .. n + 1
        PROVE  ToSet(t[i].exits) \cup t[i].again \subseteq {i}
    <3>1. CASE i = n + 1
      BY <1>3, <3>1 DEF ToSet
    <3>2. CASE i \in 1 .. n
      BY <1>3, <1>10, <3>2 DEF Lands
    <3> QED
      BY <1>1, <3>1, <3>2
  <2> QED
    BY <1>3, <2>1 DEF Lands
<1> QED
  BY <1>5, <1>9, <1>10 DEF t

-----------------------------------------------------------------------------

\* The last loop that is open is the current one.
LEMMA LoopFound ==
    ASSUME NEW s, Constructs(s), NEW l, Chain(s, l), l # 0
    PROVE  LastOf(s, {"loop"}) = l
<1> DEFINE I == {i \in 1 .. Len(s) : s[i].kind \in {"loop"}}
<1>1. Len(s) \in Nat
  BY DEF Constructs
<1>2. l \in I /\ \A i \in I : l >= i
  BY <1>1 DEF Chain, Innermost
<1>3. \A i \in I : (\A j \in I : i >= j) => i = l
  BY <1>1, <1>2
<1>4. Max(I) = l
  <2> HIDE DEF I
  <2> QED
    BY <1>2, <1>3 DEF Max
<1> QED
  BY <1>2, <1>4 DEF LastOf, SelectLastInSeq

\* A jump with a loop to go to, in programs without jumps out of functions.
LEMMA Meant ==
    ASSUME IInv, "nested_jump" \notin features,
           MeantLoop = 0 /\ current_loop # 0 => "nested_jump" \in features,
           current_loop # 0
    PROVE  MeantLoop = current_loop
<1>1. LastOf(open, {"loop"}) = current_loop
  BY LoopFound DEF IInv
<1> QED
  BY <1>1 DEF MeantLoop

-----------------------------------------------------------------------------

\* The parts of IInv after a step, from what is open then.
LEMMA Assemble ==
    ASSUME program' = program, NEW t, NEW l, open' = t, current_loop' = l,
           Constructs(t), Chain(t, l), Going' => Rooted(t),
           "nested_jump" \notin features => Lands(t)
    PROVE  IInv'
<1>1. Constructs(open') /\ Chain(open', current_loop')
  OBVIOUS
<1>2. Going' => Rooted(open')
  OBVIOUS
<1>3. "nested_jump" \notin features' => Lands(open')
  BY DEF features
<1> QED
  BY <1>1, <1>2, <1>3 DEF IInv, Constructs, Complete, Chain, Innermost, Lands, Rooted

\* A step that keeps the constructs of s and changes at most what they declare
\* and test.
LEMMA Changed ==
    ASSUME NEW s, Constructs(s), Chain(s, current_loop), Rooted(s),
           "nested_jump" \notin features => Lands(s),
           program' = program, current_loop' = current_loop,
           NEW t, open' = t, t = [i \in 1 .. Len(s) |-> t[i]],
           \A i \in 1 .. Len(s) :
                /\ Complete(t[i])
                /\ t[i].kind = s[i].kind /\ t[i].keep = s[i].keep
                /\ t[i].exits = s[i].exits /\ t[i].again = s[i].again
    PROVE  IInv'
<1>1. Len(s) \in Nat
  BY DEF Constructs
<1>2. Innermost(s, Len(s), current_loop)
  BY DEF Chain
<1>3. /\ Constructs(t) /\ Chain(t, current_loop) /\ Len(t) = Len(s)
      /\ Lands(s) => Lands(t)
  BY <1>1, <1>2, SameLoops
<1>4. Rooted(t)
  BY <1>1, <1>3 DEF Rooted
<1> QED
  BY <1>3, <1>4, Assemble

LEMMA Unchanged ==
    ASSUME IInv, Going, UNCHANGED <<open, current_loop, program>>
    PROVE  IInv'
BY Assemble DEF IInv

\* An expression without declarations, and an error.
LEMMA CheckStep ==
    ASSUME IInv, Going, NEW message, NEW wrong, Check(message, wrong)
    PROVE  IInv'
<1>1. CASE UNCHANGED <<open, current_loop>>
  BY <1>1, Unchanged DEF Check
<1>2. CASE open' = <<>> /\ current_loop' = 0 /\ (message # "none" \/ wrong)
  <2>1. Constructs(<<>>) /\ Chain(<<>>, 0) /\ Lands(<<>>)
    BY EmptySeq DEF Constructs, Chain, Innermost, Lands
  <2>2. ~Going'
    BY <1>2 DEF Check, Judge, Going
  <2> QED
    BY <1>2, <2>1, <2>2, Assemble DEF Check
<1> QED
  BY <1>1, <1>2 DEF Check

\* The last construct ends, and maybe its names become past.
LEMMA ClosedFacts ==
    ASSUME IInv, Going, Last(open).kind # "function" \/ Len(open) > 1,
           NEW t, t \in {Front(open), Closed}
    PROVE  /\ Constructs(t)
           /\ Chain(t, IF Last(open).kind = "loop" THEN Last(open).keep ELSE current_loop)
           /\ Rooted(t)
           /\ Lands(open) => Lands(t)
<1> DEFINE n == Len(open) - 1
           l == IF Last(open).kind = "loop" THEN Last(open).keep ELSE current_loop
<1>1. Len(open) \in Nat /\ Len(open) >= 1 /\ open[1].kind = "function"
  BY DEF IInv, Constructs, Rooted
<1>2. n \in 0 .. Len(open) /\ n >= 1
  BY <1>1 DEF Last
<1>3. /\ Front(open) = [i \in 1 .. n |-> Front(open)[i]]
      /\ \A i \in 1 .. n : Front(open)[i] = open[i]
  BY <1>1, <1>2 DEF IInv, Constructs, Front
<1>4. ASSUME NEW i \in 1 .. n
      PROVE  Complete(open[i])
  BY <1>1 DEF IInv, Constructs
<1>5. /\ t = [i \in 1 .. n |-> t[i]]
      /\ \A i \in 1 .. n :
           /\ Complete(t[i])
           /\ t[i].kind = open[i].kind /\ t[i].keep = open[i].keep
           /\ t[i].exits = open[i].exits /\ t[i].again = open[i].again
  <2>1. CASE t = Front(open)
    BY <1>3, <1>4, <2>1
  <2>2. CASE t = Closed
    <3>1. PICK p, k : t = [Front(open) EXCEPT ![k].past = p]
      BY <2>2 DEF Closed
    <3>2. t = [i \in 1 .. n |-> t[i]]
      BY <1>3, <3>1
    <3>3. ASSUME NEW i \in 1 .. n
          PROVE  /\ Complete(t[i])
                 /\ t[i].kind = open[i].kind /\ t[i].keep = open[i].keep
                 /\ t[i].exits = open[i].exits /\ t[i].again = open[i].again
      <4>1. t[i] = open[i] \/ t[i] = [open[i] EXCEPT !.past = p]
        BY <1>3, <3>1
      <4> QED
        BY <1>4, <4>1 DEF Complete
    <3> QED
      BY <3>2, <3>3
  <2> QED
    BY <2>1, <2>2
<1>6. Innermost(open, n, l)
  <2>1. CASE Last(open).kind = "loop"
    BY <1>1, <2>1 DEF IInv, Chain, Last
  <2>2. CASE Last(open).kind # "loop"
    BY <1>1, <2>2 DEF IInv, Chain, Innermost, Last
  <2> QED
    BY <2>1, <2>2
<1>7. Constructs(open) /\ Chain(open, current_loop)
  BY DEF IInv
<1>8. /\ Constructs(t) /\ Chain(t, l) /\ Len(t) = n
      /\ Lands(open) => Lands(t)
  <2> HIDE DEF l, n
  <2> QED
    BY <1>2, <1>5, <1>6, <1>7, SameLoops
<1>9. Rooted(t)
  BY <1>1, <1>2, <1>5, <1>8 DEF Rooted
<1> QED
  BY <1>8, <1>9

\* What is opened is complete.
LEMMA NewConstruct ==
    ASSUME NEW kind
    PROVE  /\ Complete(Construct(kind))
           /\ Construct(kind).kind = kind
           /\ Construct(kind).exits = <<>> /\ Construct(kind).again = {}
BY DEF Construct, Complete

LEMMA WithKeep ==
    ASSUME NEW c, Complete(c), NEW k, NEW d, d = [c EXCEPT !.keep = k]
    PROVE  /\ Complete(d) /\ d.kind = c.kind /\ d.keep = k
           /\ d.exits = c.exits /\ d.again = c.again
BY DEF Complete

LEMMA WithNames ==
    ASSUME NEW c, Complete(c), NEW new, NEW d, d = [c EXCEPT !.names = new]
    PROVE  /\ Complete(d) /\ d.kind = c.kind /\ d.keep = c.keep
           /\ d.exits = c.exits /\ d.again = c.again
BY DEF Complete

\* A construct c is opened, after s.
LEMMA OpenStep ==
    ASSUME NEW s, Constructs(s), Chain(s, current_loop), Rooted(s),
           "nested_jump" \notin features => Lands(s),
           NEW c, Complete(c), c.exits = <<>>, c.again = {},
           c.kind = "loop" => c.keep = current_loop,
           program' = program, open' = Append(s, c),
           current_loop' = IF c.kind = "loop" THEN Len(s) + 1 ELSE current_loop
    PROVE  IInv'
<1> DEFINE t == Append(s, c)
<1>1. /\ Constructs(t) /\ Chain(t, current_loop')
      /\ Lands(s) => Lands(t)
  BY Opened
<1>2. Rooted(t)
  <2>1. Len(s) \in Nat /\ s \in Seq(ToSet(s))
    BY DEF Constructs
  <2>2. s \in Seq(ToSet(s) \cup {c})
    BY <2>1, SeqMonotonic
  <2>3. Len(t) = Len(s) + 1 /\ \A i \in 1 .. Len(s) : t[i] = s[i]
    BY <2>2, AppendProperties
  <2> QED
    BY <2>1, <2>3 DEF Rooted
<1> HIDE DEF t
<1> QED
  BY <1>1, <1>2, Assemble DEF t

\* A block c that may test a variable.
LEMMA TestStep ==
    ASSUME IInv, Going, NEW c, Complete(c), c.exits = <<>>, c.again = {},
           c.kind = "loop" => c.keep = current_loop,
           NEW x, NEW finds,
           program' = program, open' = Append(open, Testing(c, x, finds)),
           current_loop' = IF c.kind = "loop" THEN Len(open) + 1 ELSE current_loop
    PROVE  IInv'
<1> DEFINE d == Testing(c, x, finds)
<1>1. /\ Complete(d) /\ d.kind = c.kind /\ d.keep = c.keep
      /\ d.exits = c.exits /\ d.again = c.again
  BY DEF Testing, Complete
<1> HIDE DEF d
<1> QED
  BY <1>1, OpenStep DEF d, IInv

\* Variables are declared in block b, and a construct is not changed otherwise.
LEMMA DeclareFacts ==
    ASSUME NEW s, Constructs(s), NEW b, NEW new
    PROVE  LET t == Declare(s, b, new)
           IN /\ t = [i \in 1 .. Len(s) |-> t[i]]
              /\ \A i \in 1 .. Len(s) :
                    /\ Complete(t[i])
                    /\ t[i].kind = s[i].kind /\ t[i].keep = s[i].keep
                    /\ t[i].exits = s[i].exits /\ t[i].again = s[i].again
<1>1. PICK p : Declare(s, b, new) = [s EXCEPT ![b].names = p]
  BY DEF Declare
<1> DEFINE t == [s EXCEPT ![b].names = p]
<1>2. DOMAIN s = 1 .. Len(s)
  BY DEF Constructs
<1>3. t = [i \in 1 .. Len(s) |-> t[i]]
  BY <1>2
<1>4. ASSUME NEW i \in 1 .. Len(s)
      PROVE  /\ Complete(t[i])
             /\ t[i].kind = s[i].kind /\ t[i].keep = s[i].keep
             /\ t[i].exits = s[i].exits /\ t[i].again = s[i].again
  <2>1. t[i] = s[i] \/ t[i] = [s[i] EXCEPT !.names = p]
    BY <1>2
  <2>2. Complete(s[i])
    BY DEF Constructs
  <2> QED
    BY <2>1, <2>2 DEF Complete
<1> QED
  BY <1>1, <1>3, <1>4

-----------------------------------------------------------------------------
(* The steps *)

LEMMA AssignStep ==
    ASSUME IInv, NEW x, NEW t, NEW declared, Assign(x, t, declared)
    PROVE  IInv'
<1>1. Going
  BY DEF Assign
<1>2. CASE \E message, wrong : Check(message, wrong)
  BY <1>1, <1>2, CheckStep
<1>3. CASE UNCHANGED <<current_loop, program>> /\ open' = Stored(x)
  <2>1. /\ Stored(x) = [i \in 1 .. Len(open) |-> Stored(x)[i]]
        /\ \A i \in 1 .. Len(open) :
              Stored(x)[i] = open[i] \/ Stored(x)[i] = [open[i] EXCEPT !.finds = "assigned"]
    BY DEF Stored
  <2>2. \A i \in 1 .. Len(open) : Complete(open[i])
    BY DEF IInv, Constructs
  <2>3. \A i \in 1 .. Len(open) :
            /\ Complete(Stored(x)[i])
            /\ Stored(x)[i].kind = open[i].kind /\ Stored(x)[i].keep = open[i].keep
            /\ Stored(x)[i].exits = open[i].exits /\ Stored(x)[i].again = open[i].again
    BY <2>1, <2>2, ZenonT(30) DEF Complete
  <2> QED
    BY <1>1, <1>3, <2>1, <2>3, Changed DEF IInv
<1>4. CASE /\ UNCHANGED <<current_loop, program>>
           /\ \E new : open' = Declare(open, Block(open), new)
  BY <1>1, <1>4, DeclareFacts, Changed DEF IInv
<1> QED
  BY <1>2, <1>3, <1>4 DEF Assign

LEMMA CallStep ==
    ASSUME IInv, BeginCall \/ EndCall
    PROVE  IInv'
<1>1. CASE BeginCall
  <2> DEFINE c == [Construct("call") EXCEPT !.keep = local_count]
  <2>1. Complete(c) /\ c.exits = <<>> /\ c.again = {} /\ c.kind = "call"
    BY NewConstruct, WithKeep
  <2>2. open' = Append(open, c) /\ UNCHANGED <<current_loop, program>> /\ Going
    BY <1>1 DEF BeginCall
  <2> HIDE DEF c
  <2> QED
    BY <2>1, <2>2, OpenStep DEF IInv
<1>2. CASE EndCall
  <2>1. /\ open' = Front(open) /\ UNCHANGED <<current_loop, program>>
        /\ Going /\ Last(open).kind = "call"
    BY <1>2 DEF EndCall, InArguments
  <2> QED
    BY <2>1, ClosedFacts, Assemble DEF IInv
<1> QED
  BY <1>1, <1>2

LEMMA BeginFunctionStep ==
    ASSUME IInv, NEW captures, NEW params, BeginFunction(captures, params)
    PROVE  IInv'
<1>1. Going
  BY DEF BeginFunction
<1>2. CASE \E message, wrong : Check(message, wrong)
  BY <1>1, <1>2, CheckStep
<1>3. CASE /\ UNCHANGED <<current_loop, program>>
           /\ \E new : open' = Append(open, [Construct("function") EXCEPT
                                                !.keep = local_count, !.names = new])
  <2>1. PICK new : open' = Append(open, [Construct("function") EXCEPT
                                            !.keep = local_count, !.names = new])
    BY <1>3
  <2> DEFINE b == [Construct("function") EXCEPT !.keep = local_count]
             c == [b EXCEPT !.names = new]
  <2>2. Complete(c) /\ c.exits = <<>> /\ c.again = {} /\ c.kind = "function"
    <3>1. Complete(b) /\ b.exits = <<>> /\ b.again = {} /\ b.kind = "function"
      BY NewConstruct, WithKeep
    <3> HIDE DEF b
    <3> QED
      BY <3>1, WithNames
  <2>3. open' = Append(open, c)
    BY <2>1
  <2> HIDE DEF c
  <2> QED
    BY <1>1, <1>3, <2>2, <2>3, OpenStep DEF IInv
<1> QED
  BY <1>2, <1>3 DEF BeginFunction

LEMMA EndFunctionStep ==
    ASSUME IInv, NEW name, EndFunction(name)
    PROVE  IInv'
<1>1. Going /\ Len(open) > 1
  BY DEF EndFunction
<1>2. Last(open).kind = "function"
  BY DEF EndFunction
<1>3. /\ Constructs(Front(open)) /\ Chain(Front(open), current_loop) /\ Rooted(Front(open))
      /\ Lands(open) => Lands(Front(open))
  BY <1>1, <1>2, ClosedFacts
<1>4. CASE UNCHANGED <<current_loop, program>> /\ open' = Front(open)
  BY <1>3, <1>4, Assemble DEF IInv
<1>5. CASE \E message, wrong : Check(message, wrong)
  BY <1>1, <1>5, CheckStep
<1>6. CASE /\ UNCHANGED <<current_loop, program>>
           /\ \E new : open' = Declare(Front(open), Block(Front(open)), new)
  BY <1>3, <1>6, DeclareFacts, Changed DEF IInv
<1> QED
  BY <1>4, <1>5, <1>6 DEF EndFunction

LEMMA EnterStep ==
    ASSUME IInv,
           \/ \E x : EnterThen(x) \/ EnterLoop(x)
           \/ EnterElse \/ EnterTry
    PROVE  IInv'
<1>1. Going
  BY DEF EnterThen, EnterLoop, EnterElse, EnterTry, MayTest
<1>2. ASSUME NEW x, EnterThen(x)
      PROVE  IInv'
  <2>1. /\ open' = Append(open, Testing(Construct("then"), x, "some"))
        /\ UNCHANGED <<current_loop, program>>
    BY <1>2 DEF EnterThen
  <2> QED
    BY <1>1, <2>1, NewConstruct, TestStep
<1>3. ASSUME NEW x, EnterLoop(x)
      PROVE  IInv'
  <2> DEFINE c == [Construct("loop") EXCEPT !.keep = current_loop]
  <2>1. /\ Complete(c) /\ c.exits = <<>> /\ c.again = {}
        /\ c.kind = "loop" /\ c.keep = current_loop
    BY NewConstruct, WithKeep
  <2>2. /\ open' = Append(open, Testing(c, x, "some"))
        /\ current_loop' = Len(open) + 1 /\ program' = program
    BY <1>3 DEF EnterLoop
  <2> HIDE DEF c
  <2> QED
    BY <1>1, <2>1, <2>2, TestStep
<1>4. CASE EnterElse
  <2>1. /\ open' = Append(Closed, Construct("else"))
        /\ UNCHANGED <<current_loop, program>>
        /\ Last(open).kind = "then"
    BY <1>4 DEF EnterElse
  <2>2. /\ Constructs(Closed) /\ Chain(Closed, current_loop) /\ Rooted(Closed)
        /\ Lands(open) => Lands(Closed)
    BY <1>1, <2>1, ClosedFacts
  <2>3. "nested_jump" \notin features => Lands(Closed)
    BY <2>2 DEF IInv
  <2> QED
    BY <2>1, <2>2, <2>3, NewConstruct, OpenStep
<1>5. CASE EnterTry
  <2>1. open' = Append(open, Construct("try")) /\ UNCHANGED <<current_loop, program>>
    BY <1>5 DEF EnterTry
  <2> QED
    BY <1>1, <2>1, NewConstruct, OpenStep DEF IInv
<1> QED
  BY <1>2, <1>3, <1>4, <1>5

LEMMA EnterArmStep ==
    ASSUME IInv, NEW x, NEW binding, NEW t, EnterArm(x, binding, t)
    PROVE  IInv'
<1> DEFINE variant == IF binding = NoName THEN "none" ELSE "some"
           a == [Construct("arm") EXCEPT !.keep = local_count]
           c == Testing(a, x, variant)
<1>1. Going
  BY DEF EnterArm, MayTest
<1>2. /\ Complete(a) /\ a.kind = "arm"
      /\ a.exits = <<>> /\ a.again = {}
  BY NewConstruct, WithKeep
<1>3. CASE UNCHANGED <<current_loop, program>> /\ open' = Append(open, c)
  <2> HIDE DEF a, variant
  <2> QED
    BY <1>1, <1>2, <1>3, TestStep
<1>4. CASE \E message, wrong : Check(message, wrong)
  BY <1>1, <1>4, CheckStep
<1>5. CASE /\ UNCHANGED <<current_loop, program>>
           /\ \E new : open' = Append(open, [c EXCEPT !.names = new])
  <2>1. PICK new : open' = Append(open, [c EXCEPT !.names = new])
    BY <1>5
  <2> DEFINE d == [c EXCEPT !.names = new]
  <2>2. Complete(c) /\ c.kind = "arm" /\ c.exits = <<>> /\ c.again = {}
    <3> HIDE DEF a
    <3> QED
      BY <1>2 DEF Testing, Complete
  <2>3. Complete(d) /\ d.kind = "arm" /\ d.exits = <<>> /\ d.again = {}
    <3> HIDE DEF c
    <3> QED
      BY <2>2, WithNames
  <2>4. open' = Append(open, d)
    BY <2>1
  <2> HIDE DEF d
  <2> QED
    BY <1>1, <1>5, <2>3, <2>4, OpenStep DEF IInv
<1>6. \/ UNCHANGED <<current_loop, program>> /\ open' = Append(open, c)
      \/ \E message, wrong : Check(message, wrong)
      \/ /\ UNCHANGED <<current_loop, program>>
         /\ \E new : open' = Append(open, [c EXCEPT !.names = new])
  BY DEF EnterArm
<1> QED
  BY <1>3, <1>4, <1>5, <1>6

LEMMA EnterCatchStep ==
    ASSUME IInv, NEW x, EnterCatch(x)
    PROVE  IInv'
<1>1. Going /\ Last(open).kind = "try"
  BY DEF EnterCatch
<1>2. CASE \E message, wrong : Check(message, wrong)
  BY <1>1, <1>2, CheckStep
<1>3. CASE /\ UNCHANGED <<current_loop, program>>
           /\ \E new : open' = Append(Closed, [Construct("catch") EXCEPT !.names = new])
  <2>1. PICK new : open' = Append(Closed, [Construct("catch") EXCEPT !.names = new])
    BY <1>3
  <2> DEFINE c == [Construct("catch") EXCEPT !.names = new]
  <2>2. Complete(c) /\ c.exits = <<>> /\ c.again = {} /\ c.kind = "catch"
    BY NewConstruct, WithNames
  <2>3. open' = Append(Closed, c)
    BY <2>1
  <2>4. /\ Constructs(Closed) /\ Chain(Closed, current_loop) /\ Rooted(Closed)
        /\ "nested_jump" \notin features => Lands(Closed)
    BY <1>1, ClosedFacts DEF IInv
  <2> HIDE DEF c
  <2> QED
    BY <1>3, <2>2, <2>3, <2>4, OpenStep
<1> QED
  BY <1>2, <1>3 DEF EnterCatch

LEMMA LeaveStep ==
    ASSUME IInv, LeaveBranch \/ LeaveLoop \/ LeaveArm \/ LeaveCatch
    PROVE  IInv'
<1>1. Going /\ Last(open).kind # "function" /\ open' \in {Front(open), Closed}
  BY DEF LeaveBranch, LeaveLoop, LeaveArm, LeaveCatch
<1>2. current_loop' = IF Last(open).kind = "loop" THEN Last(open).keep ELSE current_loop
  BY DEF LeaveBranch, LeaveLoop, LeaveArm, LeaveCatch
<1>3. program' = program
  BY DEF LeaveBranch, LeaveLoop, LeaveArm, LeaveCatch
<1> DEFINE t == open'
<1>4. /\ Constructs(t) /\ Chain(t, current_loop') /\ Rooted(t)
      /\ "nested_jump" \notin features => Lands(t)
  <2> HIDE DEF t
  <2>1. t \in {Front(open), Closed}
    BY <1>1 DEF t
  <2> QED
    BY <1>1, <1>2, <2>1, ClosedFacts DEF IInv
<1> HIDE DEF t
<1> QED
  BY <1>3, <1>4, Assemble DEF t

LEMMA AppendJump ==
    ASSUME NEW e \in Seq(Int), NEW m \in Int
    PROVE  /\ Append(e, m) \in Seq(Int)
           /\ ToSet(Append(e, m)) \subseteq ToSet(e) \cup {m}
<1>1. /\ Append(e, m) \in Seq(Int) /\ Len(Append(e, m)) = Len(e) + 1
      /\ \A i \in 1 .. Len(e) : Append(e, m)[i] = e[i]
      /\ Append(e, m)[Len(e) + 1] = m
  BY AppendProperties
<1> QED
  BY <1>1 DEF ToSet

\* A jump is added to the loop that current_loop points to.
LEMMA JumpStep ==
    ASSUME IInv, Break \/ Continue
    PROVE  IInv'
<1>1. /\ Going
      /\ MeantLoop = 0 /\ current_loop # 0 => "nested_jump" \in features
  BY DEF Break, Continue
<1>2. CASE \E message, wrong : Check(message, wrong)
  BY <1>1, <1>2, CheckStep
<1>3. CASE /\ current_loop # 0
           /\ UNCHANGED <<current_loop, program>>
           /\ \/ open' = [open EXCEPT ![current_loop].exits = Append(@, MeantLoop)]
              \/ open' = [open EXCEPT ![current_loop].again = @ \cup {MeantLoop}]
  <2> DEFINE l == current_loop
             t == open'
  <2>1. /\ Len(open) \in Nat /\ DOMAIN open = 1 .. Len(open) /\ l \in 1 .. Len(open)
    BY <1>3 DEF IInv, Constructs, Chain, Innermost
  <2>2. MeantLoop \in Int /\ ("nested_jump" \notin features => MeantLoop = l)
    <3>1. LastOf(open, {"loop"}) = l
      BY <1>3, LoopFound DEF IInv
    <3>2. MeantLoop \in {0, l}
      BY <3>1 DEF MeantLoop
    <3> QED
      BY <1>1, <1>3, <2>1, <3>2
  <2>3. /\ t = [i \in 1 .. Len(open) |-> t[i]]
        /\ \A i \in 1 .. Len(open) \ {l} : t[i] = open[i]
        /\ t[l] \in {[open[l] EXCEPT !.exits = Append(@, MeantLoop)],
                     [open[l] EXCEPT !.again = @ \cup {MeantLoop}]}
    BY <1>3, <2>1
  <2>4. Complete(open[l]) /\ open[l].exits \in Seq(Int)
    BY <2>1 DEF IInv, Constructs
  <2>5. /\ Complete(t[l]) /\ t[l].kind = open[l].kind /\ t[l].keep = open[l].keep
        /\ \/ t[l].exits = Append(open[l].exits, MeantLoop) /\ t[l].again = open[l].again
           \/ t[l].exits = open[l].exits /\ t[l].again = open[l].again \cup {MeantLoop}
    BY <2>3, <2>4 DEF Complete
  <2> HIDE DEF t
  <2>6. t[l].exits \in Seq(Int)
    BY <2>2, <2>4, <2>5, AppendJump
  <2>7. ToSet(t[l].exits) \subseteq ToSet(open[l].exits) \cup {MeantLoop}
    BY <2>2, <2>4, <2>5, AppendJump
  <2>8. t \in Seq(ToSet(t)) /\ Len(t) = Len(open)
    BY <2>1, <2>3, IsSequence
  <2>9. Constructs(t)
    <3>1. ASSUME NEW i \in 1 .. Len(open)
          PROVE  Complete(t[i]) /\ t[i].exits \in Seq(Int)
      <4>1. CASE i = l
        BY <2>5, <2>6, <4>1
      <4>2. CASE i # l
        BY <2>3, <4>2 DEF IInv, Constructs
      <4> QED
        BY <4>1, <4>2
    <3> QED
      BY <2>8, <3>1 DEF Constructs
  <2>10. \A i \in 1 .. Len(open) : t[i].kind = open[i].kind /\ t[i].keep = open[i].keep
    BY <2>3, <2>5
  <2>11. Chain(t, l)
    <3>1. Chain(open, l)
      BY DEF IInv
    <3>2. Innermost(t, Len(t), l)
      BY <2>1, <2>8, <2>10, <3>1, SameInnermost DEF Chain
    <3>3. ASSUME NEW i \in 1 .. Len(t), t[i].kind = "loop"
          PROVE  Innermost(t, i - 1, t[i].keep)
      <4>1. i \in 1 .. Len(open) /\ open[i].kind = "loop" /\ t[i].keep = open[i].keep
        BY <2>8, <2>10, <3>3
      <4>2. Innermost(open, i - 1, t[i].keep)
        BY <3>1, <4>1 DEF Chain
      <4>3. i - 1 \in Nat /\ \A j \in 1 .. i - 1 : t[j].kind = open[j].kind
        BY <2>1, <2>10, <4>1
      <4> QED
        BY <4>2, <4>3, SameInnermost
    <3> QED
      BY <3>2, <3>3 DEF Chain
  <2>12. Rooted(t)
    BY <1>1, <2>8, <2>10 DEF Rooted, IInv
  <2>13. ASSUME "nested_jump" \notin features
         PROVE  Lands(t)
    <3>1. ASSUME NEW i \in 1 .. Len(open)
          PROVE  ToSet(t[i].exits) \cup t[i].again \subseteq {i}
      <4>1. ToSet(open[i].exits) \cup open[i].again \subseteq {i}
        BY <2>13 DEF IInv, Lands
      <4>2. CASE i = l
        BY <2>2, <2>5, <2>7, <2>13, <4>1, <4>2
      <4>3. CASE i # l
        BY <2>3, <4>1, <4>3
      <4> QED
        BY <4>2, <4>3
    <3> QED
      BY <2>8, <3>1 DEF Lands
  <2> QED
    BY <1>3, <2>9, <2>11, <2>12, <2>13, Assemble DEF t
<1> QED
  BY <1>2, <1>3 DEF Break, Continue

-----------------------------------------------------------------------------

LEMMA InitInv ==
    ASSUME Init
    PROVE  IInv
<1> DEFINE c == Construct("function")
<1>1. Constructs(<<>>) /\ Chain(<<>>, 0) /\ Lands(<<>>)
  BY EmptySeq DEF Constructs, Chain, Innermost, Lands
<1>2. Complete(c) /\ c.exits = <<>> /\ c.again = {} /\ c.kind = "function"
  BY NewConstruct
<1>3. open = Append(<<>>, c) /\ current_loop = 0
  BY DEF Init
<1>4. Rooted(open)
  BY <1>2, <1>3 DEF Rooted
<1> HIDE DEF c
<1>5. Constructs(open) /\ Chain(open, 0) /\ Lands(open)
  BY <1>1, <1>2, <1>3, Opened
<1> QED
  BY <1>3, <1>4, <1>5 DEF IInv

LEMMA NextInv ==
    ASSUME IInv, [Next]_vars
    PROVE  IInv'
<1>1. CASE UNCHANGED vars
  BY <1>1 DEF vars, IInv, Going, features, Constructs, Complete, Chain, Innermost,
              Lands, Rooted
<1>2. ASSUME NEW x, NEW called, Use(x, called)
      PROVE  IInv'
  BY <1>2, CheckStep DEF Use
<1>3. ASSUME NEW x, Unwrap(x)
      PROVE  IInv'
  BY <1>3, CheckStep DEF Unwrap
<1>4. CASE Ended
  BY <1>1, <1>4 DEF Ended
<1> QED
  BY <1>1, <1>2, <1>3, <1>4, AssignStep, CallStep, BeginFunctionStep, EndFunctionStep,
     EnterStep, EnterArmStep, EnterCatchStep, LeaveStep, JumpStep DEF Next

\* Every . and .. goes to the end or the head of the innermost loop of its own
\* function, however functions and loops are nested (break_op, continue_op and
\* loop_expr); programs with . or .. in a nested function for a loop around it
\* are left out.
THEOREM LoopsLeftInOrder == Spec => []JumpsLand
<1>1. Init => IInv
  BY InitInv
<1>2. IInv /\ [Next]_vars => IInv'
  BY NextInv
<1>3. IInv => JumpsLand
  BY DEF IInv, JumpsLand, Lands
<1> QED
  BY <1>1, <1>2, <1>3, PTL DEF Spec

-----------------------------------------------------------------------------
(* Names and slots *)

Right == features \cap Misleads = {}

\* T has all entries, and the entries have all fields
Table(T) ==
    /\ T = [k \in Slots |-> T[k]]
    /\ \A k \in Slots : T[k] = [name |-> T[k].name, type |-> T[k].type, guard |-> T[k].guard]

Kinds(s) ==
    /\ \A i \in 1 .. Len(s) : s[i].kind \in Blocks \cup {"call"}
    /\ \A i \in 2 .. Len(s) : s[i - 1].kind = "call" => s[i].kind \in {"call", "function"}

\* the constructs i to j of s are of one function
Together(s, i, j) == \A m \in i + 1 .. j : s[m].kind # "function"

\* and none of those from i on keeps a level
Flat(s, i, j) == \A m \in i + 1 .. j : s[m].kind \in {"then", "else", "loop", "try"}

Levels(s, lev) ==
    /\ lev \in [1 .. Len(s) -> 0 .. MAX_LOCALS]
    /\ \A j \in 2 .. Len(s) :
         /\ s[j].kind \in {"function", "arm", "call"} => s[j].keep = lev[j - 1]
         /\ s[j].kind \in {"catch", "call"} => lev[j] = lev[j - 1] + 1
    /\ \A i, j \in 1 .. Len(s) : i <= j /\ Flat(s, i, j) => lev[i] = lev[j]
    /\ \A i, j \in 1 .. Len(s) : i <= j /\ Together(s, i, j) => lev[i] <= lev[j]

Placed(s, lev, T) ==
    \A i \in 1 .. Len(s) : \A x \in DOMAIN s[i].names :
        /\ s[i].names[x].slot \in 0 .. lev[i] - 1
        /\ T[s[i].names[x].slot].name = x

Shadowed(s) ==
    \A i, j \in 1 .. Len(s) : i < j /\ Together(s, i, j) =>
        \A x \in DOMAIN s[i].names \cap DOMAIN s[j].names :
            s[i].names[x].slot < s[j].names[x].slot

\* a block after i, up to j, declares x too
Hidden(s, i, j, x) == \E m \in i + 1 .. j : x \in DOMAIN s[m].names

Latest(s, lev, T) ==
    \A i, j \in 1 .. Len(s) : i <= j /\ Together(s, i, j) /\ s[j].kind # "call" =>
        \A x \in DOMAIN s[i].names :
            ~Hidden(s, i, j, x) =>
                \A k \in s[i].names[x].slot + 1 .. lev[j] - 1 : T[k].name # x

Empty(c) == c.names = NothingDeclared /\ c.past = {}

OneDeclares(s) ==
    \A f \in 1 .. Len(s) : s[f].kind = "function" =>
        (\A i \in 1 .. f - 1 : Empty(s[i])) \/ (\A i \in f .. Len(s) : Empty(s[i]))

\* calls declare nothing
Plain(s) == \A i \in 1 .. Len(s) : s[i].kind = "call" => DOMAIN s[i].names = {}

Named(s, lev, T) ==
    /\ Table(T)
    /\ Kinds(s)
    /\ Plain(s)
    /\ Levels(s, lev)
    /\ Placed(s, lev, T)
    /\ Shadowed(s)
    /\ Latest(s, lev, T)
    /\ OneDeclares(s)

NowNamed ==
    \E lev \in [1 .. Len(open) -> 0 .. MAX_LOCALS] :
        Named(open, lev, locals) /\ lev[Len(open)] = local_count

NInv == IInv /\ (Right /\ Going => NowNamed)

-----------------------------------------------------------------------------
(* The greatest element of a set of numbers, and the last construct of a kind *)

LEMMA MaxOf ==
    ASSUME NEW a \in Int, NEW b \in Int, NEW S, S \subseteq a .. b, S # {}
    PROVE  Max(S) \in S /\ \A y \in S : Max(S) >= y
<1> DEFINE R == OpToRel(<, Nat)
           D == {b - y : y \in S}
<1>1. D \subseteq Nat /\ D # {}
  BY SMT
<1>2. PICK d \in D : \A e \in D : ~ (<<e, d>> \in R)
  <2> HIDE DEF D, R
  <2>1. IsWellFoundedOn(R, Nat)
    BY NatLessThanWellFounded DEF R
  <2> QED
    BY <1>1, <2>1, WFMin
<1>3. \A e \in D : d <= e
  <2> HIDE DEF D
  <2>1. ASSUME NEW e \in D
        PROVE  d <= e
    <3>1. <<e, d>> \in Nat \X Nat /\ ~ (<<e, d>> \in R)
      BY <1>1, <1>2
    <3>2. ~ (e < d)
      BY <3>1 DEF OpToRel
    <3> QED
      BY <1>1, <3>2
  <2> QED
    BY <2>1
<1>4. PICK x \in S : d = b - x
  OBVIOUS
<1>5. ASSUME NEW y \in S
      PROVE  x >= y
  <2>1. b - x <= b - y
    BY <1>3, <1>4
  <2>2. x \in Int /\ y \in Int
    BY <1>4
  <2> QED
    BY <2>1, <2>2
<1> QED
  BY <1>4, <1>5 DEF Max

LEMMA LastOfFacts ==
    ASSUME NEW s, Len(s) \in Nat, NEW K, NEW i \in 1 .. Len(s), s[i].kind \in K
    PROVE  /\ LastOf(s, K) \in 1 .. Len(s)
           /\ LastOf(s, K) >= i
           /\ s[LastOf(s, K)].kind \in K
           /\ \A j \in LastOf(s, K) + 1 .. Len(s) : s[j].kind \notin K
<1> DEFINE S == {j \in 1 .. Len(s) : s[j].kind \in K}
<1>1. S \subseteq 1 .. Len(s) /\ i \in S
  OBVIOUS
<1>2. LastOf(s, K) = Max(S)
  BY <1>1 DEF LastOf, SelectLastInSeq
<1> DEFINE l == LastOf(s, K)
<1>3. l \in S /\ \A y \in S : l >= y
  <2> HIDE DEF S
  <2>1. S # {} /\ 1 \in Int /\ Len(s) \in Int
    BY <1>1
  <2>2. Max(S) \in S /\ \A y \in S : Max(S) >= y
    BY <1>1, <2>1, MaxOf
  <2> QED
    BY <1>2, <2>2
<1> HIDE DEF l
<1>4. l \in 1 .. Len(s) /\ l >= i /\ s[l].kind \in K
  BY <1>1, <1>3
<1>5. ASSUME NEW j \in l + 1 .. Len(s), s[j].kind \in K
      PROVE  FALSE
  <2>1. j \in S
    BY <1>4, <1>5
  <2> QED
    BY <1>3, <1>4, <2>1
<1> QED
  BY <1>4, <1>5 DEF l

-----------------------------------------------------------------------------
(* Sequences of constructs that are Named *)

\* The last constructs may go, and entries and constructs may change otherwise.
LEMMA NamedPart ==
    ASSUME NEW s, NEW lev, NEW T, Named(s, lev, T), Len(s) \in Nat,
           NEW t, Len(t) \in 0 .. Len(s),
           \A i \in 1 .. Len(t) :
             t[i].kind = s[i].kind /\ t[i].keep = s[i].keep /\ t[i].names = s[i].names,
           OneDeclares(t),
           NEW U, Table(U), \A k \in Slots : U[k].name = T[k].name
    PROVE  Named(t, [i \in 1 .. Len(t) |-> lev[i]], U)
<1> DEFINE n == Len(t)
           lv == [i \in 1 .. n |-> lev[i]]
<1>1. \A i \in 1 .. n : i \in 1 .. Len(s)
  OBVIOUS
<1>2. lev \in [1 .. Len(s) -> 0 .. MAX_LOCALS]
  BY DEF Named, Levels
<1>3. lv \in [1 .. n -> 0 .. MAX_LOCALS] /\ \A i \in 1 .. n : lv[i] = lev[i]
  BY <1>1, <1>2
<1> HIDE DEF lv
<1>4. Kinds(t)
  <2>1. Kinds(s)
    BY DEF Named
  <2>2. \A i \in 2 .. n : i \in 2 .. Len(s) /\ i - 1 \in 1 .. n /\ i \in 1 .. n
    OBVIOUS
  <2> QED
    BY <1>1, <2>1, <2>2 DEF Kinds
<1>5. \A i, j \in 1 .. n : Together(t, i, j) <=> Together(s, i, j)
  BY DEF Together
<1>6. \A i, j \in 1 .. n : Flat(t, i, j) <=> Flat(s, i, j)
  BY DEF Flat
<1>7. Levels(t, lv)
  <2>1. ASSUME NEW j \in 2 .. n
        PROVE  /\ t[j].kind \in {"function", "arm", "call"} => t[j].keep = lv[j - 1]
               /\ t[j].kind \in {"catch", "call"} => lv[j] = lv[j - 1] + 1
    <3>1. j \in 2 .. Len(s) /\ j \in 1 .. n /\ j - 1 \in 1 .. n
      OBVIOUS
    <3> QED
      BY <1>3, <3>1 DEF Named, Levels
  <2>2. ASSUME NEW i \in 1 .. n, NEW j \in 1 .. n, i <= j, Flat(t, i, j)
        PROVE  lv[i] = lv[j]
    BY <1>1, <1>3, <1>6, <2>2 DEF Named, Levels
  <2>3. ASSUME NEW i \in 1 .. n, NEW j \in 1 .. n, i <= j, Together(t, i, j)
        PROVE  lv[i] <= lv[j]
    BY <1>1, <1>3, <1>5, <2>3 DEF Named, Levels
  <2> QED
    BY <1>3, <2>1, <2>2, <2>3 DEF Levels
<1>8. Placed(t, lv, U)
  <2>1. ASSUME NEW i \in 1 .. n, NEW x \in DOMAIN t[i].names
        PROVE  /\ t[i].names[x].slot \in 0 .. lv[i] - 1
               /\ U[t[i].names[x].slot].name = x
    <3>1. /\ t[i].names[x].slot \in 0 .. lev[i] - 1
          /\ T[t[i].names[x].slot].name = x
      BY <1>1 DEF Named, Placed
    <3>2. t[i].names[x].slot \in Slots
      BY <1>1, <1>2, <3>1, ScopesAssumption DEF Slots
    <3> QED
      BY <1>3, <3>1, <3>2
  <2> QED
    BY <2>1 DEF Placed
<1>9. Shadowed(t)
  BY <1>1, <1>5 DEF Named, Shadowed
<1>10. Latest(t, lv, U)
  <2>1. ASSUME NEW i \in 1 .. n, NEW j \in 1 .. n, i <= j, Together(t, i, j),
               t[j].kind # "call", NEW x \in DOMAIN t[i].names,
               ~Hidden(t, i, j, x),
               NEW k \in t[i].names[x].slot + 1 .. lv[j] - 1
        PROVE  U[k].name # x
    <3>1. ~Hidden(s, i, j, x)
      BY <2>1 DEF Hidden
    <3>2. s[j].kind # "call" /\ x \in DOMAIN s[i].names /\ Together(s, i, j)
      BY <1>5, <2>1
    <3>3. k \in s[i].names[x].slot + 1 .. lev[j] - 1
      BY <1>3
    <3>4. T[k].name # x
      BY <1>1, <2>1, <3>1, <3>2, <3>3 DEF Named, Latest
    <3>5. s[i].names[x].slot \in Nat /\ lev[j] \in 0 .. MAX_LOCALS
      BY <1>1, <1>2, <3>2 DEF Named, Placed
    <3>6. k \in Slots
      BY <3>3, <3>5, ScopesAssumption, SMTT(30) DEF Slots
    <3> QED
      BY <3>4, <3>6
  <2> QED
    BY <2>1 DEF Latest
<1>11. Plain(t)
  BY <1>1 DEF Named, Plain
<1> QED
  BY <1>4, <1>7, <1>8, <1>9, <1>10, <1>11 DEF Named, lv

\* Where the last construct declares something, no function is between it and
\* another one that does.
LEMMA DeclareTogether ==
    ASSUME NEW s, Len(s) \in Nat \ {0}, OneDeclares(s),
           NEW i \in 1 .. Len(s), DOMAIN s[i].names # {}, DOMAIN s[Len(s)].names # {}
    PROVE  Together(s, i, Len(s))
<1>1. \A j \in 1 .. Len(s) : Empty(s[j]) => DOMAIN s[j].names = {}
  BY DEF Empty, NothingDeclared
<1>2. ASSUME NEW f \in i + 1 .. Len(s), s[f].kind = "function"
      PROVE  FALSE
  <2>1. f \in 1 .. Len(s) /\ i \in 1 .. f - 1 /\ Len(s) \in f .. Len(s)
    OBVIOUS
  <2>2. Empty(s[i]) \/ Empty(s[Len(s)])
    BY <1>2, <2>1 DEF OneDeclares
  <2> QED
    BY <1>1, <2>2, <2>1
<1> QED
  BY <1>2 DEF Together

\* The variables of c have slots below v, and unless c is a function from l on.
Fits(c, l, v, U) ==
    \A x \in DOMAIN c.names :
        /\ c.names[x].slot \in 0 .. v - 1
        /\ c.kind # "function" => c.names[x].slot >= l
        /\ U[c.names[x].slot].name = x
        /\ \A k \in c.names[x].slot + 1 .. v - 1 : U[k].name # x

\* t is s with c opened on top, at level v, and U has entries for what c declares.
Pushes(s, lev, T, t, c, v, U) ==
    /\ Named(s, lev, T) /\ Len(s) \in Nat \ {0}
    /\ Len(t) = Len(s) + 1 /\ (\A i \in 1 .. Len(s) : t[i] = s[i]) /\ t[Len(s) + 1] = c
    /\ OneDeclares(t)
    /\ v \in 0 .. MAX_LOCALS
    /\ c.kind \in Blocks \cup {"call"}
    /\ s[Len(s)].kind = "call" => c.kind \in {"call", "function"}
    /\ c.kind = "call" => DOMAIN c.names = {}
    /\ c.kind \in {"function", "arm", "call"} => c.keep = lev[Len(s)]
    /\ c.kind \in {"catch", "call"} => v = lev[Len(s)] + 1
    /\ c.kind \in {"then", "else", "loop", "try"} => v = lev[Len(s)]
    /\ c.kind # "function" => v >= lev[Len(s)]
    /\ Table(U)
    /\ DOMAIN c.names = {} => \A k \in Slots : U[k].name = T[k].name
    /\ c.kind # "function" => \A k \in 0 .. lev[Len(s)] - 1 : U[k].name = T[k].name
    /\ c.kind \notin {"function", "call"} =>
         \A k \in lev[Len(s)] .. v - 1 : U[k].name \in DOMAIN c.names
    /\ Fits(c, lev[Len(s)], v, U)

\* the levels, with one more
Over(lev, t, v) == [i \in 1 .. Len(t) |-> IF i = Len(t) THEN v ELSE lev[i]]

LEMMA NamedPush ==
    ASSUME NEW s, NEW lev, NEW T, NEW t, NEW c, NEW v, NEW U,
           Pushes(s, lev, T, t, c, v, U)
    PROVE  Named(t, Over(lev, t, v), U)
<1> DEFINE n == Len(s)
           lv == Over(lev, t, v)
<1> USE DEF Fits, Pushes
<1>1. /\ n \in Nat /\ n >= 1 /\ MAX_LOCALS \in Nat /\ Len(t) = n + 1
      /\ \A i \in 1 .. n + 1 : i \in 1 .. n \/ i = n + 1
      /\ \A i \in 1 .. n : t[i] = s[i]
      /\ t[n + 1] = c
  BY ScopesAssumption
<1>2. /\ lev \in [1 .. n -> 0 .. MAX_LOCALS]
      /\ \A i \in 1 .. n : lev[i] \in Nat /\ lev[i] <= MAX_LOCALS
      /\ lev[n] \in Nat /\ v \in Nat
  BY <1>1 DEF Named, Levels
<1>3. /\ lv \in [1 .. n + 1 -> 0 .. MAX_LOCALS]
      /\ lv[n + 1] = v /\ \A i \in 1 .. n : lv[i] = lev[i]
  BY <1>1, <1>2 DEF Over
<1> HIDE DEF lv
<1>4. Kinds(t)
  <2>1. ASSUME NEW i \in 1 .. n + 1
        PROVE  t[i].kind \in Blocks \cup {"call"}
    BY <1>1 DEF Named, Kinds
  <2>2. ASSUME NEW i \in 2 .. n + 1, t[i - 1].kind = "call"
        PROVE  t[i].kind \in {"call", "function"}
    <3>1. CASE i = n + 1
      BY <1>1, <2>2, <3>1
    <3>2. CASE i \in 2 .. n
      <4>1. i \in 1 .. n /\ i - 1 \in 1 .. n
        BY <1>1, <3>2
      <4> QED
        BY <1>1, <2>2, <3>2, <4>1 DEF Named, Kinds
    <3> QED
      BY <1>1, <3>1, <3>2
  <2> QED
    BY <1>1, <2>1, <2>2 DEF Kinds
<1>5. /\ \A i, j \in 1 .. n : Together(t, i, j) <=> Together(s, i, j)
      /\ \A i, j \in 1 .. n : Flat(t, i, j) <=> Flat(s, i, j)
      /\ \A i \in 1 .. n : Together(t, i, n + 1) => Together(s, i, n) /\ c.kind # "function"
      /\ \A i \in 1 .. n : Flat(t, i, n + 1) =>
            Flat(s, i, n) /\ c.kind \in {"then", "else", "loop", "try"}
  <2> HIDE DEF Pushes, Fits
  <2> QED
    BY <1>1, SMTT(30) DEF Together, Flat
<1>6. Levels(t, lv)
  <2>1. ASSUME NEW j \in 2 .. n + 1
        PROVE  /\ t[j].kind \in {"function", "arm", "call"} => t[j].keep = lv[j - 1]
               /\ t[j].kind \in {"catch", "call"} => lv[j] = lv[j - 1] + 1
    <3>1. CASE j = n + 1
      BY <1>1, <1>3, <3>1
    <3>2. CASE j \in 2 .. n
      <4>1. j \in 1 .. n /\ j - 1 \in 1 .. n
        BY <1>1, <3>2
      <4> QED
        BY <1>1, <1>3, <3>2, <4>1 DEF Named, Levels
    <3> QED
      BY <1>1, <3>1, <3>2
  <2>2. ASSUME NEW i \in 1 .. n + 1, NEW j \in 1 .. n + 1, i <= j, Flat(t, i, j)
        PROVE  lv[i] = lv[j]
    <3>1. CASE j \in 1 .. n
      BY <1>1, <1>3, <1>5, <2>2, <3>1 DEF Named, Levels
    <3>2. CASE j = n + 1 /\ i \in 1 .. n
      <4>1. lev[i] = lev[n]
        BY <1>1, <1>5, <2>2, <3>2 DEF Named, Levels
      <4>2. c.kind \in {"then", "else", "loop", "try"}
        BY <1>5, <2>2, <3>2
      <4> QED
        BY <1>3, <3>2, <4>1, <4>2
    <3> QED
      BY <1>1, <2>2, <3>1, <3>2
  <2>3. ASSUME NEW i \in 1 .. n + 1, NEW j \in 1 .. n + 1, i <= j, Together(t, i, j)
        PROVE  lv[i] <= lv[j]
    <3>1. CASE j \in 1 .. n
      <4>1. i \in 1 .. n /\ Together(s, i, j)
        BY <1>1, <1>5, <2>3, <3>1
      <4>2. lev[i] <= lev[j]
        BY <2>3, <3>1, <4>1 DEF Named, Levels
      <4> HIDE DEF Pushes, Fits
      <4> QED
        BY <1>3, <3>1, <4>1, <4>2
    <3>2. CASE j = n + 1 /\ i \in 1 .. n
      <4>1. lev[i] <= lev[n]
        BY <1>1, <1>5, <2>3, <3>2 DEF Named, Levels
      <4>2. c.kind # "function"
        BY <1>5, <2>3, <3>2
      <4>3. v >= lev[n] /\ n \in 1 .. n
        BY <1>1, <4>2
      <4> HIDE DEF Pushes, Fits
      <4>4. lev[i] \in Nat /\ lev[n] \in Nat /\ v \in Nat /\ lv[i] = lev[i] /\ lv[j] = v
        BY <1>2, <1>3, <3>2
      <4> QED
        BY <4>1, <4>3, <4>4
    <3> QED
      BY <1>1, <1>3, <2>3, <3>1, <3>2
  <2> QED
    BY <1>1, <1>3, <2>1, <2>2, <2>3 DEF Levels
<1>7. ASSUME NEW i \in 1 .. n, NEW x \in DOMAIN s[i].names
      PROVE  /\ s[i].names[x].slot \in 0 .. lev[i] - 1 /\ lev[i] \in 0 .. MAX_LOCALS
             /\ s[i].names[x].slot \in Nat
             /\ T[s[i].names[x].slot].name = x
             /\ DOMAIN c.names # {} => lev[i] <= lev[n] /\ c.kind # "function"
             /\ \A k \in 0 .. lev[i] - 1 : U[k].name = T[k].name
  <2>1. /\ s[i].names[x].slot \in 0 .. lev[i] - 1 /\ lev[i] \in 0 .. MAX_LOCALS
        /\ s[i].names[x].slot \in Nat
        /\ T[s[i].names[x].slot].name = x
    BY <1>1, <1>2 DEF Named, Placed
  <2>2. ASSUME DOMAIN c.names # {}
        PROVE  lev[i] <= lev[n] /\ c.kind # "function"
    <3>1. Together(t, i, n + 1)
      BY <1>1, <1>7, <2>2, DeclareTogether
    <3>2. Together(s, i, n) /\ c.kind # "function"
      BY <1>5, <3>1
    <3> QED
      BY <1>1, <3>2 DEF Named, Levels
  <2>3. ASSUME NEW k \in 0 .. lev[i] - 1
        PROVE  U[k].name = T[k].name
    <3>1. CASE DOMAIN c.names # {}
      <4>1. k \in 0 .. lev[n] - 1
        BY <1>1, <1>2, <2>1, <2>2, <3>1
      <4> QED
        BY <2>2, <3>1, <4>1
    <3>2. CASE DOMAIN c.names = {}
      <4>1. k \in Slots
        BY <1>1, <2>1 DEF Slots
      <4> QED
        BY <3>2, <4>1
    <3> QED
      BY <3>1, <3>2
  <2> QED
    BY <2>1, <2>2, <2>3
<1>8. Placed(t, lv, U)
  <2>1. ASSUME NEW i \in 1 .. n + 1, NEW x \in DOMAIN t[i].names
        PROVE  /\ t[i].names[x].slot \in 0 .. lv[i] - 1
               /\ U[t[i].names[x].slot].name = x
    <3>1. CASE i = n + 1
      BY <1>1, <1>3, <3>1
    <3>2. CASE i \in 1 .. n
      <4>1. t[i] = s[i] /\ lv[i] = lev[i] /\ x \in DOMAIN s[i].names
        BY <1>1, <1>3, <3>2
      <4>2. /\ s[i].names[x].slot \in 0 .. lev[i] - 1
            /\ T[s[i].names[x].slot].name = x
            /\ \A k \in 0 .. lev[i] - 1 : U[k].name = T[k].name
        BY <1>7, <3>2, <4>1
      <4> QED
        BY <4>1, <4>2
    <3> QED
      BY <1>1, <3>1, <3>2
  <2> QED
    BY <1>1, <2>1 DEF Placed
<1>9. Shadowed(t)
  <2>1. ASSUME NEW i \in 1 .. n + 1, NEW j \in 1 .. n + 1, i < j, Together(t, i, j),
               NEW x \in DOMAIN t[i].names \cap DOMAIN t[j].names
        PROVE  t[i].names[x].slot < t[j].names[x].slot
    <3>1. i \in 1 .. n /\ t[i] = s[i]
      BY <1>1, <2>1
    <3>2. CASE j = n + 1
      <4>1. /\ s[i].names[x].slot \in 0 .. lev[i] - 1 /\ lev[i] <= lev[n]
            /\ lev[i] \in 0 .. MAX_LOCALS /\ c.kind # "function"
        BY <1>1, <1>7, <3>1, <3>2
      <4>2. c.names[x].slot >= lev[n] /\ c.names[x].slot \in 0 .. v - 1
        BY <1>1, <3>2, <4>1
      <4>3. s[i].names[x].slot < lev[n] /\ lev[n] <= c.names[x].slot
        BY <1>2, <3>1, <4>1, <4>2
      <4>4. c.names[x].slot \in Nat /\ s[i].names[x].slot \in Nat
        BY <1>2, <3>1, <4>1, <4>2
      <4>5. s[i].names[x].slot < c.names[x].slot
        BY <1>2, <4>3, <4>4
      <4> QED
        BY <1>1, <3>1, <3>2, <4>5
    <3>3. CASE j \in 1 .. n
      BY <1>1, <1>5, <2>1, <3>1, <3>3 DEF Named, Shadowed
    <3> QED
      BY <1>1, <3>2, <3>3
  <2> QED
    BY <1>1, <2>1 DEF Shadowed
<1>10. Latest(t, lv, U)
  <2>1. ASSUME NEW i \in 1 .. n + 1, NEW j \in 1 .. n + 1, i <= j, Together(t, i, j),
               t[j].kind # "call", NEW x \in DOMAIN t[i].names,
               ~Hidden(t, i, j, x),
               NEW k \in t[i].names[x].slot + 1 .. lv[j] - 1
        PROVE  U[k].name # x
    <3>1. CASE i = n + 1
      BY <1>1, <1>3, <2>1, <3>1
    <3>2. CASE i \in 1 .. n /\ j \in 1 .. n
      <4>1. /\ Together(s, i, j) /\ s[j].kind # "call" /\ x \in DOMAIN s[i].names
            /\ ~Hidden(s, i, j, x)
            /\ k \in s[i].names[x].slot + 1 .. lev[j] - 1
        <5>1. t[i] = s[i] /\ t[j] = s[j] /\ lv[j] = lev[j]
          BY <1>1, <1>3, <3>2
        <5>2. \A m \in i + 1 .. j : t[m] = s[m]
          BY <1>1, <3>2
        <5> QED
          BY <1>5, <2>1, <3>2, <5>1, <5>2 DEF Hidden
      <4>2. T[k].name # x
        BY <2>1, <3>2, <4>1 DEF Named, Latest
      <4>3. lev[j] \in Nat /\ lev[j] <= MAX_LOCALS /\ s[i].names[x].slot \in Nat
        BY <1>2, <1>7, <3>2, <4>1
      <4>4. U[k].name = T[k].name
        <5>1. CASE DOMAIN c.names = {}
          <6>1. k \in Slots
            BY <1>1, <4>1, <4>3, SMTT(30) DEF Slots
          <6> QED
            BY <5>1, <6>1
        <5>2. CASE DOMAIN c.names # {}
          <6>1. Together(t, i, n + 1)
            BY <1>1, <2>1, <3>2, <4>1, <5>2, DeclareTogether
          <6>2. Together(s, j, n)
            BY <1>1, <3>2, <6>1, <2>1 DEF Together
          <6>3. lev[j] <= lev[n]
            BY <1>1, <3>2, <6>2 DEF Named, Levels
          <6>4. k \in 0 .. lev[n] - 1
            <7>1. k \in Nat /\ k <= lev[j] - 1
              BY <4>1, <4>3
            <7>2. k <= lev[n] - 1 /\ lev[n] \in Nat
              BY <1>2, <4>3, <6>3, <7>1
            <7> QED
              BY <7>1, <7>2
          <6>5. c.kind # "function"
            BY <1>5, <3>2, <6>1
          <6> QED
            BY <6>4, <6>5
        <5> QED
          BY <5>1, <5>2
      <4> QED
        BY <4>2, <4>4
    <3>3. CASE i \in 1 .. n /\ j = n + 1
      <4>1. /\ Together(s, i, n) /\ c.kind \notin {"function", "call"}
            /\ x \in DOMAIN s[i].names /\ x \notin DOMAIN c.names
        BY <1>1, <1>5, <2>1, <3>3 DEF Hidden
      <4>2. s[n].kind # "call"
        BY <1>1, <4>1
      <4>3. ~Hidden(s, i, n, x)
        BY <1>1, <2>1, <3>3 DEF Hidden
      <4>4. /\ s[i].names[x].slot \in Nat
            /\ k \in s[i].names[x].slot + 1 .. v - 1
        <5>1. n \in 1 .. n
          BY <1>1
        <5> QED
          BY <1>1, <1>2, <1>3, <1>7, <3>3, <4>1, <5>1
      <4>5. CASE k \in lev[n] .. v - 1
        BY <4>1, <4>5
      <4>6. CASE k < lev[n]
        <5>1. k \in s[i].names[x].slot + 1 .. lev[n] - 1
          BY <1>2, <4>4, <4>6
        <5>2. n \in 1 .. n /\ i <= n
          BY <1>1, <3>3
        <5>3. T[k].name # x
          BY <3>3, <4>1, <4>2, <4>3, <5>1, <5>2 DEF Named, Latest
        <5>4. k \in 0 .. lev[n] - 1
          BY <1>2, <4>4, <5>1, SMTT(30)
        <5>5. U[k].name = T[k].name
          BY <4>1, <5>4
        <5> QED
          BY <5>3, <5>5
      <4> QED
        BY <1>2, <4>4, <4>5, <4>6
    <3> QED
      BY <1>1, <2>1, <3>1, <3>2, <3>3
  <2> QED
    BY <1>1, <2>1 DEF Latest
<1>11. Plain(t)
  BY <1>1 DEF Named, Plain
<1> QED
  BY <1>1, <1>4, <1>6, <1>8, <1>9, <1>10, <1>11 DEF Named, lv

LEMMA SameKinds ==
    ASSUME NEW n \in Nat, NEW s, NEW t, \A i \in 1 .. n : t[i].kind = s[i].kind
    PROVE  /\ \A i, j \in 1 .. n : Together(t, i, j) <=> Together(s, i, j)
           /\ \A i, j \in 1 .. n : Flat(t, i, j) <=> Flat(s, i, j)
BY DEF Together, Flat

\* t is s, but the last construct declares x in slot k, which has an entry of
\* that name, or is a new one: then all constructs from h on get one level more.
Adds(s, lev, T, t, x, k, h, lv, U) ==
    /\ Named(s, lev, T) /\ Len(s) \in Nat \ {0} /\ Len(t) = Len(s)
    /\ \A i \in 1 .. Len(s) : t[i].kind = s[i].kind /\ t[i].keep = s[i].keep
    /\ \A i \in 1 .. Len(s) - 1 : t[i].names = s[i].names
    /\ k \in Slots
    /\ DOMAIN t[Len(s)].names = DOMAIN s[Len(s)].names \cup {x}
    /\ t[Len(s)].names[x].slot = k
    /\ \A y \in DOMAIN s[Len(s)].names \ {x} :
         t[Len(s)].names[y] = s[Len(s)].names[y]
    /\ OneDeclares(t)
    /\ \A i \in 1 .. Len(s) - 1 : Together(s, i, Len(s)) => x \notin DOMAIN s[i].names
    /\ h \in 1 .. Len(s) /\ s[h].kind \in {"function", "arm"} /\ Flat(s, h, Len(s))
    /\ Table(U)
    /\ \/ /\ lv = lev /\ U = T
          /\ k < lev[Len(s)] /\ T[k].name = x
          /\ \A m \in k + 1 .. lev[Len(s)] - 1 : T[m].name # x
       \/ /\ lv = [i \in 1 .. Len(s) |-> IF i >= h THEN lev[Len(s)] + 1 ELSE lev[i]]
          /\ k = lev[Len(s)] /\ U[k].name = x
          /\ \A m \in Slots \ {k} : U[m].name = T[m].name

LEMMA NamedDeclare ==
    ASSUME NEW s, NEW lev, NEW T, NEW t, NEW x, NEW k, NEW h, NEW lv, NEW U,
           Adds(s, lev, T, t, x, k, h, lv, U)
    PROVE  Named(t, lv, U)
<1> USE DEF Adds
<1> DEFINE n == Len(s)
<1>1. /\ n \in Nat /\ n >= 1 /\ MAX_LOCALS \in Nat /\ Len(t) = n
      /\ \A i \in 1 .. n : i \in 1 .. n - 1 \/ i = n
      /\ k \in Nat /\ k < MAX_LOCALS
  BY ScopesAssumption DEF Slots
<1>2. /\ lev \in [1 .. n -> 0 .. MAX_LOCALS]
      /\ \A i \in 1 .. n : lev[i] \in Nat /\ lev[i] <= MAX_LOCALS
      /\ lev[n] \in Nat
  <2>1. lev \in [1 .. n -> 0 .. MAX_LOCALS]
    BY DEF Named, Levels
  <2> HIDE DEF Adds
  <2> QED
    BY <1>1, <2>1, SMTT(30)
<1>3. /\ \A i, j \in 1 .. n : Together(t, i, j) <=> Together(s, i, j)
      /\ \A i, j \in 1 .. n : Flat(t, i, j) <=> Flat(s, i, j)
  BY <1>1, SameKinds
<1>4. \A i \in 1 .. n : DOMAIN t[i].names # {} => Together(s, i, n) /\ lev[i] <= lev[n]
  <2>1. ASSUME NEW i \in 1 .. n, DOMAIN t[i].names # {}
        PROVE  Together(s, i, n) /\ lev[i] <= lev[n]
    <3>1. Together(t, i, n)
      BY <1>1, <2>1, DeclareTogether
    <3>2. Together(s, i, n) /\ n \in 1 .. n
      BY <1>1, <1>3, <3>1
    <3> QED
      BY <1>1, <3>2 DEF Named, Levels
  <2> QED
    BY <2>1
\* the parts that do not depend on the case
<1>10. Plain(t)
  <2>1. s[n].kind # "call"
    <3>1. n = h \/ n \in h + 1 .. n
      BY <1>1
    <3> QED
      BY <3>1 DEF Flat
  <2>2. ASSUME NEW i \in 1 .. n, t[i].kind = "call"
        PROVE  DOMAIN t[i].names = {}
    <3>1. i \in 1 .. n - 1 /\ s[i].kind = "call" /\ t[i].names = s[i].names
      BY <1>1, <2>1, <2>2
    <3> QED
      BY <1>1, <3>1 DEF Named, Plain
  <2> QED
    BY <1>1, <2>2 DEF Plain
<1>5. Kinds(t)
  <2>1. ASSUME NEW i \in 2 .. n, t[i - 1].kind = "call"
        PROVE  t[i].kind \in {"call", "function"}
    <3>1. i \in 1 .. n /\ i - 1 \in 1 .. n
      BY <1>1
    <3> QED
      BY <2>1, <3>1 DEF Named, Kinds
  <2> QED
    BY <1>1, <2>1 DEF Named, Kinds
<1>6. Shadowed(t)
  <2>1. ASSUME NEW i \in 1 .. n, NEW j \in 1 .. n, i < j, Together(t, i, j),
               NEW y \in DOMAIN t[i].names \cap DOMAIN t[j].names
        PROVE  t[i].names[y].slot < t[j].names[y].slot
    <3>1. i \in 1 .. n - 1 /\ t[i].names = s[i].names /\ Together(s, i, j)
      BY <1>1, <1>3, <2>1
    <3>2. t[j].names[y] = s[j].names[y] /\ y \in DOMAIN s[j].names
      <4>1. CASE j = n
        <5>1. y # x
          BY <3>1, <4>1
        <5> QED
          BY <4>1, <5>1
      <4>2. CASE j \in 1 .. n - 1
        BY <4>2
      <4> QED
        BY <1>1, <4>1, <4>2
    <3> QED
      BY <2>1, <3>1, <3>2 DEF Named, Shadowed
  <2> QED
    BY <1>1, <2>1 DEF Shadowed
\* variables of s, with their slots
<1>7. ASSUME NEW i \in 1 .. n, NEW y \in DOMAIN t[i].names, y # x \/ i # n
      PROVE  /\ y \in DOMAIN s[i].names /\ t[i].names[y] = s[i].names[y] /\ y # x
             /\ s[i].names[y].slot \in 0 .. lev[i] - 1 /\ s[i].names[y].slot \in Nat
             /\ T[s[i].names[y].slot].name = y
  <2>1. y \in DOMAIN s[i].names /\ t[i].names[y] = s[i].names[y] /\ y # x
    <3>1. CASE i = n
      BY <1>7, <3>1
    <3>2. CASE i \in 1 .. n - 1
      BY <1>4, <1>7, <3>2
    <3> QED
      BY <1>1, <3>1, <3>2
  <2> QED
    BY <1>1, <1>2, <2>1 DEF Named, Placed
\* an entry of that name
<1>8. ASSUME lv = lev, U = T, k < lev[n], T[k].name = x,
             \A m \in k + 1 .. lev[n] - 1 : T[m].name # x
      PROVE  Named(t, lv, U)
  <2>1. Levels(t, lev)
    <3>1. ASSUME NEW j \in 2 .. n
          PROVE  /\ t[j].kind \in {"function", "arm", "call"} => t[j].keep = lev[j - 1]
                 /\ t[j].kind \in {"catch", "call"} => lev[j] = lev[j - 1] + 1
      <4>1. j \in 1 .. n
        BY <1>1
      <4> QED
        BY <4>1 DEF Named, Levels
    <3> QED
      BY <1>1, <1>2, <1>3, <3>1 DEF Named, Levels
  <2>2. Placed(t, lev, T)
    <3>1. ASSUME NEW i \in 1 .. n, NEW y \in DOMAIN t[i].names
          PROVE  t[i].names[y].slot \in 0 .. lev[i] - 1 /\ T[t[i].names[y].slot].name = y
      <4>1. CASE i = n /\ y = x
        BY <1>1, <1>2, <1>8, <4>1
      <4>2. CASE y # x \/ i # n
        <5>1. /\ t[i].names[y] = s[i].names[y] /\ s[i].names[y].slot \in 0 .. lev[i] - 1
              /\ T[s[i].names[y].slot].name = y
          BY <1>7, <4>2
        <5> QED
          BY <5>1
      <4> QED
        BY <4>1, <4>2
    <3> QED
      BY <1>1, <3>1 DEF Placed
  <2>3. Latest(t, lev, T)
    <3>1. ASSUME NEW i \in 1 .. n, NEW j \in 1 .. n, i <= j, Together(t, i, j),
                 t[j].kind # "call", NEW y \in DOMAIN t[i].names,
                 ~Hidden(t, i, j, y),
                 NEW q \in t[i].names[y].slot + 1 .. lev[j] - 1
          PROVE  T[q].name # y
      <4>1. CASE i = n /\ y = x
        BY <1>1, <1>8, <3>1, <4>1
      <4>2. CASE y # x \/ i # n
        <5>1. /\ y \in DOMAIN s[i].names /\ t[i].names[y] = s[i].names[y]
          BY <1>7, <4>2
        <5>2. ~Hidden(s, i, j, y)
          <6>1. ASSUME NEW m \in i + 1 .. j
                PROVE  DOMAIN s[m].names \subseteq DOMAIN t[m].names
            <7>1. m \in 1 .. n - 1 \/ m = n
              BY <1>1
            <7> QED
              BY <7>1
          <6> QED
            BY <3>1, <6>1 DEF Hidden
        <5>3. Together(s, i, j) /\ s[j].kind # "call"
          BY <1>3, <3>1
        <5>4. q \in s[i].names[y].slot + 1 .. lev[j] - 1
          BY <5>1
        <5> QED
          BY <3>1, <5>1, <5>2, <5>3, <5>4 DEF Named, Latest
      <4> QED
        BY <4>1, <4>2
    <3> QED
      BY <1>1, <3>1 DEF Latest
  <2> QED
    BY <1>5, <1>6, <1>8, <1>10, <2>1, <2>2, <2>3 DEF Named
\* a new one
<1>9. ASSUME lv = [i \in 1 .. n |-> IF i >= h THEN lev[n] + 1 ELSE lev[i]],
             k = lev[n], U[k].name = x, \A m \in Slots \ {k} : U[m].name = T[m].name
      PROVE  Named(t, lv, U)
  <2>1. /\ lv \in [1 .. n -> 0 .. MAX_LOCALS]
        /\ \A i \in 1 .. n : lv[i] \in Nat /\ lv[i] <= MAX_LOCALS
        /\ \A i \in 1 .. n : i >= h => lv[i] = k + 1
        /\ \A i \in 1 .. n : i < h => lv[i] = lev[i]
    BY <1>1, <1>2, <1>9
  <2>2. \A i \in 1 .. n : i >= h => lev[i] = k
    <3>1. ASSUME NEW i \in 1 .. n, i >= h
          PROVE  lev[i] = k
      <4>1. Flat(s, i, n)
        <5>1. \A m \in i + 1 .. n : m \in h + 1 .. n
          BY <1>1, <3>1
        <5> QED
          BY <5>1 DEF Flat
      <4>2. n \in 1 .. n /\ i <= n
        BY <1>1
      <4> QED
        BY <1>9, <4>1, <4>2 DEF Named, Levels
    <3> QED
      BY <3>1
  <2>3. \A i \in 1 .. n : i > h => s[i].kind \in {"then", "else", "loop", "try"}
    BY <1>1 DEF Flat
  <2>4. Levels(t, lv)
    <3>1. ASSUME NEW j \in 2 .. n
          PROVE  /\ t[j].kind \in {"function", "arm", "call"} => t[j].keep = lv[j - 1]
                 /\ t[j].kind \in {"catch", "call"} => lv[j] = lv[j - 1] + 1
      <4>1. j \in 1 .. n /\ j - 1 \in 1 .. n /\ t[j].kind = s[j].kind /\ t[j].keep = s[j].keep
        BY <1>1
      <4>2. CASE j > h
        <5>1. s[j].kind \in {"then", "else", "loop", "try"}
          BY <2>3, <4>1, <4>2
        <5> QED
          BY <4>1, <5>1
      <4>3. CASE j = h
        <5>1. s[j].kind \notin {"catch", "call"} /\ lv[j - 1] = lev[j - 1]
          BY <2>1, <4>1, <4>3
        <5> QED
          BY <4>1, <5>1 DEF Named, Levels
      <4>4. CASE j < h
        <5>1. lv[j] = lev[j] /\ lv[j - 1] = lev[j - 1]
          BY <2>1, <4>1, <4>4
        <5> QED
          BY <4>1, <5>1 DEF Named, Levels
      <4> QED
        BY <4>1, <4>2, <4>3, <4>4
    <3>2. ASSUME NEW i \in 1 .. n, NEW j \in 1 .. n, i <= j, Flat(t, i, j)
          PROVE  lv[i] = lv[j]
      <4>1. CASE i >= h
        BY <2>1, <3>2, <4>1
      <4>2. CASE j < h
        BY <1>3, <2>1, <3>2, <4>2 DEF Named, Levels
      <4>3. CASE i < h /\ j >= h
        <5>1. t[h].kind \in {"then", "else", "loop", "try"}
          BY <3>2, <4>3 DEF Flat
        <5> QED
          BY <5>1
      <4> QED
        BY <4>1, <4>2, <4>3
    <3>3. ASSUME NEW i \in 1 .. n, NEW j \in 1 .. n, i <= j, Together(t, i, j)
          PROVE  lv[i] <= lv[j]
      <4>1. CASE i >= h
        <5>1. j >= h
          BY <1>1, <3>3, <4>1
        <5>2. lv[i] = k + 1 /\ lv[j] = k + 1
          BY <2>1, <4>1, <5>1
        <5> QED
          BY <1>1, <5>2
      <4>2. CASE j < h
        BY <1>3, <2>1, <3>3, <4>2 DEF Named, Levels
      <4>3. CASE i < h /\ j >= h
        <5>1. lev[i] <= lev[j]
          BY <1>3, <3>3 DEF Named, Levels
        <5>2. lev[j] = k /\ lv[j] = k + 1 /\ lv[i] = lev[i] /\ lev[i] \in Nat
          BY <1>2, <2>1, <2>2, <4>3
        <5> QED
          BY <1>1, <5>1, <5>2
      <4> QED
        BY <4>1, <4>2, <4>3
    <3> QED
      BY <1>1, <2>1, <3>1, <3>2, <3>3 DEF Levels
  <2>5. Placed(t, lv, U)
    <3>1. ASSUME NEW i \in 1 .. n, NEW y \in DOMAIN t[i].names
          PROVE  t[i].names[y].slot \in 0 .. lv[i] - 1 /\ U[t[i].names[y].slot].name = y
      <4>1. CASE i = n /\ y = x
        BY <1>1, <1>9, <2>1, <4>1
      <4>2. CASE y # x \/ i # n
        <5>1. /\ t[i].names[y].slot \in 0 .. lev[i] - 1 /\ t[i].names[y].slot \in Nat
              /\ T[t[i].names[y].slot].name = y
          BY <1>7, <4>2
        <5>2. lev[i] <= k /\ lev[i] \in Nat /\ lev[i] <= lv[i] /\ lv[i] \in Nat
          BY <1>1, <1>2, <1>4, <1>9, <2>1, <2>2
        <5>3. t[i].names[y].slot \in Slots \ {k}
          BY <1>1, <5>1, <5>2 DEF Slots
        <5> QED
          BY <1>9, <5>1, <5>2, <5>3
      <4> QED
        BY <4>1, <4>2
    <3> QED
      BY <1>1, <3>1 DEF Placed
  <2>6. Latest(t, lv, U)
    <3>1. ASSUME NEW i \in 1 .. n, NEW j \in 1 .. n, i <= j, Together(t, i, j),
                 t[j].kind # "call", NEW y \in DOMAIN t[i].names,
                 ~Hidden(t, i, j, y),
                 NEW q \in t[i].names[y].slot + 1 .. lv[j] - 1
          PROVE  U[q].name # y
      <4>1. CASE i = n /\ y = x
        <5>1. j = n /\ lv[j] = k + 1 /\ t[i].names[y].slot = k
          BY <1>1, <2>1, <3>1, <4>1
        <5> QED
          BY <1>1, <3>1, <5>1
      <4>2. CASE y # x \/ i # n
        <5>1. /\ y \in DOMAIN s[i].names /\ t[i].names[y] = s[i].names[y] /\ y # x
              /\ s[i].names[y].slot \in Nat
          BY <1>7, <4>2
        <5>2. ~Hidden(s, i, j, y)
          <6>1. ASSUME NEW m \in i + 1 .. j
                PROVE  DOMAIN s[m].names \subseteq DOMAIN t[m].names
            <7>1. m \in 1 .. n - 1 \/ m = n
              BY <1>1
            <7> QED
              BY <7>1
          <6> QED
            BY <3>1, <6>1 DEF Hidden
        <5>3. Together(s, i, j) /\ s[j].kind # "call"
          BY <1>3, <3>1
        <5>4. lv[j] \in Nat /\ lv[j] <= MAX_LOCALS /\ q \in Slots
          <6>1. lv[j] \in Nat /\ lv[j] <= MAX_LOCALS
            BY <1>1, <2>1
          <6>2. q \in s[i].names[y].slot + 1 .. lv[j] - 1
            BY <3>1, <5>1
          <6> HIDE DEF Adds
          <6> QED
            BY <1>1, <5>1, <6>1, <6>2 DEF Slots
        <5>5. CASE q = k
          BY <1>9, <5>1, <5>5
        <5>6. CASE q # k
          <6>1. q \in s[i].names[y].slot + 1 .. lev[j] - 1
            <7>1. q \in s[i].names[y].slot + 1 .. lv[j] - 1
              BY <5>1
            <7>2. CASE j >= h
              BY <1>1, <2>1, <2>2, <5>1, <5>6, <7>1, <7>2
            <7>3. CASE j < h
              BY <2>1, <7>1, <7>3
            <7> QED
              BY <1>1, <7>2, <7>3
          <6>2. T[q].name # y
            BY <3>1, <5>1, <5>2, <5>3, <6>1 DEF Named, Latest
          <6> QED
            BY <1>9, <5>4, <5>6, <6>2
        <5> QED
          BY <5>5, <5>6
      <4> QED
        BY <4>1, <4>2
    <3> QED
      BY <1>1, <3>1 DEF Latest
  <2> QED
    BY <1>5, <1>6, <1>10, <2>4, <2>5, <2>6 DEF Named
<1> QED
  BY <1>8, <1>9

-----------------------------------------------------------------------------
(* Who declares variables *)

LEMMA RightFacts ==
    ASSUME Right
    PROVE  /\ "nested_names" \notin features /\ "shadow_function" \notin features
           /\ "catch_declares" \notin features /\ "call_declares" \notin features
BY DEF Right, Misleads

LEMMA RunningFacts ==
    ASSUME NEW s, Constructs(s), Rooted(s)
    PROVE  /\ Len(s) \in Nat \ {0}
           /\ FunctionOf(s) \in 1 .. Len(s) /\ s[FunctionOf(s)].kind = "function"
           /\ \A j \in FunctionOf(s) + 1 .. Len(s) : s[j].kind # "function"
<1>1. Len(s) \in Nat /\ 1 \in 1 .. Len(s) /\ s[1].kind \in {"function"}
  BY DEF Constructs, Rooted
<1> QED
  BY <1>1, LastOfFacts DEF FunctionOf

\* The running function declares: nothing is declared around it.
LEMMA OneDeclaresHere ==
    ASSUME NEW s, Constructs(s), Rooted(s), Bare(s, FunctionOf(s) - 1),
           NEW t, Len(t) \in {Len(s), Len(s) + 1},
           \A i \in 1 .. Len(s) : t[i].kind = s[i].kind,
           \A i \in 1 .. FunctionOf(s) - 1 : t[i].names = s[i].names /\ t[i].past = s[i].past,
           Len(t) = Len(s) + 1 => t[Len(s) + 1].kind # "function"
    PROVE  OneDeclares(t)
<1> DEFINE f == FunctionOf(s)  n == Len(s)
<1>1. /\ n \in Nat \ {0} /\ f \in 1 .. n
      /\ \A j \in f + 1 .. n : s[j].kind # "function"
  BY RunningFacts
<1> HIDE DEF f
<1>2. ASSUME NEW g \in 1 .. Len(t), t[g].kind = "function", NEW i \in 1 .. g - 1
      PROVE  Empty(t[i])
  <2>1. g \in 1 .. n
    BY <1>1, <1>2
  <2>2. ~ (g \in f + 1 .. n)
    BY <1>1, <1>2, <2>1
  <2>3. i \in 1 .. f - 1
    BY <1>1, <2>1, <2>2
  <2> QED
    BY <2>3 DEF Bare, Empty, f
<1> QED
  BY <1>2 DEF OneDeclares

\* A construct that declares nothing, and one in an empty program.
LEMMA OneDeclaresPush ==
    ASSUME NEW s, Len(s) \in Nat, OneDeclares(s),
           NEW t, Len(t) = Len(s) + 1, \A i \in 1 .. Len(s) : t[i] = s[i],
           Empty(t[Len(s) + 1]) \/ \A i \in 1 .. Len(s) : Empty(s[i])
    PROVE  OneDeclares(t)
<1>1. ASSUME NEW g \in 1 .. Len(t), t[g].kind = "function"
      PROVE  (\A i \in 1 .. g - 1 : Empty(t[i])) \/ (\A i \in g .. Len(t) : Empty(t[i]))
  <2>1. CASE \A i \in 1 .. Len(s) : Empty(s[i])
    BY <2>1
  <2>2. CASE Empty(t[Len(s) + 1]) /\ g = Len(s) + 1
    BY <2>2
  <2>3. CASE Empty(t[Len(s) + 1]) /\ g \in 1 .. Len(s)
    <3>1. (\A i \in 1 .. g - 1 : Empty(s[i])) \/ (\A i \in g .. Len(s) : Empty(s[i]))
      BY <1>1, <2>3 DEF OneDeclares
    <3>2. CASE \A i \in 1 .. g - 1 : Empty(s[i])
      BY <2>3, <3>2
    <3>3. CASE \A i \in g .. Len(s) : Empty(s[i])
      <4>1. ASSUME NEW i \in g .. Len(t)
            PROVE  Empty(t[i])
        <5>1. i \in g .. Len(s) \/ i = Len(s) + 1
          BY <2>3
        <5>2. CASE i \in g .. Len(s)
          BY <2>3, <3>3, <5>2
        <5> QED
          BY <2>3, <5>1, <5>2
      <4> QED
        BY <4>1
    <3> QED
      BY <3>1, <3>2, <3>3
  <2> QED
    BY <2>1, <2>2, <2>3
<1> QED
  BY <1>1 DEF OneDeclares

LEMMA SameOneDeclares ==
    ASSUME NEW s, Len(s) \in Nat, OneDeclares(s), NEW t, Len(t) = Len(s),
           \A i \in 1 .. Len(s) :
             t[i].kind = s[i].kind /\ t[i].names = s[i].names /\ t[i].past = s[i].past
    PROVE  OneDeclares(t)
<1>1. \A i \in 1 .. Len(s) : Empty(t[i]) <=> Empty(s[i])
  BY DEF Empty
<1>2. ASSUME NEW f \in 1 .. Len(s), t[f].kind = "function"
      PROVE  (\A i \in 1 .. f - 1 : Empty(t[i])) \/ (\A i \in f .. Len(s) : Empty(t[i]))
  <2>1. \/ \A i \in 1 .. f - 1 : Empty(s[i])
        \/ \A i \in f .. Len(s) : Empty(s[i])
    BY <1>2 DEF OneDeclares
  <2>2. /\ \A i \in 1 .. f - 1 : i \in 1 .. Len(s)
        /\ \A i \in f .. Len(s) : i \in 1 .. Len(s)
    OBVIOUS
  <2> QED
    BY <1>1, <2>1, <2>2
<1> QED
  BY <1>2 DEF OneDeclares

LEMMA OneDeclaresFront ==
    ASSUME NEW s, Constructs(s), OneDeclares(s),
           NEW t, Len(t) \in 0 .. Len(s), \A i \in 1 .. Len(t) : t[i] = s[i]
    PROVE  OneDeclares(t)
<1>1. Len(s) \in Nat
  BY DEF Constructs
<1>2. ASSUME NEW g \in 1 .. Len(t), t[g].kind = "function"
      PROVE  (\A i \in 1 .. g - 1 : Empty(t[i])) \/ (\A i \in g .. Len(t) : Empty(t[i]))
  <2>1. g \in 1 .. Len(s) /\ s[g].kind = "function"
    BY <1>1, <1>2
  <2>2. (\A i \in 1 .. g - 1 : Empty(s[i])) \/ (\A i \in g .. Len(s) : Empty(s[i]))
    BY <2>1 DEF OneDeclares
  <2>3. \A i \in 1 .. g - 1 : t[i] = s[i]
    BY <1>1
  <2>4. \A i \in g .. Len(t) : i \in g .. Len(s) /\ t[i] = s[i]
    BY <1>1
  <2> QED
    BY <2>2, <2>3, <2>4
<1> QED
  BY <1>2 DEF OneDeclares

-----------------------------------------------------------------------------
(* Steps *)

LEMMA Witnessed ==
    ASSUME NEW t, NEW lv, NEW U, Named(t, lv, U),
           open' = t, locals' = U, local_count' = lv[Len(t)]
    PROVE  NowNamed'
<1>1. lv \in [1 .. Len(t) -> 0 .. MAX_LOCALS]
  BY DEF Named, Levels
<1>2. Named(open', lv, locals') /\ lv[Len(open')] = local_count'
  OBVIOUS
<1> QED
  BY <1>1, <1>2 DEF NowNamed, Named, Plain, Table, Kinds, Levels, Placed, Shadowed, Latest,
     OneDeclares, Hidden, Together, Flat, Empty

\* A guard changes no name.
LEMMA GuardNames ==
    ASSUME NEW T, Table(T), NEW k, NEW g, NEW U, U = [T EXCEPT ![k].guard = g]
    PROVE  Table(U) /\ \A m \in Slots : U[m].name = T[m].name
<1>1. U = [m \in Slots |-> IF m = k THEN [T[m] EXCEPT !.guard = g] ELSE T[m]]
  BY DEF Table
<1>2. ASSUME NEW m \in Slots
      PROVE  /\ U[m] = [name |-> U[m].name, type |-> U[m].type, guard |-> U[m].guard]
             /\ U[m].name = T[m].name
  <2>1. T[m] = [name |-> T[m].name, type |-> T[m].type, guard |-> T[m].guard]
    BY DEF Table
  <2> DEFINE e == T[m]
  <2>2. U[m] = e \/ U[m] = [e EXCEPT !.guard = g]
    BY <1>1
  <2>3. e = [name |-> e.name, type |-> e.type, guard |-> e.guard]
    BY <2>1
  <2> HIDE DEF e
  <2>4. /\ U[m] = [name |-> U[m].name, type |-> U[m].type, guard |-> U[m].guard]
        /\ U[m].name = e.name
    BY <2>2, <2>3
  <2> QED
    BY <2>4 DEF e
<1>3. U = [m \in Slots |-> U[m]]
  BY <1>1
<1> QED
  BY <1>2, <1>3 DEF Table

LEMMA GuardedNames ==
    ASSUME Table(locals), NEW U, (\E x, g : U = Guarded(x, g)) \/ U = Unguarded \/ U = locals
    PROVE  Table(U) /\ \A m \in Slots : U[m].name = locals[m].name
<1>1. U = locals \/ \E k, g : U = [locals EXCEPT ![k].guard = g]
  BY DEF Guarded, Unguarded
<1> QED
  BY <1>1, GuardNames

\* What a construct is put on: NowNamed, with the levels.
LEMMA Leveled ==
    ASSUME NInv, Right, Going
    PROVE  /\ Constructs(open) /\ Rooted(open) /\ Len(open) \in Nat \ {0}
           /\ NowNamed
BY RunningFacts DEF NInv, IInv

\* The last construct ends.
LEMMA NamedClose ==
    ASSUME NInv, Right, Going, Len(open) > 1, NEW lev, Named(open, lev, locals),
           NEW t, t = Front(open) \/ (t = Closed /\ Last(open).kind # "function"),
           NEW U, Table(U), \A k \in Slots : U[k].name = locals[k].name
    PROVE  /\ Named(t, [i \in 1 .. Len(t) |-> lev[i]], U)
           /\ Len(t) = Len(open) - 1
           /\ Constructs(t) /\ Rooted(t)
           /\ t[Len(t)].kind = open[Len(t)].kind
           /\ Last(open).kind # "function" =>
                /\ FunctionOf(t) = FunctionOf(open)
                /\ \A i \in 1 .. FunctionOf(t) - 1 : t[i] = open[i]
<1> DEFINE n == Len(open)
<1>1. Constructs(open) /\ Rooted(open) /\ n \in Nat \ {0} /\ n - 1 \in 1 .. n
  BY Leveled
<1>2. /\ Constructs(Front(open)) /\ Rooted(Front(open))
      /\ Constructs(t) /\ Rooted(t)
  BY ClosedFacts DEF NInv
<1>3. Len(Front(open)) = n - 1 /\ \A i \in 1 .. n - 1 : Front(open)[i] = open[i]
  BY <1>1 DEF Constructs, Front
<1>4. OneDeclares(open)
  BY DEF Named
<1>5. OneDeclares(Front(open))
  BY <1>1, <1>3, <1>4, OneDeclaresFront
<1>6. /\ Len(t) = n - 1
      /\ \A i \in 1 .. n - 1 :
           t[i].kind = open[i].kind /\ t[i].keep = open[i].keep /\ t[i].names = open[i].names
      /\ OneDeclares(t)
      /\ \A i \in 1 .. Running - 1 : i < n => t[i] = open[i]
  <2>1. CASE t = Front(open)
    <3>1. Running \in 1 .. n
      BY <1>1, RunningFacts DEF Running
    <3>2. \A i \in 1 .. Running - 1 : i < n => i \in 1 .. n - 1
      BY <1>1, <3>1
    <3> HIDE DEF n
    <3> QED
      BY <1>3, <1>5, <2>1, <3>2
  <2>2. CASE t = Closed /\ Last(open).kind # "function"
    <3> DEFINE r == Running
               ended == {<<x, open[n].names[x].type>> : x \in DOMAIN open[n].names}
    <3>1. /\ r \in 1 .. n /\ open[r].kind = "function"
          /\ \A j \in r + 1 .. n : open[j].kind # "function"
      BY <1>1, RunningFacts DEF Running
    <3>2. r \in 1 .. n - 1
      BY <1>1, <2>2, <3>1 DEF Last
    <3>3. t = [Front(open) EXCEPT ![r].past = Front(open)[r].past \cup ended]
      BY <2>2 DEF Closed, Last
    <3> HIDE DEF r, ended
    <3>4. DOMAIN Front(open) = 1 .. n - 1
      BY <1>2, <1>3 DEF Constructs
    <3>5. /\ DOMAIN t = 1 .. n - 1
          /\ \A i \in 1 .. n - 1 : i # r => t[i] = open[i]
          /\ t[r] = [open[r] EXCEPT !.past = open[r].past \cup ended]
      BY <1>3, <3>2, <3>3, <3>4
    <3>6. Len(t) = n - 1
      BY <1>1, <1>2, <3>5 DEF Constructs
    <3>7. Complete(open[r])
      BY <1>1, <3>2 DEF Constructs
    <3>8. /\ t[r].kind = open[r].kind /\ t[r].keep = open[r].keep
          /\ t[r].names = open[r].names /\ t[r].past = open[r].past \cup ended
      BY <3>5, <3>7 DEF Complete
    <3>9. ASSUME NEW g \in 1 .. n - 1, t[g].kind = "function"
          PROVE  (\A i \in 1 .. g - 1 : Empty(t[i])) \/ (\A i \in g .. n - 1 : Empty(t[i]))
      <4>1. open[g].kind = "function" /\ g \in 1 .. n
        <5>1. t[g].kind = open[g].kind
          BY <3>5, <3>8
        <5> QED
          BY <1>1, <3>9, <5>1
      <4>2. g <= r
        BY <3>1, <4>1
      <4>3. CASE \A i \in 1 .. g - 1 : Empty(open[i])
        BY <1>1, <3>2, <3>5, <4>2, <4>3
      <4>4. CASE \A i \in g .. n : Empty(open[i])
        <5>1. open[n].names = NothingDeclared
          BY <1>1, <4>1, <4>4 DEF Empty
        <5>2. ended = {}
          BY <5>1 DEF ended, NothingDeclared
        <5>3. Empty(t[r])
          BY <3>1, <3>8, <4>2, <4>4, <5>2 DEF Empty
        <5> QED
          BY <1>1, <3>5, <4>4, <5>3
      <4> QED
        BY <1>4, <4>1, <4>3, <4>4 DEF OneDeclares
    <3>10. OneDeclares(t)
      BY <3>6, <3>9 DEF OneDeclares
    <3>11. \A i \in 1 .. r - 1 : t[i] = open[i]
      BY <1>1, <3>2, <3>5
    <3> QED
      BY <3>5, <3>6, <3>8, <3>10, <3>11 DEF r
  <2> QED
    BY <2>1, <2>2
<1>7. Named(t, [i \in 1 .. Len(t) |-> lev[i]], U)
  BY <1>1, <1>6, NamedPart
<1>8. ASSUME Last(open).kind # "function"
      PROVE  /\ FunctionOf(t) = FunctionOf(open)
             /\ \A i \in 1 .. FunctionOf(t) - 1 : t[i] = open[i]
  <2>1. /\ FunctionOf(open) \in 1 .. n /\ open[FunctionOf(open)].kind = "function"
        /\ \A j \in FunctionOf(open) + 1 .. n : open[j].kind # "function"
    BY <1>1, RunningFacts
  <2>2. /\ FunctionOf(t) \in 1 .. n - 1 /\ t[FunctionOf(t)].kind = "function"
        /\ \A j \in FunctionOf(t) + 1 .. n - 1 : t[j].kind # "function"
    BY <1>2, <1>6, RunningFacts
  <2> DEFINE f == FunctionOf(open)  g == FunctionOf(t)
  <2> HIDE DEF f, g
  <2>3. f \in 1 .. n /\ f # n /\ g \in 1 .. n - 1
    BY <1>8, <2>1, <2>2 DEF f, g, Last
  <2>4. t[f].kind = "function" /\ open[g].kind = "function"
    <3>1. f \in 1 .. n - 1 /\ g \in 1 .. n - 1
      BY <1>1, <2>3
    <3>2. t[f].kind = open[f].kind /\ t[g].kind = open[g].kind
      BY <1>6, <3>1
    <3> QED
      BY <2>1, <2>2, <3>2 DEF f, g
  <2>5. ~ (f \in g + 1 .. n - 1) /\ ~ (g \in f + 1 .. n)
    BY <2>1, <2>2, <2>4 DEF f, g
  <2>6. f = g
    BY <1>1, <2>3, <2>5
  <2>7. \A i \in 1 .. f - 1 : t[i] = open[i]
    BY <1>1, <1>6, <2>3 DEF f, Running
  <2> QED
    BY <2>6, <2>7 DEF f, g
<1> QED
  BY <1>1, <1>2, <1>6, <1>7, <1>8

LEMMA Appended ==
    ASSUME NEW s, Constructs(s), NEW c
    PROVE  /\ Len(Append(s, c)) = Len(s) + 1
           /\ \A i \in 1 .. Len(s) : Append(s, c)[i] = s[i]
           /\ Append(s, c)[Len(s) + 1] = c
<1>1. s \in Seq(ToSet(s))
  BY DEF Constructs
<1>2. s \in Seq(ToSet(s) \cup {c})
  BY <1>1, SeqMonotonic
<1> QED
  BY <1>2, AppendProperties

\* A construct is opened that declares nothing.
LEMMA NamedEmpty ==
    ASSUME NEW s, NEW lev, NEW T, Named(s, lev, T), Len(s) \in Nat \ {0},
           NEW t, Len(t) = Len(s) + 1, \A i \in 1 .. Len(s) : t[i] = s[i],
           NEW c, t[Len(s) + 1] = c, Empty(c),
           c.kind \in (Blocks \cup {"call"}) \ {"catch"},
           s[Len(s)].kind = "call" => c.kind \in {"call", "function"},
           c.kind \in {"function", "arm", "call"} => c.keep = lev[Len(s)],
           NEW v \in 0 .. MAX_LOCALS,
           c.kind = "call" => v = lev[Len(s)] + 1,
           c.kind \notin {"call", "function"} => v = lev[Len(s)],
           NEW U, Table(U), \A k \in Slots : U[k].name = T[k].name
    PROVE  Named(t, Over(lev, t, v), U)
<1> DEFINE n == Len(s)
<1>2. OneDeclares(t)
  <2>1. OneDeclares(s) /\ n \in Nat
    BY DEF Named
  <2> QED
    BY <2>1, OneDeclaresPush
<1>3. lev[n] \in Nat /\ lev[n] <= MAX_LOCALS /\ n \in 1 .. n /\ v \in Nat
  BY ScopesAssumption DEF Named, Levels
<1>4. DOMAIN c.names = {}
  BY DEF Empty, NothingDeclared
<1>5. \A k \in 0 .. lev[n] - 1 : k \in Slots
  BY <1>3, ScopesAssumption DEF Slots
<1>6. c.kind # "function" => v >= lev[n]
  BY <1>3
<1>7. c.kind \notin {"function", "call"} =>
          \A k \in lev[n] .. v - 1 : U[k].name \in DOMAIN c.names
  <2>1. c.kind \notin {"function", "call"} => lev[n] .. v - 1 = {}
    BY <1>3
  <2> QED
    BY <2>1
<1>8. c.kind # "function" => \A k \in 0 .. lev[n] - 1 : U[k].name = T[k].name
  BY <1>5
<1>9. c.kind \in {"catch", "call"} => v = lev[n] + 1
  OBVIOUS
<1>10. c.kind \in {"then", "else", "loop", "try"} => v = lev[n]
  OBVIOUS
<1>11. Fits(c, lev[n], v, U)
  BY <1>4 DEF Fits
<1>12. Pushes(s, lev, T, t, c, v, U)
  BY <1>2, <1>4, <1>6, <1>7, <1>8, <1>9, <1>10, <1>11 DEF Pushes
<1> QED
  BY <1>12, NamedPush

LEMMA Opens ==
    ASSUME NEW s, NEW lev, NEW T, Named(s, lev, T), Constructs(s), Len(s) \in Nat \ {0},
           NEW c, Empty(c), c.kind \in (Blocks \cup {"call"}) \ {"catch"},
           s[Len(s)].kind = "call" => c.kind \in {"call", "function"},
           c.kind \in {"function", "arm", "call"} => c.keep = lev[Len(s)],
           NEW v \in 0 .. MAX_LOCALS, local_count' = v,
           c.kind = "call" => v = lev[Len(s)] + 1,
           c.kind \notin {"call", "function"} => v = lev[Len(s)],
           open' = Append(s, c),
           NEW U, locals' = U, Table(U), \A k \in Slots : U[k].name = T[k].name
    PROVE  NowNamed'
<1> DEFINE n == Len(s)  t == Append(s, c)
           lv == Over(lev, t, v)
<1>1. Len(t) = n + 1 /\ (\A i \in 1 .. n : t[i] = s[i]) /\ t[n + 1] = c
  BY Appended
<1>2. open' = t
  OBVIOUS
<1> HIDE DEF t
<1>3. Named(t, lv, U)
  BY <1>1, NamedEmpty
<1>4. lv[Len(t)] = v
  BY <1>1 DEF Over
<1> HIDE DEF lv
<1> QED
  BY <1>2, <1>3, <1>4, Witnessed

\* Testing a variable changes nothing else of a construct.
LEMMA TestingFacts ==
    ASSUME NEW c, Complete(c), NEW x, NEW finds
    PROVE  LET d == Testing(c, x, finds)
           IN /\ Complete(d) /\ d.kind = c.kind /\ d.keep = c.keep
              /\ d.names = c.names /\ d.past = c.past
BY DEF Testing, Complete

\* The last construct ends, and local_count gets the level before it.
LEMMA Closes ==
    ASSUME NInv, Right, Going, Len(open) > 1,
           open' = Front(open) \/ (open' = Closed /\ Last(open).kind # "function"),
           Table(locals'), \A k \in Slots : locals'[k].name = locals[k].name,
           Last(open).kind \in {"function", "arm"} => local_count' = Last(open).keep,
           Last(open).kind \in {"catch", "call"} => local_count' = local_count - 1,
           Last(open).kind \in {"then", "else", "loop", "try"} =>
                local_count' = local_count
    PROVE  NowNamed'
<1> DEFINE n == Len(open)
<1>1. PICK lev \in [1 .. n -> 0 .. MAX_LOCALS] :
        Named(open, lev, locals) /\ lev[n] = local_count
  BY Leveled DEF NowNamed
<1>2. n \in Nat /\ n - 1 \in 1 .. n /\ n \in 2 .. n /\ n \in 1 .. n
  BY Leveled
<1> DEFINE t == open'  lv == [i \in 1 .. Len(t) |-> lev[i]]  U == locals'
<1>3. Named(t, lv, U) /\ Len(t) = n - 1
  <2>1. /\ t = Front(open) \/ (t = Closed /\ Last(open).kind # "function")
        /\ Table(U) /\ \A k \in Slots : U[k].name = locals[k].name
    OBVIOUS
  <2> HIDE DEF t, U
  <2> QED
    BY <1>1, <2>1, NamedClose
<1>4. lv[Len(t)] = lev[n - 1] /\ lev[n - 1] \in Nat /\ lev[n] \in Nat
  BY <1>1, <1>2, <1>3, ScopesAssumption
<1>5. local_count' = lev[n - 1]
  <2>1. Last(open).kind = open[n].kind /\ Last(open).keep = open[n].keep
    BY DEF Last
  <2>2. CASE open[n].kind \in {"function", "arm"}
    BY <1>1, <1>2, <2>1, <2>2 DEF Named, Levels
  <2>3. CASE open[n].kind \in {"catch", "call"}
    BY <1>1, <1>2, <1>4, <2>1, <2>3 DEF Named, Levels
  <2>4. CASE open[n].kind \in {"then", "else", "loop", "try"}
    <3>1. Flat(open, n - 1, n)
      BY <1>2, <2>4 DEF Flat
    <3>2. lev[n - 1] = lev[n]
      BY <1>1, <1>2, <3>1 DEF Named, Levels
    <3> QED
      BY <1>1, <2>1, <2>4, <3>2
  <2>5. open[n].kind \in Blocks \cup {"call"}
    BY <1>1, <1>2 DEF Named, Kinds
  <2> QED
    BY <2>2, <2>3, <2>4, <2>5 DEF Blocks
<1> HIDE DEF lv
<1> QED
  BY <1>3, <1>4, <1>5, Witnessed
\* An expression that declares nothing, and everything else that changes no name.
LEMMA Stays ==
    ASSUME NowNamed, UNCHANGED <<locals, local_count, open>>
    PROVE  NowNamed'
<1>1. PICK lev \in [1 .. Len(open) -> 0 .. MAX_LOCALS] :
        Named(open, lev, locals) /\ lev[Len(open)] = local_count
  BY DEF NowNamed
<1> QED
  BY <1>1, Witnessed

LEMMA CheckNamed ==
    ASSUME NInv, Right, Going, NEW message, NEW wrong, Check(message, wrong), Going'
    PROVE  NowNamed'
<1>1. UNCHANGED <<locals, local_count, open>>
  BY DEF Check, Judge, Going
<1> QED
  BY <1>1, Leveled, Stays

\* The blocks and calls that declare nothing.
LEMMA EmptyConstruct ==
    ASSUME NEW kind
    PROVE  /\ Empty(Construct(kind)) /\ Complete(Construct(kind))
           /\ Construct(kind).kind = kind
BY DEF Construct, Complete, Empty

LEMMA EmptyWithKeep ==
    ASSUME NEW kind, NEW k, NEW c, c = [Construct(kind) EXCEPT !.keep = k]
    PROVE  Complete(c) /\ Empty(c) /\ c.kind = kind /\ c.keep = k
BY DEF Construct, Complete, Empty

LEMMA EnterNamed ==
    ASSUME NInv, Right, Going, ~InArguments,
           NEW c, Complete(c), Empty(c),
           c.kind \in {"then", "else", "loop", "try", "arm"},
           c.kind = "arm" => c.keep = local_count,
           NEW x, NEW finds, NEW g,
           open' \in {Append(open, c), Append(open, Testing(c, x, finds))},
           locals' \in {Guarded(x, g), locals}, local_count' = local_count
    PROVE  NowNamed'
<1> DEFINE n == Len(open)
<1>1. PICK lev \in [1 .. n -> 0 .. MAX_LOCALS] :
        Named(open, lev, locals) /\ lev[n] = local_count
  BY Leveled DEF NowNamed
<1>2. Constructs(open) /\ n \in Nat \ {0} /\ n \in 1 .. n /\ Last(open) = open[n]
  BY Leveled DEF Last
<1> DEFINE d == Testing(c, x, finds)
<1>3. d.kind = c.kind /\ d.keep = c.keep /\ Empty(d)
  BY TestingFacts DEF Empty
<1> HIDE DEF d
<1>4. PICK e \in {c, d} : open' = Append(open, e)
  BY DEF d
<1>5. e.kind = c.kind /\ e.keep = c.keep /\ Empty(e)
  BY <1>3
<1>6. open[n].kind # "call"
  BY <1>2 DEF InArguments
<1>7. Table(locals') /\ \A m \in Slots : locals'[m].name = locals[m].name
  <2>1. Table(locals)
    BY <1>1 DEF Named
  <2> QED
    BY <2>1, GuardedNames
<1>8. local_count \in 0 .. MAX_LOCALS
  BY <1>1, <1>2
<1> DEFINE U == locals'
<1>9. /\ Table(U) /\ \A m \in Slots : U[m].name = locals[m].name
      /\ locals' = U
  BY <1>7
<1> HIDE DEF U
<1> QED
  BY <1>1, <1>2, <1>4, <1>5, <1>6, <1>8, <1>9, Opens DEF Blocks

LEMMA EnterBlockNamed ==
    ASSUME NInv, Right, Going,
           \/ \E x : EnterThen(x) \/ EnterLoop(x) \/ \E t : EnterArm(x, NoName, t)
           \/ EnterTry
    PROVE  NowNamed'
<1>1. ASSUME NEW x, EnterThen(x)
      PROVE  NowNamed'
  <2> DEFINE c == Construct("then")
  <2>1. Complete(c) /\ Empty(c) /\ c.kind = "then"
    BY EmptyConstruct
  <2>2. /\ ~InArguments /\ open' = Append(open, Testing(c, x, "some"))
        /\ locals' = Guarded(x, "some") /\ local_count' = local_count
    BY <1>1 DEF EnterThen, MayTest
  <2> HIDE DEF c
  <2> QED
    BY <2>1, <2>2, EnterNamed
<1>2. ASSUME NEW x, EnterLoop(x)
      PROVE  NowNamed'
  <2> DEFINE c == [Construct("loop") EXCEPT !.keep = current_loop]
  <2>1. Complete(c) /\ Empty(c) /\ c.kind = "loop"
    BY EmptyWithKeep
  <2>2. /\ ~InArguments /\ open' = Append(open, Testing(c, x, "some"))
        /\ locals' = Guarded(x, "some") /\ local_count' = local_count
    BY <1>2 DEF EnterLoop, MayTest
  <2> HIDE DEF c
  <2> QED
    BY <2>1, <2>2, EnterNamed
<1>3. ASSUME NEW x, NEW t, EnterArm(x, NoName, t)
      PROVE  NowNamed'
  <2> DEFINE c == [Construct("arm") EXCEPT !.keep = local_count]
  <2>1. Complete(c) /\ Empty(c) /\ c.kind = "arm" /\ c.keep = local_count
    BY EmptyWithKeep, ZenonT(30)
  <2>2. /\ ~InArguments /\ open' = Append(open, Testing(c, x, "none"))
        /\ locals' = Guarded(x, "none") /\ local_count' = local_count
    BY <1>3 DEF EnterArm, MayTest
  <2> HIDE DEF c
  <2> QED
    BY <2>1, <2>2, EnterNamed
<1>4. CASE EnterTry
  <2> DEFINE c == Construct("try")
  <2>1. Complete(c) /\ Empty(c) /\ c.kind = "try"
    BY EmptyConstruct
  <2>2. /\ ~InArguments /\ open' = Append(open, c)
        /\ locals' = locals /\ local_count' = local_count
    BY <1>4 DEF EnterTry, MayTest
  <2> HIDE DEF c
  <2> QED
    BY <2>1, <2>2, EnterNamed
<1> QED
  BY <1>1, <1>2, <1>3, <1>4

LEMMA BeginCallNamed ==
    ASSUME NInv, Right, Going, BeginCall
    PROVE  NowNamed'
<1> DEFINE n == Len(open)
           c == [Construct("call") EXCEPT !.keep = local_count]
           v == local_count + 1
<1>1. PICK lev \in [1 .. n -> 0 .. MAX_LOCALS] :
        Named(open, lev, locals) /\ lev[n] = local_count
  BY Leveled DEF NowNamed
<1>2. Constructs(open) /\ n \in Nat \ {0} /\ n \in 1 .. n
  BY Leveled
<1>3. Empty(c) /\ c.kind = "call" /\ c.keep = local_count
  BY EmptyWithKeep, ZenonT(30)
<1>4. /\ open' = Append(open, c) /\ local_count' = v /\ locals' = locals
      /\ local_count # MAX_LOCALS
  BY DEF BeginCall, Full
<1>5. v \in 0 .. MAX_LOCALS /\ v = lev[n] + 1
  BY <1>1, <1>2, <1>4, ScopesAssumption
<1>6. Table(locals)
  BY <1>1 DEF Named
<1> HIDE DEF c, v
<1> QED
  BY <1>1, <1>2, <1>3, <1>4, <1>5, <1>6, Opens DEF Blocks

\* The constructs that end, and the functions that are values.
LEMMA LeaveNamed ==
    ASSUME NInv, Right, Going,
           \/ EndCall \/ EndFunction(NoName) \/ LeaveBranch \/ LeaveLoop
           \/ LeaveArm \/ LeaveCatch
    PROVE  NowNamed'
<1> DEFINE n == Len(open)
<1>1. /\ Constructs(open) /\ Rooted(open) /\ n \in Nat \ {0} /\ NowNamed
      /\ Last(open) = open[n]
  BY Leveled DEF Last
<1>2. n > 1
  <2>1. CASE EndFunction(NoName)
    BY <2>1 DEF EndFunction
  <2>2. CASE Last(open).kind # "function"
    BY <1>1, <2>2 DEF Rooted
  <2> QED
    BY <2>1, <2>2 DEF EndCall, LeaveBranch, LeaveLoop, LeaveArm, LeaveCatch, InArguments
<1>3. Table(locals)
  BY <1>1 DEF NowNamed, Named
<1>4. locals' = locals \/ locals' = Unguarded
  BY DEF EndCall, EndFunction, LeaveBranch, LeaveLoop, LeaveArm, LeaveCatch
<1>5. Table(locals') /\ \A k \in Slots : locals'[k].name = locals[k].name
  BY <1>3, <1>4, GuardedNames
<1>6. open' = Front(open) \/ (open' = Closed /\ Last(open).kind # "function")
  BY DEF EndCall, EndFunction, LeaveBranch, LeaveLoop, LeaveArm, LeaveCatch
<1>7. /\ Last(open).kind \in {"function", "arm"} => local_count' = Last(open).keep
      /\ Last(open).kind \in {"catch", "call"} => local_count' = local_count - 1
      /\ Last(open).kind \in {"then", "else", "loop", "try"} =>
           local_count' = local_count
  BY DEF EndCall, EndFunction, LeaveBranch, LeaveLoop, LeaveArm, LeaveCatch, InArguments
<1> QED
  BY <1>2, <1>5, <1>6, <1>7, Closes

\* One branch ends and the other one begins.
LEMMA EnterElseNamed ==
    ASSUME NInv, Right, Going, EnterElse
    PROVE  NowNamed'
<1> DEFINE n == Len(open)
           c == Construct("else")
<1>1. PICK lev \in [1 .. n -> 0 .. MAX_LOCALS] :
        Named(open, lev, locals) /\ lev[n] = local_count
  BY Leveled DEF NowNamed
<1>2. /\ Rooted(open) /\ n \in Nat \ {0}
      /\ open[n].kind = "then" /\ Last(open).kind # "function"
      /\ open' = Append(Closed, c) /\ locals' = Unguarded /\ local_count' = local_count
  BY Leveled DEF EnterElse, Last
<1>3. n > 1 /\ n - 1 \in 1 .. n /\ n \in 2 .. n /\ n \in 1 .. n
  BY <1>2 DEF Rooted
<1> DEFINE t == Closed
           U == Unguarded
           lv == [i \in 1 .. Len(t) |-> lev[i]]
<1>4. Table(U) /\ \A k \in Slots : U[k].name = locals[k].name
  BY <1>1, GuardedNames DEF Named
<1>5. Named(t, lv, U) /\ Len(t) = n - 1 /\ Constructs(t) /\ t[n - 1].kind = open[n - 1].kind
  <2> HIDE DEF U
  <2> QED
    BY <1>1, <1>2, <1>3, <1>4, NamedClose
<1>6. lv[n - 1] = local_count
  <2>1. Flat(open, n - 1, n)
    BY <1>2, <1>3 DEF Flat
  <2>2. lev[n - 1] = lev[n]
    BY <1>1, <1>3, <2>1 DEF Named, Levels
  <2> QED
    BY <1>1, <1>3, <1>5, <2>2
<1>7. t[n - 1].kind # "call"
  BY <1>1, <1>2, <1>3, <1>5 DEF Named, Kinds
<1>8. Empty(c) /\ c.kind = "else"
  BY EmptyConstruct
<1>9. local_count \in 0 .. MAX_LOCALS /\ n - 1 \in Nat \ {0}
  <2> HIDE DEF t, U, lv, c
  <2>1. local_count \in 0 .. MAX_LOCALS
    BY <1>1, <1>3
  <2> QED
    BY <1>2, <1>3, <2>1
<1> HIDE DEF t, U, lv, c
<1>10. open' = Append(t, c) /\ locals' = U
  BY <1>2 DEF t, U
<1> QED
  BY <1>2, <1>4, <1>5, <1>6, <1>7, <1>8, <1>9, <1>10, Opens DEF Blocks

-----------------------------------------------------------------------------
(* Steps that declare variables *)

\* A construct c is opened whose variable x gets the next slot, k.
Binds(s, lev, T, t, c, k, v, x, U) ==
    /\ Named(s, lev, T) /\ Len(s) \in Nat \ {0}
    /\ Len(t) = Len(s) + 1 /\ (\A i \in 1 .. Len(s) : t[i] = s[i]) /\ t[Len(s) + 1] = c
    /\ OneDeclares(t)
    /\ k = lev[Len(s)] /\ k # MAX_LOCALS /\ v = k + 1
    /\ s[Len(s)].kind # "call" /\ c.kind \in {"arm", "catch"}
    /\ c.kind = "arm" => c.keep = k
    /\ DOMAIN c.names = {x} /\ c.names[x].slot = k
    /\ Table(U) /\ U[k].name = x
    /\ \A m \in Slots \ {k} : U[m].name = T[m].name

LEMMA NamedBinding ==
    ASSUME NEW s, NEW lev, NEW T, NEW t, NEW c, NEW k, NEW v, NEW x, NEW U,
           Binds(s, lev, T, t, c, k, v, x, U)
    PROVE  Named(t, Over(lev, t, v), U)
<1> DEFINE n == Len(s)
<1> USE DEF Binds
<1>1. n \in 1 .. n /\ k \in Nat /\ v \in 0 .. MAX_LOCALS /\ v \in Nat
  BY ScopesAssumption DEF Named, Levels
<1>2. \A m \in 0 .. lev[n] - 1 : U[m].name = T[m].name
  <2>1. \A m \in 0 .. k - 1 : m \in Slots \ {k}
    BY <1>1, ScopesAssumption DEF Slots
  <2> QED
    BY <2>1
<1>3. \A m \in lev[n] .. v - 1 : U[m].name \in DOMAIN c.names
  <2>1. \A m \in k .. v - 1 : m = k
    BY <1>1
  <2> QED
    BY <2>1
<1>4. Fits(c, lev[n], v, U)
  <2>1. k \in 0 .. v - 1 /\ k >= lev[n] /\ k + 1 .. v - 1 = {}
    BY <1>1
  <2>2. ASSUME NEW y \in DOMAIN c.names
        PROVE  y = x /\ c.names[y].slot = k
    OBVIOUS
  <2> QED
    BY <2>1, <2>2 DEF Fits
<1>5. v = lev[n] + 1 /\ v >= lev[n] /\ DOMAIN c.names # {}
  BY <1>1
<1>6. c.kind \in Blocks \cup {"call"}
  BY DEF Blocks
<1>7. DOMAIN c.names = {} => \A m \in Slots : U[m].name = T[m].name
  BY <1>5
<1>8. /\ c.kind \in {"function", "arm", "call"} => c.keep = lev[n]
      /\ c.kind \notin {"then", "else", "loop", "try"}
  OBVIOUS
<1>9. Pushes(s, lev, T, t, c, v, U)
  BY <1>1, <1>2, <1>3, <1>4, <1>5, <1>6, <1>7, <1>8 DEF Pushes
<1> QED
  BY <1>9, NamedPush

LEMMA OpensBinding ==
    ASSUME NEW s, NEW lev, NEW T, Named(s, lev, T), Constructs(s), Rooted(s),
           Bare(s, FunctionOf(s) - 1),
           s[Len(s)].kind # "call", lev[Len(s)] = local_count, local_count # MAX_LOCALS,
           NEW c, c.kind \in {"arm", "catch"}, c.kind = "arm" => c.keep = local_count,
           NEW x, DOMAIN c.names = {x}, c.names[x].slot = local_count,
           open' = Append(s, c), local_count' = local_count + 1,
           NEW U, locals' = U, Table(U), U[local_count].name = x,
           \A k \in Slots \ {local_count} : U[k].name = T[k].name
    PROVE  NowNamed'
<1> DEFINE n == Len(s)  t == Append(s, c)  k == local_count  v == k + 1
           lv == Over(lev, t, v)
<1>1. Len(t) = n + 1 /\ (\A i \in 1 .. n : t[i] = s[i]) /\ t[n + 1] = c
  BY Appended
<1>2. /\ n \in Nat \ {0}
      /\ FunctionOf(s) \in 1 .. n
  BY RunningFacts
<1>3. /\ open' = t /\ local_count' = v /\ v = k + 1
      /\ k = lev[n] /\ k # MAX_LOCALS /\ (c.kind = "arm" => c.keep = k)
      /\ c.names[x].slot = k /\ U[k].name = x
      /\ \A m \in Slots \ {k} : U[m].name = T[m].name
  OBVIOUS
<1> HIDE DEF t, k, v
<1>5. OneDeclares(t)
  <2>1. \A i \in 1 .. FunctionOf(s) - 1 : i \in 1 .. n
    BY <1>2
  <2>2. t[n + 1].kind # "function"
    BY <1>1
  <2> QED
    BY <1>1, <2>1, <2>2, OneDeclaresHere
<1>6. Named(t, lv, U)
  <2>1. Binds(s, lev, T, t, c, k, v, x, U)
    BY <1>1, <1>2, <1>3, <1>5 DEF Binds
  <2> QED
    BY <2>1, NamedBinding
<1>7. lv[Len(t)] = v
  BY <1>1, <1>2 DEF Over
<1> HIDE DEF lv
<1> QED
  BY <1>3, <1>6, <1>7, Witnessed

\* A new entry.
WithEntry(T, k, x, type) == [T EXCEPT ![k] = Local(x, type)]

LEMMA EntryNames ==
    ASSUME NEW T, Table(T), NEW k \in Slots, NEW x, NEW type,
           NEW U, U = WithEntry(T, k, x, type)
    PROVE  /\ Table(U) /\ U[k].name = x
           /\ \A m \in Slots \ {k} : U[m].name = T[m].name
<1> DEFINE e == Local(x, type)
<1>1. e = [name |-> e.name, type |-> e.type, guard |-> e.guard] /\ e.name = x
  BY DEF Local
<1> HIDE DEF e
<1>2. U = [m \in Slots |-> IF m = k THEN e ELSE T[m]]
  BY DEF Table, WithEntry, e
<1> QED
  BY <1>1, <1>2 DEF Table

LEMMA MayNestFacts ==
    ASSUME NEW s, Right, MayNest(s)
    PROVE  Bare(s, FunctionOf(s) - 1)
BY RightFacts DEF MayNest

LEMMA EnterArmNamed ==
    ASSUME NInv, Right, Going, NEW x, NEW binding, NEW type,
           EnterArm(x, binding, type), binding # NoName, Going'
    PROVE  NowNamed'
<1> DEFINE n == Len(open)
           a == [Construct("arm") EXCEPT !.keep = local_count]
           b == Testing(a, x, "some")
           new == Variables(binding, local_count, type)
           c == [b EXCEPT !.names = new]
           G == Guarded(x, "some")
           U == [G EXCEPT ![local_count] = Local(binding, type)]
<1>1. PICK lev \in [1 .. n -> 0 .. MAX_LOCALS] :
        Named(open, lev, locals) /\ lev[n] = local_count
  BY Leveled DEF NowNamed
<1>2. Constructs(open) /\ Rooted(open) /\ n \in Nat \ {0} /\ n \in 1 .. n /\ Last(open) = open[n]
  BY Leveled DEF Last
<1>3. MayNest(open) /\ ~InArguments
  BY DEF EnterArm, MayTest
<1>4. CASE Full
  BY <1>4 DEF EnterArm, Check, Judge, Going
<1>5. CASE ~Full
  <2>1. open' = Append(open, c) /\ locals' = U /\ local_count' = local_count + 1
    BY <1>5 DEF EnterArm
  <2>2. Complete(a) /\ a.kind = "arm" /\ a.keep = local_count
    BY EmptyWithKeep, ZenonT(30)
  <2>3. Complete(b) /\ b.kind = "arm" /\ b.keep = local_count
    <3> HIDE DEF a
    <3> QED
      BY <2>2, TestingFacts
  <2>4. c.kind = "arm" /\ c.keep = local_count /\ c.names = new
    <3> HIDE DEF b, new
    <3> QED
      BY <2>3 DEF Complete
  <2>5. DOMAIN new = {binding} /\ new[binding].slot = local_count
    BY DEF Variables
  <2>6. Table(G) /\ \A m \in Slots : G[m].name = locals[m].name
    <3>1. Table(locals)
      BY <1>1 DEF Named
    <3> QED
      BY <3>1, GuardedNames
  <2>7. local_count \in Slots /\ local_count # MAX_LOCALS
    BY <1>1, <1>2, <1>5, ScopesAssumption DEF Full, Slots
  <2>8. /\ Table(U) /\ U[local_count].name = binding
        /\ \A m \in Slots \ {local_count} : U[m].name = G[m].name
    <3>1. U = WithEntry(G, local_count, binding, type)
      BY DEF WithEntry
    <3> HIDE DEF G, U
    <3> QED
      BY <2>6, <2>7, <3>1, EntryNames
  <2>9. open[n].kind # "call" /\ Bare(open, FunctionOf(open) - 1)
    BY <1>2, <1>3, MayNestFacts DEF InArguments
  <2> HIDE DEF G, U, c, new
  <2>10. \A m \in Slots \ {local_count} : U[m].name = locals[m].name
    BY <2>6, <2>8
  <2>11. DOMAIN c.names = {binding} /\ c.names[binding].slot = local_count
    BY <2>4, <2>5
  <2> QED
    BY <1>1, <1>2, <2>1, <2>4, <2>7, <2>8, <2>9, <2>10, <2>11, OpensBinding
<1> QED
  BY <1>4, <1>5

LEMMA EnterCatchNamed ==
    ASSUME NInv, Right, Going, NEW x, EnterCatch(x), Going'
    PROVE  NowNamed'
<1> DEFINE n == Len(open)
           new == Variables(x, local_count, "any")
           c == [Construct("catch") EXCEPT !.names = new]
           U == [locals EXCEPT ![local_count] = Local(x, "any")]
           t == Closed
<1>1. PICK lev \in [1 .. n -> 0 .. MAX_LOCALS] :
        Named(open, lev, locals) /\ lev[n] = local_count
  BY Leveled DEF NowNamed
<1> DEFINE lv == [i \in 1 .. Len(t) |-> lev[i]]
<1>2. /\ Constructs(open) /\ Rooted(open) /\ n \in Nat \ {0}
      /\ open[n].kind = "try" /\ Last(open).kind # "function" /\ MayNest(open)
  BY Leveled DEF EnterCatch, Last
<1>3. n > 1 /\ n - 1 \in 1 .. n /\ n \in 2 .. n /\ n \in 1 .. n
  BY <1>2 DEF Rooted
<1>4. CASE Full
  BY <1>4 DEF EnterCatch, Check, Judge, Going
<1>5. CASE ~Full
  <2>1. open' = Append(t, c) /\ locals' = U /\ local_count' = local_count + 1
    BY <1>5 DEF EnterCatch, add_local
  <2>2. Table(locals)
    BY <1>1 DEF Named
  <2>3. /\ Named(t, lv, locals) /\ Len(t) = n - 1 /\ Constructs(t) /\ Rooted(t)
        /\ t[n - 1].kind = open[n - 1].kind
        /\ FunctionOf(t) = FunctionOf(open)
        /\ \A i \in 1 .. FunctionOf(t) - 1 : t[i] = open[i]
    <3>1. t = Closed
      OBVIOUS
    <3> HIDE DEF t
    <3> QED
      BY <1>1, <1>2, <1>3, <2>2, <3>1, NamedClose
  <2>4. lv[n - 1] = local_count
    <3>1. Flat(open, n - 1, n)
      BY <1>2, <1>3 DEF Flat
    <3>2. lev[n - 1] = lev[n]
      BY <1>1, <1>3, <3>1 DEF Named, Levels
    <3>3. n - 1 \in 1 .. Len(t)
      BY <1>2, <1>3, <2>3
    <3> HIDE DEF t
    <3> QED
      BY <1>1, <3>2, <3>3
  <2>5. t[n - 1].kind # "call"
    BY <1>1, <1>2, <1>3, <2>3 DEF Named, Kinds
  <2>6. local_count \in Slots /\ local_count # MAX_LOCALS
    <3> HIDE DEF t, U, c, lv
    <3> QED
      BY <1>1, <1>3, <1>5, ScopesAssumption DEF Full, Slots
  <2>7. /\ Table(U) /\ U[local_count].name = x
        /\ \A m \in Slots \ {local_count} : U[m].name = locals[m].name
    <3>1. U = WithEntry(locals, local_count, x, "any")
      BY DEF WithEntry
    <3> HIDE DEF U
    <3> QED
      BY <2>2, <2>6, <3>1, EntryNames
  <2>8. c.kind = "catch" /\ c.names = new
    <3> HIDE DEF new
    <3> QED
      BY DEF Construct
  <2>9. DOMAIN new = {x} /\ new[x].slot = local_count
    BY DEF Variables
  <2> HIDE DEF t, U, lv, c, new
  <2>10. Bare(t, FunctionOf(t) - 1)
    <3>1. Bare(open, FunctionOf(open) - 1)
      BY <1>2, MayNestFacts
    <3> QED
      BY <2>3, <3>1 DEF Bare
  <2>11. DOMAIN c.names = {x} /\ c.names[x].slot = local_count
    BY <2>8, <2>9
  <2> QED
    BY <2>1, <2>3, <2>4, <2>5, <2>6, <2>7, <2>8, <2>10, <2>11, OpensBinding
<1> QED
  BY <1>4, <1>5

\* Where a variable may be declared, the last construct is the block that gets
\* it, and what keeps the level around it is a function or an arm.
LEMMA HolderFacts ==
    ASSUME NEW s, Constructs(s), Rooted(s), Kinds(s), Right, MayDeclare(s)
    PROVE  /\ \E h \in 1 .. Len(s) :
                s[h].kind \in {"function", "arm"} /\ Flat(s, h, Len(s))
           /\ Block(s) = Len(s)
           /\ Bare(s, FunctionOf(s) - 1)
<1> DEFINE n == Len(s)
           K == {"function", "arm", "catch", "call"}
           h == LastOf(s, K)
<1>1. n \in Nat \ {0} /\ 1 \in 1 .. n /\ n \in 1 .. n /\ s[1].kind = "function"
  BY RunningFacts DEF Rooted
<1>2. h \in 1 .. n /\ s[h].kind \in K /\ \A j \in h + 1 .. n : s[j].kind \notin K
  <2>1. s[1].kind \in K
    BY <1>1
  <2> HIDE DEF K
  <2> QED
    BY <1>1, <2>1, LastOfFacts
<1>3. s[h].kind \in {"function", "arm"}
  BY <1>2, RightFacts DEF MayDeclare
<1> HIDE DEF h
<1>4. \A j \in 1 .. n : s[j].kind \in Blocks \cup {"call"}
  BY DEF Kinds
<1>5. Flat(s, h, n)
  <2>1. ASSUME NEW j \in h + 1 .. n
        PROVE  s[j].kind \in {"then", "else", "loop", "try"}
    <3>1. j \in 1 .. n
      BY <1>1, <1>2
    <3> QED
      BY <1>2, <1>4, <3>1 DEF Blocks
  <2> QED
    BY <2>1 DEF Flat
<1>6. s[n].kind \in Blocks
  <2>1. n = h \/ n \in h + 1 .. n
    BY <1>1, <1>2
  <2> QED
    BY <1>3, <1>5, <2>1 DEF Flat, Blocks
<1>7. Block(s) = n
  <2>1. LastOf(s, Blocks) \in 1 .. n /\ LastOf(s, Blocks) >= n
    BY <1>1, <1>6, LastOfFacts
  <2> QED
    BY <1>1, <2>1 DEF Block
<1> QED
  BY <1>2, <1>3, <1>5, <1>7, MayNestFacts DEF MayDeclare

LEMMA DeclareNames ==
    ASSUME NEW s, Constructs(s), Len(s) \in Nat \ {0}, NEW x, NEW k, NEW type,
           NEW t, t = Declare(s, Len(s), Variables(x, k, type))
    PROVE  /\ Len(t) = Len(s)
           /\ \A i \in 1 .. Len(s) : t[i].kind = s[i].kind /\ t[i].keep = s[i].keep
           /\ \A i \in 1 .. Len(s) - 1 : t[i] = s[i]
           /\ DOMAIN t[Len(s)].names = DOMAIN s[Len(s)].names \cup {x}
           /\ t[Len(s)].names[x].slot = k
           /\ \A y \in DOMAIN s[Len(s)].names \ {x} :
                t[Len(s)].names[y] = s[Len(s)].names[y]
<1> DEFINE n == Len(s)
           new == Variables(x, k, type)
           p == [y \in DOMAIN s[n].names \cup DOMAIN new |->
                     IF y \in DOMAIN new THEN new[y] ELSE s[n].names[y]]
<1>1. n \in 1 .. n /\ DOMAIN s = 1 .. n /\ \A i \in 1 .. n - 1 : i \in 1 .. n /\ i # n
  BY DEF Constructs
<1>2. t = [s EXCEPT ![n].names = p]
  BY DEF Declare
<1>3. DOMAIN new = {x} /\ new[x].slot = k
  BY DEF Variables
<1> HIDE DEF new
<1>4. /\ DOMAIN p = DOMAIN s[n].names \cup {x} /\ p[x].slot = k
      /\ \A y \in DOMAIN s[n].names \ {x} : p[y] = s[n].names[y]
  BY <1>3
<1> HIDE DEF p
<1>5. Complete(s[n])
  BY <1>1 DEF Constructs
<1>6. t[n] = [s[n] EXCEPT !.names = p] /\ \A i \in 1 .. n - 1 : t[i] = s[i]
  BY <1>1, <1>2
<1>7. t[n].names = p
  BY <1>5, <1>6 DEF Complete
<1>8. /\ t = [i \in 1 .. n |-> t[i]]
      /\ \A i \in 1 .. n : t[i].kind = s[i].kind /\ t[i].keep = s[i].keep
  <2>1. t = Declare(s, n, new)
    BY DEF new
  <2> QED
    BY <2>1, DeclareFacts
<1>9. Len(t) = n
  BY <1>8, IsSequence
<1> QED
  BY <1>4, <1>6, <1>7, <1>8, <1>9

\* Statements and functions that declare x.
LEMMA DeclaresNamed ==
    ASSUME NEW s, NEW lev, NEW T, Named(s, lev, T), Constructs(s), Rooted(s),
           Right, MayDeclare(s), NEW x, NEW k \in Slots, NEW type,
           \A i \in FunctionOf(s) .. Len(s) - 1 : x \notin DOMAIN s[i].names,
           open' = Declare(s, Block(s), Variables(x, k, type)),
           NEW U, locals' = U, Table(U),
           \/ /\ U = T /\ local_count' = lev[Len(s)]
              /\ k < lev[Len(s)] /\ T[k].name = x
              /\ \A m \in k + 1 .. lev[Len(s)] - 1 : T[m].name # x
           \/ /\ local_count' = lev[Len(s)] + 1
              /\ k = lev[Len(s)] /\ U[k].name = x
              /\ \A m \in Slots \ {k} : U[m].name = T[m].name
    PROVE  NowNamed'
<1> DEFINE n == Len(s)  f == FunctionOf(s)
<1>1. /\ n \in Nat \ {0} /\ n \in 1 .. n
      /\ f \in 1 .. n /\ s[f].kind = "function"
  BY RunningFacts
<1>2. PICK h \in 1 .. n : s[h].kind \in {"function", "arm"} /\ Flat(s, h, n)
  BY HolderFacts DEF Named
<1>3. Block(s) = n /\ Bare(s, f - 1)
  BY HolderFacts DEF Named
<1> DEFINE t == Declare(s, n, Variables(x, k, type))
<1>4. open' = t
  BY <1>3
<1>5. /\ Len(t) = n
      /\ \A i \in 1 .. n : t[i].kind = s[i].kind /\ t[i].keep = s[i].keep
      /\ \A i \in 1 .. n - 1 : t[i] = s[i]
      /\ DOMAIN t[n].names = DOMAIN s[n].names \cup {x}
      /\ t[n].names[x].slot = k
      /\ \A y \in DOMAIN s[n].names \ {x} : t[n].names[y] = s[n].names[y]
  <2>1. t = Declare(s, n, Variables(x, k, type))
    OBVIOUS
  <2> HIDE DEF t
  <2> QED
    BY <1>1, <2>1, DeclareNames
<1> HIDE DEF t
<1>6. OneDeclares(t)
  <2>1. \A i \in 1 .. f - 1 : i \in 1 .. n - 1
    BY <1>1
  <2>2. \A i \in 1 .. f - 1 : t[i].names = s[i].names /\ t[i].past = s[i].past
    BY <1>5, <2>1
  <2>3. Len(t) # Len(s) + 1
    BY <1>1, <1>5
  <2> QED
    BY <1>3, <1>5, <2>2, <2>3, OneDeclaresHere
<1>7. \A i \in 1 .. n - 1 : Together(s, i, n) => x \notin DOMAIN s[i].names
  <2>1. ASSUME NEW i \in 1 .. n - 1, Together(s, i, n)
        PROVE  i >= f
    BY <1>1, <2>1 DEF Together
  <2>2. ASSUME NEW i \in 1 .. n - 1, i >= f
        PROVE  i \in f .. n - 1
    BY <1>1, <2>2
  <2> QED
    BY <2>1, <2>2
<1> DEFINE up == [i \in 1 .. n |-> IF i >= h THEN lev[n] + 1 ELSE lev[i]]
<1>8. PICK lv \in {lev, up} : Adds(s, lev, T, t, x, k, h, lv, U) /\ local_count' = lv[n]
  <2> DEFINE rest ==
        /\ Named(s, lev, T) /\ Len(s) \in Nat \ {0} /\ Len(t) = Len(s)
        /\ \A i \in 1 .. Len(s) : t[i].kind = s[i].kind /\ t[i].keep = s[i].keep
        /\ \A i \in 1 .. Len(s) - 1 : t[i].names = s[i].names
        /\ k \in Slots
        /\ DOMAIN t[Len(s)].names = DOMAIN s[Len(s)].names \cup {x}
        /\ t[Len(s)].names[x].slot = k
        /\ \A y \in DOMAIN s[Len(s)].names \ {x} :
             t[Len(s)].names[y] = s[Len(s)].names[y]
        /\ OneDeclares(t)
        /\ \A i \in 1 .. Len(s) - 1 : Together(s, i, Len(s)) => x \notin DOMAIN s[i].names
        /\ h \in 1 .. Len(s) /\ s[h].kind \in {"function", "arm"} /\ Flat(s, h, Len(s))
        /\ Table(U)
  <2>1. rest
    BY <1>1, <1>2, <1>5, <1>6, <1>7
  <2>2. CASE /\ U = T /\ local_count' = lev[n]
             /\ k < lev[n] /\ T[k].name = x
             /\ \A m \in k + 1 .. lev[n] - 1 : T[m].name # x
    <3>1. Adds(s, lev, T, t, x, k, h, lev, U)
      BY <2>1, <2>2 DEF Adds
    <3> QED
      BY <2>2, <3>1
  <2>3. CASE /\ local_count' = lev[n] + 1
             /\ k = lev[n] /\ U[k].name = x
             /\ \A m \in Slots \ {k} : U[m].name = T[m].name
    <3>1. Adds(s, lev, T, t, x, k, h, up, U)
      BY <2>1, <2>3 DEF Adds
    <3>2. up[n] = lev[n] + 1
      BY <1>1, <1>2
    <3> QED
      BY <2>3, <3>1, <3>2
  <2> QED
    BY <2>2, <2>3
<1>9. Named(t, lv, U)
  BY <1>8, NamedDeclare
<1> QED
  BY <1>4, <1>5, <1>8, <1>9, Witnessed

LEMMA EndFunctionNamed ==
    ASSUME NInv, Right, Going, NEW name, EndFunction(name), name # NoName, Going'
    PROVE  NowNamed'
<1> DEFINE n == Len(open)
           s == Front(open)
           count == Last(open).keep
           hidden == {i \in FunctionOf(s) .. Len(s) : name \in DOMAIN s[i].names}
           U == [locals EXCEPT ![count] = Local(name, "fun")]
<1>1. PICK lev \in [1 .. n -> 0 .. MAX_LOCALS] :
        Named(open, lev, locals) /\ lev[n] = local_count
  BY Leveled DEF NowNamed
<1> DEFINE lv == [i \in 1 .. Len(s) |-> lev[i]]
<1>2. /\ n \in Nat \ {0} /\ n > 1 /\ Last(open) = open[n] /\ open[n].kind = "function"
      /\ MayDeclare(s) /\ hidden \subseteq {Block(s)}
  BY Leveled, RightFacts DEF EndFunction, Last
<1>3. n - 1 \in 1 .. n /\ n \in 2 .. n /\ n \in 1 .. n
  BY <1>2
<1>4. CASE count = MAX_LOCALS
  BY <1>4 DEF EndFunction, Check, Judge, Going
<1>5. CASE count # MAX_LOCALS
  <2>1. /\ locals' = U /\ local_count' = count + 1
        /\ open' = Declare(s, Block(s), Variables(name, count, "fun"))
    BY <1>5 DEF EndFunction
  <2>2. Table(locals)
    BY <1>1 DEF Named
  <2>3. Named(s, lv, locals) /\ Len(s) = n - 1 /\ Constructs(s) /\ Rooted(s)
    <3>1. s = Front(open)
      OBVIOUS
    <3> HIDE DEF s
    <3> QED
      BY <1>1, <1>2, <2>2, <3>1, NamedClose
  <2>4. lv[Len(s)] = count
    <3>1. lev[n - 1] = count
      BY <1>1, <1>2, <1>3 DEF Named, Levels
    <3>2. n - 1 \in 1 .. Len(s)
      BY <1>2, <1>3, <2>3
    <3> HIDE DEF s, count
    <3> QED
      BY <2>3, <3>1, <3>2
  <2>5. count \in Slots
    <3>1. lev[n - 1] = count
      BY <1>1, <1>2, <1>3 DEF Named, Levels
    <3> HIDE DEF s, count, lv, U, hidden
    <3> QED
      BY <1>1, <1>3, <1>5, <3>1, ScopesAssumption DEF Slots
  <2>6. /\ Table(U) /\ U[count].name = name
        /\ \A m \in Slots \ {count} : U[m].name = locals[m].name
    <3>1. U = WithEntry(locals, count, name, "fun")
      BY DEF WithEntry
    <3> HIDE DEF U
    <3> QED
      BY <2>2, <2>5, <3>1, EntryNames
  <2>7. \A i \in FunctionOf(s) .. Len(s) - 1 : name \notin DOMAIN s[i].names
    <3> HIDE DEF s, lv, U, count
    <3>1. Block(s) = Len(s)
      BY <1>2, <2>3, HolderFacts DEF Named
    <3>2. Len(s) \in Nat /\ FunctionOf(s) \in Nat
      BY <2>3, RunningFacts
    <3>3. \A i \in FunctionOf(s) .. Len(s) - 1 :
             i \in FunctionOf(s) .. Len(s) /\ i # Len(s)
      BY <3>2
    <3> QED
      BY <1>2, <3>1, <3>3
  <2> HIDE DEF s, lv, U, count, hidden
  <2> QED
    BY <1>2, <2>1, <2>3, <2>4, <2>5, <2>6, <2>7, DeclaresNamed
<1> QED
  BY <1>4, <1>5

\* What resolve_local finds: the last entry in use of that name.
LEMMA Resolved ==
    ASSUME NEW x, local_count \in Nat
    PROVE  \/ /\ resolve_local(x) = NoSlot
              /\ \A k \in 0 .. local_count - 1 : locals[k].name # x
           \/ /\ resolve_local(x) \in 0 .. local_count - 1
              /\ resolve_local(x) # NoSlot
              /\ locals[resolve_local(x)].name = x
              /\ \A k \in resolve_local(x) + 1 .. local_count - 1 : locals[k].name # x
<1> DEFINE S == {i \in 0 .. local_count - 1 : locals[i].name = x}
           r == resolve_local(x)
<1>1. CASE S = {}
  BY <1>1 DEF resolve_local
<1>2. CASE S # {}
  <2>1. r = Max(S)
    BY <1>2 DEF resolve_local
  <2>2. S \subseteq 0 .. local_count - 1 /\ 0 \in Int /\ local_count - 1 \in Int
    OBVIOUS
  <2>3. r \in S /\ \A y \in S : r >= y
    <3> HIDE DEF S, r
    <3>1. Max(S) \in S /\ \A y \in S : Max(S) >= y
      BY <1>2, <2>2, MaxOf
    <3> QED
      BY <2>1, <3>1
  <2> HIDE DEF r
  <2>4. r \in 0 .. local_count - 1 /\ locals[r].name = x /\ r # NoSlot
    BY <2>3 DEF NoSlot
  <2>5. ASSUME NEW k \in r + 1 .. local_count - 1, locals[k].name = x
        PROVE  FALSE
    <3>1. k \in S /\ k > r
      BY <2>4, <2>5
    <3>2. r >= k
      BY <2>3, <3>1
    <3> QED
      BY <2>4, <3>1, <3>2
  <2> QED
    BY <2>4, <2>5 DEF r
<1> QED
  BY <1>1, <1>2

\* A visible variable is in an entry in use.
LEMMA VisibleFacts ==
    ASSUME NInv, Right, Going, NEW lev, Named(open, lev, locals),
           lev[Len(open)] = local_count, NEW x, NEW i \in Declaring(x)
    PROVE  /\ i \in 1 .. Len(open) /\ i >= Running /\ x \in DOMAIN open[i].names
           /\ Together(open, i, Len(open)) /\ lev[i] <= local_count
           /\ lev[i] \in Nat /\ local_count \in Nat
           /\ open[i].names[x].slot \in 0 .. local_count - 1
           /\ open[i].names[x].slot \in 0 .. lev[i] - 1
           /\ locals[open[i].names[x].slot].name = x
<1> DEFINE n == Len(open)
<1>1. /\ n \in Nat \ {0} /\ n \in 1 .. n /\ Running \in 1 .. n
      /\ \A j \in Running + 1 .. n : open[j].kind # "function"
  BY Leveled, RunningFacts DEF Running
<1>2. i \in 1 .. n /\ i >= Running /\ x \in DOMAIN open[i].names
  BY <1>1 DEF Declaring
<1>3. Together(open, i, n)
  <2>1. \A j \in i + 1 .. n : j \in Running + 1 .. n
    BY <1>1, <1>2
  <2> QED
    BY <1>1, <2>1 DEF Together
<1>4. lev \in [1 .. n -> 0 .. MAX_LOCALS] /\ lev[i] <= lev[n]
  BY <1>1, <1>2, <1>3 DEF Named, Levels
<1>5. lev[i] \in Nat /\ lev[n] \in Nat
  BY <1>1, <1>2, <1>4, ScopesAssumption
<1>6. /\ open[i].names[x].slot \in 0 .. lev[i] - 1
      /\ locals[open[i].names[x].slot].name = x
  BY <1>2 DEF Named, Placed
<1> QED
  BY <1>2, <1>3, <1>4, <1>5, <1>6

\* A value is stored in a variable: no name changes.
LEMMA StoredNamed ==
    ASSUME NInv, Right, Going, NEW x, open' = Stored(x),
           UNCHANGED <<locals, local_count>>
    PROVE  NowNamed'
<1> DEFINE n == Len(open)  t == Stored(x)
<1>1. PICK lev \in [1 .. n -> 0 .. MAX_LOCALS] :
        Named(open, lev, locals) /\ lev[n] = local_count
  BY Leveled DEF NowNamed
<1> DEFINE lv == [i \in 1 .. Len(t) |-> lev[i]]
<1>2. Constructs(open) /\ n \in Nat \ {0} /\ n \in 1 .. n
  BY Leveled
<1>3. \A i \in 1 .. n : Complete(open[i])
  BY <1>2 DEF Constructs
<1>4. /\ t = [i \in 1 .. n |-> t[i]]
      /\ \A i \in 1 .. n : t[i] = open[i] \/ t[i] = [open[i] EXCEPT !.finds = "assigned"]
  BY DEF Stored
<1>5. Len(t) = n
  <2> HIDE DEF t
  <2> QED
    BY <1>2, <1>4, IsSequence
<1>6. open' = t
  OBVIOUS
<1> HIDE DEF t
<1>7. \A i \in 1 .. n :
         /\ t[i].kind = open[i].kind /\ t[i].keep = open[i].keep
         /\ t[i].names = open[i].names /\ t[i].past = open[i].past
  BY <1>3, <1>4, ZenonT(30) DEF Complete
<1>8. OneDeclares(t)
  BY <1>1, <1>2, <1>5, <1>7, SameOneDeclares DEF Named
<1>9. Named(t, lv, locals)
  <2>1. Table(locals) /\ Len(t) \in 0 .. n
    BY <1>1, <1>2, <1>5 DEF Named
  <2> QED
    BY <1>1, <1>2, <1>5, <1>7, <1>8, <2>1, NamedPart
<1>10. lv[Len(t)] = local_count
  BY <1>1, <1>2, <1>5
<1> HIDE DEF lv
<1> QED
  BY <1>6, <1>9, <1>10, Witnessed

LEMMA AssignNamed ==
    ASSUME NInv, Right, Going, NEW x, NEW t, NEW declared, Assign(x, t, declared), Going'
    PROVE  NowNamed'
<1> DEFINE n == Len(open)
           r == resolve_local(x)
           type == IF declared = "no" THEN t ELSE declared
           k == IF r = NoSlot THEN local_count ELSE r
<1>1. PICK lev \in [1 .. n -> 0 .. MAX_LOCALS] :
        Named(open, lev, locals) /\ lev[n] = local_count
  BY Leveled DEF NowNamed
<1>2. /\ Constructs(open) /\ Rooted(open) /\ n \in Nat \ {0} /\ n \in 1 .. n
      /\ Running \in 1 .. n /\ Table(locals)
  BY <1>1, Leveled, RunningFacts DEF Running, Named
<1>3. local_count \in 0 .. MAX_LOCALS /\ local_count \in Nat
  BY <1>1, <1>2, ScopesAssumption
<1>4. CASE \E message, wrong : Check(message, wrong)
  BY <1>4, CheckNamed
<1>5. CASE /\ r = NoSlot => ~Full /\ add_local(x, type)
           /\ r # NoSlot => UNCHANGED <<locals, local_count>>
           /\ open' = IF Visible(x) THEN Stored(x)
                      ELSE Declare(open, Block(open), Variables(x, k, type))
  <2>1. CASE Visible(x)
    <3>1. PICK i : i \in Declaring(x)
      BY <2>1 DEF Visible
    <3>2. /\ open[i].names[x].slot \in 0 .. local_count - 1
          /\ locals[open[i].names[x].slot].name = x
      BY <1>1, <3>1, VisibleFacts
    <3>3. r # NoSlot
      BY <1>3, <3>2, Resolved
    <3> QED
      BY <1>5, <2>1, <3>3, StoredNamed
  <2>2. CASE ~Visible(x)
    <3>1. MayDeclare(open)
      BY <2>2 DEF Assign
    <3>2. \A i \in FunctionOf(open) .. n - 1 : x \notin DOMAIN open[i].names
      <4>1. Declaring(x) = {}
        BY <2>2 DEF Visible
      <4>2. \A i \in FunctionOf(open) .. n - 1 : i \in Running .. n
        BY <1>2 DEF Running
      <4> QED
        BY <4>1, <4>2 DEF Declaring
    <3>3. open' = Declare(open, Block(open), Variables(x, k, type))
      BY <1>5, <2>2
    <3>4. CASE r = NoSlot
      <4> DEFINE U == [locals EXCEPT ![local_count] = Local(x, type)]
      <4>1. locals' = U /\ local_count' = local_count + 1 /\ k = local_count
        BY <1>5, <3>4 DEF add_local
      <4>2. local_count \in Slots
        <5>1. local_count # MAX_LOCALS
          BY <1>5, <3>4 DEF Full
        <5> HIDE DEF U, type, k, r
        <5> QED
          BY <1>3, <5>1, ScopesAssumption DEF Slots
      <4>3. /\ Table(U) /\ U[local_count].name = x
            /\ \A m \in Slots \ {local_count} : U[m].name = locals[m].name
        <5>1. U = WithEntry(locals, local_count, x, type)
          BY DEF WithEntry
        <5> HIDE DEF U, type
        <5> QED
          BY <1>2, <4>2, <5>1, EntryNames
      <4> HIDE DEF U, type, k, r
      <4> QED
        BY <1>1, <1>2, <3>1, <3>2, <3>3, <4>1, <4>2, <4>3, DeclaresNamed
    <3>5. CASE r # NoSlot
      <4>1. /\ r \in 0 .. local_count - 1 /\ locals[r].name = x
            /\ \A m \in r + 1 .. local_count - 1 : locals[m].name # x
        BY <1>3, <3>5, Resolved
      <4>2. k = r /\ locals' = locals /\ local_count' = local_count
        BY <1>5, <3>5
      <4> HIDE DEF type, k, r
      <4>3. k \in Slots /\ k < local_count
        BY <1>3, <4>1, <4>2, ScopesAssumption DEF Slots
      <4> QED
        BY <1>1, <1>2, <3>1, <3>2, <3>3, <4>1, <4>2, <4>3, DeclaresNamed
    <3> QED
      BY <3>4, <3>5
  <2> QED
    BY <2>1, <2>2
<1> QED
  BY <1>4, <1>5 DEF Assign

-----------------------------------------------------------------------------
(* Functions with captures and parameters *)

\* The function c gets the first N entries of the table, with the names name.
Calls(s, lev, T, N, name, c, U) ==
    /\ Named(s, lev, T) /\ Constructs(s) /\ Len(s) \in Nat \ {0}
    /\ N \in 0 .. MAX_LOCALS
    /\ c.kind = "function" /\ c.keep = lev[Len(s)] /\ c.past = {}
    /\ N = 0 => c.names = NothingDeclared
    /\ N # 0 => Bare(s, Len(s))
    /\ Table(U)
    /\ \A k \in Slots : U[k].name = IF k < N THEN name[k + 1] ELSE T[k].name
    /\ DOMAIN c.names = {name[i] : i \in 1 .. N}
    /\ \A x \in DOMAIN c.names : \E j \in 1 .. N :
         /\ c.names[x].slot = j - 1 /\ name[j] = x
         /\ \A m \in j + 1 .. N : name[m] # x

LEMMA OpensFunction ==
    ASSUME NEW s, NEW lev, NEW T, NEW N, NEW name, NEW c, NEW U,
           Calls(s, lev, T, N, name, c, U),
           open' = Append(s, c), local_count' = N, locals' = U
    PROVE  NowNamed'
<1> USE DEF Calls
<1> DEFINE n == Len(s)  t == Append(s, c)
           lv == Over(lev, t, N)
<1>1. Len(t) = n + 1 /\ (\A i \in 1 .. n : t[i] = s[i]) /\ t[n + 1] = c
  BY Appended
<1>2. open' = t
  OBVIOUS
<1> HIDE DEF t
<1>3. OneDeclares(t)
  <2>1. N = 0 => Empty(t[n + 1])
    BY <1>1 DEF Empty
  <2>2. N # 0 => \A i \in 1 .. n : Empty(s[i])
    BY DEF Bare, Empty
  <2>3. OneDeclares(s)
    BY DEF Named
  <2> QED
    BY <1>1, <2>1, <2>2, <2>3, OneDeclaresPush
<1>4. N \in Nat /\ MAX_LOCALS \in Nat /\ \A j \in 1 .. N : j - 1 \in Slots
  BY ScopesAssumption DEF Slots
<1>5. Fits(c, lev[n], N, U)
  <2>1. ASSUME NEW x \in DOMAIN c.names
        PROVE  /\ c.names[x].slot \in 0 .. N - 1
               /\ U[c.names[x].slot].name = x
               /\ \A k \in c.names[x].slot + 1 .. N - 1 : U[k].name # x
    <3>1. PICK j \in 1 .. N : /\ c.names[x].slot = j - 1 /\ name[j] = x
                              /\ \A m \in j + 1 .. N : name[m] # x
      OBVIOUS
    <3>2. j - 1 \in Slots /\ j - 1 \in 0 .. N - 1 /\ j - 1 < N /\ (j - 1) + 1 = j
      BY <1>4
    <3>3. U[j - 1].name = x
      BY <3>1, <3>2
    <3>4. ASSUME NEW k \in (j - 1) + 1 .. N - 1
          PROVE  U[k].name # x
      <4>1. k + 1 \in j + 1 .. N /\ k + 1 \in 1 .. N /\ k \in Slots /\ k < N
        BY <1>4 DEF Slots
      <4>2. U[k].name = name[k + 1]
        BY <4>1
      <4> QED
        BY <3>1, <4>1, <4>2
    <3> QED
      BY <3>1, <3>2, <3>3, <3>4
  <2> QED
    BY <2>1 DEF Fits
<1>6. DOMAIN c.names = {} => \A k \in Slots : U[k].name = T[k].name
  <2>1. ASSUME DOMAIN c.names = {}, NEW k \in Slots
        PROVE  U[k].name = T[k].name
    <3>1. ~ (N >= 1)
      <4>1. N >= 1 => 1 \in 1 .. N
        BY <1>4
      <4>2. 1 \in 1 .. N => name[1] \in {name[i] : i \in 1 .. N}
        OBVIOUS
      <4>3. {name[i] : i \in 1 .. N} = {}
        BY <2>1
      <4> QED
        BY <4>1, <4>2, <4>3
    <3>2. ~ (k < N)
      BY <1>4, <3>1 DEF Slots
    <3> QED
      BY <3>2
  <2> QED
    BY <2>1
<1>7. c.kind \in Blocks
  BY DEF Blocks
<1>8. Pushes(s, lev, T, t, c, N, U)
  BY <1>1, <1>3, <1>5, <1>6, <1>7 DEF Pushes
<1>9. Named(t, lv, U)
  BY <1>8, NamedPush
<1>10. lv[Len(t)] = N
  BY <1>1 DEF Over
<1> HIDE DEF lv
<1> QED
  BY <1>2, <1>9, <1>10, Witnessed

\* Two lists, one behind the other.
LEMMA Joined ==
    ASSUME NEW p \in Nat, NEW q \in Nat, NEW a, NEW b,
           a = [i \in 1 .. p |-> a[i]], b = [i \in 1 .. q |-> b[i]]
    PROVE  /\ Len(a \o b) = p + q /\ DOMAIN (a \o b) = 1 .. p + q
           /\ \A i \in 1 .. p : (a \o b)[i] = a[i]
           /\ \A i \in 1 .. q : (a \o b)[p + i] = b[i]
<1>1. a \in Seq(ToSet(a)) /\ b \in Seq(ToSet(b)) /\ Len(a) = p /\ Len(b) = q
  BY IsSequence
<1> DEFINE S == ToSet(a) \cup ToSet(b)
<1>2. a \in Seq(S) /\ b \in Seq(S)
  BY <1>1, SeqMonotonic
<1> HIDE DEF S
<1>3. a \o b \in Seq(S) /\ Len(a \o b) = p + q
  BY <1>1, <1>2, ConcatProperties
<1>4. \A i \in 1 .. p + q : (a \o b)[i] = IF i <= p THEN a[i] ELSE b[i - p]
  BY <1>1, <1>2, ConcatProperties
<1>5. \A i \in 1 .. q : p + i \in 1 .. p + q /\ ~ (p + i <= p) /\ (p + i) - p = i
  OBVIOUS
<1> QED
  BY <1>3, <1>4, <1>5

LEMMA Listed ==
    ASSUME NEW S, NEW s \in Lists(S)
    PROVE  \E p \in Nat : s = [i \in 1 .. p |-> s[i]] /\ DOMAIN s = 1 .. p
<1>1. PICK p \in 0 .. MaxList : s \in [1 .. p -> S]
  BY DEF Lists
<1> QED
  BY <1>1, ScopesAssumption

LEMMA BeginFunctionNamed ==
    ASSUME NInv, Right, Going, NEW captures \in Lists(Names), NEW params \in Params,
           BeginFunction(captures, params), Going'
    PROVE  NowNamed'
<1> DEFINE n == Len(open)
           found == [i \in DOMAIN captures |-> resolve_local(captures[i])]
           types == [i \in DOMAIN captures |-> Local(captures[i], locals[found[i]].type)]
           others == [i \in DOMAIN params |-> Local(params[i].name, params[i].type)]
           entries == types \o others
           meant == [i \in DOMAIN captures |-> Variable(captures[i]).type]
                    \o [i \in DOMAIN params |-> params[i].type]
           pnames == [i \in DOMAIN params |-> params[i].name]
           name == captures \o pnames
           at(x) == Max({i \in DOMAIN name : name[i] = x})
           new == [x \in Range(name) |-> [slot |-> at(x) - 1, type |-> meant[at(x)]]]
           U == [i \in Slots |-> IF i < Len(entries) THEN entries[i + 1] ELSE locals[i]]
           b == [Construct("function") EXCEPT !.keep = local_count]
           c == [b EXCEPT !.names = new]
           N == Len(name)
<1>1. PICK lev \in [1 .. n -> 0 .. MAX_LOCALS] :
        Named(open, lev, locals) /\ lev[n] = local_count
  BY Leveled DEF NowNamed
<1>2. Constructs(open) /\ n \in Nat \ {0} /\ Table(locals)
  BY <1>1, Leveled DEF Named
<1>3. CASE \E message, wrong : Check(message, wrong)
  BY <1>3, CheckNamed
<1>4. CASE /\ N <= MAX_LOCALS
           /\ name # <<>> => Bare(open, n) \/ "nested_names" \in features
           /\ locals' = U /\ local_count' = Len(entries)
           /\ open' = Append(open, [Construct("function") EXCEPT
                                       !.keep = local_count, !.names = new])
  <2>1. PICK p \in Nat : captures = [i \in 1 .. p |-> captures[i]] /\ DOMAIN captures = 1 .. p
    BY Listed
  <2>2. PICK q \in Nat : DOMAIN params = 1 .. q
    <3>1. params \in Lists([name : Names, type : program.types])
      BY DEF Params
    <3> QED
      BY <3>1, Listed
  <2>3. /\ types = [i \in 1 .. p |-> types[i]] /\ others = [i \in 1 .. q |-> others[i]]
        /\ pnames = [i \in 1 .. q |-> pnames[i]]
        /\ \A i \in 1 .. p : types[i] = Local(captures[i], types[i].type)
        /\ \A i \in 1 .. q : others[i] = Local(pnames[i], others[i].type)
    BY <2>1, <2>2 DEF Local
  <2> HIDE DEF types, others, pnames, meant, found
  <2>4. /\ Len(entries) = p + q
        /\ \A i \in 1 .. p : entries[i] = types[i]
        /\ \A i \in 1 .. q : entries[p + i] = others[i]
    BY <2>3, Joined
  <2>5. /\ N = p + q /\ DOMAIN name = 1 .. N
        /\ \A i \in 1 .. p : name[i] = captures[i]
        /\ \A i \in 1 .. q : name[p + i] = pnames[i]
    BY <2>1, <2>3, Joined
  <2> HIDE DEF entries, name, N
  <2>6. ASSUME NEW i \in 1 .. N
        PROVE  \E t : entries[i] = Local(name[i], t)
    <3>1. CASE i \in 1 .. p
      BY <2>3, <2>4, <2>5, <3>1
    <3>2. CASE i \notin 1 .. p
      <4>1. PICK j \in 1 .. q : i = p + j
        <5>1. i - p \in 1 .. q /\ i = p + (i - p)
          BY <2>5, <3>2
        <5> QED
          BY <5>1
      <4> QED
        BY <2>3, <2>4, <2>5, <4>1
    <3> QED
      BY <3>1, <3>2
  <2>7. N \in 0 .. MAX_LOCALS /\ N \in Nat /\ Len(entries) = N
    BY <1>4, <2>4, <2>5, ScopesAssumption
  <2>8. /\ Table(U)
        /\ \A k \in Slots : U[k].name = IF k < N THEN name[k + 1] ELSE locals[k].name
    <3>1. ASSUME NEW k \in Slots
          PROVE  /\ U[k] = [name |-> U[k].name, type |-> U[k].type, guard |-> U[k].guard]
                 /\ U[k].name = IF k < N THEN name[k + 1] ELSE locals[k].name
      <4>1. CASE k < N
        <5>1. k + 1 \in 1 .. N
          BY <2>7, <4>1 DEF Slots
        <5>2. U[k] = entries[k + 1]
          BY <2>7, <4>1
        <5>3. PICK t : U[k] = Local(name[k + 1], t)
          BY <2>6, <5>1, <5>2
        <5> HIDE DEF U
        <5> QED
          BY <4>1, <5>3 DEF Local
      <4>2. CASE ~ (k < N)
        BY <1>2, <2>7, <4>2 DEF Table
      <4> QED
        BY <4>1, <4>2
    <3>2. U = [k \in Slots |-> U[k]]
      OBVIOUS
    <3> HIDE DEF U
    <3> QED
      BY <3>1, <3>2 DEF Table
  <2>9. DOMAIN new = {name[i] : i \in 1 .. N}
    BY <2>5 DEF Range
  <2>10. ASSUME NEW x \in DOMAIN new
         PROVE  \E j \in 1 .. N : /\ new[x].slot = j - 1 /\ name[j] = x
                                  /\ \A m \in j + 1 .. N : name[m] # x
    <3> DEFINE S == {i \in DOMAIN name : name[i] = x}
               j == Max(S)
    <3>1. S \subseteq 1 .. N /\ S # {} /\ 1 \in Int /\ N \in Int
      BY <2>5, <2>7, <2>9
    <3>2. new[x].slot = j - 1
      OBVIOUS
    <3>3. j \in S /\ \A y \in S : j >= y
      <4> HIDE DEF S
      <4> QED
        BY <3>1, MaxOf
    <3> HIDE DEF j, new
    <3>4. j \in 1 .. N /\ name[j] = x
      BY <2>5, <3>3
    <3>5. ASSUME NEW m \in j + 1 .. N, name[m] = x
          PROVE  FALSE
      <4>1. m \in S /\ m > j
        BY <2>5, <2>7, <3>4, <3>5
      <4> QED
        BY <2>7, <3>3, <3>4, <4>1
    <3> QED
      BY <3>2, <3>4, <3>5
  <2>11. N = 0 => new = NothingDeclared
    BY <2>5, <2>7 DEF Range, NothingDeclared
  <2>12. N # 0 => Bare(open, n)
    BY <1>4, <2>5, <2>7, RightFacts
  <2>13. c.kind = "function" /\ c.keep = local_count /\ c.past = {} /\ c.names = new
    <3>1. Complete(b) /\ Empty(b) /\ b.kind = "function" /\ b.keep = local_count
      BY EmptyWithKeep, ZenonT(30)
    <3> HIDE DEF b, new
    <3> QED
      BY <3>1 DEF Complete, Empty
  <2>14. open' = Append(open, c) /\ local_count' = N /\ locals' = U
    BY <1>4, <2>7
  <2> HIDE DEF c, new, U
  <2>15. /\ N = 0 => c.names = NothingDeclared
         /\ DOMAIN c.names = {name[i] : i \in 1 .. N}
         /\ \A x \in DOMAIN c.names : \E j \in 1 .. N :
              /\ c.names[x].slot = j - 1 /\ name[j] = x
              /\ \A m \in j + 1 .. N : name[m] # x
    BY <2>9, <2>10, <2>11, <2>13
  <2>16. Calls(open, lev, locals, N, name, c, U)
    BY <1>1, <1>2, <2>7, <2>8, <2>12, <2>13, <2>15 DEF Calls
  <2> QED
    BY <2>14, <2>16, OpensFunction
<1> QED
  BY <1>3, <1>4 DEF BeginFunction

-----------------------------------------------------------------------------
(* The invariant *)

LEMMA InitNamed ==
    ASSUME Init
    PROVE  NInv
<1>1. IInv
  BY InitInv
<1> DEFINE c == Construct("function")
           lev == [i \in 1 .. 1 |-> 0]
<1>2. Empty(c) /\ c.kind = "function" /\ c.names = NothingDeclared
  BY EmptyConstruct DEF Empty
<1>3. open = <<c>> /\ local_count = 0 /\ locals \in [Slots -> Entries]
  BY ScopesAssumption DEF Init
<1> HIDE DEF c
<1>4. Len(open) = 1 /\ open[1] = c /\ \A i \in 1 .. Len(open) : i = 1
  BY <1>3
<1>5. Table(locals)
  BY <1>3 DEF Table, Entries
<1>6. DOMAIN open[1].names = {}
  BY <1>2, <1>4 DEF NothingDeclared
<1>7. lev \in [1 .. Len(open) -> 0 .. MAX_LOCALS] /\ lev[Len(open)] = 0
  BY <1>4, ScopesAssumption
<1> HIDE DEF lev
<1>8. Kinds(open) /\ Plain(open)
  BY <1>2, <1>4, <1>6 DEF Kinds, Plain, Blocks
<1>9. Levels(open, lev)
  BY <1>4, <1>7 DEF Levels
<1>10. Placed(open, lev, locals) /\ Shadowed(open) /\ Latest(open, lev, locals)
  BY <1>4, <1>6 DEF Placed, Shadowed, Latest
<1>11. OneDeclares(open)
  BY <1>2, <1>4 DEF OneDeclares
<1>12. NowNamed
  BY <1>3, <1>5, <1>7, <1>8, <1>9, <1>10, <1>11 DEF NowNamed, Named
<1> QED
  BY <1>1, <1>12 DEF NInv

\* A jump changes no names.
LEMMA JumpNamed ==
    ASSUME NInv, Right, Going, Break \/ Continue, Going'
    PROVE  NowNamed'
<1> DEFINE n == Len(open)
<1>1. PICK lev \in [1 .. n -> 0 .. MAX_LOCALS] :
        Named(open, lev, locals) /\ lev[n] = local_count
  BY Leveled DEF NowNamed
<1>2. Constructs(open) /\ n \in Nat \ {0} /\ n \in 1 .. n
  BY Leveled
<1>3. CASE \E message, wrong : Check(message, wrong)
  BY <1>3, CheckNamed
<1>4. CASE /\ UNCHANGED <<locals, local_count>>
           /\ \E l, e : open' \in {[open EXCEPT ![l].exits = e], [open EXCEPT ![l].again = e]}
  <2> DEFINE t == open'
  <2>1. PICK l, e : t \in {[open EXCEPT ![l].exits = e], [open EXCEPT ![l].again = e]}
    BY <1>4
  <2>2. DOMAIN open = 1 .. n /\ \A i \in 1 .. n : Complete(open[i])
    BY <1>2 DEF Constructs
  <2>3. /\ t = [i \in 1 .. n |-> t[i]]
        /\ \A i \in 1 .. n : \/ t[i] = open[i]
                             \/ t[i] = [open[i] EXCEPT !.exits = e]
                             \/ t[i] = [open[i] EXCEPT !.again = e]
    BY <2>1, <2>2
  <2> HIDE DEF t
  <2>4. \A i \in 1 .. n :
           /\ t[i].kind = open[i].kind /\ t[i].keep = open[i].keep
           /\ t[i].names = open[i].names /\ t[i].past = open[i].past
    BY <2>2, <2>3 DEF Complete
  <2>5. Len(t) = n
    BY <1>2, <2>3, IsSequence
  <2>6. OneDeclares(t)
    BY <1>1, <1>2, <2>4, <2>5, SameOneDeclares DEF Named
  <2> DEFINE lv == [i \in 1 .. Len(t) |-> lev[i]]
  <2>7. Named(t, lv, locals)
    <3>1. Table(locals) /\ Len(t) \in 0 .. n
      BY <1>1, <1>2, <2>5 DEF Named
    <3> QED
      BY <1>1, <1>2, <2>4, <2>5, <2>6, <3>1, NamedPart
  <2>8. lv[Len(t)] = local_count
    BY <1>1, <1>2, <2>5
  <2> HIDE DEF lv
  <2>9. open' = t /\ locals' = locals /\ local_count' = local_count
    BY <1>4 DEF t
  <2> QED
    BY <2>7, <2>8, <2>9, Witnessed
<1> QED
  BY <1>3, <1>4 DEF Break, Continue

\* No step goes on with another program, or after an error.
LEMMA Continues ==
    ASSUME Next
    PROVE  (Going \/ Ended) /\ program' = program
<1>1. ASSUME NEW x, \/ \E called : Use(x, called)
                    \/ Unwrap(x)
                    \/ \E t, declared : Assign(x, t, declared)
                    \/ EnterCatch(x)
      PROVE  Going /\ program' = program
  <2>1. ASSUME NEW called, Use(x, called)
        PROVE  Going /\ program' = program
    BY <2>1 DEF Use, Check
  <2>2. CASE Unwrap(x)
    BY <2>2 DEF Unwrap, Check
  <2>3. ASSUME NEW t, NEW declared, Assign(x, t, declared)
        PROVE  Going /\ program' = program
    BY <2>3 DEF Assign, Check
  <2>4. CASE EnterCatch(x)
    BY <2>4 DEF EnterCatch, Check
  <2> QED
    BY <1>1, <2>1, <2>2, <2>3, <2>4
<1>2. ASSUME NEW captures, NEW params, BeginFunction(captures, params)
      PROVE  Going /\ program' = program
  BY <1>2 DEF BeginFunction, Check
<1>3. ASSUME NEW x, \/ EndFunction(x) \/ EnterThen(x) \/ EnterLoop(x)
                    \/ \E binding, t : EnterArm(x, binding, t)
      PROVE  Going /\ program' = program
  <2>1. CASE EndFunction(x)
    BY <2>1 DEF EndFunction, Check
  <2>2. CASE EnterThen(x) \/ EnterLoop(x)
    BY <2>2 DEF EnterThen, EnterLoop, MayTest
  <2>3. ASSUME NEW binding, NEW t, EnterArm(x, binding, t)
        PROVE  Going /\ program' = program
    BY <2>3 DEF EnterArm, MayTest, Check
  <2> QED
    BY <1>3, <2>1, <2>2, <2>3
<1>4. BeginCall \/ EndCall \/ EnterElse \/ LeaveBranch \/ LeaveLoop \/ LeaveArm
      \/ EnterTry \/ LeaveCatch => Going /\ program' = program
  BY DEF BeginCall, EndCall, EnterElse, LeaveBranch, LeaveLoop, LeaveArm, EnterTry,
         LeaveCatch, MayTest
<1>5. Break \/ Continue => Going /\ program' = program
  BY DEF Break, Continue, Check
<1>6. Ended => program' = program
  BY DEF Ended, vars
<1> QED
  BY <1>1, <1>2, <1>3, <1>4, <1>5, <1>6 DEF Next

LEMMA NextNamed ==
    ASSUME NInv, [Next]_vars
    PROVE  NInv'
<1>1. IInv'
  BY NextInv DEF NInv
<1>2. CASE UNCHANGED vars
  <2>1. /\ Right' <=> Right
        /\ Going' <=> Going
    BY <1>2 DEF vars, Right, features, Going
  <2>2. Right /\ Going => NowNamed'
    BY <1>2, Stays DEF vars, NInv
  <2> QED
    BY <1>1, <2>1, <2>2 DEF NInv
<1>3. CASE Next
  <2>1. program' = program /\ (Going \/ Ended)
    BY <1>3, Continues
  <2>2. Right' <=> Right
    BY <2>1 DEF Right, features
  <2>3. ASSUME Right, Going'
        PROVE  NowNamed'
    <3>1. CASE Ended
      <4>1. NInv'
        BY <1>2, <3>1 DEF Ended
      <4> QED
        BY <2>2, <2>3, <4>1 DEF NInv
    <3>2. CASE Going
      <4>1. ASSUME NEW x, \/ \E called : Use(x, called)
                          \/ Unwrap(x)
            PROVE  NowNamed'
        <5>1. \E message, wrong : Check(message, wrong)
          BY <4>1 DEF Use, Unwrap
        <5> QED
          BY <2>3, <3>2, <5>1, CheckNamed
      <4>2. ASSUME NEW x, \E t, declared : Assign(x, t, declared)
            PROVE  NowNamed'
        BY <2>3, <3>2, <4>2, AssignNamed
      <4>3. ASSUME NEW x, EnterCatch(x)
            PROVE  NowNamed'
        BY <2>3, <3>2, <4>3, EnterCatchNamed
      <4>4. CASE BeginCall
        BY <2>3, <3>2, <4>4, BeginCallNamed
      <4>5. CASE \/ EndCall \/ LeaveBranch \/ LeaveLoop \/ LeaveArm \/ LeaveCatch
        BY <2>3, <3>2, <4>5, LeaveNamed
      <4>6. ASSUME NEW captures \in Lists(Names), NEW params \in Params,
                   BeginFunction(captures, params)
            PROVE  NowNamed'
        BY <2>3, <3>2, <4>6, BeginFunctionNamed
      <4>7. ASSUME NEW name, EndFunction(name)
            PROVE  NowNamed'
        <5>1. CASE name = NoName
          BY <2>3, <3>2, <4>7, <5>1, LeaveNamed
        <5>2. CASE name # NoName
          BY <2>3, <3>2, <4>7, <5>2, EndFunctionNamed
        <5> QED
          BY <5>1, <5>2
      <4>8. ASSUME NEW x, EnterThen(x) \/ EnterLoop(x)
            PROVE  NowNamed'
        BY <2>3, <3>2, <4>8, EnterBlockNamed
      <4>9. ASSUME NEW x, NEW binding, NEW t, EnterArm(x, binding, t)
            PROVE  NowNamed'
        <5>1. CASE binding = NoName
          BY <2>3, <3>2, <4>9, <5>1, EnterBlockNamed
        <5>2. CASE binding # NoName
          BY <2>3, <3>2, <4>9, <5>2, EnterArmNamed
        <5> QED
          BY <5>1, <5>2
      <4>10. CASE EnterElse
        BY <2>3, <3>2, <4>10, EnterElseNamed
      <4>11. CASE EnterTry
        BY <2>3, <3>2, <4>11, EnterBlockNamed
      <4>12. CASE Break \/ Continue
        BY <2>3, <3>2, <4>12, JumpNamed
      <4> QED
        BY <1>3, <3>1, <4>1, <4>2, <4>3, <4>4, <4>5, <4>6, <4>7, <4>8, <4>9, <4>10,
           <4>11, <4>12 DEF Next
    <3> QED
      BY <2>1, <3>1, <3>2
  <2> QED
    BY <1>1, <2>2, <2>3 DEF NInv
<1> QED
  BY <1>2, <1>3

-----------------------------------------------------------------------------
(* What follows from it *)

\* resolve_local finds the entry of the innermost declaration: a later entry of
\* that name would be of an inner block.
LEMMA FoundHere ==
    ASSUME NInv, Right, Going, ~InArguments, NEW x, Visible(x)
    PROVE  resolve_local(x) = Variable(x).slot
<1> DEFINE n == Len(open)
           D == Declaring(x)
           d == Declared(x)
           k == Variable(x).slot
           r == resolve_local(x)
<1>1. PICK lev \in [1 .. n -> 0 .. MAX_LOCALS] :
        Named(open, lev, locals) /\ lev[n] = local_count
  BY Leveled DEF NowNamed
<1>2. /\ n \in Nat \ {0} /\ n \in 1 .. n /\ Running \in 1 .. n
      /\ Last(open) = open[n]
  BY Leveled, RunningFacts DEF Running, Last
<1>3. d \in D /\ \A i \in D : d >= i
  <2>1. D \subseteq Running .. n /\ D # {} /\ Running \in Int /\ n \in Int
    BY <1>2 DEF Declaring, Visible
  <2> HIDE DEF D, d
  <2>2. Max(D) \in D /\ \A i \in D : Max(D) >= i
    BY <2>1, MaxOf
  <2> QED
    BY <2>2 DEF Declared, D, d
<1> HIDE DEF d
<1>4. /\ d \in 1 .. n /\ d >= Running /\ x \in DOMAIN open[d].names
      /\ Together(open, d, n) /\ local_count \in Nat
      /\ open[d].names[x].slot \in 0 .. local_count - 1
      /\ locals[open[d].names[x].slot].name = x
  BY <1>1, <1>3, VisibleFacts
<1>5. k = open[d].names[x].slot
  BY DEF Variable, d
<1>6. ~Hidden(open, d, n, x)
  <2>1. ASSUME NEW m \in d + 1 .. n, x \in DOMAIN open[m].names
        PROVE  FALSE
    <3>1. m \in Running .. n /\ m > d
      BY <1>2, <1>4
    <3>2. m \in D
      BY <2>1, <3>1 DEF Declaring
    <3> QED
      BY <1>3, <1>4, <3>1, <3>2
  <2> QED
    BY <2>1 DEF Hidden
<1>7. \A m \in k + 1 .. local_count - 1 : locals[m].name # x
  <2>1. open[n].kind # "call" /\ d <= n
    BY <1>2, <1>4 DEF InArguments
  <2> QED
    BY <1>1, <1>2, <1>4, <1>5, <1>6, <2>1 DEF Named, Latest
<1>8. k \in 0 .. local_count - 1 /\ locals[k].name = x
  BY <1>4, <1>5
<1>9. /\ r \in 0 .. local_count - 1 /\ locals[r].name = x
      /\ \A m \in r + 1 .. local_count - 1 : locals[m].name # x
  BY <1>4, <1>8, Resolved
<1> HIDE DEF k, r
<1>10. ~ (k \in r + 1 .. local_count - 1) /\ ~ (r \in k + 1 .. local_count - 1)
  BY <1>7, <1>8, <1>9
<1>11. r = k
  BY <1>4, <1>8, <1>9, <1>10
<1> QED
  BY <1>11 DEF k, r

\* Outside of the arguments of computed calls a name stands for the slot of the
\* variable that the text means (resolve_local, add_local and everything that
\* changes local_count), in programs without the constructs in Misleads.
THEOREM NamesAreReached == Spec => []NamesReach
<1>1. Init => NInv
  BY InitNamed
<1>2. NInv /\ [Next]_vars => NInv'
  BY NextNamed
<1>3. NInv => NamesReach
  BY FoundHere DEF Right, NamesReach, NamesReachTheirVariables
<1> QED
  BY <1>1, <1>2, <1>3, PTL DEF Spec

\* A call under way in the running function is kept above all its variables.
LEMMA KeptAbove ==
    ASSUME NInv, Right, Going, NEW lev, Named(open, lev, locals),
           lev[Len(open)] = local_count, NEW x, NEW i \in Declaring(x),
           NEW j \in Running .. Len(open), open[j].kind = "call"
    PROVE  open[i].names[x].slot # open[j].keep
<1> DEFINE n == Len(open)
<1>1. /\ n \in Nat \ {0} /\ Running \in 1 .. n /\ open[Running].kind = "function"
      /\ \A m \in Running + 1 .. n : open[m].kind # "function"
  BY Leveled, RunningFacts DEF Running
<1>2. /\ i \in 1 .. n /\ i >= Running /\ x \in DOMAIN open[i].names
      /\ open[i].names[x].slot \in 0 .. lev[i] - 1 /\ lev[i] \in Nat
  BY VisibleFacts
<1>3. j \in 2 .. n /\ j - 1 \in 1 .. n /\ j > Running /\ j \in 1 .. n
  BY <1>1
<1>4. open[j].keep = lev[j - 1]
  BY <1>3 DEF Named, Levels
<1>5. CASE i < j
  <2>1. Together(open, i, j - 1)
    <3>1. \A m \in i + 1 .. j - 1 : m \in Running + 1 .. n
      BY <1>1, <1>2, <1>3
    <3> QED
      BY <1>1, <3>1 DEF Together
  <2>2. lev[i] <= lev[j - 1]
    BY <1>2, <1>3, <1>5, <2>1 DEF Named, Levels
  <2>3. lev[j - 1] \in 0 .. MAX_LOCALS
    BY <1>3 DEF Named, Levels
  <2> QED
    BY <1>2, <1>4, <2>2, <2>3, ScopesAssumption
<1>6. CASE i >= j
  \* all constructs from j on are calls, which declare nothing
  <2> DEFINE S == {m \in j .. i : open[m].kind = "call"}
             l == Max(S)
  <2>1. S \subseteq j .. i /\ j \in S /\ j \in Int /\ i \in Int
    BY <1>2, <1>3, <1>6
  <2>2. l \in S /\ \A m \in S : l >= m
    <3>1. S # {}
      BY <2>1
    <3> HIDE DEF S
    <3> QED
      BY <2>1, <3>1, MaxOf
  <2> HIDE DEF l
  <2>3. l \in j .. i /\ open[l].kind = "call"
    BY <2>2
  <2>4. CASE l = i
    BY <1>2, <2>3, <2>4 DEF Named, Plain
  <2>5. CASE l # i
    <3>1. l + 1 \in 2 .. n /\ (l + 1) - 1 = l /\ l + 1 \in Running + 1 .. n /\ l + 1 \in j .. i
      BY <1>1, <1>2, <1>3, <2>3, <2>5
    <3>2. open[l + 1].kind \in {"call", "function"}
      BY <2>3, <3>1 DEF Named, Kinds
    <3>3. l + 1 \in S
      BY <1>1, <3>1, <3>2
    <3> QED
      BY <2>2, <2>3, <3>1, <3>3
  <2> QED
    BY <2>4, <2>5
<1> QED
  BY <1>2, <1>3, <1>5, <1>6

\* Two variables of the running function have different slots.
LEMMA SlotsDiffer ==
    ASSUME NInv, Right, Going, NEW lev, Named(open, lev, locals),
           lev[Len(open)] = local_count,
           NEW x, NEW i \in Declaring(x), NEW y, NEW j \in Declaring(y),
           x # y \/ i # j
    PROVE  open[i].names[x].slot # open[j].names[y].slot
<1> DEFINE n == Len(open)
<1>1. /\ n \in Nat \ {0} /\ Running \in 1 .. n
      /\ \A m \in Running + 1 .. n : open[m].kind # "function"
  BY Leveled, RunningFacts DEF Running
<1>2. /\ i \in 1 .. n /\ i >= Running /\ x \in DOMAIN open[i].names
      /\ open[i].names[x].slot \in 0 .. local_count - 1 /\ local_count \in Nat
      /\ locals[open[i].names[x].slot].name = x
  BY VisibleFacts
<1>3. /\ j \in 1 .. n /\ j >= Running /\ y \in DOMAIN open[j].names
      /\ open[j].names[y].slot \in 0 .. local_count - 1
      /\ locals[open[j].names[y].slot].name = y
  BY VisibleFacts
<1>4. CASE x # y
  BY <1>2, <1>3, <1>4
<1>5. ASSUME NEW p \in 1 .. n, NEW q \in 1 .. n, p >= Running, p < q,
             x \in DOMAIN open[p].names, x \in DOMAIN open[q].names
      PROVE  open[p].names[x].slot < open[q].names[x].slot
  <2>1. \A m \in p + 1 .. q : m \in Running + 1 .. n
    BY <1>1, <1>5
  <2>2. Together(open, p, q)
    BY <1>1, <2>1 DEF Together
  <2> QED
    BY <1>5, <2>2 DEF Named, Shadowed
<1>6. CASE x = y /\ i < j
  BY <1>2, <1>3, <1>5, <1>6
<1>7. CASE x = y /\ j < i
  BY <1>2, <1>3, <1>5, <1>7
<1> QED
  BY <1>2, <1>3, <1>4, <1>6, <1>7

\* Variables that live together, and the functions kept for calls under way,
\* have slots of their own, in programs without the constructs in Misleads.
THEOREM SlotsAreOwn == Spec => []OwnSlots
<1>1. Init => NInv
  BY InitNamed
<1>2. NInv /\ [Next]_vars => NInv'
  BY NextNamed
<1>3. ASSUME NInv
      PROVE  OwnSlots
  <2>1. SUFFICES ASSUME Right, Going
                 PROVE  OwnSlots
    BY DEF OwnSlots, Right
  <2> DEFINE n == Len(open)
             Live == UNION {{<<i, x>> : x \in DOMAIN open[i].names} : i \in Running .. n}
             SlotOf(v) == open[v[1]].names[v[2]].slot
             Kept == {open[i].keep : i \in {j \in Running .. n : open[j].kind = "call"}}
  <2>2. PICK lev \in [1 .. n -> 0 .. MAX_LOCALS] :
          Named(open, lev, locals) /\ lev[n] = local_count
    BY <1>3, <2>1, Leveled DEF NowNamed
  <2>3. ASSUME NEW v \in Live
        PROVE  v = <<v[1], v[2]>> /\ v[1] \in Declaring(v[2])
    <3>1. PICK i \in Running .. n : \E x \in DOMAIN open[i].names : v = <<i, x>>
      OBVIOUS
    <3> QED
      BY <3>1 DEF Declaring
  <2>4. ASSUME NEW v \in Live, NEW w \in Live, v # w
        PROVE  SlotOf(v) # SlotOf(w)
    <3>1. v[2] # w[2] \/ v[1] # w[1]
      BY <2>3, <2>4
    <3> QED
      BY <1>3, <2>1, <2>2, <2>3, <3>1, SlotsDiffer
  <2>5. ASSUME NEW v \in Live
        PROVE  SlotOf(v) < local_count /\ SlotOf(v) \notin Kept
    <3>1. v[1] \in Declaring(v[2])
      BY <2>3
    <3>2. SlotOf(v) \in 0 .. local_count - 1 /\ local_count \in Nat
      BY <1>3, <2>1, <2>2, <3>1, VisibleFacts
    <3>3. ASSUME NEW j \in Running .. n, open[j].kind = "call"
          PROVE  SlotOf(v) # open[j].keep
      BY <1>3, <2>1, <2>2, <3>1, <3>3, KeptAbove
    <3> QED
      BY <3>2, <3>3, SMTT(30)
  <2> QED
    BY <2>4, <2>5 DEF OwnSlots
<1> QED
  BY <1>1, <1>2, <1>3, PTL DEF Spec

-----------------------------------------------------------------------------
(* Types: no count is left below zero, no entry outside of its type *)

Bounded(c) ==
    /\ c.local \in Slots \cup {NoSlot}
    /\ c.was \in Variants \cup {"no"}
    /\ Len(c.exits) <= MAX_BREAKS

\* count is enough for what s will count back: low is what is left at least when
\* an element of s is the last one
Room(s, low, count) ==
    /\ low \in [1 .. Len(s) -> Nat]
    /\ \A j \in 2 .. Len(s) :
         /\ s[j].kind \in {"function", "arm"} => s[j].keep \in low[j - 1] .. MAX_LOCALS
         /\ s[j].kind \in {"catch", "call"} => low[j] = low[j - 1] + 1
         /\ s[j].kind \in {"then", "else", "loop", "try"} => low[j] = low[j - 1]
    /\ count \in low[Len(s)] .. MAX_LOCALS

WInv ==
    /\ IInv
    /\ locals \in [Slots -> Entries]
    /\ local_count \in 0 .. MAX_LOCALS
    /\ Len(open) <= MaxOpen
    /\ \A i \in 1 .. Len(open) : Bounded(open[i])
    /\ mistaken \in BOOLEAN
    /\ program \in Programs
    /\ Going => \E low \in [1 .. Len(open) -> Nat] : Room(open, low, local_count)

LEMMA Sized ==
    ASSUME WInv, Going
    PROVE  /\ Constructs(open) /\ Rooted(open) /\ Len(open) \in Nat \ {0}
           /\ Chain(open, current_loop)
           /\ local_count \in Nat /\ MAX_LOCALS \in Nat
           /\ Last(open) = open[Len(open)]
BY ScopesAssumption DEF WInv, IInv, Constructs, Rooted, Last

\* Another sequence of the same kinds, and maybe one local more.
LEMMA RoomFor ==
    ASSUME NEW s, Len(s) \in Nat, NEW low, NEW count, Room(s, low, count),
           NEW t, Len(t) = Len(s),
           \A i \in 1 .. Len(s) : t[i].kind = s[i].kind /\ t[i].keep = s[i].keep,
           NEW more \in count .. MAX_LOCALS, Len(s) >= 1
    PROVE  Room(t, low, more)
<1>1. low[Len(s)] \in Nat /\ MAX_LOCALS \in Nat /\ count \in low[Len(s)] .. MAX_LOCALS
  BY ScopesAssumption DEF Room
<1>2. more \in low[Len(t)] .. MAX_LOCALS
  BY <1>1
<1>3. \A j \in 2 .. Len(t) : j \in 2 .. Len(s) /\ j \in 1 .. Len(s)
  OBVIOUS
<1> QED
  BY <1>2, <1>3 DEF Room

LEMMA RoomPush ==
    ASSUME NEW s, Len(s) \in Nat \ {0}, NEW low, NEW count, Room(s, low, count),
           NEW t, NEW c, Len(t) = Len(s) + 1, \A i \in 1 .. Len(s) : t[i] = s[i],
           t[Len(s) + 1] = c,
           NEW v \in Nat, NEW after \in v .. MAX_LOCALS,
           c.kind \in {"function", "arm"} => c.keep = count,
           c.kind \in {"catch", "call"} => v = low[Len(s)] + 1,
           c.kind \in {"then", "else", "loop", "try"} => v = low[Len(s)]
    PROVE  Room(t, Over(low, t, v), after)
<1> DEFINE n == Len(s)  lw == Over(low, t, v)
<1>1. /\ n \in Nat /\ n >= 1 /\ Len(t) = n + 1 /\ n \in 1 .. n
      /\ low \in [1 .. n -> Nat] /\ count \in low[n] .. MAX_LOCALS
  BY DEF Room
<1>2. /\ lw \in [1 .. n + 1 -> Nat] /\ lw[n + 1] = v
      /\ \A i \in 1 .. n : lw[i] = low[i]
  BY <1>1 DEF Over
<1> HIDE DEF lw
<1>3. ASSUME NEW j \in 2 .. n + 1
      PROVE  /\ t[j].kind \in {"function", "arm"} => t[j].keep \in lw[j - 1] .. MAX_LOCALS
             /\ t[j].kind \in {"catch", "call"} => lw[j] = lw[j - 1] + 1
             /\ t[j].kind \in {"then", "else", "loop", "try"} => lw[j] = lw[j - 1]
  <2>1. CASE j = n + 1
    BY <1>1, <1>2, <2>1
  <2>2. CASE j # n + 1
    <3>1. j \in 2 .. n /\ j \in 1 .. n /\ j - 1 \in 1 .. n
      BY <1>1, <2>2
    <3>2. t[j] = s[j] /\ lw[j] = low[j] /\ lw[j - 1] = low[j - 1]
      BY <1>2, <3>1
    <3> QED
      BY <3>1, <3>2 DEF Room
  <2> QED
    BY <2>1, <2>2
<1> QED
  BY <1>1, <1>2, <1>3 DEF Room, lw

\* b is a, with what is past maybe changed
Likewise(a, b) ==
    /\ b.kind = a.kind /\ b.names = a.names /\ b.tests = a.tests /\ b.finds = a.finds
    /\ b.keep = a.keep /\ b.local = a.local /\ b.was = a.was
    /\ b.exits = a.exits /\ b.again = a.again

\* What is left when the last construct ends: its names may be past.
LEMMA LeftOver ==
    ASSUME NEW s, Constructs(s), Len(s) > 1, NEW t, NEW k, NEW p,
           t = Front(s) \/ t = [Front(s) EXCEPT ![k].past = p]
    PROVE  /\ Len(t) = Len(s) - 1 /\ t = [i \in 1 .. Len(s) - 1 |-> t[i]]
           /\ \A i \in 1 .. Len(s) - 1 : Likewise(s[i], t[i])
           /\ \A i \in 1 .. Len(s) - 1 :
                t[i].past = IF t # Front(s) /\ i = k THEN p ELSE s[i].past
<1> DEFINE n == Len(s) - 1
<1>1. n \in Nat /\ n \in 1 .. Len(s) /\ \A i \in 1 .. n : Complete(s[i]) /\ i \in 1 .. Len(s)
  BY DEF Constructs
<1>2. /\ Front(s) = [i \in 1 .. n |-> Front(s)[i]] /\ Len(Front(s)) = n
      /\ \A i \in 1 .. n : Front(s)[i] = s[i]
  BY <1>1 DEF Constructs, Front
<1> HIDE DEF n
<1>3. CASE t = Front(s)
  BY <1>2, <1>3 DEF n, Likewise
<1>4. CASE t # Front(s)
  <2>1. t = [Front(s) EXCEPT ![k].past = p]
    BY <1>4
  <2>2. t = [i \in 1 .. n |-> t[i]]
    BY <1>2, <2>1
  <2>3. Len(t) = n
    BY <1>1, <2>2, IsSequence
  <2>4. ASSUME NEW i \in 1 .. n
        PROVE  /\ Likewise(s[i], t[i])
               /\ t[i].past = IF i = k THEN p ELSE s[i].past
    <3>1. t[i] = IF i = k THEN [s[i] EXCEPT !.past = p] ELSE s[i]
      BY <1>2, <2>1
    <3> QED
      BY <1>1, <3>1 DEF Complete, Likewise
  <2> QED
    BY <1>4, <2>2, <2>3, <2>4 DEF n
<1> QED
  BY <1>3, <1>4

LEMMA CloseParts ==
    ASSUME Constructs(open), Len(open) > 1, NEW t, t \in {Front(open), Closed}
    PROVE  /\ Len(t) = Len(open) - 1
           /\ \A i \in 1 .. Len(open) - 1 : Likewise(open[i], t[i])
<1>1. PICK k, p : t = Front(open) \/ t = [Front(open) EXCEPT ![k].past = p]
  BY DEF Closed
<1> QED
  BY <1>1, LeftOver

LEMMA RoomClose ==
    ASSUME WInv, Going, Len(open) > 1, NEW t, t \in {Front(open), Closed},
           NEW count,
           Last(open).kind \in Blocks \cup {"call"},
           Last(open).kind \in {"function", "arm"} => count = Last(open).keep,
           Last(open).kind \in {"catch", "call"} => count = local_count - 1,
           Last(open).kind \in {"then", "else", "loop", "try"} => count = local_count
    PROVE  /\ Len(t) = Len(open) - 1 /\ Constructs(t) /\ Len(t) \in Nat \ {0}
           /\ \A i \in 1 .. Len(t) : Bounded(t[i])
           /\ \E low \in [1 .. Len(t) -> Nat] : Room(t, low, count)
<1> DEFINE n == Len(open) - 1
<1>1. /\ Constructs(open) /\ n + 1 = Len(open) /\ n \in Nat /\ n >= 1 /\ n \in 1 .. n
      /\ \A i \in 1 .. n : i \in 1 .. Len(open)
      /\ Last(open) = open[n + 1] /\ n + 1 \in 2 .. Len(open) /\ (n + 1) - 1 = n
      /\ MAX_LOCALS \in Nat
  BY Sized
<1>2. PICK low \in [1 .. Len(open) -> Nat] : Room(open, low, local_count)
  BY DEF WInv
<1>3. /\ Len(t) = n
      /\ \A i \in 1 .. n :
           /\ t[i].kind = open[i].kind /\ t[i].keep = open[i].keep
           /\ t[i].local = open[i].local /\ t[i].was = open[i].was
           /\ t[i].exits = open[i].exits
  <2>1. /\ Len(t) = Len(open) - 1
        /\ \A i \in 1 .. Len(open) - 1 : Likewise(open[i], t[i])
    BY <1>1, CloseParts
  <2> QED
    BY <2>1 DEF Likewise
<1>4. Constructs(t)
  BY ClosedFacts DEF WInv
<1>5. \A i \in 1 .. Len(t) : Bounded(t[i])
  BY <1>1, <1>3 DEF WInv, Bounded
<1> DEFINE lw == [i \in 1 .. n |-> low[i]]
<1>6. /\ lw \in [1 .. n -> Nat] /\ \A i \in 1 .. n : lw[i] = low[i]
      /\ low[n] \in Nat /\ low[n + 1] \in Nat
  BY <1>1, <1>2, SMTT(30)
<1> HIDE DEF lw
<1>7. count \in low[n] .. MAX_LOCALS
  <2>1. local_count \in low[n + 1] .. MAX_LOCALS
    BY <1>1, <1>2 DEF Room
  <2>2. CASE Last(open).kind \in {"function", "arm"}
    BY <1>1, <1>2, <2>2 DEF Room
  <2>3. CASE Last(open).kind \in {"catch", "call"}
    <3>1. low[n + 1] = low[n] + 1
      BY <1>1, <1>2, <2>3 DEF Room
    <3> QED
      BY <1>1, <1>6, <2>1, <2>3, <3>1
  <2>4. CASE Last(open).kind \in {"then", "else", "loop", "try"}
    <3>1. low[n + 1] = low[n]
      BY <1>1, <1>2, <2>4 DEF Room
    <3> QED
      BY <2>1, <2>4, <3>1
  <2> QED
    BY <2>2, <2>3, <2>4 DEF Blocks
<1>8. Room(t, lw, count)
  <2>1. ASSUME NEW j \in 2 .. n
        PROVE  /\ t[j].kind \in {"function", "arm"} => t[j].keep \in lw[j - 1] .. MAX_LOCALS
               /\ t[j].kind \in {"catch", "call"} => lw[j] = lw[j - 1] + 1
               /\ t[j].kind \in {"then", "else", "loop", "try"} => lw[j] = lw[j - 1]
    <3>1. j \in 2 .. Len(open) /\ j \in 1 .. n /\ j - 1 \in 1 .. n
      BY <1>1
    <3>2. /\ t[j].kind = open[j].kind /\ t[j].keep = open[j].keep
          /\ lw[j] = low[j] /\ lw[j - 1] = low[j - 1]
      BY <1>3, <1>6, <3>1
    <3> QED
      BY <1>2, <3>1, <3>2 DEF Room
  <2> QED
    BY <1>1, <1>3, <1>6, <1>7, <2>1 DEF Room
<1> QED
  BY <1>1, <1>3, <1>4, <1>5, <1>6, <1>8, SMTT(30)

-----------------------------------------------------------------------------
(* The steps, and the types *)

LEMMA Widened ==
    ASSUME WInv, IInv', program' = program, locals' \in [Slots -> Entries],
           mistaken' \in BOOLEAN, NEW t, open' = t, Len(t) \in Nat \ {0}, Len(t) <= MaxOpen,
           \A i \in 1 .. Len(t) : Bounded(t[i]),
           \E low \in [1 .. Len(t) -> Nat] : Room(t, low, local_count')
    PROVE  WInv'
<1>1. PICK low \in [1 .. Len(t) -> Nat] : Room(t, low, local_count')
  OBVIOUS
<1>2. low[Len(t)] \in Nat /\ local_count' \in low[Len(t)] .. MAX_LOCALS
  BY <1>1 DEF Room
<1>3. local_count' \in 0 .. MAX_LOCALS
  BY <1>2, ScopesAssumption
<1>4. Room(open', low, local_count')
  BY <1>1
<1>5. program' \in Programs
  BY DEF WInv
<1>6. \A i \in 1 .. Len(open') : Bounded(open'[i])
  OBVIOUS
<1>7. (\A i \in 1 .. Len(open) : Bounded(open[i]))'
  BY <1>6 DEF Bounded
<1>8. (\E lw \in [1 .. Len(open) -> Nat] : Room(open, lw, local_count))'
  BY <1>4, <1>1 DEF Room
<1> QED
  BY <1>3, <1>5, <1>7, <1>8 DEF WInv

LEMMA LocalEntry ==
    ASSUME NEW x \in Names, NEW t \in Types
    PROVE  Local(x, t) \in Entries
BY DEF Local, Entries

LEMMA EntryType ==
    ASSUME NEW T \in [Slots -> Entries], NEW k, NEW x \in Names, NEW t \in Types
    PROVE  /\ Local(x, t) \in Entries
           /\ [T EXCEPT ![k] = Local(x, t)] \in [Slots -> Entries]
BY DEF Local, Entries

LEMMA GuardType ==
    ASSUME NEW T \in [Slots -> Entries], NEW k, NEW g \in Variants \cup {"no"}
    PROVE  [T EXCEPT ![k].guard = g] \in [Slots -> Entries]
BY DEF Entries

LEMMA CheckTyped ==
    ASSUME WInv, Going, IInv', NEW message, NEW wrong \in BOOLEAN, Check(message, wrong)
    PROVE  WInv'
<1>1. program' = program /\ mistaken' \in BOOLEAN
  BY DEF Check, Judge
<1>2. CASE UNCHANGED <<locals, local_count, current_loop, open>>
  <2>1. /\ Len(open) \in Nat \ {0} /\ Len(open) <= MaxOpen
        /\ \A i \in 1 .. Len(open) : Bounded(open[i])
        /\ \E low \in [1 .. Len(open) -> Nat] : Room(open, low, local_count')
    BY <1>2, Sized DEF WInv
  <2>2. open' = open /\ locals' \in [Slots -> Entries]
    BY <1>2 DEF WInv
  <2> QED
    BY <1>1, <2>1, <2>2, Widened
<1>3. CASE /\ message # "none" \/ wrong
           /\ locals' = [i \in Slots |-> Unwritten] /\ local_count' = 0 /\ open' = <<>>
  <2>1. Unwritten \in Entries
    BY DEF Unwritten, Entries, Types
  <2>2. ~Going'
    BY <1>3 DEF Check, Judge, Going
  <2>3. Len(open') = 0
    BY <1>3
  <2>4. (\A i \in 1 .. Len(open) : Bounded(open[i]))'
    BY <2>3
  <2> QED
    BY <1>1, <1>3, <2>1, <2>2, <2>3, <2>4, ScopesAssumption DEF WInv
<1> QED
  BY <1>2, <1>3 DEF Check

\* A construct is opened, after what was open or after the end of a block.
LEMMA PushTyped ==
    ASSUME WInv, IInv', program' = program, mistaken' \in BOOLEAN,
           locals' \in [Slots -> Entries],
           NEW s, Constructs(s), Len(s) \in Nat \ {0}, Len(s) < MaxOpen,
           \A i \in 1 .. Len(s) : Bounded(s[i]),
           NEW count, \E low \in [1 .. Len(s) -> Nat] : Room(s, low, count),
           NEW c, Bounded(c), c.kind \in Blocks \cup {"call"}, open' = Append(s, c),
           c.kind \in {"function", "arm"} => c.keep = count,
           c.kind \in {"function", "arm"} => local_count' \in 0 .. MAX_LOCALS,
           c.kind \in {"catch", "call"} => local_count' = count + 1 /\ count # MAX_LOCALS,
           c.kind \in {"then", "else", "loop", "try"} => local_count' = count
    PROVE  WInv'
<1> DEFINE n == Len(s)
<1>1. PICK low \in [1 .. n -> Nat] : Room(s, low, count)
  OBVIOUS
<1> DEFINE v == IF c.kind \in {"function", "arm"} THEN 0
                ELSE IF c.kind \in {"catch", "call"} THEN low[n] + 1 ELSE low[n]
           t == Append(s, c)
<1>2. /\ n \in Nat /\ n >= 1 /\ n \in 1 .. n /\ low[n] \in Nat /\ MAX_LOCALS \in Nat
      /\ count \in low[n] .. MAX_LOCALS /\ MaxOpen \in Nat
  BY <1>1, ScopesAssumption DEF Room
<1>3. Len(t) = n + 1 /\ (\A i \in 1 .. n : t[i] = s[i]) /\ t[n + 1] = c
  BY Appended
<1>4. v \in Nat /\ local_count' \in v .. MAX_LOCALS
  BY <1>2 DEF Blocks
<1>5. /\ c.kind \in {"catch", "call"} => v = low[n] + 1
      /\ c.kind \in {"then", "else", "loop", "try"} => v = low[n]
  OBVIOUS
<1>6. open' = t
  OBVIOUS
<1> HIDE DEF v, t
<1>7. Room(t, Over(low, t, v), local_count')
  <2> DEFINE after == local_count'
  <2>1. v \in Nat /\ after \in v .. MAX_LOCALS
    BY <1>4
  <2> HIDE DEF after
  <2>2. Len(t) = Len(s) + 1 /\ (\A i \in 1 .. Len(s) : t[i] = s[i]) /\ t[Len(s) + 1] = c
    BY <1>3
  <2>3. /\ c.kind \in {"catch", "call"} => v = low[Len(s)] + 1
        /\ c.kind \in {"then", "else", "loop", "try"} => v = low[Len(s)]
    BY <1>5
  <2>4. Room(t, Over(low, t, v), after)
    BY <1>1, <2>1, <2>2, <2>3, RoomPush
  <2> QED
    BY <2>4 DEF after
<1>8. Over(low, t, v) \in [1 .. Len(t) -> Nat]
  BY <1>7 DEF Room
<1>9. \A i \in 1 .. Len(t) : Bounded(t[i])
  <2>1. ASSUME NEW i \in 1 .. Len(t)
        PROVE  Bounded(t[i])
    <3>1. i \in 1 .. n \/ i = n + 1
      BY <1>2, <1>3
    <3> QED
      BY <1>3, <3>1
  <2> QED
    BY <2>1
<1>10. Len(t) \in Nat \ {0} /\ Len(t) <= MaxOpen
  BY <1>2, <1>3
<1> QED
  BY <1>6, <1>7, <1>8, <1>9, <1>10, Widened

\* Constructs change, and there may be a local more.
LEMMA SameTyped ==
    ASSUME WInv, IInv', program' = program, mistaken' \in BOOLEAN,
           locals' \in [Slots -> Entries],
           NEW s, Len(s) \in Nat \ {0}, Len(s) <= MaxOpen,
           NEW count, \E low \in [1 .. Len(s) -> Nat] : Room(s, low, count),
           local_count' \in count .. MAX_LOCALS,
           NEW t, open' = t, Len(t) = Len(s),
           \A i \in 1 .. Len(s) : t[i].kind = s[i].kind /\ t[i].keep = s[i].keep,
           \A i \in 1 .. Len(s) : Bounded(t[i])
    PROVE  WInv'
<1>1. PICK low \in [1 .. Len(s) -> Nat] : Room(s, low, count)
  OBVIOUS
<1>2. Room(t, low, local_count')
  BY <1>1, RoomFor
<1> QED
  BY <1>1, <1>2, Widened

LEMMA ProgramTypes ==
    ASSUME WInv
    PROVE  program.types \subseteq Types /\ "any" \in Types /\ "fun" \in Types
BY ScopesAssumption DEF WInv, Types

LEMMA DeclareBounded ==
    ASSUME NEW s, Constructs(s), \A i \in 1 .. Len(s) : Bounded(s[i]), NEW b, NEW new,
           NEW t, t = Declare(s, b, new)
    PROVE  /\ Len(t) = Len(s)
           /\ \A i \in 1 .. Len(s) : t[i].kind = s[i].kind /\ t[i].keep = s[i].keep
           /\ \A i \in 1 .. Len(s) : Bounded(t[i])
<1>1. PICK p : t = [s EXCEPT ![b].names = p]
  BY DEF Declare
<1>2. DOMAIN s = 1 .. Len(s) /\ Len(s) \in Nat
  BY DEF Constructs
<1>3. t = [i \in 1 .. Len(s) |-> t[i]]
  BY <1>1, <1>2
<1>4. ASSUME NEW i \in 1 .. Len(s)
      PROVE  t[i].kind = s[i].kind /\ t[i].keep = s[i].keep /\ Bounded(t[i])
  <2>1. t[i] = s[i] \/ t[i] = [s[i] EXCEPT !.names = p]
    BY <1>1, <1>2
  <2>2. Complete(s[i]) /\ Bounded(s[i])
    BY DEF Constructs
  <2> QED
    BY <2>1, <2>2 DEF Complete, Bounded
<1> QED
  BY <1>2, <1>3, <1>4, IsSequence

LEMMA StoredBounded ==
    ASSUME WInv, Going, NEW x, NEW t, t = Stored(x)
    PROVE  /\ Len(t) = Len(open)
           /\ \A i \in 1 .. Len(open) : t[i].kind = open[i].kind /\ t[i].keep = open[i].keep
           /\ \A i \in 1 .. Len(open) : Bounded(t[i])
<1>1. Constructs(open) /\ Len(open) \in Nat
  BY Sized
<1>2. /\ t = [i \in 1 .. Len(open) |-> t[i]]
      /\ \A i \in 1 .. Len(open) : t[i] = open[i] \/ t[i] = [open[i] EXCEPT !.finds = "assigned"]
  BY DEF Stored
<1>3. ASSUME NEW i \in 1 .. Len(open)
      PROVE  t[i].kind = open[i].kind /\ t[i].keep = open[i].keep /\ Bounded(t[i])
  <2>1. Complete(open[i]) /\ Bounded(open[i])
    BY <1>1 DEF Constructs, WInv
  <2> QED
    BY <1>2, <2>1 DEF Complete, Bounded
<1> QED
  BY <1>1, <1>2, <1>3, IsSequence

LEMMA AssignTyped ==
    ASSUME WInv, IInv', NEW x \in Names, NEW t \in program.types,
           NEW declared \in program.types \cup {"no"}, Assign(x, t, declared)
    PROVE  WInv'
<1> DEFINE i == resolve_local(x)
           type == IF declared = "no" THEN t ELSE declared
           new == Variables(x, IF i = NoSlot THEN local_count ELSE i, type)
           wrong == IF Visible(x) THEN ~Accepts(Variable(x).type, t) \/ ~Accepts(type, t)
                    ELSE ~Accepts(type, t)
<1>1. Going /\ wrong \in BOOLEAN
  BY DEF Assign
<1>2. type \in Types
  BY ProgramTypes
<1>3. CASE \E message : Check(message, wrong)
  <2> HIDE DEF wrong
  <2> QED
    BY <1>1, <1>3, CheckTyped
<1>4. CASE /\ i # NoSlot \/ ~Full
           /\ IF i = NoSlot THEN add_local(x, type) ELSE UNCHANGED <<locals, local_count>>
           /\ open' = IF Visible(x) THEN Stored(x) ELSE Declare(open, Block(open), new)
           /\ Judge("none", wrong)
           /\ UNCHANGED <<current_loop, program>>
  <2>1. mistaken' \in BOOLEAN /\ program' = program
    BY <1>1, <1>4 DEF Judge
  <2> HIDE DEF wrong, new, i, type
  <2>2. /\ Constructs(open) /\ Len(open) \in Nat \ {0} /\ Len(open) <= MaxOpen
        /\ local_count \in 0 .. MAX_LOCALS /\ MAX_LOCALS \in Nat
        /\ \A j \in 1 .. Len(open) : Bounded(open[j])
        /\ locals \in [Slots -> Entries]
        /\ \E low \in [1 .. Len(open) -> Nat] : Room(open, low, local_count)
    BY <1>1, Sized DEF WInv
  <2>3. locals' \in [Slots -> Entries] /\ local_count' \in local_count .. MAX_LOCALS
    <3>1. CASE UNCHANGED <<locals, local_count>>
      BY <2>2, <3>1
    <3>2. CASE add_local(x, type) /\ ~Full
      BY <1>2, <2>2, <3>2, EntryType DEF add_local, Full
    <3> QED
      BY <1>4, <3>1, <3>2
  <2>4. PICK u : /\ open' = u /\ Len(u) = Len(open)
                 /\ \A j \in 1 .. Len(open) : u[j].kind = open[j].kind /\ u[j].keep = open[j].keep
                 /\ \A j \in 1 .. Len(open) : Bounded(u[j])
    <3>1. CASE open' = Stored(x)
      BY <1>1, <3>1, StoredBounded
    <3>2. CASE open' = Declare(open, Block(open), new)
      BY <2>2, <3>2, DeclareBounded
    <3> QED
      BY <1>4, <3>1, <3>2
  <2> QED
    BY <2>1, <2>2, <2>3, <2>4, SameTyped
<1> QED
  BY <1>3, <1>4 DEF Assign

LEMMA FreshBounded ==
    ASSUME NEW kind
    PROVE  Bounded(Construct(kind))
<1>1. Len(<<>>) = 0
  OBVIOUS
<1> QED
  BY <1>1, ScopesAssumption DEF Construct, Bounded

LEMMA KeepBounded ==
    ASSUME NEW kind, NEW k, NEW c, c = [Construct(kind) EXCEPT !.keep = k]
    PROVE  Bounded(c) /\ c.kind = kind /\ c.keep = k /\ Complete(c)
<1>1. Complete(Construct(kind)) /\ Construct(kind).kind = kind /\ Bounded(Construct(kind))
  BY EmptyConstruct, FreshBounded
<1> HIDE DEF Construct
<1> QED
  BY <1>1 DEF Complete, Bounded

LEMMA NamesBounded ==
    ASSUME NEW b, Complete(b), Bounded(b), NEW new, NEW c, c = [b EXCEPT !.names = new]
    PROVE  Bounded(c) /\ c.kind = b.kind /\ c.keep = b.keep /\ Complete(c)
BY DEF Complete, Bounded

LEMMA TestingBounded ==
    ASSUME WInv, Going, NEW c, Complete(c), Bounded(c), NEW x, NEW finds \in Variants,
           x = NoName \/ resolve_local(x) # NoSlot
    PROVE  /\ Bounded(Testing(c, x, finds)) /\ Guarded(x, finds) \in [Slots -> Entries]
           /\ Testing(c, x, finds).kind = c.kind /\ Testing(c, x, finds).keep = c.keep
           /\ Complete(Testing(c, x, finds))
<1> DEFINE i == resolve_local(x)  d == Testing(c, x, finds)
<1>1. locals \in [Slots -> Entries] /\ local_count \in 0 .. MAX_LOCALS
  BY DEF WInv
<1>2. CASE x = NoName
  BY <1>1, <1>2 DEF Testing, Guarded
<1>3. CASE x # NoName
  <2>1. i \in 0 .. local_count - 1
    BY <1>3, Sized, Resolved
  <2> HIDE DEF i
  <2>2. i \in Slots
    BY <1>1, <2>1, ScopesAssumption DEF Slots
  <2>3. locals[i].guard \in Variants \cup {"no"}
    BY <1>1, <2>2 DEF Entries
  <2>4. d = [c EXCEPT !.local = i, !.was = locals[i].guard,
                      !.tests = <<Declared(x), x>>, !.finds = finds]
    BY <1>3 DEF Testing, i
  <2>5. Bounded(d) /\ d.kind = c.kind /\ d.keep = c.keep /\ Complete(d)
    <3> HIDE DEF d
    <3> QED
      BY <2>2, <2>3, <2>4 DEF Bounded, Complete
  <2>6. Guarded(x, finds) \in [Slots -> Entries]
    BY <1>1, <1>3, GuardType DEF Guarded
  <2> QED
    BY <2>5, <2>6
<1> QED
  BY <1>2, <1>3

LEMMA Standing ==
    ASSUME WInv, Going
    PROVE  /\ Constructs(open) /\ Len(open) \in Nat \ {0} /\ Len(open) <= MaxOpen
           /\ MaxOpen \in Nat /\ MAX_LOCALS \in Nat
           /\ \A i \in 1 .. Len(open) : Bounded(open[i])
           /\ \E low \in [1 .. Len(open) -> Nat] : Room(open, low, local_count)
           /\ locals \in [Slots -> Entries] /\ local_count \in 0 .. MAX_LOCALS
           /\ mistaken = FALSE
BY Sized, ScopesAssumption DEF WInv, Going

\* Blocks and arms whose only change to the table is a guard.
LEMMA EnterTyped ==
    ASSUME WInv, Going, IInv', NEW c, Complete(c), Bounded(c), NEW x, NEW finds \in Variants,
           c.kind \in {"then", "loop", "arm", "try"}, c.kind = "arm" => c.keep = local_count,
           Len(open) < MaxOpen, x = NoName \/ resolve_local(x) # NoSlot,
           open' = Append(open, Testing(c, x, finds)), locals' = Guarded(x, finds),
           UNCHANGED <<local_count, mistaken, program>>
    PROVE  WInv'
<1> DEFINE d == Testing(c, x, finds)
<1>1. /\ Bounded(d) /\ locals' \in [Slots -> Entries]
      /\ d.kind = c.kind /\ d.keep = c.keep
  BY TestingBounded
<1> HIDE DEF d
<1>2. open' = Append(open, d)
  BY DEF d
<1> QED
  BY <1>1, <1>2, Standing, PushTyped DEF Blocks

LEMMA EnterBlockTyped ==
    ASSUME WInv, IInv', NEW x, EnterThen(x) \/ EnterLoop(x) \/ EnterTry
    PROVE  WInv'
<1>1. CASE EnterThen(x)
  <2> DEFINE c == Construct("then")
  <2>1. Complete(c) /\ Bounded(c) /\ c.kind = "then"
    BY EmptyConstruct, FreshBounded
  <2>2. /\ Going /\ Len(open) < MaxOpen /\ (x = NoName \/ resolve_local(x) # NoSlot)
        /\ open' = Append(open, Testing(c, x, "some")) /\ locals' = Guarded(x, "some")
        /\ UNCHANGED <<local_count, mistaken, program>>
    BY <1>1 DEF EnterThen, MayTest, Open
  <2> HIDE DEF c
  <2> QED
    BY <2>1, <2>2, EnterTyped DEF Variants
<1>2. CASE EnterLoop(x)
  <2> DEFINE c == [Construct("loop") EXCEPT !.keep = current_loop]
  <2>1. Complete(c) /\ Bounded(c) /\ c.kind = "loop"
    BY KeepBounded
  <2>2. /\ Going /\ Len(open) < MaxOpen /\ (x = NoName \/ resolve_local(x) # NoSlot)
        /\ open' = Append(open, Testing(c, x, "some")) /\ locals' = Guarded(x, "some")
        /\ UNCHANGED <<local_count, mistaken, program>>
    BY <1>2 DEF EnterLoop, MayTest, Open
  <2> HIDE DEF c
  <2> QED
    BY <2>1, <2>2, EnterTyped DEF Variants
<1>3. CASE EnterTry
  <2> DEFINE c == Construct("try")
  <2>1. Complete(c) /\ Bounded(c) /\ c.kind = "try"
    BY EmptyConstruct, FreshBounded
  <2>2. /\ Going /\ Len(open) < MaxOpen /\ open' = Append(open, c)
        /\ UNCHANGED <<locals, local_count, mistaken, program>>
    BY <1>3 DEF EnterTry, MayTest, Open
  <2> HIDE DEF c
  <2>3. locals' \in [Slots -> Entries] /\ mistaken' \in BOOLEAN
    BY <2>2, Standing
  <2> QED
    BY <2>1, <2>2, <2>3, Standing, PushTyped DEF Blocks
<1> QED
  BY <1>1, <1>2, <1>3

LEMMA EnterArmTyped ==
    ASSUME WInv, IInv', NEW x, NEW binding \in Names \cup {NoName}, NEW t \in program.types,
           EnterArm(x, binding, t)
    PROVE  WInv'
<1> DEFINE variant == IF binding = NoName THEN "none" ELSE "some"
           b == [Construct("arm") EXCEPT !.keep = local_count]
           c == Testing(b, x, variant)
           d == [c EXCEPT !.names = Variables(binding, local_count, t)]
<1>1. /\ Going /\ Len(open) < MaxOpen /\ (x = NoName \/ resolve_local(x) # NoSlot)
      /\ variant \in Variants
  BY DEF EnterArm, MayTest, Open, Variants
<1>2. Complete(b) /\ Bounded(b) /\ b.kind = "arm" /\ b.keep = local_count
  BY KeepBounded, ZenonT(30)
<1>3. CASE /\ binding = NoName /\ open' = Append(open, c) /\ locals' = Guarded(x, variant)
           /\ UNCHANGED <<local_count, current_loop, error, mistaken, program>>
  <2> HIDE DEF b, variant
  <2> QED
    BY <1>1, <1>2, <1>3, EnterTyped
<1>4. CASE Check("too_many", FALSE)
  BY <1>1, <1>4, CheckTyped
<1>5. CASE /\ binding # NoName /\ ~Full /\ open' = Append(open, d)
           /\ locals' = [Guarded(x, variant) EXCEPT ![local_count] = Local(binding, t)]
           /\ local_count' = local_count + 1
           /\ UNCHANGED <<current_loop, error, mistaken, program>>
  <2> HIDE DEF b, variant
  <2>1. /\ Bounded(c) /\ Complete(c) /\ c.kind = "arm" /\ c.keep = local_count
        /\ Guarded(x, variant) \in [Slots -> Entries]
    BY <1>1, <1>2, TestingBounded
  <2> HIDE DEF c
  <2>2. Bounded(d) /\ d.kind = "arm" /\ d.keep = local_count
    BY <2>1, NamesBounded
  <2>3. locals' \in [Slots -> Entries]
    <3>1. binding \in Names /\ t \in Types
      BY <1>5, ProgramTypes
    <3> QED
      BY <1>5, <2>1, <3>1, EntryType
  <2>4. local_count' \in 0 .. MAX_LOCALS /\ mistaken' \in BOOLEAN
    BY <1>1, <1>5, Standing DEF Full
  <2> HIDE DEF d
  <2> QED
    BY <1>1, <1>5, <2>2, <2>3, <2>4, Standing, PushTyped DEF Blocks
<1> QED
  BY <1>3, <1>4, <1>5 DEF EnterArm

LEMMA BeginCallTyped ==
    ASSUME WInv, IInv', BeginCall
    PROVE  WInv'
<1> DEFINE c == [Construct("call") EXCEPT !.keep = local_count]
<1>1. Bounded(c) /\ c.kind = "call"
  BY KeepBounded
<1>2. /\ Going /\ Len(open) < MaxOpen /\ open' = Append(open, c)
      /\ local_count' = local_count + 1 /\ local_count # MAX_LOCALS
      /\ UNCHANGED <<locals, mistaken, program>>
  BY DEF BeginCall, Open, Full
<1> HIDE DEF c
<1>3. locals' \in [Slots -> Entries] /\ mistaken' \in BOOLEAN
  BY <1>2, Standing
<1>4. /\ Constructs(open) /\ Len(open) \in Nat \ {0}
      /\ \A i \in 1 .. Len(open) : Bounded(open[i])
      /\ \E low \in [1 .. Len(open) -> Nat] : Room(open, low, local_count)
  BY <1>2, Standing
<1>5. /\ c.kind \in Blocks \cup {"call"} /\ c.kind \notin {"function", "arm"}
      /\ c.kind \notin {"then", "else", "loop", "try"}
      /\ local_count' = local_count + 1 /\ local_count # MAX_LOCALS
  BY <1>1, <1>2
<1> QED
  BY <1>2, <1>1, <1>3, <1>4, <1>5, PushTyped

LEMMA UnguardedType ==
    ASSUME WInv, Going
    PROVE  Unguarded \in [Slots -> Entries]
<1>1. Bounded(Last(open)) /\ locals \in [Slots -> Entries]
  BY Standing, Sized
<1> QED
  BY <1>1, GuardType DEF Unguarded, Bounded

LEMMA EndTyped ==
    ASSUME WInv, Going, IInv', Len(open) > 1, open' \in {Front(open), Closed},
           locals' \in [Slots -> Entries], UNCHANGED <<mistaken, program>>,
           Last(open).kind \in Blocks \cup {"call"},
           Last(open).kind \in {"function", "arm"} => local_count' = Last(open).keep,
           Last(open).kind \in {"catch", "call"} => local_count' = local_count - 1,
           Last(open).kind \in {"then", "else", "loop", "try"} => local_count' = local_count
    PROVE  WInv'
<1> DEFINE t == open'  count == local_count'
<1>1. /\ t \in {Front(open), Closed}
      /\ Last(open).kind \in {"function", "arm"} => count = Last(open).keep
      /\ Last(open).kind \in {"catch", "call"} => count = local_count - 1
      /\ Last(open).kind \in {"then", "else", "loop", "try"} => count = local_count
  OBVIOUS
<1> HIDE DEF t, count
<1>2. /\ Len(t) = Len(open) - 1 /\ Len(t) \in Nat \ {0}
      /\ \A i \in 1 .. Len(t) : Bounded(t[i])
      /\ \E low \in [1 .. Len(t) -> Nat] : Room(t, low, count)
  BY <1>1, RoomClose
<1>3. Len(t) <= MaxOpen /\ mistaken' \in BOOLEAN
  BY <1>2, Standing
<1>4. open' = t /\ local_count' = count
  BY DEF t, count
<1> QED
  BY <1>2, <1>3, <1>4, Widened

LEMMA OnlyFunctionBelow ==
    ASSUME WInv, Going, Last(open).kind # "function"
    PROVE  Len(open) > 1
BY Sized DEF Rooted

LEMMA LeaveTyped ==
    ASSUME WInv, IInv',
           \/ EndCall \/ EndFunction(NoName) \/ LeaveBranch \/ LeaveLoop
           \/ LeaveArm \/ LeaveCatch
    PROVE  WInv'
<1>1. Going
  BY DEF EndCall, EndFunction, LeaveBranch, LeaveLoop, LeaveArm, LeaveCatch
<1>2. locals \in [Slots -> Entries] /\ Unguarded \in [Slots -> Entries]
  BY <1>1, Standing, UnguardedType
<1>3. CASE EndCall
  BY <1>1, <1>2, <1>3, OnlyFunctionBelow, EndTyped DEF EndCall, InArguments
<1>4. CASE EndFunction(NoName)
  BY <1>1, <1>2, <1>4, EndTyped DEF EndFunction, Blocks
<1>5. CASE LeaveBranch
  BY <1>1, <1>2, <1>5, OnlyFunctionBelow, EndTyped DEF LeaveBranch, Blocks
<1>6. CASE LeaveLoop
  BY <1>1, <1>2, <1>6, OnlyFunctionBelow, EndTyped DEF LeaveLoop, Blocks
<1>7. CASE LeaveArm
  BY <1>1, <1>2, <1>7, OnlyFunctionBelow, EndTyped DEF LeaveArm, Blocks
<1>8. CASE LeaveCatch
  BY <1>1, <1>2, <1>8, OnlyFunctionBelow, EndTyped DEF LeaveCatch, Blocks
<1> QED
  BY <1>3, <1>4, <1>5, <1>6, <1>7, <1>8

\* A block ends where another one begins.
LEMMA NextBlockTyped ==
    ASSUME WInv, IInv', EnterElse \/ \E x \in Names : EnterCatch(x)
    PROVE  WInv'
<1>1. Going /\ Last(open).kind \in {"then", "try"}
  BY DEF EnterElse, EnterCatch
<1>2. Len(open) > 1
  BY <1>1, OnlyFunctionBelow
<1> DEFINE s == Closed
<1>3. /\ Len(s) = Len(open) - 1 /\ Constructs(s) /\ Len(s) \in Nat \ {0}
      /\ \A i \in 1 .. Len(s) : Bounded(s[i])
      /\ \E low \in [1 .. Len(s) -> Nat] : Room(s, low, local_count)
  <2>1. s \in {Front(open), Closed}
    OBVIOUS
  <2> HIDE DEF s
  <2> QED
    BY <1>1, <1>2, <2>1, RoomClose DEF Blocks
<1> HIDE DEF s
<1>4. Len(s) < MaxOpen
  BY <1>1, <1>3, Standing
<1>5. CASE EnterElse
  <2> DEFINE c == Construct("else")
  <2>1. Bounded(c) /\ c.kind = "else"
    BY FreshBounded, EmptyConstruct
  <2>2. /\ open' = Append(s, c) /\ locals' = Unguarded
        /\ UNCHANGED <<local_count, mistaken, program>>
    BY <1>5 DEF EnterElse, s
  <2>3. locals' \in [Slots -> Entries] /\ mistaken' \in BOOLEAN
    BY <1>1, <2>2, UnguardedType, Standing
  <2> HIDE DEF c
  <2> QED
    BY <1>3, <1>4, <2>1, <2>2, <2>3, PushTyped DEF Blocks
<1>6. CASE Check("too_many", FALSE)
  BY <1>1, <1>6, CheckTyped
<1>7. ASSUME NEW x \in Names, EnterCatch(x), ~Full
      PROVE  WInv'
  <2> DEFINE b == Construct("catch")
             c == [b EXCEPT !.names = Variables(x, local_count, "any")]
  <2>1. Bounded(b) /\ Complete(b) /\ b.kind = "catch"
    BY FreshBounded, EmptyConstruct
  <2>2. /\ open' = Append(s, c) /\ add_local(x, "any")
        /\ UNCHANGED <<mistaken, program>>
    BY <1>7 DEF EnterCatch, s
  <2> HIDE DEF b
  <2>3. Bounded(c) /\ c.kind = "catch"
    BY <2>1, NamesBounded
  <2> HIDE DEF c
  <2>4. locals' \in [Slots -> Entries] /\ mistaken' \in BOOLEAN
    BY <1>1, <2>2, Standing, EntryType, ProgramTypes DEF add_local
  <2>5. local_count' = local_count + 1 /\ local_count # MAX_LOCALS
    BY <1>7, <2>2 DEF add_local, Full
  <2>6. /\ c.kind \in Blocks \cup {"call"} /\ c.kind \notin {"function", "arm"}
        /\ c.kind \notin {"then", "else", "loop", "try"}
    BY <2>3 DEF Blocks
  <2> QED
    BY <1>3, <1>4, <2>2, <2>3, <2>4, <2>5, <2>6, PushTyped
<1> QED
  BY <1>5, <1>6, <1>7 DEF EnterCatch

LEMMA BeginFunctionTyped ==
    ASSUME WInv, IInv', NEW captures \in Lists(Names), NEW params \in Params,
           BeginFunction(captures, params)
    PROVE  WInv'
<1> DEFINE found == [i \in DOMAIN captures |-> resolve_local(captures[i])]
           types == [i \in DOMAIN captures |-> Local(captures[i], locals[found[i]].type)]
           others == [i \in DOMAIN params |-> Local(params[i].name, params[i].type)]
           entries == types \o others
           meant == [i \in DOMAIN captures |-> Variable(captures[i]).type]
                    \o [i \in DOMAIN params |-> params[i].type]
           pnames == [i \in DOMAIN params |-> params[i].name]
           name == captures \o pnames
           at(x) == Max({i \in DOMAIN name : name[i] = x})
           new == [x \in Range(name) |-> [slot |-> at(x) - 1, type |-> meant[at(x)]]]
           U == [i \in Slots |-> IF i < Len(entries) THEN entries[i + 1] ELSE locals[i]]
           b == [Construct("function") EXCEPT !.keep = local_count]
           c == [b EXCEPT !.names = new]
           invisible == \E i \in DOMAIN captures : ~Visible(captures[i])
<1>1. Going /\ Len(open) < MaxOpen /\ invisible \in BOOLEAN
  BY DEF BeginFunction, Open
<1>2. CASE \E message : Check(message, invisible) \/ Check(message, TRUE)
  <2> HIDE DEF invisible
  <2>1. PICK message : Check(message, invisible) \/ Check(message, TRUE)
    BY <1>2
  <2>2. TRUE \in BOOLEAN
    OBVIOUS
  <2> QED
    BY <1>1, <2>1, <2>2, CheckTyped
<1>3. CASE /\ Len(name) <= MAX_LOCALS
           /\ \A i \in DOMAIN captures : found[i] # NoSlot
           /\ locals' = U /\ local_count' = Len(entries)
           /\ open' = Append(open, [Construct("function") EXCEPT
                                       !.keep = local_count, !.names = new])
           /\ UNCHANGED <<current_loop, error, mistaken, program>>
  <2>1. PICK p \in Nat : captures = [i \in 1 .. p |-> captures[i]] /\ DOMAIN captures = 1 .. p
    BY Listed
  <2>2. PICK q \in Nat : params = [i \in 1 .. q |-> params[i]] /\ DOMAIN params = 1 .. q
    <3>1. params \in Lists([name : Names, type : program.types])
      BY DEF Params
    <3> QED
      BY <3>1, Listed
  <2>3. /\ \A i \in 1 .. p : captures[i] \in Names
        /\ \A i \in 1 .. q : params[i].name \in Names /\ params[i].type \in Types
    <3>1. params \in Lists([name : Names, type : program.types])
      BY DEF Params
    <3>2. \E n \in 0 .. MaxList : params \in [1 .. n -> [name : Names, type : program.types]]
      BY <3>1 DEF Lists
    <3>3. \E n \in 0 .. MaxList : captures \in [1 .. n -> Names]
      BY DEF Lists
    <3>4. \A i \in 1 .. q : params[i] \in [name : Names, type : program.types]
      BY <2>2, <3>2
    <3> QED
      BY <2>1, <3>3, <3>4, ProgramTypes
  <2>4. ASSUME NEW i \in 1 .. p
        PROVE  locals[found[i]].type \in Types
    <3>1. found[i] = resolve_local(captures[i]) /\ found[i] # NoSlot
      BY <1>3, <2>1
    <3> DEFINE r == found[i]
    <3> HIDE DEF found
    <3>2. r \in 0 .. local_count - 1
      BY <1>1, <3>1, Sized, Resolved
    <3>3. locals \in [Slots -> Entries] /\ r \in Slots
      BY <1>1, <3>2, Standing DEF Slots
    <3> HIDE DEF r
    <3>4. locals[r].type \in Types
      BY <3>3 DEF Entries
    <3> QED
      BY <3>4 DEF r
  <2>5. /\ types = [i \in 1 .. p |-> types[i]] /\ others = [i \in 1 .. q |-> others[i]]
        /\ pnames = [i \in 1 .. q |-> pnames[i]]
        /\ \A i \in 1 .. p : types[i] = Local(captures[i], locals[found[i]].type)
        /\ \A i \in 1 .. q : others[i] = Local(params[i].name, params[i].type)
    BY <2>1, <2>2 DEF Local
  <2> HIDE DEF types, others, pnames, meant, found
  <2>6. /\ \A i \in 1 .. p : types[i] \in Entries
        /\ \A i \in 1 .. q : others[i] \in Entries
    BY <2>3, <2>4, <2>5, LocalEntry
  <2>7. /\ Len(entries) = p + q
        /\ \A i \in 1 .. p : entries[i] = types[i]
        /\ \A i \in 1 .. q : entries[p + i] = others[i]
    BY <2>5, Joined
  <2>8. Len(name) = p + q
    BY <2>1, <2>5, Joined
  <2> HIDE DEF entries, name
  <2>9. \A i \in 1 .. p + q : entries[i] \in Entries
    <3>1. ASSUME NEW i \in 1 .. p + q
          PROVE  entries[i] \in Entries
      <4>1. CASE i \in 1 .. p
        BY <2>6, <2>7, <4>1
      <4>2. CASE i \notin 1 .. p
        <5>1. i - p \in 1 .. q /\ i = p + (i - p)
          BY <4>2
        <5> QED
          BY <2>6, <2>7, <5>1
      <4> QED
        BY <4>1, <4>2
    <3> QED
      BY <3>1
  <2>10. U \in [Slots -> Entries]
    <3>1. ASSUME NEW k \in Slots
          PROVE  (IF k < Len(entries) THEN entries[k + 1] ELSE locals[k]) \in Entries
      <4>1. k < Len(entries) => k + 1 \in 1 .. p + q
        BY <2>7 DEF Slots
      <4>2. locals[k] \in Entries
        BY <1>1, Standing
      <4> QED
        BY <2>9, <4>1, <4>2
    <3> QED
      BY <3>1
  <2>11. Len(entries) \in 0 .. MAX_LOCALS
    BY <1>3, <2>7, <2>8, ScopesAssumption
  <2>12. Bounded(c) /\ c.kind = "function" /\ c.keep = local_count
    <3>1. Bounded(b) /\ Complete(b) /\ b.kind = "function" /\ b.keep = local_count
      BY KeepBounded, ZenonT(30)
    <3> HIDE DEF b, new
    <3> QED
      BY <3>1, NamesBounded
  <2>13. /\ locals' \in [Slots -> Entries] /\ local_count' \in 0 .. MAX_LOCALS
         /\ open' = Append(open, c) /\ mistaken' \in BOOLEAN /\ program' = program
    BY <1>1, <1>3, <2>10, <2>11, Standing
  <2> HIDE DEF c
  <2>14. /\ Constructs(open) /\ Len(open) \in Nat \ {0}
         /\ \A i \in 1 .. Len(open) : Bounded(open[i])
         /\ \E low \in [1 .. Len(open) -> Nat] : Room(open, low, local_count)
    BY <1>1, Standing
  <2> QED
    BY <1>1, <2>12, <2>13, <2>14, PushTyped DEF Blocks
<1> QED
  BY <1>2, <1>3 DEF BeginFunction

LEMMA EndFunctionTyped ==
    ASSUME WInv, IInv', NEW name \in Names, EndFunction(name)
    PROVE  WInv'
<1> DEFINE s == Front(open)  count == Last(open).keep
           t == Declare(s, Block(s), Variables(name, count, "fun"))
<1>1. Going /\ Last(open).kind = "function" /\ Len(open) > 1 /\ name # NoName
  BY ScopesAssumption DEF EndFunction
<1>2. /\ Len(s) = Len(open) - 1 /\ Constructs(s) /\ Len(s) \in Nat \ {0}
      /\ \A i \in 1 .. Len(s) : Bounded(s[i])
      /\ \E low \in [1 .. Len(s) -> Nat] : Room(s, low, count)
  <2>1. s \in {Front(open), Closed}
    OBVIOUS
  <2> HIDE DEF s, count
  <2>2. count = Last(open).keep
    BY DEF count
  <2> QED
    BY <1>1, <2>1, <2>2, RoomClose DEF Blocks
<1>3. CASE Check("too_many", FALSE)
  BY <1>1, <1>3, CheckTyped
<1>4. CASE /\ count # MAX_LOCALS
           /\ locals' = [locals EXCEPT ![count] = Local(name, "fun")]
           /\ local_count' = count + 1 /\ open' = t
           /\ UNCHANGED <<current_loop, error, mistaken, program>>
  <2> HIDE DEF s, count
  <2>1. count \in Nat /\ count <= MAX_LOCALS
    <3>1. PICK low \in [1 .. Len(s) -> Nat] : Room(s, low, count)
      BY <1>2
    <3>2. low[Len(s)] \in Nat /\ count \in low[Len(s)] .. MAX_LOCALS
      <4>1. Len(s) \in 1 .. Len(s)
        BY <1>2
      <4> QED
        BY <3>1, <4>1 DEF Room
    <3> QED
      BY <3>2, ScopesAssumption
  <2>2. local_count' \in count .. MAX_LOCALS
    BY <1>4, <2>1, ScopesAssumption
  <2>3. /\ Len(t) = Len(s)
        /\ \A i \in 1 .. Len(s) : t[i].kind = s[i].kind /\ t[i].keep = s[i].keep
        /\ \A i \in 1 .. Len(s) : Bounded(t[i])
    BY <1>2, DeclareBounded
  <2>4. locals' \in [Slots -> Entries] /\ mistaken' \in BOOLEAN
    BY <1>1, <1>4, Standing, EntryType, ProgramTypes
  <2>5. open' = t /\ program' = program /\ Len(s) <= MaxOpen
    BY <1>1, <1>2, <1>4, Standing
  <2> HIDE DEF t
  <2> QED
    BY <1>2, <2>2, <2>3, <2>4, <2>5, SameTyped
<1> QED
  BY <1>1, <1>3, <1>4 DEF EndFunction

LEMMA JumpTyped ==
    ASSUME WInv, IInv', Break \/ Continue
    PROVE  WInv'
<1> DEFINE none == MeantLoop = 0
<1>1. Going /\ none \in BOOLEAN
  BY DEF Break, Continue
<1>2. CASE \E message : Check(message, none)
  <2> HIDE DEF none
  <2> QED
    BY <1>1, <1>2, CheckTyped
<1>3. CASE /\ current_loop # 0
           /\ \/ /\ Len(open[current_loop].exits) < MAX_BREAKS
                 /\ open' = [open EXCEPT ![current_loop].exits = Append(@, MeantLoop)]
              \/ open' = [open EXCEPT ![current_loop].again = @ \cup {MeantLoop}]
           /\ Judge("none", none)
           /\ UNCHANGED <<locals, local_count, current_loop, program>>
  <2>1. mistaken' \in BOOLEAN
    BY <1>1, <1>3 DEF Judge
  <2> DEFINE l == current_loop  t == open'
  <2>2. /\ Constructs(open) /\ Len(open) \in Nat \ {0} /\ Len(open) <= MaxOpen
        /\ \A i \in 1 .. Len(open) : Bounded(open[i]) /\ Complete(open[i])
        /\ \A i \in 1 .. Len(open) : open[i].exits \in Seq(Int)
        /\ DOMAIN open = 1 .. Len(open)
        /\ \E low \in [1 .. Len(open) -> Nat] : Room(open, low, local_count)
        /\ locals' \in [Slots -> Entries] /\ local_count' = local_count
        /\ local_count' \in local_count .. MAX_LOCALS
    BY <1>1, <1>3, Standing DEF Constructs
  <2>3. l \in 1 .. Len(open)
    BY <1>3, <2>2 DEF WInv, IInv, Chain, Innermost
  <2>4. MeantLoop \in Int
    <3>1. /\ Running \in 1 .. Len(open)
      BY <1>1, Sized, RunningFacts DEF Running
    <3>2. LastOf(open, {"loop"}) = l
      BY <1>1, <1>3, <2>2, Sized, LoopFound
    <3> QED
      BY <2>3, <3>2 DEF MeantLoop
  <2>5. /\ Len(t) = Len(open)
        /\ \A i \in 1 .. Len(open) : t[i].kind = open[i].kind /\ t[i].keep = open[i].keep
        /\ \A i \in 1 .. Len(open) : Bounded(t[i])
    <3>1. CASE /\ Len(open[l].exits) < MAX_BREAKS
               /\ t = [open EXCEPT ![l].exits = Append(@, MeantLoop)]
      <4> HIDE DEF t, l
      <4>1. t = [i \in 1 .. Len(open) |-> t[i]]
        BY <2>2, <3>1
      <4>2. Len(t) = Len(open)
        BY <2>2, <4>1, IsSequence
      <4> DEFINE e == Append(open[l].exits, MeantLoop)
      <4>3. Len(e) = Len(open[l].exits) + 1 /\ Len(open[l].exits) \in Nat
        BY <2>2, <2>3, <2>4
      <4>4. Len(e) <= MAX_BREAKS
        BY <3>1, <4>3, ScopesAssumption
      <4> HIDE DEF e
      <4>5. ASSUME NEW i \in 1 .. Len(open)
            PROVE  t[i].kind = open[i].kind /\ t[i].keep = open[i].keep /\ Bounded(t[i])
        <5>1. t[i] = open[i] \/ t[i] = [open[i] EXCEPT !.exits = e]
          BY <2>2, <3>1 DEF e
        <5> QED
          BY <2>2, <4>4, <5>1 DEF Complete, Bounded
      <4> QED
        BY <4>2, <4>5
    <3>2. CASE t = [open EXCEPT ![l].again = @ \cup {MeantLoop}]
      <4> HIDE DEF t, l
      <4>1. t = [i \in 1 .. Len(open) |-> t[i]]
        BY <2>2, <3>2
      <4>2. Len(t) = Len(open)
        BY <2>2, <4>1, IsSequence
      <4> DEFINE e == open[l].again \cup {MeantLoop}
      <4>5. ASSUME NEW i \in 1 .. Len(open)
            PROVE  t[i].kind = open[i].kind /\ t[i].keep = open[i].keep /\ Bounded(t[i])
        <5>1. t[i] = open[i] \/ t[i] = [open[i] EXCEPT !.again = e]
          BY <2>2, <3>2
        <5> HIDE DEF e
        <5> QED
          BY <2>2, <5>1 DEF Complete, Bounded
      <4> QED
        BY <4>2, <4>5
    <3> QED
      BY <1>3, <3>1, <3>2
  <2>6. open' = t /\ program' = program
    BY <1>3
  <2> HIDE DEF t
  <2> QED
    BY <2>1, <2>2, <2>5, <2>6, SameTyped
<1>4. current_loop # 0 => Len(open[current_loop].exits) \in Nat /\ MAX_BREAKS \in Nat
  <2>1. Constructs(open) /\ Len(open) \in Nat
    BY <1>1, Standing
  <2>2. current_loop # 0 => current_loop \in 1 .. Len(open)
    BY <2>1 DEF WInv, IInv, Chain, Innermost
  <2> QED
    BY <2>1, <2>2, ScopesAssumption DEF Constructs
<1>5. CASE Break
  <2>1. CASE \E message : Check(message, MeantLoop = 0)
    BY <1>2, <2>1
  <2>2. CASE /\ current_loop # 0 /\ ~(Len(open[current_loop].exits) >= MAX_BREAKS)
             /\ open' = [open EXCEPT ![current_loop].exits = Append(@, MeantLoop)]
             /\ Judge("none", MeantLoop = 0)
             /\ UNCHANGED <<locals, local_count, current_loop, program>>
    <3>1. Len(open[current_loop].exits) < MAX_BREAKS
      BY <1>4, <2>2
    <3> QED
      BY <1>3, <2>2, <3>1
  <2> QED
    BY <1>5, <2>1, <2>2 DEF Break
<1>6. CASE Continue
  <2>1. CASE \E message : Check(message, MeantLoop = 0)
    BY <1>2, <2>1
  <2> QED
    BY <1>3, <1>6, <2>1 DEF Continue
<1> QED
  BY <1>5, <1>6

LEMMA InitTyped ==
    ASSUME Init, IInv
    PROVE  WInv
<1> DEFINE c == Construct("function")
<1>1. open = <<c>> /\ Bounded(c)
  BY FreshBounded DEF Init
<1> HIDE DEF c
<1>2. Len(open) = 1 /\ open[1] = c
  BY <1>1
<1> DEFINE low == [i \in 1 .. 1 |-> 0]
<1>3. low \in [1 .. Len(open) -> Nat] /\ low[1] = 0
  BY <1>2
<1> HIDE DEF low
<1>4. Room(open, low, local_count)
  <2>1. 2 .. Len(open) = {}
    BY <1>2
  <2>2. local_count \in low[Len(open)] .. MAX_LOCALS
    BY <1>2, <1>3, ScopesAssumption DEF Init
  <2> QED
    BY <1>3, <2>1, <2>2 DEF Room
<1>5. locals \in [Slots -> Entries] /\ local_count \in 0 .. MAX_LOCALS
  BY ScopesAssumption DEF Init
<1>6. \A i \in 1 .. Len(open) : Bounded(open[i])
  BY <1>1, <1>2
<1>7. \E lw \in [1 .. Len(open) -> Nat] : Room(open, lw, local_count)
  BY <1>3, <1>4
<1>8. Len(open) <= MaxOpen /\ mistaken \in BOOLEAN /\ program \in Programs
  <2>1. Len(open) <= MaxOpen
    BY <1>2, ScopesAssumption
  <2>2. mistaken \in BOOLEAN /\ program \in Programs
    BY DEF Init
  <2> QED
    BY <2>1, <2>2
<1> QED
  BY <1>5, <1>6, <1>7, <1>8 DEF WInv

LEMMA NextTyped ==
    ASSUME WInv, [Next]_vars
    PROVE  WInv'
<1>1. IInv'
  BY NextInv DEF WInv
<1>2. CASE UNCHANGED vars
  <2>1. (\A i \in 1 .. Len(open) : Bounded(open[i]))'
    BY <1>2 DEF vars, WInv, Bounded
  <2>2. (Going => \E low \in [1 .. Len(open) -> Nat] : Room(open, low, local_count))'
    BY <1>2 DEF vars, WInv, Room, Going
  <2> QED
    BY <1>1, <1>2, <2>1, <2>2 DEF vars, WInv
<1>3. ASSUME NEW x, NEW called \in BOOLEAN, Use(x, called)
      PROVE  WInv'
  <2> DEFINE wrong == ~Visible(x) \/ (called /\ Variable(x).type # "fun")
  <2>1. wrong \in BOOLEAN
    OBVIOUS
  <2>2. PICK message : Check(message, wrong)
    BY <1>3 DEF Use
  <2> HIDE DEF wrong
  <2> QED
    BY <1>1, <1>3, <2>1, <2>2, CheckTyped DEF Use
<1>4. ASSUME NEW x, Unwrap(x)
      PROVE  WInv'
  <2> DEFINE wrong == ~Visible(x) \/ Variable(x).type # "opt" \/ Found(x) # "some"
  <2>1. wrong \in BOOLEAN
    OBVIOUS
  <2>2. PICK message : Check(message, wrong)
    BY <1>4 DEF Unwrap
  <2> HIDE DEF wrong
  <2> QED
    BY <1>1, <1>4, <2>1, <2>2, CheckTyped DEF Unwrap
<1>5. CASE Ended
  BY <1>2, <1>5 DEF Ended
<1>6. ASSUME NEW x \in Names \cup {NoName}, EndFunction(x)
      PROVE  WInv'
  BY <1>1, <1>6, EndFunctionTyped, LeaveTyped
<1>7. ASSUME NEW x \in Names, NEW t \in program.types,
             NEW declared \in program.types \cup {"no"}, Assign(x, t, declared)
      PROVE  WInv'
  BY <1>1, <1>7, AssignTyped
<1>8. ASSUME NEW x, EnterThen(x) \/ EnterLoop(x) \/ EnterTry
      PROVE  WInv'
  BY <1>1, <1>8, EnterBlockTyped
<1>9. ASSUME NEW x, NEW binding \in Names \cup {NoName}, NEW t \in program.types,
             EnterArm(x, binding, t)
      PROVE  WInv'
  BY <1>1, <1>9, EnterArmTyped
<1>10. ASSUME NEW captures \in Lists(Names), NEW params \in Params,
              BeginFunction(captures, params)
       PROVE  WInv'
  BY <1>1, <1>10, BeginFunctionTyped
<1>11. ASSUME NEW x \in Names, EnterCatch(x)
       PROVE  WInv'
  BY <1>1, <1>11, NextBlockTyped
<1>12. CASE EnterElse
  BY <1>1, <1>12, NextBlockTyped
<1>13. CASE BeginCall \/ EndCall \/ LeaveBranch \/ LeaveLoop \/ LeaveArm \/ LeaveCatch
            \/ Break \/ Continue
  BY <1>1, <1>13, BeginCallTyped, LeaveTyped, JumpTyped
<1>14. CASE Next
  BY <1>3, <1>4, <1>5, <1>6, <1>7, <1>8, <1>9, <1>10, <1>11, <1>12, <1>13, <1>14 DEF Next
<1> QED
  BY <1>2, <1>14

\* Every variable has its type: the table keeps its entries, local_count stays
\* within it, current_loop is a loop under way, and no loop has more jumps than
\* end_jump_patches holds.
THEOREM TypeCorrect == Spec => []TypeOK
<1>1. Init => WInv
  BY InitInv, InitTyped
<1>2. WInv /\ [Next]_vars => WInv'
  BY NextTyped
<1>3. WInv => TypeOK
  <2> SUFFICES ASSUME WInv PROVE TypeOK
    OBVIOUS
  <2>1. Len(open) \in Nat /\ current_loop \in 0 .. Len(open)
    BY DEF WInv, IInv, Constructs, Chain, Innermost
  <2>2. current_loop # 0 => open[current_loop].kind = "loop"
    BY DEF WInv, IInv, Chain, Innermost
  <2>3. current_loop \in 0 .. MaxOpen
    BY <2>1, ScopesAssumption DEF WInv
  <2>4. \A i \in 1 .. Len(open) : Len(open[i].exits) <= MAX_BREAKS
    BY DEF WInv, Bounded
  <2> QED
    BY <2>1, <2>2, <2>3, <2>4 DEF WInv, TypeOK
<1> QED
  BY <1>1, <1>2, <1>3, PTL DEF Spec

-----------------------------------------------------------------------------
(* What the table says of types and tests *)

\* j is an element of s whose level is counted back to
Ends(s, j) ==
    /\ s[j].kind # "call"
    /\ j = Len(s) \/ s[j + 1].kind \in {"function", "arm", "catch", "call"}

\* the entry of a variable has its type
Typed(s, T) ==
    \A i \in 1 .. Len(s) : \A x \in DOMAIN s[i].names :
        T[s[i].names[x].slot].type = s[i].names[x].type

\* the text and the compiler mean the same variable by a test
Tested(s) ==
    \A b \in 1 .. Len(s) :
        \/ s[b].tests = <<>> /\ s[b].local = NoSlot
        \/ /\ s[b].kind \in {"then", "loop", "arm"}
           /\ s[b].finds \in Variants \cup {"assigned"}
           /\ \E d \in 1 .. b - 1 : \E y \in DOMAIN s[d].names :
                /\ s[b].tests = <<d, y>> /\ Together(s, d, b)
                /\ s[b].local = s[d].names[y].slot

\* no construct between a and b tests entry k
NoTest(s, a, b, k) == \A c \in a + 1 .. b - 1 : s[c].local # k

\* the guard of an entry is what the last test of it found, unless the variable
\* has been assigned to, and each test keeps what the one around it found
Guards(s, T) ==
    \A b \in 1 .. Len(s) : s[b].local # NoSlot =>
        /\ NoTest(s, b, Len(s) + 1, s[b].local) /\ s[b].finds \in Variants
             => T[s[b].local].guard = s[b].finds
        /\ \A a \in 1 .. b - 1 :
             /\ s[a].local = s[b].local /\ s[a].finds \in Variants
             /\ NoTest(s, a, b, s[b].local)
             => s[b].was = s[a].finds
        /\ NoTest(s, 0, b, s[b].local) => s[b].was = "no"

\* an entry that no construct tests has no guard
Untested(s, lev, T) ==
    \A j \in 1 .. Len(s) : Ends(s, j) =>
        \A k \in 0 .. lev[j] - 1 : NoTest(s, 0, Len(s) + 1, k) => T[k].guard = "no"

\* an entry in use that no variable has is one of a block that has ended
Remembered(s, lev, T) ==
    \A f, j \in 1 .. Len(s) :
        f <= j /\ s[f].kind = "function" /\ Together(s, f, j) /\ Ends(s, j) =>
        \A k \in 0 .. lev[j] - 1 :
            \/ \E i \in f .. j : T[k].name \in DOMAIN s[i].names
            \/ \E m \in k + 1 .. lev[j] - 1 : T[m].name = T[k].name
            \/ <<T[k].name, T[k].type>> \in s[f].past

\* nothing has been declared in c so far
Blank(c) == DOMAIN c.names = {} /\ (c.kind = "function" => c.past = {})

\* where nothing is declared, no entry is in use
Unused(s, lev) ==
    \A j \in 1 .. Len(s) : Ends(s, j) /\ (\A i \in 1 .. j : Blank(s[i])) => lev[j] = 0

Judging(s, lev, T) ==
    /\ Typed(s, T)
    /\ Tested(s)
    /\ Guards(s, T)
    /\ Untested(s, lev, T)
    /\ Remembered(s, lev, T)
    /\ Unused(s, lev)

\* a program with none of the constructs that the table gets wrong
Strict == features = {}

\* what the table says, whatever the levels are: Named leaves no choice of them
NowJudging ==
    \A lev \in [1 .. Len(open) -> 0 .. MAX_LOCALS] :
        Named(open, lev, locals) /\ lev[Len(open)] = local_count
            => Judging(open, lev, locals)

\* the compiler and the text judge alike
Verdict == error # "too_many" => (error # "none" <=> mistaken)

KInv == NInv /\ WInv /\ (Strict => Verdict /\ (Going => NowJudging))

-----------------------------------------------------------------------------
(* There is one way to count back *)

LEMMA SameLevels ==
    ASSUME NEW s, NEW lev, Levels(s, lev), Kinds(s), Len(s) \in Nat,
           NEW t, NEW lv, Levels(t, lv), Len(t) \in Nat,
           NEW n \in 1 .. Len(s), n <= Len(t),
           \A i \in 1 .. n : t[i].kind = s[i].kind /\ t[i].keep = s[i].keep,
           lev[n] = lv[n]
    PROVE  \A i \in 1 .. n : lev[i] = lv[i]
<1> DEFINE S == {i \in 1 .. n : lev[i] # lv[i]}
<1> SUFFICES ASSUME S # {} PROVE FALSE
  OBVIOUS
<1> DEFINE m == Max(S)
<1>1. m \in S /\ \A y \in S : m >= y
  <2>1. S \subseteq 1 .. n /\ 1 \in Int /\ n \in Int
    OBVIOUS
  <2> HIDE DEF S
  <2> QED
    BY <2>1, MaxOf
<1> HIDE DEF m
<1>2. m \in 1 .. n /\ lev[m] # lv[m] /\ m # n
  BY <1>1
<1>3. /\ m + 1 \in 1 .. n /\ m + 1 \in 2 .. Len(s) /\ m + 1 \in 2 .. Len(t)
      /\ m \in 1 .. Len(s) /\ m \in 1 .. Len(t) /\ m + 1 \in 1 .. Len(s) /\ m + 1 \in 1 .. Len(t)
      /\ (m + 1) - 1 = m
  BY <1>2
<1>4. lev[m + 1] = lv[m + 1]
  <2>1. m + 1 \notin S
    BY <1>1, <1>2, <1>3
  <2> QED
    BY <1>3, <2>1
<1> HIDE DEF S
<1>5. t[m + 1].kind = s[m + 1].kind /\ t[m + 1].keep = s[m + 1].keep
  BY <1>3
<1>6. lev[m] \in Nat /\ lv[m] \in Nat
  BY <1>3, ScopesAssumption DEF Levels
<1>7. CASE s[m + 1].kind \in {"function", "arm", "call"}
  BY <1>2, <1>3, <1>5, <1>7 DEF Levels
<1>8. CASE s[m + 1].kind = "catch"
  <2>1. lev[m + 1] = lev[m] + 1 /\ lv[m + 1] = lv[m] + 1
    BY <1>3, <1>5, <1>8, ZenonT(30) DEF Levels
  <2>2. ASSUME NEW p \in Nat, NEW q \in Nat, p + 1 = q + 1
        PROVE  p = q
    BY <2>2
  <2> QED
    BY <1>2, <1>4, <1>6, <2>1, <2>2
<1>9. CASE s[m + 1].kind \in {"then", "else", "loop", "try"}
  <2>1. Flat(s, m, m + 1) /\ Flat(t, m, m + 1)
    BY <1>3, <1>5, <1>9 DEF Flat
  <2>2. lev[m] = lev[m + 1] /\ lv[m] = lv[m + 1]
    BY <1>3, <2>1 DEF Levels
  <2> QED
    BY <1>2, <1>4, <2>2
<1> QED
  BY <1>3, <1>7, <1>8, <1>9 DEF Kinds, Blocks

-----------------------------------------------------------------------------
(* Sequences of constructs that are judged right *)

\* What is said of s depends on these fields only; a test may be forgotten.
LEMMA JudgedSame ==
    ASSUME NEW s, NEW lev, NEW T, Judging(s, lev, T), Len(s) \in Nat,
           NEW t, Len(t) = Len(s),
           \A i \in 1 .. Len(s) :
             /\ t[i].kind = s[i].kind /\ t[i].names = s[i].names /\ t[i].past = s[i].past
             /\ t[i].tests = s[i].tests /\ t[i].local = s[i].local /\ t[i].was = s[i].was
             /\ t[i].finds = s[i].finds \/ t[i].finds = "assigned"
    PROVE  Judging(t, lev, T)
<1> DEFINE n == Len(s)
<1>1. Typed(t, T)
  BY DEF Judging, Typed
<1>2. \A i, j \in 1 .. n : Together(t, i, j) <=> Together(s, i, j)
  BY SameKinds
<1>3. Tested(t)
  <2>1. ASSUME NEW b \in 1 .. n, s[b].tests # <<>> \/ s[b].local # NoSlot
        PROVE  /\ t[b].kind \in {"then", "loop", "arm"}
               /\ t[b].finds \in Variants \cup {"assigned"}
               /\ \E d \in 1 .. b - 1 : \E y \in DOMAIN t[d].names :
                    /\ t[b].tests = <<d, y>> /\ Together(t, d, b)
                    /\ t[b].local = t[d].names[y].slot
    <3>1. /\ s[b].kind \in {"then", "loop", "arm"}
          /\ s[b].finds \in Variants \cup {"assigned"}
          /\ \E d \in 1 .. b - 1 : \E y \in DOMAIN s[d].names :
               /\ s[b].tests = <<d, y>> /\ Together(s, d, b)
               /\ s[b].local = s[d].names[y].slot
      BY <2>1 DEF Judging, Tested
    <3>2. PICK d \in 1 .. b - 1 : \E y \in DOMAIN s[d].names :
               /\ s[b].tests = <<d, y>> /\ Together(s, d, b)
               /\ s[b].local = s[d].names[y].slot
      BY <3>1
    <3>3. d \in 1 .. n /\ t[d].names = s[d].names
      BY <3>2
    <3>4. /\ t[b].kind = s[b].kind /\ t[b].tests = s[b].tests /\ t[b].local = s[b].local
          /\ t[b].finds \in Variants \cup {"assigned"}
      BY <3>1
    <3>5. PICK y \in DOMAIN s[d].names :
               /\ s[b].tests = <<d, y>> /\ Together(s, d, b)
               /\ s[b].local = s[d].names[y].slot
      BY <3>2
    <3>6. Together(t, d, b)
      BY <1>2, <3>3, <3>5
    <3>7. /\ y \in DOMAIN t[d].names /\ t[b].tests = <<d, y>>
          /\ t[b].local = t[d].names[y].slot
      BY <3>3, <3>4, <3>5
    <3> QED
      BY <3>1, <3>4, <3>6, <3>7
  <2> QED
    BY <2>1 DEF Tested
<1>4. Guards(t, T)
  <2>1. ASSUME NEW a \in 0 .. n + 1, NEW b \in 0 .. n + 1, NEW k
        PROVE  NoTest(t, a, b, k) <=> NoTest(s, a, b, k)
    <3>1. \A c \in a + 1 .. b - 1 : c \in 1 .. Len(s)
      OBVIOUS
    <3>2. \A c \in a + 1 .. b - 1 : t[c].local = s[c].local
      BY <3>1
    <3> QED
      BY <3>2, Zenon DEF NoTest
  <2>2. "assigned" \notin Variants
    BY DEF Variants
  <2>3. ASSUME NEW b \in 1 .. n, t[b].local # NoSlot
        PROVE  /\ NoTest(t, b, n + 1, t[b].local) /\ t[b].finds \in Variants
                    => T[t[b].local].guard = t[b].finds
               /\ \A a \in 1 .. b - 1 :
                    /\ t[a].local = t[b].local /\ t[a].finds \in Variants
                    /\ NoTest(t, a, b, t[b].local)
                    => t[b].was = t[a].finds
               /\ NoTest(t, 0, b, t[b].local) => t[b].was = "no"
    <3>1. \A a \in 1 .. b - 1 : a \in 1 .. n
      OBVIOUS
    <3> QED
      BY <2>1, <2>2, <2>3, <3>1 DEF Judging, Guards
  <2> QED
    BY <2>3 DEF Guards
<1>5. \A j \in 1 .. n : Ends(t, j) <=> Ends(s, j)
  BY DEF Ends
<1>6. Untested(t, lev, T)
  BY <1>5 DEF Judging, Untested, NoTest
<1>7. Remembered(t, lev, T)
  <2>1. ASSUME NEW f \in 1 .. n, NEW j \in 1 .. n, f <= j, t[f].kind = "function",
               Together(t, f, j), Ends(t, j), NEW k \in 0 .. lev[j] - 1
        PROVE  \/ \E i \in f .. j : T[k].name \in DOMAIN t[i].names
               \/ \E m \in k + 1 .. lev[j] - 1 : T[m].name = T[k].name
               \/ <<T[k].name, T[k].type>> \in t[f].past
    <3>1. \/ \E i \in f .. j : T[k].name \in DOMAIN s[i].names
          \/ \E m \in k + 1 .. lev[j] - 1 : T[m].name = T[k].name
          \/ <<T[k].name, T[k].type>> \in s[f].past
      BY <1>2, <1>5, <2>1 DEF Judging, Remembered
    <3> QED
      BY <3>1, SMTT(30)
  <2> QED
    BY <2>1 DEF Remembered
<1>8. Unused(t, lev)
  <2>1. \A i \in 1 .. n : Blank(t[i]) <=> Blank(s[i])
    BY DEF Blank
  <2>2. ASSUME NEW j \in 1 .. n, Ends(t, j), \A i \in 1 .. j : Blank(t[i])
        PROVE  lev[j] = 0
    <3>1. \A i \in 1 .. j : Blank(s[i])
      BY <2>1, <2>2
    <3> QED
      BY <1>5, <2>2, <3>1 DEF Judging, Unused
  <2> QED
    BY <2>2 DEF Unused
<1> QED
  BY <1>1, <1>3, <1>4, <1>6, <1>7, <1>8 DEF Judging

\* levels and slots are numbers of entries of the table
Inside(s, lev) ==
    /\ lev \in [1 .. Len(s) -> 0 .. MAX_LOCALS]
    /\ \A i \in 1 .. Len(s) : \A x \in DOMAIN s[i].names : s[i].names[x].slot \in Slots

\* U is T, but entry k may have another guard
Reguards(T, U, k) ==
    \A m \in Slots : /\ U[m].name = T[m].name /\ U[m].type = T[m].type
                     /\ m # k => U[m].guard = T[m].guard

\* c is the construct that t has behind s; it declares nothing, and tests an
\* entry in use or nothing
Enters(s, lev, T, t, c, lv, U) ==
    /\ Len(s) \in Nat \ {0} /\ Inside(s, lev)
    /\ Len(t) = Len(s) + 1 /\ (\A i \in 1 .. Len(s) : t[i] = s[i]) /\ t[Len(s) + 1] = c
    /\ DOMAIN c.names = {} /\ c.past = {}
    /\ s[Len(s)].kind = "call" => c.kind \in {"call", "function"}
    /\ \A i \in 1 .. Len(s) : Ends(s, i) => lv[i] = lev[i]
    /\ c.kind = "function" => lv[Len(s) + 1] = 0
    /\ c.kind \notin {"function", "call"} => lv[Len(s) + 1] = lev[Len(s)]
    /\ Reguards(T, U, c.local)
    /\ \/ c.tests = <<>> /\ c.local = NoSlot
       \/ /\ c.kind \in {"then", "loop", "arm"} /\ c.finds \in Variants
          /\ c.local \in 0 .. lev[Len(s)] - 1
          /\ U[c.local].guard = c.finds /\ c.was = T[c.local].guard
          /\ \E d \in 1 .. Len(s) : \E y \in DOMAIN s[d].names :
               /\ c.tests = <<d, y>> /\ Together(s, d, Len(s))
               /\ c.local = s[d].names[y].slot

LEMMA JudgedPush ==
    ASSUME NEW s, NEW lev, NEW T, NEW t, NEW c, NEW lv, NEW U,
           Judging(s, lev, T), Enters(s, lev, T, t, c, lv, U)
    PROVE  Judging(t, lv, U)
<1> DEFINE n == Len(s)
<1>1. /\ n \in Nat \ {0} /\ Len(t) = n + 1 /\ \A i \in 1 .. n : t[i] = s[i]
      /\ t[n + 1] = c /\ DOMAIN c.names = {} /\ c.past = {}
      /\ n \in 1 .. n /\ \A i \in 1 .. n + 1 : i \in 1 .. n \/ i = n + 1
  BY DEF Enters
<1>2. Reguards(T, U, c.local) /\ MAX_LOCALS \in Nat /\ Inside(s, lev)
  BY ScopesAssumption DEF Enters
<1>3. \A j \in 1 .. n : lev[j] \in 0 .. MAX_LOCALS /\ \A k \in 0 .. lev[j] - 1 : k \in Slots
  <2>1. ASSUME NEW j \in 1 .. n
        PROVE  lev[j] \in 0 .. MAX_LOCALS
    BY <1>2 DEF Inside
  <2>2. ASSUME NEW v \in 0 .. MAX_LOCALS, NEW k \in 0 .. v - 1
        PROVE  k \in Slots
    BY <1>2, <2>2 DEF Slots
  <2> QED
    BY <2>1, <2>2
<1>4. ASSUME c.kind # "call", c.kind # "function"
      PROVE  Ends(s, n) /\ lv[n + 1] = lev[n]
  BY <1>1, <1>4 DEF Enters, Ends
<1>5. ASSUME NEW j \in 1 .. n, Ends(t, j)
      PROVE  Ends(s, j) /\ lv[j] = lev[j]
  <2>1. s[j].kind # "call"
    BY <1>1, <1>5 DEF Ends
  <2>2. CASE j = n
    BY <2>1, <2>2 DEF Ends, Enters
  <2>3. CASE j # n
    <3>1. j + 1 \in 1 .. n /\ j # n + 1
      BY <2>3
    <3>2. t[j + 1] = s[j + 1]
      BY <1>1, <3>1
    <3> QED
      BY <1>1, <1>5, <2>1, <3>1, <3>2 DEF Ends, Enters
  <2> QED
    BY <2>2, <2>3
<1>6. \A i, j \in 1 .. n : Together(t, i, j) <=> Together(s, i, j)
  <2>1. n \in Nat /\ \A i \in 1 .. n : t[i].kind = s[i].kind
    BY <1>1
  <2> HIDE DEF n
  <2> QED
    BY <2>1, SameKinds
<1>7. ASSUME NEW a \in 0 .. n, NEW b \in 1 .. n + 1, NEW k
      PROVE  NoTest(t, a, b, k) <=> NoTest(s, a, b, k)
  <2>1. \A i \in a + 1 .. b - 1 : i \in 1 .. n
    BY <1>7
  <2> QED
    BY <1>1, <2>1 DEF NoTest
<1>8. ASSUME NEW a \in 0 .. n, NEW k
      PROVE  NoTest(t, a, n + 2, k) <=> NoTest(s, a, n + 1, k) /\ c.local # k
  <2>1. \A i : i \in a + 1 .. (n + 2) - 1 <=> i \in a + 1 .. (n + 1) - 1 \/ i = n + 1
    BY <1>1, <1>8
  <2>2. \A i \in a + 1 .. (n + 1) - 1 : i \in 1 .. n
    BY <1>1, <1>8
  <2> QED
    BY <1>1, <2>1, <2>2 DEF NoTest
<1> HIDE DEF n
<1>9. Typed(t, U)
  <2>1. ASSUME NEW i \in 1 .. n + 1, NEW x \in DOMAIN t[i].names
        PROVE  U[t[i].names[x].slot].type = t[i].names[x].type
    <3>1. i \in 1 .. n /\ t[i] = s[i]
      BY <1>1, <2>1
    <3>2. s[i].names[x].slot \in Slots
      BY <1>2, <2>1, <3>1 DEF Inside, n
    <3>3. T[s[i].names[x].slot].type = s[i].names[x].type
      BY <2>1, <3>1 DEF Judging, Typed, n
    <3> QED
      BY <1>2, <3>1, <3>2, <3>3 DEF Reguards
  <2> QED
    BY <1>1, <2>1 DEF Typed
<1>10. Tested(t)
  <2>1. ASSUME NEW b \in 1 .. n
        PROVE  \/ t[b].tests = <<>> /\ t[b].local = NoSlot
               \/ /\ t[b].kind \in {"then", "loop", "arm"}
                  /\ t[b].finds \in Variants \cup {"assigned"}
                  /\ \E d \in 1 .. b - 1 : \E y \in DOMAIN t[d].names :
                       /\ t[b].tests = <<d, y>> /\ Together(t, d, b)
                       /\ t[b].local = t[d].names[y].slot
    <3>1. CASE s[b].tests = <<>> /\ s[b].local = NoSlot
      BY <1>1, <3>1
    <3>2. CASE ~ (s[b].tests = <<>> /\ s[b].local = NoSlot)
      <4>1. /\ s[b].kind \in {"then", "loop", "arm"}
            /\ s[b].finds \in Variants \cup {"assigned"}
            /\ \E d \in 1 .. b - 1 : \E y \in DOMAIN s[d].names :
                 /\ s[b].tests = <<d, y>> /\ Together(s, d, b)
                 /\ s[b].local = s[d].names[y].slot
        BY <3>2 DEF Judging, Tested, n
      <4>2. PICK d \in 1 .. b - 1 : \E y \in DOMAIN s[d].names :
                 /\ s[b].tests = <<d, y>> /\ Together(s, d, b)
                 /\ s[b].local = s[d].names[y].slot
        BY <4>1
      <4>3. d \in 1 .. n /\ t[d] = s[d] /\ t[b] = s[b]
        BY <1>1, <4>2
      <4>4. Together(t, d, b) <=> Together(s, d, b)
        BY <1>6, <4>3
      <4> QED
        BY <4>1, <4>2, <4>3, <4>4
    <3> QED
      BY <3>1, <3>2
  <2>2. \/ t[n + 1].tests = <<>> /\ t[n + 1].local = NoSlot
        \/ /\ t[n + 1].kind \in {"then", "loop", "arm"}
           /\ t[n + 1].finds \in Variants \cup {"assigned"}
           /\ \E d \in 1 .. (n + 1) - 1 : \E y \in DOMAIN t[d].names :
                /\ t[n + 1].tests = <<d, y>> /\ Together(t, d, n + 1)
                /\ t[n + 1].local = t[d].names[y].slot
    <3>1. CASE c.tests = <<>> /\ c.local = NoSlot
      BY <1>1, <3>1
    <3>2. CASE ~ (c.tests = <<>> /\ c.local = NoSlot)
      <4>1. /\ c.kind \in {"then", "loop", "arm"} /\ c.finds \in Variants
            /\ \E d \in 1 .. n : \E y \in DOMAIN s[d].names :
                 /\ c.tests = <<d, y>> /\ Together(s, d, n)
                 /\ c.local = s[d].names[y].slot
        BY <3>2 DEF Enters, n
      <4>2. PICK d \in 1 .. n : \E y \in DOMAIN s[d].names :
                 /\ c.tests = <<d, y>> /\ Together(s, d, n)
                 /\ c.local = s[d].names[y].slot
        BY <4>1
      <4>3. t[d] = s[d] /\ d \in 1 .. (n + 1) - 1
        BY <1>1, <4>2
      <4>4. Together(t, d, n)
        BY <1>1, <1>6, <4>2
      <4>5. Together(t, d, n + 1)
        <5>1. \A m \in d + 1 .. n + 1 : m \in d + 1 .. n \/ m = n + 1
          BY <1>1
        <5> QED
          BY <1>1, <4>1, <4>4, <5>1 DEF Together
      <4> QED
        BY <1>1, <4>1, <4>2, <4>3, <4>5
    <3> QED
      BY <3>1, <3>2
  <2> QED
    BY <1>1, <2>1, <2>2 DEF Tested
<1>11. \A b \in 1 .. n : s[b].local # NoSlot => s[b].local \in Slots
  <2>1. ASSUME NEW b \in 1 .. n, s[b].local # NoSlot
        PROVE  s[b].local \in Slots
    <3>1. \E d \in 1 .. b - 1 : \E y \in DOMAIN s[d].names :
             s[b].local = s[d].names[y].slot
      BY <2>1 DEF Judging, Tested, n
    <3>2. PICK d \in 1 .. b - 1 : \E y \in DOMAIN s[d].names :
             s[b].local = s[d].names[y].slot
      BY <3>1
    <3>3. d \in 1 .. n
      BY <1>1, <3>2
    <3> QED
      BY <1>2, <3>2, <3>3 DEF Inside, n
  <2> QED
    BY <2>1
<1>12. Guards(t, U)
  <2>1. ASSUME NEW b \in 1 .. n, t[b].local # NoSlot
        PROVE  /\ NoTest(t, b, (n + 1) + 1, t[b].local) /\ t[b].finds \in Variants
                    => U[t[b].local].guard = t[b].finds
               /\ \A a \in 1 .. b - 1 :
                    /\ t[a].local = t[b].local /\ t[a].finds \in Variants
                    /\ NoTest(t, a, b, t[b].local)
                    => t[b].was = t[a].finds
               /\ NoTest(t, 0, b, t[b].local) => t[b].was = "no"
    <3>1. t[b] = s[b] /\ s[b].local \in Slots /\ (n + 1) + 1 = n + 2
      BY <1>1, <1>11, <2>1
    <3>2. NoTest(t, b, n + 2, s[b].local)
            => NoTest(s, b, n + 1, s[b].local) /\ c.local # s[b].local
      <4>1. b \in 0 .. n
        BY <1>1
      <4> QED
        BY <1>8, <4>1
    <3>3. c.local # s[b].local => U[s[b].local].guard = T[s[b].local].guard
      BY <1>2, <3>1 DEF Reguards
    <3>4. \A a \in 1 .. b - 1 : a \in 1 .. n /\ a \in 0 .. n /\ t[a] = s[a]
      BY <1>1
    <3>5. b \in 1 .. n + 1 /\ 0 \in 0 .. n
      BY <1>1
    <3>6. /\ \A a \in 1 .. b - 1 : NoTest(t, a, b, s[b].local) <=> NoTest(s, a, b, s[b].local)
          /\ NoTest(t, 0, b, s[b].local) <=> NoTest(s, 0, b, s[b].local)
      BY <1>7, <3>4, <3>5
    <3>7. /\ NoTest(s, b, n + 1, s[b].local) /\ s[b].finds \in Variants
               => T[s[b].local].guard = s[b].finds
          /\ \A a \in 1 .. b - 1 :
               /\ s[a].local = s[b].local /\ s[a].finds \in Variants
               /\ NoTest(s, a, b, s[b].local)
               => s[b].was = s[a].finds
          /\ NoTest(s, 0, b, s[b].local) => s[b].was = "no"
      BY <2>1, <3>1 DEF Judging, Guards, n
    <3> QED
      BY <3>1, <3>2, <3>3, <3>4, <3>6, <3>7
  <2>2. ASSUME c.local # NoSlot
        PROVE  /\ c.finds \in Variants => U[c.local].guard = c.finds
               /\ \A a \in 1 .. (n + 1) - 1 :
                    /\ t[a].local = c.local /\ t[a].finds \in Variants
                    /\ NoTest(t, a, n + 1, c.local)
                    => c.was = t[a].finds
               /\ NoTest(t, 0, n + 1, c.local) => c.was = "no"
    <3>1. /\ U[c.local].guard = c.finds /\ c.was = T[c.local].guard
          /\ c.local \in 0 .. lev[n] - 1 /\ c.kind \in {"then", "loop", "arm"}
      BY <2>2 DEF Enters, n
    <3>2. ASSUME NEW a \in 1 .. (n + 1) - 1, t[a].local = c.local, t[a].finds \in Variants,
                 NoTest(t, a, n + 1, c.local)
          PROVE  c.was = t[a].finds
      <4>1. a \in 1 .. n /\ a \in 0 .. n /\ t[a] = s[a] /\ n + 1 \in 1 .. n + 1
        BY <1>1
      <4>2. NoTest(s, a, n + 1, c.local)
        BY <1>7, <3>2, <4>1
      <4> QED
        BY <2>2, <3>1, <3>2, <4>1, <4>2 DEF Judging, Guards, n
    <3>3. ASSUME NoTest(t, 0, n + 1, c.local)
          PROVE  c.was = "no"
      <4>1. 0 \in 0 .. n /\ n + 1 \in 1 .. n + 1
        BY <1>1
      <4>2. NoTest(s, 0, n + 1, c.local)
        BY <1>7, <3>3, <4>1
      <4>3. Ends(s, n)
        BY <1>4, <3>1
      <4> QED
        BY <1>1, <3>1, <4>2, <4>3 DEF Judging, Untested, n
    <3> QED
      BY <3>1, <3>2, <3>3
  <2> QED
    BY <1>1, <2>1, <2>2 DEF Guards
<1>13. Untested(t, lv, U)
  <2>1. ASSUME NEW j \in 1 .. n, Ends(s, j), NEW k \in 0 .. lev[j] - 1,
               NoTest(t, 0, (n + 1) + 1, k)
        PROVE  U[k].guard = "no"
    <3>1. (n + 1) + 1 = n + 2 /\ 0 \in 0 .. n
      BY <1>1
    <3>2. NoTest(s, 0, n + 1, k) /\ c.local # k
      BY <1>8, <2>1, <3>1
    <3>3. T[k].guard = "no"
      BY <2>1, <3>2 DEF Judging, Untested, n
    <3>4. k \in Slots
      BY <1>3, <2>1
    <3> QED
      BY <1>2, <3>2, <3>3, <3>4 DEF Reguards
  <2>2. ASSUME NEW j \in 1 .. n + 1, Ends(t, j), NEW k \in 0 .. lv[j] - 1,
               NoTest(t, 0, (n + 1) + 1, k)
        PROVE  U[k].guard = "no"
    <3>1. CASE j \in 1 .. n
      BY <1>5, <2>1, <2>2, <3>1
    <3>2. CASE j = n + 1 /\ c.kind # "function"
      <4>1. c.kind # "call"
        BY <1>1, <2>2, <3>2 DEF Ends
      <4> QED
        BY <1>1, <1>4, <2>1, <2>2, <3>2, <4>1
    <3>3. CASE j = n + 1 /\ c.kind = "function"
      BY <2>2, <3>3 DEF Enters, n
    <3> QED
      BY <1>1, <3>1, <3>2, <3>3
  <2> QED
    BY <1>1, <2>2 DEF Untested
<1>14. Remembered(t, lv, U)
  <2>1. ASSUME NEW f \in 1 .. n, NEW j \in 1 .. n, f <= j, s[f].kind = "function",
               Together(s, f, j), Ends(s, j), NEW k \in 0 .. lev[j] - 1
        PROVE  \/ \E i \in f .. j : U[k].name \in DOMAIN t[i].names
               \/ \E m \in k + 1 .. lev[j] - 1 : U[m].name = U[k].name
               \/ <<U[k].name, U[k].type>> \in t[f].past
    <3>1. \/ \E i \in f .. j : T[k].name \in DOMAIN s[i].names
          \/ \E m \in k + 1 .. lev[j] - 1 : T[m].name = T[k].name
          \/ <<T[k].name, T[k].type>> \in s[f].past
      BY <2>1 DEF Judging, Remembered, n
    <3>2. \A m \in 0 .. lev[j] - 1 : U[m].name = T[m].name /\ U[m].type = T[m].type
      BY <1>2, <1>3, <2>1 DEF Reguards
    <3>3. \A m \in k + 1 .. lev[j] - 1 : m \in 0 .. lev[j] - 1
      BY <2>1
    <3>4. \A i \in f .. j : t[i] = s[i]
      BY <1>1, <2>1
    <3> QED
      BY <1>1, <2>1, <3>1, <3>2, <3>3, <3>4
  <2>2. ASSUME NEW f \in 1 .. n + 1, NEW j \in 1 .. n + 1, f <= j, t[f].kind = "function",
               Together(t, f, j), Ends(t, j), NEW k \in 0 .. lv[j] - 1
        PROVE  \/ \E i \in f .. j : U[k].name \in DOMAIN t[i].names
               \/ \E m \in k + 1 .. lv[j] - 1 : U[m].name = U[k].name
               \/ <<U[k].name, U[k].type>> \in t[f].past
    <3>1. CASE j \in 1 .. n
      <4>1. f \in 1 .. n /\ t[f] = s[f]
        BY <1>1, <2>2, <3>1
      <4>2. Ends(s, j) /\ lv[j] = lev[j] /\ Together(s, f, j)
        BY <1>5, <1>6, <2>2, <3>1, <4>1
      <4> QED
        BY <2>1, <2>2, <3>1, <4>1, <4>2
    <3>2. CASE j = n + 1 /\ c.kind = "function"
      BY <2>2, <3>2 DEF Enters, n
    <3>3. CASE j = n + 1 /\ c.kind # "function"
      <4>1. c.kind # "call"
        BY <1>1, <2>2, <3>3 DEF Ends
      <4>2. Ends(s, n) /\ lv[n + 1] = lev[n]
        BY <1>4, <3>3, <4>1
      <4>3. f \in 1 .. n /\ t[f] = s[f] /\ n \in 1 .. n /\ f <= n
        BY <1>1, <2>2, <3>3
      <4>4. Together(t, f, n)
        <5>1. \A m \in f + 1 .. n : m \in f + 1 .. n + 1
          BY <1>1
        <5> QED
          BY <2>2, <3>3, <5>1 DEF Together
      <4>5. Together(s, f, n)
        BY <1>6, <4>3, <4>4
      <4>6. \A i \in f .. n : i \in f .. n + 1
        BY <1>1
      <4>7. k \in 0 .. lev[n] - 1
        BY <2>2, <3>3, <4>2
      <4>8. \/ \E i \in f .. n : U[k].name \in DOMAIN t[i].names
            \/ \E m \in k + 1 .. lev[n] - 1 : U[m].name = U[k].name
            \/ <<U[k].name, U[k].type>> \in t[f].past
        BY <2>1, <2>2, <4>2, <4>3, <4>5, <4>7
      <4> QED
        BY <3>3, <4>2, <4>6, <4>8
    <3> QED
      BY <1>1, <3>1, <3>2, <3>3
  <2> QED
    BY <1>1, <2>2 DEF Remembered
<1>15. Unused(t, lv)
  <2>1. ASSUME NEW j \in 1 .. n + 1, Ends(t, j), \A i \in 1 .. j : Blank(t[i])
        PROVE  lv[j] = 0
    <3>1. CASE j \in 1 .. n
      <4>1. \A i \in 1 .. j : Blank(s[i])
        BY <1>1, <2>1, <3>1
      <4> QED
        BY <1>5, <2>1, <3>1, <4>1 DEF Judging, Unused, n
    <3>2. CASE j = n + 1 /\ c.kind = "function"
      BY <3>2 DEF Enters, n
    <3>3. CASE j = n + 1 /\ c.kind # "function"
      <4>1. c.kind # "call"
        BY <1>1, <2>1, <3>3 DEF Ends
      <4>2. Ends(s, n) /\ lv[n + 1] = lev[n]
        BY <1>4, <3>3, <4>1
      <4>3. \A i \in 1 .. n : Blank(s[i])
        BY <1>1, <2>1, <3>3
      <4> QED
        BY <1>1, <3>3, <4>2, <4>3 DEF Judging, Unused, n
    <3> QED
      BY <1>1, <3>1, <3>2, <3>3
  <2> QED
    BY <1>1, <2>1 DEF Unused
<1> QED
  BY <1>9, <1>10, <1>12, <1>13, <1>14, <1>15 DEF Judging

Levelled == {"then", "else", "loop", "try"}

\* t is s without its last construct, of function f; the guard of what it tests
\* is put back, and the names of a block that keeps no level are remembered
Exits(s, lev, T, t, lv, U, f) ==
    /\ Len(s) \in Nat /\ Len(s) > 1 /\ Inside(s, lev) /\ Len(t) = Len(s) - 1
    /\ \A i \in 1 .. Len(t) :
         /\ t[i].kind = s[i].kind /\ t[i].names = s[i].names /\ t[i].tests = s[i].tests
         /\ t[i].finds = s[i].finds /\ t[i].local = s[i].local /\ t[i].was = s[i].was
         /\ s[i].past \subseteq t[i].past
    /\ s[Len(s)].kind \in Blocks \cup {"call"}
    /\ \A i \in 1 .. Len(t) : Ends(s, i) => lv[i] = lev[i]
    /\ Reguards(T, U, s[Len(s)].local)
    /\ s[Len(s)].local # NoSlot => U[s[Len(s)].local].guard = s[Len(s)].was
    /\ s[Len(s)].kind \in Levelled =>
         /\ lv[Len(t)] = lev[Len(s)]
         /\ f \in 1 .. Len(t) /\ s[f].kind = "function" /\ Together(s, f, Len(s))
         /\ \A x \in DOMAIN s[Len(s)].names :
              /\ <<x, s[Len(s)].names[x].type>> \in t[f].past
              /\ s[Len(s)].names[x].slot \in 0 .. lev[Len(s)] - 1
              /\ T[s[Len(s)].names[x].slot].name = x
              /\ \A m \in s[Len(s)].names[x].slot + 1 .. lev[Len(s)] - 1 : T[m].name # x

LEMMA JudgedClose ==
    ASSUME NEW s, NEW lev, NEW T, NEW t, NEW lv, NEW U, NEW f,
           Judging(s, lev, T), Exits(s, lev, T, t, lv, U, f)
    PROVE  Judging(t, lv, U)
<1> DEFINE n == Len(s)
           p == Len(t)
           c == s[n]
<1>1. /\ n \in Nat /\ n > 1 /\ p = n - 1 /\ p \in Nat \ {0} /\ n = p + 1
      /\ \A i \in 1 .. p : i \in 1 .. n
      /\ n \in 1 .. n /\ p \in 1 .. p
  BY DEF Exits
<1>2. Reguards(T, U, c.local) /\ MAX_LOCALS \in Nat /\ Inside(s, lev)
  BY ScopesAssumption DEF Exits
<1>3. \A j \in 1 .. n : lev[j] \in 0 .. MAX_LOCALS /\ \A k \in 0 .. lev[j] - 1 : k \in Slots
  <2>1. ASSUME NEW j \in 1 .. n
        PROVE  lev[j] \in 0 .. MAX_LOCALS
    BY <1>2 DEF Inside
  <2>2. ASSUME NEW v \in 0 .. MAX_LOCALS, NEW k \in 0 .. v - 1
        PROVE  k \in Slots
    BY <1>2, <2>2 DEF Slots
  <2> QED
    BY <2>1, <2>2
<1>4. \A i \in 1 .. p :
         /\ t[i].kind = s[i].kind /\ t[i].names = s[i].names /\ t[i].tests = s[i].tests
         /\ t[i].finds = s[i].finds /\ t[i].local = s[i].local /\ t[i].was = s[i].was
         /\ s[i].past \subseteq t[i].past
  BY DEF Exits
<1>5. ASSUME NEW j \in 1 .. p, Ends(t, j)
      PROVE  \/ Ends(s, j) /\ lv[j] = lev[j]
             \/ j = p /\ c.kind \in Levelled /\ Ends(s, n) /\ lv[p] = lev[n]
  <2>1. s[j].kind # "call"
    BY <1>4, <1>5 DEF Ends
  <2>2. CASE j = p /\ c.kind \in Levelled
    <3>1. Ends(s, n)
      BY <2>2 DEF Ends, Levelled
    <3> QED
      BY <2>2, <3>1 DEF Exits
  <2>3. CASE j = p /\ c.kind \notin Levelled
    <3>1. c.kind \in {"function", "arm", "catch", "call"}
      BY <2>3 DEF Exits, Blocks, Levelled
    <3>2. Ends(s, j)
      BY <1>1, <2>1, <2>3, <3>1 DEF Ends
    <3> QED
      BY <3>2 DEF Exits
  <2>4. CASE j # p
    <3>1. j + 1 \in 1 .. p
      BY <1>1, <2>4
    <3>2. t[j + 1].kind = s[j + 1].kind
      BY <1>4, <3>1
    <3>3. Ends(s, j)
      BY <1>5, <2>1, <2>4, <3>2 DEF Ends
    <3> QED
      BY <3>3 DEF Exits
  <2> QED
    BY <2>2, <2>3, <2>4
<1>6. \A i, j \in 1 .. p : Together(t, i, j) <=> Together(s, i, j)
  <2>1. p \in Nat /\ \A i \in 1 .. p : t[i].kind = s[i].kind
    BY <1>1, <1>4
  <2> HIDE DEF p
  <2> QED
    BY <2>1, SameKinds
<1>7. ASSUME NEW a \in 0 .. p, NEW b \in 1 .. p + 1, NEW k
      PROVE  NoTest(t, a, b, k) <=> NoTest(s, a, b, k)
  <2>1. \A i \in a + 1 .. b - 1 : i \in 1 .. p
    BY <1>7
  <2> QED
    BY <1>4, <2>1 DEF NoTest
<1>8. ASSUME NEW a \in 0 .. p, NEW k, c.local # k, NoTest(s, a, n, k)
      PROVE  NoTest(s, a, n + 1, k)
  <2>1. \A i \in a + 1 .. (n + 1) - 1 : i \in a + 1 .. n - 1 \/ i = n
    BY <1>1, <1>8
  <2> QED
    BY <1>8, <2>1 DEF NoTest
<1> HIDE DEF n, p, c
<1>9. Typed(t, U)
  <2>1. ASSUME NEW i \in 1 .. p, NEW x \in DOMAIN t[i].names
        PROVE  U[t[i].names[x].slot].type = t[i].names[x].type
    <3>1. i \in 1 .. n /\ t[i].names = s[i].names
      BY <1>1, <1>4
    <3>2. s[i].names[x].slot \in Slots
      BY <1>2, <2>1, <3>1 DEF Inside, n
    <3>3. T[s[i].names[x].slot].type = s[i].names[x].type
      BY <2>1, <3>1 DEF Judging, Typed, n
    <3> QED
      BY <1>2, <3>1, <3>2, <3>3 DEF Reguards
  <2> QED
    BY <2>1 DEF Typed, p
<1>10. Tested(t)
  <2>1. ASSUME NEW b \in 1 .. p
        PROVE  \/ t[b].tests = <<>> /\ t[b].local = NoSlot
               \/ /\ t[b].kind \in {"then", "loop", "arm"}
                  /\ t[b].finds \in Variants \cup {"assigned"}
                  /\ \E d \in 1 .. b - 1 : \E y \in DOMAIN t[d].names :
                       /\ t[b].tests = <<d, y>> /\ Together(t, d, b)
                       /\ t[b].local = t[d].names[y].slot
    <3>1. CASE s[b].tests = <<>> /\ s[b].local = NoSlot
      BY <1>4, <3>1
    <3>2. CASE ~ (s[b].tests = <<>> /\ s[b].local = NoSlot)
      <4>0. b \in 1 .. n
        BY <1>1
      <4>1. /\ s[b].kind \in {"then", "loop", "arm"}
            /\ s[b].finds \in Variants \cup {"assigned"}
            /\ \E d \in 1 .. b - 1 : \E y \in DOMAIN s[d].names :
                 /\ s[b].tests = <<d, y>> /\ Together(s, d, b)
                 /\ s[b].local = s[d].names[y].slot
        BY <3>2, <4>0 DEF Judging, Tested, n
      <4>2. PICK d \in 1 .. b - 1 : \E y \in DOMAIN s[d].names :
                 /\ s[b].tests = <<d, y>> /\ Together(s, d, b)
                 /\ s[b].local = s[d].names[y].slot
        BY <4>1
      <4>3. d \in 1 .. p /\ t[d].names = s[d].names
        BY <1>1, <1>4, <4>2
      <4>4. Together(t, d, b) <=> Together(s, d, b)
        BY <1>6, <4>3
      <4> QED
        BY <1>4, <4>1, <4>2, <4>3, <4>4
    <3> QED
      BY <3>1, <3>2
  <2> QED
    BY <2>1 DEF Tested, p
<1>11. \A b \in 1 .. n : s[b].local # NoSlot => s[b].local \in Slots
  <2>1. ASSUME NEW b \in 1 .. n, s[b].local # NoSlot
        PROVE  s[b].local \in Slots
    <3>1. \E d \in 1 .. b - 1 : \E y \in DOMAIN s[d].names :
             s[b].local = s[d].names[y].slot
      BY <2>1 DEF Judging, Tested, n
    <3>2. PICK d \in 1 .. b - 1 : \E y \in DOMAIN s[d].names :
             s[b].local = s[d].names[y].slot
      BY <3>1
    <3>3. d \in 1 .. n
      BY <1>1, <3>2
    <3> QED
      BY <1>2, <3>2, <3>3 DEF Inside, n
  <2> QED
    BY <2>1
<1>12. Guards(t, U)
  <2>1. ASSUME NEW b \in 1 .. p, t[b].local # NoSlot
        PROVE  /\ NoTest(t, b, p + 1, t[b].local) /\ t[b].finds \in Variants
                    => U[t[b].local].guard = t[b].finds
               /\ \A a \in 1 .. b - 1 :
                    /\ t[a].local = t[b].local /\ t[a].finds \in Variants
                    /\ NoTest(t, a, b, t[b].local)
                    => t[b].was = t[a].finds
               /\ NoTest(t, 0, b, t[b].local) => t[b].was = "no"
    <3>1. /\ t[b].local = s[b].local /\ t[b].finds = s[b].finds /\ t[b].was = s[b].was
          /\ b \in 1 .. n /\ s[b].local \in Slots /\ p + 1 = n
      BY <1>1, <1>4, <1>11, <2>1
    <3>2. \A a \in 1 .. b - 1 :
             /\ a \in 1 .. p /\ a \in 0 .. p
             /\ t[a].local = s[a].local /\ t[a].finds = s[a].finds
      BY <1>1, <1>4
    <3>3. b \in 1 .. p + 1 /\ 0 \in 0 .. p /\ b \in 0 .. p /\ p + 1 \in 1 .. p + 1
      BY <1>1
    <3>4. /\ \A a \in 1 .. b - 1 : NoTest(t, a, b, s[b].local) <=> NoTest(s, a, b, s[b].local)
          /\ NoTest(t, 0, b, s[b].local) <=> NoTest(s, 0, b, s[b].local)
          /\ NoTest(t, b, p + 1, s[b].local) <=> NoTest(s, b, n, s[b].local)
      BY <1>7, <3>1, <3>2, <3>3
    <3>5. /\ NoTest(s, b, n + 1, s[b].local) /\ s[b].finds \in Variants
               => T[s[b].local].guard = s[b].finds
          /\ \A a \in 1 .. b - 1 :
               /\ s[a].local = s[b].local /\ s[a].finds \in Variants
               /\ NoTest(s, a, b, s[b].local)
               => s[b].was = s[a].finds
          /\ NoTest(s, 0, b, s[b].local) => s[b].was = "no"
      BY <2>1, <3>1 DEF Judging, Guards, n
    <3>6. ASSUME NoTest(s, b, n, s[b].local), s[b].finds \in Variants
          PROVE  U[s[b].local].guard = s[b].finds
      <4>1. CASE c.local = s[b].local
        <5>1. c.local # NoSlot /\ b \in 1 .. n - 1 /\ n \in 1 .. n
          BY <1>1, <2>1, <3>1, <4>1
        <5>2. c.was = s[b].finds
          BY <3>6, <4>1, <5>1 DEF Judging, Guards, n, c
        <5> QED
          BY <4>1, <5>1, <5>2 DEF Exits, n, c
      <4>2. CASE c.local # s[b].local
        <5>1. NoTest(s, b, n + 1, s[b].local)
          BY <1>8, <3>3, <3>6, <4>2
        <5> QED
          BY <1>2, <3>1, <3>5, <3>6, <4>2, <5>1 DEF Reguards
      <4> QED
        BY <4>1, <4>2
    <3> QED
      BY <3>1, <3>2, <3>4, <3>5, <3>6
  <2> QED
    BY <2>1 DEF Guards, p
<1>13. ASSUME NEW j \in 1 .. n, Ends(s, j), NEW k \in 0 .. lev[j] - 1, NoTest(t, 0, p + 1, k)
       PROVE  U[k].guard = "no"
  <2>1. 0 \in 0 .. p /\ p + 1 \in 1 .. p + 1 /\ n = p + 1 /\ n \in 1 .. n
    BY <1>1
  <2>2. NoTest(s, 0, n, k)
    BY <1>7, <1>13, <2>1
  <2>3. k \in Slots
    BY <1>3, <1>13
  <2>4. CASE c.local = k
    <3>1. c.local # NoSlot
      BY <1>3, <1>13, <2>4 DEF NoSlot
    <3>2. c.was = "no"
      BY <2>1, <2>2, <2>4, <3>1 DEF Judging, Guards, n, c
    <3> QED
      BY <2>4, <3>1, <3>2 DEF Exits, n, c
  <2>5. CASE c.local # k
    <3>1. NoTest(s, 0, n + 1, k)
      BY <1>8, <2>1, <2>2, <2>5
    <3>2. T[k].guard = "no"
      BY <1>13, <3>1 DEF Judging, Untested, n
    <3> QED
      BY <1>2, <2>3, <2>5, <3>2 DEF Reguards
  <2> QED
    BY <2>4, <2>5
<1>14. Untested(t, lv, U)
  <2>1. ASSUME NEW j \in 1 .. p, Ends(t, j), NEW k \in 0 .. lv[j] - 1, NoTest(t, 0, p + 1, k)
        PROVE  U[k].guard = "no"
    BY <1>1, <1>5, <1>13, <2>1
  <2> QED
    BY <2>1 DEF Untested, p
<1>15. Remembered(t, lv, U)
  <2>1. ASSUME NEW g \in 1 .. p, NEW j \in 1 .. n, g <= j, s[g].kind = "function",
               Together(s, g, j), Ends(s, j), NEW k \in 0 .. lev[j] - 1
        PROVE  \/ \E i \in g .. j : U[k].name \in DOMAIN s[i].names
               \/ \E m \in k + 1 .. lev[j] - 1 : U[m].name = U[k].name
               \/ <<U[k].name, U[k].type>> \in t[g].past
    <3>1. g \in 1 .. n /\ s[g].past \subseteq t[g].past
      BY <1>1, <1>4
    <3>2. \/ \E i \in g .. j : T[k].name \in DOMAIN s[i].names
          \/ \E m \in k + 1 .. lev[j] - 1 : T[m].name = T[k].name
          \/ <<T[k].name, T[k].type>> \in s[g].past
      BY <2>1, <3>1 DEF Judging, Remembered, n
    <3>3. \A m \in 0 .. lev[j] - 1 : U[m].name = T[m].name /\ U[m].type = T[m].type
      BY <1>2, <1>3, <2>1 DEF Reguards
    <3>4. \A m \in k + 1 .. lev[j] - 1 : m \in 0 .. lev[j] - 1
      BY <2>1
    <3> QED
      BY <2>1, <3>1, <3>2, <3>3, <3>4
  <2>2. ASSUME NEW g \in 1 .. p, NEW j \in 1 .. p, g <= j, t[g].kind = "function",
               Together(t, g, j), Ends(t, j), NEW k \in 0 .. lv[j] - 1
        PROVE  \/ \E i \in g .. j : U[k].name \in DOMAIN t[i].names
               \/ \E m \in k + 1 .. lv[j] - 1 : U[m].name = U[k].name
               \/ <<U[k].name, U[k].type>> \in t[g].past
    <3>1. /\ s[g].kind = "function" /\ Together(s, g, j) /\ j \in 1 .. n
          /\ \A i \in g .. j : t[i].names = s[i].names
      <4>1. \A i \in g .. j : i \in 1 .. p
        BY <1>1, <2>2
      <4> QED
        BY <1>1, <1>4, <1>6, <2>2, <4>1
    <3>2. CASE Ends(s, j) /\ lv[j] = lev[j]
      BY <2>1, <2>2, <3>1, <3>2
    <3>3. CASE j = p /\ c.kind \in Levelled /\ Ends(s, n) /\ lv[p] = lev[n]
      <4>1. /\ f \in 1 .. p /\ s[f].kind = "function" /\ Together(s, f, n)
            /\ \A x \in DOMAIN c.names :
                 /\ <<x, c.names[x].type>> \in t[f].past
                 /\ c.names[x].slot \in 0 .. lev[n] - 1
                 /\ T[c.names[x].slot].name = x
                 /\ \A m \in c.names[x].slot + 1 .. lev[n] - 1 : T[m].name # x
        BY <3>3 DEF Exits, n, p, c
      <4>2. Together(s, g, n) /\ g <= n
        <5>1. \A m \in g + 1 .. n : m \in g + 1 .. p \/ m = n
          BY <1>1
        <5>2. c.kind # "function"
          BY <3>3 DEF Levelled
        <5> QED
          BY <1>1, <3>1, <3>3, <5>1, <5>2 DEF Together, c
      <4>3. g = f
        <5>1. ~ (g < f)
          <6>1. g < f => f \in g + 1 .. n
            BY <1>1, <4>1
          <6> QED
            BY <4>1, <4>2, <6>1 DEF Together
        <5>2. ~ (f < g)
          <6>1. f < g => g \in f + 1 .. n
            BY <1>1, <2>2, <4>1, <4>2
          <6> QED
            BY <3>1, <4>1, <6>1 DEF Together
        <5> QED
          BY <4>1, <5>1, <5>2
      <4>4. k \in 0 .. lev[n] - 1 /\ n \in 1 .. n /\ lev[n] \in Nat
        BY <1>1, <1>3, <2>2, <3>3
      <4>5. \/ \E i \in g .. n : U[k].name \in DOMAIN s[i].names
            \/ \E m \in k + 1 .. lev[n] - 1 : U[m].name = U[k].name
            \/ <<U[k].name, U[k].type>> \in t[g].past
        BY <2>1, <3>1, <3>3, <4>2, <4>4
      <4>6. \A i \in g .. n : i \in g .. p \/ i = n
        BY <1>1
      <4>7. CASE U[k].name \in DOMAIN c.names
        <5> DEFINE x == U[k].name
                   l == c.names[x].slot
        <5>1. /\ <<x, c.names[x].type>> \in t[f].past
              /\ l \in 0 .. lev[n] - 1 /\ T[l].name = x
              /\ \A m \in l + 1 .. lev[n] - 1 : T[m].name # x
          BY <4>1, <4>7
        <5>2. l \in Slots /\ k \in Slots
          BY <1>3, <4>4, <5>1
        <5>3. T[k].name = x /\ U[l].name = x /\ U[l].type = T[l].type
          BY <1>2, <5>1, <5>2 DEF Reguards
        <5>4. T[l].type = c.names[x].type
          BY <4>4, <4>7 DEF Judging, Typed, n, c
        <5> HIDE DEF x, l
        <5>5. CASE k < l
          <6>1. l \in k + 1 .. lev[n] - 1
            BY <4>4, <5>1, <5>5
          <6> QED
            BY <3>3, <5>3, <6>1 DEF x
        <5>6. CASE l < k
          <6>1. k \in l + 1 .. lev[n] - 1
            BY <4>4, <5>1, <5>6
          <6> QED
            BY <5>1, <5>3, <6>1
        <5>7. CASE k = l
          <6>1. U[k].type = c.names[x].type
            BY <5>3, <5>4, <5>7
          <6> QED
            BY <4>3, <5>1, <6>1 DEF x
        <5> QED
          BY <4>4, <5>1, <5>5, <5>6, <5>7
      <4> QED
        BY <3>1, <3>3, <4>5, <4>6, <4>7 DEF c
    <3> QED
      BY <1>5, <2>2, <3>2, <3>3
  <2> QED
    BY <2>2 DEF Remembered, p
<1>16. Unused(t, lv)
  <2>1. ASSUME NEW j \in 1 .. p, Ends(t, j), \A i \in 1 .. j : Blank(t[i])
        PROVE  lv[j] = 0
    <3>1. ASSUME NEW i \in 1 .. j
          PROVE  Blank(s[i])
      <4>1. i \in 1 .. p
        BY <1>1, <3>1
      <4> QED
        BY <1>4, <2>1, <3>1, <4>1 DEF Blank
    <3>2. CASE Ends(s, j) /\ lv[j] = lev[j]
      BY <1>1, <3>1, <3>2 DEF Judging, Unused, n
    <3>3. CASE j = p /\ c.kind \in Levelled /\ Ends(s, n) /\ lv[p] = lev[n]
      <4>1. f \in 1 .. p /\ s[f].kind = "function" /\ t[f].kind = "function"
            /\ \A x \in DOMAIN c.names : <<x, c.names[x].type>> \in t[f].past
        <5>1. f \in 1 .. p /\ s[f].kind = "function"
              /\ \A x \in DOMAIN c.names : <<x, c.names[x].type>> \in t[f].past
          BY <3>3 DEF Exits, n, p, c
        <5> QED
          BY <1>4, <5>1
      <4>2. t[f].past = {}
        BY <2>1, <3>3, <4>1 DEF Blank
      <4>3. Blank(c)
        BY <3>3, <4>1, <4>2 DEF Blank, Levelled
      <4>4. \A i \in 1 .. n : i \in 1 .. p \/ i = n
        BY <1>1
      <4>5. \A i \in 1 .. n : Blank(s[i])
        BY <3>1, <3>3, <4>3, <4>4 DEF c
      <4> QED
        BY <1>1, <3>3, <4>5 DEF Judging, Unused, n
    <3> QED
      BY <1>5, <2>1, <3>2, <3>3
  <2> QED
    BY <2>1 DEF Unused, p
<1> QED
  BY <1>9, <1>10, <1>12, <1>14, <1>15, <1>16 DEF Judging

\* the last block of s declares x with slot k: an entry in use that has the name
\* and the type, or the next one
Defines(s, lev, T, t, x, k, type, lv, U) ==
    /\ Len(s) \in Nat \ {0} /\ Inside(s, lev) /\ Len(t) = Len(s) /\ k \in Slots
    /\ s[Len(s)].kind # "call"
    /\ \A i \in 1 .. Len(s) - 1 : t[i] = s[i]
    /\ t[Len(s)].kind = s[Len(s)].kind /\ t[Len(s)].past = s[Len(s)].past
    /\ t[Len(s)].tests = s[Len(s)].tests /\ t[Len(s)].finds = s[Len(s)].finds
    /\ t[Len(s)].local = s[Len(s)].local /\ t[Len(s)].was = s[Len(s)].was
    /\ DOMAIN t[Len(s)].names = DOMAIN s[Len(s)].names \cup {x}
    /\ t[Len(s)].names[x].slot = k /\ t[Len(s)].names[x].type = type
    /\ \A y \in DOMAIN s[Len(s)].names \ {x} : t[Len(s)].names[y] = s[Len(s)].names[y]
    /\ \A i \in 1 .. Len(s) - 1 : Ends(s, i) => lv[i] = lev[i]
    /\ \/ U = T /\ lv[Len(s)] = lev[Len(s)] /\ T[k].type = type
       \/ /\ lev[Len(s)] = k /\ lv[Len(s)] = k + 1
          /\ U[k] = Local(x, type) /\ \A m \in Slots \ {k} : U[m] = T[m]
          /\ \A i \in 1 .. Len(s) : \A y \in DOMAIN s[i].names : s[i].names[y].slot # k
          /\ \A i \in 1 .. Len(s) - 1 : Ends(s, i) => lev[i] <= k

LEMMA JudgedDeclare ==
    ASSUME NEW s, NEW lev, NEW T, NEW t, NEW x, NEW k, NEW type, NEW lv, NEW U,
           Judging(s, lev, T), Defines(s, lev, T, t, x, k, type, lv, U)
    PROVE  Judging(t, lv, U)
<1> DEFINE n == Len(s)
           Old == U = T /\ lv[n] = lev[n] /\ T[k].type = type
           Newest == /\ lev[n] = k /\ lv[n] = k + 1
                     /\ U[k] = Local(x, type) /\ \A m \in Slots \ {k} : U[m] = T[m]
                     /\ \A i \in 1 .. n : \A y \in DOMAIN s[i].names : s[i].names[y].slot # k
                     /\ \A i \in 1 .. n - 1 : Ends(s, i) => lev[i] <= k
<1>1. /\ n \in Nat \ {0} /\ Len(t) = n /\ n \in 1 .. n
      /\ \A i \in 1 .. n : i \in 1 .. n - 1 \/ i = n
      /\ \A i \in 1 .. n - 1 : i \in 1 .. n /\ t[i] = s[i]
      /\ k \in Slots /\ k \in Nat /\ Inside(s, lev) /\ MAX_LOCALS \in Nat
  BY ScopesAssumption DEF Defines, Slots
<1>2. \A i \in 1 .. n :
         /\ t[i].kind = s[i].kind /\ t[i].past = s[i].past
         /\ t[i].tests = s[i].tests /\ t[i].finds = s[i].finds
         /\ t[i].local = s[i].local /\ t[i].was = s[i].was
         /\ DOMAIN s[i].names \subseteq DOMAIN t[i].names
  BY <1>1 DEF Defines
<1>3. /\ DOMAIN t[n].names = DOMAIN s[n].names \cup {x}
      /\ t[n].names[x].slot = k /\ t[n].names[x].type = type
      /\ \A y \in DOMAIN s[n].names \ {x} : t[n].names[y] = s[n].names[y]
  BY DEF Defines
<1>4. Old \/ Newest
  BY DEF Defines
<1>5. \A j \in 1 .. n : lev[j] \in 0 .. MAX_LOCALS /\ \A m \in 0 .. lev[j] - 1 : m \in Slots
  <2>1. ASSUME NEW j \in 1 .. n
        PROVE  lev[j] \in 0 .. MAX_LOCALS
    BY <1>1 DEF Inside
  <2>2. ASSUME NEW v \in 0 .. MAX_LOCALS, NEW m \in 0 .. v - 1
        PROVE  m \in Slots
    BY <1>1, <2>2 DEF Slots
  <2> QED
    BY <2>1, <2>2
<1>6. ASSUME NEW j \in 1 .. n
      PROVE  Ends(t, j) <=> Ends(s, j)
  <2>1. CASE j = n
    BY <1>1, <1>2, <2>1 DEF Ends
  <2>2. CASE j # n
    <3>1. j + 1 \in 1 .. n
      BY <1>1, <2>2
    <3> QED
      BY <1>1, <1>2, <2>2, <3>1 DEF Ends
  <2> QED
    BY <2>1, <2>2
<1>7. Ends(s, n)
  BY DEF Ends, Defines
<1>8. \A j \in 1 .. n - 1 : Ends(s, j) => lv[j] = lev[j]
  BY DEF Defines
<1>9. \A i, j \in 1 .. n : Together(t, i, j) <=> Together(s, i, j)
  <2>1. n \in Nat /\ \A i \in 1 .. n : t[i].kind = s[i].kind
    BY <1>1, <1>2
  <2> HIDE DEF n
  <2> QED
    BY <2>1, SameKinds
<1>10. ASSUME NEW a \in 0 .. n, NEW b \in 1 .. n + 1, NEW m
       PROVE  NoTest(t, a, b, m) <=> NoTest(s, a, b, m)
  <2>1. \A i \in a + 1 .. b - 1 : i \in 1 .. n
    BY <1>1, <1>10
  <2> QED
    BY <1>2, <2>1 DEF NoTest
<1>11. ASSUME NEW b \in 1 .. n, s[b].local # NoSlot
       PROVE  /\ s[b].kind \in {"then", "loop", "arm"}
              /\ s[b].finds \in Variants \cup {"assigned"}
              /\ \E d \in 1 .. b - 1 : \E y \in DOMAIN s[d].names :
                   /\ s[b].tests = <<d, y>> /\ Together(s, d, b)
                   /\ s[b].local = s[d].names[y].slot
              /\ s[b].local \in Slots
              /\ Newest => s[b].local # k
  <2> HIDE DEF Newest
  <2>1. /\ s[b].kind \in {"then", "loop", "arm"}
        /\ s[b].finds \in Variants \cup {"assigned"}
        /\ \E d \in 1 .. b - 1 : \E y \in DOMAIN s[d].names :
             /\ s[b].tests = <<d, y>> /\ Together(s, d, b)
             /\ s[b].local = s[d].names[y].slot
    BY <1>11 DEF Judging, Tested
  <2>2. PICK d \in 1 .. b - 1 : \E y \in DOMAIN s[d].names :
             s[b].local = s[d].names[y].slot
    BY <2>1
  <2>3. d \in 1 .. n
    BY <1>1, <2>2
  <2>4. s[b].local \in Slots
    BY <1>1, <2>2, <2>3 DEF Inside
  <2>5. Newest => s[b].local # k
    BY <2>2, <2>3 DEF Newest
  <2> QED
    BY <2>1, <2>4, <2>5
<1>12. \A m \in Slots : Old \/ m # k => U[m] = T[m]
  BY <1>4
<1> HIDE DEF n, Old, Newest
<1>13. Typed(t, U)
  <2>1. ASSUME NEW i \in 1 .. n, NEW y \in DOMAIN s[i].names
        PROVE  U[s[i].names[y].slot].type = s[i].names[y].type
    <3>1. s[i].names[y].slot \in Slots
      BY <1>1 DEF Inside, n
    <3>2. T[s[i].names[y].slot].type = s[i].names[y].type
      BY DEF Judging, Typed, n
    <3>3. Old \/ s[i].names[y].slot # k
      BY <1>4 DEF Newest
    <3> QED
      BY <1>12, <3>1, <3>2, <3>3
  <2>2. U[k].type = type
    BY <1>4 DEF Old, Newest, Local
  <2>3. ASSUME NEW i \in 1 .. n, NEW y \in DOMAIN t[i].names
        PROVE  U[t[i].names[y].slot].type = t[i].names[y].type
    <3>1. CASE i = n /\ y = x
      BY <1>3, <2>2, <3>1
    <3>2. CASE i # n \/ y # x
      <4>1. y \in DOMAIN s[i].names /\ t[i].names[y] = s[i].names[y]
        BY <1>1, <1>3, <2>3, <3>2
      <4> QED
        BY <2>1, <4>1
    <3> QED
      BY <3>1, <3>2
  <2> QED
    BY <1>1, <2>3 DEF Typed
<1>14. Tested(t)
  <2>1. ASSUME NEW b \in 1 .. n
        PROVE  \/ t[b].tests = <<>> /\ t[b].local = NoSlot
               \/ /\ t[b].kind \in {"then", "loop", "arm"}
                  /\ t[b].finds \in Variants \cup {"assigned"}
                  /\ \E d \in 1 .. b - 1 : \E y \in DOMAIN t[d].names :
                       /\ t[b].tests = <<d, y>> /\ Together(t, d, b)
                       /\ t[b].local = t[d].names[y].slot
    <3>1. CASE s[b].tests = <<>> /\ s[b].local = NoSlot
      BY <1>2, <3>1
    <3>2. CASE ~ (s[b].tests = <<>> /\ s[b].local = NoSlot)
      <4>1. /\ s[b].kind \in {"then", "loop", "arm"}
            /\ s[b].finds \in Variants \cup {"assigned"}
            /\ \E d \in 1 .. b - 1 : \E y \in DOMAIN s[d].names :
                 /\ s[b].tests = <<d, y>> /\ Together(s, d, b)
                 /\ s[b].local = s[d].names[y].slot
        BY <3>2 DEF Judging, Tested, n
      <4>2. PICK d \in 1 .. b - 1 : \E y \in DOMAIN s[d].names :
                 /\ s[b].tests = <<d, y>> /\ Together(s, d, b)
                 /\ s[b].local = s[d].names[y].slot
        BY <4>1
      <4>3. d \in 1 .. n - 1 /\ d \in 1 .. n
        BY <1>1, <4>2
      <4>4. t[d] = s[d] /\ (Together(t, d, b) <=> Together(s, d, b))
        BY <1>1, <1>9, <4>3
      <4> QED
        BY <1>2, <4>1, <4>2, <4>4
    <3> QED
      BY <3>1, <3>2
  <2> QED
    BY <1>1, <2>1 DEF Tested
<1>15. Guards(t, U)
  <2>1. ASSUME NEW b \in 1 .. n, t[b].local # NoSlot
        PROVE  /\ NoTest(t, b, n + 1, t[b].local) /\ t[b].finds \in Variants
                    => U[t[b].local].guard = t[b].finds
               /\ \A a \in 1 .. b - 1 :
                    /\ t[a].local = t[b].local /\ t[a].finds \in Variants
                    /\ NoTest(t, a, b, t[b].local)
                    => t[b].was = t[a].finds
               /\ NoTest(t, 0, b, t[b].local) => t[b].was = "no"
    <3>1. /\ t[b].local = s[b].local /\ t[b].finds = s[b].finds /\ t[b].was = s[b].was
          /\ s[b].local \in Slots
      BY <1>2, <1>11, <2>1
    <3>2. U[s[b].local] = T[s[b].local]
      BY <1>4, <1>11, <1>12, <2>1, <3>1
    <3>3. \A a \in 1 .. b - 1 :
             /\ a \in 0 .. n
             /\ t[a].local = s[a].local /\ t[a].finds = s[a].finds
      BY <1>1, <1>2
    <3>4. b \in 1 .. n + 1 /\ 0 \in 0 .. n /\ b \in 0 .. n /\ n + 1 \in 1 .. n + 1
      BY <1>1
    <3>5. /\ \A a \in 1 .. b - 1 : NoTest(t, a, b, s[b].local) <=> NoTest(s, a, b, s[b].local)
          /\ NoTest(t, 0, b, s[b].local) <=> NoTest(s, 0, b, s[b].local)
          /\ NoTest(t, b, n + 1, s[b].local) <=> NoTest(s, b, n + 1, s[b].local)
      BY <1>10, <3>3, <3>4
    <3>6. /\ NoTest(s, b, n + 1, s[b].local) /\ s[b].finds \in Variants
               => T[s[b].local].guard = s[b].finds
          /\ \A a \in 1 .. b - 1 :
               /\ s[a].local = s[b].local /\ s[a].finds \in Variants
               /\ NoTest(s, a, b, s[b].local)
               => s[b].was = s[a].finds
          /\ NoTest(s, 0, b, s[b].local) => s[b].was = "no"
      BY <2>1, <3>1 DEF Judging, Guards, n
    <3> QED
      BY <3>1, <3>2, <3>3, <3>5, <3>6
  <2> QED
    BY <1>1, <2>1 DEF Guards
\* what is said of entries below the level of j stays, and is said of k when
\* that is the last one
<1>16. ASSUME NEW j \in 1 .. n, Ends(t, j), NEW m \in 0 .. lv[j] - 1
       PROVE  \/ /\ Ends(s, j) /\ m \in 0 .. lev[j] - 1 /\ m \in Slots
                 /\ U[m] = T[m] /\ \A i \in m + 1 .. lev[j] - 1 : U[i] = T[i]
                 /\ \A i \in m + 1 .. lev[j] - 1 : i \in m + 1 .. lv[j] - 1
              \/ Newest /\ j = n /\ m = k
  <2>1. Ends(s, j)
    BY <1>6, <1>16
  <2>2. CASE Old
    <3>1. lv[j] = lev[j]
      BY <1>1, <1>8, <2>1, <2>2 DEF Old
    <3> QED
      BY <1>5, <1>16, <2>1, <2>2, <3>1 DEF Old
  <2>3. CASE Newest /\ j \in 1 .. n - 1
    <3>1. lv[j] = lev[j] /\ lev[j] <= k /\ lev[j] \in Nat
      BY <1>5, <1>8, <2>1, <2>3 DEF Newest
    <3>2. \A i \in 0 .. lev[j] - 1 : i \in Slots /\ i # k
      BY <1>1, <1>5, <3>1
    <3>3. \A i \in m + 1 .. lev[j] - 1 : i \in 0 .. lev[j] - 1
      BY <1>16, <3>1
    <3> QED
      BY <1>12, <1>16, <2>1, <3>1, <3>2, <3>3
  <2>4. CASE Newest /\ j = n /\ m # k
    <3>1. lv[j] = k + 1 /\ lev[j] = k
      BY <2>4 DEF Newest
    <3>2. m \in 0 .. lev[j] - 1
      BY <1>1, <1>16, <2>4, <3>1
    <3>3. \A i \in 0 .. lev[j] - 1 : i \in Slots /\ i # k
      BY <1>1, <1>5, <3>1
    <3>4. \A i \in m + 1 .. lev[j] - 1 : i \in 0 .. lev[j] - 1 /\ i \in m + 1 .. lv[j] - 1
      BY <1>1, <3>1, <3>2
    <3> QED
      BY <1>12, <2>1, <3>2, <3>3, <3>4
  <2> QED
    BY <1>1, <1>4, <2>2, <2>3, <2>4
<1>17. Untested(t, lv, U)
  <2>1. ASSUME NEW j \in 1 .. n, Ends(t, j), NEW m \in 0 .. lv[j] - 1, NoTest(t, 0, n + 1, m)
        PROVE  U[m].guard = "no"
    <3>1. CASE Newest /\ m = k
      BY <3>1 DEF Newest, Local
    <3>2. CASE Ends(s, j) /\ m \in 0 .. lev[j] - 1 /\ U[m] = T[m]
      <4>1. 0 \in 0 .. n /\ n + 1 \in 1 .. n + 1
        BY <1>1
      <4>2. NoTest(s, 0, n + 1, m)
        BY <1>10, <2>1, <4>1
      <4> QED
        BY <3>2, <4>2 DEF Judging, Untested, n
    <3> QED
      BY <1>16, <2>1, <3>1, <3>2
  <2> QED
    BY <1>1, <2>1 DEF Untested
<1>18. Remembered(t, lv, U)
  <2>1. ASSUME NEW f \in 1 .. n, NEW j \in 1 .. n, f <= j, t[f].kind = "function",
               Together(t, f, j), Ends(t, j), NEW m \in 0 .. lv[j] - 1
        PROVE  \/ \E i \in f .. j : U[m].name \in DOMAIN t[i].names
               \/ \E i \in m + 1 .. lv[j] - 1 : U[i].name = U[m].name
               \/ <<U[m].name, U[m].type>> \in t[f].past
    <3>1. CASE Newest /\ j = n /\ m = k
      <4>1. U[m].name = x /\ n \in f .. j
        BY <1>1, <2>1, <3>1 DEF Newest, Local
      <4> QED
        BY <1>3, <4>1
    <3>2. CASE /\ Ends(s, j) /\ m \in 0 .. lev[j] - 1 /\ m \in Slots
               /\ U[m] = T[m] /\ \A i \in m + 1 .. lev[j] - 1 : U[i] = T[i]
               /\ \A i \in m + 1 .. lev[j] - 1 : i \in m + 1 .. lv[j] - 1
      <4>1. s[f].kind = "function" /\ Together(s, f, j) /\ t[f].past = s[f].past
        BY <1>2, <1>9, <2>1
      <4>2. \A i \in f .. j : DOMAIN s[i].names \subseteq DOMAIN t[i].names
        <5>1. \A i \in f .. j : i \in 1 .. n
          BY <1>1, <2>1
        <5> QED
          BY <1>2, <5>1
      <4>3. \/ \E i \in f .. j : T[m].name \in DOMAIN s[i].names
            \/ \E i \in m + 1 .. lev[j] - 1 : T[i].name = T[m].name
            \/ <<T[m].name, T[m].type>> \in s[f].past
        BY <2>1, <3>2, <4>1 DEF Judging, Remembered, n
      <4> QED
        BY <3>2, <4>1, <4>2, <4>3
    <3> QED
      BY <1>16, <2>1, <3>1, <3>2
  <2> QED
    BY <1>1, <2>1 DEF Remembered
<1>19. Unused(t, lv)
  <2>1. ASSUME NEW j \in 1 .. n, Ends(t, j), \A i \in 1 .. j : Blank(t[i])
        PROVE  lv[j] = 0
    <3>1. j # n
      BY <1>1, <1>3, <2>1 DEF Blank
    <3>2. j \in 1 .. n - 1 /\ \A i \in 1 .. j : i \in 1 .. n - 1
      BY <1>1, <3>1
    <3>3. \A i \in 1 .. j : Blank(s[i])
      BY <1>1, <2>1, <3>2
    <3> QED
      BY <1>6, <1>8, <2>1, <3>2, <3>3 DEF Judging, Unused, n
  <2> QED
    BY <1>1, <2>1 DEF Unused
<1> QED
  BY <1>13, <1>14, <1>15, <1>17, <1>18, <1>19 DEF Judging

\* a function with parameters starts where nothing is declared
Starts(s, lev, t, c, N, lv, U) ==
    /\ Len(s) \in Nat \ {0}
    /\ \A i \in 1 .. Len(s) : Empty(s[i])
    /\ Len(t) = Len(s) + 1 /\ (\A i \in 1 .. Len(s) : t[i] = s[i]) /\ t[Len(s) + 1] = c
    /\ c.kind = "function" /\ c.tests = <<>> /\ c.local = NoSlot
    /\ \A i \in 1 .. Len(s) : Ends(s, i) => lv[i] = lev[i]
    /\ lv[Len(s) + 1] = N
    /\ \A x \in DOMAIN c.names : U[c.names[x].slot].type = c.names[x].type
    /\ \A k \in 0 .. N - 1 : U[k].name \in DOMAIN c.names /\ U[k].guard = "no"
    /\ DOMAIN c.names = {} => N = 0

LEMMA JudgedFunction ==
    ASSUME NEW s, NEW lev, NEW T, NEW t, NEW c, NEW N, NEW lv, NEW U,
           Judging(s, lev, T), Starts(s, lev, t, c, N, lv, U)
    PROVE  Judging(t, lv, U)
<1> DEFINE n == Len(s)
<1>1. /\ n \in Nat \ {0} /\ Len(t) = n + 1 /\ \A i \in 1 .. n : t[i] = s[i]
      /\ t[n + 1] = c /\ c.kind = "function" /\ c.tests = <<>> /\ c.local = NoSlot
      /\ n \in 1 .. n /\ \A i \in 1 .. n + 1 : i \in 1 .. n \/ i = n + 1
      /\ \A x \in DOMAIN c.names : U[c.names[x].slot].type = c.names[x].type
      /\ \A k \in 0 .. N - 1 : U[k].name \in DOMAIN c.names /\ U[k].guard = "no"
      /\ DOMAIN c.names = {} => N = 0
      /\ lv[n + 1] = N
  BY DEF Starts
<1>2. \A i \in 1 .. n : DOMAIN s[i].names = {} /\ Blank(s[i])
  BY DEF Starts, Empty, Blank, NothingDeclared
<1>3. \A b \in 1 .. n : s[b].tests = <<>> /\ s[b].local = NoSlot
  <2>1. ASSUME NEW b \in 1 .. n
        PROVE  s[b].tests = <<>> /\ s[b].local = NoSlot
    <3>1. \A d \in 1 .. b - 1 : DOMAIN s[d].names = {}
      <4>1. \A d \in 1 .. b - 1 : d \in 1 .. n
        BY <1>1
      <4> QED
        BY <1>2, <4>1
    <3> QED
      BY <3>1 DEF Judging, Tested
  <2> QED
    BY <2>1
<1>4. ASSUME NEW j \in 1 .. n, Ends(t, j)
      PROVE  lv[j] = 0
  <2>1. Ends(s, j)
    <3>1. CASE j = n
      BY <1>1, <1>4, <3>1 DEF Ends
    <3>2. CASE j # n
      <4>1. j + 1 \in 1 .. n /\ j # n + 1
        BY <3>2
      <4> QED
        BY <1>1, <1>4, <4>1 DEF Ends
    <3> QED
      BY <3>1, <3>2
  <2>2. \A i \in 1 .. j : Blank(s[i])
    BY <1>2
  <2>3. lev[j] = 0
    BY <2>1, <2>2 DEF Judging, Unused
  <2> QED
    BY <2>1, <2>3 DEF Starts
<1> HIDE DEF n
<1>5. Typed(t, U)
  <2>1. ASSUME NEW i \in 1 .. n + 1, NEW x \in DOMAIN t[i].names
        PROVE  U[t[i].names[x].slot].type = t[i].names[x].type
    BY <1>1, <1>2, <2>1
  <2> QED
    BY <1>1, <2>1 DEF Typed
<1>6. \A b \in 1 .. n + 1 : t[b].tests = <<>> /\ t[b].local = NoSlot
  BY <1>1, <1>3
<1>7. Tested(t) /\ Guards(t, U)
  BY <1>1, <1>6 DEF Tested, Guards
<1>8. Untested(t, lv, U)
  <2>1. ASSUME NEW j \in 1 .. n + 1, Ends(t, j), NEW k \in 0 .. lv[j] - 1
        PROVE  U[k].guard = "no"
    <3>1. CASE j \in 1 .. n
      <4>1. lv[j] = 0
        BY <1>4, <2>1, <3>1
      <4> QED
        BY <2>1, <4>1
    <3>2. CASE j = n + 1
      BY <1>1, <2>1, <3>2
    <3> QED
      BY <1>1, <3>1, <3>2
  <2> QED
    BY <1>1, <2>1 DEF Untested
<1>9. Remembered(t, lv, U)
  <2>1. ASSUME NEW f \in 1 .. n + 1, NEW j \in 1 .. n + 1, f <= j, t[f].kind = "function",
               Together(t, f, j), Ends(t, j), NEW k \in 0 .. lv[j] - 1
        PROVE  \E i \in f .. j : U[k].name \in DOMAIN t[i].names
    <3>1. CASE j \in 1 .. n
      <4>1. lv[j] = 0
        BY <1>4, <2>1, <3>1
      <4> QED
        BY <2>1, <4>1
    <3>2. CASE j = n + 1
      <4>1. n + 1 \in f .. j
        BY <1>1, <2>1, <3>2
      <4> QED
        BY <1>1, <2>1, <3>2, <4>1
    <3> QED
      BY <1>1, <3>1, <3>2
  <2> QED
    BY <1>1, <2>1 DEF Remembered
<1>10. Unused(t, lv)
  <2>1. ASSUME NEW j \in 1 .. n + 1, Ends(t, j), \A i \in 1 .. j : Blank(t[i])
        PROVE  lv[j] = 0
    <3>1. CASE j \in 1 .. n
      BY <1>4, <2>1, <3>1
    <3>2. CASE j = n + 1
      <4>1. Blank(c) /\ lv[j] = N
        BY <1>1, <2>1, <3>2
      <4> QED
        BY <1>1, <4>1 DEF Blank
    <3> QED
      BY <1>1, <3>1, <3>2
  <2> QED
    BY <1>1, <2>1 DEF Unused
<1> QED
  BY <1>5, <1>7, <1>8, <1>9, <1>10 DEF Judging

-----------------------------------------------------------------------------
(* What a step starts from *)

LEMMA NamedInside ==
    ASSUME NEW s, NEW lev, NEW T, Named(s, lev, T), Len(s) \in Nat
    PROVE  Inside(s, lev)
<1>1. lev \in [1 .. Len(s) -> 0 .. MAX_LOCALS] /\ MAX_LOCALS \in Nat
  BY ScopesAssumption DEF Named, Levels
<1>2. ASSUME NEW i \in 1 .. Len(s), NEW x \in DOMAIN s[i].names
      PROVE  s[i].names[x].slot \in Slots
  <2>1. s[i].names[x].slot \in 0 .. lev[i] - 1
    BY DEF Named, Placed
  <2>2. lev[i] \in 0 .. MAX_LOCALS
    BY <1>1
  <2> QED
    BY <1>1, <2>1, <2>2 DEF Slots
<1> QED
  BY <1>1, <1>2 DEF Inside

LEMMA Begun ==
    ASSUME KInv, Strict, Going
    PROVE  /\ NInv /\ WInv /\ Right
           /\ Constructs(open) /\ Rooted(open) /\ Len(open) \in Nat \ {0}
           /\ Len(open) \in 1 .. Len(open) /\ Last(open) = open[Len(open)]
           /\ \A i \in 1 .. Len(open) : Complete(open[i])
           /\ Running \in 1 .. Len(open) /\ open[Running].kind = "function"
           /\ \A j \in Running + 1 .. Len(open) : open[j].kind # "function"
           /\ locals \in [Slots -> Entries] /\ Table(locals)
           /\ local_count \in 0 .. MAX_LOCALS /\ local_count \in Nat /\ MAX_LOCALS \in Nat
           /\ \E lev \in [1 .. Len(open) -> 0 .. MAX_LOCALS] :
                /\ Named(open, lev, locals) /\ lev[Len(open)] = local_count
                /\ Judging(open, lev, locals)
<1>1. NInv /\ WInv /\ NowJudging
  BY DEF KInv
<1>2. Right
  BY DEF Strict, Right
<1>3. /\ Constructs(open) /\ Rooted(open) /\ Len(open) \in Nat \ {0}
      /\ NowNamed
  BY <1>1, <1>2, Leveled
<1>4. /\ Running \in 1 .. Len(open) /\ open[Running].kind = "function"
      /\ \A j \in Running + 1 .. Len(open) : open[j].kind # "function"
  BY <1>3, RunningFacts DEF Running
<1>5. /\ locals \in [Slots -> Entries] /\ local_count \in 0 .. MAX_LOCALS
      /\ MAX_LOCALS \in Nat
  BY <1>1, Standing
<1>6. local_count \in Nat
  BY <1>5
<1>7. PICK lev \in [1 .. Len(open) -> 0 .. MAX_LOCALS] :
         Named(open, lev, locals) /\ lev[Len(open)] = local_count
  BY <1>3 DEF NowNamed
<1>8. Judging(open, lev, locals)
  BY <1>1, <1>7 DEF NowJudging
<1>9. Len(open) \in 1 .. Len(open) /\ Last(open) = open[Len(open)]
  BY <1>3 DEF Last
<1>10. \A i \in 1 .. Len(open) : Complete(open[i])
  BY <1>3 DEF Constructs
<1>11. Table(locals)
  BY <1>7 DEF Named
<1> QED
  BY <1>1, <1>2, <1>3, <1>4, <1>5, <1>6, <1>7, <1>8, <1>9, <1>10, <1>11

LEMMA Judges ==
    ASSUME NEW t, NEW U, open' = t, locals' = U,
           \A lv \in [1 .. Len(t) -> 0 .. MAX_LOCALS] :
               Named(t, lv, U) /\ lv[Len(t)] = local_count' => Judging(t, lv, U)
    PROVE  NowJudging'
BY DEF NowJudging

\* The declaration that the text means by x.
LEMMA Meaning ==
    ASSUME KInv, Strict, Going, NEW lev, Named(open, lev, locals),
           lev[Len(open)] = local_count, NEW x, Visible(x)
    PROVE  /\ Declared(x) \in Declaring(x) /\ \A i \in Declaring(x) : Declared(x) >= i
           /\ Declared(x) \in Running .. Len(open) /\ Declared(x) \in 1 .. Len(open)
           /\ x \in DOMAIN open[Declared(x)].names
           /\ Variable(x) = open[Declared(x)].names[x]
           /\ Together(open, Declared(x), Len(open))
           /\ Variable(x).slot \in 0 .. local_count - 1 /\ Variable(x).slot \in Slots
           /\ ~InArguments => resolve_local(x) = Variable(x).slot
<1> DEFINE n == Len(open)
           D == Declaring(x)
           d == Declared(x)
<1>1. /\ n \in Nat \ {0} /\ Running \in 1 .. n /\ NInv /\ Right
      /\ local_count \in 0 .. MAX_LOCALS /\ MAX_LOCALS \in Nat
  BY Begun
<1>2. d \in D /\ \A i \in D : d >= i
  <2>1. D \subseteq Running .. n /\ D # {} /\ Running \in Int /\ n \in Int
    BY <1>1 DEF Declaring, Visible
  <2> HIDE DEF D, d
  <2>2. Max(D) \in D /\ \A i \in D : Max(D) >= i
    BY <2>1, MaxOf
  <2> QED
    BY <2>2 DEF Declared, D, d
<1> HIDE DEF d
<1>3. /\ d \in 1 .. n /\ d >= Running /\ x \in DOMAIN open[d].names
      /\ Together(open, d, n)
      /\ open[d].names[x].slot \in 0 .. local_count - 1
  BY <1>1, <1>2, VisibleFacts
<1>4. open[d].names[x].slot \in Slots
  BY <1>1, <1>3 DEF Slots
<1>5. d \in Running .. n
  BY <1>1, <1>3
<1>6. Variable(x) = open[d].names[x]
  BY DEF Variable, d
<1>7. ~InArguments => resolve_local(x) = Variable(x).slot
  BY <1>1, FoundHere
<1> QED
  BY <1>2, <1>3, <1>4, <1>5, <1>6, <1>7 DEF d

-----------------------------------------------------------------------------
(* The levels of a sequence that changes at the end *)

\* t has one construct more than s, which opens at the level of s
Pushed(s, lev, t, lv) ==
    LET n == Len(s)  k == t[n + 1].kind
    IN  /\ Len(t) = n + 1
        /\ \A i \in 1 .. n : t[i].kind = s[i].kind /\ t[i].keep = s[i].keep
        /\ k \in {"function", "arm", "call"} => t[n + 1].keep = lev[n]
        /\ k \in {"then", "else", "loop", "try"} => lv[n + 1] = lev[n]
        /\ k = "catch" => lv[n + 1] = lev[n] + 1

\* t has one construct less than s, and the level that the construct leaves
Popped(s, lev, t, lv) ==
    LET n == Len(s)  k == s[n].kind
    IN  /\ Len(t) = n - 1
        /\ \A i \in 1 .. n - 1 : t[i].kind = s[i].kind /\ t[i].keep = s[i].keep
        /\ k \in {"function", "arm"} => lv[n - 1] = s[n].keep
        /\ k \in {"catch", "call"} => lv[n - 1] = lev[n] - 1
        /\ k \in {"then", "else", "loop", "try"} => lv[n - 1] = lev[n]

LEMMA PushedLevels ==
    ASSUME NEW s, NEW lev, NEW T, Named(s, lev, T), Len(s) \in Nat \ {0},
           NEW t, NEW lv, NEW U, Named(t, lv, U), Pushed(s, lev, t, lv)
    PROVE  \A i \in 1 .. Len(s) : lv[i] = lev[i]
<1> DEFINE n == Len(s)
<1>1. /\ n \in Nat \ {0} /\ n \in 1 .. n /\ Len(t) = n + 1 /\ Len(t) \in Nat
      /\ n + 1 \in 2 .. Len(t) /\ n \in 1 .. Len(t) /\ n + 1 \in 1 .. Len(t)
      /\ (n + 1) - 1 = n /\ n <= n + 1 /\ n <= Len(t)
  BY DEF Pushed
<1>2. Levels(s, lev) /\ Kinds(s) /\ Levels(t, lv) /\ Kinds(t)
  BY DEF Named
<1>3. lv[n] \in Nat /\ lev[n] \in Nat
  BY <1>1, <1>2, ScopesAssumption DEF Levels
<1>4. lev[n] = lv[n]
  <2>1. CASE t[n + 1].kind \in {"function", "arm", "call"}
    BY <1>1, <1>2, <2>1 DEF Levels, Pushed
  <2>2. CASE t[n + 1].kind = "catch"
    <3>1. lv[n + 1] = lv[n] + 1 /\ lv[n + 1] = lev[n] + 1
      BY <1>1, <1>2, <2>2, SMTT(30) DEF Levels, Pushed
    <3>2. ASSUME NEW p \in Nat, NEW q \in Nat, p + 1 = q + 1
          PROVE  p = q
      BY <3>2
    <3> QED
      BY <1>3, <3>1, <3>2
  <2>3. CASE t[n + 1].kind \in {"then", "else", "loop", "try"}
    <3>1. Flat(t, n, n + 1)
      <4>1. \A m \in n + 1 .. n + 1 : m = n + 1
        BY <1>1
      <4> QED
        BY <2>3, <4>1 DEF Flat
    <3>2. lv[n] = lv[n + 1]
      BY <1>1, <1>2, <3>1 DEF Levels
    <3> QED
      BY <1>1, <2>3, <3>2 DEF Pushed
  <2> QED
    BY <1>1, <1>2, <2>1, <2>2, <2>3 DEF Kinds, Blocks
<1> QED
  <2>1. \A i \in 1 .. n : lev[i] = lv[i]
    <3>1. \A i \in 1 .. n : t[i].kind = s[i].kind /\ t[i].keep = s[i].keep
      BY DEF Pushed
    <3> HIDE DEF n
    <3> QED
      BY <1>1, <1>2, <1>4, <3>1, SameLevels, SMTT(30) DEF n
  <2> QED
    BY <2>1

LEMMA ClosedLevels ==
    ASSUME NEW s, NEW lev, NEW T, Named(s, lev, T), Len(s) \in Nat, Len(s) > 1,
           NEW t, NEW lv, NEW U, Named(t, lv, U), Popped(s, lev, t, lv)
    PROVE  \A i \in 1 .. Len(t) : lv[i] = lev[i]
<1> DEFINE n == Len(s)
           p == Len(t)
<1>1. /\ n \in Nat /\ p \in Nat /\ p \in 1 .. p /\ n \in 2 .. n /\ p = n - 1 /\ p \in 1 .. n
      /\ n \in 1 .. n /\ p <= n /\ p <= p
  BY DEF Popped
<1>2. Levels(s, lev) /\ Kinds(s) /\ Levels(t, lv)
  BY DEF Named
<1>3. lv[p] \in Nat /\ lev[p] \in Nat
  BY <1>1, <1>2, ScopesAssumption DEF Levels
<1>4. lev[p] = lv[p]
  <2>1. CASE s[n].kind \in {"function", "arm"}
    BY <1>1, <1>2, <2>1 DEF Levels, Popped
  <2>2. CASE s[n].kind \in {"catch", "call"}
    <3>1. lev[n] = lev[p] + 1 /\ lv[p] = lev[n] - 1
      BY <1>1, <1>2, <2>2 DEF Levels, Popped
    <3> HIDE DEF n, p
    <3> QED
      BY <1>3, <3>1
  <2>3. CASE s[n].kind \in {"then", "else", "loop", "try"}
    <3>1. Flat(s, p, n)
      <4>1. \A m \in p + 1 .. n : m = n
        BY <1>1
      <4> QED
        BY <2>3, <4>1 DEF Flat
    <3>2. lev[p] = lev[n]
      BY <1>1, <1>2, <3>1 DEF Levels
    <3> QED
      BY <1>1, <2>3, <3>2 DEF Popped
  <2> QED
    BY <1>1, <1>2, <2>1, <2>2, <2>3 DEF Kinds, Blocks
<1> QED
  <2>1. \A i \in 1 .. p : lev[i] = lv[i]
    <3>1. p \in 1 .. Len(s) /\ p <= Len(t) /\ Len(s) \in Nat /\ Len(t) \in Nat
      BY <1>1
    <3>2. \A i \in 1 .. p : t[i].kind = s[i].kind /\ t[i].keep = s[i].keep
      BY <1>1 DEF Popped
    <3> HIDE DEF p
    <3> QED
      BY <1>2, <1>4, <3>1, <3>2, SameLevels
  <2> QED
    BY <2>1

\* The same constructs.
LEMMA KeptLevels ==
    ASSUME NEW s, NEW lev, NEW T, Named(s, lev, T), Len(s) \in Nat \ {0},
           NEW t, NEW lv, NEW U, Named(t, lv, U), Len(t) = Len(s),
           \A i \in 1 .. Len(s) : t[i].kind = s[i].kind /\ t[i].keep = s[i].keep,
           lv[Len(t)] = lev[Len(s)]
    PROVE  \A i \in 1 .. Len(s) : lv[i] = lev[i]
<1> DEFINE n == Len(s)
<1>1. /\ n \in 1 .. Len(s) /\ n <= Len(t) /\ Len(s) \in Nat /\ Len(t) \in Nat
      /\ lev[n] = lv[n]
      /\ \A i \in 1 .. n : t[i].kind = s[i].kind /\ t[i].keep = s[i].keep
  OBVIOUS
<1>2. Levels(s, lev) /\ Kinds(s) /\ Levels(t, lv)
  BY DEF Named
<1>3. \A i \in 1 .. n : lev[i] = lv[i]
  <2> HIDE DEF n
  <2> QED
    BY <1>1, <1>2, SameLevels
<1> QED
  BY <1>3

\* A variable is declared: only the levels of the blocks that share the level
\* with the last one may change.
LEMMA DeclaredLevels ==
    ASSUME NEW s, NEW lev, NEW T, Named(s, lev, T), Len(s) \in Nat \ {0},
           NEW t, NEW lv, NEW U, Named(t, lv, U), Len(t) = Len(s),
           \A i \in 1 .. Len(s) : t[i].kind = s[i].kind /\ t[i].keep = s[i].keep,
           lv[Len(t)] = lev[Len(s)] \/
             \E h \in 1 .. Len(s) : s[h].kind \in {"function", "arm"} /\ Flat(s, h, Len(s))
    PROVE  \A i \in 1 .. Len(s) - 1 : Ends(s, i) => lv[i] = lev[i]
<1> DEFINE n == Len(s)
<1>1. n \in Nat \ {0} /\ n \in 1 .. n /\ n <= Len(t) /\ Len(t) \in Nat
  OBVIOUS
<1>2. Levels(s, lev) /\ Kinds(s) /\ Levels(t, lv)
  BY DEF Named
<1>3. CASE lv[n] = lev[n]
  <2>1. \A i \in 1 .. n : lv[i] = lev[i]
    BY <1>1, <1>3, KeptLevels
  <2>2. \A i \in 1 .. n - 1 : i \in 1 .. n
    BY <1>1
  <2> QED
    BY <2>1, <2>2
<1>4. ASSUME NEW h \in 1 .. n, s[h].kind \in {"function", "arm"}, Flat(s, h, n)
      PROVE  \A i \in 1 .. n - 1 : Ends(s, i) => lv[i] = lev[i]
  <2>1. ASSUME NEW i \in 1 .. n - 1, Ends(s, i), i >= h
        PROVE  FALSE
    <3>1. i + 1 \in h + 1 .. n /\ i # n
      BY <1>1, <2>1
    <3> QED
      BY <1>4, <2>1, <3>1 DEF Flat, Ends
  <2>2. ASSUME NEW i \in 1 .. n - 1, i < h
        PROVE  lv[i] = lev[i]
    <3> DEFINE p == h - 1
    <3>1. /\ p \in 1 .. n /\ p <= Len(t) /\ h \in 2 .. n /\ i \in 1 .. p
          /\ \A j \in 1 .. p : j \in 1 .. n
      BY <1>1, <2>2
    <3>2. t[h].kind = s[h].kind /\ t[h].keep = s[h].keep
      BY <3>1
    <3>3. lev[p] = s[h].keep /\ lv[p] = t[h].keep
      BY <1>2, <1>4, <3>1, <3>2 DEF Levels
    <3>4. \A j \in 1 .. p : lev[j] = lv[j]
      <4>1. \A j \in 1 .. p : t[j].kind = s[j].kind /\ t[j].keep = s[j].keep
        BY <3>1
      <4>2. lev[p] = lv[p] /\ p \in 1 .. Len(s)
        BY <3>1, <3>2, <3>3
      <4> HIDE DEF p
      <4> QED
        BY <1>1, <1>2, <3>1, <4>1, <4>2, SameLevels, SMTT(30)
    <3> QED
      BY <3>1, <3>4
  <2>3. \A i \in 1 .. n - 1 : i >= h \/ i < h
    BY <1>1
  <2> QED
    BY <2>1, <2>2, <2>3
<1> QED
  BY <1>3, <1>4

-----------------------------------------------------------------------------
(* Steps that change no names *)

\* the fields that names and tests depend on
SameFields(a, b) ==
    /\ b.kind = a.kind /\ b.keep = a.keep /\ b.names = a.names /\ b.past = a.past
    /\ b.tests = a.tests /\ b.local = a.local /\ b.was = a.was
    /\ b.finds = a.finds \/ b.finds = "assigned"

LEMMA FieldsKept ==
    ASSUME NEW a, Complete(a), NEW b, NEW e,
           \/ b = a \/ b = [a EXCEPT !.finds = "assigned"]
           \/ b = [a EXCEPT !.exits = e] \/ b = [a EXCEPT !.again = e]
    PROVE  SameFields(a, b)
<1>1. CASE b = a
  BY <1>1 DEF SameFields
<1>2. CASE b = [a EXCEPT !.finds = "assigned"]
  BY <1>2 DEF Complete, SameFields
<1>3. CASE b = [a EXCEPT !.exits = e]
  BY <1>3 DEF Complete, SameFields
<1>4. CASE b = [a EXCEPT !.again = e]
  BY <1>4 DEF Complete, SameFields
<1> QED
  BY <1>1, <1>2, <1>3, <1>4

LEMMA SameJudging ==
    ASSUME KInv, Strict, Going, NEW t, open' = t, Len(t) = Len(open),
           \A i \in 1 .. Len(open) : SameFields(open[i], t[i]),
           UNCHANGED <<locals, local_count>>
    PROVE  NowJudging'
<1> DEFINE n == Len(open)
<1>1. PICK lev \in [1 .. n -> 0 .. MAX_LOCALS] :
         /\ Named(open, lev, locals) /\ lev[n] = local_count
         /\ Judging(open, lev, locals)
  BY Begun
<1>2. n \in Nat \ {0} /\ n \in 1 .. n
  BY Begun
<1>3. Judging(t, lev, locals)
  BY <1>1, <1>2, JudgedSame DEF SameFields
<1>4. ASSUME NEW lv \in [1 .. Len(t) -> 0 .. MAX_LOCALS],
             Named(t, lv, locals), lv[Len(t)] = local_count
      PROVE  Judging(t, lv, locals)
  <2>1. \A i \in 1 .. n : t[i].kind = open[i].kind /\ t[i].keep = open[i].keep
    BY DEF SameFields
  <2>2. \A i \in 1 .. n : lv[i] = lev[i]
    BY <1>1, <1>2, <1>4, <2>1, KeptLevels, SMTT(30)
  <2>3. lv = lev
    BY <1>1, <1>4, <2>2
  <2> QED
    BY <1>3, <2>3
<1>5. locals' = locals /\ local_count' = local_count
  OBVIOUS
<1> QED
  BY <1>4, <1>5, Judges

LEMMA StaysJudged ==
    ASSUME KInv, Strict, Going, UNCHANGED <<locals, local_count, open>>
    PROVE  NowJudging'
BY DEF KInv, NowJudging

LEMMA StoredJudged ==
    ASSUME KInv, Strict, Going, NEW x, open' = Stored(x), UNCHANGED <<locals, local_count>>
    PROVE  NowJudging'
<1> DEFINE n == Len(open)  t == Stored(x)
<1>1. n \in Nat \ {0} /\ \A i \in 1 .. n : Complete(open[i])
  BY Begun
<1>2. /\ t = [i \in 1 .. n |-> t[i]]
      /\ \A i \in 1 .. n : t[i] = open[i] \/ t[i] = [open[i] EXCEPT !.finds = "assigned"]
  BY DEF Stored
<1>3. open' = t
  OBVIOUS
<1> HIDE DEF t
<1>4. Len(t) = n
  BY <1>1, <1>2, IsSequence
<1>5. \A i \in 1 .. n : SameFields(open[i], t[i])
  BY <1>1, <1>2, FieldsKept
<1> QED
  BY <1>3, <1>4, <1>5, SameJudging

LEMMA CheckJudged ==
    ASSUME KInv, Strict, Going, NEW message, NEW wrong, Check(message, wrong), Going'
    PROVE  NowJudging'
BY StaysJudged DEF Check, Judge, Going

LEMMA JumpJudged ==
    ASSUME KInv, Strict, Going, Break \/ Continue, Going'
    PROVE  NowJudging'
<1> DEFINE n == Len(open)
<1>1. Constructs(open) /\ n \in Nat \ {0} /\ \A i \in 1 .. n : Complete(open[i])
  BY Begun
<1>2. CASE \E message, wrong : Check(message, wrong)
  BY <1>2, CheckJudged
<1>3. CASE /\ UNCHANGED <<locals, local_count>>
           /\ \E l, e : open' \in {[open EXCEPT ![l].exits = e], [open EXCEPT ![l].again = e]}
  <2> DEFINE t == open'
  <2>1. PICK l, e : t \in {[open EXCEPT ![l].exits = e], [open EXCEPT ![l].again = e]}
    BY <1>3
  <2>2. DOMAIN open = 1 .. n
    BY <1>1 DEF Constructs
  <2>3. /\ t = [i \in 1 .. n |-> t[i]]
        /\ \A i \in 1 .. n : \/ t[i] = open[i]
                             \/ t[i] = [open[i] EXCEPT !.exits = e]
                             \/ t[i] = [open[i] EXCEPT !.again = e]
    BY <2>1, <2>2
  <2>4. open' = t
    OBVIOUS
  <2> HIDE DEF t
  <2>5. \A i \in 1 .. n : SameFields(open[i], t[i])
    BY <1>1, <2>3, FieldsKept
  <2>6. Len(t) = n
    BY <1>1, <2>3, IsSequence
  <2> QED
    BY <1>3, <2>4, <2>5, <2>6, SameJudging
<1> QED
  BY <1>2, <1>3 DEF Break, Continue

-----------------------------------------------------------------------------
(* Blocks that open *)

LEMMA Reguarded ==
    ASSUME NEW T, NEW U, NEW k, U[k].name = T[k].name, U[k].type = T[k].type,
           \A m \in Slots : m # k => U[m] = T[m]
    PROVE  Reguards(T, U, k)
BY DEF Reguards

LEMMA NotReguarded ==
    ASSUME NEW T, NEW k
    PROVE  Reguards(T, T, k)
BY DEF Reguards

\* the fields of a block when it opens
Fresh(c) ==
    /\ Complete(c) /\ Empty(c) /\ c.tests = <<>> /\ c.local = NoSlot

LEMMA FreshConstruct ==
    ASSUME NEW kind
    PROVE  Fresh(Construct(kind)) /\ Construct(kind).kind = kind
BY DEF Fresh, Complete, Empty, Construct

LEMMA FreshWithKeep ==
    ASSUME NEW kind, NEW k, NEW c, c = [Construct(kind) EXCEPT !.keep = k]
    PROVE  Fresh(c) /\ c.kind = kind /\ c.keep = k
BY DEF Fresh, Complete, Empty, Construct

LEMMA NothingNamed ==
    ASSUME NEW c, Empty(c)
    PROVE  DOMAIN c.names = {} /\ c.past = {}
BY DEF Empty, NothingDeclared

\* A block that tests x, or nothing.
LEMMA EnteredJudged ==
    ASSUME KInv, Strict, Going, ~InArguments,
           NEW lev, Named(open, lev, locals), lev[Len(open)] = local_count,
           Judging(open, lev, locals),
           NEW c, Fresh(c), c.kind \in {"then", "else", "loop", "try", "arm"},
           NEW x, NEW finds \in Variants,
           x # NoName => c.kind \in {"then", "loop", "arm"} /\ Visible(x),
           NEW lv, \A i \in 1 .. Len(open) : lv[i] = lev[i], lv[Len(open) + 1] = lev[Len(open)]
    PROVE  Judging(Append(open, Testing(c, x, finds)), lv, Guarded(x, finds))
<1> DEFINE n == Len(open)
           e == Testing(c, x, finds)
           t == Append(open, e)
           U == Guarded(x, finds)
           r == resolve_local(x)
<1>1. /\ Constructs(open) /\ n \in Nat \ {0} /\ Last(open) = open[n]
      /\ locals \in [Slots -> Entries] /\ n \in 1 .. n
  BY Begun
<1>2. Len(t) = n + 1 /\ (\A i \in 1 .. n : t[i] = open[i]) /\ t[n + 1] = e
  <2> HIDE DEF e
  <2> QED
    BY <1>1, Appended
<1>3. Inside(open, lev)
  BY <1>1, NamedInside
<1>4. open[n].kind # "call"
  BY <1>1 DEF InArguments
<1>5. Complete(c) /\ DOMAIN c.names = {} /\ c.past = {} /\ c.tests = <<>> /\ c.local = NoSlot
  BY NothingNamed DEF Fresh
<1>6. CASE x = NoName
  <2>1. e = c /\ U = locals
    BY <1>6 DEF Testing, Guarded
  <2>2. Reguards(locals, U, c.local)
    BY <2>1, NotReguarded
  <2> HIDE DEF e, t, U, r
  <2>3. Enters(open, lev, locals, t, c, lv, U)
    BY <1>1, <1>2, <1>3, <1>4, <1>5, <2>1, <2>2 DEF Enters
  <2> QED
    BY <2>3, JudgedPush DEF t, U, e
<1>7. CASE x # NoName
  <2> DEFINE d == Declared(x)
  <2>1. /\ d \in 1 .. n /\ x \in DOMAIN open[d].names /\ Variable(x) = open[d].names[x]
        /\ Together(open, d, n) /\ r = Variable(x).slot
        /\ Variable(x).slot \in 0 .. local_count - 1 /\ Variable(x).slot \in Slots
    BY <1>7, Meaning
  <2>2. U = [locals EXCEPT ![r].guard = finds]
    BY <1>7 DEF Guarded
  <2>3. Reguards(locals, U, r) /\ U[r].guard = finds
    <3> DEFINE T == locals
    <3>1. r \in Slots /\ T \in [Slots -> Entries]
      BY <1>1, <2>1
    <3>2. U = [T EXCEPT ![r].guard = finds]
      BY <2>2
    <3> HIDE DEF U, r, T
    <3>3. U[r] = [T[r] EXCEPT !.guard = finds] /\ \A m \in Slots : m # r => U[m] = T[m]
      BY <3>1, <3>2
    <3>4. T[r] \in Entries
      BY <3>1
    <3>5. U[r].name = T[r].name /\ U[r].type = T[r].type /\ U[r].guard = finds
      BY <3>3, <3>4 DEF Entries
    <3>6. Reguards(T, U, r)
      BY <3>3, <3>5, Reguarded
    <3> QED
      BY <3>5, <3>6 DEF T
  <2>4. e = [c EXCEPT !.local = r, !.was = locals[r].guard, !.tests = <<d, x>>, !.finds = finds]
    BY <1>7 DEF Testing
  <2> HIDE DEF d, r, U
  <2>5. /\ e.kind = c.kind /\ e.names = c.names /\ e.past = c.past
        /\ e.local = r /\ e.was = locals[r].guard /\ e.tests = <<d, x>> /\ e.finds = finds
    <3> HIDE DEF e
    <3> QED
      BY <1>5, <2>4 DEF Complete
  <2> HIDE DEF e, t
  <2>6. \E b \in 1 .. n : \E y \in DOMAIN open[b].names :
          /\ e.tests = <<b, y>> /\ Together(open, b, n)
          /\ e.local = open[b].names[y].slot
    BY <2>1, <2>5
  <2>7. /\ e.kind \in {"then", "loop", "arm"} /\ e.finds \in Variants
        /\ e.local \in 0 .. lev[n] - 1
        /\ U[e.local].guard = e.finds /\ e.was = locals[e.local].guard
    BY <1>7, <2>1, <2>3, <2>5
  <2>8. Reguards(locals, U, e.local) /\ DOMAIN e.names = {} /\ e.past = {}
    BY <1>5, <2>3, <2>5
  <2>9. e.kind # "function" /\ e.kind # "call"
    BY <2>7
  <2>10. Enters(open, lev, locals, t, e, lv, U)
    BY <1>1, <1>2, <1>3, <1>4, <2>6, <2>7, <2>8, <2>9 DEF Enters
  <2> QED
    BY <2>10, JudgedPush DEF t, U, e
<1> QED
  BY <1>6, <1>7

LEMMA EnterJudges ==
    ASSUME KInv, Strict, Going, ~InArguments,
           NEW c, Fresh(c), c.kind \in {"then", "else", "loop", "try", "arm"},
           c.kind = "arm" => c.keep = local_count,
           NEW x, NEW finds \in Variants,
           x # NoName => c.kind \in {"then", "loop", "arm"} /\ Visible(x),
           open' = Append(open, Testing(c, x, finds)), locals' = Guarded(x, finds),
           local_count' = local_count
    PROVE  NowJudging'
<1> DEFINE n == Len(open)
           e == Testing(c, x, finds)
           t == Append(open, e)
           U == Guarded(x, finds)
<1>1. PICK lev \in [1 .. n -> 0 .. MAX_LOCALS] :
         /\ Named(open, lev, locals) /\ lev[n] = local_count
         /\ Judging(open, lev, locals)
  BY Begun
<1>2. Constructs(open) /\ n \in Nat \ {0} /\ n \in 1 .. n
  BY Begun
<1>3. e.kind = c.kind /\ e.keep = c.keep
  BY TestingFacts DEF Fresh
<1> HIDE DEF e
<1>4. Len(t) = n + 1 /\ (\A i \in 1 .. n : t[i] = open[i]) /\ t[n + 1] = e
  BY <1>2, Appended
<1>5. ASSUME NEW lv \in [1 .. Len(t) -> 0 .. MAX_LOCALS],
             Named(t, lv, U), lv[Len(t)] = local_count
      PROVE  Judging(t, lv, U)
  <2>1. /\ \A i \in 1 .. n : t[i].kind = open[i].kind /\ t[i].keep = open[i].keep
        /\ t[Len(t)].kind \in {"then", "else", "loop", "try", "arm"}
        /\ t[Len(t)].kind \in {"function", "arm", "call"} => t[Len(t)].keep = lev[n]
        /\ lv[Len(t)] = lev[n]
    BY <1>1, <1>3, <1>4, <1>5
  <2> HIDE DEF t, U
  <2>2. \A i \in 1 .. n : lv[i] = lev[i]
    <3>1. Pushed(open, lev, t, lv)
      BY <1>4, <2>1 DEF Pushed
    <3> QED
      BY <1>1, <1>2, <1>5, <3>1, PushedLevels
  <2>3. lv[n + 1] = lev[n]
    BY <1>4, <2>1
  <2> QED
    BY <1>1, <2>2, <2>3, EnteredJudged DEF t, U, e
<1>6. open' = t /\ locals' = U
  BY DEF e
<1> HIDE DEF t, U
<1> QED
  BY <1>5, <1>6, Judges

LEMMA EnterBlockJudges ==
    ASSUME KInv, Strict, Going,
           \/ \E x : EnterThen(x) \/ EnterLoop(x) \/ \E t : EnterArm(x, NoName, t)
           \/ EnterTry
    PROVE  NowJudging'
<1>1. "some" \in Variants /\ "none" \in Variants
  BY DEF Variants
<1>2. ASSUME NEW x, EnterThen(x)
      PROVE  NowJudging'
  <2> DEFINE c == Construct("then")
  <2>1. Fresh(c) /\ c.kind = "then"
    BY FreshConstruct
  <2>2. /\ ~InArguments /\ open' = Append(open, Testing(c, x, "some"))
        /\ locals' = Guarded(x, "some") /\ local_count' = local_count
        /\ x # NoName => Visible(x)
    BY <1>2 DEF EnterThen, MayTest
  <2> HIDE DEF c
  <2> QED
    BY <1>1, <2>1, <2>2, EnterJudges
<1>3. ASSUME NEW x, EnterLoop(x)
      PROVE  NowJudging'
  <2> DEFINE c == [Construct("loop") EXCEPT !.keep = current_loop]
  <2>1. Fresh(c) /\ c.kind = "loop"
    BY FreshWithKeep
  <2>2. /\ ~InArguments /\ open' = Append(open, Testing(c, x, "some"))
        /\ locals' = Guarded(x, "some") /\ local_count' = local_count
        /\ x # NoName => Visible(x)
    BY <1>3 DEF EnterLoop, MayTest
  <2> HIDE DEF c
  <2> QED
    BY <1>1, <2>1, <2>2, EnterJudges
<1>4. ASSUME NEW x, NEW t, EnterArm(x, NoName, t)
      PROVE  NowJudging'
  <2> DEFINE c == [Construct("arm") EXCEPT !.keep = local_count]
  <2>1. Fresh(c) /\ c.kind = "arm" /\ c.keep = local_count
    BY FreshWithKeep, ZenonT(30)
  <2>2. /\ ~InArguments /\ open' = Append(open, Testing(c, x, "none"))
        /\ locals' = Guarded(x, "none") /\ local_count' = local_count
        /\ x # NoName => Visible(x)
    BY <1>4 DEF EnterArm, MayTest
  <2> HIDE DEF c
  <2> QED
    BY <1>1, <2>1, <2>2, EnterJudges
<1>5. CASE EnterTry
  <2> DEFINE c == Construct("try")
  <2>1. Fresh(c) /\ c.kind = "try"
    BY FreshConstruct
  <2>2. /\ ~InArguments /\ open' = Append(open, c)
        /\ locals' = locals /\ local_count' = local_count
    BY <1>5 DEF EnterTry, MayTest
  <2> HIDE DEF c
  <2>3. Testing(c, NoName, "some") = c /\ Guarded(NoName, "some") = locals
    BY DEF Testing, Guarded
  <2> QED
    BY <1>1, <2>1, <2>2, <2>3, EnterJudges
<1> QED
  BY <1>2, <1>3, <1>4, <1>5

LEMMA BeginCallJudges ==
    ASSUME KInv, Strict, Going, BeginCall
    PROVE  NowJudging'
<1> DEFINE n == Len(open)
           c == [Construct("call") EXCEPT !.keep = local_count]
           t == Append(open, c)
<1>1. PICK lev \in [1 .. n -> 0 .. MAX_LOCALS] :
         /\ Named(open, lev, locals) /\ lev[n] = local_count
         /\ Judging(open, lev, locals)
  BY Begun
<1>2. Constructs(open) /\ n \in Nat \ {0} /\ n \in 1 .. n
  BY Begun
<1>3. Fresh(c) /\ c.kind = "call" /\ c.keep = local_count
  BY FreshWithKeep, ZenonT(30)
<1>4. open' = Append(open, c) /\ locals' = locals
  BY DEF BeginCall
<1> HIDE DEF c
<1>5. Len(t) = n + 1 /\ (\A i \in 1 .. n : t[i] = open[i]) /\ t[n + 1] = c
  BY <1>2, Appended
<1>6. DOMAIN c.names = {} /\ c.past = {} /\ c.tests = <<>> /\ c.local = NoSlot
  BY <1>3, NothingNamed DEF Fresh
<1>7. Inside(open, lev) /\ Reguards(locals, locals, c.local)
  BY <1>1, <1>2, NamedInside, NotReguarded
<1>8. ASSUME NEW lv \in [1 .. Len(t) -> 0 .. MAX_LOCALS], Named(t, lv, locals)
      PROVE  Judging(t, lv, locals)
  <2>1. /\ \A i \in 1 .. n : t[i].kind = open[i].kind /\ t[i].keep = open[i].keep
        /\ t[Len(t)].kind = "call" /\ t[Len(t)].keep = lev[n]
    BY <1>1, <1>3, <1>5
  <2> HIDE DEF t
  <2>2. \A i \in 1 .. n : lv[i] = lev[i]
    <3>1. Pushed(open, lev, t, lv)
      BY <1>5, <2>1 DEF Pushed
    <3> QED
      BY <1>1, <1>2, <1>8, <3>1, PushedLevels
  <2>3. Enters(open, lev, locals, t, c, lv, locals)
    BY <1>2, <1>3, <1>5, <1>6, <1>7, <2>2 DEF Enters
  <2> QED
    BY <1>1, <2>3, JudgedPush
<1>9. open' = t
  BY <1>4
<1> HIDE DEF t
<1> QED
  BY <1>4, <1>8, <1>9, Judges

-----------------------------------------------------------------------------
(* Blocks that close *)

\* only constructs that test something have the guard of an entry to put back
LEMMA NothingTested ==
    ASSUME NEW s, Tested(s), NEW i \in 1 .. Len(s), s[i].kind \notin {"then", "loop", "arm"}
    PROVE  s[i].local = NoSlot
BY DEF Tested

LEMMA ClosedPast ==
    ASSUME KInv, Strict, Going, Len(open) > 1, Last(open).kind # "function"
    PROVE  /\ Running \in 1 .. Len(open) - 1
           /\ Closed[Running].past =
                open[Running].past \cup
                {<<x, Last(open).names[x].type>> : x \in DOMAIN Last(open).names}
           /\ \A i \in 1 .. Len(open) - 1 : i # Running => Closed[i] = open[i]
<1> DEFINE n == Len(open)
           r == Running
           ended == {<<x, Last(open).names[x].type>> : x \in DOMAIN Last(open).names}
           q == Front(open)
<1>1. /\ Constructs(open) /\ n \in Nat \ {0} /\ Last(open) = open[n]
      /\ r \in 1 .. n /\ open[r].kind = "function"
  BY Begun
<1>2. r \in 1 .. n - 1
  BY <1>1
<1>3. q = [i \in 1 .. n - 1 |-> open[i]]
  BY <1>1 DEF Constructs, Front
<1>4. Closed = [q EXCEPT ![r].past = q[r].past \cup ended]
  BY DEF Closed
<1>5. Complete(open[r]) /\ q[r] = open[r] /\ r \in DOMAIN q
  BY <1>1, <1>2, <1>3 DEF Constructs
<1> HIDE DEF ended, q, r
<1>6. Closed[r] = [open[r] EXCEPT !.past = open[r].past \cup ended]
  BY <1>4, <1>5
<1>7. Closed[r].past = open[r].past \cup ended
  BY <1>5, <1>6 DEF Complete
<1>8. \A i \in 1 .. n - 1 : i # r => Closed[i] = open[i]
  BY <1>3, <1>4
<1> QED
  BY <1>2, <1>7, <1>8 DEF r, ended

\* The table without the guard that the last block found.
LEMMA PutBack ==
    ASSUME KInv, Strict, Going, NEW U,
           U = Unguarded \/ (U = locals /\ Last(open).local = NoSlot)
    PROVE  /\ Reguards(locals, U, Last(open).local)
           /\ Last(open).local # NoSlot => U[Last(open).local].guard = Last(open).was
<1> DEFINE b == Last(open)
<1>1. Len(open) \in 1 .. Len(open) /\ b = open[Len(open)] /\ locals \in [Slots -> Entries] /\ WInv
  BY Begun
<1>2. Bounded(b)
  BY <1>1, Standing
<1>3. CASE U = locals /\ b.local = NoSlot
  BY <1>3, NotReguarded
<1>4. CASE U = Unguarded /\ b.local = NoSlot
  <2>1. U = locals
    BY <1>4 DEF Unguarded
  <2> QED
    BY <1>4, <2>1, NotReguarded
<1>5. CASE U = Unguarded /\ b.local # NoSlot
  <2>1. U = [locals EXCEPT ![b.local].guard = b.was]
    BY <1>5 DEF Unguarded
  <2>2. b.local \in Slots /\ b.was \in Variants \cup {"no"}
    BY <1>2, <1>5 DEF Bounded
  <2> HIDE DEF b
  <2>3. U[b.local] = [locals[b.local] EXCEPT !.guard = b.was]
        /\ \A m \in Slots : m # b.local => U[m] = locals[m]
    BY <1>1, <2>1, <2>2
  <2>4. locals[b.local] \in Entries
    BY <1>1, <2>2
  <2>5. /\ U[b.local].name = locals[b.local].name /\ U[b.local].type = locals[b.local].type
        /\ U[b.local].guard = b.was
    BY <2>3, <2>4 DEF Entries
  <2>6. Reguards(locals, U, b.local)
    BY <2>3, <2>5, Reguarded
  <2> QED
    BY <2>5, <2>6 DEF b
<1> QED
  BY <1>3, <1>4, <1>5

LEMMA LeftJudged ==
    ASSUME KInv, Strict, Going, Len(open) > 1,
           NEW lev, Named(open, lev, locals), lev[Len(open)] = local_count,
           Judging(open, lev, locals),
           NEW t, \/ t = Front(open) /\ Last(open).kind \notin Levelled
                  \/ t = Closed /\ Last(open).kind # "function",
           NEW U, U = Unguarded \/ (U = locals /\ Last(open).local = NoSlot),
           NEW lv, \A i \in 1 .. Len(open) - 1 : lv[i] = lev[i]
    PROVE  Judging(t, lv, U)
<1> DEFINE n == Len(open)
           f == Running
<1>1. /\ Constructs(open) /\ n \in Nat \ {0} /\ n \in 1 .. n /\ Last(open) = open[n]
      /\ \A i \in 1 .. n : Complete(open[i])
      /\ Running \in 1 .. n /\ open[Running].kind = "function"
      /\ \A j \in Running + 1 .. n : open[j].kind # "function"
  BY Begun
<1>2. Len(t) = n - 1 /\ \A i \in 1 .. n - 1 : Likewise(open[i], t[i])
  BY <1>1, CloseParts
<1>3. Inside(open, lev)
  BY <1>1, NamedInside
<1>4. /\ Reguards(locals, U, open[n].local)
      /\ open[n].local # NoSlot => U[open[n].local].guard = open[n].was
  BY <1>1, PutBack
<1>5. open[n].kind \in Blocks \cup {"call"}
  BY <1>1 DEF Named, Kinds
<1>6. ASSUME NEW i \in 1 .. n - 1
      PROVE  open[i].past \subseteq t[i].past
  <2>1. CASE t = Front(open)
    <3>1. Front(open)[i] = open[i]
      BY <1>1 DEF Constructs, Front
    <3> QED
      BY <2>1, <3>1
  <2>2. CASE t = Closed /\ Last(open).kind # "function"
    BY <1>6, <2>2, ClosedPast
  <2> QED
    BY <2>1, <2>2
<1>7. ASSUME open[n].kind \in Levelled
      PROVE  /\ lv[Len(t)] = lev[n]
             /\ f \in 1 .. Len(t) /\ open[f].kind = "function" /\ Together(open, f, n)
             /\ \A x \in DOMAIN open[n].names :
                  /\ <<x, open[n].names[x].type>> \in t[f].past
                  /\ open[n].names[x].slot \in 0 .. lev[n] - 1
                  /\ locals[open[n].names[x].slot].name = x
                  /\ \A m \in open[n].names[x].slot + 1 .. lev[n] - 1 : locals[m].name # x
  <2>1. t = Closed /\ Last(open).kind # "function"
    BY <1>1, <1>7 DEF Levelled
  <2>2. n - 1 \in 1 .. n - 1 /\ n - 1 \in 1 .. n /\ n - 1 <= n
    BY <1>1
  <2>3. lv[n - 1] = lev[n]
    <3>1. Flat(open, n - 1, n)
      <4>1. \A m \in (n - 1) + 1 .. n : m = n
        BY <1>1
      <4> QED
        BY <1>7, <4>1 DEF Flat, Levelled
    <3>2. lev[n - 1] = lev[n]
      BY <1>1, <2>2, <3>1 DEF Named, Levels
    <3>3. lv[n - 1] = lev[n - 1]
      BY <2>2
    <3> QED
      BY <3>2, <3>3
  <2>4. Together(open, f, n)
    BY <1>1 DEF Together
  <2>5. f \in 1 .. n - 1 /\ \A x \in DOMAIN open[n].names : <<x, open[n].names[x].type>> \in t[f].past
    BY <1>1, <2>1, ClosedPast
  <2>6. ASSUME NEW x \in DOMAIN open[n].names
        PROVE  /\ open[n].names[x].slot \in 0 .. lev[n] - 1
               /\ locals[open[n].names[x].slot].name = x
               /\ \A m \in open[n].names[x].slot + 1 .. lev[n] - 1 : locals[m].name # x
    <3>1. /\ open[n].names[x].slot \in 0 .. lev[n] - 1
          /\ locals[open[n].names[x].slot].name = x
      BY <1>1 DEF Named, Placed
    <3>2. Together(open, n, n) /\ ~Hidden(open, n, n, x) /\ n <= n /\ open[n].kind # "call"
      BY <1>1, <1>7 DEF Together, Hidden, Levelled
    <3>3. \A m \in open[n].names[x].slot + 1 .. lev[n] - 1 : locals[m].name # x
      BY <1>1, <3>2 DEF Named, Latest
    <3> QED
      BY <3>1, <3>3
  <2> QED
    BY <1>1, <1>2, <2>3, <2>4, <2>5, <2>6
<1>8. \A i \in 1 .. Len(t) :
         /\ t[i].kind = open[i].kind /\ t[i].names = open[i].names /\ t[i].tests = open[i].tests
         /\ t[i].finds = open[i].finds /\ t[i].local = open[i].local /\ t[i].was = open[i].was
         /\ open[i].past \subseteq t[i].past
  BY <1>2, <1>6 DEF Likewise
<1>9. \A i \in 1 .. Len(t) : Ends(open, i) => lv[i] = lev[i]
  BY <1>2
<1> HIDE DEF f
<1>10. Exits(open, lev, locals, t, lv, U, f)
  BY <1>1, <1>2, <1>3, <1>4, <1>5, <1>7, <1>8, <1>9 DEF Exits
<1> QED
  BY <1>10, JudgedClose

LEMMA LeaveJudges ==
    ASSUME KInv, Strict, Going,
           \/ EndCall \/ EndFunction(NoName) \/ LeaveBranch \/ LeaveLoop
           \/ LeaveArm \/ LeaveCatch
    PROVE  NowJudging'
<1> DEFINE n == Len(open)
           t == open'
           U == locals'
<1>1. PICK lev \in [1 .. n -> 0 .. MAX_LOCALS] :
         /\ Named(open, lev, locals) /\ lev[n] = local_count
         /\ Judging(open, lev, locals)
  BY Begun
<1>2. /\ Constructs(open) /\ Rooted(open) /\ n \in Nat \ {0} /\ n \in 1 .. n
      /\ Last(open) = open[n]
  BY Begun
<1>3. n > 1
  <2>1. CASE EndFunction(NoName)
    BY <2>1 DEF EndFunction
  <2>2. CASE Last(open).kind # "function"
    BY <1>2, <2>2 DEF Rooted
  <2> QED
    BY <2>1, <2>2 DEF EndCall, LeaveBranch, LeaveLoop, LeaveArm, LeaveCatch, InArguments
<1>4. \/ t = Front(open) /\ Last(open).kind \notin Levelled
      \/ t = Closed /\ Last(open).kind # "function"
  BY DEF EndCall, EndFunction, LeaveBranch, LeaveLoop, LeaveArm, LeaveCatch, InArguments, Levelled
<1>5. U = Unguarded \/ (U = locals /\ Last(open).local = NoSlot)
  <2>1. CASE LeaveBranch \/ LeaveLoop \/ LeaveArm
    BY <2>1 DEF LeaveBranch, LeaveLoop, LeaveArm
  <2>2. CASE EndCall \/ EndFunction(NoName) \/ LeaveCatch
    <3>1. Last(open).kind \notin {"then", "loop", "arm"} /\ U = locals
      BY <2>2 DEF EndCall, EndFunction, LeaveCatch, InArguments
    <3>2. open[n].local = NoSlot
      BY <1>1, <1>2, <3>1, NothingTested DEF Judging
    <3> QED
      BY <1>2, <3>1, <3>2
  <2> QED
    BY <2>1, <2>2
<1>6. /\ Last(open).kind \in {"function", "arm"} => local_count' = Last(open).keep
      /\ Last(open).kind \in {"catch", "call"} => local_count' = local_count - 1
      /\ Last(open).kind \in {"then", "else", "loop", "try"} => local_count' = local_count
  BY DEF EndCall, EndFunction, LeaveBranch, LeaveLoop, LeaveArm, LeaveCatch, InArguments
<1>7. Len(t) = n - 1 /\ \A i \in 1 .. n - 1 : Likewise(open[i], t[i])
  BY <1>2, <1>3, <1>4, CloseParts
<1>8. open' = t /\ locals' = U
  OBVIOUS
<1>9. ASSUME NEW lv \in [1 .. Len(t) -> 0 .. MAX_LOCALS],
             Named(t, lv, U), lv[Len(t)] = local_count'
      PROVE  Judging(t, lv, U)
  <2>1. Popped(open, lev, t, lv)
    <3>1. Len(t) = n - 1 /\ \A i \in 1 .. n - 1 : t[i].kind = open[i].kind /\ t[i].keep = open[i].keep
      BY <1>7 DEF Likewise
    <3>2. /\ open[n].kind \in {"function", "arm"} => lv[n - 1] = open[n].keep
          /\ open[n].kind \in {"catch", "call"} => lv[n - 1] = lev[n] - 1
          /\ open[n].kind \in {"then", "else", "loop", "try"} => lv[n - 1] = lev[n]
      BY <1>1, <1>2, <1>6, <1>7, <1>9
    <3> HIDE DEF t, U
    <3> QED
      BY <3>1, <3>2 DEF Popped
  <2> HIDE DEF t, U
  <2>4. \A i \in 1 .. Len(t) : lv[i] = lev[i]
    BY <1>1, <1>2, <1>3, <1>9, <2>1, ClosedLevels
  <2>5. \A i \in 1 .. Len(open) - 1 : lv[i] = lev[i]
    BY <1>7, <2>4
  <2> QED
    BY <1>1, <1>3, <1>4, <1>5, <2>5, LeftJudged
<1> HIDE DEF t, U
<1> QED
  BY <1>8, <1>9, Judges

-----------------------------------------------------------------------------
(* Blocks that follow another one, and blocks with a variable *)

\* Where the running function is the only one that declares, nothing is in use
\* above the level of the last block.
LEMMA Topmost ==
    ASSUME NEW s, NEW lev, NEW T, Named(s, lev, T), Judging(s, lev, T), Len(s) \in Nat \ {0},
           NEW r \in 1 .. Len(s), Together(s, r, Len(s)), Bare(s, r - 1)
    PROVE  /\ \A i \in 1 .. Len(s) : \A x \in DOMAIN s[i].names :
                s[i].names[x].slot # lev[Len(s)]
           /\ \A i \in 1 .. Len(s) : Ends(s, i) => lev[i] <= lev[Len(s)]
<1> DEFINE n == Len(s)
<1>1. /\ n \in Nat \ {0} /\ n \in 1 .. n /\ lev \in [1 .. n -> 0 .. MAX_LOCALS]
      /\ \A i \in 1 .. n : lev[i] \in Nat
  BY ScopesAssumption DEF Named, Levels
<1>2. ASSUME NEW i \in 1 .. n, i >= r
      PROVE  lev[i] <= lev[n]
  <2>1. Together(s, i, n) /\ i <= n
    BY <1>1, <1>2 DEF Together
  <2> QED
    BY <1>1, <2>1 DEF Named, Levels
<1>3. ASSUME NEW i \in 1 .. n, i < r
      PROVE  Blank(s[i]) /\ DOMAIN s[i].names = {}
  <2>1. i \in 1 .. r - 1
    BY <1>3
  <2> QED
    BY <2>1 DEF Bare, Blank, NothingDeclared
<1>4. ASSUME NEW i \in 1 .. n, NEW x \in DOMAIN s[i].names
      PROVE  s[i].names[x].slot # lev[n]
  <2>1. i >= r
    BY <1>3, <1>4
  <2>2. s[i].names[x].slot \in 0 .. lev[i] - 1
    BY DEF Named, Placed
  <2>3. lev[i] <= lev[n]
    BY <1>2, <2>1
  <2> QED
    BY <1>1, <2>2, <2>3
<1>5. ASSUME NEW i \in 1 .. n, Ends(s, i)
      PROVE  lev[i] <= lev[n]
  <2>1. CASE i >= r
    BY <1>2, <2>1
  <2>2. CASE i < r
    <3>1. \A j \in 1 .. i : Blank(s[j])
      BY <1>3, <2>2
    <3>2. lev[i] = 0
      BY <1>5, <3>1 DEF Judging, Unused
    <3> QED
      BY <1>1, <3>2
  <2> QED
    BY <1>1, <2>1, <2>2
<1> QED
  BY <1>4, <1>5

\* t and s are alike as far as p
Shares(s, t, p) ==
    /\ p \in 1 .. Len(s) /\ p <= Len(t) /\ Len(s) \in Nat /\ Len(t) \in Nat
    /\ \A i \in 1 .. p : t[i].kind = s[i].kind /\ t[i].keep = s[i].keep

LEMMA SharedLevels ==
    ASSUME NEW s, NEW lev, Levels(s, lev), Kinds(s), NEW t, NEW lv, Levels(t, lv),
           NEW p, Shares(s, t, p), lev[p] = lv[p]
    PROVE  \A i \in 1 .. p : lev[i] = lv[i]
BY SameLevels DEF Shares

LEMMA EnterElseJudges ==
    ASSUME KInv, Strict, Going, EnterElse
    PROVE  NowJudging'
<1> DEFINE n == Len(open)
           c == Construct("else")
           r == Closed
           t == Append(r, c)
           U == Unguarded
<1>1. PICK lev \in [1 .. n -> 0 .. MAX_LOCALS] :
         /\ Named(open, lev, locals) /\ lev[n] = local_count
         /\ Judging(open, lev, locals)
  BY Begun
<1> DEFINE low == [i \in 1 .. Len(r) |-> lev[i]]
<1>2. /\ NInv /\ Right /\ n \in Nat \ {0} /\ Rooted(open) /\ Last(open) = open[n]
      /\ open[n].kind = "then" /\ Last(open).kind = "then" /\ Last(open).kind # "function"
      /\ open' = t /\ locals' = U /\ local_count' = local_count
  BY Begun DEF EnterElse
<1>3. n > 1 /\ n - 1 \in 1 .. n /\ n \in 2 .. n /\ n \in 1 .. n /\ n - 1 \in Nat \ {0}
      /\ n - 1 \in 1 .. n - 1
  BY <1>2 DEF Rooted
<1>4. Table(U) /\ \A k \in Slots : U[k].name = locals[k].name
  BY <1>1, GuardedNames DEF Named
<1>5. /\ Named(r, low, U) /\ Len(r) = n - 1 /\ Constructs(r)
      /\ \A i \in 1 .. n - 1 : Likewise(open[i], r[i])
  <2>1. Constructs(open)
    BY Begun
  <2>2. \A i \in 1 .. n - 1 : Likewise(open[i], r[i])
    BY <1>3, <2>1, CloseParts
  <2> HIDE DEF U
  <2> QED
    BY <1>1, <1>2, <1>3, <1>4, <2>2, NamedClose
<1>6. r[n - 1].kind # "call"
  <2>1. open[n - 1].kind # "call"
    BY <1>1, <1>2, <1>3 DEF Named, Kinds
  <2> QED
    BY <1>3, <1>5, <2>1 DEF Likewise
<1>7. lev[n - 1] = local_count
  <2>1. Flat(open, n - 1, n)
    <3>1. \A m \in (n - 1) + 1 .. n : m = n
      BY <1>3
    <3> QED
      BY <1>2, <3>1 DEF Flat
  <2>2. lev[n - 1] = lev[n]
    BY <1>1, <1>3, <2>1 DEF Named, Levels
  <2> QED
    BY <1>1, <2>2
<1>8. Fresh(c) /\ c.kind = "else"
  BY FreshConstruct
<1>9. DOMAIN c.names = {} /\ c.past = {} /\ c.tests = <<>> /\ c.local = NoSlot
  BY <1>8, NothingNamed DEF Fresh
<1> HIDE DEF c, r
<1>10. Len(t) = n /\ (\A i \in 1 .. n - 1 : t[i] = r[i]) /\ t[n] = c
  <2>1. /\ Len(t) = Len(r) + 1 /\ (\A i \in 1 .. Len(r) : t[i] = r[i])
        /\ t[Len(r) + 1] = c
    BY <1>5, Appended
  <2>2. (n - 1) + 1 = n
    BY <1>2
  <2> QED
    BY <1>5, <2>1, <2>2
<1> HIDE DEF t, U
<1>11. Judging(r, low, U)
  <2>1. r = Closed /\ U = Unguarded
    BY DEF r, U
  <2>2. \A i \in 1 .. n - 1 : low[i] = lev[i]
    BY <1>5
  <2> HIDE DEF low
  <2> QED
    BY <1>1, <1>2, <1>3, <2>1, <2>2, LeftJudged
<1>12. ASSUME NEW lv \in [1 .. Len(t) -> 0 .. MAX_LOCALS],
              Named(t, lv, U), lv[Len(t)] = local_count
       PROVE  Judging(t, lv, U)
  <2> DEFINE p == n - 1
  <2>1. /\ p \in 1 .. Len(open) /\ p <= Len(t) /\ Len(open) \in Nat /\ Len(t) \in Nat
        /\ p \in 1 .. Len(t) /\ n \in 1 .. Len(t) /\ p <= n
    BY <1>2, <1>3, <1>10
  <2>2. \A i \in 1 .. p : t[i].kind = open[i].kind /\ t[i].keep = open[i].keep
    BY <1>5, <1>10 DEF Likewise
  <2>3. Flat(t, p, n)
    <3>1. \A m \in p + 1 .. n : m = n
      BY <1>3
    <3> QED
      BY <1>8, <1>10, <3>1 DEF Flat
  <2>4. lv[p] = lv[n]
    BY <1>12, <2>1, <2>3 DEF Named, Levels
  <2>5. lev[p] = lv[p]
    BY <1>7, <1>10, <1>12, <2>4
  <2>6. Levels(open, lev) /\ Kinds(open) /\ Levels(t, lv)
    BY <1>1, <1>12 DEF Named
  <2>7. \A i \in 1 .. p : lev[i] = lv[i]
    <3> HIDE DEF p
    <3>1. Shares(open, t, p)
      BY <2>1, <2>2 DEF Shares
    <3> QED
      BY <2>5, <2>6, <3>1, SharedLevels
  <2>8. Len(r) \in Nat \ {0} /\ Len(r) = p /\ Len(r) + 1 = n
    BY <1>2, <1>3, <1>5
  <2>9. \A i \in 1 .. p : low[i] = lev[i]
    BY <2>8
  <2>10. Inside(r, low)
    BY <1>5, <2>8, NamedInside
  <2>11. lv[n] = low[p]
    BY <1>3, <2>4, <2>7, <2>9
  <2>12. Reguards(U, U, c.local)
    BY NotReguarded
  <2>13. \A i \in 1 .. Len(r) : Ends(r, i) => lv[i] = low[i]
    BY <2>7, <2>8, <2>9
  <2> HIDE DEF low, p
  <2>14. Enters(r, low, U, t, c, lv, U)
    <3>1. /\ Len(t) = Len(r) + 1 /\ (\A i \in 1 .. Len(r) : t[i] = r[i]) /\ t[Len(r) + 1] = c
          /\ r[Len(r)].kind # "call" /\ lv[Len(r) + 1] = low[Len(r)]
      BY <1>5, <1>6, <1>10, <2>8, <2>11
    <3> QED
      BY <1>8, <1>9, <2>8, <2>10, <2>12, <2>13, <3>1 DEF Enters
  <2> QED
    BY <1>11, <2>14, JudgedPush
<1> QED
  BY <1>2, <1>12, Judges

\* A block that declares one variable is one that declares nothing, and then
\* declares it in the next entry.
Introduces(s, lev, T, t, x, k, type, lv, U) ==
    LET n == Len(s)
    IN  /\ n \in Nat \ {0} /\ s[n].kind # "call" /\ DOMAIN s[n].names = {} /\ Complete(s[n])
        /\ k \in Slots /\ k = lev[n]
        /\ \A i \in 1 .. n - 1 : t[i] = s[i] /\ lv[i] = lev[i]
        /\ \A i \in 1 .. n - 1 : \A y \in DOMAIN s[i].names : s[i].names[y].slot # k
        /\ \A i \in 1 .. n - 1 : Ends(s, i) => lev[i] <= k
        /\ Len(t) = n /\ t[n] = [s[n] EXCEPT !.names = Variables(x, k, type)]
        /\ lv[n] = k + 1
        /\ U[k] = Local(x, type) /\ \A m \in Slots \ {k} : U[m] = T[m]

LEMMA BoundJudged ==
    ASSUME NEW s, NEW lev, NEW T, Judging(s, lev, T), Inside(s, lev),
           NEW t, NEW x, NEW k, NEW type, NEW lv, NEW U,
           Introduces(s, lev, T, t, x, k, type, lv, U)
    PROVE  Judging(t, lv, U)
<1> DEFINE n == Len(s)
           b == s[n]
           c == t[n]
           new == Variables(x, k, type)
<1>0. /\ n \in Nat \ {0} /\ b.kind # "call" /\ DOMAIN b.names = {} /\ Complete(b)
      /\ k \in Slots /\ k = lev[n]
      /\ \A i \in 1 .. n - 1 : t[i] = s[i] /\ lv[i] = lev[i]
      /\ \A i \in 1 .. n - 1 : \A y \in DOMAIN s[i].names : s[i].names[y].slot # k
      /\ \A i \in 1 .. n - 1 : Ends(s, i) => lev[i] <= k
      /\ Len(t) = n /\ c = [b EXCEPT !.names = new]
      /\ lv[n] = k + 1
      /\ U[k] = Local(x, type) /\ \A m \in Slots \ {k} : U[m] = T[m]
  BY DEF Introduces
<1>1. DOMAIN new = {x} /\ new[x].slot = k /\ new[x].type = type
  BY DEF Variables
<1> HIDE DEF new
<1>2. /\ c.kind = b.kind /\ c.past = b.past /\ c.tests = b.tests /\ c.finds = b.finds
      /\ c.local = b.local /\ c.was = b.was /\ c.names = new
  <2>1. Complete(b) /\ c = [b EXCEPT !.names = new]
    BY <1>0
  <2> HIDE DEF b, c
  <2> QED
    BY <2>1 DEF Complete
<1>3. \A i \in 1 .. n : \A y \in DOMAIN s[i].names : s[i].names[y].slot # k
  <2>1. \A i \in 1 .. n : i \in 1 .. n - 1 \/ i = n
    BY <1>0
  <2>2. \A y \in DOMAIN s[n].names : FALSE
    BY <1>0
  <2> HIDE DEF n
  <2> QED
    BY <1>0, <2>1, <2>2
<1>4. /\ DOMAIN c.names = DOMAIN b.names \cup {x}
      /\ c.names[x].slot = k /\ c.names[x].type = type
      /\ \A y \in DOMAIN b.names \ {x} : c.names[y] = b.names[y]
  BY <1>0, <1>1, <1>2
<1>5. Defines(s, lev, T, t, x, k, type, lv, U)
  <2>1. /\ lev[n] = k /\ lv[n] = k + 1 /\ U[k] = Local(x, type)
        /\ (\A m \in Slots \ {k} : U[m] = T[m])
        /\ \A i \in 1 .. n - 1 : Ends(s, i) => lev[i] <= k
        /\ \A i \in 1 .. n - 1 : Ends(s, i) => lv[i] = lev[i]
        /\ \A i \in 1 .. n - 1 : t[i] = s[i]
        /\ n \in Nat \ {0} /\ Inside(s, lev) /\ Len(t) = n /\ k \in Slots
        /\ s[n].kind # "call"
    BY <1>0
  <2> QED
    BY <1>2, <1>3, <1>4, <2>1 DEF Defines
<1> QED
  BY <1>5, JudgedDeclare

LEMMA EnterArmJudges ==
    ASSUME KInv, Strict, Going, NEW x, NEW binding, NEW type,
           EnterArm(x, binding, type), binding # NoName, Going'
    PROVE  NowJudging'
<1> DEFINE n == Len(open)
           a == [Construct("arm") EXCEPT !.keep = local_count]
           b == Testing(a, x, "some")
           new == Variables(binding, local_count, type)
           c == [b EXCEPT !.names = new]
           G == Guarded(x, "some")
           U == [G EXCEPT ![local_count] = Local(binding, type)]
           s == Append(open, b)
           t == Append(open, c)
<1>1. PICK lev \in [1 .. n -> 0 .. MAX_LOCALS] :
         /\ Named(open, lev, locals) /\ lev[n] = local_count
         /\ Judging(open, lev, locals)
  BY Begun
<1>2. /\ Constructs(open) /\ Rooted(open) /\ n \in Nat \ {0} /\ n \in 1 .. n
      /\ Last(open) = open[n] /\ Right
      /\ Running \in 1 .. n /\ \A j \in Running + 1 .. n : open[j].kind # "function"
      /\ local_count \in 0 .. MAX_LOCALS /\ MAX_LOCALS \in Nat
  BY Begun
<1>3. /\ MayNest(open) /\ ~InArguments /\ (x # NoName => Visible(x))
  BY DEF EnterArm, MayTest
<1>4. CASE Full
  BY <1>4 DEF EnterArm, Check, Judge, Going
<1>5. CASE ~Full
  <2>1. open' = t /\ locals' = U /\ local_count' = local_count + 1
    BY <1>5 DEF EnterArm
  <2>2. Fresh(a) /\ a.kind = "arm" /\ a.keep = local_count
    BY FreshWithKeep, ZenonT(30)
  <2>3. /\ Complete(b) /\ b.kind = "arm" /\ b.keep = local_count /\ b.names = a.names
    <3>1. Complete(a)
      BY <2>2 DEF Fresh
    <3> HIDE DEF a
    <3> QED
      BY <2>2, <3>1, TestingFacts
  <2>4. DOMAIN b.names = {}
    <3>1. DOMAIN a.names = {}
      BY <2>2, NothingNamed DEF Fresh
    <3> QED
      BY <2>3, <3>1
  <2>5. c.kind = "arm" /\ c.keep = local_count
    <3> HIDE DEF b, new
    <3> QED
      BY <2>3 DEF Complete
  <2>6. local_count \in Slots
    <3> HIDE DEF U, G, t, s, c, b, a
    <3> QED
      BY <1>2, <1>5 DEF Full, Slots
  <2>7. DOMAIN G = Slots
    <3>1. DOMAIN locals = Slots
      BY <1>1 DEF Named, Table
    <3> QED
      BY <3>1 DEF Guarded
  <2>8. U[local_count] = Local(binding, type) /\ \A m \in Slots \ {local_count} : U[m] = G[m]
    <3> HIDE DEF G
    <3> QED
      BY <2>6, <2>7
  <2>9. Bare(open, Running - 1) /\ Together(open, Running, n) /\ open[n].kind # "call"
    BY <1>2, <1>3, MayNestFacts DEF Running, Together, InArguments
  <2>10. /\ \A i \in 1 .. n : \A y \in DOMAIN open[i].names :
              open[i].names[y].slot # local_count
         /\ \A i \in 1 .. n : Ends(open, i) => lev[i] <= local_count
    BY <1>1, <1>2, <2>9, Topmost
  <2>11. /\ Len(s) = n + 1 /\ (\A i \in 1 .. n : s[i] = open[i]) /\ s[n + 1] = b
         /\ Len(t) = n + 1 /\ (\A i \in 1 .. n : t[i] = open[i]) /\ t[n + 1] = c
    <3> HIDE DEF b, c
    <3> QED
      BY <1>2, Appended
  <2>12. \A i \in 1 .. n : Ends(s, i) => i = n \/ Ends(open, i)
    <3>1. ASSUME NEW i \in 1 .. n, i # n, Ends(s, i)
          PROVE  Ends(open, i)
      <4>1. i + 1 \in 1 .. n /\ i # Len(s) /\ i # Len(open)
        BY <1>2, <2>11, <3>1
      <4>2. s[i] = open[i] /\ s[i + 1] = open[i + 1]
        BY <2>11, <4>1
      <4> HIDE DEF s
      <4> QED
        BY <3>1, <4>1, <4>2 DEF Ends
    <3> QED
      BY <3>1
  <2> DEFINE low == [i \in 1 .. n + 1 |-> IF i = n + 1 THEN lev[n] ELSE lev[i]]
  <2>13. /\ \A i \in 1 .. n : low[i] = lev[i] /\ i # n + 1
         /\ low[n + 1] = local_count
         /\ low \in [1 .. n + 1 -> 0 .. MAX_LOCALS]
    BY <1>1, <1>2
  <2> HIDE DEF low
  <2>14. Judging(s, low, G)
    <3>1. "some" \in Variants /\ low[n + 1] = lev[n] /\ a.kind \in {"then", "loop", "arm"}
          /\ a.kind \in {"then", "else", "loop", "try", "arm"}
          /\ \A i \in 1 .. n : low[i] = lev[i]
      BY <1>1, <2>2, <2>13 DEF Variants
    <3> HIDE DEF a
    <3> QED
      BY <1>1, <1>3, <2>2, <3>1, EnteredJudged
  <2>15. Inside(s, low)
    <3>1. Inside(open, lev)
      BY <1>1, <1>2, NamedInside
    <3>2. \A i \in 1 .. n + 1 : i \in 1 .. n \/ i = n + 1
      BY <1>2
    <3>3. ASSUME NEW i \in 1 .. n + 1, NEW y \in DOMAIN s[i].names
          PROVE  s[i].names[y].slot \in Slots
      <4>1. i \in 1 .. n
        BY <2>4, <2>11, <3>2, <3>3
      <4> QED
        BY <2>11, <3>1, <3>3, <4>1 DEF Inside
    <3> QED
      BY <2>11, <2>13, <3>3 DEF Inside
  <2> HIDE DEF s, t, b, U, G
  <2>16. t[n + 1] = [s[n + 1] EXCEPT !.names = Variables(binding, local_count, type)]
    BY <2>11
  <2> HIDE DEF c
  <2>17. ASSUME NEW lv \in [1 .. Len(t) -> 0 .. MAX_LOCALS],
                Named(t, lv, U), lv[Len(t)] = local_count + 1
         PROVE  Judging(t, lv, U)
    <3>1. Pushed(open, lev, t, lv)
      <4>1. /\ \A i \in 1 .. n : t[i].kind = open[i].kind /\ t[i].keep = open[i].keep
            /\ t[n + 1].kind \in {"function", "arm", "call"} => t[n + 1].keep = lev[n]
            /\ t[n + 1].kind \in {"then", "else", "loop", "try"} => lv[n + 1] = lev[n]
            /\ t[n + 1].kind = "catch" => lv[n + 1] = lev[n] + 1
        BY <1>1, <2>5, <2>11, <2>17
      <4> QED
        BY <2>11, <4>1 DEF Pushed
    <3>2. \A i \in 1 .. n : lv[i] = lev[i]
      BY <1>1, <1>2, <2>17, <3>1, PushedLevels
    <3>3. Len(s) \in Nat \ {0} /\ Len(s) = n + 1 /\ Len(s) - 1 = n /\ Len(t) = Len(s)
      BY <1>2, <2>11
    <3>4. /\ s[Len(s)].kind # "call" /\ DOMAIN s[Len(s)].names = {} /\ Complete(s[Len(s)])
          /\ local_count = low[Len(s)]
          /\ lv[Len(s)] = local_count + 1
          /\ t[Len(s)] = [s[Len(s)] EXCEPT !.names = Variables(binding, local_count, type)]
      BY <2>3, <2>4, <2>11, <2>13, <2>16, <2>17, <3>3
    <3>5. \A i \in 1 .. Len(s) - 1 : /\ t[i] = s[i] /\ lv[i] = low[i]
                                     /\ Ends(s, i) => low[i] <= low[Len(s)]
                                     /\ \A y \in DOMAIN s[i].names :
                                          s[i].names[y].slot # low[Len(s)]
      <4>1. ASSUME NEW i \in 1 .. n, Ends(s, i)
            PROVE  lev[i] <= local_count
        <5>1. lev[n] <= local_count
          BY <1>1, <1>2
        <5> QED
          BY <2>10, <2>12, <4>1, <5>1
      <4> QED
        BY <2>10, <2>11, <2>13, <3>2, <3>3, <3>4, <4>1
    <3> QED
      <4>1. Introduces(s, low, G, t, binding, local_count, type, lv, U)
        BY <2>6, <2>8, <3>3, <3>4, <3>5 DEF Introduces
      <4> QED
        BY <2>14, <2>15, <4>1, BoundJudged
  <2> QED
    BY <2>1, <2>17, Judges
<1> QED
  BY <1>4, <1>5

LEMMA EnterCatchJudges ==
    ASSUME KInv, Strict, Going, NEW x, EnterCatch(x), Going'
    PROVE  NowJudging'
<1> DEFINE n == Len(open)
           b == Construct("catch")
           c == [b EXCEPT !.names = Variables(x, local_count, "any")]
           U == [locals EXCEPT ![local_count] = Local(x, "any")]
           r == Closed
           s == Append(r, b)
           t == Append(r, c)
<1>1. PICK lev \in [1 .. n -> 0 .. MAX_LOCALS] :
         /\ Named(open, lev, locals) /\ lev[n] = local_count
         /\ Judging(open, lev, locals)
  BY Begun
<1> DEFINE low == [i \in 1 .. Len(r) |-> lev[i]]
<1>2. /\ NInv /\ Right /\ n \in Nat \ {0} /\ Rooted(open) /\ Constructs(open)
      /\ Last(open) = open[n] /\ MayNest(open)
      /\ open[n].kind = "try" /\ Last(open).kind = "try" /\ Last(open).kind # "function"
      /\ Running \in 1 .. n /\ \A j \in Running + 1 .. n : open[j].kind # "function"
      /\ local_count \in 0 .. MAX_LOCALS /\ MAX_LOCALS \in Nat
      /\ Table(locals) /\ locals \in [Slots -> Entries]
  BY Begun DEF EnterCatch
<1>3. n > 1 /\ n - 1 \in 1 .. n /\ n \in 2 .. n /\ n \in 1 .. n /\ n - 1 \in Nat \ {0}
      /\ n - 1 \in 1 .. n - 1 /\ (n - 1) + 1 = n
  BY <1>2 DEF Rooted
<1>4. CASE Full
  BY <1>4 DEF EnterCatch, Check, Judge, Going
<1>5. CASE ~Full
  <2>1. open' = t /\ locals' = U /\ local_count' = local_count + 1
    BY <1>5 DEF EnterCatch, add_local
  <2>2. /\ Named(r, low, locals) /\ Len(r) = n - 1 /\ Constructs(r)
        /\ \A i \in 1 .. n - 1 : Likewise(open[i], r[i])
    <3>1. \A i \in 1 .. n - 1 : Likewise(open[i], r[i])
      BY <1>2, <1>3, CloseParts
    <3>2. \A k \in Slots : locals[k].name = locals[k].name
      OBVIOUS
    <3> QED
      BY <1>1, <1>2, <1>3, <3>1, <3>2, NamedClose
  <2>3. lev[n - 1] = local_count
    <3>1. Flat(open, n - 1, n)
      <4>1. \A m \in (n - 1) + 1 .. n : m = n
        <5> HIDE DEF n
        <5> QED
          BY <1>2, <1>3
      <4> QED
        BY <1>2, <4>1 DEF Flat
    <3>2. lev[n - 1] = lev[n]
      BY <1>1, <1>3, <3>1 DEF Named, Levels
    <3> QED
      BY <1>1, <3>2
  <2>4. r[n - 1].kind # "call"
    <3>1. open[n - 1].kind # "call"
      BY <1>1, <1>2, <1>3 DEF Named, Kinds
    <3> QED
      BY <1>3, <2>2, <3>1 DEF Likewise
  <2>5. local_count \in Slots
    <3> HIDE DEF U, t, s, c, b, r, low
    <3> QED
      BY <1>2, <1>5 DEF Full, Slots
  <2>6. U[local_count] = Local(x, "any") /\ \A m \in Slots \ {local_count} : U[m] = locals[m]
    BY <1>2, <2>5
  <2>7. Fresh(b) /\ b.kind = "catch"
    BY FreshConstruct
  <2>8. /\ DOMAIN b.names = {} /\ b.past = {} /\ b.tests = <<>> /\ b.local = NoSlot
        /\ Complete(b)
    BY <2>7, NothingNamed DEF Fresh
  <2>9. c.kind = "catch"
    <3> HIDE DEF b
    <3> QED
      BY <2>7, <2>8 DEF Complete
  <2> HIDE DEF r, b
  <2>10. /\ Len(s) = n /\ (\A i \in 1 .. n - 1 : s[i] = r[i]) /\ s[n] = b
         /\ Len(t) = n /\ (\A i \in 1 .. n - 1 : t[i] = r[i]) /\ t[n] = c
    <3> HIDE DEF c
    <3>1. /\ Len(s) = Len(r) + 1 /\ (\A i \in 1 .. Len(r) : s[i] = r[i])
          /\ s[Len(r) + 1] = b
          /\ Len(t) = Len(r) + 1 /\ (\A i \in 1 .. Len(r) : t[i] = r[i])
          /\ t[Len(r) + 1] = c
      BY <2>2, Appended
    <3> QED
      BY <1>3, <2>2, <3>1
  <2>11. t[n] = [s[n] EXCEPT !.names = Variables(x, local_count, "any")]
    BY <2>10
  <2> HIDE DEF c, s, t, U
  <2>12. Judging(r, low, locals)
    <3>1. r = Closed /\ open[n].local = NoSlot
      BY <1>1, <1>2, <1>3, NothingTested DEF r, Judging
    <3>2. \A i \in 1 .. n - 1 : low[i] = lev[i]
      BY <2>2
    <3> HIDE DEF low
    <3> QED
      BY <1>1, <1>2, <1>3, <3>1, <3>2, LeftJudged
  <2>13. /\ Len(r) \in Nat \ {0} /\ Len(r) + 1 = n /\ Len(r) = n - 1
         /\ \A i \in 1 .. n - 1 : low[i] = lev[i]
    BY <1>3, <2>2
  <2>14. Judging(s, lev, locals)
    <3>1. Inside(r, low)
      BY <2>2, <2>13, NamedInside
    <3>2. Reguards(locals, locals, b.local)
      BY NotReguarded
    <3>3. /\ Len(s) = Len(r) + 1 /\ (\A i \in 1 .. Len(r) : s[i] = r[i]) /\ s[Len(r) + 1] = b
          /\ r[Len(r)].kind # "call" /\ lev[Len(r) + 1] = low[Len(r)]
      BY <1>1, <1>3, <2>3, <2>4, <2>10, <2>13
    <3>4. \A i \in 1 .. Len(r) : Ends(r, i) => lev[i] = low[i]
      BY <2>13
    <3> HIDE DEF low
    <3>5. Enters(r, low, locals, s, b, lev, locals)
      BY <2>7, <2>8, <2>13, <3>1, <3>2, <3>3, <3>4 DEF Enters
    <3> QED
      BY <2>12, <3>5, JudgedPush
  <2> HIDE DEF low
  <2>15. \A i \in 1 .. n - 1 : s[i].kind = open[i].kind /\ s[i].names = open[i].names
    BY <2>2, <2>10 DEF Likewise
  <2>16. /\ \A i \in 1 .. n : \A y \in DOMAIN open[i].names :
              open[i].names[y].slot # local_count
         /\ \A i \in 1 .. n : Ends(open, i) => lev[i] <= local_count
    <3>1. Bare(open, Running - 1) /\ Together(open, Running, n)
      BY <1>2, MayNestFacts DEF Running, Together
    <3> QED
      BY <1>1, <1>2, <3>1, Topmost
  <2>17. ASSUME NEW i \in 1 .. n - 1, Ends(s, i)
         PROVE  lev[i] <= local_count
    <3>1. CASE i = n - 1
      BY <1>2, <2>3, <3>1
    <3>2. CASE i # n - 1
      <4>1. i + 1 \in 1 .. n - 1 /\ i # n /\ i \in 1 .. n
        BY <1>2, <3>2
      <4>2. Ends(open, i)
        BY <2>10, <2>15, <2>17, <4>1 DEF Ends
      <4> QED
        BY <2>16, <4>1, <4>2
    <3> QED
      BY <3>1, <3>2
  <2>18. Inside(s, lev)
    <3>1. Inside(open, lev)
      BY <1>1, <1>2, NamedInside
    <3>2. \A i \in 1 .. n : i \in 1 .. n - 1 \/ i = n
      BY <1>2
    <3>3. ASSUME NEW i \in 1 .. n, NEW y \in DOMAIN s[i].names
          PROVE  s[i].names[y].slot \in Slots
      <4>1. i \in 1 .. n - 1
        BY <2>8, <2>10, <3>2, <3>3
      <4> QED
        BY <2>15, <3>1, <3>3, <4>1 DEF Inside
    <3> QED
      BY <1>1, <2>10, <3>3 DEF Inside
  <2>19. ASSUME NEW lv \in [1 .. Len(t) -> 0 .. MAX_LOCALS],
                Named(t, lv, U), lv[Len(t)] = local_count + 1
         PROVE  Judging(t, lv, U)
    <3> DEFINE p == n - 1
    <3>1. /\ p \in 1 .. Len(open) /\ p <= Len(t) /\ Len(open) \in Nat /\ Len(t) \in Nat
          /\ n \in 2 .. Len(t) /\ p \in 1 .. Len(t)
      BY <1>2, <1>3, <2>10
    <3>2. \A i \in 1 .. p : t[i].kind = open[i].kind /\ t[i].keep = open[i].keep
      BY <2>2, <2>10 DEF Likewise
    <3>3. Levels(open, lev) /\ Kinds(open) /\ Levels(t, lv)
      BY <1>1, <2>19 DEF Named
    <3>4. lv[p] = local_count
      <4>1. lv[n] = lv[p] + 1 /\ lv[n] = local_count + 1
        BY <2>9, <2>10, <2>19, <3>1, <3>3 DEF Levels
      <4>2. lv[p] \in Nat /\ local_count \in Nat
        <5> HIDE DEF p
        <5> QED
          BY <1>2, <2>19, <3>1
      <4> QED
        BY <4>1, <4>2
    <3>5. lev[p] = lv[p]
      BY <2>3, <3>4
    <3>6. \A i \in 1 .. p : lev[i] = lv[i]
      <4> HIDE DEF p
      <4>1. Shares(open, t, p)
        BY <3>1, <3>2 DEF Shares
      <4> QED
        BY <3>3, <3>5, <4>1, SharedLevels
    <3>7. Len(s) \in Nat \ {0} /\ Len(s) = n /\ Len(t) = Len(s)
      BY <1>2, <2>10
    <3>8. /\ s[Len(s)].kind # "call" /\ DOMAIN s[Len(s)].names = {} /\ Complete(s[Len(s)])
          /\ local_count = lev[Len(s)]
          /\ lv[Len(s)] = local_count + 1
          /\ t[Len(s)] = [s[Len(s)] EXCEPT !.names = Variables(x, local_count, "any")]
      BY <1>1, <2>7, <2>8, <2>10, <2>11, <2>19, <3>7
    <3>9. \A i \in 1 .. Len(s) - 1 : /\ t[i] = s[i] /\ lv[i] = lev[i]
                                     /\ Ends(s, i) => lev[i] <= lev[Len(s)]
                                     /\ \A y \in DOMAIN s[i].names :
                                          s[i].names[y].slot # lev[Len(s)]
      <4>1. \A i \in 1 .. n - 1 : i \in 1 .. n
        BY <1>2
      <4> QED
        BY <1>1, <2>10, <2>15, <2>16, <2>17, <3>6, <3>7, <4>1
    <3> HIDE DEF p
    <3>10. Introduces(s, lev, locals, t, x, local_count, "any", lv, U)
      BY <2>5, <2>6, <3>7, <3>8, <3>9 DEF Introduces
    <3> QED
      BY <2>14, <2>18, <3>10, BoundJudged
  <2> QED
    BY <2>1, <2>19, Judges
<1> QED
  BY <1>4, <1>5

-----------------------------------------------------------------------------
(* Declarations *)

\* A declaration in s, which is open or what it was before a function.
LEMMA DeclaresJudged ==
    ASSUME NEW s, NEW lev, NEW T, Named(s, lev, T), Judging(s, lev, T),
           Constructs(s), Rooted(s), Right, MayDeclare(s),
           NEW x, NEW k \in Slots, NEW type,
           open' = Declare(s, Block(s), Variables(x, k, type)),
           NEW U, locals' = U,
           \/ U = T /\ local_count' = lev[Len(s)] /\ T[k].type = type
           \/ /\ local_count' = k + 1 /\ k = lev[Len(s)]
              /\ U[k] = Local(x, type) /\ \A m \in Slots \ {k} : U[m] = T[m]
    PROVE  NowJudging'
<1> DEFINE n == Len(s)
           t == Declare(s, n, Variables(x, k, type))
           f == FunctionOf(s)
<1>1. /\ n \in Nat \ {0} /\ n \in 1 .. n /\ f \in 1 .. n
      /\ \A j \in f + 1 .. n : s[j].kind # "function"
  BY RunningFacts
<1>2. Block(s) = n /\ Bare(s, f - 1) /\
      \E h \in 1 .. n : s[h].kind \in {"function", "arm"} /\ Flat(s, h, n)
  BY HolderFacts DEF Named
<1>3. open' = t
  BY <1>2
<1>4. s[n].kind # "call"
  <2>1. PICK h \in 1 .. n : s[h].kind \in {"function", "arm"} /\ Flat(s, h, n)
    BY <1>2
  <2>2. n = h \/ n \in h + 1 .. n
    BY <1>1
  <2> QED
    BY <2>1, <2>2 DEF Flat
<1>5. /\ Len(t) = n
      /\ \A i \in 1 .. n : t[i].kind = s[i].kind /\ t[i].keep = s[i].keep
      /\ \A i \in 1 .. n - 1 : t[i] = s[i]
      /\ DOMAIN t[n].names = DOMAIN s[n].names \cup {x}
      /\ t[n].names[x].slot = k
      /\ \A y \in DOMAIN s[n].names \ {x} : t[n].names[y] = s[n].names[y]
  <2>1. t = Declare(s, n, Variables(x, k, type))
    OBVIOUS
  <2> HIDE DEF t
  <2> QED
    BY <1>1, <2>1, DeclareNames
<1>6. /\ t[n].names[x].type = type /\ t[n].past = s[n].past
      /\ t[n].tests = s[n].tests /\ t[n].finds = s[n].finds
      /\ t[n].local = s[n].local /\ t[n].was = s[n].was
  <2> DEFINE new == Variables(x, k, type)
             p == [y \in DOMAIN s[n].names \cup DOMAIN new |->
                       IF y \in DOMAIN new THEN new[y] ELSE s[n].names[y]]
  <2>1. n \in DOMAIN s /\ Complete(s[n])
    BY <1>1 DEF Constructs
  <2>2. t = [s EXCEPT ![n].names = p]
    BY DEF Declare
  <2>3. x \in DOMAIN new /\ new[x].type = type
    BY DEF Variables
  <2> HIDE DEF new
  <2>4. p[x].type = type
    BY <2>3
  <2> HIDE DEF p, t
  <2>5. t[n] = [s[n] EXCEPT !.names = p]
    BY <2>1, <2>2
  <2>6. t[n].names = p /\ t[n].past = s[n].past
        /\ t[n].tests = s[n].tests /\ t[n].finds = s[n].finds
        /\ t[n].local = s[n].local /\ t[n].was = s[n].was
    BY <2>1, <2>5 DEF Complete
  <2> QED
    BY <2>4, <2>6
<1> HIDE DEF t
<1>7. Inside(s, lev)
  BY <1>1, NamedInside
<1>8. /\ \A i \in 1 .. n : \A y \in DOMAIN s[i].names : s[i].names[y].slot # lev[n]
      /\ \A i \in 1 .. n : Ends(s, i) => lev[i] <= lev[n]
  <2>1. Together(s, f, n)
    BY <1>1 DEF Together
  <2> HIDE DEF f, n
  <2> QED
    BY <1>1, <1>2, <2>1, Topmost DEF n
<1>9. ASSUME NEW lv \in [1 .. Len(t) -> 0 .. MAX_LOCALS], Named(t, lv, U),
             lv[Len(t)] = local_count'
      PROVE  Judging(t, lv, U)
  <2>1. \A i \in 1 .. n - 1 : Ends(s, i) => lv[i] = lev[i]
    <3>1. /\ \E h \in 1 .. Len(s) : s[h].kind \in {"function", "arm"} /\ Flat(s, h, Len(s))
          /\ Len(s) \in Nat \ {0} /\ Len(t) = Len(s)
          /\ \A i \in 1 .. Len(s) : t[i].kind = s[i].kind /\ t[i].keep = s[i].keep
      BY <1>1, <1>2, <1>5
    <3> QED
      BY <1>9, <3>1, DeclaredLevels
  <2>2. \/ U = T /\ lv[n] = lev[n] /\ T[k].type = type
        \/ /\ lev[n] = k /\ lv[n] = k + 1
           /\ U[k] = Local(x, type) /\ \A m \in Slots \ {k} : U[m] = T[m]
           /\ \A i \in 1 .. n : \A y \in DOMAIN s[i].names : s[i].names[y].slot # k
           /\ \A i \in 1 .. n - 1 : Ends(s, i) => lev[i] <= k
    <3>1. \A i \in 1 .. n - 1 : i \in 1 .. n
      BY <1>1
    <3> QED
      BY <1>5, <1>8, <1>9, <3>1
  <2>3. t[n].kind = s[n].kind
    BY <1>1, <1>5
  <2>4. Defines(s, lev, T, t, x, k, type, lv, U)
    BY <1>1, <1>4, <1>5, <1>6, <1>7, <2>1, <2>2, <2>3 DEF Defines
  <2> QED
    BY <2>4, JudgedDeclare
<1> QED
  BY <1>3, <1>9, Judges

\* A name that nothing around declares, but an entry in use has, is past.
LEMMA Forgotten ==
    ASSUME KInv, Strict, Going, NEW lev, Named(open, lev, locals),
           lev[Len(open)] = local_count, Judging(open, lev, locals), ~InArguments,
           NEW x, ~Visible(x), NEW r \in 0 .. local_count - 1, locals[r].name = x,
           \A m \in r + 1 .. local_count - 1 : locals[m].name # x
    PROVE  <<x, locals[r].type>> \in open[Running].past
<1> DEFINE n == Len(open)
<1>1. /\ n \in Nat \ {0} /\ n \in 1 .. n /\ Last(open) = open[n]
      /\ Running \in 1 .. n /\ Running <= n /\ open[Running].kind = "function"
      /\ \A j \in Running + 1 .. n : open[j].kind # "function"
  BY Begun
<1>2. Together(open, Running, n) /\ Ends(open, n)
  BY <1>1 DEF Together, Ends, InArguments
<1>3. \/ \E i \in Running .. n : locals[r].name \in DOMAIN open[i].names
      \/ \E m \in r + 1 .. lev[n] - 1 : locals[m].name = locals[r].name
      \/ <<locals[r].name, locals[r].type>> \in open[Running].past
  BY <1>1, <1>2 DEF Judging, Remembered
<1>4. ~ \E i \in Running .. n : x \in DOMAIN open[i].names
  BY DEF Visible, Declaring
<1> QED
  BY <1>3, <1>4

LEMMA EndFunctionJudges ==
    ASSUME KInv, Strict, Going, NEW name, EndFunction(name), name # NoName, Going'
    PROVE  NowJudging'
<1> DEFINE n == Len(open)
           s == Front(open)
           count == Last(open).keep
           U == [locals EXCEPT ![count] = Local(name, "fun")]
<1>1. PICK lev \in [1 .. n -> 0 .. MAX_LOCALS] :
         /\ Named(open, lev, locals) /\ lev[n] = local_count
         /\ Judging(open, lev, locals)
  BY Begun
<1> DEFINE low == [i \in 1 .. Len(s) |-> lev[i]]
<1>2. /\ NInv /\ Right /\ n \in Nat \ {0} /\ n > 1 /\ Last(open) = open[n]
      /\ open[n].kind = "function" /\ MayDeclare(s)
      /\ Table(locals) /\ locals \in [Slots -> Entries] /\ MAX_LOCALS \in Nat
  BY Begun DEF EndFunction
<1>3. n - 1 \in 1 .. n /\ n \in 2 .. n /\ n \in 1 .. n
  BY <1>2
<1>4. CASE count = MAX_LOCALS
  BY <1>4 DEF EndFunction, Check, Judge, Going
<1>5. CASE count # MAX_LOCALS
  <2>1. /\ locals' = U /\ local_count' = count + 1
        /\ open' = Declare(s, Block(s), Variables(name, count, "fun"))
    BY <1>5 DEF EndFunction
  <2>2. Named(s, low, locals) /\ Len(s) = n - 1 /\ Constructs(s) /\ Rooted(s)
    <3>1. s = Front(open) /\ \A k \in Slots : locals[k].name = locals[k].name
      OBVIOUS
    <3> HIDE DEF s
    <3> QED
      BY <1>1, <1>2, <3>1, NamedClose
  <2>3. lev[n - 1] = count
    BY <1>1, <1>2, <1>3 DEF Named, Levels
  <2>4. low[Len(s)] = count
    <3>1. n - 1 \in 1 .. Len(s)
      BY <1>2, <1>3, <2>2
    <3> HIDE DEF s, count
    <3> QED
      BY <2>2, <2>3, <3>1
  <2>5. count \in Slots
    <3> HIDE DEF s, count, low, U
    <3> QED
      BY <1>1, <1>2, <1>3, <1>5, <2>3 DEF Slots
  <2>6. U[count] = Local(name, "fun") /\ \A m \in Slots \ {count} : U[m] = locals[m]
    <3> HIDE DEF count
    <3> QED
      BY <1>2, <2>5
  <2>7. Judging(s, low, locals)
    <3>1. open[n].local = NoSlot
      BY <1>1, <1>2, <1>3, NothingTested DEF Judging
    <3>2. s = Front(open) /\ \A i \in 1 .. n - 1 : low[i] = lev[i]
      BY <2>2
    <3>3. Last(open).kind \notin Levelled /\ Last(open).local = NoSlot
      BY <1>2, <3>1 DEF Levelled
    <3> HIDE DEF s, low
    <3> QED
      BY <1>1, <1>2, <3>2, <3>3, LeftJudged
  <2> HIDE DEF s, low, U, count
  <2> QED
    BY <1>2, <2>1, <2>2, <2>4, <2>5, <2>6, <2>7, DeclaresJudged
<1> QED
  BY <1>4, <1>5

LEMMA NotInArguments ==
    ASSUME KInv, Strict, Going, NEW lev, Named(open, lev, locals), MayDeclare(open)
    PROVE  ~InArguments
<1> DEFINE n == Len(open)
<1>1. /\ Constructs(open) /\ Rooted(open) /\ Right /\ n \in Nat \ {0} /\ Last(open) = open[n]
  BY Begun
<1>2. PICK h \in 1 .. n : open[h].kind \in {"function", "arm"} /\ Flat(open, h, n)
  BY <1>1, HolderFacts DEF Named
<1>3. n = h \/ n \in h + 1 .. n
  BY <1>1
<1> QED
  BY <1>1, <1>2, <1>3 DEF Flat, InArguments

\* A name that is declared again in a later block keeps its entry, and its type
\* where the text gives it the same one.
LEMMA SameTypeAgain ==
    ASSUME KInv, Strict, Going, NEW lev, Named(open, lev, locals),
           lev[Len(open)] = local_count, Judging(open, lev, locals),
           NEW x, ~Visible(x), MayDeclare(open), resolve_local(x) # NoSlot,
           NEW type, ~ \E u \in Types \ {type} : <<x, u>> \in open[Running].past
    PROVE  locals[resolve_local(x)].type = type
<1> DEFINE r == resolve_local(x)
<1>1. ~InArguments
  BY NotInArguments
<1>2. /\ local_count \in Nat /\ local_count \in 0 .. MAX_LOCALS /\ MAX_LOCALS \in Nat
      /\ locals \in [Slots -> Entries]
  BY Begun
<1>3. /\ r \in 0 .. local_count - 1 /\ locals[r].name = x
      /\ \A m \in r + 1 .. local_count - 1 : locals[m].name # x
  BY <1>2, Resolved
<1> HIDE DEF r
<1>4. r \in Slots
  BY <1>2, <1>3 DEF Slots
<1>5. locals[r].type \in Types
  BY <1>2, <1>4 DEF Entries
<1>6. <<x, locals[r].type>> \in open[Running].past
  BY <1>1, <1>3, Forgotten
<1> QED
  BY <1>5, <1>6 DEF r

LEMMA AssignJudges ==
    ASSUME KInv, Strict, Going, NEW x, NEW t \in Types, NEW declared \in Types \cup {"no"},
           Assign(x, t, declared), Going'
    PROVE  NowJudging'
<1> DEFINE n == Len(open)
           r == resolve_local(x)
           type == IF declared = "no" THEN t ELSE declared
           k == IF r = NoSlot THEN local_count ELSE r
<1>1. PICK lev \in [1 .. n -> 0 .. MAX_LOCALS] :
         /\ Named(open, lev, locals) /\ lev[n] = local_count
         /\ Judging(open, lev, locals)
  BY Begun
<1>2. /\ Constructs(open) /\ Rooted(open) /\ n \in Nat \ {0} /\ n \in 1 .. n /\ Right /\ NInv
      /\ Running \in 1 .. n /\ open[Running].kind = "function"
      /\ \A j \in Running + 1 .. n : open[j].kind # "function"
      /\ local_count \in 0 .. MAX_LOCALS /\ local_count \in Nat /\ MAX_LOCALS \in Nat
      /\ locals \in [Slots -> Entries]
  BY Begun
<1>3. CASE \E message, wrong : Check(message, wrong)
  BY <1>3, CheckJudged
<1>4. CASE /\ r = NoSlot => ~Full /\ add_local(x, type)
           /\ r # NoSlot => UNCHANGED <<locals, local_count>>
           /\ open' = IF Visible(x) THEN Stored(x)
                      ELSE Declare(open, Block(open), Variables(x, k, type))
  <2>1. CASE Visible(x)
    <3>1. PICK i : i \in Declaring(x)
      BY <2>1 DEF Visible
    <3>2. /\ open[i].names[x].slot \in 0 .. local_count - 1
          /\ locals[open[i].names[x].slot].name = x
      BY <1>1, <1>2, <3>1, VisibleFacts
    <3>3. r # NoSlot
      BY <1>2, <3>2, Resolved
    <3> QED
      BY <1>4, <2>1, <3>3, StoredJudged
  <2>2. CASE ~Visible(x)
    <3>1. MayDeclare(open)
      BY <2>2 DEF Assign
    <3>2. open' = Declare(open, Block(open), Variables(x, k, type))
      BY <1>4, <2>2
    <3>3. CASE r = NoSlot
      <4> DEFINE U == [locals EXCEPT ![local_count] = Local(x, type)]
      <4>1. locals' = U /\ local_count' = local_count + 1 /\ k = local_count
        BY <1>4, <3>3 DEF add_local
      <4>2. local_count \in Slots
        <5>1. local_count # MAX_LOCALS
          BY <1>4, <3>3 DEF Full
        <5> HIDE DEF U, type, k, r
        <5> QED
          BY <1>2, <5>1 DEF Slots
      <4>3. U[local_count] = Local(x, type) /\ \A m \in Slots \ {local_count} : U[m] = locals[m]
        <5> HIDE DEF type
        <5> QED
          BY <1>2, <4>2
      <4> HIDE DEF U, type, k, r
      <4> QED
        BY <1>1, <1>2, <3>1, <3>2, <4>1, <4>2, <4>3, DeclaresJudged
    <3>4. CASE r # NoSlot
      <4>1. /\ r \in 0 .. local_count - 1 /\ locals[r].name = x
            /\ \A m \in r + 1 .. local_count - 1 : locals[m].name # x
        BY <1>2, <3>4, Resolved
      <4>2. k = r /\ locals' = locals /\ local_count' = local_count
        BY <1>4, <3>4
      <4>3. locals[r].type = type
        <5>1. "retyped" \notin features
          BY DEF Strict
        <5>2. ~ \E u \in Types \ {type} : <<x, u>> \in open[Running].past
          BY <2>2, <5>1 DEF Assign
        <5> HIDE DEF type
        <5> QED
          BY <1>1, <2>2, <3>1, <3>4, <5>2, SameTypeAgain
      <4> HIDE DEF type, k, r
      <4>4. k \in Slots
        BY <1>2, <4>1, <4>2 DEF Slots
      <4> QED
        BY <1>1, <1>2, <3>1, <3>2, <4>2, <4>3, <4>4, DeclaresJudged
    <3> QED
      BY <3>3, <3>4
  <2> QED
    BY <2>1, <2>2
<1> QED
  BY <1>3, <1>4 DEF Assign

\* A function takes the first entries of the table; it has captures only where
\* they are not found, which is a mistake.
LEMMA BeginFunctionJudges ==
    ASSUME KInv, Strict, Going, NEW captures \in Lists(Names), NEW params \in Params,
           BeginFunction(captures, params), Going'
    PROVE  NowJudging'
<1> DEFINE n == Len(open)
           found == [i \in DOMAIN captures |-> resolve_local(captures[i])]
           types == [i \in DOMAIN captures |-> Local(captures[i], locals[found[i]].type)]
           others == [i \in DOMAIN params |-> Local(params[i].name, params[i].type)]
           entries == types \o others
           kinds == [i \in DOMAIN captures |-> Variable(captures[i]).type]
           wanted == [i \in DOMAIN params |-> params[i].type]
           meant == kinds \o wanted
           pnames == [i \in DOMAIN params |-> params[i].name]
           name == captures \o pnames
           at(x) == Max({i \in DOMAIN name : name[i] = x})
           new == [x \in Range(name) |-> [slot |-> at(x) - 1, type |-> meant[at(x)]]]
           U == [i \in Slots |-> IF i < Len(entries) THEN entries[i + 1] ELSE locals[i]]
           b == [Construct("function") EXCEPT !.keep = local_count]
           c == [b EXCEPT !.names = new]
           N == Len(name)
           t == Append(open, c)
<1>1. PICK lev \in [1 .. n -> 0 .. MAX_LOCALS] :
         /\ Named(open, lev, locals) /\ lev[n] = local_count
         /\ Judging(open, lev, locals)
  BY Begun
<1>2. /\ Constructs(open) /\ n \in Nat \ {0} /\ n \in 1 .. n /\ Last(open) = open[n]
      /\ local_count \in Nat /\ MAX_LOCALS \in Nat
  BY Begun
<1>3. CASE \E message, wrong : Check(message, wrong)
  BY <1>3, CheckJudged
<1>4. CASE /\ N <= MAX_LOCALS
           /\ \A i \in DOMAIN captures : MayMention(captures[i]) /\ found[i] # NoSlot
           /\ name # <<>> => Bare(open, n) \/ "nested_names" \in features
           /\ locals' = U /\ local_count' = Len(entries)
           /\ open' = Append(open, [Construct("function") EXCEPT
                                       !.keep = local_count, !.names = new])
  <2>1. PICK p \in Nat : captures = [i \in 1 .. p |-> captures[i]] /\ DOMAIN captures = 1 .. p
    BY Listed
  <2>2. PICK q \in Nat : DOMAIN params = 1 .. q
    <3>1. params \in Lists([name : Names, type : program.types])
      BY DEF Params
    <3> QED
      BY <3>1, Listed
  <2>3. /\ types = [i \in 1 .. p |-> types[i]] /\ others = [i \in 1 .. q |-> others[i]]
        /\ pnames = [i \in 1 .. q |-> pnames[i]]
        /\ kinds = [i \in 1 .. p |-> kinds[i]] /\ wanted = [i \in 1 .. q |-> wanted[i]]
        /\ \A i \in 1 .. q : others[i] = Local(pnames[i], wanted[i])
    BY <2>1, <2>2
  <2> HIDE DEF types, others, pnames, kinds, wanted
  <2>4. /\ Len(entries) = p + q
        /\ \A i \in 1 .. q : entries[p + i] = others[i]
    BY <2>3, Joined
  <2>5. /\ N = p + q /\ DOMAIN name = 1 .. N
        /\ \A i \in 1 .. q : name[p + i] = pnames[i]
    BY <2>1, <2>3, Joined
  <2>6. \A i \in 1 .. q : meant[p + i] = wanted[i]
    BY <2>3, Joined
  <2> HIDE DEF entries, name, N, meant
  <2>7. N \in 0 .. MAX_LOCALS /\ N \in Nat /\ Len(entries) = N
    BY <1>2, <1>4, <2>4, <2>5
  <2>8. N # 0 => Bare(open, n)
    <3>1. "nested_names" \notin features
      BY DEF Strict
    <3>2. N # 0 => name # <<>>
      BY <2>5, <2>7
    <3> QED
      BY <1>4, <3>1, <3>2
  <2>9. p = 0
    <3> SUFFICES ASSUME p # 0 PROVE FALSE
      OBVIOUS
    <3>1. 1 \in DOMAIN captures /\ N # 0
      BY <2>1, <2>5
    <3>2. MayMention(captures[1]) /\ resolve_local(captures[1]) # NoSlot
      BY <1>4, <3>1
    <3>3. ~InArguments
      BY <3>2 DEF MayMention, Strict
    <3>4. \A i \in 1 .. n : Blank(open[i])
      BY <2>8, <3>1 DEF Bare, Blank, NothingDeclared
    <3>5. Ends(open, n)
      BY <1>2, <3>3 DEF Ends, InArguments
    <3>6. local_count = 0
      BY <1>1, <1>2, <3>4, <3>5 DEF Judging, Unused
    <3>7. 0 .. local_count - 1 = {}
      BY <3>6
    <3> QED
      BY <1>2, <3>2, <3>7, Resolved
  <2>10. /\ N = q
         /\ \A i \in 1 .. q : /\ entries[i] = Local(name[i], wanted[i])
                              /\ meant[i] = wanted[i]
    <3>1. N = q /\ \A i \in 1 .. q : p + i = i
      BY <2>5, <2>9
    <3> QED
      BY <2>3, <2>4, <2>5, <2>6, <3>1, SMTT(30)
  <2>11. /\ \A k \in 0 .. N - 1 : k \in Slots => U[k] = Local(name[k + 1], wanted[k + 1])
         /\ N = 0 => \A k \in Slots : U[k] = locals[k]
    <3>1. ASSUME NEW k \in Slots, k \in 0 .. N - 1
          PROVE  U[k] = Local(name[k + 1], wanted[k + 1])
      <4>1. k + 1 \in 1 .. q /\ k < Len(entries)
        BY <2>7, <2>10, <3>1
      <4> QED
        BY <2>10, <4>1
    <3>2. ASSUME NEW k \in Slots, N = 0
          PROVE  U[k] = locals[k]
      BY <2>7, <3>2 DEF Slots
    <3> HIDE DEF U
    <3> QED
      BY <3>1, <3>2
  <2>12. \A k \in 0 .. N - 1 : k \in Slots /\ k + 1 \in 1 .. N
    BY <1>2, <2>7 DEF Slots
  <2>13. DOMAIN new = {name[i] : i \in 1 .. N}
    BY <2>5 DEF Range
  <2> HIDE DEF U
  <2>14. ASSUME NEW x \in DOMAIN new
         PROVE  U[new[x].slot].type = new[x].type
    <3> DEFINE S == {i \in DOMAIN name : name[i] = x}
               j == Max(S)
    <3>1. S \subseteq 1 .. N /\ S # {} /\ 1 \in Int /\ N \in Int
      BY <2>5, <2>7, <2>13
    <3>2. new[x].slot = j - 1 /\ new[x].type = meant[j]
      OBVIOUS
    <3>3. j \in S
      <4> HIDE DEF S
      <4> QED
        BY <3>1, MaxOf
    <3> HIDE DEF j, new
    <3>4. j \in 1 .. N
      BY <2>5, <3>3
    <3>5. j - 1 \in 0 .. N - 1 /\ (j - 1) + 1 = j
      BY <2>7, <3>4
    <3>6. U[j - 1] = Local(name[j], wanted[j])
      BY <2>11, <2>12, <3>5
    <3>7. meant[j] = wanted[j]
      BY <2>10, <3>4
    <3> QED
      BY <3>2, <3>6, <3>7 DEF Local
  <2>15. Fresh(b) /\ b.kind = "function" /\ b.keep = local_count
    BY FreshWithKeep, ZenonT(30)
  <2>16. /\ c.kind = "function" /\ c.keep = local_count /\ c.past = {} /\ c.names = new
         /\ c.tests = <<>> /\ c.local = NoSlot
    <3>1. Complete(b) /\ b.past = {} /\ b.tests = <<>> /\ b.local = NoSlot
      BY <2>15, NothingNamed DEF Fresh
    <3> HIDE DEF b, new
    <3> QED
      BY <2>15, <3>1 DEF Complete
  <2>17. open' = t /\ local_count' = N /\ locals' = U
    BY <1>4, <2>7 DEF U
  <2> HIDE DEF c, new
  <2>18. Len(t) = n + 1 /\ (\A i \in 1 .. n : t[i] = open[i]) /\ t[n + 1] = c
    BY <1>2, Appended
  <2> HIDE DEF t
  <2>19. ASSUME NEW lv \in [1 .. Len(t) -> 0 .. MAX_LOCALS], Named(t, lv, U), lv[Len(t)] = N
         PROVE  Judging(t, lv, U)
    <3>1. \A i \in 1 .. n : lv[i] = lev[i]
      <4>1. /\ \A i \in 1 .. n : t[i].kind = open[i].kind /\ t[i].keep = open[i].keep
            /\ t[n + 1].kind \in {"function", "arm", "call"} => t[n + 1].keep = lev[n]
            /\ t[n + 1].kind \notin {"then", "else", "loop", "try"}
            /\ t[n + 1].kind # "catch"
        BY <1>1, <2>16, <2>18
      <4>2. Pushed(open, lev, t, lv)
        BY <2>18, <4>1 DEF Pushed
      <4> QED
        BY <1>1, <1>2, <2>19, <4>2, PushedLevels
    <3>2. lv[n + 1] = N
      BY <2>18, <2>19
    <3>3. CASE N = 0
      <4>1. DOMAIN c.names = {}
        <5>1. \A i \in 1 .. N : FALSE
          BY <3>3
        <5> QED
          BY <2>13, <2>16, <5>1
      <4>2. Reguards(locals, U, c.local)
        BY <2>11, <3>3 DEF Reguards
      <4>3. Inside(open, lev)
        BY <1>1, <1>2, NamedInside
      <4>4. Enters(open, lev, locals, t, c, lv, U)
        BY <1>2, <2>16, <2>18, <3>1, <3>2, <3>3, <4>1, <4>2, <4>3 DEF Enters
      <4> QED
        BY <1>1, <4>4, JudgedPush
    <3>4. CASE N # 0
      <4>1. \A i \in 1 .. n : Empty(open[i])
        BY <2>8, <3>4 DEF Bare, Empty
      <4>2. \A k \in 0 .. N - 1 : U[k].name \in DOMAIN c.names /\ U[k].guard = "no"
        <5>1. ASSUME NEW k \in 0 .. N - 1
              PROVE  U[k].name \in DOMAIN c.names /\ U[k].guard = "no"
          <6>1. U[k] = Local(name[k + 1], wanted[k + 1]) /\ k + 1 \in 1 .. N
            BY <2>11, <2>12
          <6>2. U[k].name = name[k + 1] /\ U[k].guard = "no"
            BY <6>1 DEF Local
          <6> QED
            BY <2>13, <2>16, <6>1, <6>2
        <5> QED
          BY <5>1
      <4>3. DOMAIN c.names # {}
        <5>1. 1 \in 1 .. N
          BY <2>7, <3>4
        <5>2. name[1] \in DOMAIN new
          BY <2>13, <5>1
        <5> QED
          BY <2>16, <5>2
      <4>4. \A x \in DOMAIN c.names : U[c.names[x].slot].type = c.names[x].type
        BY <2>14, <2>16
      <4>5. Starts(open, lev, t, c, N, lv, U)
        BY <1>2, <2>16, <2>18, <3>1, <3>2, <4>1, <4>2, <4>3, <4>4 DEF Starts
      <4> QED
        BY <1>1, <4>5, JudgedFunction
    <3> QED
      BY <3>3, <3>4
  <2> QED
    BY <2>17, <2>19, Judges
<1>5. ASSUME ~ \E message, wrong : Check(message, wrong)
      PROVE  \A i \in DOMAIN captures : MayMention(captures[i]) /\ found[i] # NoSlot
  <2>1. \A i \in DOMAIN captures : MayMention(captures[i])
    BY DEF BeginFunction
  <2>2. ~ \E i \in DOMAIN captures : found[i] = NoSlot
    BY <1>5 DEF BeginFunction
  <2> QED
    BY <2>1, <2>2
<1> QED
  BY <1>3, <1>4, <1>5 DEF BeginFunction

-----------------------------------------------------------------------------
(* The compiler's judgement and that of the text *)

LEMMA Mentioned ==
    ASSUME KInv, Strict, Going, NEW x, MayMention(x)
    PROVE  /\ ~InArguments
           /\ Visible(x) => /\ resolve_local(x) # NoSlot
                            /\ locals[resolve_local(x)].type = Variable(x).type
           /\ ~Visible(x) => resolve_local(x) = NoSlot
<1> DEFINE n == Len(open)
           r == resolve_local(x)
<1>1. PICK lev \in [1 .. n -> 0 .. MAX_LOCALS] :
         /\ Named(open, lev, locals) /\ lev[n] = local_count
         /\ Judging(open, lev, locals)
  BY Begun
<1>2. ~InArguments
  BY DEF MayMention, Strict
<1>3. ASSUME Visible(x)
      PROVE  r # NoSlot /\ locals[r].type = Variable(x).type
  <2> DEFINE d == Declared(x)
  <2>1. /\ d \in 1 .. n /\ x \in DOMAIN open[d].names /\ Variable(x) = open[d].names[x]
        /\ Variable(x).slot \in 0 .. local_count - 1 /\ r = Variable(x).slot
    BY <1>1, <1>2, <1>3, Meaning
  <2> HIDE DEF d, r
  <2>2. locals[open[d].names[x].slot].type = open[d].names[x].type
    BY <1>1, <2>1 DEF Judging, Typed
  <2>3. r # NoSlot
    BY <2>1 DEF NoSlot
  <2> QED
    BY <2>1, <2>2, <2>3
<1>4. ASSUME ~Visible(x), r # NoSlot
      PROVE  FALSE
  <2>1. /\ local_count \in Nat /\ local_count \in 0 .. MAX_LOCALS /\ MAX_LOCALS \in Nat
        /\ locals \in [Slots -> Entries]
    BY Begun
  <2>2. /\ r \in 0 .. local_count - 1 /\ locals[r].name = x
        /\ \A m \in r + 1 .. local_count - 1 : locals[m].name # x
    BY <1>4, <2>1, Resolved
  <2> HIDE DEF r
  <2>3. <<x, locals[r].type>> \in open[Running].past
    BY <1>1, <1>2, <1>4, <2>2, Forgotten
  <2>4. r \in Slots
    BY <2>1, <2>2 DEF Slots
  <2>5. locals[r].type \in Types
    BY <2>1, <2>4 DEF Entries
  <2>6. "past_name" \in features
    BY <1>4, <2>3, <2>5 DEF MayMention
  <2> QED
    BY <2>6 DEF Strict
<1> QED
  BY <1>2, <1>3, <1>4

\* In a test the guard is what the innermost test of the variable found.
LEMMA GuardFound ==
    ASSUME KInv, Strict, Going, ~InArguments, NEW x, Visible(x), Found(x) # "assigned"
    PROVE  locals[resolve_local(x)].guard = "some" <=> Found(x) = "some"
<1> DEFINE n == Len(open)
           d == Declared(x)
           k == Variable(x).slot
           S == Tests(x)
<1>1. PICK lev \in [1 .. n -> 0 .. MAX_LOCALS] :
         /\ Named(open, lev, locals) /\ lev[n] = local_count
         /\ Judging(open, lev, locals)
  BY Begun
<1>2. /\ n \in Nat \ {0} /\ n \in 1 .. n /\ Last(open) = open[n] /\ NInv /\ Right
      /\ Running \in 1 .. n /\ open[Running].kind = "function"
      /\ \A j \in Running + 1 .. n : open[j].kind # "function"
  BY Begun
<1>3. /\ d \in Declaring(x) /\ d \in Running .. n /\ d \in 1 .. n
      /\ x \in DOMAIN open[d].names /\ Variable(x) = open[d].names[x]
      /\ k \in 0 .. local_count - 1 /\ k \in Slots /\ resolve_local(x) = k
  BY <1>1, Meaning
<1> HIDE DEF d, k
<1>4. \A i \in 1 .. Running - 1 : DOMAIN open[i].names = {}
  <2>1. OneDeclares(open)
    BY <1>1 DEF Named
  <2>2. ~Empty(open[d])
    BY <1>3 DEF Empty, NothingDeclared
  <2>3. \A i \in 1 .. Running - 1 : Empty(open[i])
    BY <1>2, <1>3, <2>1, <2>2 DEF OneDeclares
  <2> QED
    BY <2>3 DEF Empty, NothingDeclared
<1>5. ASSUME NEW c \in 1 .. n, open[c].local = k
      PROVE  c \in S /\ open[c].finds \in Variants \cup {"assigned"}
  <2>1. k # NoSlot
    BY <1>3 DEF NoSlot, Slots
  <2>2. /\ open[c].kind \in {"then", "loop", "arm"}
        /\ open[c].finds \in Variants \cup {"assigned"}
        /\ \E e \in 1 .. c - 1 : \E y \in DOMAIN open[e].names :
             /\ open[c].tests = <<e, y>> /\ Together(open, e, c)
             /\ open[c].local = open[e].names[y].slot
    BY <1>1, <1>5, <2>1 DEF Judging, Tested
  <2>3. PICK e \in 1 .. c - 1 : \E y \in DOMAIN open[e].names :
             /\ open[c].tests = <<e, y>> /\ Together(open, e, c)
             /\ open[c].local = open[e].names[y].slot
    BY <2>2
  <2>4. PICK y \in DOMAIN open[e].names :
             /\ open[c].tests = <<e, y>> /\ Together(open, e, c)
             /\ open[c].local = open[e].names[y].slot
    BY <2>3
  <2>5. e \in Running .. n /\ c \in Running .. n
    <3>1. e \notin 1 .. Running - 1
      BY <1>4, <2>4
    <3> QED
      BY <1>2, <2>3, <3>1
  <2>6. e \in Declaring(y)
    BY <2>4, <2>5 DEF Declaring
  <2>7. x = y /\ d = e
    <3>1. open[d].names[x].slot = open[e].names[y].slot
      BY <1>3, <1>5, <2>4 DEF k
    <3> QED
      BY <1>1, <1>2, <1>3, <2>6, <3>1, SlotsDiffer
  <2> QED
    BY <2>2, <2>4, <2>5, <2>7 DEF Tests, d
<1>6. ASSUME NEW c \in S
      PROVE  c \in 1 .. n /\ open[c].local = k
  <2>1. c \in Running .. n /\ open[c].tests = <<d, x>>
    BY DEF Tests, d
  <2>2. c \in 1 .. n
    BY <1>2, <2>1
  <2>3. \E e \in 1 .. c - 1 : \E y \in DOMAIN open[e].names :
             /\ open[c].tests = <<e, y>> /\ open[c].local = open[e].names[y].slot
    <3>1. open[c].tests # <<>>
      BY <2>1
    <3> QED
      BY <1>1, <2>2, <3>1 DEF Judging, Tested
  <2>4. PICK e \in 1 .. c - 1 : \E y \in DOMAIN open[e].names :
             /\ open[c].tests = <<e, y>> /\ open[c].local = open[e].names[y].slot
    BY <2>3
  <2>5. PICK y \in DOMAIN open[e].names :
             /\ open[c].tests = <<e, y>> /\ open[c].local = open[e].names[y].slot
    BY <2>4
  <2>6. e = d /\ y = x
    BY <2>1, <2>5
  <2> QED
    BY <1>3, <2>2, <2>5, <2>6 DEF k
<1>7. CASE S = {}
  <2>1. Found(x) = "no"
    BY <1>7 DEF Found
  <2>2. NoTest(open, 0, n + 1, k)
    <3>1. ASSUME NEW c \in 0 + 1 .. (n + 1) - 1, open[c].local = k
          PROVE  FALSE
      <4>1. c \in 1 .. n
        BY <1>2
      <4> QED
        BY <1>5, <1>7, <3>1, <4>1
    <3> QED
      BY <3>1 DEF NoTest
  <2>3. Ends(open, n)
    BY <1>2 DEF Ends, InArguments
  <2>4. locals[k].guard = "no"
    BY <1>1, <1>2, <1>3, <2>2, <2>3 DEF Judging, Untested
  <2> QED
    BY <1>3, <2>1, <2>4
<1>8. CASE S # {}
  <2> DEFINE m == Max(S)
  <2>1. m \in S /\ \A y \in S : m >= y
    <3>1. S \subseteq 1 .. n /\ 1 \in Int /\ n \in Int
      BY <1>2, <1>6
    <3> HIDE DEF S
    <3> QED
      BY <1>8, <3>1, MaxOf
  <2>2. Found(x) = open[m].finds
    BY <1>8 DEF Found
  <2> HIDE DEF m, S
  <2>3. m \in 1 .. n /\ open[m].local = k
    BY <1>6, <2>1
  <2>4. open[m].finds \in Variants
    BY <1>5, <2>2, <2>3
  <2>5. NoTest(open, m, n + 1, k)
    <3>1. ASSUME NEW c \in m + 1 .. (n + 1) - 1, open[c].local = k
          PROVE  FALSE
      <4>1. c \in 1 .. n /\ c > m
        BY <1>2, <2>3
      <4>2. c \in S
        BY <1>5, <3>1, <4>1
      <4> QED
        BY <2>1, <2>3, <4>1, <4>2
    <3> QED
      BY <3>1 DEF NoTest
  <2>6. k # NoSlot
    BY <1>3 DEF NoSlot, Slots
  <2>7. locals[k].guard = open[m].finds
    BY <1>1, <2>3, <2>4, <2>5, <2>6 DEF Judging, Guards
  <2> QED
    BY <1>3, <2>2, <2>7
<1> QED
  BY <1>7, <1>8

LEMMA CheckVerdict ==
    ASSUME NEW message, NEW wrong \in BOOLEAN, Check(message, wrong),
           message # "too_many" => (message # "none" <=> wrong)
    PROVE  Verdict'
BY DEF Check, Judge, Verdict

LEMMA SilentVerdict ==
    ASSUME Verdict, UNCHANGED <<error, mistaken>>
    PROVE  Verdict'
BY DEF Verdict

LEMMA UseVerdict ==
    ASSUME KInv, Strict, NEW x, NEW called \in BOOLEAN, Use(x, called)
    PROVE  Verdict'
<1> DEFINE r == resolve_local(x)
           message == IF r = NoSlot THEN "undefined"
                      ELSE IF called /\ locals[r].type # "fun" THEN "not_function"
                      ELSE "none"
           wrong == ~Visible(x) \/ (called /\ Variable(x).type # "fun")
<1>1. Going /\ MayMention(x) /\ Check(message, wrong)
  BY DEF Use
<1>2. message # "none" <=> wrong
  <2>1. CASE Visible(x)
    <3>1. r # NoSlot /\ locals[r].type = Variable(x).type
      BY <1>1, <2>1, Mentioned
    <3> HIDE DEF r
    <3> QED
      BY <2>1, <3>1
  <2>2. CASE ~Visible(x)
    <3>1. r = NoSlot
      BY <1>1, <2>2, Mentioned
    <3> QED
      BY <2>2, <3>1
  <2> QED
    BY <2>1, <2>2
<1>3. wrong \in BOOLEAN
  BY DEF Visible
<1> HIDE DEF message, wrong
<1> QED
  BY <1>1, <1>2, <1>3, CheckVerdict

LEMMA UnwrapVerdict ==
    ASSUME KInv, Strict, NEW x, Unwrap(x)
    PROVE  Verdict'
<1> DEFINE r == resolve_local(x)
           message == IF r = NoSlot THEN "undefined"
                      ELSE IF locals[r].type # "opt" THEN "unknown_member"
                      ELSE IF locals[r].guard # "some" THEN "unsafe_unwrap"
                      ELSE "none"
           wrong == ~Visible(x) \/ Variable(x).type # "opt" \/ Found(x) # "some"
<1>1. /\ Going /\ MayMention(x) /\ Check(message, wrong)
      /\ Visible(x) /\ Found(x) = "assigned" => "assigned_option" \in features
  BY DEF Unwrap
<1>2. message # "none" <=> wrong
  <2>1. CASE Visible(x)
    <3>1. ~InArguments /\ r # NoSlot /\ locals[r].type = Variable(x).type
      BY <1>1, <2>1, Mentioned
    <3>2. Found(x) # "assigned"
      BY <1>1, <2>1 DEF Strict
    <3>3. locals[r].guard = "some" <=> Found(x) = "some"
      BY <1>1, <2>1, <3>1, <3>2, GuardFound
    <3> HIDE DEF r
    <3> QED
      BY <2>1, <3>1, <3>3
  <2>2. CASE ~Visible(x)
    <3>1. r = NoSlot
      BY <1>1, <2>2, Mentioned
    <3> QED
      BY <2>2, <3>1
  <2> QED
    BY <2>1, <2>2
<1>3. wrong \in BOOLEAN
  BY DEF Visible
<1> HIDE DEF message, wrong
<1> QED
  BY <1>1, <1>2, <1>3, CheckVerdict

LEMMA AssignVerdict ==
    ASSUME KInv, Strict, NEW x, NEW t \in Types, NEW declared \in Types \cup {"no"},
           Assign(x, t, declared)
    PROVE  Verdict'
<1> DEFINE n == Len(open)
           r == resolve_local(x)
           type == IF declared = "no" THEN t ELSE declared
           fits == IF declared # "no" THEN is_assignable(declared, t)
                   ELSE r # NoSlot => is_assignable(locals[r].type, t)
           wrong == IF Visible(x) THEN ~Accepts(Variable(x).type, t) \/ ~Accepts(type, t)
                    ELSE ~Accepts(type, t)
<1>1. /\ Going
      /\ InArguments => "call_names" \in features
      /\ Visible(x) /\ declared # "no" /\ declared # Variable(x).type
            => "redeclared" \in features
      /\ ~Visible(x) => MayDeclare(open)
      /\ ~Visible(x) /\ (\E u \in Types \ {type} : <<x, u>> \in open[Running].past)
            => "retyped" \in features
      /\ \/ ~fits /\ Check("mismatch", wrong)
         \/ fits /\ r = NoSlot /\ Check("too_many", wrong)
         \/ fits /\ Judge("none", wrong)
  BY DEF Assign
<1>2. "no" \notin Types
  BY DEF Types
<1>3. fits <=> ~wrong
  <2>1. PICK lev \in [1 .. n -> 0 .. MAX_LOCALS] :
           /\ Named(open, lev, locals) /\ lev[n] = local_count
           /\ Judging(open, lev, locals)
    BY <1>1, Begun
  <2>2. CASE Visible(x)
    <3> DEFINE d == Declared(x)
               v == Variable(x).type
    <3>1. ~InArguments
      BY <1>1 DEF Strict
    <3>2. /\ d \in 1 .. n /\ x \in DOMAIN open[d].names /\ Variable(x) = open[d].names[x]
          /\ Variable(x).slot \in 0 .. local_count - 1 /\ r = Variable(x).slot
      BY <1>1, <2>1, <2>2, <3>1, Meaning
    <3>3. r # NoSlot /\ locals[r].type = v
      <4> HIDE DEF d, r
      <4>1. locals[open[d].names[x].slot].type = open[d].names[x].type
        BY <2>1, <3>2 DEF Judging, Typed
      <4> QED
        BY <3>2, <4>1 DEF NoSlot
    <3>4. declared # "no" => declared = v
      BY <1>1, <2>2 DEF Strict
    <3> HIDE DEF r, v, d
    <3>5. wrong <=> ~Accepts(v, t) \/ ~Accepts(type, t)
      BY <2>2 DEF v
    <3>6. CASE declared = "no"
      BY <3>3, <3>5, <3>6 DEF is_assignable, Accepts
    <3>7. CASE declared # "no"
      BY <3>4, <3>5, <3>7 DEF is_assignable, Accepts
    <3> QED
      BY <3>6, <3>7
  <2>3. CASE ~Visible(x)
    <3>1. MayDeclare(open) /\ ~ \E u \in Types \ {type} : <<x, u>> \in open[Running].past
      BY <1>1, <2>3 DEF Strict
    <3>2. r # NoSlot => locals[r].type = type
      <4> HIDE DEF type
      <4> QED
        BY <1>1, <2>1, <2>3, <3>1, SameTypeAgain
    <3>3. wrong <=> ~Accepts(type, t)
      BY <2>3
    <3> HIDE DEF r, wrong
    <3>4. CASE declared = "no"
      BY <3>2, <3>3, <3>4 DEF is_assignable, Accepts
    <3>5. CASE declared # "no"
      BY <3>3, <3>5 DEF is_assignable, Accepts
    <3> QED
      BY <3>4, <3>5
  <2> QED
    BY <2>2, <2>3
<1>4. wrong \in BOOLEAN
  BY DEF Visible, Accepts
<1> HIDE DEF fits, wrong, r, type
<1>5. CASE ~fits /\ Check("mismatch", wrong)
  BY <1>3, <1>4, <1>5, CheckVerdict
<1>6. CASE fits /\ r = NoSlot /\ Check("too_many", wrong)
  BY <1>4, <1>6, CheckVerdict
<1>7. CASE fits /\ Judge("none", wrong)
  BY <1>3, <1>4, <1>7 DEF Judge, Verdict
<1> QED
  BY <1>1, <1>5, <1>6, <1>7

LEMMA BeginFunctionVerdict ==
    ASSUME KInv, Strict, NEW captures, NEW params, BeginFunction(captures, params)
    PROVE  Verdict'
<1> DEFINE found == [i \in DOMAIN captures |-> resolve_local(captures[i])]
           invisible == \E i \in DOMAIN captures : ~Visible(captures[i])
           lost == \E i \in DOMAIN captures : found[i] = NoSlot
<1>1. /\ Going
      /\ \A i \in DOMAIN captures : MayMention(captures[i])
      /\ \/ lost /\ Check("not_captured", invisible)
         \/ ~lost /\ invisible /\ Check("none", TRUE)
         \/ UNCHANGED <<error, mistaken>>
  BY DEF BeginFunction
<1>2. lost <=> invisible
  BY <1>1, Mentioned
<1>3. invisible \in BOOLEAN
  OBVIOUS
<1>4. Verdict
  BY DEF KInv
<1> HIDE DEF lost, invisible
<1>5. CASE lost /\ Check("not_captured", invisible)
  BY <1>2, <1>3, <1>5, CheckVerdict
<1> QED
  BY <1>1, <1>2, <1>4, <1>5, SilentVerdict

LEMMA JumpVerdict ==
    ASSUME KInv, Strict, Break \/ Continue
    PROVE  Verdict'
<1> DEFINE wrong == MeantLoop = 0
<1>1. /\ Going
      /\ MeantLoop = 0 /\ current_loop # 0 => "nested_jump" \in features
      /\ \/ current_loop = 0 /\ Check("no_loop", wrong)
         \/ current_loop # 0 /\ Check("too_many", wrong)
         \/ current_loop # 0 /\ Judge("none", wrong)
  BY DEF Break, Continue
<1>2. current_loop # 0 => ~wrong
  BY <1>1 DEF Strict
<1>3. current_loop = 0 => wrong
  <2> SUFFICES ASSUME current_loop = 0 PROVE MeantLoop = 0
    OBVIOUS
  <2>1. \A j \in 1 .. Len(open) : open[j].kind # "loop"
    BY DEF KInv, WInv, IInv, Chain, Innermost
  <2> DEFINE I == {j \in 1 .. Len(open) : open[j].kind \in {"loop"}}
  <2>2. LastOf(open, {"loop"}) = 0
    BY <2>1 DEF LastOf, SelectLastInSeq
  <2>3. Running \in 1 .. Len(open)
    BY <1>1, Begun
  <2> QED
    BY <2>2 DEF MeantLoop
<1>4. wrong \in BOOLEAN
  OBVIOUS
<1> HIDE DEF wrong
<1>5. CASE current_loop = 0 /\ Check("no_loop", wrong)
  BY <1>3, <1>4, <1>5, CheckVerdict
<1>6. CASE current_loop # 0 /\ Check("too_many", wrong)
  BY <1>4, <1>6, CheckVerdict
<1>7. CASE current_loop # 0 /\ Judge("none", wrong)
  BY <1>2, <1>4, <1>7 DEF Judge, Verdict
<1> QED
  BY <1>1, <1>5, <1>6, <1>7

-----------------------------------------------------------------------------
(* The invariant *)

LEMMA InitJudged ==
    ASSUME Init
    PROVE  KInv
<1>1. NInv
  BY InitNamed
<1>2. WInv
  BY <1>1, InitTyped DEF NInv
<1>3. Verdict
  BY DEF Init, Verdict
<1>4. NowJudging
  <2> DEFINE c == Construct("function")
  <2>1. Fresh(c) /\ c.kind = "function"
    BY FreshConstruct
  <2>2. DOMAIN c.names = {} /\ c.past = {} /\ c.tests = <<>> /\ c.local = NoSlot
    BY <2>1, NothingNamed DEF Fresh
  <2>3. open = <<c>> /\ local_count = 0
    BY DEF Init
  <2> HIDE DEF c
  <2>4. Len(open) = 1 /\ open[1] = c /\ \A i \in 1 .. Len(open) : i = 1
    BY <2>3
  <2>5. ASSUME NEW lev \in [1 .. Len(open) -> 0 .. MAX_LOCALS], lev[Len(open)] = 0
        PROVE  Judging(open, lev, locals)
    <3>1. \A i \in 1 .. Len(open) : lev[i] = 0 /\ open[i] = c
      BY <2>4, <2>5
    <3>2. 0 .. 0 - 1 = {}
      OBVIOUS
    <3>3. Typed(open, locals) /\ Tested(open) /\ Guards(open, locals)
      BY <2>2, <3>1 DEF Typed, Tested, Guards
    <3>4. Untested(open, lev, locals) /\ Remembered(open, lev, locals) /\ Unused(open, lev)
      BY <3>1, <3>2 DEF Untested, Remembered, Unused
    <3> QED
      BY <3>3, <3>4 DEF Judging
  <2> QED
    BY <2>3, <2>5 DEF NowJudging
<1> QED
  BY <1>1, <1>2, <1>3, <1>4 DEF KInv

LEMMA NextVerdict ==
    ASSUME KInv, Strict, Next
    PROVE  Verdict'
<1>1. Verdict
  BY DEF KInv
<1>2. ASSUME NEW x, \E called \in BOOLEAN : Use(x, called)
      PROVE  Verdict'
  BY <1>2, UseVerdict
<1>3. ASSUME NEW x, Unwrap(x)
      PROVE  Verdict'
  BY <1>3, UnwrapVerdict
<1>4. ASSUME NEW x, \E t \in program.types, declared \in program.types \cup {"no"} :
                       Assign(x, t, declared)
      PROVE  Verdict'
  <2>1. program.types \subseteq Types
    BY ProgramTypes DEF KInv
  <2> QED
    BY <1>4, <2>1, AssignVerdict
<1>5. ASSUME NEW captures, NEW params, BeginFunction(captures, params)
      PROVE  Verdict'
  BY <1>5, BeginFunctionVerdict
<1>6. CASE Break \/ Continue
  BY <1>6, JumpVerdict
<1>7. ASSUME (\E wrong \in BOOLEAN : Check("too_many", wrong)) \/ UNCHANGED <<error, mistaken>>
      PROVE  Verdict'
  BY <1>1, <1>7, CheckVerdict, SilentVerdict
<1>8. ASSUME NEW x, EnterCatch(x) \/ EndFunction(x) \/ EnterThen(x) \/ EnterLoop(x)
                    \/ \E b, t : EnterArm(x, b, t)
      PROVE  Verdict'
  BY <1>7, <1>8 DEF EnterCatch, EndFunction, EnterThen, EnterLoop, EnterArm, Judge
<1>9. CASE \/ BeginCall \/ EndCall \/ EnterElse \/ LeaveBranch \/ LeaveLoop \/ LeaveArm
           \/ EnterTry \/ LeaveCatch \/ Ended
  BY <1>7, <1>9 DEF BeginCall, EndCall, EnterElse, LeaveBranch, LeaveLoop, LeaveArm,
                    EnterTry, LeaveCatch, Ended, vars
<1> QED
  BY <1>2, <1>3, <1>4, <1>5, <1>6, <1>8, <1>9 DEF Next

LEMMA NextJudging ==
    ASSUME KInv, Strict, Going, Going', Next
    PROVE  NowJudging'
<1>1. ASSUME NEW x, \/ \E called : Use(x, called)
                    \/ Unwrap(x)
      PROVE  NowJudging'
  <2>1. \E message, wrong : Check(message, wrong)
    BY <1>1 DEF Use, Unwrap
  <2> QED
    BY <2>1, CheckJudged
<1>2. ASSUME NEW x, \E t \in program.types, declared \in program.types \cup {"no"} :
                       Assign(x, t, declared)
      PROVE  NowJudging'
  <2>1. program.types \subseteq Types
    BY ProgramTypes DEF KInv
  <2> QED
    BY <1>2, <2>1, AssignJudges
<1>3. ASSUME NEW x, EnterCatch(x)
      PROVE  NowJudging'
  BY <1>3, EnterCatchJudges
<1>4. CASE BeginCall
  BY <1>4, BeginCallJudges
<1>5. CASE \/ EndCall \/ LeaveBranch \/ LeaveLoop \/ LeaveArm \/ LeaveCatch
  BY <1>5, LeaveJudges
<1>6. ASSUME NEW captures \in Lists(Names), NEW params \in Params,
             BeginFunction(captures, params)
      PROVE  NowJudging'
  BY <1>6, BeginFunctionJudges
<1>7. ASSUME NEW name, EndFunction(name)
      PROVE  NowJudging'
  <2>1. CASE name = NoName
    BY <1>7, <2>1, LeaveJudges
  <2>2. CASE name # NoName
    BY <1>7, <2>2, EndFunctionJudges
  <2> QED
    BY <2>1, <2>2
<1>8. ASSUME NEW x, EnterThen(x) \/ EnterLoop(x)
      PROVE  NowJudging'
  BY <1>8, EnterBlockJudges
<1>9. ASSUME NEW x, NEW binding, NEW t, EnterArm(x, binding, t)
      PROVE  NowJudging'
  <2>1. CASE binding = NoName
    BY <1>9, <2>1, EnterBlockJudges
  <2>2. CASE binding # NoName
    BY <1>9, <2>2, EnterArmJudges
  <2> QED
    BY <2>1, <2>2
<1>10. CASE EnterElse
  BY <1>10, EnterElseJudges
<1>11. CASE EnterTry
  BY <1>11, EnterBlockJudges
<1>12. CASE Break \/ Continue
  BY <1>12, JumpJudged
<1>13. CASE Ended
  BY <1>13, StaysJudged DEF Ended, vars
<1> QED
  BY <1>1, <1>2, <1>3, <1>4, <1>5, <1>6, <1>7, <1>8, <1>9, <1>10, <1>11, <1>12, <1>13
     DEF Next

LEMMA NextJudged ==
    ASSUME KInv, [Next]_vars
    PROVE  KInv'
<1>1. NInv' /\ WInv'
  BY NextNamed, NextTyped DEF KInv
<1>2. ASSUME Strict'
      PROVE  Verdict' /\ (Going' => NowJudging')
  <2>1. CASE UNCHANGED vars
    <3>1. Strict /\ (Going' <=> Going) /\ UNCHANGED <<error, mistaken, locals, local_count, open>>
      BY <1>2, <2>1 DEF vars, Strict, features, Going
    <3>2. Verdict'
      BY <3>1, SilentVerdict DEF KInv
    <3> QED
      BY <3>1, <3>2, StaysJudged
  <2>2. CASE Next
    <3>1. (Going \/ Ended) /\ program' = program
      BY <2>2, Continues
    <3>2. Strict
      BY <1>2, <3>1 DEF Strict, features
    <3>3. Verdict'
      BY <2>2, <3>2, NextVerdict
    <3>4. Going' => Going
      BY <3>1 DEF Ended, vars, Going
    <3> QED
      BY <2>2, <3>2, <3>3, <3>4, NextJudging
  <2> QED
    BY <2>1, <2>2
<1> QED
  BY <1>1, <1>2 DEF KInv

\* A program is refused exactly when it breaks a rule of the language, as far
\* as it has none of the features in which the table of locals goes wrong: the
\* entry that resolve_local finds has the type and the guard that the text gives
\* the variable, and an entry that outlives its block does no harm.
THEOREM VerdictIsRight == Spec => []Judged
<1>1. Init => KInv
  BY InitJudged
<1>2. KInv /\ [Next]_vars => KInv'
  BY NextJudged
<1>3. KInv => Judged
  BY DEF KInv, Strict, Verdict, Judged
<1> QED
  BY <1>1, <1>2, <1>3, PTL DEF Spec
=============================================================================
