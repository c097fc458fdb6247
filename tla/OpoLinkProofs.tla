---------------------------- MODULE OpoLinkProofs ----------------------------
(***************************************************************************)
(* Theorems on the tables, the chunk and the calls of OpoModules, for all  *)
(* programs: the state of the compiler is well formed, a call of a         *)
(* function that is not compiled yet is remembered until it is, what is    *)
(* wrong in the main file is not forgotten during its imports, references  *)
(* reach what they mean, and nothing but what is wrong is refused.         *)
(*                                                                         *)
(* The first part says what predeclaration leaves in the tables, the       *)
(* second what holds in every state (Linked), the third, with one lemma    *)
(* per action, that steps keep it.  Then come the calls that wait, what is *)
(* wrong in the main file, what references reach, and why a program is     *)
(* refused.                                                                *)
(***************************************************************************)
EXTENDS OpoModulesProofs, FiniteSetTheorems, WellFoundedInduction

\* A set of numbers has a least one.
LEMMA LeastOf ==
    ASSUME NEW D \in SUBSET Nat, D # {}
    PROVE  \E d \in D : \A e \in D : d <= e
<1> DEFINE R == OpToRel(<, Nat)
<1>1. IsWellFoundedOn(R, Nat)
  BY NatLessThanWellFounded
<1>2. PICK d \in D : \A e \in D : ~ (<<e, d>> \in R)
  <2> HIDE DEF R
  <2> QED BY <1>1, WFMin
<1>3. ASSUME NEW e \in D
      PROVE  d <= e
  <2>1. d \in Nat /\ e \in Nat /\ <<e, d>> \in Nat \X Nat
    OBVIOUS
  <2>2. ~ (e < d)
    BY <1>2, <2>1 DEF OpToRel
  <2> QED BY <2>1, <2>2
<1> QED BY <1>3

-----------------------------------------------------------------------------
(* Predeclaration *)

\* The greatest number of a set that n + 1 bounds and belongs to.
LEMMA MaxUpto ==
    ASSUME NEW n \in Nat, NEW s \in SUBSET (1 .. n + 1), n + 1 \in s
    PROVE  Max(s) = n + 1
<1>1. \A y \in s : n + 1 >= y
  OBVIOUS
<1>2. \A x \in s : (\A y \in s : x >= y) => x = n + 1
  OBVIOUS
<1> QED BY <1>1, <1>2 DEF Max

\* The tables after each of the items.
Passes(T, tables, items, prefix) ==
    /\ T[0] = tables
    /\ \A k \in 1 .. Len(items) : T[k] = DeclareItem(T[k - 1], items[k], prefix)

\* The fold of Predeclared passes through the items one by one.  (A fold is a
\* recursive function on sets of positions; that there is one is shown for sets
\* of positions up to n, by the least n for which there is none.)
LEMMA FoldPasses ==
    ASSUME NEW tables, NEW S, NEW items \in Seq(S), NEW prefix
    PROVE  \E T : /\ Passes(T, tables, items, prefix)
                  /\ T[Len(items)] = Predeclared(tables, items, prefix)
<1> DEFINE N == Len(items)
           Step(r, m) == DeclareItem(r, items[m], prefix)
           Eq(g, n) == g = [s \in SUBSET (1 .. n) |->
                              IF s = {} THEN tables ELSE Step(g[s \ {Max(s)}], Max(s))]
           Missing == {n \in Nat : ~ \E g : Eq(g, n)}
<1>1. N \in Nat /\ DOMAIN items = 1 .. N
  OBVIOUS
<1>2. Predeclared(tables, items, prefix) = (CHOOSE h : Eq(h, N))[1 .. N]
  BY <1>1 DEF Predeclared, FoldLeft, MapThenFoldSet
<1> HIDE DEF N, Step
<1>3. 0 \notin Missing
  <2> DEFINE g == [s \in SUBSET (1 .. 0) |-> tables]
  <2>1. \A s \in SUBSET (1 .. 0) : s = {}
    OBVIOUS
  <2>2. Eq(g, 0)
    BY <2>1
  <2> QED BY <2>2
<1>4. ASSUME NEW n \in Nat, n \notin Missing
      PROVE  n + 1 \notin Missing
  <2>1. PICK g : Eq(g, n)
    BY <1>4
  <2> DEFINE h == [s \in SUBSET (1 .. n + 1) |->
                     IF n + 1 \in s THEN Step(g[s \ {n + 1}], n + 1) ELSE g[s]]
  <2>2. ASSUME NEW s \in SUBSET (1 .. n + 1)
        PROVE  h[s] = IF s = {} THEN tables ELSE Step(h[s \ {Max(s)}], Max(s))
    <3>1. CASE n + 1 \in s
      <4>1. Max(s) = n + 1 /\ s # {}
        BY <3>1, MaxUpto
      <4>2. s \ {n + 1} \in SUBSET (1 .. n + 1) /\ n + 1 \notin s \ {n + 1}
        OBVIOUS
      <4>3. h[s \ {n + 1}] = g[s \ {n + 1}]
        BY <4>2
      <4>4. h[s] = Step(g[s \ {n + 1}], n + 1)
        BY <3>1
      <4> HIDE DEF h
      <4> QED BY <4>1, <4>3, <4>4
    <3>2. CASE n + 1 \notin s
      <4>1. s \in SUBSET (1 .. n)
        BY <3>2
      <4>2. h[s] = g[s]
        BY <3>2
      <4>3. g[s] = IF s = {} THEN tables ELSE Step(g[s \ {Max(s)}], Max(s))
        BY <2>1, <4>1
      <4>4. s \ {Max(s)} \in SUBSET (1 .. n + 1) /\ n + 1 \notin s \ {Max(s)}
        BY <3>2
      <4>5. h[s \ {Max(s)}] = g[s \ {Max(s)}]
        BY <4>4
      <4> HIDE DEF h
      <4> QED BY <4>2, <4>3, <4>5
    <3> QED BY <3>1, <3>2
  <2>3. h = [s \in SUBSET (1 .. n + 1) |->
               IF s = {} THEN tables ELSE Step(h[s \ {Max(s)}], Max(s))]
    <3>1. h = [s \in SUBSET (1 .. n + 1) |-> h[s]]
      OBVIOUS
    <3> HIDE DEF h
    <3> QED BY <2>2, <3>1
  <2>4. \E k : Eq(k, n + 1)
    <3> HIDE DEF h
    <3> QED BY <2>3
  <2> QED BY <2>4
<1>5. Missing = {}
  <2> SUFFICES ASSUME Missing # {} PROVE FALSE
    OBVIOUS
  <2>1. PICK m \in Missing : \A e \in Missing : m <= e
    <3>1. Missing \in SUBSET Nat
      OBVIOUS
    <3> HIDE DEF Missing
    <3> QED BY <3>1, LeastOf
  <2>2. m \in Nat
    OBVIOUS
  <2> HIDE DEF Missing
  <2>3. m # 0
    BY <1>3
  <2>4. m - 1 \in Nat /\ m - 1 \notin Missing /\ (m - 1) + 1 = m
    BY <2>1, <2>2, <2>3
  <2> QED BY <1>4, <2>4
<1>6. \E g : Eq(g, N)
  BY <1>1, <1>5
<1> DEFINE g == CHOOSE h : Eq(h, N)
<1>7. Eq(g, N)
  <2> HIDE DEF Eq
  <2> QED BY <1>6
<1> HIDE DEF g
<1> DEFINE T == [k \in 0 .. N |-> g[1 .. k]]
<1>8. T[0] = tables
  <2>1. 0 \in 0 .. N /\ 1 .. 0 = {} /\ {} \in SUBSET (1 .. N)
    BY <1>1
  <2> QED BY <1>7, <2>1
<1>9. ASSUME NEW k \in 1 .. N
      PROVE  T[k] = Step(T[k - 1], k)
  <2>1. /\ k \in 0 .. N /\ k - 1 \in 0 .. N /\ k - 1 \in Nat /\ (k - 1) + 1 = k
        /\ k \in Nat
    BY <1>1
  <2>2. 1 .. k \in SUBSET (1 .. N) /\ k \in 1 .. k /\ (1 .. k) \ {k} = 1 .. k - 1
    BY <1>1, <2>1
  <2>3. Max(1 .. k) = k
    <3>1. (1 .. k) \in SUBSET (1 .. (k - 1) + 1) /\ (k - 1) + 1 \in 1 .. k
      BY <2>1, <2>2
    <3> QED BY <2>1, <3>1, MaxUpto
  <2>4. g[1 .. k] = IF 1 .. k = {} THEN tables
                    ELSE Step(g[(1 .. k) \ {Max(1 .. k)}], Max(1 .. k))
    BY <1>7, <2>2
  <2>5. T[k] = g[1 .. k] /\ T[k - 1] = g[1 .. k - 1] /\ 1 .. k # {}
    BY <2>1, <2>2
  <2> HIDE DEF T, Eq
  <2> QED BY <2>2, <2>3, <2>4, <2>5
<1>10. T[N] = Predeclared(tables, items, prefix)
  <2>1. N \in 0 .. N
    BY <1>1
  <2> QED BY <1>2, <2>1 DEF g
<1> HIDE DEF T
<1> QED BY <1>8, <1>9, <1>10 DEF Passes, N, Step
-----------------------------------------------------------------------------
(* What holds in every program *)

\* the names in a program, and what the tables and the chunk hold of it
Names(t) ==
    UNION {{t[f][i].name : i \in {k \in DOMAIN t[f] : t[f][k].kind # "imp"}} : f \in DOMAIN t}
Qualified(t) == [prefix : Aliases(t), name : Names(t)]
Sizes(t) ==
    {0} \cup UNION {{t[f][i].fields : i \in {k \in DOMAIN t[f] : t[f][k].kind = "struct"}} :
                        f \in DOMAIN t}
FunctionEntry(t) ==
    [name : Qualified(t), addr : Int, public : BOOLEAN, known : BOOLEAN, pending : Seq(Nat)]
StructEntry(t) == [name : Qualified(t), fields : Sizes(t), public : BOOLEAN]
Meanings(t) ==
    [file : DOMAIN t \cup {NativeFile, NULL}, name : Names(t) \cup Natives \cup {NULL}]
Instructions(t) ==
    [op : UseOps \cup {"jump", "entry", "ret", "halt"}, addr : Int,
     means : Meanings(t), go : BOOLEAN]
Bodies == [kind : {"body"}, func : Nat, jump : Nat]
Calls(t) == [kind : {"call"}, func : Int, means : Meanings(t), go : BOOLEAN]
Gos == [kind : {"go"}, begun : Nat]
Opens(t) == Bodies \cup Calls(t) \cup Gos

\* no two functions of one name
Distinct(table) ==
    \A i, j \in 1 .. Len(table) : table[i].name = table[j].name => i = j

Kinds ==
    /\ functions \in Seq(FunctionEntry(text)) /\ Distinct(functions)
    /\ structs \in Seq(StructEntry(text))
    /\ code \in Seq(Instructions(text))
    /\ open \in Seq(Opens(text))
    /\ is_go \in BOOLEAN
    /\ result \in {"none", "chunk", "null"}

\* every file but the last is at the import of the next
Chain ==
    /\ frames[1].file = Main /\ frames[1].prefix = NULL
    /\ \A k \in 1 .. Len(frames) :
            frames[k].next \in 1 .. Len(text[frames[k].file]) + 1
    /\ \A k \in 1 .. Len(frames) - 1 :
        /\ frames[k].next \in DOMAIN text[frames[k].file]
        /\ text[frames[k].file][frames[k].next].kind = "imp"
        /\ text[frames[k].file][frames[k].next].file = frames[k + 1].file
        /\ text[frames[k].file][frames[k].next].alias = frames[k + 1].prefix

\* the function that is compiled is the one at the next item, and has its address
InFunction ==
    open # <<>> =>
        /\ Module.next \in DOMAIN Items
        /\ Item.kind = "fun"
        /\ open[1].kind = "body"
        /\ open[1].func \in 1 .. Len(functions)
        /\ functions[open[1].func].name = [prefix |-> Module.prefix, name |-> Item.name]
        /\ functions[open[1].func].addr # Unknown

\* o may be at place i of open
IsOpened(o, i, table, chunk) ==
    /\ o.kind = "body" =>
        /\ o.jump \in 1 .. Len(chunk) /\ chunk[o.jump].op = "jump"
        /\ i > 1 => o.func = 0
    /\ o.kind = "call" =>
        \/ o.func \in {NativeIndex, ValueIndex}
        \/ /\ o.func \in 1 .. Len(table)
           /\ table[o.func].name.name = o.means.name
    /\ o.kind = "go" => o.begun \in 1 .. Len(chunk)
Opened == \A i \in 1 .. Len(open) : IsOpened(open[i], i, functions, code)

\* a function without an address comes later in a file being compiled
Awaited ==
    \A i \in 1 .. Len(functions) : functions[i].addr = Unknown =>
        \E k \in 1 .. Len(frames) :
            /\ frames[k].prefix = functions[i].name.prefix
            /\ \E j \in frames[k].next .. Len(text[frames[k].file]) :
                /\ text[frames[k].file][j].kind = "fun"
                /\ text[frames[k].file][j].name = functions[i].name.name

\* the calls that wait for the address of a function
Pending ==
    \A i \in 1 .. Len(functions) :
        /\ functions[i].addr # Unknown =>
                functions[i].addr \in 1 .. Len(code) /\ functions[i].pending = <<>>
        /\ Len(functions[i].pending) <= MaxPatches
        /\ \A k \in 1 .. Len(functions[i].pending) :
            /\ functions[i].pending[k] \in 1 .. Len(code)
            /\ code[functions[i].pending[k]].op = "call"

Linked == Kinds /\ Chain /\ InFunction /\ Opened /\ Awaited /\ Pending
LInv == IInv /\ Linked

-----------------------------------------------------------------------------
\* What the tables hold.
LEMMA FindFacts ==
    ASSUME NEW S, NEW table \in Seq(S), NEW name
    PROVE  \/ /\ Find(table, name) = 0
              /\ \A k \in 1 .. Len(table) : table[k].name # name
           \/ /\ Find(table, name) \in 1 .. Len(table)
              /\ table[Find(table, name)].name = name
<1> DEFINE I == {i \in 1 .. Len(table) : table[i].name = name}
<1>1. Find(table, name) = IF I # {} THEN Min(I) ELSE 0
  BY DEF Find, SelectInSeq
<1>2. CASE I = {}
  BY <1>1, <1>2
<1>3. CASE I # {}
  <2>1. I \in SUBSET Nat
    OBVIOUS
  <2>2. \E d \in I : \A e \in I : d <= e
    <3> HIDE DEF I
    <3> QED BY <1>3, <2>1, LeastOf
  <2>3. Min(I) \in I
    <3> HIDE DEF I
    <3> QED BY <2>2 DEF Min
  <2> QED BY <1>1, <1>3, <2>3
<1> QED BY <1>2, <1>3

\* What a text has at a place.
LEMMA ItemTypes ==
    ASSUME NEW t \in Texts, NEW f \in DOMAIN t, NEW i \in DOMAIN t[f]
    PROVE  /\ t[f][i].kind \in {"fun", "struct", "imp"}
           /\ t[f][i].kind # "imp" => t[f][i].public \in BOOLEAN /\ t[f][i].name \in Names(t)
           /\ t[f][i].kind = "fun" => t[f][i].typed \in BOOLEAN
           /\ t[f][i].kind = "struct" => t[f][i].fields \in Sizes(t)
           /\ t[f][i].kind = "imp" => /\ t[f][i] \in ImportsOf(t)
                                      /\ t[f][i].file \in DOMAIN t
                                      /\ t[f][i].alias # NULL
                                      /\ t[f][i].alias \in Aliases(t)
<1>1. \/ t[f][i].kind = "fun" /\ {t[f][i].public, t[f][i].typed} \subseteq BOOLEAN
      \/ t[f][i].kind = "struct" /\ t[f][i].public \in BOOLEAN
      \/ t[f][i].kind = "imp" /\ t[f][i].file \in DOMAIN t /\ t[f][i].alias # NULL
  BY ModulesAssumption
<1>2. t[f][i].kind # "imp" => t[f][i].name \in Names(t)
  BY DEF Names
<1>3. t[f][i].kind = "struct" => t[f][i].fields \in Sizes(t)
  BY DEF Sizes
<1>4. t[f][i].kind = "imp" => t[f][i] \in ImportsOf(t)
  BY DEF ImportsOf
<1>5. t[f][i].kind = "imp" => t[f][i].alias \in Aliases(t)
  BY <1>4 DEF Aliases
<1> QED BY <1>1, <1>2, <1>3, <1>4, <1>5

LEMMA TextTypes ==
    ASSUME NEW t \in Texts, NEW f \in DOMAIN t
    PROVE  /\ t[f] \in Seq(ToSet(t[f]))
           /\ Len(t[f]) \in Nat /\ DOMAIN t[f] = 1 .. Len(t[f])
           /\ \A i, j \in DOMAIN t[f] : Label(t[f][i]) = Label(t[f][j]) => i = j
<1>1. t[f] \in Seq(ToSet(t[f]))
  BY ModulesAssumption
<1>2. \A i, j \in DOMAIN t[f] : Label(t[f][i]) = Label(t[f][j]) => i = j
  BY ModulesAssumption
<1> QED BY <1>1, <1>2

\* The table new has what old has and the functions among the first n items.
DeclaresFunctions(old, new, items, prefix, n) ==
    /\ Len(new) >= Len(old)
    /\ \A i \in 1 .. Len(old) : /\ new[i].name = old[i].name
                                /\ new[i].addr = old[i].addr
                                /\ new[i].pending = old[i].pending
    /\ \A i \in Len(old) + 1 .. Len(new) : new[i].addr = Unknown /\ new[i].pending = <<>>
    /\ \A i \in 1 .. Len(new) :
        \/ i <= Len(old) /\ new[i] = old[i]
        \/ \E j \in 1 .. n : /\ items[j].kind = "fun"
                             /\ new[i].name = [prefix |-> prefix, name |-> items[j].name]
                             /\ new[i].public = items[j].public
                             /\ new[i].known = items[j].typed
    /\ \A j \in 1 .. n : items[j].kind = "fun" =>
            \E i \in 1 .. Len(new) :
                new[i].name = [prefix |-> prefix, name |-> items[j].name]

DeclaresStructs(old, new, items, prefix, n) ==
    /\ Len(new) >= Len(old)
    /\ \A i \in 1 .. Len(old) : new[i] = old[i]
    /\ \A i \in Len(old) + 1 .. Len(new) :
        \E j \in 1 .. n : /\ items[j].kind = "struct"
                          /\ new[i].name = [prefix |-> prefix, name |-> items[j].name]
                          /\ new[i].public = items[j].public
                          /\ new[i].fields = 0
    /\ \A j \in 1 .. n : items[j].kind = "struct" =>
            \E i \in 1 .. Len(new) :
                new[i].name = [prefix |-> prefix, name |-> items[j].name]

\* The table new has what old has and the function of one item.
DeclaresOne(old, new, item, prefix) ==
    /\ Len(new) >= Len(old)
    /\ \A i \in 1 .. Len(old) : /\ new[i].name = old[i].name
                                /\ new[i].addr = old[i].addr
                                /\ new[i].pending = old[i].pending
    /\ \A i \in Len(old) + 1 .. Len(new) : new[i].addr = Unknown /\ new[i].pending = <<>>
    /\ \A i \in 1 .. Len(new) :
        \/ i <= Len(old) /\ new[i] = old[i]
        \/ /\ new[i].name = [prefix |-> prefix, name |-> item.name]
           /\ new[i].public = item.public
           /\ new[i].known = item.typed
    /\ \E i \in 1 .. Len(new) : new[i].name = [prefix |-> prefix, name |-> item.name]

\* An entry of its name has what the item says.
LEMMA DeclareFunctionFacts ==
    ASSUME NEW t, NEW table \in Seq(FunctionEntry(t)), Distinct(table), NEW item,
           NEW prefix \in Aliases(t), item.name \in Names(t),
           item.public \in BOOLEAN, item.typed \in BOOLEAN
    PROVE  /\ DeclareFunction(table, item, prefix) \in Seq(FunctionEntry(t))
           /\ Distinct(DeclareFunction(table, item, prefix))
           /\ DeclaresOne(table, DeclareFunction(table, item, prefix), item, prefix)
<1> DEFINE name == [prefix |-> prefix, name |-> item.name]
           e == [name |-> name, addr |-> Unknown, public |-> item.public,
                 known |-> item.typed, pending |-> <<>>]
           new == DeclareFunction(table, item, prefix)
           f == Find(table, name)
<1>1. name \in Qualified(t)
  BY DEF Qualified
<1>2. e \in FunctionEntry(t)
  <2> HIDE DEF name
  <2>1. <<>> \in Seq(Nat) /\ Unknown \in Int
    BY DEF Unknown
  <2> QED BY <1>1, <2>1 DEF FunctionEntry
<1>3. Len(table) \in Nat /\ \A i \in 1 .. Len(table) : table[i] \in FunctionEntry(t)
  OBVIOUS
<1>4. CASE f = 0
  <2>1. new = Append(table, e)
    BY <1>4 DEF DeclareFunction
  <2>2. \A k \in 1 .. Len(table) : table[k].name # name
    <3> HIDE DEF name
    <3> QED BY <1>3, <1>4, FindFacts
  <2> HIDE DEF new, f, name
  <2>3. /\ new \in Seq(FunctionEntry(t)) /\ Len(new) = Len(table) + 1
        /\ \A i \in 1 .. Len(table) : new[i] = table[i]
        /\ new[Len(table) + 1] = e
    <3> HIDE DEF e
    <3> QED BY <1>2, <1>3, <2>1
  <2>4. Distinct(new)
    <3>1. \A i \in 1 .. Len(new) : i \in 1 .. Len(table) \/ i = Len(table) + 1
      BY <1>3, <2>3
    <3> QED BY <2>2, <2>3, <3>1 DEF Distinct
  <2>5. \A i \in Len(table) + 1 .. Len(new) : i = Len(table) + 1
    BY <1>3, <2>3
  <2>6. \A i \in 1 .. Len(new) : (i <= Len(table) /\ i \in 1 .. Len(table)) \/ i = Len(table) + 1
    BY <1>3, <2>3
  <2>7. Len(table) + 1 \in 1 .. Len(new) /\ Len(new) >= Len(table)
    BY <1>3, <2>3
  <2> QED BY <2>3, <2>4, <2>5, <2>6, <2>7 DEF name, new, DeclaresOne
<1>5. CASE f # 0
  <2>1. new = [table EXCEPT ![f].public = item.public, ![f].known = item.typed]
    BY <1>5 DEF DeclareFunction
  <2>2. f \in 1 .. Len(table) /\ table[f].name = name
    <3> HIDE DEF name
    <3> QED BY <1>3, <1>5, FindFacts
  <2> HIDE DEF new, f, name
  <2>3. /\ new \in Seq(FunctionEntry(t)) /\ Len(new) = Len(table)
        /\ \A i \in 1 .. Len(table) :
            /\ i # f => new[i] = table[i]
            /\ i = f => new[i] = [table[f] EXCEPT !.public = item.public, !.known = item.typed]
    <3> DEFINE e2 == [table[f] EXCEPT !.public = item.public, !.known = item.typed]
    <3>1. e2 \in FunctionEntry(t)
      <4>1. table[f] \in FunctionEntry(t)
        BY <1>3, <2>2
      <4> QED BY <4>1 DEF FunctionEntry
    <3>2. new = [table EXCEPT ![f] = e2]
      BY <2>1, <2>2, <1>3 DEF FunctionEntry
    <3> HIDE DEF e2
    <3>3. /\ new \in Seq(FunctionEntry(t)) /\ Len(new) = Len(table)
          /\ \A i \in 1 .. Len(table) : new[i] = IF i = f THEN e2 ELSE table[i]
      BY <1>3, <2>2, <3>1, <3>2
    <3> QED BY <3>3 DEF e2
  <2>4. /\ new[f].name = name /\ new[f].public = item.public /\ new[f].known = item.typed
        /\ new[f].addr = table[f].addr /\ new[f].pending = table[f].pending
    BY <1>3, <2>2, <2>3, ZenonT(30) DEF FunctionEntry
  <2>5. \A i \in 1 .. Len(table) : new[i].name = table[i].name
    BY <2>2, <2>3, <2>4
  <2>6. Distinct(new)
    BY <2>3, <2>5 DEF Distinct
  <2>7. Len(new) >= Len(table) /\ \A i \in Len(table) + 1 .. Len(new) : FALSE
    BY <1>3, <2>3
  <2>8. \A i \in 1 .. Len(table) : i <= Len(table)
    BY <1>3
  <2> QED BY <2>2, <2>3, <2>4, <2>5, <2>6, <2>7, <2>8 DEF name, new, DeclaresOne
<1> QED BY <1>4, <1>5

DeclaresOneStruct(old, new, item, prefix) ==
    /\ Len(new) >= Len(old)
    /\ \A i \in 1 .. Len(old) : new[i] = old[i]
    /\ \A i \in Len(old) + 1 .. Len(new) :
        /\ new[i].name = [prefix |-> prefix, name |-> item.name]
        /\ new[i].public = item.public
        /\ new[i].fields = 0
    /\ \E i \in 1 .. Len(new) : new[i].name = [prefix |-> prefix, name |-> item.name]

LEMMA DeclareStructFacts ==
    ASSUME NEW t, NEW table \in Seq(StructEntry(t)), NEW item,
           NEW prefix \in Aliases(t), item.name \in Names(t), item.public \in BOOLEAN
    PROVE  /\ DeclareStruct(table, item, prefix) \in Seq(StructEntry(t))
           /\ DeclaresOneStruct(table, DeclareStruct(table, item, prefix), item, prefix)
<1> DEFINE name == [prefix |-> prefix, name |-> item.name]
           e == [name |-> name, fields |-> 0, public |-> item.public]
           new == DeclareStruct(table, item, prefix)
<1>1. name \in Qualified(t)
  BY DEF Qualified
<1>2. e \in StructEntry(t) /\ e.name = name /\ e.public = item.public /\ e.fields = 0
  <2> HIDE DEF name
  <2> QED BY <1>1 DEF StructEntry, Sizes
<1>3. Len(table) \in Nat
  OBVIOUS
<1>4. CASE Find(table, name) = 0
  <2>1. new = Append(table, e)
    BY <1>4 DEF DeclareStruct
  <2> HIDE DEF new, e, name
  <2>2. /\ new \in Seq(StructEntry(t)) /\ Len(new) = Len(table) + 1
        /\ \A i \in 1 .. Len(table) : new[i] = table[i]
        /\ new[Len(table) + 1] = e
    BY <1>2, <1>3, <2>1
  <2>3. \A i \in Len(table) + 1 .. Len(new) : i = Len(table) + 1
    BY <1>3, <2>2
  <2>4. Len(table) + 1 \in 1 .. Len(new) /\ Len(new) >= Len(table)
    BY <1>3, <2>2
  <2> QED BY <1>2, <2>2, <2>3, <2>4 DEF name, new, DeclaresOneStruct
<1>5. CASE Find(table, name) # 0
  <2>1. new = table
    BY <1>5 DEF DeclareStruct
  <2>2. \E i \in 1 .. Len(table) : table[i].name = name
    <3> HIDE DEF name
    <3> QED BY <1>3, <1>5, FindFacts
  <2> HIDE DEF new, name
  <2>3. \A i \in Len(table) + 1 .. Len(table) : FALSE
    BY <1>3
  <2> QED BY <1>3, <2>1, <2>2, <2>3 DEF name, new, DeclaresOneStruct
<1> QED BY <1>4, <1>5

Tables(t) == {ts \in [functions : Seq(FunctionEntry(t)), structs : Seq(StructEntry(t))] :
                Distinct(ts.functions)}

\* what the tables hold after the first n items of a file
Holds(old, new, items, prefix, n) ==
    /\ DeclaresFunctions(old.functions, new.functions, items, prefix, n)
    /\ DeclaresStructs(old.structs, new.structs, items, prefix, n)

LEMMA DeclareFunctionHolds ==
    ASSUME NEW t \in Texts, NEW f \in DOMAIN t, NEW prefix \in Aliases(t),
           NEW old \in Tables(t), NEW ts \in Tables(t), NEW n \in Nat,
           n + 1 \in DOMAIN t[f], t[f][n + 1].kind = "fun",
           Holds(old, ts, t[f], prefix, n)
    PROVE  LET new == DeclareItem(ts, t[f][n + 1], prefix)
           IN  new \in Tables(t) /\ Holds(old, new, t[f], prefix, n + 1)
<1> DEFINE item == t[f][n + 1]
           name == [prefix |-> prefix, name |-> item.name]
           new == DeclareItem(ts, item, prefix)
           F == DeclareFunction(ts.functions, item, prefix)
<1>1. /\ item.public \in BOOLEAN /\ item.name \in Names(t) /\ item.typed \in BOOLEAN
  BY ItemTypes
<1>2. /\ ts.functions \in Seq(FunctionEntry(t)) /\ Distinct(ts.functions)
      /\ ts.structs \in Seq(StructEntry(t))
      /\ old.functions \in Seq(FunctionEntry(t)) /\ old.structs \in Seq(StructEntry(t))
  BY DEF Tables
<1>3. new = [ts EXCEPT !.functions = F]
  BY Zenon DEF DeclareItem
<1> HIDE DEF new, F, item
<1>4. /\ F \in Seq(FunctionEntry(t)) /\ Distinct(F)
      /\ DeclaresOne(ts.functions, F, item, prefix)
  BY <1>1, <1>2, DeclareFunctionFacts DEF F
<1>5. new.functions = F /\ new.structs = ts.structs /\ new \in Tables(t)
  BY <1>2, <1>3, <1>4 DEF Tables
<1>6. DeclaresFunctions(old.functions, ts.functions, t[f], prefix, n)
  BY DEF Holds
<1>7. /\ Len(old.functions) \in Nat /\ Len(ts.functions) \in Nat /\ Len(F) \in Nat
      /\ Len(ts.functions) >= Len(old.functions)
  BY <1>2, <1>4, <1>6 DEF DeclaresFunctions, DeclaresOne
<1>8. \A j \in 1 .. n + 1 : j \in 1 .. n \/ j = n + 1
  OBVIOUS
<1>9. n + 1 \in 1 .. n + 1 /\ \A j \in 1 .. n : j \in 1 .. n + 1
  OBVIOUS
<1>10. DeclaresFunctions(old.functions, F, t[f], prefix, n + 1)
  <2>1. Len(F) >= Len(old.functions)
    BY <1>4, <1>7 DEF DeclaresOne
  <2>2. \A i \in 1 .. Len(old.functions) : i \in 1 .. Len(ts.functions)
    BY <1>7
  <2>3. \A i \in 1 .. Len(old.functions) : /\ F[i].name = old.functions[i].name
                                           /\ F[i].addr = old.functions[i].addr
                                           /\ F[i].pending = old.functions[i].pending
    BY <1>4, <1>6, <2>2 DEF DeclaresFunctions, DeclaresOne
  <2>4. ASSUME NEW i \in Len(old.functions) + 1 .. Len(F)
        PROVE  F[i].addr = Unknown /\ F[i].pending = <<>>
    <3>1. \/ i \in Len(ts.functions) + 1 .. Len(F)
          \/ i \in Len(old.functions) + 1 .. Len(ts.functions) /\ i \in 1 .. Len(ts.functions)
      BY <1>7
    <3> QED BY <1>4, <1>6, <3>1, ZenonT(30) DEF DeclaresFunctions, DeclaresOne
  <2>5. ASSUME NEW i \in 1 .. Len(F)
        PROVE  \/ i <= Len(old.functions) /\ F[i] = old.functions[i]
               \/ \E j \in 1 .. n + 1 :
                    /\ t[f][j].kind = "fun"
                    /\ F[i].name = [prefix |-> prefix, name |-> t[f][j].name]
                    /\ F[i].public = t[f][j].public
                    /\ F[i].known = t[f][j].typed
    <3>1. CASE F[i].name = name /\ F[i].public = item.public /\ F[i].known = item.typed
      BY <1>9, <3>1 DEF item
    <3>2. CASE i <= Len(ts.functions) /\ F[i] = ts.functions[i]
      <4>1. i \in 1 .. Len(ts.functions)
        BY <1>7, <3>2
      <4>2. \/ i <= Len(old.functions) /\ ts.functions[i] = old.functions[i]
            \/ \E j \in 1 .. n :
                    /\ t[f][j].kind = "fun"
                    /\ ts.functions[i].name = [prefix |-> prefix, name |-> t[f][j].name]
                    /\ ts.functions[i].public = t[f][j].public
                    /\ ts.functions[i].known = t[f][j].typed
        BY <1>6, <4>1 DEF DeclaresFunctions
      <4> QED BY <1>9, <3>2, <4>2
    <3> QED BY <1>4, <3>1, <3>2 DEF DeclaresOne
  <2>6. ASSUME NEW j \in 1 .. n + 1, t[f][j].kind = "fun"
        PROVE  \E i \in 1 .. Len(F) : F[i].name = [prefix |-> prefix, name |-> t[f][j].name]
    <3>1. CASE j = n + 1
      BY <1>4, <3>1 DEF item, DeclaresOne
    <3>2. CASE j \in 1 .. n
      <4>1. PICK i \in 1 .. Len(ts.functions) :
                ts.functions[i].name = [prefix |-> prefix, name |-> t[f][j].name]
        BY <1>6, <2>6, <3>2 DEF DeclaresFunctions
      <4>2. i \in 1 .. Len(F)
        BY <1>4, <1>7 DEF DeclaresOne
      <4> QED BY <1>4, <4>1, <4>2 DEF DeclaresOne
    <3> QED BY <1>8, <3>1, <3>2
  <2> QED BY <2>1, <2>3, <2>4, <2>5, <2>6 DEF DeclaresFunctions
<1>11. DeclaresStructs(old.structs, ts.structs, t[f], prefix, n + 1)
  <2>1. DeclaresStructs(old.structs, ts.structs, t[f], prefix, n)
    BY DEF Holds
  <2>2. \A j \in 1 .. n + 1 : t[f][j].kind = "struct" => j \in 1 .. n
    BY <1>8
  <2> QED BY <1>9, <2>1, <2>2 DEF DeclaresStructs
<1> QED BY <1>5, <1>10, <1>11 DEF Holds, new, item

LEMMA DeclareStructHolds ==
    ASSUME NEW t \in Texts, NEW f \in DOMAIN t, NEW prefix \in Aliases(t),
           NEW old \in Tables(t), NEW ts \in Tables(t), NEW n \in Nat,
           n + 1 \in DOMAIN t[f], t[f][n + 1].kind = "struct",
           Holds(old, ts, t[f], prefix, n)
    PROVE  LET new == DeclareItem(ts, t[f][n + 1], prefix)
           IN  new \in Tables(t) /\ Holds(old, new, t[f], prefix, n + 1)
<1> DEFINE item == t[f][n + 1]
           new == DeclareItem(ts, item, prefix)
           S == DeclareStruct(ts.structs, item, prefix)
<1>1. item.public \in BOOLEAN /\ item.name \in Names(t)
  BY ItemTypes
<1>2. /\ ts.functions \in Seq(FunctionEntry(t)) /\ Distinct(ts.functions)
      /\ ts.structs \in Seq(StructEntry(t))
      /\ old.functions \in Seq(FunctionEntry(t)) /\ old.structs \in Seq(StructEntry(t))
  BY DEF Tables
<1>3. new = [ts EXCEPT !.structs = S]
  BY Zenon DEF DeclareItem
<1> HIDE DEF new, S, item
<1>4. S \in Seq(StructEntry(t)) /\ DeclaresOneStruct(ts.structs, S, item, prefix)
  BY <1>1, <1>2, DeclareStructFacts DEF S
<1>5. new.structs = S /\ new.functions = ts.functions /\ new \in Tables(t)
  BY <1>2, <1>3, <1>4 DEF Tables
<1>6. DeclaresStructs(old.structs, ts.structs, t[f], prefix, n)
  BY DEF Holds
<1>7. /\ Len(old.structs) \in Nat /\ Len(ts.structs) \in Nat /\ Len(S) \in Nat
      /\ Len(ts.structs) >= Len(old.structs) /\ Len(S) >= Len(ts.structs)
  BY <1>2, <1>4, <1>6 DEF DeclaresStructs, DeclaresOneStruct
<1>8. \A j \in 1 .. n + 1 : j \in 1 .. n \/ j = n + 1
  OBVIOUS
<1>9. n + 1 \in 1 .. n + 1 /\ \A j \in 1 .. n : j \in 1 .. n + 1
  OBVIOUS
<1>10. DeclaresStructs(old.structs, S, t[f], prefix, n + 1)
  <2>1. Len(S) >= Len(old.structs)
    BY <1>7
  <2>2. \A i \in 1 .. Len(old.structs) : i \in 1 .. Len(ts.structs)
    BY <1>7
  <2>3. \A i \in 1 .. Len(old.structs) : S[i] = old.structs[i]
    BY <1>4, <1>6, <2>2 DEF DeclaresStructs, DeclaresOneStruct
  <2>4. ASSUME NEW i \in Len(old.structs) + 1 .. Len(S)
        PROVE  \E j \in 1 .. n + 1 :
                    /\ t[f][j].kind = "struct"
                    /\ S[i].name = [prefix |-> prefix, name |-> t[f][j].name]
                    /\ S[i].public = t[f][j].public
                    /\ S[i].fields = 0
    <3>1. CASE i \in Len(ts.structs) + 1 .. Len(S)
      BY <1>4, <1>9, <3>1 DEF item, DeclaresOneStruct
    <3>2. CASE i \in Len(old.structs) + 1 .. Len(ts.structs)
      <4>1. i \in 1 .. Len(ts.structs)
        BY <1>7, <3>2
      <4>2. \E j \in 1 .. n :
                    /\ t[f][j].kind = "struct"
                    /\ ts.structs[i].name = [prefix |-> prefix, name |-> t[f][j].name]
                    /\ ts.structs[i].public = t[f][j].public
                    /\ ts.structs[i].fields = 0
        BY <1>6, <3>2 DEF DeclaresStructs
      <4> QED BY <1>4, <1>9, <4>1, <4>2 DEF DeclaresOneStruct
    <3> QED BY <1>7, <3>1, <3>2
  <2>5. ASSUME NEW j \in 1 .. n + 1, t[f][j].kind = "struct"
        PROVE  \E i \in 1 .. Len(S) : S[i].name = [prefix |-> prefix, name |-> t[f][j].name]
    <3>1. CASE j = n + 1
      BY <1>4, <3>1 DEF item, DeclaresOneStruct
    <3>2. CASE j \in 1 .. n
      <4>1. PICK i \in 1 .. Len(ts.structs) :
                ts.structs[i].name = [prefix |-> prefix, name |-> t[f][j].name]
        BY <1>6, <2>5, <3>2 DEF DeclaresStructs
      <4>2. i \in 1 .. Len(S)
        BY <1>7
      <4> QED BY <1>4, <4>1, <4>2 DEF DeclaresOneStruct
    <3> QED BY <1>8, <3>1, <3>2
  <2> QED BY <2>1, <2>3, <2>4, <2>5 DEF DeclaresStructs
<1>11. DeclaresFunctions(old.functions, ts.functions, t[f], prefix, n + 1)
  <2>1. DeclaresFunctions(old.functions, ts.functions, t[f], prefix, n)
    BY DEF Holds
  <2>2. \A j \in 1 .. n + 1 : t[f][j].kind = "fun" => j \in 1 .. n
    BY <1>8
  <2> QED BY <1>9, <2>1, <2>2 DEF DeclaresFunctions
<1> QED BY <1>5, <1>10, <1>11 DEF Holds, new, item

LEMMA DeclareImportHolds ==
    ASSUME NEW t \in Texts, NEW f \in DOMAIN t, NEW prefix \in Aliases(t),
           NEW old \in Tables(t), NEW ts \in Tables(t), NEW n \in Nat,
           n + 1 \in DOMAIN t[f], t[f][n + 1].kind = "imp",
           Holds(old, ts, t[f], prefix, n)
    PROVE  LET new == DeclareItem(ts, t[f][n + 1], prefix)
           IN  new \in Tables(t) /\ Holds(old, new, t[f], prefix, n + 1)
<1>1. DeclareItem(ts, t[f][n + 1], prefix) = ts
  BY Zenon DEF DeclareItem
<1>2. \A j \in 1 .. n + 1 : t[f][j].kind # "imp" => j \in 1 .. n
  OBVIOUS
<1>3. \A j \in 1 .. n : j \in 1 .. n + 1
  OBVIOUS
<1>4. DeclaresFunctions(old.functions, ts.functions, t[f], prefix, n + 1)
  BY <1>2, <1>3 DEF Holds, DeclaresFunctions
<1>5. DeclaresStructs(old.structs, ts.structs, t[f], prefix, n + 1)
  BY <1>2, <1>3 DEF Holds, DeclaresStructs
<1> QED BY <1>1, <1>4, <1>5 DEF Holds

\* Predeclaration puts the functions and structs of a file in the tables, and
\* nothing else.
LEMMA PredeclaredHolds ==
    ASSUME NEW t \in Texts, NEW f \in DOMAIN t, NEW prefix \in Aliases(t),
           NEW old \in Tables(t)
    PROVE  /\ Predeclared(old, t[f], prefix) \in Tables(t)
           /\ Holds(old, Predeclared(old, t[f], prefix), t[f], prefix, Len(t[f]))
<1> DEFINE N == Len(t[f])
<1>1. t[f] \in Seq(ToSet(t[f])) /\ N \in Nat /\ DOMAIN t[f] = 1 .. N
  BY TextTypes
<1>2. PICK T : /\ Passes(T, old, t[f], prefix)
               /\ T[N] = Predeclared(old, t[f], prefix)
  BY <1>1, FoldPasses
<1> DEFINE Good(n) == T[n] \in Tables(t) /\ Holds(old, T[n], t[f], prefix, n)
           Bad == {n \in 0 .. N : ~Good(n)}
<1>3. Good(0)
  <2>1. T[0] = old
    BY <1>2 DEF Passes
  <2>2. DeclaresFunctions(old.functions, old.functions, t[f], prefix, 0)
    <3>1. Len(old.functions) \in Nat
      BY DEF Tables
    <3> QED BY <3>1 DEF DeclaresFunctions
  <2>3. DeclaresStructs(old.structs, old.structs, t[f], prefix, 0)
    <3>1. Len(old.structs) \in Nat
      BY DEF Tables
    <3> QED BY <3>1 DEF DeclaresStructs
  <2> QED BY <2>1, <2>2, <2>3 DEF Holds
<1>4. ASSUME NEW n \in Nat, n + 1 \in 1 .. N, Good(n)
      PROVE  Good(n + 1)
  <2>1. T[n + 1] = DeclareItem(T[n], t[f][n + 1], prefix)
    <3>1. (n + 1) - 1 = n
      OBVIOUS
    <3> QED BY <1>2, <1>4, <3>1 DEF Passes
  <2>2. n + 1 \in DOMAIN t[f]
    BY <1>1, <1>4
  <2>3. t[f][n + 1].kind \in {"fun", "struct", "imp"}
    BY <2>2, ItemTypes
  <2> DEFINE ts == T[n]
  <2>4. ts \in Tables(t) /\ Holds(old, ts, t[f], prefix, n)
    BY <1>4
  <2>5. T[n + 1] = DeclareItem(ts, t[f][n + 1], prefix)
    BY <2>1
  <2> HIDE DEF ts, N
  <2>6. /\ DeclareItem(ts, t[f][n + 1], prefix) \in Tables(t)
        /\ Holds(old, DeclareItem(ts, t[f][n + 1], prefix), t[f], prefix, n + 1)
    <3>1. CASE t[f][n + 1].kind = "fun"
      BY <2>2, <2>4, <3>1, DeclareFunctionHolds
    <3>2. CASE t[f][n + 1].kind = "struct"
      BY <2>2, <2>4, <3>2, DeclareStructHolds
    <3>3. CASE t[f][n + 1].kind = "imp"
      BY <2>2, <2>4, <3>3, DeclareImportHolds
    <3> QED BY <2>3, <3>1, <3>2, <3>3
  <2> QED BY <2>5, <2>6
<1> HIDE DEF Good, N
<1>5. Bad = {}
  <2> SUFFICES ASSUME Bad # {} PROVE FALSE
    OBVIOUS
  <2>1. PICK m \in Bad : \A e \in Bad : m <= e
    <3>1. Bad \in SUBSET Nat
      OBVIOUS
    <3> HIDE DEF Bad
    <3> QED BY <3>1, LeastOf
  <2>2. m \in Nat /\ m # 0 /\ m \in 0 .. N
    BY <1>3
  <2> HIDE DEF Bad
  <2>3. m - 1 \in Nat /\ (m - 1) + 1 = m /\ m \in 1 .. N /\ m - 1 \in 0 .. N /\ ~(m <= m - 1)
    BY <1>1, <2>2
  <2>4. Good(m - 1)
    BY <2>1, <2>3 DEF Bad
  <2>5. Good(m)
    BY <1>4, <2>3, <2>4
  <2> QED BY <2>1, <2>5 DEF Bad
<1>6. Good(N)
  <2>1. N \in 0 .. N
    BY <1>1
  <2> QED BY <1>5, <2>1
<1> QED BY <1>2, <1>6 DEF Good, N

-----------------------------------------------------------------------------
(* Frames and names *)

\* The file being compiled.
LEMMA ModuleFacts ==
    ASSUME IInv
    PROVE  /\ Len(frames) \in Nat /\ Len(frames) >= 1
           /\ Len(frames) \in 1 .. Len(frames)
           /\ Module = frames[Len(frames)] /\ Module \in Frame(text)
           /\ text \in Texts /\ Module.file \in DOMAIN text
           /\ Module.prefix \in Aliases(text) /\ Module.next \in Nat
           /\ Items = text[Module.file]
           /\ Len(Items) \in Nat /\ DOMAIN Items = 1 .. Len(Items)
<1>1. /\ Len(frames) \in Nat /\ Len(frames) >= 1 /\ Len(frames) \in 1 .. Len(frames)
      /\ frames \in Seq(Frame(text)) /\ text \in Texts
  BY DEF IInv, Typed
<1>2. Module = frames[Len(frames)] /\ Module \in Frame(text)
  BY <1>1 DEF Module, Last
<1>3. /\ Module.file \in DOMAIN text /\ Module.prefix \in Aliases(text)
      /\ Module.next \in Nat
  BY <1>2 DEF Frame
<1>4. Items = text[Module.file]
  BY DEF Items
<1>5. Len(text[Module.file]) \in Nat /\ DOMAIN text[Module.file] = 1 .. Len(text[Module.file])
  BY <1>1, <1>3, TextTypes
<1> QED BY <1>1, <1>2, <1>3, <1>4, <1>5

\* The item that comes next.
LEMMA ItemFacts ==
    ASSUME IInv, Module.next \in DOMAIN Items
    PROVE  /\ Item = text[Module.file][Module.next]
           /\ Item.kind \in {"fun", "struct", "imp"}
           /\ Item.kind # "imp" => Item.public \in BOOLEAN /\ Item.name \in Names(text)
           /\ Item.kind = "fun" => Item.typed \in BOOLEAN
           /\ Item.kind = "struct" => Item.fields \in Sizes(text)
           /\ Item.kind = "imp" => /\ Item \in ImportsOf(text)
                                   /\ Item.file \in DOMAIN text
                                   /\ Item.alias # NULL
                                   /\ Item.alias \in Aliases(text)
<1>1. /\ text \in Texts /\ Module.file \in DOMAIN text
      /\ Module.next \in DOMAIN text[Module.file]
      /\ Item = text[Module.file][Module.next]
  BY ModuleFacts DEF Item, Items
<1> QED BY <1>1, ItemTypes

\* Going to the next item.
LEMMA NextItemFrames ==
    ASSUME NEW t, NEW fs \in Seq(Frame(t)), Len(fs) >= 1
    PROVE  /\ NextItem(fs) \in Seq(Frame(t))
           /\ Len(NextItem(fs)) = Len(fs)
           /\ \A k \in 1 .. Len(fs) - 1 : NextItem(fs)[k] = fs[k]
           /\ \A k \in 1 .. Len(fs) : /\ NextItem(fs)[k].file = fs[k].file
                                      /\ NextItem(fs)[k].prefix = fs[k].prefix
                                      /\ NextItem(fs)[k].saved = fs[k].saved
           /\ NextItem(fs)[Len(fs)].next = fs[Len(fs)].next + 1
<1> DEFINE n == Len(fs)
           e == [fs[n] EXCEPT !.next = @ + 1]
<1>1. n \in Nat /\ n \in 1 .. n /\ fs[n] \in Frame(t)
  OBVIOUS
<1>2. /\ e \in Frame(t) /\ e.file = fs[n].file /\ e.prefix = fs[n].prefix
      /\ e.saved = fs[n].saved /\ e.next = fs[n].next + 1
  BY <1>1 DEF Frame
<1>3. NextItem(fs) = [fs EXCEPT ![n] = e]
  BY <1>1 DEF NextItem
<1> HIDE DEF e
<1>4. /\ NextItem(fs) \in Seq(Frame(t)) /\ Len(NextItem(fs)) = n
      /\ \A k \in 1 .. n : NextItem(fs)[k] = IF k = n THEN e ELSE fs[k]
  BY <1>1, <1>2, <1>3
<1>5. \A k \in 1 .. n - 1 : k \in 1 .. n /\ k # n
  BY <1>1
<1> QED BY <1>1, <1>2, <1>4, <1>5

\* A name of an imported file, and what it means.
LEMMA ForeignMeaning ==
    ASSUME IInv, NEW k \in {"fun", "struct"}, NEW u \in Foreign(k)
    PROVE  /\ u = [prefix |-> u.prefix, name |-> u.name]
           /\ u.prefix # NULL
           /\ Meaning(u, k).name = u.name
           /\ \E i \in Imports : \E j \in DOMAIN text[Items[i].file] :
                /\ Items[i].alias = u.prefix
                /\ Meaning(u, k).file = Items[i].file
                /\ Items[i].file \in DOMAIN text
                /\ text[Items[i].file][j].kind = k
                /\ text[Items[i].file][j].name = u.name
           /\ Imports \subseteq DOMAIN Items
           /\ \A i \in Imports : /\ i < Module.next /\ Items[i].kind = "imp"
                                 /\ Items[i] \in ImportsOf(text)
<1>1. /\ text \in Texts /\ Module.file \in DOMAIN text /\ Items = text[Module.file]
  BY ModuleFacts
<1>2. /\ Imports \subseteq DOMAIN Items
      /\ \A i \in Imports : i < Module.next /\ Items[i].kind = "imp"
  BY <1>1 DEF Imports, Named
<1>3. \A i \in Imports : /\ Items[i] \in ImportsOf(text) /\ Items[i].file \in DOMAIN text
                         /\ Items[i].alias # NULL
  BY <1>1, <1>2, ItemTypes
<1>4. PICK i \in Imports : \E j \in Named(Items[i].file, k) :
        u = [prefix |-> Items[i].alias, name |-> text[Items[i].file][j].name]
  BY DEF Foreign
<1> PICK j \in Named(Items[i].file, k) :
        u = [prefix |-> Items[i].alias, name |-> text[Items[i].file][j].name]
  BY <1>4
<1>5. u.prefix = Items[i].alias /\ u.name = text[Items[i].file][j].name
  BY <1>4
<1>6. j \in DOMAIN text[Items[i].file] /\ text[Items[i].file][j].kind = k
  BY DEF Named
<1>7. Imported(u.prefix) = Items[i].file
  <2> DEFINE c == CHOOSE a \in Imports : Items[a].alias = u.prefix
  <2>1. c \in Imports /\ Items[c].alias = u.prefix
    BY <1>5
  <2>2. Imported(u.prefix) = Items[c].file
    BY DEF Imported
  <2> HIDE DEF c
  <2>3. Label(Items[c]) = Label(Items[i])
    BY <1>2, <1>5, <2>1 DEF Label
  <2>4. c \in DOMAIN text[Module.file] /\ i \in DOMAIN text[Module.file]
    BY <1>1, <1>2, <2>1
  <2>5. c = i
    <3>1. Label(text[Module.file][c]) = Label(text[Module.file][i])
      BY <1>1, <2>3
    <3> QED BY <1>1, <2>4, <3>1, TextTypes
  <2> QED BY <2>2, <2>5
<1>8. u.prefix # NULL
  BY <1>3, <1>5
<1>9. Meaning(u, k).file = Items[i].file /\ Meaning(u, k).name = u.name
  BY <1>7, <1>8 DEF Meaning
<1> QED BY <1>2, <1>3, <1>4, <1>5, <1>6, <1>8, <1>9

\* A name of the file being compiled.
LEMMA OwnMeaning ==
    ASSUME IInv, NEW k \in {"fun", "struct"}, NEW u \in Own(k)
    PROVE  /\ u = [prefix |-> u.prefix, name |-> u.name]
           /\ u.prefix = NULL
           /\ Meaning(u, k) = [file |-> Module.file, name |-> u.name]
           /\ \E j \in DOMAIN Items : Items[j].kind = k /\ Items[j].name = u.name
<1>1. PICK j \in Named(Module.file, k) : u = [prefix |-> NULL, name |-> Items[j].name]
  BY DEF Own
<1>2. j \in DOMAIN Items /\ Items[j].kind = k
  BY DEF Named, Items
<1>3. u.prefix = NULL /\ u.name = Items[j].name
  BY <1>1
<1>4. Meaning(u, k) = [file |-> Module.file, name |-> u.name]
  BY <1>3 DEF Meaning
<1> QED BY <1>1, <1>2, <1>3, <1>4

\* A name of a function, whichever it is.
LEMMA FunctionNames ==
    ASSUME IInv, NEW u \in Functions
    PROVE  /\ u = [prefix |-> u.prefix, name |-> u.name]
           /\ u.prefix \in Aliases(text) /\ u.name \in Names(text) \cup Natives
           /\ Meaning(u, "fun").name = u.name
           /\ Meaning(u, "fun").file \in DOMAIN text \cup {NativeFile}
           /\ Meaning(u, "fun") \in Meanings(text)
           /\ u \in Foreign("fun") <=> u.prefix # NULL
           /\ u.prefix = NULL /\ u \notin Own("fun") =>
                u.name \in Natives /\ Meaning(u, "fun").file = NativeFile
<1> DEFINE m == Meaning(u, "fun")
<1>0. m = [file |-> m.file, name |-> m.name]
  BY DEF Meaning
<1>1. CASE u \in Foreign("fun")
  <2>1. PICK i \in Imports : \E j \in DOMAIN text[Items[i].file] :
            /\ u = [prefix |-> u.prefix, name |-> u.name]
            /\ u.prefix # NULL /\ m.name = u.name
            /\ Items[i].alias = u.prefix /\ m.file = Items[i].file
            /\ Items[i].file \in DOMAIN text
            /\ text[Items[i].file][j].kind = "fun"
            /\ text[Items[i].file][j].name = u.name
            /\ Items[i] \in ImportsOf(text)
    BY <1>1, ForeignMeaning
  <2>2. u.prefix \in Aliases(text)
    BY <2>1 DEF Aliases
  <2>3. u.name \in Names(text)
    BY <2>1 DEF Names
  <2>4. m \in Meanings(text)
    <3> HIDE DEF m
    <3> QED BY <1>0, <2>1, <2>3 DEF Meanings
  <2> QED BY <1>1, <2>1, <2>2, <2>3, <2>4
<1>2. CASE u \in Own("fun")
  <2>1. PICK j \in DOMAIN Items :
            /\ u = [prefix |-> u.prefix, name |-> u.name]
            /\ u.prefix = NULL /\ m = [file |-> Module.file, name |-> u.name]
            /\ Items[j].kind = "fun" /\ Items[j].name = u.name
    BY <1>2, OwnMeaning
  <2>2. u.prefix \in Aliases(text)
    BY <2>1 DEF Aliases
  <2>3. Module.file \in DOMAIN text /\ u.name \in Names(text)
    BY <2>1, ModuleFacts, ItemTypes
  <2>4. m \in Meanings(text)
    <3> HIDE DEF m
    <3> QED BY <2>1, <2>3 DEF Meanings
  <2>5. u \notin Foreign("fun")
    BY <2>1, ForeignMeaning
  <2> QED BY <1>2, <2>1, <2>2, <2>3, <2>4, <2>5
<1>3. CASE u \notin Own("fun") /\ u \notin Foreign("fun")
  <2>1. PICK n \in Natives : u = [prefix |-> NULL, name |-> n]
    BY <1>3 DEF Functions
  <2>2. u.prefix = NULL /\ u.name = n
    BY <2>1
  <2>3. m = [file |-> NativeFile, name |-> u.name]
    BY <1>3, <2>2 DEF Meaning
  <2>4. m \in Meanings(text)
    <3> HIDE DEF m
    <3> QED BY <2>2, <2>3 DEF Meanings
  <2> QED BY <1>3, <2>1, <2>2, <2>3, <2>4 DEF Aliases
<1> QED BY <1>1, <1>2, <1>3

\* What variable() finds.
LEMMA ResolveFacts ==
    ASSUME IInv, functions \in Seq(FunctionEntry(text)), NEW u,
           u = [prefix |-> u.prefix, name |-> u.name]
    PROVE  \/ Resolve(u) = 0
           \/ Resolve(u) = NativeIndex /\ u.prefix = NULL /\ u.name \in Natives
           \/ /\ Resolve(u) \in 1 .. Len(functions)
              /\ functions[Resolve(u)].name.name = u.name
              /\ functions[Resolve(u)].name.prefix = u.prefix
           \/ /\ Resolve(u) \in 1 .. Len(functions)
              /\ u.prefix = NULL
              /\ functions[Resolve(u)].name.name = u.name
              /\ functions[Resolve(u)].name.prefix = Module.prefix
              /\ Find(functions, u) = 0
<1> DEFINE v == [u EXCEPT !.prefix = Module.prefix]
<1>1. v.name = u.name /\ v.prefix = Module.prefix
  OBVIOUS
<1>2. \/ Find(functions, u) = 0
      \/ /\ Find(functions, u) \in 1 .. Len(functions)
         /\ functions[Find(functions, u)].name = u
  BY FindFacts
<1>3. \/ Find(functions, v) = 0
      \/ /\ Find(functions, v) \in 1 .. Len(functions)
         /\ functions[Find(functions, v)].name = v
  <2> HIDE DEF v
  <2> QED BY FindFacts
<1> QED BY <1>1, <1>2, <1>3 DEF Resolve

-----------------------------------------------------------------------------
(* What steps keep *)

\* The chunk and the table of functions only grow.
Grown ==
    /\ text' = text
    /\ Len(code') >= Len(code)
    /\ \A c \in 1 .. Len(code) : code'[c].op = code[c].op
    /\ Len(functions') >= Len(functions)
    /\ \A i \in 1 .. Len(functions) : functions'[i].name = functions[i].name

\* The lengths of the tables.
LEMMA Lengths ==
    ASSUME Kinds
    PROVE  /\ Len(functions) \in Nat /\ DOMAIN functions = 1 .. Len(functions)
           /\ Len(structs) \in Nat /\ DOMAIN structs = 1 .. Len(structs)
           /\ Len(code) \in Nat /\ DOMAIN code = 1 .. Len(code)
           /\ Len(open) \in Nat /\ DOMAIN open = 1 .. Len(open)
           /\ \A i \in 1 .. Len(functions) : functions[i] \in FunctionEntry(text)
           /\ \A i \in 1 .. Len(structs) : structs[i] \in StructEntry(text)
           /\ \A c \in 1 .. Len(code) : code[c] \in Instructions(text)
           /\ \A i \in 1 .. Len(open) : open[i] \in Opens(text)
<1>1. /\ functions \in Seq(FunctionEntry(text)) /\ structs \in Seq(StructEntry(text))
      /\ code \in Seq(Instructions(text)) /\ open \in Seq(Opens(text))
  BY DEF Kinds
<1>2. Len(functions) \in Nat /\ DOMAIN functions = 1 .. Len(functions)
  BY <1>1
<1>3. Len(structs) \in Nat /\ DOMAIN structs = 1 .. Len(structs)
  BY <1>1
<1>4. Len(code) \in Nat /\ DOMAIN code = 1 .. Len(code)
  BY <1>1
<1>5. Len(open) \in Nat /\ DOMAIN open = 1 .. Len(open)
  BY <1>1
<1>6. \A i \in 1 .. Len(functions) : functions[i] \in FunctionEntry(text)
  BY <1>1
<1>7. \A i \in 1 .. Len(structs) : structs[i] \in StructEntry(text)
  BY <1>1
<1>8. \A c \in 1 .. Len(code) : code[c] \in Instructions(text)
  BY <1>1
<1>9. \A i \in 1 .. Len(open) : open[i] \in Opens(text)
  BY <1>1
<1> QED BY <1>2, <1>3, <1>4, <1>5, <1>6, <1>7, <1>8, <1>9

\* What is open stays well-formed when the tables grow.
LEMMA OpenedKept ==
    ASSUME Kinds, Kinds', Grown, NEW o, NEW i, IsOpened(o, i, functions, code)
    PROVE  IsOpened(o, i, functions', code')
<1>1. /\ Len(functions) \in Nat /\ Len(functions') \in Nat
      /\ Len(code) \in Nat /\ Len(code') \in Nat
  BY DEF Kinds
<1>2. 1 .. Len(functions) \subseteq 1 .. Len(functions')
  BY <1>1 DEF Grown
<1>3. 1 .. Len(code) \subseteq 1 .. Len(code')
  BY <1>1 DEF Grown
<1>4. o.kind = "body" =>
        /\ o.jump \in 1 .. Len(code') /\ code'[o.jump].op = "jump"
        /\ i > 1 => o.func = 0
  BY <1>3 DEF IsOpened, Grown
<1>5. o.kind = "call" =>
        \/ o.func \in {NativeIndex, ValueIndex}
        \/ /\ o.func \in 1 .. Len(functions')
           /\ functions'[o.func].name.name = o.means.name
  BY <1>2 DEF IsOpened, Grown
<1>6. o.kind = "go" => o.begun \in 1 .. Len(code')
  BY <1>3 DEF IsOpened
<1> QED BY <1>4, <1>5, <1>6 DEF IsOpened

\* The calls that wait stay where they are.
LEMMA PendingKept ==
    ASSUME Kinds, Kinds', Grown, Pending, Len(functions') = Len(functions),
           \A i \in 1 .. Len(functions) : /\ functions'[i].addr = functions[i].addr
                                          /\ functions'[i].pending = functions[i].pending
    PROVE  Pending'
<1>1. Len(code) \in Nat /\ Len(code') \in Nat
  BY DEF Kinds
<1>2. 1 .. Len(code) \subseteq 1 .. Len(code')
  BY <1>1 DEF Grown
<1>3. ASSUME NEW i \in 1 .. Len(functions)
      PROVE  /\ functions'[i].addr # Unknown =>
                    functions'[i].addr \in 1 .. Len(code') /\ functions'[i].pending = <<>>
             /\ Len(functions'[i].pending) <= MaxPatches
             /\ \A k \in 1 .. Len(functions'[i].pending) :
                    /\ functions'[i].pending[k] \in 1 .. Len(code')
                    /\ code'[functions'[i].pending[k]].op = "call"
  <2>1. functions'[i].addr = functions[i].addr /\ functions'[i].pending = functions[i].pending
    OBVIOUS
  <2>2. /\ functions[i].addr # Unknown =>
                functions[i].addr \in 1 .. Len(code) /\ functions[i].pending = <<>>
        /\ Len(functions[i].pending) <= MaxPatches
        /\ \A k \in 1 .. Len(functions[i].pending) :
            /\ functions[i].pending[k] \in 1 .. Len(code)
            /\ code[functions[i].pending[k]].op = "call"
    BY DEF Pending
  <2> QED BY <1>2, <2>1, <2>2 DEF Grown
<1> QED BY <1>3 DEF Pending

\* The functions without an address are still to come, when the same ones are
\* without an address and none of them is the item that is passed.
LEMMA AwaitedKept ==
    ASSUME IInv, Kinds, Awaited, Grown, Len(functions') = Len(functions),
           \A i \in 1 .. Len(functions) : functions'[i].addr = functions[i].addr,
           \/ frames' = frames
           \/ /\ frames' = NextItem(frames)
              /\ Module.next \in DOMAIN Items
              /\ Item.kind = "fun" => \A i \in 1 .. Len(functions) :
                    functions[i].name = [prefix |-> Module.prefix, name |-> Item.name]
                        => functions[i].addr # Unknown
    PROVE  Awaited'
<1> SUFFICES ASSUME NEW i \in 1 .. Len(functions'), functions'[i].addr = Unknown
             PROVE  \E k \in 1 .. Len(frames') :
                        /\ frames'[k].prefix = functions'[i].name.prefix
                        /\ \E j \in frames'[k].next .. Len(text'[frames'[k].file]) :
                            /\ text'[frames'[k].file][j].kind = "fun"
                            /\ text'[frames'[k].file][j].name = functions'[i].name.name
  BY DEF Awaited
<1>1. /\ i \in 1 .. Len(functions) /\ functions[i].addr = Unknown
      /\ functions'[i].name = functions[i].name /\ text' = text
  BY DEF Grown
<1>2. PICK k \in 1 .. Len(frames) :
        /\ frames[k].prefix = functions[i].name.prefix
        /\ \E j \in frames[k].next .. Len(text[frames[k].file]) :
            /\ text[frames[k].file][j].kind = "fun"
            /\ text[frames[k].file][j].name = functions[i].name.name
  BY <1>1 DEF Awaited
<1>3. CASE frames' = frames
  BY <1>1, <1>2, <1>3
<1>4. CASE /\ frames' = NextItem(frames)
           /\ Module.next \in DOMAIN Items
           /\ Item.kind = "fun" => \A l \in 1 .. Len(functions) :
                functions[l].name = [prefix |-> Module.prefix, name |-> Item.name]
                    => functions[l].addr # Unknown
  <2>1. frames \in Seq(Frame(text)) /\ Len(frames) >= 1
    BY DEF IInv, Typed
  <2> DEFINE fs == NextItem(frames)
             n == Len(frames)
  <2>2. /\ fs \in Seq(Frame(text)) /\ Len(fs) = n
        /\ \A l \in 1 .. n - 1 : fs[l] = frames[l]
        /\ \A l \in 1 .. n : fs[l].file = frames[l].file /\ fs[l].prefix = frames[l].prefix
        /\ fs[n].next = frames[n].next + 1
    BY <2>1, NextItemFrames
  <2> HIDE DEF fs
  <2>3. frames' = fs
    BY <1>4 DEF fs
  <2>4. PICK j \in frames[k].next .. Len(text[frames[k].file]) :
            /\ text[frames[k].file][j].kind = "fun"
            /\ text[frames[k].file][j].name = functions[i].name.name
    BY <1>2
  <2>5. CASE k # n
    <3>1. k \in 1 .. n - 1
      BY <2>1, <2>5
    <3>2. fs[k] = frames[k] /\ k \in 1 .. Len(fs)
      BY <2>2, <3>1
    <3> QED BY <1>1, <1>2, <2>3, <3>2, ZenonT(30)
  <2>6. CASE k = n
    <3>1. Module = frames[n] /\ Items = text[Module.file] /\ Module.next \in Nat
      BY ModuleFacts
    <3>2. j # Module.next
      <4> SUFFICES ASSUME j = Module.next PROVE FALSE
        OBVIOUS
      <4>1. Item.kind = "fun" /\ Item.name = functions[i].name.name
        BY <2>4, <2>6, <3>1 DEF Item
      <4>2. functions[i].name = [prefix |-> functions[i].name.prefix,
                                 name |-> functions[i].name.name]
        <5>1. functions[i] \in FunctionEntry(text)
          BY <1>1, Lengths
        <5>2. functions[i].name \in Qualified(text)
          BY <5>1 DEF FunctionEntry
        <5> QED BY <5>2 DEF Qualified
      <4>3. functions[i].name.prefix = Module.prefix
        BY <1>2, <2>6, <3>1
      <4>4. functions[i].name = [prefix |-> Module.prefix, name |-> Item.name]
        BY <4>1, <4>2, <4>3
      <4> QED BY <1>1, <1>4, <4>1, <4>4
    <3>3. Len(text[frames[k].file]) \in Nat
      BY <2>6, <3>1, ModuleFacts
    <3>4. j \in fs[k].next .. Len(text[fs[k].file]) /\ fs[k].file = frames[k].file
          /\ fs[k].prefix = frames[k].prefix /\ k \in 1 .. Len(fs)
      BY <2>2, <2>4, <2>6, <3>1, <3>2, <3>3
    <3> QED BY <1>1, <1>2, <2>3, <2>4, <3>4
  <2> QED BY <2>5, <2>6
<1> QED BY <1>3, <1>4

\* Steps inside of an item.
LEMMA InsideLinked ==
    ASSUME LInv, IInv', Kinds', Pending', Grown,
           frames' = frames, Len(functions') = Len(functions),
           \A i \in 1 .. Len(functions) : functions'[i].addr = functions[i].addr,
           \A i \in 1 .. Len(open') :
                \/ i \in 1 .. Len(open) /\ open'[i] = open[i]
                \/ IsOpened(open'[i], i, functions', code'),
           open' # <<>> => open # <<>> /\ open'[1] = open[1]
    PROVE  Linked'
<1>1. IInv /\ Kinds /\ Chain /\ InFunction /\ Opened /\ Awaited /\ Pending
  BY DEF LInv, Linked
<1>2. text' = text /\ Module' = Module /\ Items' = Items /\ Item' = Item
  BY DEF Module, Items, Item, Grown
<1>3. Chain'
  BY <1>1, <1>2 DEF Chain
<1>4. InFunction'
  <2> SUFFICES ASSUME open' # <<>>
               PROVE  /\ Module.next \in DOMAIN Items
                      /\ Item.kind = "fun"
                      /\ open'[1].kind = "body"
                      /\ open'[1].func \in 1 .. Len(functions')
                      /\ functions'[open'[1].func].name =
                            [prefix |-> Module.prefix, name |-> Item.name]
                      /\ functions'[open'[1].func].addr # Unknown
    BY <1>2 DEF InFunction
  <2>1. /\ Module.next \in DOMAIN Items
        /\ Item.kind = "fun"
        /\ open[1].kind = "body"
        /\ open[1].func \in 1 .. Len(functions)
        /\ functions[open[1].func].name = [prefix |-> Module.prefix, name |-> Item.name]
        /\ functions[open[1].func].addr # Unknown
    BY <1>1 DEF InFunction
  <2>2. open'[1] = open[1]
    OBVIOUS
  <2> QED BY <2>1, <2>2 DEF Grown
<1>5. Opened'
  <2> SUFFICES ASSUME NEW i \in 1 .. Len(open')
               PROVE  IsOpened(open'[i], i, functions', code')
    BY DEF Opened
  <2>1. CASE i \in 1 .. Len(open) /\ open'[i] = open[i]
    <3>1. IsOpened(open[i], i, functions, code)
      BY <1>1, <2>1 DEF Opened
    <3> DEFINE o == open[i]
    <3>2. IsOpened(o, i, functions, code)
      BY <3>1
    <3> HIDE DEF o
    <3>3. IsOpened(o, i, functions', code')
      BY <1>1, <3>2, OpenedKept
    <3> QED BY <2>1, <3>3 DEF o
  <2> QED BY <2>1
<1>6. Awaited'
  BY <1>1, AwaitedKept
<1> QED BY <1>3, <1>4, <1>5, <1>6 DEF Linked

\* The chain of imports when the last file goes to its next item.
LEMMA ChainNext ==
    ASSUME IInv, Chain, text' = text, frames' = NextItem(frames),
           Module.next \in DOMAIN Items
    PROVE  Chain'
<1> DEFINE n == Len(frames)
           fs == NextItem(frames)
<1>1. frames \in Seq(Frame(text)) /\ n >= 1 /\ n \in Nat
  BY DEF IInv, Typed
<1>2. /\ Len(fs) = n
      /\ \A l \in 1 .. n - 1 : fs[l] = frames[l]
      /\ \A l \in 1 .. n : fs[l].file = frames[l].file /\ fs[l].prefix = frames[l].prefix
      /\ fs[n].next = frames[n].next + 1
  BY <1>1, NextItemFrames
<1>3. frames' = fs
  OBVIOUS
<1> HIDE DEF fs
<1>4. fs[1].file = Main /\ fs[1].prefix = NULL
  BY <1>1, <1>2 DEF Chain
<1>5. ASSUME NEW k \in 1 .. n
      PROVE  fs[k].next \in 1 .. Len(text[fs[k].file]) + 1
  <2>1. CASE k \in 1 .. n - 1
    BY <1>2, <2>1 DEF Chain
  <2>2. CASE k = n
    <3>1. /\ Module = frames[n] /\ Items = text[Module.file]
          /\ Len(Items) \in Nat /\ DOMAIN Items = 1 .. Len(Items)
      BY ModuleFacts
    <3>2. frames[n].next \in 1 .. Len(text[frames[n].file]) /\ Len(text[frames[n].file]) \in Nat
      BY <3>1
    <3> QED BY <1>2, <2>2, <3>2
  <2> QED BY <1>1, <2>1, <2>2
<1>6. ASSUME NEW k \in 1 .. n - 1
      PROVE  /\ fs[k].next \in DOMAIN text[fs[k].file]
             /\ text[fs[k].file][fs[k].next].kind = "imp"
             /\ text[fs[k].file][fs[k].next].file = fs[k + 1].file
             /\ text[fs[k].file][fs[k].next].alias = fs[k + 1].prefix
  <2>1. k + 1 \in 1 .. n
    BY <1>1
  <2>2. fs[k] = frames[k] /\ fs[k + 1].file = frames[k + 1].file
        /\ fs[k + 1].prefix = frames[k + 1].prefix
    BY <1>2, <2>1
  <2> QED BY <2>2 DEF Chain
<1> QED BY <1>2, <1>3, <1>4, <1>5, <1>6 DEF Chain

\* Steps from an item of the same file to the next.
LEMMA PassLinked ==
    ASSUME LInv, IInv', Kinds', Pending', Grown,
           frames' = NextItem(frames), Module.next \in DOMAIN Items, open' = <<>>,
           Len(functions') = Len(functions),
           \A i \in 1 .. Len(functions) : functions'[i].addr = functions[i].addr,
           Item.kind = "fun" => \A i \in 1 .. Len(functions) :
                functions[i].name = [prefix |-> Module.prefix, name |-> Item.name]
                    => functions[i].addr # Unknown
    PROVE  Linked'
<1>1. IInv /\ Kinds /\ Chain /\ Awaited /\ text' = text
  BY DEF LInv, Linked, Grown
<1>2. Chain'
  BY <1>1, ChainNext
<1>3. InFunction'
  BY DEF InFunction
<1>4. Opened'
  BY DEF Opened
<1>5. Awaited'
  BY <1>1, AwaitedKept
<1> QED BY <1>2, <1>3, <1>4, <1>5 DEF Linked

\* What no step touches.
LEMMA SameGrown ==
    ASSUME Kinds, text' = text, functions' = functions, code' = code
    PROVE  Grown
BY Lengths DEF Grown

-----------------------------------------------------------------------------
(* The steps *)

LEMMA UndefinedLinked ==
    ASSUME LInv, IInv', UNCHANGED <<text, frames, open, functions, structs, code, is_go,
                                    result>>
    PROVE  Linked'
<1>1. Kinds /\ Pending
  BY DEF LInv, Linked
<1>2. Kinds'
  BY <1>1, Zenon DEF Kinds
<1>3. Grown
  BY <1>1, SameGrown
<1>4. Pending'
  BY <1>1, <1>2, <1>3, PendingKept
<1> QED BY <1>2, <1>3, <1>4, InsideLinked

LEMMA PassingLinked ==
    ASSUME LInv, IInv', RefuseImport \/ FailImport
    PROVE  Linked'
<1>1. Kinds /\ Pending
  BY DEF LInv, Linked
<1>2. /\ UNCHANGED <<text, open, functions, structs, code, is_go, result>>
      /\ frames' = NextItem(frames)
      /\ open = <<>> /\ Module.next \in DOMAIN Items /\ Item.kind = "imp"
  BY Zenon DEF RefuseImport, FailImport, AtItem
<1>3. Kinds'
  BY <1>1, <1>2, Zenon DEF Kinds
<1>4. Grown
  BY <1>1, <1>2, SameGrown
<1>5. Pending'
  BY <1>1, <1>2, <1>3, <1>4, PendingKept
<1> QED BY <1>2, <1>3, <1>4, <1>5, PassLinked

LEMMA DefineStructLinked ==
    ASSUME LInv, IInv', DefineStruct
    PROVE  Linked'
<1>1. IInv /\ Kinds /\ Pending
  BY DEF LInv, Linked
<1> DEFINE e == [name |-> [prefix |-> Module.prefix, name |-> Item.name],
                 fields |-> Item.fields, public |-> Item.public]
<1>2. /\ UNCHANGED <<text, open, functions, code, is_go, result>>
      /\ frames' = NextItem(frames)
      /\ open = <<>> /\ Module.next \in DOMAIN Items /\ Item.kind = "struct"
      /\ structs' = Append(structs, e)
  BY Zenon DEF DefineStruct, AtItem
<1>3. e \in StructEntry(text)
  <2>1. /\ Module.prefix \in Aliases(text) /\ Item.name \in Names(text)
        /\ Item.fields \in Sizes(text) /\ Item.public \in BOOLEAN
    BY <1>1, <1>2, ModuleFacts, ItemFacts
  <2> QED BY <2>1 DEF StructEntry, Qualified
<1> HIDE DEF e
<1>4. structs' \in Seq(StructEntry(text))
  BY <1>1, <1>2, <1>3 DEF Kinds
<1>5. Kinds'
  BY <1>1, <1>2, <1>4, Zenon DEF Kinds
<1>6. Grown
  BY <1>1, <1>2, SameGrown
<1>7. Pending'
  BY <1>1, <1>2, <1>5, <1>6, PendingKept
<1> QED BY <1>2, <1>5, <1>6, <1>7, PassLinked

\* Instructions at the end of the chunk.
LEMMA EmitFacts ==
    ASSUME NEW S, NEW chunk \in Seq(S), NEW e \in S
    PROVE  /\ Append(chunk, e) \in Seq(S)
           /\ Len(Append(chunk, e)) = Len(chunk) + 1
           /\ \A c \in 1 .. Len(chunk) : Append(chunk, e)[c] = chunk[c]
           /\ Append(chunk, e)[Len(chunk) + 1] = e
OBVIOUS

\* An instruction is one.
LEMMA InstructionTypes ==
    ASSUME NEW t, NEW op \in UseOps \cup {"jump", "entry", "ret", "halt"}, NEW addr \in Int,
           NEW means \in Meanings(t), NEW go \in BOOLEAN
    PROVE  /\ Instruction(op, addr, means, go) \in Instructions(t)
           /\ Instruction(op, addr, means, go).op = op
           /\ Instruction(op, addr, means, go).addr = addr
           /\ Instruction(op, addr, means, go).means = means
           /\ Instruction(op, addr, means, go).go = go
BY DEF Instruction, Instructions

LEMMA PlainTypes ==
    ASSUME NEW t, NEW op \in UseOps \cup {"jump", "entry", "ret", "halt"}, NEW addr \in Int
    PROVE  /\ Plain(op, addr) \in Instructions(t)
           /\ Plain(op, addr).op = op
           /\ Plain(op, addr).addr = addr
           /\ Plain(op, addr).means = Nothing
           /\ Plain(op, addr).go = FALSE
<1>1. Nothing \in Meanings(t)
  BY DEF Nothing, Meanings
<1> QED BY <1>1 DEF Plain, Instruction, Instructions

\* Steps that emit an instruction or none and change nothing else of LInv but
\* the result.
LEMMA EmitLinked ==
    ASSUME LInv, IInv', UNCHANGED <<text, frames, open, functions, structs, is_go>>,
           code' \in Seq(Instructions(text)), Len(code') >= Len(code),
           \A c \in 1 .. Len(code) : code'[c] = code[c],
           result' \in {"none", "chunk", "null"}
    PROVE  Linked'
<1>1. Kinds /\ Pending
  BY DEF LInv, Linked
<1>2. Kinds'
  BY <1>1, Zenon DEF Kinds
<1>3. Grown
  BY <1>1, Lengths DEF Grown
<1>4. Pending'
  BY <1>1, <1>2, <1>3, PendingKept
<1> QED BY <1>2, <1>3, <1>4, InsideLinked

LEMMA UseValueLinked ==
    ASSUME LInv, IInv', NEW u \in Functions, UseValue(u)
    PROVE  Linked'
<1> DEFINE i == Resolve(u)
           m == Meaning(u, "fun")
           e == IF IsFunction(i) THEN Instruction("value", functions[i].addr, m, FALSE)
                ELSE Instruction("native", 0, m, FALSE)
<1>1. /\ UNCHANGED <<text, frames, open, functions, structs, is_go, result>>
      /\ code' = Append(code, e)
  BY Zenon DEF UseValue
<1>2. IInv /\ Kinds
  BY DEF LInv, Linked
<1>3. m \in Meanings(text) /\ FALSE \in BOOLEAN
  BY <1>2, FunctionNames
<1>4. e \in Instructions(text)
  <2> HIDE DEF i, m
  <2>1. CASE IsFunction(i)
    <3>1. functions[i].addr \in Int
      BY <1>2, <2>1, Lengths DEF IsFunction, FunctionEntry
    <3>2. Instruction("value", functions[i].addr, m, FALSE) \in Instructions(text)
      BY <1>3, <3>1, InstructionTypes DEF UseOps
    <3> QED BY <2>1, <3>2
  <2>2. CASE ~IsFunction(i)
    <3>1. Instruction("native", 0, m, FALSE) \in Instructions(text)
      <4>1. "native" \in UseOps \cup {"jump", "entry", "ret", "halt"} /\ 0 \in Int
        BY DEF UseOps
      <4> QED BY <1>3, <4>1, InstructionTypes
    <3> QED BY <2>2, <3>1
  <2> QED BY <2>1, <2>2
<1> HIDE DEF e
<1>5. code \in Seq(Instructions(text)) /\ Len(code) \in Nat
      /\ result' \in {"none", "chunk", "null"}
  BY <1>1, <1>2 DEF Kinds
<1>6. /\ code' \in Seq(Instructions(text)) /\ Len(code') >= Len(code)
      /\ \A c \in 1 .. Len(code) : code'[c] = code[c]
  BY <1>1, <1>4, <1>5, EmitFacts
<1> QED BY <1>1, <1>5, <1>6, EmitLinked

LEMMA InstantiateLinked ==
    ASSUME LInv, IInv', NEW u, Instantiate(u)
    PROVE  Linked'
<1> DEFINE e == Plain("struct", 0)
<1>1. /\ UNCHANGED <<text, frames, open, functions, structs, is_go, result>>
      /\ code' = code \/ code' = Append(code, e)
  BY Zenon DEF Instantiate
<1>2. Kinds
  BY DEF LInv, Linked
<1>3. e \in Instructions(text)
  <2>1. "struct" \in UseOps \cup {"jump", "entry", "ret", "halt"} /\ 0 \in Int
    BY DEF UseOps
  <2> QED BY <2>1, PlainTypes
<1> HIDE DEF e
<1>4. code \in Seq(Instructions(text)) /\ Len(code) \in Nat
      /\ result' \in {"none", "chunk", "null"}
  BY <1>1, <1>2 DEF Kinds
<1>5. /\ code' \in Seq(Instructions(text)) /\ Len(code') >= Len(code)
      /\ \A c \in 1 .. Len(code) : code'[c] = code[c]
  BY <1>1, <1>3, <1>4, EmitFacts
<1> QED BY <1>1, <1>4, <1>5, EmitLinked

LEMMA FinishLinked ==
    ASSUME LInv, IInv', Finish
    PROVE  Linked'
<1> DEFINE i == Find(functions, [prefix |-> NULL, name |-> "main"])
           m == [file |-> Main, name |-> "main"]
           e == Instruction("call", functions[i].addr, m, FALSE)
           h == Plain("halt", 0)
<1>1. /\ UNCHANGED <<text, frames, open, functions, structs, is_go>>
      /\ code' = code \o (IF i = 0 THEN <<>> ELSE <<e>>) \o <<h>>
      /\ result' \in {"chunk", "null"}
  BY Zenon DEF Finish
<1>2. IInv /\ Kinds
  BY DEF LInv, Linked
<1>3. h \in Instructions(text)
  <2>1. "halt" \in UseOps \cup {"jump", "entry", "ret", "halt"} /\ 0 \in Int
    OBVIOUS
  <2> QED BY <2>1, PlainTypes
<1>4. i # 0 => e \in Instructions(text)
  <2> SUFFICES ASSUME i # 0 PROVE e \in Instructions(text)
    OBVIOUS
  <2>1. functions \in Seq(FunctionEntry(text))
    BY <1>2 DEF Kinds
  <2>2. i \in 1 .. Len(functions) /\ functions[i].name = [prefix |-> NULL, name |-> "main"]
    BY <2>1, FindFacts
  <2> HIDE DEF i
  <2>3. functions[i] \in FunctionEntry(text)
    BY <1>2, <2>2, Lengths
  <2>4. functions[i].addr \in Int /\ "main" \in Names(text)
    BY <2>2, <2>3 DEF FunctionEntry, Qualified
  <2>5. m \in Meanings(text) /\ FALSE \in BOOLEAN
    BY <1>2, <2>4, ModulesAssumption DEF Meanings, IInv, Typed
  <2> HIDE DEF m
  <2> QED BY <2>4, <2>5, InstructionTypes DEF UseOps
<1> HIDE DEF e, h, i
<1>5. code \in Seq(Instructions(text)) /\ Len(code) \in Nat
      /\ result' \in {"none", "chunk", "null"}
  BY <1>1, <1>2 DEF Kinds
<1>6. /\ code' \in Seq(Instructions(text)) /\ Len(code') >= Len(code)
      /\ \A c \in 1 .. Len(code) : code'[c] = code[c]
  <2>1. CASE i = 0
    BY <1>1, <1>3, <1>5, <2>1
  <2>2. CASE i # 0
    BY <1>1, <1>3, <1>4, <1>5, <2>2
  <2> QED BY <2>1, <2>2
<1> QED BY <1>1, <1>5, <1>6, EmitLinked

\* Steps that open a call or a function without a name.
LEMMA OpenLinked ==
    ASSUME LInv, IInv', UNCHANGED <<text, frames, functions, structs, result>>,
           open # <<>>, NEW o \in Opens(text), open' = Append(open, o),
           code' \in Seq(Instructions(text)), Len(code') >= Len(code),
           \A c \in 1 .. Len(code) : code'[c] = code[c],
           is_go' \in BOOLEAN,
           IsOpened(o, Len(open) + 1, functions, code')
    PROVE  Linked'
<1>1. Kinds /\ Pending
  BY DEF LInv, Linked
<1>2. /\ open' \in Seq(Opens(text)) /\ Len(open') = Len(open) + 1
      /\ \A i \in 1 .. Len(open) : open'[i] = open[i]
      /\ open'[Len(open) + 1] = o
      /\ Len(open) \in Nat /\ Len(open) >= 1
  <2>1. open \in Seq(Opens(text))
    BY <1>1 DEF Kinds
  <2> QED BY <2>1
<1>3. Kinds'
  BY <1>1, <1>2, Zenon DEF Kinds
<1>4. Grown
  BY <1>1, Lengths DEF Grown
<1>5. Pending'
  BY <1>1, <1>3, <1>4, PendingKept
<1>6. ASSUME NEW i \in 1 .. Len(open')
      PROVE  \/ i \in 1 .. Len(open) /\ open'[i] = open[i]
             \/ IsOpened(open'[i], i, functions', code')
  <2>1. CASE i \in 1 .. Len(open)
    BY <1>2, <2>1
  <2>2. CASE i = Len(open) + 1
    BY <1>2, <2>2
  <2> QED BY <1>2, <2>1, <2>2
<1>7. open'[1] = open[1]
  BY <1>2
<1> QED BY <1>3, <1>4, <1>5, <1>6, <1>7, InsideLinked

LEMMA BeginCallLinked ==
    ASSUME LInv, IInv', NEW u \in Functions, NEW go \in BOOLEAN, open # <<>>,
           BeginCall(u, go)
    PROVE  Linked'
<1> DEFINE i == Resolve(u)
           m == Meaning(u, "fun")
           o == [kind |-> "call", func |-> i, means |-> m, go |-> go]
<1>1. /\ UNCHANGED <<text, frames, functions, structs, code, result>>
      /\ open' = Append(open, o) /\ is_go' = is_go /\ i # 0
  BY Zenon DEF BeginCall, OpenCall
<1>2. IInv /\ Kinds
  BY DEF LInv, Linked
<1>3. m \in Meanings(text) /\ m.name = u.name /\ u = [prefix |-> u.prefix, name |-> u.name]
  BY <1>2, FunctionNames
<1>4. functions \in Seq(FunctionEntry(text))
  BY <1>2 DEF Kinds
<1>5. \/ i = NativeIndex
      \/ i \in 1 .. Len(functions) /\ functions[i].name.name = u.name
  BY <1>1, <1>2, <1>3, <1>4, ResolveFacts
<1> HIDE DEF i, m
<1>6. i \in Int
  BY <1>5 DEF NativeIndex
<1>7. o \in Opens(text) /\ o.kind = "call" /\ o.func = i /\ o.means = m
  BY <1>3, <1>6 DEF Calls, Opens
<1> HIDE DEF o
<1>8. IsOpened(o, Len(open) + 1, functions, code')
  BY <1>3, <1>5, <1>7 DEF IsOpened
<1>9. is_go' \in BOOLEAN
  BY <1>1, <1>2 DEF Kinds
<1>10. /\ code' \in Seq(Instructions(text)) /\ Len(code') >= Len(code)
       /\ \A c \in 1 .. Len(code) : code'[c] = code[c]
  BY <1>1, <1>2, Lengths DEF Kinds
<1> QED BY <1>1, <1>7, <1>8, <1>9, <1>10, OpenLinked

LEMMA BeginValueCallLinked ==
    ASSUME LInv, IInv', NEW go \in BOOLEAN, open # <<>>, BeginValueCall(go)
    PROVE  Linked'
<1> DEFINE o == [kind |-> "call", func |-> ValueIndex, means |-> Nothing, go |-> go]
<1>1. /\ UNCHANGED <<text, frames, functions, structs, code, result>>
      /\ open' = Append(open, o) /\ is_go' = is_go
  BY Zenon DEF BeginValueCall, OpenCall
<1>2. Kinds
  BY DEF LInv, Linked
<1>3. o \in Opens(text) /\ o.kind = "call" /\ o.func = ValueIndex
  <2>1. Nothing \in Meanings(text) /\ ValueIndex \in Int
    BY DEF Nothing, Meanings, ValueIndex
  <2> QED BY <2>1 DEF Calls, Opens
<1> HIDE DEF o
<1>4. IsOpened(o, Len(open) + 1, functions, code')
  BY <1>3 DEF IsOpened
<1>5. is_go' \in BOOLEAN
  BY <1>1, <1>2 DEF Kinds
<1>6. /\ code' \in Seq(Instructions(text)) /\ Len(code') >= Len(code)
      /\ \A c \in 1 .. Len(code) : code'[c] = code[c]
  BY <1>1, <1>2, Lengths DEF Kinds
<1> QED BY <1>1, <1>3, <1>4, <1>5, <1>6, OpenLinked

\* Two instructions at the end of the chunk.
LEMMA EmitTwoFacts ==
    ASSUME NEW S, NEW chunk \in Seq(S), NEW a \in S, NEW b \in S
    PROVE  /\ chunk \o <<a, b>> \in Seq(S)
           /\ Len(chunk \o <<a, b>>) = Len(chunk) + 2
           /\ \A c \in 1 .. Len(chunk) : (chunk \o <<a, b>>)[c] = chunk[c]
           /\ (chunk \o <<a, b>>)[Len(chunk) + 1] = a
           /\ (chunk \o <<a, b>>)[Len(chunk) + 2] = b
OBVIOUS

LEMMA BeginLambdaLinked ==
    ASSUME LInv, IInv', BeginLambda
    PROVE  Linked'
<1> DEFINE j == Plain("jump", Unknown)
           e == Plain("entry", Len(code) + 2)
           o == [kind |-> "body", func |-> 0, jump |-> Len(code) + 1]
<1>1. /\ UNCHANGED <<text, frames, functions, structs, is_go, result>>
      /\ open # <<>> /\ open' = Append(open, o) /\ code' = code \o <<j, e>>
  BY Zenon DEF BeginLambda, InBody
<1>2. Kinds
  BY DEF LInv, Linked
<1>3. code \in Seq(Instructions(text)) /\ Len(code) \in Nat /\ is_go \in BOOLEAN
  BY <1>2 DEF Kinds
<1>4. j \in Instructions(text) /\ j.op = "jump" /\ e \in Instructions(text)
  <2>1. /\ {"jump", "entry"} \subseteq UseOps \cup {"jump", "entry", "ret", "halt"}
        /\ Unknown \in Int /\ Len(code) + 2 \in Int
    BY <1>3 DEF Unknown
  <2> QED BY <2>1, PlainTypes
<1>5. o \in Opens(text) /\ o.kind = "body" /\ o.func = 0 /\ o.jump = Len(code) + 1
  BY <1>3 DEF Bodies, Opens
<1> HIDE DEF j, e, o
<1>6. /\ code' \in Seq(Instructions(text)) /\ Len(code') = Len(code) + 2
      /\ \A c \in 1 .. Len(code) : code'[c] = code[c]
      /\ code'[Len(code) + 1] = j
  BY <1>1, <1>3, <1>4, EmitTwoFacts
<1>7. IsOpened(o, Len(open) + 1, functions, code')
  <2>1. Len(code) + 1 \in 1 .. Len(code')
    BY <1>3, <1>6
  <2> QED BY <1>4, <1>5, <1>6, <2>1 DEF IsOpened
<1>8. Len(code') >= Len(code) /\ is_go' \in BOOLEAN
  BY <1>1, <1>3, <1>6
<1> QED BY <1>1, <1>5, <1>6, <1>7, <1>8, OpenLinked

\* Without the last.
LEMMA FrontFacts ==
    ASSUME NEW S, NEW s \in Seq(S), s # <<>>
    PROVE  /\ Front(s) \in Seq(S) /\ Len(Front(s)) = Len(s) - 1
           /\ \A i \in 1 .. Len(s) - 1 : Front(s)[i] = s[i]
           /\ Len(s) \in 1 .. Len(s) /\ Last(s) = s[Len(s)]
           /\ Front(s) # <<>> => Len(s) > 1 /\ Front(s)[1] = s[1]
<1>1. Front(s) = SubSeq(s, 1, Len(s) - 1) /\ Last(s) = s[Len(s)]
  BY DEF Front, Last
<1>2. Len(s) \in Nat /\ Len(s) >= 1 /\ Len(s) \in 1 .. Len(s)
  OBVIOUS
<1>3. /\ Front(s) \in Seq(S) /\ Len(Front(s)) = Len(s) - 1
      /\ \A i \in 1 .. Len(s) - 1 : Front(s)[i] = s[i]
  <2> DEFINE n == Len(s) - 1
  <2>1. n \in Nat /\ n <= Len(s)
    BY <1>2
  <2>2. \A i \in 1 .. n : s[i] \in S
    BY <1>2
  <2>3. /\ SubSeq(s, 1, n) \in Seq(S) /\ Len(SubSeq(s, 1, n)) = n
        /\ \A i \in 1 .. n : SubSeq(s, 1, n)[i] = s[i]
    <3> HIDE DEF n
    <3> QED BY <2>1, <2>2
  <2> QED BY <1>1, <2>3
<1>4. Front(s) # <<>> => Len(Front(s)) # 0
  BY <1>3
<1>5. ASSUME Front(s) # <<>>
      PROVE  Len(s) > 1 /\ Front(s)[1] = s[1]
  <2>1. Len(s) - 1 # 0 /\ 1 \in 1 .. Len(s) - 1
    BY <1>2, <1>3, <1>4, <1>5
  <2> QED BY <1>2, <1>3, <2>1
<1> QED BY <1>1, <1>2, <1>3, <1>5

\* Steps that close a call or a function without a name.
LEMMA CloseLinked ==
    ASSUME LInv, IInv', Kinds', Pending', Grown,
           frames' = frames, open # <<>>, open' = Front(open),
           Len(functions') = Len(functions),
           \A i \in 1 .. Len(functions) : functions'[i].addr = functions[i].addr
    PROVE  Linked'
<1>1. open \in Seq(Opens(text)) /\ Len(open) \in Nat
  BY DEF LInv, Linked, Kinds
<1>2. /\ Len(open') = Len(open) - 1
      /\ \A i \in 1 .. Len(open) - 1 : open'[i] = open[i]
      /\ open' # <<>> => open'[1] = open[1]
  BY <1>1, FrontFacts
<1>3. \A i \in 1 .. Len(open') : i \in 1 .. Len(open) /\ open'[i] = open[i]
  BY <1>1, <1>2
<1> QED BY <1>2, <1>3, InsideLinked

\* The expression of a go statement begins behind an instruction.
LEMMA BeginGoLinked ==
    ASSUME LInv, IInv', BeginGo
    PROVE  Linked'
<1> DEFINE o == [kind |-> "go", begun |-> Len(code)]
<1>1. /\ UNCHANGED <<text, frames, functions, structs, code, result>>
      /\ open # <<>> /\ open' = Append(open, o) /\ is_go' = TRUE
  BY Zenon DEF BeginGo, InBody
<1>2. Kinds /\ InFunction /\ Opened
  BY DEF LInv, Linked
<1>3. Len(code) \in 1 .. Len(code)
  <2>1. open \in Seq(Opens(text)) /\ Len(code) \in Nat
    BY <1>2, Lengths DEF Kinds
  <2>2. 1 \in 1 .. Len(open) /\ open[1].kind = "body"
    BY <1>1, <1>2, <2>1 DEF InFunction
  <2>3. IsOpened(open[1], 1, functions, code)
    BY <1>2, <2>2 DEF Opened
  <2>4. open[1].jump \in 1 .. Len(code)
    BY <2>2, <2>3 DEF IsOpened
  <2> QED BY <2>1, <2>4
<1>4. o \in Opens(text) /\ o.kind = "go" /\ o.begun = Len(code)
  <2>1. Len(code) \in Nat
    BY <1>2, Lengths
  <2> QED BY <2>1 DEF Gos, Opens
<1> HIDE DEF o
<1>5. IsOpened(o, Len(open) + 1, functions, code')
  BY <1>1, <1>3, <1>4 DEF IsOpened
<1>6. /\ code' \in Seq(Instructions(text)) /\ Len(code') >= Len(code)
      /\ \A c \in 1 .. Len(code) : code'[c] = code[c]
  BY <1>1, <1>2, Lengths DEF Kinds
<1>7. is_go' \in BOOLEAN
  BY <1>1, Zenon
<1> QED BY <1>1, <1>4, <1>5, <1>6, <1>7, OpenLinked

\* What the end of a go statement leaves open.
LEMMA EndGoFacts ==
    ASSUME Kinds, EndGo
    PROVE  /\ UNCHANGED <<text, frames, functions, structs, code, compilation_stack,
                          had_error, mistakes, result>>
           /\ open # <<>> /\ Last(open).kind = "go" /\ open' = Front(open) /\ is_go' = FALSE
           /\ Len(open) \in 1 .. Len(open) /\ Last(open) = open[Len(open)]
           /\ open' \in Seq(Opens(text)) /\ Len(open') = Len(open) - 1
           /\ \A i \in 1 .. Len(open') : i \in 1 .. Len(open) /\ open'[i] = open[i]
<1>1. /\ UNCHANGED <<text, frames, functions, structs, code, compilation_stack,
                     had_error, mistakes, result>>
      /\ open # <<>> /\ Last(open).kind = "go" /\ open' = Front(open) /\ is_go' = FALSE
  BY Zenon DEF EndGo
<1>2. open \in Seq(Opens(text)) /\ Len(open) \in Nat
  BY Lengths DEF Kinds
<1>3. /\ open' \in Seq(Opens(text)) /\ Len(open') = Len(open) - 1
      /\ Len(open) \in 1 .. Len(open) /\ Last(open) = open[Len(open)]
      /\ \A i \in 1 .. Len(open) - 1 : open'[i] = open[i]
  BY <1>1, <1>2, FrontFacts
<1>4. \A i \in 1 .. Len(open') : i \in 1 .. Len(open) /\ open'[i] = open[i]
  BY <1>2, <1>3
<1> QED BY <1>1, <1>3, <1>4

LEMMA EndGoLinked ==
    ASSUME LInv, IInv', EndGo
    PROVE  Linked'
<1>1. Kinds /\ Pending
  BY DEF LInv, Linked
<1>2. /\ UNCHANGED <<text, frames, functions, structs, code, result>>
      /\ open # <<>> /\ open' = Front(open) /\ is_go' = FALSE
      /\ open' \in Seq(Opens(text))
  BY <1>1, EndGoFacts
<1>3. Kinds'
  BY <1>1, <1>2, Zenon DEF Kinds
<1>4. Grown
  BY <1>1, <1>2, SameGrown
<1>5. Pending'
  BY <1>1, <1>2, <1>3, <1>4, PendingKept
<1> QED BY <1>2, <1>3, <1>4, <1>5, CloseLinked

\* The call under way.
LEMMA LastCallFacts ==
    ASSUME LInv, open # <<>>, Last(open).kind = "call"
    PROVE  /\ Last(open) = open[Len(open)] /\ Len(open) \in 1 .. Len(open)
           /\ Last(open) \in Calls(text)
           /\ \/ Last(open).func \in {NativeIndex, ValueIndex}
              \/ /\ Last(open).func \in 1 .. Len(functions)
                 /\ functions[Last(open).func].name.name = Last(open).means.name
           /\ IsFunction(Last(open).func) <=> Last(open).func \in 1 .. Len(functions)
           /\ ~IsFunction(NativeIndex) /\ ~IsFunction(ValueIndex)
<1>1. Kinds /\ Opened
  BY DEF LInv, Linked
<1>2. open \in Seq(Opens(text))
  BY <1>1 DEF Kinds
<1>3. Last(open) = open[Len(open)] /\ Len(open) \in 1 .. Len(open)
  BY <1>2, FrontFacts
<1>4. Last(open) \in Calls(text)
  <2>1. open[Len(open)] \in Opens(text)
    BY <1>2, <1>3
  <2> QED BY <1>3, <2>1 DEF Bodies, Gos, Opens
<1>5. IsOpened(Last(open), Len(open), functions, code)
  BY <1>1, <1>3 DEF Opened
<1>6. \/ Last(open).func \in {NativeIndex, ValueIndex}
      \/ /\ Last(open).func \in 1 .. Len(functions)
         /\ functions[Last(open).func].name.name = Last(open).means.name
  BY <1>5 DEF IsOpened
<1>7. IsFunction(Last(open).func) <=> Last(open).func \in 1 .. Len(functions)
  BY <1>1, Lengths DEF IsFunction
<1>8. ~IsFunction(NativeIndex) /\ ~IsFunction(ValueIndex)
  BY <1>1, Lengths DEF IsFunction, NativeIndex, ValueIndex
<1> QED BY <1>3, <1>4, <1>6, <1>7, <1>8

\* What the end of a call does to the table of functions.
LEMMA RememberFacts ==
    ASSUME Kinds, NEW i \in 1 .. Len(functions), Remember(i, Len(code) + 1)
    PROVE  /\ functions' \in Seq(FunctionEntry(text)) /\ Len(functions') = Len(functions)
           /\ \A l \in 1 .. Len(functions) :
                /\ l # i => functions'[l] = functions[l]
                /\ functions'[l].name = functions[l].name
                /\ functions'[l].addr = functions[l].addr
                /\ functions'[l].public = functions[l].public
                /\ functions'[l].known = functions[l].known
           /\ \/ /\ functions'[i].pending = functions[i].pending
                 /\ functions[i].addr = Unknown => Len(functions[i].pending) >= MaxPatches
              \/ /\ functions[i].addr = Unknown
                 /\ Len(functions[i].pending) < MaxPatches
                 /\ functions'[i].pending = Append(functions[i].pending, Len(code) + 1)
<1> DEFINE e == [functions[i] EXCEPT !.pending = Append(@, Len(code) + 1)]
           Room == functions[i].addr = Unknown /\ Len(functions[i].pending) < MaxPatches
<1>1. functions \in Seq(FunctionEntry(text)) /\ functions[i] \in FunctionEntry(text)
  BY DEF Kinds
<1>2. Len(code) + 1 \in Nat
  BY Lengths
<1>3. CASE ~Room
  <2>1. functions' = functions
    BY <1>3 DEF Remember
  <2>2. functions[i].addr = Unknown => Len(functions[i].pending) >= MaxPatches
    <3>1. functions[i].pending \in Seq(Nat)
      BY <1>1 DEF FunctionEntry
    <3>2. Len(functions[i].pending) \in Nat
      BY <3>1
    <3> QED BY <1>3, <3>2, ModulesAssumption
  <2> QED BY <1>1, <2>1, <2>2
<1>4. CASE Room
  <2>1. functions' = [functions EXCEPT ![i].pending = Append(@, Len(code) + 1)]
    BY <1>4 DEF Remember
  <2>2. functions' = [functions EXCEPT ![i] = e]
    BY <1>1, <2>1
  <2>3. /\ e \in FunctionEntry(text) /\ e.name = functions[i].name
        /\ e.addr = functions[i].addr /\ e.public = functions[i].public
        /\ e.known = functions[i].known
        /\ e.pending = Append(functions[i].pending, Len(code) + 1)
    <3>1. functions[i].pending \in Seq(Nat)
      BY <1>1 DEF FunctionEntry
    <3>2. Append(functions[i].pending, Len(code) + 1) \in Seq(Nat)
      BY <1>2, <3>1
    <3> QED BY <1>1, <3>2 DEF FunctionEntry
  <2> HIDE DEF e
  <2>4. /\ functions' \in Seq(FunctionEntry(text)) /\ Len(functions') = Len(functions)
        /\ \A l \in 1 .. Len(functions) : functions'[l] = IF l = i THEN e ELSE functions[l]
    BY <1>1, <2>2, <2>3
  <2> QED BY <1>4, <2>3, <2>4
<1> QED BY <1>3, <1>4

\* The instruction of a call.
CallOp(call) ==
    IF is_go THEN "go" ELSE IF IsFunction(call.func) THEN "call"
    ELSE IF call.func = NativeIndex THEN "native" ELSE "invoke"
CallAddr(call) == IF IsFunction(call.func) THEN functions[call.func].addr ELSE 0
Emitted(call) == Instruction(CallOp(call), CallAddr(call), call.means, call.go)

LEMMA EmittedFacts ==
    ASSUME Kinds, NEW call \in Calls(text)
    PROVE  /\ CallOp(call) \in {"go", "call", "native", "invoke"}
           /\ CallOp(call) = "call" => call.func \in 1 .. Len(functions)
           /\ CallAddr(call) \in Int
           /\ Emitted(call) \in Instructions(text)
           /\ Emitted(call).op = CallOp(call) /\ Emitted(call).addr = CallAddr(call)
           /\ Emitted(call).means = call.means /\ Emitted(call).go = call.go
<1>1. call.means \in Meanings(text) /\ call.go \in BOOLEAN
  BY DEF Calls
<1>2. IsFunction(call.func) <=> call.func \in 1 .. Len(functions)
  BY Lengths DEF IsFunction
<1>3. CallOp(call) \in {"go", "call", "native", "invoke"}
  BY DEF CallOp
<1>4. CallOp(call) = "call" => call.func \in 1 .. Len(functions)
  BY <1>2 DEF CallOp
<1>5. CallAddr(call) \in Int
  <2>1. CASE IsFunction(call.func)
    BY <1>2, <2>1, Lengths DEF FunctionEntry, CallAddr
  <2>2. CASE ~IsFunction(call.func)
    BY <2>2 DEF CallAddr
  <2> QED BY <2>1, <2>2
<1> DEFINE op == CallOp(call)
           addr == CallAddr(call)
<1>6. op \in UseOps \cup {"jump", "entry", "ret", "halt"} /\ addr \in Int
  BY <1>3, <1>5 DEF UseOps
<1>7. Emitted(call) = Instruction(op, addr, call.means, call.go)
  BY DEF Emitted
<1> HIDE DEF op, addr
<1>8. /\ Emitted(call) \in Instructions(text)
      /\ Emitted(call).op = op /\ Emitted(call).addr = addr
      /\ Emitted(call).means = call.means /\ Emitted(call).go = call.go
  BY <1>1, <1>6, <1>7 DEF Instruction, Instructions
<1> QED BY <1>3, <1>4, <1>5, <1>8 DEF op, addr

\* What the end of a call does.
LEMMA EndCallFacts ==
    ASSUME EndCall
    PROVE  /\ open # <<>> /\ Last(open).kind = "call" /\ open' = Front(open)
           /\ UNCHANGED <<text, frames, structs, result>>
           /\ code' = Append(code, Emitted(Last(open)))
           /\ CallOp(Last(open)) = "call" => Remember(Last(open).func, Len(code) + 1)
           /\ CallOp(Last(open)) # "call" => functions' = functions
           /\ is_go' = is_go
           /\ Report(IsFunction(Last(open).func) /\ ~functions[Last(open).func].known,
                     IsFunction(Last(open).func) /\ IsUntyped(Last(open).means))
BY Zenon DEF EndCall, CallOp, CallAddr, Emitted

LEMMA EndCallLinked ==
    ASSUME LInv, IInv', EndCall
    PROVE  Linked'
<1> DEFINE call == Last(open)
           i == call.func
           e == Emitted(call)
           n == Len(code) + 1
<1>1. IInv /\ Kinds /\ Pending
  BY DEF LInv, Linked
<1>2. /\ open # <<>> /\ call.kind = "call" /\ open' = Front(open)
      /\ UNCHANGED <<text, frames, structs, result>>
      /\ code' = Append(code, e)
      /\ CallOp(call) = "call" => Remember(i, n)
      /\ CallOp(call) # "call" => functions' = functions
      /\ is_go' = is_go
  BY EndCallFacts
<1>3. call \in Calls(text)
  BY <1>2, LastCallFacts
<1>4. is_go' \in BOOLEAN
  BY <1>1, <1>2 DEF Kinds
<1>5. e \in Instructions(text) /\ e.op = CallOp(call)
      /\ (CallOp(call) = "call" => i \in 1 .. Len(functions))
  <2> HIDE DEF call
  <2> QED BY <1>1, <1>3, EmittedFacts
<1> HIDE DEF call, i, e
<1>6. /\ code \in Seq(Instructions(text)) /\ Len(code) \in Nat
      /\ functions \in Seq(FunctionEntry(text)) /\ Distinct(functions)
      /\ open \in Seq(Opens(text))
      /\ result \in {"none", "chunk", "null"} /\ structs \in Seq(StructEntry(text))
  BY <1>1 DEF Kinds
<1>7. /\ code' \in Seq(Instructions(text)) /\ Len(code') = n
      /\ \A c \in 1 .. Len(code) : code'[c] = code[c]
      /\ code'[n] = e
  BY <1>2, <1>5, <1>6, EmitFacts
<1>8. open' \in Seq(Opens(text))
  BY <1>2, <1>6, FrontFacts
<1>9. /\ functions' \in Seq(FunctionEntry(text)) /\ Len(functions') = Len(functions)
      /\ \A l \in 1 .. Len(functions) :
            /\ functions'[l].name = functions[l].name
            /\ functions'[l].addr = functions[l].addr
            /\ \/ functions'[l].pending = functions[l].pending
               \/ /\ CallOp(call) = "call"
                  /\ functions[l].addr = Unknown
                  /\ Len(functions[l].pending) < MaxPatches
                  /\ functions'[l].pending = Append(functions[l].pending, n)
  <2>1. CASE CallOp(call) = "call"
    <3>1. i \in 1 .. Len(functions) /\ Remember(i, Len(code) + 1)
      BY <1>2, <1>5, <2>1
    <3>2. /\ functions' \in Seq(FunctionEntry(text)) /\ Len(functions') = Len(functions)
          /\ \A l \in 1 .. Len(functions) :
                /\ l # i => functions'[l] = functions[l]
                /\ functions'[l].name = functions[l].name
                /\ functions'[l].addr = functions[l].addr
          /\ \/ functions'[i].pending = functions[i].pending
             \/ /\ functions[i].addr = Unknown
                /\ Len(functions[i].pending) < MaxPatches
                /\ functions'[i].pending = Append(functions[i].pending, Len(code) + 1)
      BY <1>1, <3>1, RememberFacts
    <3> QED BY <2>1, <3>2
  <2>2. CASE CallOp(call) # "call"
    BY <1>2, <1>6, <2>2
  <2> QED BY <2>1, <2>2
<1>10. Distinct(functions')
  BY <1>6, <1>9 DEF Distinct
<1>11. Kinds'
  BY <1>2, <1>4, <1>6, <1>7, <1>8, <1>9, <1>10, Zenon DEF Kinds
<1>12. Grown
  BY <1>2, <1>6, <1>7, <1>9 DEF Grown
<1>13. Pending'
  <2> SUFFICES ASSUME NEW l \in 1 .. Len(functions')
               PROVE  /\ functions'[l].addr # Unknown =>
                            /\ functions'[l].addr \in 1 .. Len(code')
                            /\ functions'[l].pending = <<>>
                      /\ Len(functions'[l].pending) <= MaxPatches
                      /\ \A k \in 1 .. Len(functions'[l].pending) :
                            /\ functions'[l].pending[k] \in 1 .. Len(code')
                            /\ code'[functions'[l].pending[k]].op = "call"
    BY DEF Pending
  <2>1. l \in 1 .. Len(functions)
    BY <1>9
  <2>2. /\ functions[l].addr # Unknown =>
                functions[l].addr \in 1 .. Len(code) /\ functions[l].pending = <<>>
        /\ Len(functions[l].pending) <= MaxPatches
        /\ \A k \in 1 .. Len(functions[l].pending) :
            /\ functions[l].pending[k] \in 1 .. Len(code)
            /\ code[functions[l].pending[k]].op = "call"
    BY <1>1, <2>1 DEF Pending
  <2>3. \A c \in 1 .. Len(code) : c \in 1 .. Len(code') /\ code'[c] = code[c]
    BY <1>6, <1>7
  <2>4. functions'[l].addr = functions[l].addr
    BY <1>9, <2>1
  <2>5. CASE functions'[l].pending = functions[l].pending
    BY <2>2, <2>3, <2>4, <2>5
  <2>6. CASE /\ CallOp(call) = "call"
             /\ functions[l].addr = Unknown
             /\ Len(functions[l].pending) < MaxPatches
             /\ functions'[l].pending = Append(functions[l].pending, n)
    <3> DEFINE p == functions[l].pending
               q == functions'[l].pending
    <3>1. p \in Seq(Nat) /\ n \in Nat
      <4>1. functions[l] \in FunctionEntry(text)
        BY <1>6, <2>1
      <4> QED BY <1>6, <4>1, SMTT(30) DEF FunctionEntry
    <3>2. q = Append(p, n)
      BY <2>6
    <3> HIDE DEF p, q
    <3>3. /\ Len(q) = Len(p) + 1 /\ \A k \in 1 .. Len(p) : q[k] = p[k]
          /\ q[Len(p) + 1] = n /\ Len(p) \in Nat
      BY <3>1, <3>2
    <3>4. \A k \in 1 .. Len(q) : k \in 1 .. Len(p) \/ k = Len(p) + 1
      BY <3>3
    <3>5. n \in 1 .. Len(code') /\ code'[n].op = "call"
      BY <1>5, <1>6, <1>7, <2>6
    <3>6. \A k \in 1 .. Len(p) : p[k] \in 1 .. Len(code) /\ code[p[k]].op = "call"
      BY <2>2 DEF p
    <3>7. \A k \in 1 .. Len(q) : q[k] \in 1 .. Len(code') /\ code'[q[k]].op = "call"
      BY <2>3, <3>3, <3>4, <3>5, <3>6
    <3>8. Len(q) <= MaxPatches
      <4>1. Len(p) < MaxPatches
        BY <2>6 DEF p
      <4> QED BY <3>3, <4>1, ModulesAssumption
    <3> QED BY <2>4, <2>6, <3>7, <3>8 DEF q
  <2> QED BY <1>9, <2>1, <2>5, <2>6
<1>14. \A l \in 1 .. Len(functions) : functions'[l].addr = functions[l].addr
  BY <1>9
<1> QED BY <1>2, <1>9, <1>11, <1>12, <1>13, <1>14, CloseLinked

\* Patching changes addresses only.
LEMMA PatchFacts ==
    ASSUME NEW t, NEW chunk \in Seq(Instructions(t)), NEW places, NEW addr \in Int
    PROVE  /\ Patch(chunk, places, addr) \in Seq(Instructions(t))
           /\ Len(Patch(chunk, places, addr)) = Len(chunk)
           /\ \A c \in 1 .. Len(chunk) :
                /\ Patch(chunk, places, addr)[c].op = chunk[c].op
                /\ Patch(chunk, places, addr)[c].means = chunk[c].means
                /\ Patch(chunk, places, addr)[c].go = chunk[c].go
                /\ c \in places => Patch(chunk, places, addr)[c].addr = addr
                /\ c \notin places => Patch(chunk, places, addr)[c] = chunk[c]
<1> DEFINE e(c) == IF c \in places THEN [chunk[c] EXCEPT !.addr = addr] ELSE chunk[c]
<1>1. Len(chunk) \in Nat /\ DOMAIN chunk = 1 .. Len(chunk)
  OBVIOUS
<1>2. ASSUME NEW c \in 1 .. Len(chunk)
      PROVE  /\ e(c) \in Instructions(t)
             /\ e(c).op = chunk[c].op /\ e(c).means = chunk[c].means /\ e(c).go = chunk[c].go
             /\ c \in places => e(c).addr = addr
             /\ c \notin places => e(c) = chunk[c]
  <2>1. chunk[c] \in Instructions(t)
    OBVIOUS
  <2> QED BY <2>1 DEF Instructions
<1>3. Patch(chunk, places, addr) = [c \in 1 .. Len(chunk) |-> e(c)]
  BY <1>1 DEF Patch
<1> HIDE DEF e
<1>4. Patch(chunk, places, addr) \in Seq(Instructions(t))
  BY <1>1, <1>2, <1>3
<1>5. Len(Patch(chunk, places, addr)) = Len(chunk)
  BY <1>1, <1>3
<1> QED BY <1>2, <1>3, <1>4, <1>5

\* The body under way.
LEMMA LastBodyFacts ==
    ASSUME LInv, open # <<>>, Last(open).kind = "body"
    PROVE  /\ Last(open) = open[Len(open)] /\ Len(open) \in 1 .. Len(open)
           /\ Last(open).jump \in 1 .. Len(code) /\ code[Last(open).jump].op = "jump"
           /\ Last(open).func # 0 => /\ Len(open) = 1
                                     /\ Last(open).func \in 1 .. Len(functions)
                                     /\ functions[Last(open).func].name =
                                            [prefix |-> Module.prefix, name |-> Item.name]
                                     /\ functions[Last(open).func].addr # Unknown
           /\ Last(open).func = 0 => Len(open) > 1
           /\ Module.next \in DOMAIN Items /\ Item.kind = "fun"
<1>1. Kinds /\ Opened /\ InFunction
  BY DEF LInv, Linked
<1>2. open \in Seq(Opens(text)) /\ Len(functions) \in Nat
  BY <1>1 DEF Kinds
<1>3. Last(open) = open[Len(open)] /\ Len(open) \in 1 .. Len(open)
  BY <1>2, FrontFacts
<1>4. IsOpened(Last(open), Len(open), functions, code)
  BY <1>1, <1>3 DEF Opened
<1>5. /\ Last(open).jump \in 1 .. Len(code) /\ code[Last(open).jump].op = "jump"
      /\ Len(open) > 1 => Last(open).func = 0
  BY <1>4 DEF IsOpened
<1>6. /\ Module.next \in DOMAIN Items
      /\ Item.kind = "fun"
      /\ open[1].func \in 1 .. Len(functions)
      /\ functions[open[1].func].name = [prefix |-> Module.prefix, name |-> Item.name]
      /\ functions[open[1].func].addr # Unknown
  BY <1>1 DEF InFunction
<1>7. Len(open) = 1 => Last(open) = open[1] /\ Last(open).func # 0
  BY <1>2, <1>3, <1>6
<1>8. Len(open) \in Nat /\ (Len(open) = 1 \/ Len(open) > 1)
  <2> DEFINE n == Len(open)
  <2>1. n \in Nat /\ n \in 1 .. n
    BY <1>2, <1>3
  <2> HIDE DEF n
  <2>2. n = 1 \/ n > 1
    BY <2>1
  <2> QED BY <2>1, <2>2 DEF n
<1>9. Last(open).func # 0 => Len(open) = 1
  BY <1>5, <1>8
<1>10. Last(open).func = 0 => Len(open) > 1
  BY <1>7, <1>8
<1>11. Last(open).func # 0 =>
            /\ Last(open).func \in 1 .. Len(functions)
            /\ functions[Last(open).func].name = [prefix |-> Module.prefix, name |-> Item.name]
            /\ functions[Last(open).func].addr # Unknown
  BY <1>6, <1>7, <1>9
<1> QED BY <1>3, <1>5, <1>6, <1>9, <1>10, <1>11

\* The chunk at the end of a body, and the table.
LEMMA EndFunctionFacts ==
    ASSUME LInv, EndFunction
    PROVE  /\ open # <<>> /\ Last(open).kind = "body" /\ open' = Front(open)
           /\ UNCHANGED <<text, structs, is_go, result>>
           /\ code' \in Seq(Instructions(text)) /\ Len(code') > Len(code)
           /\ \A c \in 1 .. Len(code) :
                /\ code'[c].op = code[c].op /\ code'[c].means = code[c].means
                /\ code'[c].go = code[c].go
                /\ code[c].op # "jump" => code'[c] = code[c]
           /\ \A c \in Len(code) + 1 .. Len(code') :
                code'[c].op \in {"ret", "value"} /\ code'[c].means = Nothing /\ code'[c].go = FALSE
           /\ functions' \in Seq(FunctionEntry(text)) /\ Len(functions') = Len(functions)
           /\ \A i \in 1 .. Len(functions) :
                /\ functions'[i].name = functions[i].name
                /\ functions'[i].addr = functions[i].addr
                /\ functions'[i].public = functions[i].public
                /\ functions'[i].pending = functions[i].pending
                /\ functions'[i].known =
                        IF Last(open).func = i THEN TRUE ELSE functions[i].known
           /\ \/ Last(open).func # 0 /\ frames' = NextItem(frames) /\ open' = <<>>
              \/ Last(open).func = 0 /\ frames' = frames /\ functions' = functions
<1> DEFINE body == Last(open)
           r == Plain("ret", 0)
           v == Plain("value", body.jump + 1)
           longer == Append(code, r)
           closed == Patch(longer, {body.jump}, Len(code) + 2)
<1>1. /\ open # <<>> /\ body.kind = "body" /\ open' = Front(open)
      /\ UNCHANGED <<text, structs, is_go, result>>
      /\ \/ /\ body.func # 0 /\ code' = closed
            /\ functions' = [functions EXCEPT ![body.func].known = TRUE]
            /\ frames' = NextItem(frames)
         \/ /\ body.func = 0 /\ code' = Append(closed, v)
            /\ functions' = functions /\ frames' = frames
  BY Zenon DEF EndFunction
<1>2. IInv /\ Kinds
  BY DEF LInv, Linked
<1>3. /\ code \in Seq(Instructions(text)) /\ Len(code) \in Nat
      /\ functions \in Seq(FunctionEntry(text))
      /\ open \in Seq(Opens(text))
  BY <1>2 DEF Kinds
<1>4. /\ body.jump \in 1 .. Len(code) /\ code[body.jump].op = "jump"
      /\ body.func # 0 => Len(open) = 1 /\ body.func \in 1 .. Len(functions)
  BY <1>1, LastBodyFacts
<1> HIDE DEF body
<1>5. /\ r \in Instructions(text) /\ r.op = "ret" /\ r.means = Nothing /\ r.go = FALSE
      /\ v \in Instructions(text) /\ v.op = "value" /\ v.means = Nothing /\ v.go = FALSE
  <2>1. /\ "ret" \in UseOps \cup {"jump", "entry", "ret", "halt"}
        /\ "value" \in UseOps \cup {"jump", "entry", "ret", "halt"}
        /\ 0 \in Int /\ body.jump + 1 \in Int
    BY <1>4 DEF UseOps
  <2>2. r \in Instructions(text) /\ r.op = "ret" /\ r.means = Nothing /\ r.go = FALSE
    BY <2>1, PlainTypes
  <2>3. v \in Instructions(text) /\ v.op = "value" /\ v.means = Nothing /\ v.go = FALSE
    BY <2>1, PlainTypes, ZenonT(30)
  <2> QED BY <2>2, <2>3
<1> HIDE DEF r, v
<1>6. /\ longer \in Seq(Instructions(text)) /\ Len(longer) = Len(code) + 1
      /\ \A c \in 1 .. Len(code) : longer[c] = code[c]
      /\ longer[Len(code) + 1] = r
  BY <1>3, <1>5, EmitFacts
<1> HIDE DEF longer
<1>7. /\ closed \in Seq(Instructions(text)) /\ Len(closed) = Len(code) + 1
      /\ \A c \in 1 .. Len(code) + 1 :
            /\ closed[c].op = longer[c].op
            /\ closed[c].means = longer[c].means
            /\ closed[c].go = longer[c].go
            /\ c # body.jump => closed[c] = longer[c]
  <2>1. Len(code) + 2 \in Int /\ \A c \in 1 .. Len(code) + 1 : c # body.jump => c \notin {body.jump}
    BY <1>3
  <2> QED BY <1>6, <2>1, PatchFacts
<1> HIDE DEF closed
<1>8. /\ closed[Len(code) + 1] = r
      /\ \A c \in 1 .. Len(code) :
            /\ closed[c].op = code[c].op /\ closed[c].means = code[c].means
            /\ closed[c].go = code[c].go
            /\ code[c].op # "jump" => closed[c] = code[c]
  BY <1>3, <1>4, <1>6, <1>7
<1>9. CASE body.func # 0
  <2>1. /\ code' = closed /\ frames' = NextItem(frames)
        /\ functions' = [functions EXCEPT ![body.func].known = TRUE]
    BY <1>1, <1>9
  <2>2. body.func \in 1 .. Len(functions) /\ functions[body.func] \in FunctionEntry(text)
    BY <1>3, <1>4, <1>9
  <2> DEFINE e == [functions[body.func] EXCEPT !.known = TRUE]
  <2>3. /\ e \in FunctionEntry(text) /\ e.known = TRUE
        /\ e.name = functions[body.func].name /\ e.addr = functions[body.func].addr
        /\ e.public = functions[body.func].public /\ e.pending = functions[body.func].pending
    BY <2>2 DEF FunctionEntry
  <2>4. functions' = [functions EXCEPT ![body.func] = e]
    BY <1>3, <2>1, <2>2
  <2> HIDE DEF e
  <2>5. /\ functions' \in Seq(FunctionEntry(text)) /\ Len(functions') = Len(functions)
        /\ \A i \in 1 .. Len(functions) :
                functions'[i] = IF i = body.func THEN e ELSE functions[i]
    BY <1>3, <2>2, <2>3, <2>4
  <2>6. \A i \in 1 .. Len(functions) :
            /\ functions'[i].name = functions[i].name
            /\ functions'[i].addr = functions[i].addr
            /\ functions'[i].public = functions[i].public
            /\ functions'[i].pending = functions[i].pending
            /\ functions'[i].known = IF body.func = i THEN TRUE ELSE functions[i].known
    BY <2>3, <2>5, Zenon
  <2>7. open' = <<>>
    <3>1. Len(Front(open)) = 0 /\ Front(open) \in Seq(Opens(text))
      BY <1>1, <1>3, <1>4, <1>9, FrontFacts
    <3> QED BY <1>1, <3>1
  <2>8. /\ code' \in Seq(Instructions(text)) /\ Len(code') > Len(code)
        /\ \A c \in 1 .. Len(code) :
                /\ code'[c].op = code[c].op /\ code'[c].means = code[c].means
                /\ code'[c].go = code[c].go
                /\ code[c].op # "jump" => code'[c] = code[c]
        /\ \A c \in Len(code) + 1 .. Len(code') :
                code'[c].op \in {"ret", "value"} /\ code'[c].means = Nothing /\ code'[c].go = FALSE
    <3>1. \A c \in Len(code) + 1 .. Len(code') : c = Len(code) + 1
      BY <1>3, <1>7, <2>1
    <3> QED BY <1>3, <1>5, <1>7, <1>8, <2>1, <3>1
  <2> QED BY <1>1, <1>9, <2>1, <2>5, <2>6, <2>7, <2>8, Zenon DEF body
<1>10. CASE body.func = 0
  <2>1. code' = Append(closed, v) /\ frames' = frames /\ functions' = functions
    BY <1>1, <1>10
  <2>2. /\ code' \in Seq(Instructions(text)) /\ Len(code') = Len(code) + 2
        /\ \A c \in 1 .. Len(code) + 1 : code'[c] = closed[c]
        /\ code'[Len(code) + 2] = v
    <3>1. /\ Append(closed, v) \in Seq(Instructions(text))
          /\ Len(Append(closed, v)) = Len(closed) + 1
          /\ \A c \in 1 .. Len(closed) : Append(closed, v)[c] = closed[c]
          /\ Append(closed, v)[Len(closed) + 1] = v
      BY <1>5, <1>7, EmitFacts
    <3>2. Len(closed) + 1 = Len(code) + 2
      BY <1>3, <1>7
    <3> QED BY <1>7, <2>1, <3>1, <3>2
  <2>3. \A i \in 1 .. Len(functions) :
            functions'[i].known = IF body.func = i THEN TRUE ELSE functions[i].known
    <3>1. \A i \in 1 .. Len(functions) : body.func # i
      BY <1>10
    <3> QED BY <2>1, <3>1, Zenon
  <2>4. /\ Len(code') > Len(code)
        /\ \A c \in 1 .. Len(code) :
                /\ code'[c].op = code[c].op /\ code'[c].means = code[c].means
                /\ code'[c].go = code[c].go
                /\ code[c].op # "jump" => code'[c] = code[c]
        /\ \A c \in Len(code) + 1 .. Len(code') :
                code'[c].op \in {"ret", "value"} /\ code'[c].means = Nothing /\ code'[c].go = FALSE
    <3>1. \A c \in Len(code) + 1 .. Len(code') : c = Len(code) + 1 \/ c = Len(code) + 2
      BY <1>3, <2>2
    <3>2. \A c \in 1 .. Len(code) : code'[c] = closed[c]
      BY <1>3, <2>2
    <3>3. code'[Len(code) + 1] = r /\ Len(code) + 1 \in 1 .. Len(code) + 1
      BY <1>3, <1>8, <2>2
    <3>4. Len(code') > Len(code)
      BY <1>3, <2>2
    <3>5. ASSUME NEW c \in Len(code) + 1 .. Len(code')
          PROVE  /\ code'[c].op \in {"ret", "value"} /\ code'[c].means = Nothing
                 /\ code'[c].go = FALSE
      <4>1. code'[c] = r \/ code'[c] = v
        BY <2>2, <3>1, <3>3
      <4> QED BY <1>5, <4>1
    <3> QED BY <1>8, <3>2, <3>4, <3>5, Zenon
  <2> QED BY <1>1, <1>3, <1>10, <2>1, <2>2, <2>3, <2>4, Zenon DEF body
<1> QED BY <1>9, <1>10

LEMMA EndFunctionLinked ==
    ASSUME LInv, IInv', EndFunction
    PROVE  Linked'
<1>1. IInv /\ Kinds /\ Pending
  BY DEF LInv, Linked
<1>2. /\ open # <<>> /\ Last(open).kind = "body" /\ open' = Front(open)
      /\ UNCHANGED <<text, structs, is_go, result>>
      /\ code' \in Seq(Instructions(text)) /\ Len(code') > Len(code)
      /\ \A c \in 1 .. Len(code) : code'[c].op = code[c].op
      /\ functions' \in Seq(FunctionEntry(text)) /\ Len(functions') = Len(functions)
      /\ \A i \in 1 .. Len(functions) :
            /\ functions'[i].name = functions[i].name
            /\ functions'[i].addr = functions[i].addr
            /\ functions'[i].pending = functions[i].pending
      /\ \/ Last(open).func # 0 /\ frames' = NextItem(frames) /\ open' = <<>>
         \/ Last(open).func = 0 /\ frames' = frames /\ functions' = functions
  BY EndFunctionFacts
<1>3. Distinct(functions')
  BY <1>1, <1>2 DEF Distinct, Kinds
<1>4. open' \in Seq(Opens(text))
  BY <1>1, <1>2, FrontFacts DEF Kinds
<1>5. Kinds'
  BY <1>1, <1>2, <1>3, <1>4, Zenon DEF Kinds
<1>6. Len(code') >= Len(code) /\ Len(functions') >= Len(functions)
  BY <1>1, <1>2, Lengths DEF Kinds
<1>7. Grown
  BY <1>2, <1>6 DEF Grown
<1>8. Pending'
  BY <1>1, <1>2, <1>5, <1>7, PendingKept
<1>9. \A i \in 1 .. Len(functions) : functions'[i].addr = functions[i].addr
  BY <1>2
<1>10. CASE Last(open).func # 0 /\ frames' = NextItem(frames) /\ open' = <<>>
  <2>1. /\ Last(open).func \in 1 .. Len(functions)
        /\ functions[Last(open).func].name = [prefix |-> Module.prefix, name |-> Item.name]
        /\ functions[Last(open).func].addr # Unknown
        /\ Module.next \in DOMAIN Items
    BY <1>2, <1>10, LastBodyFacts
  <2>2. \A i \in 1 .. Len(functions) :
            functions[i].name = [prefix |-> Module.prefix, name |-> Item.name]
                => functions[i].addr # Unknown
    BY <1>1, <2>1 DEF Kinds, Distinct
  <2> QED BY <1>2, <1>5, <1>7, <1>8, <1>9, <1>10, <2>1, <2>2, PassLinked
<1>11. CASE frames' = frames
  BY <1>2, <1>5, <1>7, <1>8, <1>9, <1>11, CloseLinked
<1> QED BY <1>2, <1>10, <1>11

\* The places of a function's name and of its calls that wait.
Places(i) == IF i \in 1 .. Len(functions) THEN ToSet(functions[i].pending) ELSE {}

\* The beginning of function i of the table.
Begins(i) ==
    LET name == [prefix |-> Module.prefix, name |-> Item.name]
    IN  /\ Len(functions') >= Len(functions) /\ i \in 1 .. Len(functions')
        /\ functions'[i].name = name /\ functions'[i].addr = Len(code) + 2
        /\ functions'[i].pending = <<>>
        /\ \/ /\ functions'[i].public = Item.public
              /\ functions'[i].known = Item.typed
           \/ /\ i \in 1 .. Len(functions)
              /\ functions'[i].public = functions[i].public
              /\ functions'[i].known = functions[i].known
        /\ i \in 1 .. Len(functions) => functions[i].name = name
        /\ \A l \in 1 .. Len(functions') :
                l # i => l \in 1 .. Len(functions) /\ functions'[l] = functions[l]
        /\ open' = <<[kind |-> "body", func |-> i, jump |-> Len(code) + 1]>>

LEMMA BeginFunctionTable ==
    ASSUME LInv, BeginFunction
    PROVE  /\ functions' \in Seq(FunctionEntry(text)) /\ Distinct(functions')
           /\ \E i \in Nat :
                /\ Begins(i)
                /\ code' = Patch(code, Places(i), Len(code) + 2)
                            \o <<Plain("jump", Unknown),
                                 Instruction("entry", Len(code) + 2,
                                    [file |-> Module.file, name |-> Item.name], FALSE)>>
<1> DEFINE table == DeclareFunction(functions, Item, Module.prefix)
           name == [prefix |-> Module.prefix, name |-> Item.name]
           i == Find(table, name)
           addr == Len(code) + 2
           chunk(places) == Patch(code, places, addr)
                            \o <<Plain("jump", Unknown),
                                 Instruction("entry", addr,
                                    [file |-> Module.file, name |-> Item.name], FALSE)>>
<1>1. /\ Module.next \in DOMAIN Items /\ Item.kind = "fun"
      /\ functions' = [table EXCEPT ![i].addr = addr, ![i].pending = <<>>]
      /\ code' = chunk(ToSet(table[i].pending))
      /\ open' = <<[kind |-> "body", func |-> i, jump |-> Len(code) + 1]>>
  BY Zenon DEF BeginFunction, AtItem
<1>2. IInv /\ Kinds
  BY DEF LInv, Linked
<1>3. /\ functions \in Seq(FunctionEntry(text)) /\ Distinct(functions)
      /\ Len(functions) \in Nat /\ Len(code) \in Nat
  BY <1>2 DEF Kinds
<1>4. /\ Module.prefix \in Aliases(text) /\ Item.name \in Names(text)
      /\ Item.public \in BOOLEAN /\ Item.typed \in BOOLEAN
  BY <1>1, <1>2, ModuleFacts, ItemFacts
<1>5. /\ table \in Seq(FunctionEntry(text)) /\ Distinct(table)
      /\ DeclaresOne(functions, table, Item, Module.prefix)
  <2> DEFINE item == Item
             p == Module.prefix
  <2>1. /\ p \in Aliases(text) /\ item.name \in Names(text)
        /\ item.public \in BOOLEAN /\ item.typed \in BOOLEAN
        /\ table = DeclareFunction(functions, item, p)
    BY <1>4
  <2> HIDE DEF item, p, table
  <2>2. /\ table \in Seq(FunctionEntry(text)) /\ Distinct(table)
        /\ DeclaresOne(functions, table, item, p)
    BY <1>3, <2>1, DeclareFunctionFacts
  <2> QED BY <2>2 DEF item, p
<1> HIDE DEF table
<1>6. i \in 1 .. Len(table) /\ table[i].name = name
  <2>1. \E l \in 1 .. Len(table) : table[l].name = name
    BY <1>5 DEF DeclaresOne
  <2> HIDE DEF name
  <2> QED BY <1>5, <2>1, FindFacts
<1> HIDE DEF i
<1> DEFINE e == [table[i] EXCEPT !.addr = addr, !.pending = <<>>]
<1>7. table[i] \in FunctionEntry(text) /\ Len(table) \in Nat
  BY <1>5, <1>6
<1>8. /\ e \in FunctionEntry(text) /\ e.name = table[i].name /\ e.addr = addr
      /\ e.pending = <<>> /\ e.public = table[i].public /\ e.known = table[i].known
  <2>1. addr \in Int /\ <<>> \in Seq(Nat)
    BY <1>3
  <2> QED BY <1>7, <2>1 DEF FunctionEntry
<1>9. functions' = [table EXCEPT ![i] = e]
  BY <1>1, <1>5, <1>6, <1>7 DEF FunctionEntry
<1> HIDE DEF e
<1>10. /\ functions' \in Seq(FunctionEntry(text)) /\ Len(functions') = Len(table)
       /\ \A l \in 1 .. Len(table) : functions'[l] = IF l = i THEN e ELSE table[l]
  BY <1>5, <1>6, <1>8, <1>9
<1>11. \A l \in 1 .. Len(table) : functions'[l].name = table[l].name
  BY <1>8, <1>10
<1>12. Distinct(functions')
  BY <1>5, <1>10, <1>11 DEF Distinct
<1>13. Len(table) >= Len(functions)
  BY <1>5 DEF DeclaresOne
<1>14. ASSUME NEW l \in 1 .. Len(table), l # i
       PROVE  l \in 1 .. Len(functions) /\ functions'[l] = functions[l]
  <2>1. table[l].name # name
    BY <1>5, <1>6, <1>14 DEF Distinct
  <2>2. l <= Len(functions) /\ table[l] = functions[l]
    BY <1>5, <2>1 DEF DeclaresOne
  <2>3. l \in 1 .. Len(functions)
    BY <1>3, <1>7, <2>2
  <2> QED BY <1>10, <1>14, <2>2, <2>3
<1>15. \/ table[i].public = Item.public /\ table[i].known = Item.typed
       \/ i \in 1 .. Len(functions) /\ table[i] = functions[i]
  <2>1. \/ table[i].public = Item.public /\ table[i].known = Item.typed
        \/ i <= Len(functions) /\ table[i] = functions[i]
    BY <1>5, <1>6 DEF DeclaresOne
  <2>2. i <= Len(functions) => i \in 1 .. Len(functions)
    BY <1>3, <1>6, <1>7
  <2> QED BY <2>1, <2>2
<1>16. i \in 1 .. Len(functions) => /\ functions[i].name = name
                                    /\ table[i].pending = functions[i].pending
  BY <1>5, <1>6 DEF DeclaresOne
<1>17. i \notin 1 .. Len(functions) => table[i].pending = <<>>
  <2>1. i \notin 1 .. Len(functions) => i \in Len(functions) + 1 .. Len(table)
    BY <1>3, <1>6, <1>7
  <2> QED BY <1>5, <2>1 DEF DeclaresOne
<1>18. ToSet(table[i].pending) = Places(i)
  BY <1>16, <1>17 DEF Places, ToSet
<1>19. Begins(i)
  <2>1. i \in 1 .. Len(functions') /\ Len(functions') >= Len(functions)
    BY <1>6, <1>10, <1>13
  <2>2. functions'[i] = e
    BY <1>6, <1>10
  <2>3. \/ functions'[i].public = Item.public /\ functions'[i].known = Item.typed
        \/ /\ i \in 1 .. Len(functions)
           /\ functions'[i].public = functions[i].public
           /\ functions'[i].known = functions[i].known
    BY <1>8, <1>15, <2>2
  <2>4. /\ functions'[i].name = name /\ functions'[i].addr = addr
        /\ functions'[i].pending = <<>>
    BY <1>6, <1>8, <2>2
  <2>5. \A l \in 1 .. Len(functions') :
            l # i => l \in 1 .. Len(functions) /\ functions'[l] = functions[l]
    BY <1>10, <1>14
  <2> QED BY <1>1, <1>16, <2>1, <2>3, <2>4, <2>5, Zenon DEF Begins
<1>20. i \in Nat
  BY <1>6
<1> QED BY <1>1, <1>10, <1>12, <1>18, <1>19, <1>20, Zenon

\* The chunk at the beginning of a function: the calls that wait are patched,
\* and the entry of the function comes last.
LEMMA BeginFunctionFacts ==
    ASSUME LInv, BeginFunction
    PROVE  /\ open = <<>> /\ Module.next \in DOMAIN Items /\ Item.kind = "fun"
           /\ result = "none"
           /\ UNCHANGED <<text, frames, structs, compilation_stack, is_go, result>>
           /\ functions' \in Seq(FunctionEntry(text)) /\ Distinct(functions')
           /\ code' \in Seq(Instructions(text)) /\ Len(code') = Len(code) + 2
           /\ \E i \in Nat :
                /\ Begins(i)
                /\ \A c \in 1 .. Len(code) :
                    /\ code'[c].op = code[c].op /\ code'[c].means = code[c].means
                    /\ code'[c].go = code[c].go
                    /\ c \in Places(i) => code'[c].addr = Len(code) + 2
                    /\ c \notin Places(i) => code'[c] = code[c]
           /\ code'[Len(code) + 1].op = "jump" /\ code'[Len(code) + 1].means = Nothing
           /\ code'[Len(code) + 1].go = FALSE
           /\ code'[Len(code) + 2].op = "entry" /\ code'[Len(code) + 2].go = FALSE
           /\ code'[Len(code) + 2].means = [file |-> Module.file, name |-> Item.name]
<1>1. /\ open = <<>> /\ Module.next \in DOMAIN Items /\ Item.kind = "fun"
      /\ result = "none"
      /\ UNCHANGED <<text, frames, structs, compilation_stack, is_go, result>>
  BY Zenon DEF BeginFunction, AtItem, Running
<1>2. IInv /\ Kinds
  BY DEF LInv, Linked
<1> DEFINE addr == Len(code) + 2
           m == [file |-> Module.file, name |-> Item.name]
           j == Plain("jump", Unknown)
           e == Instruction("entry", addr, m, FALSE)
<1>3. code \in Seq(Instructions(text)) /\ Len(code) \in Nat /\ addr \in Int
  BY <1>2 DEF Kinds
<1>4. PICK i \in Nat : Begins(i) /\ code' = Patch(code, Places(i), addr) \o <<j, e>>
  BY BeginFunctionTable
<1>5. functions' \in Seq(FunctionEntry(text)) /\ Distinct(functions')
  BY BeginFunctionTable
<1>6. m \in Meanings(text)
  <2>1. Module.file \in DOMAIN text /\ Item.name \in Names(text)
    BY <1>1, <1>2, ModuleFacts, ItemFacts
  <2> QED BY <2>1 DEF Meanings
<1>7. j \in Instructions(text) /\ j.op = "jump" /\ j.means = Nothing /\ j.go = FALSE
  <2>1. "jump" \in UseOps \cup {"jump", "entry", "ret", "halt"} /\ Unknown \in Int
    BY DEF Unknown
  <2> QED BY <2>1, PlainTypes
<1> HIDE DEF m, addr
<1>8. e \in Instructions(text) /\ e.op = "entry" /\ e.means = m /\ e.go = FALSE
  BY <1>3, <1>6 DEF Instruction, Instructions
<1> HIDE DEF j, e
<1> DEFINE p == Patch(code, Places(i), addr)
<1>9. /\ p \in Seq(Instructions(text)) /\ Len(p) = Len(code)
      /\ \A c \in 1 .. Len(code) :
            /\ p[c].op = code[c].op /\ p[c].means = code[c].means /\ p[c].go = code[c].go
            /\ c \in Places(i) => p[c].addr = addr
            /\ c \notin Places(i) => p[c] = code[c]
  BY <1>3, PatchFacts
<1>10. code' = p \o <<j, e>>
  BY <1>4
<1> HIDE DEF p
<1>11. /\ code' \in Seq(Instructions(text)) /\ Len(code') = Len(code) + 2
       /\ \A c \in 1 .. Len(code) : code'[c] = p[c]
       /\ code'[Len(code) + 1] = j /\ code'[Len(code) + 2] = e
  BY <1>7, <1>8, <1>9, <1>10, EmitTwoFacts
<1>12. \A c \in 1 .. Len(code) :
            /\ code'[c].op = code[c].op /\ code'[c].means = code[c].means
            /\ code'[c].go = code[c].go
            /\ c \in Places(i) => code'[c].addr = addr
            /\ c \notin Places(i) => code'[c] = code[c]
  BY <1>9, <1>11
<1> QED BY <1>1, <1>4, <1>5, <1>7, <1>8, <1>11, <1>12, Zenon DEF addr, m

LEMMA BeginFunctionLinked ==
    ASSUME LInv, IInv', BeginFunction
    PROVE  Linked'
<1>1. IInv /\ Kinds /\ Chain /\ Awaited /\ Pending
  BY DEF LInv, Linked
<1>2. /\ open = <<>> /\ Module.next \in DOMAIN Items /\ Item.kind = "fun"
      /\ UNCHANGED <<text, frames, structs, is_go, result>>
      /\ functions' \in Seq(FunctionEntry(text)) /\ Distinct(functions')
      /\ code' \in Seq(Instructions(text)) /\ Len(code') = Len(code) + 2
      /\ code'[Len(code) + 1].op = "jump"
  BY BeginFunctionFacts
<1>3. PICK i \in Nat :
        /\ Begins(i)
        /\ \A c \in 1 .. Len(code) : code'[c].op = code[c].op
  BY BeginFunctionFacts
<1>4. /\ Len(functions') >= Len(functions) /\ i \in 1 .. Len(functions')
      /\ functions'[i].name = [prefix |-> Module.prefix, name |-> Item.name]
      /\ functions'[i].addr = Len(code) + 2
      /\ functions'[i].pending = <<>>
      /\ i \in 1 .. Len(functions) =>
            functions[i].name = [prefix |-> Module.prefix, name |-> Item.name]
      /\ \A l \in 1 .. Len(functions') :
                l # i => l \in 1 .. Len(functions) /\ functions'[l] = functions[l]
      /\ open' = <<[kind |-> "body", func |-> i, jump |-> Len(code) + 1]>>
  BY <1>3 DEF Begins
<1>5. Len(code) \in Nat /\ Len(functions) \in Nat /\ Len(functions') \in Nat
  BY <1>1, <1>2, Lengths
<1>6. Len(code) + 2 # Unknown
  BY <1>5 DEF Unknown
<1> DEFINE o == [kind |-> "body", func |-> i, jump |-> Len(code) + 1]
<1>7. o \in Opens(text) /\ o.kind = "body" /\ o.func = i /\ o.jump = Len(code) + 1
  BY <1>3, <1>5 DEF Bodies, Opens
<1>8. open' = <<o>>
  BY <1>4
<1> HIDE DEF o
<1>9. open' \in Seq(Opens(text)) /\ Len(open') = 1 /\ open'[1] = o
  BY <1>7, <1>8
<1>10. Kinds'
  BY <1>1, <1>2, <1>9, Zenon DEF Kinds
<1>11. text' = text /\ Module' = Module /\ Items' = Items /\ Item' = Item
  BY <1>2 DEF Module, Items, Item
<1>12. Chain'
  BY <1>1, <1>2 DEF Chain
<1>13. InFunction'
  BY <1>2, <1>4, <1>6, <1>7, <1>9, <1>11 DEF InFunction
<1>14. Opened'
  <2>1. Len(code) + 1 \in 1 .. Len(code')
    BY <1>2, <1>5
  <2>2. IsOpened(o, 1, functions', code')
    BY <1>2, <1>7, <2>1 DEF IsOpened
  <2> QED BY <1>9, <2>2 DEF Opened
<1>15. Awaited'
  <2> SUFFICES ASSUME NEW l \in 1 .. Len(functions'), functions'[l].addr = Unknown
               PROVE  \E k \in 1 .. Len(frames') :
                        /\ frames'[k].prefix = functions'[l].name.prefix
                        /\ \E j \in frames'[k].next .. Len(text'[frames'[k].file]) :
                            /\ text'[frames'[k].file][j].kind = "fun"
                            /\ text'[frames'[k].file][j].name = functions'[l].name.name
    BY DEF Awaited
  <2>1. l # i
    BY <1>4, <1>6
  <2>2. l \in 1 .. Len(functions) /\ functions'[l] = functions[l]
    BY <1>4, <2>1
  <2> QED BY <1>1, <1>2, <2>2, SMTT(30) DEF Awaited
<1>16. Pending'
  <2> SUFFICES ASSUME NEW l \in 1 .. Len(functions')
               PROVE  /\ functions'[l].addr # Unknown =>
                            /\ functions'[l].addr \in 1 .. Len(code')
                            /\ functions'[l].pending = <<>>
                      /\ Len(functions'[l].pending) <= MaxPatches
                      /\ \A k \in 1 .. Len(functions'[l].pending) :
                            /\ functions'[l].pending[k] \in 1 .. Len(code')
                            /\ code'[functions'[l].pending[k]].op = "call"
    BY DEF Pending
  <2>1. CASE l = i
    <3>1. Len(code) + 2 \in 1 .. Len(code')
      BY <1>2, <1>5
    <3>2. Len(functions'[l].pending) = 0 /\ 0 <= MaxPatches
      BY <1>4, <2>1, ModulesAssumption
    <3> QED BY <1>4, <2>1, <3>1, <3>2
  <2>2. CASE l # i
    <3>1. l \in 1 .. Len(functions) /\ functions'[l] = functions[l]
      BY <1>4, <2>2
    <3>2. \A c \in 1 .. Len(code) : c \in 1 .. Len(code') /\ code'[c].op = code[c].op
      BY <1>2, <1>3, <1>5
    <3>3. /\ functions[l].addr # Unknown =>
                functions[l].addr \in 1 .. Len(code) /\ functions[l].pending = <<>>
          /\ Len(functions[l].pending) <= MaxPatches
          /\ \A k \in 1 .. Len(functions[l].pending) :
                /\ functions[l].pending[k] \in 1 .. Len(code)
                /\ code[functions[l].pending[k]].op = "call"
      BY <1>1, <3>1 DEF Pending
    <3> QED BY <3>1, <3>2, <3>3
  <2> QED BY <2>1, <2>2
<1> QED BY <1>10, <1>12, <1>13, <1>14, <1>15, <1>16 DEF Linked

\* The tables of an imported file.
LEMMA BeginImportFacts ==
    ASSUME LInv, BeginImport
    PROVE  /\ open = <<>> /\ Module.next \in DOMAIN Items /\ Item.kind = "imp"
           /\ Item.file \in DOMAIN text
           /\ UNCHANGED <<text, open, code, had_error, is_go, mistakes, result>>
           /\ PushModule
           /\ functions' \in Seq(FunctionEntry(text)) /\ Distinct(functions')
           /\ structs' \in Seq(StructEntry(text))
           /\ DeclaresFunctions(functions, functions', text[Item.file], Item.alias,
                                Len(text[Item.file]))
           /\ DeclaresStructs(structs, structs', text[Item.file], Item.alias,
                              Len(text[Item.file]))
           /\ frames' = Append(frames, [file |-> Item.file, prefix |-> Item.alias,
                                        next |-> 1, saved |-> had_error])
<1> DEFINE old == [functions |-> functions, structs |-> structs]
           new == Predeclared(old, text[Item.file], Item.alias)
           f == Item.file
           p == Item.alias
<1>1. /\ open = <<>> /\ Module.next \in DOMAIN Items /\ Item.kind = "imp"
      /\ UNCHANGED <<text, open, code, had_error, is_go, mistakes, result>>
      /\ PushModule
      /\ functions' = new.functions /\ structs' = new.structs
      /\ frames' = Append(frames, [file |-> Item.file, prefix |-> Item.alias,
                                   next |-> 1, saved |-> had_error])
  BY Zenon DEF BeginImport, AtItem, Predeclare
<1>2. IInv /\ Kinds
  BY DEF LInv, Linked
<1>3. f \in DOMAIN text /\ p \in Aliases(text) /\ text \in Texts
  BY <1>1, <1>2, ItemFacts, ModuleFacts
<1>4. old \in Tables(text) /\ old.functions = functions /\ old.structs = structs
  BY <1>2 DEF Kinds, Tables
<1>5. new = Predeclared(old, text[f], p)
  OBVIOUS
<1> HIDE DEF new, f, p, old
<1>6. new \in Tables(text) /\ Holds(old, new, text[f], p, Len(text[f]))
  BY <1>3, <1>4, <1>5, PredeclaredHolds
<1>7. /\ new.functions \in Seq(FunctionEntry(text)) /\ Distinct(new.functions)
      /\ new.structs \in Seq(StructEntry(text))
  BY <1>6 DEF Tables
<1>8. /\ DeclaresFunctions(functions, functions', text[f], p, Len(text[f]))
      /\ DeclaresStructs(structs, structs', text[f], p, Len(text[f]))
  BY <1>1, <1>4, <1>6 DEF Holds
<1> QED BY <1>1, <1>3, <1>7, <1>8 DEF f, p

LEMMA BeginImportLinked ==
    ASSUME LInv, IInv', BeginImport
    PROVE  Linked'
<1> DEFINE n == Len(frames)
           fr == [file |-> Item.file, prefix |-> Item.alias, next |-> 1, saved |-> had_error]
           N == Len(text[Item.file])
<1>1. IInv /\ Kinds /\ Chain /\ Awaited /\ Pending
  BY DEF LInv, Linked
<1>2. /\ open = <<>> /\ Module.next \in DOMAIN Items /\ Item.kind = "imp"
      /\ Item.file \in DOMAIN text
      /\ UNCHANGED <<text, open, code, is_go, result>>
      /\ functions' \in Seq(FunctionEntry(text)) /\ Distinct(functions')
      /\ structs' \in Seq(StructEntry(text))
      /\ DeclaresFunctions(functions, functions', text[Item.file], Item.alias, N)
      /\ frames' = Append(frames, fr)
  BY BeginImportFacts
<1>3. frames \in Seq(Frame(text)) /\ n \in Nat /\ n >= 1 /\ text \in Texts
  BY <1>1 DEF IInv, Typed
<1>4. N \in Nat /\ DOMAIN text[Item.file] = 1 .. N
  BY <1>2, <1>3, TextTypes
<1>5. fr.file = Item.file /\ fr.prefix = Item.alias /\ fr.next = 1
  OBVIOUS
<1> HIDE DEF fr
<1>6. /\ Len(frames') = n + 1 /\ frames'[n + 1] = fr
      /\ \A k \in 1 .. n : frames'[k] = frames[k]
  BY <1>2, <1>3
<1>7. Module = frames[n] /\ Item = text[Module.file][Module.next] /\ Items = text[Module.file]
  BY <1>1, ModuleFacts DEF Item, Items
<1>8. Kinds'
  BY <1>1, <1>2, Zenon DEF Kinds
<1>9. Chain'
  <2>1. frames'[1].file = Main /\ frames'[1].prefix = NULL
    BY <1>1, <1>3, <1>6 DEF Chain
  <2>2. ASSUME NEW k \in 1 .. n + 1
        PROVE  frames'[k].next \in 1 .. Len(text[frames'[k].file]) + 1
    <3>1. CASE k \in 1 .. n
      BY <1>1, <1>6, <3>1 DEF Chain
    <3>2. CASE k = n + 1
      BY <1>4, <1>5, <1>6, <3>2
    <3> QED BY <1>3, <3>1, <3>2
  <2>3. ASSUME NEW k \in 1 .. n
        PROVE  /\ frames'[k].next \in DOMAIN text[frames'[k].file]
               /\ text[frames'[k].file][frames'[k].next].kind = "imp"
               /\ text[frames'[k].file][frames'[k].next].file = frames'[k + 1].file
               /\ text[frames'[k].file][frames'[k].next].alias = frames'[k + 1].prefix
    <3>1. frames'[k] = frames[k]
      BY <1>6
    <3>2. CASE k = n
      BY <1>2, <1>5, <1>6, <1>7, <3>1, <3>2
    <3>3. CASE k \in 1 .. n - 1
      <4>1. k + 1 \in 1 .. n
        BY <1>3, <3>3
      <4>2. frames'[k + 1] = frames[k + 1]
        BY <1>6, <4>1
      <4> QED BY <1>1, <3>1, <3>3, <4>2 DEF Chain
    <3> QED BY <1>3, <3>2, <3>3
  <2>4. Len(frames') - 1 = n
    BY <1>3, <1>6
  <2> QED BY <1>2, <1>6, <2>1, <2>2, <2>3, <2>4 DEF Chain
<1>10. InFunction'
  BY <1>2 DEF InFunction
<1>11. Opened'
  BY <1>2 DEF Opened
<1>12. /\ Len(functions') >= Len(functions)
       /\ \A i \in 1 .. Len(functions) : /\ functions'[i].name = functions[i].name
                                         /\ functions'[i].addr = functions[i].addr
                                         /\ functions'[i].pending = functions[i].pending
       /\ \A i \in Len(functions) + 1 .. Len(functions') :
            functions'[i].addr = Unknown /\ functions'[i].pending = <<>>
  BY <1>2 DEF DeclaresFunctions
<1>13. Len(functions) \in Nat /\ Len(functions') \in Nat
  BY <1>1, <1>2 DEF Kinds
<1>14. \A i \in 1 .. Len(functions') :
            i \in 1 .. Len(functions) \/ i \in Len(functions) + 1 .. Len(functions')
  BY <1>13
<1>15. Awaited'
  <2> SUFFICES ASSUME NEW i \in 1 .. Len(functions'), functions'[i].addr = Unknown
               PROVE  \E k \in 1 .. Len(frames') :
                        /\ frames'[k].prefix = functions'[i].name.prefix
                        /\ \E j \in frames'[k].next .. Len(text'[frames'[k].file]) :
                            /\ text'[frames'[k].file][j].kind = "fun"
                            /\ text'[frames'[k].file][j].name = functions'[i].name.name
    BY DEF Awaited
  <2>1. CASE i \in 1 .. Len(functions)
    <3>1. functions[i].addr = Unknown /\ functions'[i].name = functions[i].name
      BY <1>12, <2>1
    <3>2. PICK k \in 1 .. n :
            /\ frames[k].prefix = functions[i].name.prefix
            /\ \E j \in frames[k].next .. Len(text[frames[k].file]) :
                /\ text[frames[k].file][j].kind = "fun"
                /\ text[frames[k].file][j].name = functions[i].name.name
      BY <1>1, <2>1, <3>1 DEF Awaited
    <3>3. k \in 1 .. Len(frames') /\ frames'[k] = frames[k]
      BY <1>3, <1>6
    <3> QED BY <1>2, <3>1, <3>2, <3>3
  <2>2. CASE i \notin 1 .. Len(functions)
    <3>1. ~(i <= Len(functions))
      BY <1>13, <2>2
    <3>2. PICK j \in 1 .. N :
            /\ text[Item.file][j].kind = "fun"
            /\ functions'[i].name = [prefix |-> Item.alias, name |-> text[Item.file][j].name]
      BY <1>2, <3>1 DEF DeclaresFunctions
    <3>3. n + 1 \in 1 .. Len(frames') /\ frames'[n + 1] = fr
      BY <1>3, <1>6
    <3>4. /\ functions'[i].name.prefix = Item.alias
          /\ functions'[i].name.name = text[Item.file][j].name
      BY <3>2
    <3> QED BY <1>2, <1>5, <3>2, <3>3, <3>4, ZenonT(30)
  <2> QED BY <2>1, <2>2
<1>16. Pending'
  <2> SUFFICES ASSUME NEW i \in 1 .. Len(functions')
               PROVE  /\ functions'[i].addr # Unknown =>
                            functions'[i].addr \in 1 .. Len(code') /\ functions'[i].pending = <<>>
                      /\ Len(functions'[i].pending) <= MaxPatches
                      /\ \A k \in 1 .. Len(functions'[i].pending) :
                            /\ functions'[i].pending[k] \in 1 .. Len(code')
                            /\ code'[functions'[i].pending[k]].op = "call"
    BY DEF Pending
  <2>1. CASE i \in 1 .. Len(functions)
    BY <1>1, <1>2, <1>12, <2>1 DEF Pending
  <2>2. CASE i \in Len(functions) + 1 .. Len(functions')
    <3>1. functions'[i].addr = Unknown /\ functions'[i].pending = <<>>
      BY <1>12, <2>2
    <3>2. Len(functions'[i].pending) = 0 /\ 0 <= MaxPatches
      BY <3>1, ModulesAssumption
    <3> QED BY <3>1, <3>2
  <2> QED BY <1>14, <2>1, <2>2
<1> QED BY <1>8, <1>9, <1>10, <1>11, <1>15, <1>16 DEF Linked

\* The frames at the end of an import.
LEMMA EndImportFacts ==
    ASSUME LInv, EndImport
    PROVE  /\ Len(frames) > 1 /\ Len(frames) \in Nat /\ result = "none"
           /\ Module = frames[Len(frames)] /\ Module.next = Len(Items) + 1
           /\ UNCHANGED <<text, open, functions, structs, code, compiled_modules, is_go,
                          mistakes, result>>
           /\ open = <<>>
           /\ had_error' = Module.saved /\ compilation_stack' = Front(compilation_stack)
           /\ Len(frames') = Len(frames) - 1
           /\ \A k \in 1 .. Len(frames) - 2 : frames'[k] = frames[k]
           /\ \A k \in 1 .. Len(frames) - 1 : /\ frames'[k].file = frames[k].file
                                              /\ frames'[k].prefix = frames[k].prefix
                                              /\ frames'[k].saved = frames[k].saved
           /\ frames'[Len(frames) - 1].next = frames[Len(frames) - 1].next + 1
<1> DEFINE n == Len(frames)
           fs == Front(frames)
<1>1. IInv /\ Kinds /\ InFunction
  BY DEF LInv, Linked
<1>2. /\ n > 1 /\ Module.next = Len(Items) + 1 /\ result = "none"
      /\ UNCHANGED <<text, open, functions, structs, code, compiled_modules, is_go,
                     mistakes, result>>
      /\ had_error' = Module.saved /\ compilation_stack' = Front(compilation_stack)
      /\ frames' = NextItem(fs)
  BY Zenon DEF EndImport, Running
<1>3. frames \in Seq(Frame(text)) /\ n \in Nat /\ frames # <<>>
  BY <1>1 DEF IInv, Typed
<1>4. /\ Module = frames[n]
      /\ Len(Items) \in Nat /\ DOMAIN Items = 1 .. Len(Items)
  BY <1>1, ModuleFacts
<1>5. open = <<>>
  <2>1. Module.next \notin DOMAIN Items
    BY <1>2, <1>4
  <2> QED BY <1>1, <2>1 DEF InFunction
<1>6. /\ fs \in Seq(Frame(text)) /\ Len(fs) = n - 1
      /\ \A k \in 1 .. n - 1 : fs[k] = frames[k]
  BY <1>3, FrontFacts
<1> HIDE DEF fs
<1>7. Len(fs) >= 1
  BY <1>2, <1>3, <1>6
<1> DEFINE ns == NextItem(fs)
<1>8. /\ Len(ns) = Len(fs)
      /\ \A k \in 1 .. Len(fs) - 1 : ns[k] = fs[k]
      /\ \A k \in 1 .. Len(fs) : /\ ns[k].file = fs[k].file
                                 /\ ns[k].prefix = fs[k].prefix
                                 /\ ns[k].saved = fs[k].saved
      /\ ns[Len(fs)].next = fs[Len(fs)].next + 1
  BY <1>6, <1>7, NextItemFrames
<1>9. frames' = ns
  BY <1>2
<1> HIDE DEF ns
<1>10. /\ Len(fs) - 1 = n - 2 /\ n - 1 \in 1 .. n - 1
       /\ \A k \in 1 .. n - 2 : k \in 1 .. n - 1
  BY <1>2, <1>3, <1>6
<1>11. /\ Len(frames') = n - 1
       /\ \A k \in 1 .. n - 2 : frames'[k] = frames[k]
       /\ \A k \in 1 .. n - 1 : /\ frames'[k].file = frames[k].file
                                /\ frames'[k].prefix = frames[k].prefix
                                /\ frames'[k].saved = frames[k].saved
       /\ frames'[n - 1].next = frames[n - 1].next + 1
  BY <1>6, <1>8, <1>9, <1>10
<1> QED BY <1>2, <1>3, <1>4, <1>5, <1>11

LEMMA EndImportLinked ==
    ASSUME LInv, IInv', EndImport
    PROVE  Linked'
<1> DEFINE n == Len(frames)
<1>1. IInv /\ Kinds /\ Chain /\ Awaited /\ Pending
  BY DEF LInv, Linked
<1>2. /\ n > 1 /\ n \in Nat
      /\ Module = frames[n] /\ Module.next = Len(Items) + 1
      /\ UNCHANGED <<text, open, functions, structs, code, is_go, result>>
      /\ open = <<>>
      /\ Len(frames') = n - 1
      /\ \A k \in 1 .. n - 2 : frames'[k] = frames[k]
      /\ \A k \in 1 .. n - 1 : /\ frames'[k].file = frames[k].file
                               /\ frames'[k].prefix = frames[k].prefix
      /\ frames'[n - 1].next = frames[n - 1].next + 1
  BY EndImportFacts
<1>3. Kinds'
  BY <1>1, <1>2, Zenon DEF Kinds
<1>4. /\ frames[n - 1].next \in DOMAIN text[frames[n - 1].file]
      /\ text[frames[n - 1].file][frames[n - 1].next].kind = "imp"
  <2>1. n - 1 \in 1 .. n - 1
    BY <1>2
  <2> QED BY <1>1, <2>1 DEF Chain
<1>5. /\ Len(text[frames[n - 1].file]) \in Nat
      /\ DOMAIN text[frames[n - 1].file] = 1 .. Len(text[frames[n - 1].file])
  <2>1. n - 1 \in 1 .. n
    BY <1>2
  <2>2. frames[n - 1] \in Frame(text)
    BY <1>1, <2>1 DEF IInv, Typed
  <2>3. frames[n - 1].file \in DOMAIN text /\ text \in Texts
    BY <1>1, <2>2 DEF IInv, Typed, Frame
  <2> QED BY <2>3, TextTypes
<1>6. Chain'
  <2>1. frames'[1].file = Main /\ frames'[1].prefix = NULL
    <3>1. 1 \in 1 .. n - 1
      BY <1>2
    <3> QED BY <1>1, <1>2, <3>1 DEF Chain
  <2>2. ASSUME NEW k \in 1 .. n - 1
        PROVE  frames'[k].next \in 1 .. Len(text[frames'[k].file]) + 1
    <3>1. k \in 1 .. n /\ frames'[k].file = frames[k].file
      BY <1>2
    <3>2. CASE k \in 1 .. n - 2
      BY <1>1, <1>2, <3>1, <3>2 DEF Chain
    <3>3. CASE k = n - 1
      <4>1. frames[k].next \in 1 .. Len(text[frames[k].file])
        BY <1>4, <1>5, <3>3
      <4> QED BY <1>2, <1>5, <3>1, <3>3, <4>1, SMTT(30)
    <3> QED BY <1>2, <3>2, <3>3
  <2>3. ASSUME NEW k \in 1 .. n - 2
        PROVE  /\ frames'[k].next \in DOMAIN text[frames'[k].file]
               /\ text[frames'[k].file][frames'[k].next].kind = "imp"
               /\ text[frames'[k].file][frames'[k].next].file = frames'[k + 1].file
               /\ text[frames'[k].file][frames'[k].next].alias = frames'[k + 1].prefix
    <3>1. k + 1 \in 1 .. n - 1 /\ k \in 1 .. n - 1
      BY <1>2
    <3>2. frames'[k] = frames[k] /\ frames'[k + 1].file = frames[k + 1].file
          /\ frames'[k + 1].prefix = frames[k + 1].prefix
      BY <1>2, <3>1
    <3> QED BY <1>1, <3>1, <3>2 DEF Chain
  <2>4. Len(frames') - 1 = n - 2
    BY <1>2
  <2> QED BY <1>2, <2>1, <2>2, <2>3, <2>4 DEF Chain
<1>7. InFunction' /\ Opened'
  BY <1>2 DEF InFunction, Opened
<1>8. Awaited'
  <2> SUFFICES ASSUME NEW i \in 1 .. Len(functions), functions[i].addr = Unknown
               PROVE  \E k \in 1 .. Len(frames') :
                        /\ frames'[k].prefix = functions[i].name.prefix
                        /\ \E j \in frames'[k].next .. Len(text[frames'[k].file]) :
                            /\ text[frames'[k].file][j].kind = "fun"
                            /\ text[frames'[k].file][j].name = functions[i].name.name
    BY <1>2 DEF Awaited
  <2>1. PICK k \in 1 .. n :
            /\ frames[k].prefix = functions[i].name.prefix
            /\ \E j \in frames[k].next .. Len(text[frames[k].file]) :
                /\ text[frames[k].file][j].kind = "fun"
                /\ text[frames[k].file][j].name = functions[i].name.name
    BY <1>1 DEF Awaited
  <2>2. PICK j \in frames[k].next .. Len(text[frames[k].file]) :
                /\ text[frames[k].file][j].kind = "fun"
                /\ text[frames[k].file][j].name = functions[i].name.name
    BY <2>1
  <2>3. k # n
    <3> SUFFICES ASSUME k = n PROVE FALSE
      OBVIOUS
    <3>1. frames[n].next = Len(text[frames[n].file]) + 1 /\ Len(text[frames[n].file]) \in Nat
      BY <1>1, <1>2, ModuleFacts
    <3> QED BY <2>2, <3>1
  <2>4. k \in 1 .. n - 1 /\ k \in 1 .. Len(frames')
    BY <1>2, <2>3
  <2>5. CASE k \in 1 .. n - 2
    <3>1. frames'[k] = frames[k]
      BY <1>2, <2>5
    <3> QED BY <2>1, <2>4, <3>1
  <2>6. CASE k = n - 1
    <3>1. j # frames[k].next
      BY <1>4, <2>2, <2>6
    <3>2. frames[k].next \in Nat
      BY <1>4, <1>5, <2>6
    <3>3. j \in frames'[k].next .. Len(text[frames'[k].file])
      BY <1>2, <1>5, <2>2, <2>4, <2>6, <3>1, <3>2, SMTT(30)
    <3>4. frames'[k].file = frames[k].file /\ frames'[k].prefix = frames[k].prefix
      BY <1>2, <2>4
    <3> QED BY <2>1, <2>2, <2>4, <3>3, <3>4
  <2> QED BY <1>2, <2>4, <2>5, <2>6
<1>9. Pending'
  BY <1>1, <1>2 DEF Pending
<1> QED BY <1>3, <1>6, <1>7, <1>8, <1>9 DEF Linked

\* The tables at first.
LEMMA InitFacts ==
    ASSUME Init
    PROVE  /\ text \in Texts /\ Main \in DOMAIN text
           /\ frames = <<[file |-> Main, prefix |-> NULL, next |-> 1, saved |-> FALSE]>>
           /\ open = <<>> /\ code = <<>> /\ compilation_stack = <<>>
           /\ had_error = FALSE /\ is_go = FALSE /\ mistakes = {} /\ result = "none"
           /\ functions \in Seq(FunctionEntry(text)) /\ Distinct(functions)
           /\ structs \in Seq(StructEntry(text))
           /\ DeclaresFunctions(<<>>, functions, text[Main], NULL, Len(text[Main]))
           /\ DeclaresStructs(<<>>, structs, text[Main], NULL, Len(text[Main]))
<1> DEFINE old == [functions |-> <<>>, structs |-> <<>>]
           new == Predeclared(old, text[Main], NULL)
<1>1. /\ text \in Texts
      /\ frames = <<[file |-> Main, prefix |-> NULL, next |-> 1, saved |-> FALSE]>>
      /\ open = <<>> /\ code = <<>> /\ compilation_stack = <<>>
      /\ had_error = FALSE /\ is_go = FALSE /\ mistakes = {} /\ result = "none"
      /\ functions = new.functions /\ structs = new.structs
  BY Zenon DEF Init
<1>2. Main \in DOMAIN text /\ NULL \in Aliases(text)
  BY <1>1, ModulesAssumption DEF Aliases
<1>3. old \in Tables(text)
  <2>1. Distinct(<<>>)
    BY DEF Distinct
  <2>2. <<>> \in Seq(FunctionEntry(text)) /\ <<>> \in Seq(StructEntry(text))
    OBVIOUS
  <2> QED BY <2>1, <2>2 DEF Tables
<1>4. old.functions = <<>> /\ old.structs = <<>>
  OBVIOUS
<1>5. new \in Tables(text) /\ Holds(old, new, text[Main], NULL, Len(text[Main]))
  <2> DEFINE p == NULL
             t == text
             f == Main
  <2>1. t \in Texts /\ f \in DOMAIN t /\ p \in Aliases(t) /\ old \in Tables(t)
    BY <1>1, <1>2, <1>3
  <2>2. new = Predeclared(old, t[f], p)
    OBVIOUS
  <2> HIDE DEF p, t, f, old, new
  <2>3. new \in Tables(t) /\ Holds(old, new, t[f], p, Len(t[f]))
    BY <2>1, <2>2, PredeclaredHolds
  <2> QED BY <2>3 DEF p, t, f
<1> HIDE DEF new, old
<1>6. /\ functions \in Seq(FunctionEntry(text)) /\ Distinct(functions)
      /\ structs \in Seq(StructEntry(text))
  BY <1>1, <1>5 DEF Tables
<1>7. /\ DeclaresFunctions(<<>>, functions, text[Main], NULL, Len(text[Main]))
      /\ DeclaresStructs(<<>>, structs, text[Main], NULL, Len(text[Main]))
  BY <1>1, <1>4, <1>5 DEF Holds
<1> QED BY <1>1, <1>2, <1>6, <1>7, Zenon

LEMMA InitLinked == Init => Linked
<1> SUFFICES ASSUME Init PROVE Linked
  OBVIOUS
<1>1. /\ text \in Texts /\ Main \in DOMAIN text
      /\ frames = <<[file |-> Main, prefix |-> NULL, next |-> 1, saved |-> FALSE]>>
      /\ open = <<>> /\ code = <<>>
      /\ result = "none"
      /\ functions \in Seq(FunctionEntry(text)) /\ Distinct(functions)
      /\ structs \in Seq(StructEntry(text))
      /\ DeclaresFunctions(<<>>, functions, text[Main], NULL, Len(text[Main]))
  BY InitFacts
<1>2. is_go \in BOOLEAN
  BY InitFacts, Zenon
<1>3. Len(frames) = 1 /\ frames[1].file = Main /\ frames[1].prefix = NULL /\ frames[1].next = 1
  BY <1>1
<1>4. Kinds
  <2>1. <<>> \in Seq(Instructions(text)) /\ <<>> \in Seq(Opens(text))
    OBVIOUS
  <2> QED BY <1>1, <1>2, <2>1, Zenon DEF Kinds
<1>5. Chain
  <2>1. Len(text[Main]) \in Nat
    BY <1>1, TextTypes
  <2> QED BY <1>3, <2>1 DEF Chain
<1>6. InFunction /\ Opened
  BY <1>1 DEF InFunction, Opened
<1>7. \A i \in 1 .. Len(functions) :
        /\ functions[i].addr = Unknown /\ functions[i].pending = <<>>
        /\ \E j \in 1 .. Len(text[Main]) :
            /\ text[Main][j].kind = "fun"
            /\ functions[i].name = [prefix |-> NULL, name |-> text[Main][j].name]
  <2>1. Len(functions) \in Nat
    BY <1>1
  <2>2. \A i \in 1 .. Len(functions) : i \in Len(<<>>) + 1 .. Len(functions) /\ ~(i <= Len(<<>>))
    BY <2>1
  <2> QED BY <1>1, <2>2 DEF DeclaresFunctions
<1>8. Awaited
  <2> SUFFICES ASSUME NEW i \in 1 .. Len(functions)
               PROVE  \E k \in 1 .. Len(frames) :
                        /\ frames[k].prefix = functions[i].name.prefix
                        /\ \E j \in frames[k].next .. Len(text[frames[k].file]) :
                            /\ text[frames[k].file][j].kind = "fun"
                            /\ text[frames[k].file][j].name = functions[i].name.name
    BY DEF Awaited
  <2>1. PICK j \in 1 .. Len(text[Main]) :
            /\ text[Main][j].kind = "fun"
            /\ functions[i].name = [prefix |-> NULL, name |-> text[Main][j].name]
    BY <1>7
  <2>2. functions[i].name.prefix = NULL /\ functions[i].name.name = text[Main][j].name
    BY <2>1
  <2>3. 1 \in 1 .. Len(frames)
    BY <1>3
  <2> QED BY <1>3, <2>1, <2>2, <2>3
<1>9. Pending
  <2>1. \A i \in 1 .. Len(functions) : Len(functions[i].pending) = 0
    BY <1>7
  <2>2. 0 <= MaxPatches
    BY ModulesAssumption
  <2> QED BY <1>7, <2>1, <2>2 DEF Pending
<1> QED BY <1>4, <1>5, <1>6, <1>8, <1>9 DEF Linked

LEMMA NextLinked == LInv /\ [Next]_vars => LInv'
<1> SUFFICES ASSUME LInv, [Next]_vars PROVE LInv'
  OBVIOUS
<1>1. IInv'
  BY NextIInv DEF LInv
<1>2. CASE BeginFunction
  BY <1>1, <1>2, BeginFunctionLinked DEF LInv
<1>3. CASE DefineStruct
  BY <1>1, <1>3, DefineStructLinked DEF LInv
<1>4. CASE EndFunction
  BY <1>1, <1>4, EndFunctionLinked DEF LInv
<1>5. CASE BeginLambda
  BY <1>1, <1>5, BeginLambdaLinked DEF LInv
<1>6. CASE RefuseImport \/ FailImport
  BY <1>1, <1>6, PassingLinked DEF LInv
<1>7. CASE BeginImport
  BY <1>1, <1>7, BeginImportLinked DEF LInv
<1>8. CASE EndImport
  BY <1>1, <1>8, EndImportLinked DEF LInv
<1>9. CASE Refer
  <2>1. open # <<>>
    BY <1>9, Zenon DEF Refer, InBody
  <2>2. CASE \E u \in Functions : Undefined(u)
    <3>1. UNCHANGED <<text, frames, open, functions, structs, code, is_go, result>>
      BY <2>2, Zenon DEF Undefined
    <3> QED BY <1>1, <3>1, UndefinedLinked DEF LInv
  <2>3. CASE \E u \in Functions : UseValue(u)
    BY <1>1, <2>3, UseValueLinked DEF LInv
  <2>4. CASE \E u \in Functions : \E go \in BOOLEAN : BeginCall(u, go)
    <3>1. PICK u \in Functions, go \in BOOLEAN : BeginCall(u, go)
      BY <2>4
    <3> QED BY <1>1, <2>1, <3>1, BeginCallLinked DEF LInv
  <2>5. CASE \E go \in BOOLEAN : BeginValueCall(go)
    BY <1>1, <2>1, <2>5, BeginValueCallLinked DEF LInv
  <2>6. CASE \E u \in Own("struct") \cup Foreign("struct") : Instantiate(u)
    BY <1>1, <2>6, InstantiateLinked DEF LInv
  <2> QED BY <1>9, <2>2, <2>3, <2>4, <2>5, <2>6, Zenon DEF Refer
<1>10. CASE EndCall
  BY <1>1, <1>10, EndCallLinked DEF LInv
<1>11. CASE Mistake
  <2>1. UNCHANGED <<text, frames, open, functions, structs, code, is_go, result>>
    BY <1>11, Zenon DEF Mistake
  <2> QED BY <1>1, <2>1, UndefinedLinked DEF LInv
<1>12. CASE Finish
  BY <1>1, <1>12, FinishLinked DEF LInv
<1>13. CASE Finished \/ UNCHANGED vars
  <2>1. UNCHANGED <<text, frames, open, functions, structs, code, is_go, result>>
    BY <1>13, Zenon DEF Finished, vars
  <2> QED BY <1>1, <2>1, UndefinedLinked DEF LInv
<1>14. CASE BeginGo \/ EndGo
  BY <1>1, <1>14, BeginGoLinked, EndGoLinked DEF LInv
<1> QED
  BY <1>2, <1>3, <1>4, <1>5, <1>6, <1>7, <1>8, <1>9, <1>10, <1>11, <1>12, <1>13, <1>14,
     Zenon DEF Next

LEMMA LinkInvariant == Spec => []LInv
<1>1. Init => LInv
  BY InitIInv, InitLinked DEF LInv
<1> QED BY <1>1, NextLinked, PTL DEF Spec

\* The compiler's state is well formed in every program: indices are in their
\* tables, the calls that a function remembers are in the chunk and fit in its
\* pending_call_patches.
THEOREM TypeCorrect == Spec => []TypeOK
<1>1. ASSUME LInv
      PROVE  TypeOK
  <2>1. IInv /\ Kinds /\ Chain /\ InFunction /\ Opened /\ Pending
    BY <1>1 DEF LInv, Linked
  <2>2. /\ text \in Texts /\ frames \in Seq(Frame(text))
        /\ had_error \in BOOLEAN /\ TablesFit
    BY <2>1 DEF IInv, Typed
  <2>3. ASSUME NEW i \in DOMAIN frames
        PROVE  /\ frames[i].file \in DOMAIN text
               /\ frames[i].next \in 1 .. Len(text[frames[i].file]) + 1
               /\ frames[i].saved \in BOOLEAN
    <3>1. i \in 1 .. Len(frames) /\ frames[i] \in Frame(text)
      BY <2>2
    <3> QED BY <2>1, <3>1 DEF Chain, Frame
  <2>4. ASSUME NEW i \in DOMAIN open
        PROVE  \/ open[i].kind = "body" /\ open[i].func \in {0} \cup DOMAIN functions
                                        /\ open[i].jump \in DOMAIN code
               \/ open[i].kind = "call" /\ open[i].go \in BOOLEAN
                    /\ open[i].func \in {NativeIndex, ValueIndex} \cup DOMAIN functions
               \/ open[i].kind = "go" /\ open[i].begun \in DOMAIN code
    <3>1. i \in 1 .. Len(open) /\ open[i] \in Opens(text) /\ Len(open) \in Nat
      BY <2>1, Lengths
    <3>2. /\ DOMAIN functions = 1 .. Len(functions) /\ DOMAIN code = 1 .. Len(code)
      BY <2>1, Lengths
    <3>3. IsOpened(open[i], i, functions, code)
      BY <2>1, <3>1 DEF Opened
    <3>4. CASE open[i].kind = "body"
      <4>1. open[i].jump \in 1 .. Len(code) /\ (i > 1 => open[i].func = 0)
        BY <3>3, <3>4 DEF IsOpened
      <4>2. i = 1 => open[i].func \in 1 .. Len(functions)
        <5>1. open # <<>>
          BY <3>1
        <5> QED BY <2>1, <5>1 DEF InFunction
      <4>3. i = 1 \/ i > 1
        BY <3>1
      <4> QED BY <3>2, <3>4, <4>1, <4>2, <4>3
    <3>5. CASE open[i].kind = "call"
      <4>1. open[i] \in Calls(text)
        BY <3>1, <3>5 DEF Bodies, Gos, Opens
      <4>2. open[i].go \in BOOLEAN
        BY <4>1 DEF Calls
      <4>3. open[i].func \in {NativeIndex, ValueIndex} \cup 1 .. Len(functions)
        BY <3>3, <3>5 DEF IsOpened
      <4> QED BY <3>2, <3>5, <4>2, <4>3
    <3>6. CASE open[i].kind = "go"
      BY <3>2, <3>3, <3>6 DEF IsOpened
    <3> QED BY <3>1, <3>4, <3>5, <3>6 DEF Bodies, Calls, Gos, Opens
  <2>5. ASSUME NEW i \in DOMAIN functions
        PROVE  /\ functions[i].addr \in {Unknown} \cup DOMAIN code
               /\ functions[i].public \in BOOLEAN /\ functions[i].known \in BOOLEAN
               /\ ToSet(functions[i].pending) \subseteq DOMAIN code
               /\ Len(functions[i].pending) <= MaxPatches
    <3>1. i \in 1 .. Len(functions) /\ functions[i] \in FunctionEntry(text)
          /\ DOMAIN code = 1 .. Len(code)
      BY <2>1, Lengths
    <3>2. functions[i].pending \in Seq(Nat)
      BY <3>1 DEF FunctionEntry
    <3>3. ToSet(functions[i].pending) \subseteq DOMAIN code
      <4>1. \A k \in 1 .. Len(functions[i].pending) : functions[i].pending[k] \in DOMAIN code
        BY <2>1, <3>1 DEF Pending
      <4> QED BY <3>2, <4>1 DEF ToSet
    <3>4. functions[i].public \in BOOLEAN /\ functions[i].known \in BOOLEAN
      BY <3>1 DEF FunctionEntry
    <3> QED BY <2>1, <3>1, <3>3, <3>4 DEF Pending
  <2>6. is_go \in BOOLEAN /\ result \in {"none", "chunk", "null"}
    BY <2>1 DEF Kinds
  <2> QED BY <2>2, <2>3, <2>4, <2>5, <2>6, Zenon DEF TypeOK
<1> QED BY <1>1, LinkInvariant, PTL

-----------------------------------------------------------------------------
(* Calls that wait *)

\* no function remembers more calls than there are references
Bounded ==
    /\ Running => Uses <= MaxUses
    /\ Running /\ open # <<>> => Uses + Len(open) <= MaxUses + 1
    /\ \A i \in 1 .. Len(functions) : Len(functions[i].pending) <= Uses

LEMMA UsesFinite ==
    ASSUME Kinds
    PROVE  /\ Uses \in Nat /\ IsFiniteSet({c \in DOMAIN code : code[c].op \in UseOps})
<1>1. DOMAIN code = 1 .. Len(code) /\ Len(code) \in Nat
  BY Lengths
<1>2. IsFiniteSet(DOMAIN code)
  BY <1>1, FS_Interval
<1>3. IsFiniteSet({c \in DOMAIN code : code[c].op \in UseOps})
  BY <1>2, FS_Subset
<1> QED BY <1>3, FS_CardinalityType DEF Uses

\* Instructions that are no references.
LEMMA UsesSame ==
    ASSUME Kinds, Kinds', Grown,
           \A c \in Len(code) + 1 .. Len(code') : code'[c].op \notin UseOps
    PROVE  Uses' = Uses
<1>1. /\ DOMAIN code = 1 .. Len(code) /\ Len(code) \in Nat
      /\ DOMAIN code' = 1 .. Len(code') /\ Len(code') \in Nat
  BY Lengths
<1>2. /\ Len(code') >= Len(code)
      /\ \A c \in 1 .. Len(code) : code'[c].op = code[c].op
  BY DEF Grown
<1>3. {c \in DOMAIN code' : code'[c].op \in UseOps} = {c \in DOMAIN code : code[c].op \in UseOps}
  <2>1. \A c \in DOMAIN code' : c \in DOMAIN code \/ c \in Len(code) + 1 .. Len(code')
    BY <1>1
  <2>2. \A c \in DOMAIN code : c \in DOMAIN code'
    BY <1>1, <1>2
  <2> QED BY <1>1, <1>2, <2>1, <2>2
<1> QED BY <1>3 DEF Uses

\* ... and one reference, at place d.
LEMMA UsesOne ==
    ASSUME Kinds, Kinds', Grown, NEW d \in Len(code) + 1 .. Len(code'),
           code'[d].op \in UseOps,
           \A c \in Len(code) + 1 .. Len(code') : c # d => code'[c].op \notin UseOps
    PROVE  Uses' = Uses + 1
<1> DEFINE S == {c \in DOMAIN code : code[c].op \in UseOps}
<1>1. /\ DOMAIN code = 1 .. Len(code) /\ Len(code) \in Nat
      /\ DOMAIN code' = 1 .. Len(code') /\ Len(code') \in Nat
  BY Lengths
<1>2. /\ Len(code') >= Len(code)
      /\ \A c \in 1 .. Len(code) : code'[c].op = code[c].op
  BY DEF Grown
<1>3. d \in DOMAIN code' /\ d \notin S
  BY <1>1
<1>4. {c \in DOMAIN code' : code'[c].op \in UseOps} = S \cup {d}
  <2>1. \A c \in DOMAIN code' : c \in DOMAIN code \/ c \in Len(code) + 1 .. Len(code')
    BY <1>1
  <2>2. \A c \in DOMAIN code : c \in DOMAIN code'
    BY <1>1, <1>2
  <2> QED BY <1>1, <1>2, <1>3, <2>1, <2>2
<1>5. IsFiniteSet(S) /\ Uses = Cardinality(S)
  BY UsesFinite DEF Uses
<1>6. Uses' = Cardinality(S \cup {d})
  BY <1>4 DEF Uses
<1> HIDE DEF S
<1> QED BY <1>3, <1>5, <1>6, FS_AddElement

\* Nothing takes references away.
LEMMA UsesMore ==
    ASSUME Kinds, Kinds', Grown
    PROVE  Uses' >= Uses /\ Uses \in Nat /\ Uses' \in Nat
<1> DEFINE S == {c \in DOMAIN code : code[c].op \in UseOps}
           T == {c \in DOMAIN code' : code'[c].op \in UseOps}
<1>1. /\ DOMAIN code = 1 .. Len(code) /\ Len(code) \in Nat
      /\ DOMAIN code' = 1 .. Len(code') /\ Len(code') \in Nat
  BY Lengths
<1>2. /\ Len(code') >= Len(code)
      /\ \A c \in 1 .. Len(code) : code'[c].op = code[c].op
  BY DEF Grown
<1>3. S \in SUBSET T
  BY <1>1, <1>2
<1>4. IsFiniteSet(T)
  <2>1. IsFiniteSet(DOMAIN code')
    BY <1>1, FS_Interval
  <2> QED BY <2>1, FS_Subset
<1>5. Uses = Cardinality(S) /\ Uses' = Cardinality(T)
  BY DEF Uses
<1> HIDE DEF S, T
<1>6. Cardinality(S) <= Cardinality(T) /\ Cardinality(S) \in Nat /\ Cardinality(T) \in Nat
  BY <1>3, <1>4, FS_Subset, FS_CardinalityType
<1> QED BY <1>5, <1>6

\* A step that emits no reference, opens nothing, and lets no call wait.
LEMMA BoundedKept ==
    ASSUME Kinds, Kinds', Grown, Bounded,
           \A c \in Len(code) + 1 .. Len(code') : code'[c].op \notin UseOps,
           result' = result, open' = open \/ open' = <<>>,
           \A i \in 1 .. Len(functions') :
                \/ Len(functions'[i].pending) = 0
                \/ /\ i \in 1 .. Len(functions)
                   /\ functions'[i].pending = functions[i].pending
    PROVE  Bounded'
<1>1. Uses' = Uses /\ Uses \in Nat
  BY UsesSame, UsesFinite
<1>2. \A i \in 1 .. Len(functions') : Len(functions'[i].pending) <= Uses'
  BY <1>1 DEF Bounded
<1>3. Running' => Uses' <= MaxUses
  BY <1>1 DEF Bounded, Running
<1>4. Running' /\ open' # <<>> => Uses' + Len(open') <= MaxUses + 1
  BY <1>1 DEF Bounded, Running
<1> QED BY <1>2, <1>3, <1>4 DEF Bounded

\* Steps that emit at most one instruction.
LEMMA EmitBounded ==
    ASSUME Kinds, Kinds', Bounded, UNCHANGED <<text, functions, open>>,
           result = "none", open # <<>>, Uses + Len(open) <= MaxUses,
           \/ code' = code
           \/ /\ Len(code') = Len(code) + 1
              /\ \A c \in 1 .. Len(code) : code'[c] = code[c]
              /\ code'[Len(code) + 1].op \in UseOps
    PROVE  Bounded'
<1>0. /\ Len(functions) \in Nat /\ Len(code) \in Nat
      /\ Len(open) \in Nat /\ Uses \in Nat /\ MaxUses \in Nat
  BY Lengths, UsesFinite, ModulesAssumption
<1>1. Grown
  BY <1>0 DEF Grown
<1>2. Uses' \in {Uses, Uses + 1}
  <2>1. CASE code' = code
    <3>1. \A c \in Len(code) + 1 .. Len(code') : FALSE
      BY <1>0, <2>1
    <3> QED BY <1>1, <3>1, UsesSame
  <2>2. CASE /\ Len(code') = Len(code) + 1
             /\ code'[Len(code) + 1].op \in UseOps
    <3>1. Len(code) + 1 \in Len(code) + 1 .. Len(code')
      BY <1>0, <2>2
    <3>2. \A c \in Len(code) + 1 .. Len(code') : c = Len(code) + 1
      BY <1>0, <2>2
    <3> QED BY <1>1, <2>2, <3>1, <3>2, UsesOne
  <2> QED BY <2>1, <2>2
<1>3. Len(open) >= 1
  BY <1>0 DEF Kinds
<1>4. Uses' <= MaxUses /\ Uses' + Len(open) <= MaxUses + 1 /\ Uses' >= Uses
  BY <1>0, <1>2, <1>3
<1>5. \A i \in 1 .. Len(functions) : Len(functions[i].pending) <= Uses'
  <2> SUFFICES ASSUME NEW i \in 1 .. Len(functions)
               PROVE  Len(functions[i].pending) <= Uses'
    OBVIOUS
  <2>1. functions[i].pending \in Seq(Nat)
    BY Lengths DEF FunctionEntry
  <2>2. Len(functions[i].pending) \in Nat /\ Len(functions[i].pending) <= Uses
    BY <2>1 DEF Bounded
  <2> QED BY <1>0, <1>2, <2>2
<1> QED BY <1>4, <1>5 DEF Bounded

LEMMA UseValueBounded ==
    ASSUME LInv, LInv', Bounded, InBody, NEW u \in Functions, UseValue(u)
    PROVE  Bounded'
<1> DEFINE i == Resolve(u)
           m == Meaning(u, "fun")
           v == Instruction("value", functions[i].addr, m, FALSE)
           w == Instruction("native", 0, m, FALSE)
<1>1. /\ UNCHANGED <<text, functions, open>>
      /\ code' = Append(code, IF IsFunction(i) THEN v ELSE w)
      /\ result = "none" /\ open # <<>> /\ Uses + Len(open) <= MaxUses
  BY Zenon DEF UseValue, InBody, Running
<1>2. Kinds /\ Kinds'
  BY DEF LInv, Linked
<1>3. v.op \in UseOps /\ w.op \in UseOps
  BY DEF Instruction, UseOps
<1> HIDE DEF v, w
<1>4. code \in Seq(Instructions(text)) /\ Len(code) \in Nat
  BY <1>2 DEF Kinds
<1> DEFINE e == IF IsFunction(i) THEN v ELSE w
<1>5. e.op \in UseOps /\ code' = Append(code, e)
  BY <1>1, <1>3
<1> HIDE DEF e
<1>6. /\ Len(code') = Len(code) + 1
      /\ \A c \in 1 .. Len(code) : code'[c] = code[c]
      /\ code'[Len(code) + 1].op \in UseOps
  BY <1>4, <1>5
<1> QED BY <1>1, <1>2, <1>6, EmitBounded

LEMMA InstantiateBounded ==
    ASSUME LInv, LInv', Bounded, InBody, NEW u, Instantiate(u)
    PROVE  Bounded'
<1> DEFINE e == Plain("struct", 0)
<1>1. /\ UNCHANGED <<text, functions, open>>
      /\ code' = code \/ code' = Append(code, e)
      /\ result = "none" /\ open # <<>> /\ Uses + Len(open) <= MaxUses
  BY Zenon DEF Instantiate, InBody, Running
<1>2. Kinds /\ Kinds'
  BY DEF LInv, Linked
<1>3. e.op \in UseOps
  BY DEF Plain, Instruction, UseOps
<1> HIDE DEF e
<1>4. code \in Seq(Instructions(text)) /\ Len(code) \in Nat
  BY <1>2 DEF Kinds
<1>5. \/ code' = code
      \/ /\ Len(code') = Len(code) + 1
         /\ \A c \in 1 .. Len(code) : code'[c] = code[c]
         /\ code'[Len(code) + 1].op \in UseOps
  BY <1>1, <1>3, <1>4
<1> QED BY <1>1, <1>2, <1>5, EmitBounded

\* Steps that open a call or a function without a name.
LEMMA OpenBounded ==
    ASSUME LInv, LInv', Bounded, InBody, UNCHANGED <<text, functions, result>>,
           NEW o, open' = Append(open, o), Len(code') >= Len(code),
           \A c \in 1 .. Len(code) : code'[c] = code[c],
           \A c \in Len(code) + 1 .. Len(code') : code'[c].op \notin UseOps
    PROVE  Bounded'
<1>1. Kinds /\ Kinds'
  BY DEF LInv, Linked
<1>2. result = "none" /\ open # <<>> /\ Uses + Len(open) <= MaxUses
  BY DEF InBody, Running
<1>3. Grown
  BY <1>1, Lengths DEF Grown
<1>4. Uses' = Uses /\ Uses \in Nat /\ Len(open) \in Nat /\ MaxUses \in Nat
  BY <1>1, <1>3, UsesSame, UsesFinite, Lengths, ModulesAssumption
<1>5. Len(open') = Len(open) + 1
  BY <1>1 DEF Kinds
<1>6. Uses' <= MaxUses /\ Uses' + Len(open') <= MaxUses + 1
  BY <1>2, <1>4, <1>5
<1>7. \A i \in 1 .. Len(functions') : Len(functions'[i].pending) <= Uses'
  BY <1>4 DEF Bounded
<1> QED BY <1>6, <1>7 DEF Bounded

LEMMA BeginLambdaBounded ==
    ASSUME LInv, LInv', Bounded, BeginLambda
    PROVE  Bounded'
<1> DEFINE j == Plain("jump", Unknown)
           e == Plain("entry", Len(code) + 2)
           o == [kind |-> "body", func |-> 0, jump |-> Len(code) + 1]
<1>1. /\ UNCHANGED <<text, functions, result>>
      /\ InBody /\ open' = Append(open, o) /\ code' = code \o <<j, e>>
  BY Zenon DEF BeginLambda
<1>2. j.op = "jump" /\ e.op = "entry"
  BY DEF Plain, Instruction
<1> HIDE DEF j, e, o
<1>3. code \in Seq(Instructions(text)) /\ Len(code) \in Nat
  BY DEF LInv, Linked, Kinds
<1>4. /\ Len(code') = Len(code) + 2
      /\ \A c \in 1 .. Len(code) : code'[c] = code[c]
      /\ code'[Len(code) + 1] = j /\ code'[Len(code) + 2] = e
  BY <1>1, <1>3
<1>5. \A c \in Len(code) + 1 .. Len(code') : c = Len(code) + 1 \/ c = Len(code) + 2
  BY <1>3, <1>4
<1>6. \A c \in Len(code) + 1 .. Len(code') : code'[c].op \notin UseOps
  BY <1>2, <1>4, <1>5 DEF UseOps
<1>7. Len(code') >= Len(code)
  BY <1>3, <1>4
<1> QED BY <1>1, <1>4, <1>6, <1>7, OpenBounded

\* A call is inside of a function.
LEMMA CallInBody ==
    ASSUME LInv, open # <<>>, Last(open).kind = "call"
    PROVE  Len(open) >= 2 /\ Len(open) \in Nat
<1>1. Kinds /\ InFunction
  BY DEF LInv, Linked
<1>2. open \in Seq(Opens(text))
  BY <1>1 DEF Kinds
<1> DEFINE n == Len(open)
<1>3. n \in Nat /\ n \in 1 .. n /\ Last(open) = open[n]
  <2>1. n \in Nat
    BY <1>2
  <2>2. Last(open) = open[n]
    BY DEF Last
  <2>3. n # 0
    BY <1>2
  <2> HIDE DEF n
  <2> QED BY <2>1, <2>2, <2>3
<1>4. open[1].kind = "body"
  BY <1>1 DEF InFunction
<1>5. n # 1
  BY <1>3, <1>4
<1> HIDE DEF n
<1>6. n >= 2
  BY <1>3, <1>5
<1> QED BY <1>3, <1>6 DEF n

LEMMA EndCallBounded ==
    ASSUME LInv, LInv', Bounded, EndCall
    PROVE  Bounded'
<1> DEFINE call == Last(open)
           i == call.func
           e == Emitted(call)
<1>1. /\ open # <<>> /\ call.kind = "call" /\ open' = Front(open)
      /\ UNCHANGED <<text, frames, structs, result>>
      /\ code' = Append(code, e)
      /\ CallOp(call) = "call" => Remember(i, Len(code) + 1)
      /\ CallOp(call) # "call" => functions' = functions
  BY EndCallFacts
<1>2. Kinds /\ Kinds'
  BY DEF LInv, Linked
<1>3. call \in Calls(text)
  BY <1>1, LastCallFacts
<1>4. Len(open) >= 2 /\ Len(open) \in Nat
  BY <1>1, CallInBody
<1>5. /\ e.op = CallOp(call) /\ CallOp(call) \in {"go", "call", "native", "invoke"}
      /\ CallOp(call) = "call" => i \in 1 .. Len(functions)
  <2> HIDE DEF call
  <2> QED BY <1>2, <1>3, EmittedFacts
<1> HIDE DEF call, i, e
<1>6. /\ code \in Seq(Instructions(text)) /\ Len(code) \in Nat
      /\ open \in Seq(Opens(text))
      /\ functions \in Seq(FunctionEntry(text)) /\ Len(functions) \in Nat
  BY <1>2 DEF Kinds
<1>7. /\ Len(code') = Len(code) + 1
      /\ \A c \in 1 .. Len(code) : code'[c] = code[c]
      /\ code'[Len(code) + 1].op \in UseOps
  <2>1. /\ Len(code') = Len(code) + 1
        /\ \A c \in 1 .. Len(code) : code'[c] = code[c]
        /\ code'[Len(code) + 1] = e
    BY <1>1, <1>6
  <2> QED BY <1>5, <2>1 DEF UseOps
<1>8. Len(open') = Len(open) - 1
  BY <1>1, <1>6, FrontFacts
<1>9. /\ Len(functions') = Len(functions)
      /\ \A l \in 1 .. Len(functions) :
            /\ functions'[l].name = functions[l].name
            /\ \/ functions'[l].pending = functions[l].pending
               \/ functions'[l].pending = Append(functions[l].pending, Len(code) + 1)
  <2>1. CASE CallOp(call) = "call"
    <3>1. i \in 1 .. Len(functions) /\ Remember(i, Len(code) + 1)
      BY <1>1, <1>5, <2>1
    <3>2. /\ Len(functions') = Len(functions)
          /\ \A l \in 1 .. Len(functions) : /\ l # i => functions'[l] = functions[l]
                                            /\ functions'[l].name = functions[l].name
          /\ \/ functions'[i].pending = functions[i].pending
             \/ functions'[i].pending = Append(functions[i].pending, Len(code) + 1)
      BY <1>2, <3>1, RememberFacts
    <3> QED BY <3>2
  <2>2. CASE CallOp(call) # "call"
    BY <1>1, <2>2
  <2> QED BY <2>1, <2>2
<1>10. Grown
  BY <1>1, <1>6, <1>7, <1>9 DEF Grown
<1>11. Uses' = Uses + 1 /\ Uses \in Nat /\ MaxUses \in Nat
  <2>1. Len(code) + 1 \in Len(code) + 1 .. Len(code')
    BY <1>6, <1>7
  <2>2. \A c \in Len(code) + 1 .. Len(code') : c = Len(code) + 1
    BY <1>6, <1>7
  <2> QED BY <1>2, <1>7, <1>10, <2>1, <2>2, UsesOne, UsesFinite, ModulesAssumption
<1>12. Running => Uses + Len(open) <= MaxUses + 1
  BY <1>1 DEF Bounded
<1>13. Running' => Uses' <= MaxUses /\ Uses' + Len(open') <= MaxUses + 1
  BY <1>1, <1>4, <1>8, <1>11, <1>12 DEF Running
<1>14. ASSUME NEW l \in 1 .. Len(functions')
       PROVE  Len(functions'[l].pending) <= Uses'
  <2>1. l \in 1 .. Len(functions)
    BY <1>9
  <2>2. functions[l].pending \in Seq(Nat)
    BY <1>2, <2>1, Lengths DEF FunctionEntry
  <2> DEFINE p == functions[l].pending
  <2>3. p \in Seq(Nat) /\ Len(p) <= Uses
    BY <2>1, <2>2 DEF Bounded
  <2>4. functions'[l].pending = p \/ functions'[l].pending = Append(p, Len(code) + 1)
    BY <1>9, <2>1
  <2> HIDE DEF p
  <2>5. Len(p) \in Nat /\ Len(Append(p, Len(code) + 1)) = Len(p) + 1
    BY <1>6, <2>3
  <2>6. Len(functions'[l].pending) = Len(p) \/ Len(functions'[l].pending) = Len(p) + 1
    BY <2>4, <2>5
  <2> QED BY <1>11, <2>3, <2>5, <2>6
<1> QED BY <1>13, <1>14 DEF Bounded

LEMMA EndFunctionBounded ==
    ASSUME LInv, LInv', Bounded, EndFunction
    PROVE  Bounded'
<1> DEFINE r == Plain("ret", 0)
           v == Plain("value", Last(open).jump + 1)
           longer == Append(code, r)
           closed == Patch(longer, {Last(open).jump}, Len(code) + 2)
<1>1. Kinds /\ Kinds'
  BY DEF LInv, Linked
<1>2. /\ open # <<>> /\ Last(open).kind = "body" /\ open' = Front(open)
      /\ UNCHANGED <<text, result>>
      /\ code' \in Seq(Instructions(text)) /\ Len(code') > Len(code)
      /\ \A c \in 1 .. Len(code) : code'[c].op = code[c].op
      /\ Len(functions') = Len(functions)
      /\ \A i \in 1 .. Len(functions) : /\ functions'[i].name = functions[i].name
                                        /\ functions'[i].pending = functions[i].pending
  BY EndFunctionFacts
<1>3. /\ code \in Seq(Instructions(text)) /\ Len(code) \in Nat
      /\ open \in Seq(Opens(text)) /\ Len(open) \in Nat
      /\ Len(functions) \in Nat /\ Len(code') \in Nat
  BY <1>1, <1>2 DEF Kinds
<1>4. Grown
  BY <1>2, <1>3 DEF Grown
<1>5. Len(open') = Len(open) - 1
  BY <1>2, <1>3, FrontFacts
<1>6. CASE Last(open).func # 0
  <2>1. code' = closed
    BY <1>6, Zenon DEF EndFunction
  <2>2. r.op = "ret" /\ r \in Instructions(text)
    <3>1. "ret" \in UseOps \cup {"jump", "entry", "ret", "halt"} /\ 0 \in Int
      OBVIOUS
    <3> QED BY <3>1, PlainTypes
  <2> HIDE DEF r
  <2>3. /\ longer \in Seq(Instructions(text)) /\ Len(longer) = Len(code) + 1
        /\ longer[Len(code) + 1] = r
    BY <1>3, <2>2
  <2> HIDE DEF longer
  <2>4. Len(closed) = Len(code) + 1 /\ closed[Len(code) + 1].op = "ret"
    <3>1. Len(code) + 2 \in Int /\ Len(code) + 1 \in 1 .. Len(longer)
      BY <1>3, <2>3
    <3> QED BY <2>2, <2>3, <3>1, PatchFacts
  <2> HIDE DEF closed
  <2>5. \A c \in Len(code) + 1 .. Len(code') : c = Len(code) + 1
    BY <1>3, <2>1, <2>4
  <2>6. \A c \in Len(code) + 1 .. Len(code') : code'[c].op \notin UseOps
    BY <2>1, <2>4, <2>5 DEF UseOps
  <2>7. open' = <<>>
    BY <1>6, EndFunctionFacts
  <2> QED BY <1>1, <1>2, <1>4, <2>6, <2>7, BoundedKept
<1>7. CASE Last(open).func = 0
  <2>1. code' = Append(closed, v)
    BY <1>7, Zenon DEF EndFunction
  <2>2. /\ r.op = "ret" /\ r \in Instructions(text)
        /\ v.op = "value"
    <3>1. "ret" \in UseOps \cup {"jump", "entry", "ret", "halt"} /\ 0 \in Int
      OBVIOUS
    <3>2. v.op = "value"
      BY DEF Plain, Instruction
    <3> QED BY <3>1, <3>2, PlainTypes
  <2> HIDE DEF r, v
  <2>3. /\ longer \in Seq(Instructions(text)) /\ Len(longer) = Len(code) + 1
        /\ longer[Len(code) + 1] = r
    BY <1>3, <2>2
  <2> HIDE DEF longer
  <2>4. /\ Len(closed) = Len(code) + 1 /\ closed[Len(code) + 1].op = "ret"
        /\ closed \in Seq(Instructions(text))
    <3>1. Len(code) + 2 \in Int /\ Len(code) + 1 \in 1 .. Len(longer)
      BY <1>3, <2>3
    <3> QED BY <2>2, <2>3, <3>1, PatchFacts
  <2> HIDE DEF closed
  <2>5. /\ Len(code') = Len(code) + 2 /\ code'[Len(code) + 1].op = "ret"
        /\ code'[Len(code) + 2] = v
    <3>1. Len(code) + 1 \in 1 .. Len(closed) /\ Len(code) + 2 = Len(closed) + 1
      BY <1>3, <2>4
    <3>2. /\ Len(Append(closed, v)) = Len(closed) + 1
          /\ Append(closed, v)[Len(closed) + 1] = v
          /\ Append(closed, v)[Len(code) + 1] = closed[Len(code) + 1]
      BY <2>4, <3>1
    <3> QED BY <2>1, <2>4, <3>1, <3>2
  <2>6. \A c \in Len(code) + 1 .. Len(code') : c = Len(code) + 1 \/ c = Len(code) + 2
    BY <1>3, <2>5
  <2>7. Len(code) + 2 \in Len(code) + 1 .. Len(code') /\ Len(code) + 1 # Len(code) + 2
    BY <1>3, <2>5
  <2>8. Uses' = Uses + 1 /\ Uses \in Nat /\ MaxUses \in Nat
    <3>1. /\ code'[Len(code) + 2].op \in UseOps
          /\ \A c \in Len(code) + 1 .. Len(code') :
                c # Len(code) + 2 => code'[c].op \notin UseOps
      BY <2>2, <2>5, <2>6 DEF UseOps
    <3> QED BY <1>1, <1>4, <2>7, <3>1, UsesOne, UsesFinite, ModulesAssumption
  <2>9. Len(open) > 1
    BY <1>2, <1>7, LastBodyFacts
  <2>10. Running => Uses + Len(open) <= MaxUses + 1
    BY <1>2 DEF Bounded
  <2>11. Running' => Uses' <= MaxUses /\ Uses' + Len(open') <= MaxUses + 1
    BY <1>2, <1>3, <1>5, <2>8, <2>9, <2>10 DEF Running
  <2>12. ASSUME NEW l \in 1 .. Len(functions')
         PROVE  Len(functions'[l].pending) <= Uses'
    <3>1. l \in 1 .. Len(functions) /\ functions'[l].pending = functions[l].pending
      BY <1>2
    <3>2. functions[l].pending \in Seq(Nat)
      BY <1>1, <3>1, Lengths DEF FunctionEntry
    <3>3. Len(functions[l].pending) \in Nat /\ Len(functions[l].pending) <= Uses
      BY <3>1, <3>2 DEF Bounded
    <3> QED BY <2>8, <3>1, <3>3
  <2> QED BY <2>11, <2>12 DEF Bounded
<1> QED BY <1>6, <1>7

LEMMA BeginFunctionBounded ==
    ASSUME LInv, LInv', Bounded, BeginFunction
    PROVE  Bounded'
<1>1. Kinds /\ Kinds'
  BY DEF LInv, Linked
<1>2. /\ result = "none" /\ UNCHANGED <<text, result>>
      /\ Len(code') = Len(code) + 2
      /\ code'[Len(code) + 1].op = "jump" /\ code'[Len(code) + 2].op = "entry"
  BY BeginFunctionFacts
<1>3. PICK i \in Nat :
        /\ Begins(i)
        /\ \A c \in 1 .. Len(code) : code'[c].op = code[c].op
  BY BeginFunctionFacts
<1>4. /\ Len(functions') >= Len(functions)
      /\ functions'[i].pending = <<>>
      /\ functions'[i].name = [prefix |-> Module.prefix, name |-> Item.name]
      /\ i \in 1 .. Len(functions) =>
            functions[i].name = [prefix |-> Module.prefix, name |-> Item.name]
      /\ \A l \in 1 .. Len(functions') :
                l # i => l \in 1 .. Len(functions) /\ functions'[l] = functions[l]
      /\ open' = <<[kind |-> "body", func |-> i, jump |-> Len(code) + 1]>>
  BY <1>3 DEF Begins
<1>5. /\ Len(code) \in Nat /\ Uses \in Nat /\ MaxUses \in Nat
      /\ Len(functions) \in Nat /\ Len(functions') \in Nat
  BY <1>1, Lengths, UsesFinite, ModulesAssumption
<1>6. Grown
  <2>1. \A l \in 1 .. Len(functions) : functions'[l].name = functions[l].name
    <3> SUFFICES ASSUME NEW l \in 1 .. Len(functions)
                 PROVE  functions'[l].name = functions[l].name
      OBVIOUS
    <3>1. l \in 1 .. Len(functions')
      BY <1>4, <1>5
    <3> QED BY <1>4, <3>1
  <2>2. Len(code') >= Len(code)
    BY <1>2, <1>5
  <2> QED BY <1>2, <1>3, <1>4, <2>1, <2>2 DEF Grown
<1>7. \A c \in Len(code) + 1 .. Len(code') : code'[c].op \notin UseOps
  <2>1. \A c \in Len(code) + 1 .. Len(code') : c = Len(code) + 1 \/ c = Len(code) + 2
    BY <1>2, <1>5
  <2> QED BY <1>2, <2>1 DEF UseOps
<1>8. Uses' = Uses
  BY <1>1, <1>6, <1>7, UsesSame
<1>9. Len(open') = 1
  BY <1>4
<1>10. Uses <= MaxUses
  BY <1>2 DEF Bounded, Running
<1>11. Uses' <= MaxUses /\ Uses' + Len(open') <= MaxUses + 1
  BY <1>5, <1>8, <1>9, <1>10
<1>12. ASSUME NEW l \in 1 .. Len(functions')
       PROVE  Len(functions'[l].pending) <= Uses'
  <2>1. CASE l = i
    <3>1. Len(functions'[l].pending) = 0
      BY <1>4, <2>1
    <3> QED BY <1>5, <1>8, <3>1
  <2>2. CASE l # i
    BY <1>4, <1>8, <2>2 DEF Bounded
  <2> QED BY <2>1, <2>2
<1> QED BY <1>11, <1>12 DEF Bounded

LEMMA BeginImportBounded ==
    ASSUME LInv, LInv', Bounded, BeginImport
    PROVE  Bounded'
<1>1. Kinds /\ Kinds'
  BY DEF LInv, Linked
<1>2. /\ UNCHANGED <<text, open, code, result>>
      /\ DeclaresFunctions(functions, functions', text[Item.file], Item.alias,
                           Len(text[Item.file]))
  BY BeginImportFacts
<1>3. /\ Len(code) \in Nat /\ Len(functions) \in Nat /\ Len(functions') \in Nat
  BY <1>1, Lengths
<1>4. /\ Len(functions') >= Len(functions)
      /\ \A i \in 1 .. Len(functions) : /\ functions'[i].name = functions[i].name
                                        /\ functions'[i].pending = functions[i].pending
      /\ \A i \in Len(functions) + 1 .. Len(functions') : functions'[i].pending = <<>>
  BY <1>2 DEF DeclaresFunctions
<1>5. Grown
  BY <1>2, <1>3, <1>4 DEF Grown
<1>6. \A c \in Len(code) + 1 .. Len(code') : FALSE
  BY <1>2, <1>3
<1>7. \A i \in 1 .. Len(functions') :
        \/ Len(functions'[i].pending) = 0
        \/ i \in 1 .. Len(functions) /\ functions'[i].pending = functions[i].pending
  <2>1. \A i \in 1 .. Len(functions') :
            i \in 1 .. Len(functions) \/ i \in Len(functions) + 1 .. Len(functions')
    BY <1>3
  <2>2. \A i \in Len(functions) + 1 .. Len(functions') : Len(functions'[i].pending) = 0
    BY <1>4
  <2> QED BY <1>4, <2>1, <2>2
<1> QED BY <1>1, <1>2, <1>5, <1>6, <1>7, BoundedKept

LEMMA FinishBounded ==
    ASSUME LInv, LInv', Bounded, Finish
    PROVE  Bounded'
<1> DEFINE i == Find(functions, [prefix |-> NULL, name |-> "main"])
           e == Instruction("call", functions[i].addr, [file |-> Main, name |-> "main"], FALSE)
           h == Plain("halt", 0)
<1>1. Kinds /\ Kinds'
  BY DEF LInv, Linked
<1>2. /\ UNCHANGED <<text, functions>>
      /\ code' = code \o (IF i = 0 THEN <<>> ELSE <<e>>) \o <<h>>
      /\ result' \in {"chunk", "null"}
  BY Zenon DEF Finish
<1> HIDE DEF i, e, h
<1>3. code \in Seq(Instructions(text)) /\ Len(code) \in Nat /\ Len(functions) \in Nat
  BY <1>1, Lengths DEF Kinds
<1>4. Len(code') >= Len(code) /\ \A c \in 1 .. Len(code) : code'[c] = code[c]
  <2>1. CASE i = 0
    BY <1>2, <1>3, <2>1
  <2>2. CASE i # 0
    BY <1>2, <1>3, <2>2
  <2> QED BY <2>1, <2>2
<1>5. Grown
  BY <1>2, <1>3, <1>4 DEF Grown
<1>6. Uses' >= Uses /\ Uses \in Nat /\ Uses' \in Nat
  BY <1>1, <1>5, UsesMore
<1>7. ASSUME NEW l \in 1 .. Len(functions')
      PROVE  Len(functions'[l].pending) <= Uses'
  <2>1. l \in 1 .. Len(functions) /\ functions'[l] = functions[l]
    BY <1>2
  <2>2. functions[l].pending \in Seq(Nat)
    BY <1>1, <2>1, Lengths DEF FunctionEntry
  <2>3. Len(functions[l].pending) \in Nat /\ Len(functions[l].pending) <= Uses
    BY <2>1, <2>2 DEF Bounded
  <2> QED BY <1>6, <2>1, <2>3
<1>8. ~Running'
  BY <1>2 DEF Running
<1> QED BY <1>7, <1>8 DEF Bounded

\* Steps that leave the tables alone.
LEMMA BeginGoBounded ==
    ASSUME LInv, LInv', Bounded, BeginGo
    PROVE  Bounded'
<1> DEFINE o == [kind |-> "go", begun |-> Len(code)]
<1>1. /\ UNCHANGED <<text, functions, result>> /\ code' = code
      /\ InBody /\ open' = Append(open, o)
  BY Zenon DEF BeginGo
<1> HIDE DEF o
<1>2. Len(code) \in Nat
  BY Lengths DEF LInv, Linked
<1>3. Len(code') >= Len(code) /\ \A c \in Len(code) + 1 .. Len(code') : FALSE
  BY <1>1, <1>2
<1> QED BY <1>1, <1>3, OpenBounded

LEMMA EndGoBounded ==
    ASSUME LInv, LInv', Bounded, EndGo
    PROVE  Bounded'
<1>1. Kinds /\ Kinds'
  BY DEF LInv, Linked
<1>2. /\ UNCHANGED <<text, functions, code, result>>
      /\ open # <<>> /\ Len(open') = Len(open) - 1
  BY <1>1, EndGoFacts
<1>3. Uses' = Uses /\ Uses \in Nat /\ MaxUses \in Nat /\ Len(open) \in Nat
  BY <1>1, <1>2, UsesFinite, Lengths, ModulesAssumption DEF Uses
<1>4. Running' => Uses' <= MaxUses /\ Uses' + Len(open') <= MaxUses + 1
  BY <1>2, <1>3 DEF Bounded, Running
<1>5. \A i \in 1 .. Len(functions') : Len(functions'[i].pending) <= Uses'
  BY <1>2, <1>3 DEF Bounded
<1> QED BY <1>4, <1>5 DEF Bounded

LEMMA StillBounded ==
    ASSUME Kinds, Kinds', Bounded, UNCHANGED <<text, open, functions, code, result>>
    PROVE  Bounded'
<1>1. Grown
  BY SameGrown
<1>2. \A c \in Len(code) + 1 .. Len(code') : FALSE
  BY Lengths
<1> QED BY <1>1, <1>2, BoundedKept

LEMMA NextBounded == LInv /\ Bounded /\ LInv' /\ [Next]_vars => Bounded'
<1> SUFFICES ASSUME LInv, Bounded, LInv', [Next]_vars PROVE Bounded'
  OBVIOUS
<1>1. Kinds /\ Kinds' /\ Len(code) \in Nat
  BY Lengths DEF LInv, Linked
<1>2. CASE UNCHANGED <<text, open, functions, code, result>>
  BY <1>1, <1>2, StillBounded
<1>3. CASE DefineStruct \/ RefuseImport \/ FailImport \/ EndImport \/ Mistake
           \/ Finished \/ UNCHANGED vars
  <2>1. UNCHANGED <<text, open, functions, code, result>>
    BY <1>3, Zenon DEF DefineStruct, RefuseImport, FailImport, EndImport, Mistake,
       Finished, vars
  <2> QED BY <1>2, <2>1
<1>4. CASE BeginFunction
  BY <1>4, BeginFunctionBounded
<1>5. CASE EndFunction
  BY <1>5, EndFunctionBounded
<1>6. CASE BeginLambda
  BY <1>6, BeginLambdaBounded
<1>7. CASE BeginImport
  BY <1>7, BeginImportBounded
<1>8. CASE Refer
  <2>1. InBody
    BY <1>8, Zenon DEF Refer
  <2>2. CASE \E u \in Functions : Undefined(u)
    <3>1. UNCHANGED <<text, open, functions, code, result>>
      BY <2>2, Zenon DEF Undefined
    <3> QED BY <1>2, <3>1
  <2>3. CASE \E u \in Functions : UseValue(u)
    BY <2>1, <2>3, UseValueBounded
  <2>4. CASE \/ \E u \in Functions : \E go \in BOOLEAN : BeginCall(u, go)
             \/ \E go \in BOOLEAN : BeginValueCall(go)
    <3>1. UNCHANGED <<text, functions, code, result>> /\ \E o : open' = Append(open, o)
      BY <2>4, Zenon DEF BeginCall, BeginValueCall, OpenCall
    <3>2. PICK o : open' = Append(open, o)
      BY <3>1
    <3>3. /\ Len(code') >= Len(code) /\ \A c \in 1 .. Len(code) : code'[c] = code[c]
          /\ \A c \in Len(code) + 1 .. Len(code') : FALSE
      BY <1>1, <3>1
    <3> QED BY <2>1, <3>1, <3>2, <3>3, OpenBounded
  <2>5. CASE \E u \in Own("struct") \cup Foreign("struct") : Instantiate(u)
    BY <2>1, <2>5, InstantiateBounded
  <2> QED BY <1>8, <2>2, <2>3, <2>4, <2>5, Zenon DEF Refer
<1>9. CASE EndCall
  BY <1>9, EndCallBounded
<1>10. CASE Finish
  BY <1>10, FinishBounded
<1>11. CASE BeginGo \/ EndGo
  BY <1>11, BeginGoBounded, EndGoBounded
<1> QED BY <1>3, <1>4, <1>5, <1>6, <1>7, <1>8, <1>9, <1>10, <1>11, Zenon DEF Next

LEMMA InitBounded == Init => Bounded
<1> SUFFICES ASSUME Init PROVE Bounded
  OBVIOUS
<1>1. /\ open = <<>> /\ code = <<>> /\ functions \in Seq(FunctionEntry(text))
      /\ DeclaresFunctions(<<>>, functions, text[Main], NULL, Len(text[Main]))
  BY InitFacts
<1>2. Uses = 0
  <2>1. {c \in DOMAIN code : code[c].op \in UseOps} = {}
    BY <1>1
  <2> QED BY <2>1, FS_EmptySet DEF Uses
<1>3. \A i \in 1 .. Len(functions) : Len(functions[i].pending) = 0
  <2>1. Len(functions) \in Nat
    BY <1>1
  <2>2. \A i \in 1 .. Len(functions) : i \in Len(<<>>) + 1 .. Len(functions)
    BY <2>1
  <2>3. \A i \in 1 .. Len(functions) : functions[i].pending = <<>>
    BY <1>1, <2>2 DEF DeclaresFunctions
  <2> QED BY <2>3
<1>4. MaxUses \in Nat
  BY ModulesAssumption
<1> QED BY <1>1, <1>2, <1>3, <1>4 DEF Bounded


LEMMA BoundedInvariant == Spec => [](LInv /\ Bounded)
<1>1. Init => LInv /\ Bounded
  BY InitIInv, InitLinked, InitBounded DEF LInv
<1>2. LInv /\ Bounded /\ [Next]_vars => (LInv /\ Bounded)'
  <2>1. ASSUME LInv, Bounded, [Next]_vars
        PROVE  LInv' /\ Bounded'
    <3>1. LInv'
      BY <2>1, NextLinked
    <3> QED BY <2>1, <3>1, NextBounded
  <2> QED BY <2>1
<1> QED BY <1>1, <1>2, PTL DEF Spec

\* The calls without an address are those there were, and the functions that
\* remembered them still do.
LEMMA WaitKept ==
    ASSUME Kinds, Kinds', NoCallForgotten,
           \A c \in 1 .. Len(code') :
                code'[c].op = "call" /\ code'[c].addr = Unknown =>
                    /\ c \in 1 .. Len(code)
                    /\ code[c].op = "call" /\ code[c].addr = Unknown
                    /\ code'[c].means = code[c].means,
           \A i \in 1 .. Len(functions) :
                /\ i \in 1 .. Len(functions')
                /\ functions'[i].name = functions[i].name
                /\ functions'[i].addr = functions[i].addr
                /\ functions'[i].pending = functions[i].pending
    PROVE  NoCallForgotten'
<1>1. /\ DOMAIN code = 1 .. Len(code) /\ DOMAIN code' = 1 .. Len(code')
      /\ DOMAIN functions = 1 .. Len(functions) /\ DOMAIN functions' = 1 .. Len(functions')
  BY Lengths
<1> SUFFICES ASSUME NEW c \in DOMAIN code', code'[c].op = "call", code'[c].addr = Unknown
             PROVE  \E f \in DOMAIN functions' :
                        /\ functions'[f].addr = Unknown
                        /\ functions'[f].name.name = code'[c].means.name
                        /\ Contains(functions'[f].pending, c)
  BY DEF NoCallForgotten
<1>2. /\ c \in DOMAIN code /\ code[c].op = "call" /\ code[c].addr = Unknown
      /\ code'[c].means = code[c].means
  BY <1>1
<1>3. PICK f \in DOMAIN functions : /\ functions[f].addr = Unknown
                                    /\ functions[f].name.name = code[c].means.name
                                    /\ Contains(functions[f].pending, c)
  BY <1>2 DEF NoCallForgotten
<1>4. f \in DOMAIN functions' /\ functions'[f] = functions'[f]
  BY <1>1
<1> QED BY <1>1, <1>2, <1>3, <1>4

\* Steps that let the table of functions alone and emit no call.
LEMMA EmitWaits ==
    ASSUME Kinds, Kinds', NoCallForgotten, functions' = functions,
           \A c \in 1 .. Len(code) : code'[c] = code[c],
           \A c \in Len(code) + 1 .. Len(code') : code'[c].op # "call"
    PROVE  NoCallForgotten'
<1>1. Len(code) \in Nat /\ Len(code') \in Nat
  BY Lengths
<1>2. \A c \in 1 .. Len(code') : c \in 1 .. Len(code) \/ c \in Len(code) + 1 .. Len(code')
  BY <1>1
<1>3. \A c \in 1 .. Len(code') :
            code'[c].op = "call" /\ code'[c].addr = Unknown =>
                /\ c \in 1 .. Len(code)
                /\ code[c].op = "call" /\ code[c].addr = Unknown
                /\ code'[c].means = code[c].means
  BY <1>2
<1> QED BY <1>3, WaitKept

LEMMA UseValueWaits ==
    ASSUME LInv, LInv', NoCallForgotten, NEW u \in Functions, UseValue(u)
    PROVE  NoCallForgotten'
<1> DEFINE i == Resolve(u)
           m == Meaning(u, "fun")
           v == Instruction("value", functions[i].addr, m, FALSE)
           w == Instruction("native", 0, m, FALSE)
           e == IF IsFunction(i) THEN v ELSE w
<1>1. functions' = functions /\ code' = Append(code, e)
  BY Zenon DEF UseValue
<1>2. Kinds /\ Kinds'
  BY DEF LInv, Linked
<1>3. v.op = "value" /\ w.op = "native"
  BY DEF Instruction
<1>4. e.op # "call"
  BY <1>3
<1> HIDE DEF e
<1>5. code \in Seq(Instructions(text)) /\ Len(code) \in Nat
  BY <1>2 DEF Kinds
<1>6. /\ Len(code') = Len(code) + 1 /\ code'[Len(code) + 1] = e
      /\ \A c \in 1 .. Len(code) : code'[c] = code[c]
  BY <1>1, <1>5
<1>7. \A c \in Len(code) + 1 .. Len(code') : c = Len(code) + 1
  BY <1>5, <1>6
<1> QED BY <1>1, <1>2, <1>4, <1>6, <1>7, EmitWaits

LEMMA InstantiateWaits ==
    ASSUME LInv, LInv', NoCallForgotten, NEW u, Instantiate(u)
    PROVE  NoCallForgotten'
<1> DEFINE e == Plain("struct", 0)
<1>1. functions' = functions /\ (code' = code \/ code' = Append(code, e))
  BY Zenon DEF Instantiate
<1>2. Kinds /\ Kinds'
  BY DEF LInv, Linked
<1>3. e.op # "call"
  BY DEF Plain, Instruction
<1> HIDE DEF e
<1>4. code \in Seq(Instructions(text)) /\ Len(code) \in Nat
  BY <1>2 DEF Kinds
<1>5. /\ \A c \in 1 .. Len(code) : code'[c] = code[c]
      /\ \A c \in Len(code) + 1 .. Len(code') : code'[c].op # "call"
  <2>1. CASE code' = code
    BY <1>4, <2>1
  <2>2. CASE code' = Append(code, e)
    <3>1. /\ Len(code') = Len(code) + 1 /\ code'[Len(code) + 1] = e
          /\ \A c \in 1 .. Len(code) : code'[c] = code[c]
      BY <1>4, <2>2
    <3>2. \A c \in Len(code) + 1 .. Len(code') : c = Len(code) + 1
      BY <1>4, <3>1
    <3> QED BY <1>3, <3>1, <3>2
  <2> QED BY <1>1, <2>1, <2>2
<1> QED BY <1>1, <1>2, <1>5, EmitWaits

LEMMA BeginLambdaWaits ==
    ASSUME LInv, LInv', NoCallForgotten, BeginLambda
    PROVE  NoCallForgotten'
<1> DEFINE j == Plain("jump", Unknown)
           e == Plain("entry", Len(code) + 2)
<1>1. functions' = functions /\ code' = code \o <<j, e>>
  BY Zenon DEF BeginLambda
<1>2. Kinds /\ Kinds'
  BY DEF LInv, Linked
<1>3. j.op # "call" /\ e.op # "call"
  BY DEF Plain, Instruction
<1> HIDE DEF j, e
<1>4. code \in Seq(Instructions(text)) /\ Len(code) \in Nat
  BY <1>2 DEF Kinds
<1>5. /\ Len(code') = Len(code) + 2
      /\ \A c \in 1 .. Len(code) : code'[c] = code[c]
      /\ code'[Len(code) + 1] = j /\ code'[Len(code) + 2] = e
  BY <1>1, <1>4
<1>6. \A c \in Len(code) + 1 .. Len(code') : c = Len(code) + 1 \/ c = Len(code) + 2
  BY <1>4, <1>5
<1> QED BY <1>1, <1>2, <1>3, <1>5, <1>6, EmitWaits

LEMMA EndFunctionWaits ==
    ASSUME LInv, LInv', NoCallForgotten, EndFunction
    PROVE  NoCallForgotten'
<1>1. Kinds /\ Kinds'
  BY DEF LInv, Linked
<1>2. /\ \A c \in 1 .. Len(code) :
            /\ code'[c].op = code[c].op
            /\ code[c].op # "jump" => code'[c] = code[c]
      /\ \A c \in Len(code) + 1 .. Len(code') : code'[c].op \in {"ret", "value"}
      /\ Len(functions') = Len(functions)
      /\ \A i \in 1 .. Len(functions) : /\ functions'[i].name = functions[i].name
                                        /\ functions'[i].addr = functions[i].addr
                                        /\ functions'[i].pending = functions[i].pending
  BY EndFunctionFacts
<1>3. Len(code) \in Nat /\ Len(code') \in Nat
  BY <1>1, Lengths
<1>4. \A c \in 1 .. Len(code') : c \in 1 .. Len(code) \/ c \in Len(code) + 1 .. Len(code')
  BY <1>3
<1>5. \A c \in 1 .. Len(code') :
            code'[c].op = "call" /\ code'[c].addr = Unknown =>
                /\ c \in 1 .. Len(code)
                /\ code[c].op = "call" /\ code[c].addr = Unknown
                /\ code'[c].means = code[c].means
  BY <1>2, <1>4
<1> QED BY <1>1, <1>2, <1>5, WaitKept

LEMMA BeginImportWaits ==
    ASSUME LInv, LInv', NoCallForgotten, BeginImport
    PROVE  NoCallForgotten'
<1>1. Kinds /\ Kinds'
  BY DEF LInv, Linked
<1>2. /\ code' = code
      /\ DeclaresFunctions(functions, functions', text[Item.file], Item.alias,
                           Len(text[Item.file]))
  BY BeginImportFacts
<1>3. Len(functions) \in Nat /\ Len(functions') \in Nat
  BY <1>1, Lengths
<1>4. \A i \in 1 .. Len(functions) :
            /\ i \in 1 .. Len(functions')
            /\ functions'[i].name = functions[i].name
            /\ functions'[i].addr = functions[i].addr
            /\ functions'[i].pending = functions[i].pending
  BY <1>2, <1>3 DEF DeclaresFunctions
<1> QED BY <1>1, <1>2, <1>4, WaitKept

\* The calls that a function remembers get its address.
LEMMA BeginFunctionWaits ==
    ASSUME LInv, LInv', NoCallForgotten, BeginFunction
    PROVE  NoCallForgotten'
<1>1. Kinds /\ Kinds'
  BY DEF LInv, Linked
<1>2. /\ Len(code') = Len(code) + 2
      /\ code'[Len(code) + 1].op = "jump" /\ code'[Len(code) + 2].op = "entry"
  BY BeginFunctionFacts
<1>3. PICK i \in Nat :
        /\ Begins(i)
        /\ \A c \in 1 .. Len(code) :
            /\ code'[c].op = code[c].op /\ code'[c].means = code[c].means
            /\ c \in Places(i) => code'[c].addr = Len(code) + 2
            /\ c \notin Places(i) => code'[c] = code[c]
  BY BeginFunctionFacts
<1>4. /\ Len(functions') >= Len(functions)
      /\ \A l \in 1 .. Len(functions') :
            l # i => l \in 1 .. Len(functions) /\ functions'[l] = functions[l]
  BY <1>3 DEF Begins
<1>5. /\ DOMAIN code = 1 .. Len(code) /\ DOMAIN code' = 1 .. Len(code')
      /\ DOMAIN functions = 1 .. Len(functions) /\ DOMAIN functions' = 1 .. Len(functions')
      /\ Len(code) \in Nat /\ Len(functions) \in Nat /\ Len(functions') \in Nat
  BY <1>1, Lengths
<1> SUFFICES ASSUME NEW c \in DOMAIN code', code'[c].op = "call", code'[c].addr = Unknown
             PROVE  \E f \in DOMAIN functions' :
                        /\ functions'[f].addr = Unknown
                        /\ functions'[f].name.name = code'[c].means.name
                        /\ Contains(functions'[f].pending, c)
  BY DEF NoCallForgotten
<1>6. c \in 1 .. Len(code)
  <2>1. c \in 1 .. Len(code) \/ c = Len(code) + 1 \/ c = Len(code) + 2
    BY <1>2, <1>5
  <2> QED BY <1>2, <2>1
<1>7. c \notin Places(i)
  <2>1. Len(code) + 2 # Unknown
    BY <1>5 DEF Unknown
  <2> QED BY <1>3, <1>6, <2>1
<1>8. code'[c] = code[c]
  BY <1>3, <1>6, <1>7
<1>9. PICK f \in DOMAIN functions : /\ functions[f].addr = Unknown
                                    /\ functions[f].name.name = code[c].means.name
                                    /\ Contains(functions[f].pending, c)
  BY <1>5, <1>6, <1>8 DEF NoCallForgotten
<1>10. f # i
  <2> SUFFICES ASSUME f = i PROVE FALSE
    OBVIOUS
  <2>1. functions[i].pending \in Seq(Nat)
    BY <1>1, <1>5, <1>9, Lengths DEF FunctionEntry
  <2> DEFINE p == functions[i].pending
  <2>2. p \in Seq(Nat) /\ Contains(p, c)
    BY <1>9, <2>1
  <2> HIDE DEF p
  <2>3. c \in ToSet(p)
    BY <2>2 DEF Contains, ToSet
  <2>4. c \in Places(i)
    BY <1>5, <2>3 DEF Places, p
  <2> QED BY <1>7, <2>4
<1>11. f \in DOMAIN functions'
  BY <1>4, <1>5
<1>12. functions'[f] = functions[f]
  BY <1>4, <1>5, <1>10, <1>11
<1> QED BY <1>8, <1>9, <1>11, <1>12

\* There is room for the call: there are fewer references before it than a
\* function can remember calls.
LEMMA EndCallWaits ==
    ASSUME MaxUses <= MaxPatches, LInv, LInv', Bounded, NoCallForgotten, EndCall
    PROVE  NoCallForgotten'
<1> DEFINE call == Last(open)
           i == call.func
           e == Emitted(call)
<1>1. /\ open # <<>> /\ call.kind = "call"
      /\ code' = Append(code, e)
      /\ CallOp(call) = "call" => Remember(i, Len(code) + 1)
      /\ CallOp(call) # "call" => functions' = functions
  BY EndCallFacts
<1>2. Kinds /\ Kinds'
  BY DEF LInv, Linked
<1>3. /\ call \in Calls(text)
      /\ i \in {NativeIndex, ValueIndex} \/ functions[i].name.name = call.means.name
      /\ IsFunction(i) <=> i \in 1 .. Len(functions)
      /\ ~IsFunction(NativeIndex) /\ ~IsFunction(ValueIndex)
  BY <1>1, LastCallFacts
<1>4. Len(open) >= 2 /\ Len(open) \in Nat
  BY <1>1, CallInBody
<1>5. /\ e.op = CallOp(call) /\ e.addr = CallAddr(call) /\ e.means = call.means
      /\ CallOp(call) = "call" => i \in 1 .. Len(functions)
  <2> HIDE DEF call
  <2> QED BY <1>2, <1>3, EmittedFacts
<1> HIDE DEF call, i, e
<1>6. /\ code \in Seq(Instructions(text)) /\ Len(code) \in Nat
      /\ DOMAIN code = 1 .. Len(code) /\ DOMAIN code' = 1 .. Len(code')
      /\ DOMAIN functions = 1 .. Len(functions) /\ DOMAIN functions' = 1 .. Len(functions')
  BY <1>2, Lengths DEF Kinds
<1>7. /\ Len(code') = Len(code) + 1
      /\ \A c \in 1 .. Len(code) : code'[c] = code[c]
      /\ code'[Len(code) + 1] = e
  BY <1>1, <1>6
<1>8. CASE CallOp(call) # "call"
  <2>1. \A c \in Len(code) + 1 .. Len(code') : c = Len(code) + 1
    BY <1>6, <1>7
  <2> QED BY <1>1, <1>2, <1>5, <1>7, <1>8, <2>1, EmitWaits
<1>9. CASE CallOp(call) = "call"
  <2>1. i \in 1 .. Len(functions) /\ Remember(i, Len(code) + 1)
    BY <1>1, <1>5, <1>9
  <2> DEFINE p == functions[i].pending
             q == functions'[i].pending
  <2>2. /\ Len(functions') = Len(functions)
        /\ \A l \in 1 .. Len(functions) : /\ l # i => functions'[l] = functions[l]
                                          /\ functions'[l].name = functions[l].name
                                          /\ functions'[l].addr = functions[l].addr
        /\ \/ q = p /\ (functions[i].addr = Unknown => Len(p) >= MaxPatches)
           \/ functions[i].addr = Unknown /\ q = Append(p, Len(code) + 1)
    BY <1>2, <2>1, RememberFacts
  <2>3. p \in Seq(Nat) /\ Len(p) <= Uses
    BY <1>2, <2>1, Lengths DEF FunctionEntry, Bounded
  <2>4. Uses + Len(open) <= MaxUses + 1
    BY <1>1 DEF EndCall, Bounded
  <2> HIDE DEF p, q
  <2>5. Len(p) < MaxPatches
    <3>1. Uses \in Nat /\ MaxUses \in Nat /\ MaxPatches \in Nat /\ Len(p) \in Nat
      BY <1>2, <2>3, UsesFinite, ModulesAssumption
    <3> QED BY <1>4, <2>3, <2>4, <3>1
  <2>6. /\ q = p \/ q = Append(p, Len(code) + 1)
        /\ functions[i].addr = Unknown => q = Append(p, Len(code) + 1)
    <3>1. MaxPatches \in Nat /\ Len(p) \in Nat
      BY <2>3, ModulesAssumption
    <3>2. ~ (Len(p) >= MaxPatches)
      BY <2>5, <3>1
    <3> QED BY <2>2, <3>2
  <2>7. /\ \A c : Contains(p, c) => Contains(q, c)
        /\ functions[i].addr = Unknown => Contains(q, Len(code) + 1)
    <3>1. CASE q = p
      <4>1. Append(p, Len(code) + 1) # p
        <5>1. Len(Append(p, Len(code) + 1)) = Len(p) + 1 /\ Len(p) \in Nat
          BY <1>6, <2>3
        <5>2. Len(p) + 1 # Len(p)
          BY <5>1
        <5> QED BY <5>1, <5>2
      <4> QED BY <2>6, <3>1, <4>1
    <3>2. CASE q = Append(p, Len(code) + 1)
      <4>1. /\ Len(q) = Len(p) + 1 /\ q[Len(p) + 1] = Len(code) + 1 /\ Len(p) \in Nat
            /\ \A k \in 1 .. Len(p) : q[k] = p[k]
        BY <1>6, <2>3, <3>2
      <4>2. Len(p) + 1 \in 1 .. Len(q) /\ \A k \in 1 .. Len(p) : k \in 1 .. Len(q)
        BY <4>1
      <4> QED BY <4>1, <4>2 DEF Contains
    <3> QED BY <2>6, <3>1, <3>2
  <2> SUFFICES ASSUME NEW c \in DOMAIN code', code'[c].op = "call", code'[c].addr = Unknown
               PROVE  \E f \in DOMAIN functions' :
                          /\ functions'[f].addr = Unknown
                          /\ functions'[f].name.name = code'[c].means.name
                          /\ Contains(functions'[f].pending, c)
    BY DEF NoCallForgotten
  <2>8. c \in 1 .. Len(code) \/ c = Len(code) + 1
    BY <1>6, <1>7
  <2>9. CASE c \in 1 .. Len(code)
    <3>1. code'[c] = code[c] /\ c \in DOMAIN code
      BY <1>6, <1>7, <2>9
    <3>2. PICK f \in DOMAIN functions : /\ functions[f].addr = Unknown
                                        /\ functions[f].name.name = code[c].means.name
                                        /\ Contains(functions[f].pending, c)
      BY <3>1 DEF NoCallForgotten
    <3>3. Contains(functions'[f].pending, c)
      <4>1. CASE f = i
        BY <2>7, <3>2, <4>1 DEF p, q
      <4>2. CASE f # i
        BY <1>6, <2>2, <3>2, <4>2
      <4> QED BY <4>1, <4>2
    <3>4. f \in DOMAIN functions' /\ f \in 1 .. Len(functions)
      BY <1>6, <2>2
    <3> QED BY <2>2, <3>1, <3>2, <3>3, <3>4
  <2>10. CASE c = Len(code) + 1
    <3>1. code'[c] = e /\ e.addr = Unknown
      BY <1>7, <2>10
    <3>2. functions[i].addr = Unknown
      <4>1. IsFunction(i)
        BY <1>3, <2>1
      <4> QED BY <1>5, <3>1, <4>1 DEF CallAddr, i
    <3>3. functions[i].name.name = call.means.name
      <4>1. i # NativeIndex /\ i # ValueIndex
        BY <1>3, <2>1
      <4> QED BY <1>3, <4>1
    <3>4. /\ i \in DOMAIN functions' /\ functions'[i].addr = Unknown
          /\ functions'[i].name.name = e.means.name
          /\ Contains(functions'[i].pending, c)
      BY <1>5, <1>6, <2>1, <2>2, <2>7, <2>10, <3>2, <3>3 DEF q
    <3> QED BY <3>1, <3>4
  <2> QED BY <2>8, <2>9, <2>10
<1> QED BY <1>8, <1>9

\* Every function of the main file has been compiled when main is called.
LEMMA FinishWaits ==
    ASSUME LInv, LInv', NoCallForgotten, Finish
    PROVE  NoCallForgotten'
<1> DEFINE name == [prefix |-> NULL, name |-> "main"]
           i == Find(functions, name)
           e == Instruction("call", functions[i].addr, [file |-> Main, name |-> "main"], FALSE)
           h == Plain("halt", 0)
<1>1. IInv /\ Kinds /\ Kinds' /\ Chain /\ Awaited
  BY DEF LInv, Linked
<1>2. /\ functions' = functions
      /\ code' = code \o (IF i = 0 THEN <<>> ELSE <<e>>) \o <<h>>
      /\ Len(frames) = 1 /\ Module.next = Len(Items) + 1
  BY Zenon DEF Finish
<1>3. e.op = "call" /\ e.addr = functions[i].addr /\ h.op # "call"
  BY DEF Plain, Instruction
<1>4. i # 0 => i \in 1 .. Len(functions)
  <2>1. functions \in Seq(FunctionEntry(text))
    BY <1>1 DEF Kinds
  <2> HIDE DEF name
  <2> QED BY <2>1, FindFacts
<1>5. ASSUME i # 0
      PROVE  functions[i].addr # Unknown
  <2>1. i \in 1 .. Len(functions)
    BY <1>4, <1>5
  <2> SUFFICES ASSUME functions[i].addr = Unknown PROVE FALSE
    OBVIOUS
  <2>2. PICK k \in 1 .. Len(frames) :
            \E j \in frames[k].next .. Len(text[frames[k].file]) : TRUE
    BY <1>1, <2>1 DEF Awaited
  <2>3. k = 1
    BY <1>2
  <2>4. PICK j \in frames[1].next .. Len(text[frames[1].file]) : TRUE
    BY <2>2, <2>3
  <2>5. Module = frames[1] /\ Items = text[frames[1].file]
    BY <1>2 DEF Module, Items, Last
  <2>6. Len(text[frames[1].file]) \in Nat
    <3>1. text \in Texts /\ Module.file \in DOMAIN text
      BY <1>1, ModuleFacts
    <3> QED BY <2>5, <3>1, TextTypes
  <2> QED BY <1>2, <2>4, <2>5, <2>6
<1> HIDE DEF i, e, h
<1>6. code \in Seq(Instructions(text)) /\ Len(code) \in Nat
  BY <1>1 DEF Kinds
<1>7. /\ \A c \in 1 .. Len(code) : code'[c] = code[c]
      /\ \A c \in Len(code) + 1 .. Len(code') :
            code'[c].op # "call" \/ code'[c].addr # Unknown
  <2>1. CASE i = 0
    <3>1. Len(code') = Len(code) + 1 /\ \A c \in 1 .. Len(code) : code'[c] = code[c]
      BY <1>2, <1>6, <2>1
    <3>2. code'[Len(code) + 1] = h
      BY <1>2, <1>6, <2>1
    <3>3. \A c \in Len(code) + 1 .. Len(code') : c = Len(code) + 1
      BY <1>6, <3>1
    <3> QED BY <1>3, <3>1, <3>2, <3>3
  <2>2. CASE i # 0
    <3> DEFINE called == code \o <<e>>
    <3>1. code' = called \o <<h>>
      BY <1>2, <2>2
    <3>2. /\ called \in Seq(Instructions(text) \cup {e}) /\ Len(called) = Len(code) + 1
          /\ \A c \in 1 .. Len(code) : called[c] = code[c]
          /\ called[Len(code) + 1] = e
      BY <1>6
    <3> HIDE DEF called
    <3>4. /\ Len(code') = Len(code) + 2 /\ \A c \in 1 .. Len(code) + 1 : code'[c] = called[c]
          /\ code'[Len(code) + 2] = h
      BY <1>6, <3>1, <3>2
    <3>5. /\ \A c \in 1 .. Len(code) : code'[c] = code[c]
          /\ code'[Len(code) + 1] = e
      BY <1>6, <3>2, <3>4
    <3>3. \A c \in Len(code) + 1 .. Len(code') : c = Len(code) + 1 \/ c = Len(code) + 2
      BY <1>6, <3>4
    <3> QED BY <1>3, <1>5, <2>2, <3>3, <3>4, <3>5
  <2> QED BY <2>1, <2>2
<1>8. \A c \in 1 .. Len(code') :
            code'[c].op = "call" /\ code'[c].addr = Unknown =>
                /\ c \in 1 .. Len(code)
                /\ code[c].op = "call" /\ code[c].addr = Unknown
                /\ code'[c].means = code[c].means
  <2>1. Len(code') \in Nat
    BY <1>1, Lengths
  <2>2. \A c \in 1 .. Len(code') : c \in 1 .. Len(code) \/ c \in Len(code) + 1 .. Len(code')
    BY <1>6, <2>1
  <2> QED BY <1>7, <2>2
<1> QED BY <1>1, <1>2, <1>8, WaitKept

LEMMA NextWaits ==
    MaxUses <= MaxPatches =>
        (LInv /\ Bounded /\ LInv' /\ NoCallForgotten /\ [Next]_vars => NoCallForgotten')
<1> SUFFICES ASSUME MaxUses <= MaxPatches, LInv, Bounded, LInv', NoCallForgotten, [Next]_vars
             PROVE  NoCallForgotten'
  OBVIOUS
<1>1. CASE UNCHANGED <<functions, code>>
  BY <1>1 DEF NoCallForgotten
<1>2. CASE DefineStruct \/ RefuseImport \/ FailImport \/ EndImport \/ Mistake
           \/ BeginGo \/ EndGo \/ Finished \/ UNCHANGED vars
  <2>1. UNCHANGED <<functions, code>>
    BY <1>2, Zenon DEF DefineStruct, RefuseImport, FailImport, EndImport, Mistake,
       BeginGo, EndGo, Finished, vars
  <2> QED BY <1>1, <2>1
<1>3. CASE BeginFunction
  BY <1>3, BeginFunctionWaits
<1>4. CASE EndFunction
  BY <1>4, EndFunctionWaits
<1>5. CASE BeginLambda
  BY <1>5, BeginLambdaWaits
<1>6. CASE BeginImport
  BY <1>6, BeginImportWaits
<1>7. CASE Refer
  <2>1. CASE \/ \E u \in Functions : Undefined(u)
             \/ \E u \in Functions : \E go \in BOOLEAN : BeginCall(u, go)
             \/ \E go \in BOOLEAN : BeginValueCall(go)
    <3>1. UNCHANGED <<functions, code>>
      BY <2>1, Zenon DEF Undefined, BeginCall, BeginValueCall, OpenCall
    <3> QED BY <1>1, <3>1
  <2>2. CASE \E u \in Functions : UseValue(u)
    BY <2>2, UseValueWaits
  <2>3. CASE \E u \in Own("struct") \cup Foreign("struct") : Instantiate(u)
    BY <2>3, InstantiateWaits
  <2> QED BY <1>7, <2>1, <2>2, <2>3, Zenon DEF Refer
<1>8. CASE EndCall
  BY <1>8, EndCallWaits
<1>9. CASE Finish
  BY <1>9, FinishWaits
<1> QED BY <1>2, <1>3, <1>4, <1>5, <1>6, <1>7, <1>8, <1>9, Zenon DEF Next

\* A call whose function is not compiled yet is remembered by that function,
\* which will be compiled and patch it, in all programs that have no more
\* references than a function can remember calls.  (emit_direct_function_call
\* forgets further ones, and they run into the address -1.)
THEOREM CallsRemembered ==
    ASSUME MaxUses <= MaxPatches
    PROVE  Spec => []NoCallForgotten
<1>1. Init => NoCallForgotten
  <2> SUFFICES ASSUME Init PROVE NoCallForgotten
    OBVIOUS
  <2>1. code = <<>>
    BY InitFacts
  <2> QED BY <2>1 DEF NoCallForgotten
<1>2. LInv /\ Bounded /\ LInv' /\ NoCallForgotten /\ [Next]_vars => NoCallForgotten'
  BY NextWaits
<1> QED BY <1>1, <1>2, BoundedInvariant, PTL DEF Spec

-----------------------------------------------------------------------------
(* Where the entries of the tables come from *)

\* an alias stands for one file
OneAlias ==
    \A t \in Texts : \A a, b \in ImportsOf(t) : a.alias = b.alias => a.file = b.file

\* prefix p is that of file f
Denotes(t, p, f) ==
    \/ p = NULL /\ f = Main
    \/ \E item \in ImportsOf(t) : item.alias = p /\ item.file = f

\* an item that entry e of a table is of
Source(t, e, k) ==
    \E f \in DOMAIN t : \E j \in DOMAIN t[f] :
        /\ Denotes(t, e.name.prefix, f)
        /\ t[f][j].kind = k
        /\ t[f][j].name = e.name.name
        /\ t[f][j].public = e.public

Origin ==
    /\ \A i \in 1 .. Len(functions) : Source(text, functions[i], "fun")
    /\ \A i \in 1 .. Len(structs) : Source(text, structs[i], "struct")

LEMMA SourceSame ==
    ASSUME NEW t, NEW e, NEW k, Source(t, e, k), NEW d,
           d.name = e.name, d.public = e.public
    PROVE  Source(t, d, k)
BY Zenon DEF Source

\* Imports have an alias.
LEMMA AliasOfImport ==
    ASSUME NEW t \in Texts, NEW item \in ImportsOf(t)
    PROVE  item.alias # NULL /\ item.file \in DOMAIN t
<1>1. PICK f \in DOMAIN t :
        item \in {t[f][i] : i \in {k \in DOMAIN t[f] : t[f][k].kind = "imp"}}
  BY DEF ImportsOf
<1>2. PICK j \in DOMAIN t[f] : t[f][j].kind = "imp" /\ item = t[f][j]
  BY <1>1
<1> QED BY <1>2, ItemTypes

LEMMA DenotesOne ==
    ASSUME OneAlias, NEW t \in Texts, NEW p, NEW f, NEW g, Denotes(t, p, f), Denotes(t, p, g)
    PROVE  f = g
BY AliasOfImport DEF OneAlias, Denotes

\* The file being compiled, and the files around it, have the prefix of their
\* import.
LEMMA FrameDenotes ==
    ASSUME LInv, NEW k \in 1 .. Len(frames)
    PROVE  /\ Denotes(text, frames[k].prefix, frames[k].file)
           /\ k = 1 => frames[k].prefix = NULL /\ frames[k].file = Main
           /\ k # 1 => frames[k].prefix # NULL
<1>1. IInv /\ Chain
  BY DEF LInv, Linked
<1>2. frames \in Seq(Frame(text)) /\ text \in Texts
  BY <1>1 DEF IInv, Typed
<1>3. CASE k = 1
  BY <1>1, <1>3 DEF Chain, Denotes
<1>4. CASE k # 1
  <2> DEFINE h == k - 1
  <2>1. h \in 1 .. Len(frames) - 1 /\ h \in 1 .. Len(frames) /\ h + 1 = k
    BY <1>2, <1>4
  <2> HIDE DEF h
  <2>2. frames[h].file \in DOMAIN text
    <3>1. frames[h] \in Frame(text)
      BY <1>2, <2>1
    <3> QED BY <3>1 DEF Frame
  <2> DEFINE item == text[frames[h].file][frames[h].next]
  <2>3. /\ frames[h].next \in DOMAIN text[frames[h].file]
        /\ item.kind = "imp" /\ item.file = frames[k].file /\ item.alias = frames[k].prefix
    BY <1>1, <2>1 DEF Chain
  <2>4. item \in ImportsOf(text) /\ item.alias # NULL
    BY <1>2, <2>2, <2>3, ItemTypes
  <2> HIDE DEF item
  <2> QED BY <1>4, <2>3, <2>4 DEF Denotes
<1> QED BY <1>3, <1>4

LEMMA ModuleDenotes ==
    ASSUME LInv
    PROVE  /\ Denotes(text, Module.prefix, Module.file)
           /\ Len(frames) = 1 => Module.prefix = NULL /\ Module.file = Main
           /\ Len(frames) # 1 => Module.prefix # NULL
<1>1. IInv
  BY DEF LInv
<1>2. Len(frames) \in 1 .. Len(frames) /\ Module = frames[Len(frames)]
  BY <1>1, ModuleFacts
<1> QED BY <1>2, FrameDenotes

\* The item that comes next is the source of an entry of its name.
LEMMA ItemSource ==
    ASSUME LInv, Module.next \in DOMAIN Items, NEW e,
           e.name = [prefix |-> Module.prefix, name |-> Item.name],
           e.public = Item.public
    PROVE  Source(text, e, Item.kind)
<1>1. /\ Item = text[Module.file][Module.next] /\ Module.file \in DOMAIN text
      /\ Module.next \in DOMAIN text[Module.file]
  BY ItemFacts, ModuleFacts DEF LInv
<1>2. Denotes(text, Module.prefix, Module.file)
  BY ModuleDenotes
<1>3. e.name.prefix = Module.prefix /\ e.name.name = Item.name
  OBVIOUS
<1> QED BY <1>1, <1>2, <1>3 DEF Source

\* Steps keep names and what is public of what is in the tables.
LEMMA OriginKept ==
    ASSUME Origin, text' = text,
           \A i \in 1 .. Len(functions') :
                \/ Source(text, functions'[i], "fun")
                \/ /\ i \in 1 .. Len(functions)
                   /\ functions'[i].name = functions[i].name
                   /\ functions'[i].public = functions[i].public,
           \A i \in 1 .. Len(structs') :
                \/ Source(text, structs'[i], "struct")
                \/ i \in 1 .. Len(structs) /\ structs'[i] = structs[i]
    PROVE  Origin'
<1>1. ASSUME NEW i \in 1 .. Len(functions')
      PROVE  Source(text, functions'[i], "fun")
  BY <1>1, SourceSame DEF Origin
<1>2. ASSUME NEW i \in 1 .. Len(structs')
      PROVE  Source(text, structs'[i], "struct")
  BY <1>2 DEF Origin
<1> QED BY <1>1, <1>2 DEF Origin

\* The entries that a file adds to a table.
LEMMA DeclaredSource ==
    ASSUME NEW f \in DOMAIN text, NEW p, Denotes(text, p, f),
           NEW k, NEW j \in DOMAIN text[f], text[f][j].kind = k, NEW e,
           e.name = [prefix |-> p, name |-> text[f][j].name], e.public = text[f][j].public
    PROVE  Source(text, e, k)
<1>1. e.name.prefix = p /\ e.name.name = text[f][j].name
  OBVIOUS
<1> QED BY <1>1, Zenon DEF Source

LEMMA ImportOrigin ==
    ASSUME NEW f \in DOMAIN text, text \in Texts, NEW p, Denotes(text, p, f), NEW old, NEW new,
           NEW oldStructs, NEW newStructs,
           Len(old) \in Nat, Len(new) \in Nat, Len(oldStructs) \in Nat, Len(newStructs) \in Nat,
           DeclaresFunctions(old, new, text[f], p, Len(text[f])),
           DeclaresStructs(oldStructs, newStructs, text[f], p, Len(text[f]))
    PROVE  /\ \A i \in 1 .. Len(new) :
                \/ Source(text, new[i], "fun")
                \/ i \in 1 .. Len(old) /\ new[i] = old[i]
           /\ \A i \in 1 .. Len(newStructs) :
                \/ Source(text, newStructs[i], "struct")
                \/ i \in 1 .. Len(oldStructs) /\ newStructs[i] = oldStructs[i]
<1>1. DOMAIN text[f] = 1 .. Len(text[f])
  BY TextTypes
<1>2. ASSUME NEW i \in 1 .. Len(new)
      PROVE  \/ Source(text, new[i], "fun")
             \/ i \in 1 .. Len(old) /\ new[i] = old[i]
  <2>1. CASE i <= Len(old) /\ new[i] = old[i]
    BY <2>1
  <2>2. CASE ~ (i <= Len(old) /\ new[i] = old[i])
    <3>1. PICK j \in 1 .. Len(text[f]) :
            /\ text[f][j].kind = "fun"
            /\ new[i].name = [prefix |-> p, name |-> text[f][j].name]
            /\ new[i].public = text[f][j].public
      BY <2>2 DEF DeclaresFunctions
    <3> QED BY <1>1, <3>1, DeclaredSource
  <2> QED BY <2>1, <2>2
<1>3. ASSUME NEW i \in 1 .. Len(newStructs)
      PROVE  \/ Source(text, newStructs[i], "struct")
             \/ i \in 1 .. Len(oldStructs) /\ newStructs[i] = oldStructs[i]
  <2>1. CASE i \in 1 .. Len(oldStructs)
    BY <2>1 DEF DeclaresStructs
  <2>2. CASE i \notin 1 .. Len(oldStructs)
    <3>1. i \in Len(oldStructs) + 1 .. Len(newStructs)
      BY <2>2
    <3>2. PICK j \in 1 .. Len(text[f]) :
            /\ text[f][j].kind = "struct"
            /\ newStructs[i].name = [prefix |-> p, name |-> text[f][j].name]
            /\ newStructs[i].public = text[f][j].public
      BY <3>1 DEF DeclaresStructs
    <3> QED BY <1>1, <3>2, DeclaredSource
  <2> QED BY <2>1, <2>2
<1> QED BY <1>2, <1>3

LEMMA InitOrigin == Init => Origin
<1> SUFFICES ASSUME Init PROVE Origin
  OBVIOUS
<1>1. /\ text \in Texts /\ Main \in DOMAIN text
      /\ functions \in Seq(FunctionEntry(text)) /\ structs \in Seq(StructEntry(text))
      /\ DeclaresFunctions(<<>>, functions, text[Main], NULL, Len(text[Main]))
      /\ DeclaresStructs(<<>>, structs, text[Main], NULL, Len(text[Main]))
  BY InitFacts
<1>2. Denotes(text, NULL, Main)
  BY DEF Denotes
<1>3. Len(functions) \in Nat /\ Len(structs) \in Nat /\ Len(<<>>) = 0
  BY <1>1
<1>4. /\ \A i \in 1 .. Len(functions) :
            Source(text, functions[i], "fun") \/ i \in 1 .. Len(<<>>)
      /\ \A i \in 1 .. Len(structs) :
            Source(text, structs[i], "struct") \/ i \in 1 .. Len(<<>>)
  BY <1>1, <1>2, <1>3, ImportOrigin
<1> QED BY <1>3, <1>4 DEF Origin

LEMMA NextOrigin == LInv /\ LInv' /\ Origin /\ [Next]_vars => Origin'
<1> SUFFICES ASSUME LInv, LInv', Origin, [Next]_vars PROVE Origin'
  OBVIOUS
<1>1. Kinds /\ Kinds' /\ IInv
  BY DEF LInv, Linked
<1>2. CASE UNCHANGED <<text, functions, structs>>
  BY <1>2 DEF Origin
<1>3. CASE RefuseImport \/ FailImport \/ EndImport \/ Mistake \/ Finish \/ BeginLambda
           \/ BeginGo \/ EndGo \/ Finished \/ UNCHANGED vars
  <2>1. UNCHANGED <<text, functions, structs>>
    BY <1>3, Zenon DEF RefuseImport, FailImport, EndImport, Mistake, Finish, BeginLambda,
       BeginGo, EndGo, Finished, vars
  <2> QED BY <1>2, <2>1
<1>4. CASE Refer
  <2>1. UNCHANGED <<text, functions, structs>>
    BY <1>4, Zenon DEF Refer, Undefined, UseValue, BeginCall, BeginValueCall, OpenCall,
       Instantiate
  <2> QED BY <1>2, <2>1
<1>5. CASE BeginFunction
  <2>1. /\ Module.next \in DOMAIN Items /\ Item.kind = "fun"
        /\ UNCHANGED <<text, structs>>
    BY <1>5, BeginFunctionFacts
  <2>2. PICK i \in Nat : Begins(i)
    BY <1>5, BeginFunctionFacts
  <2>3. /\ functions'[i].name = [prefix |-> Module.prefix, name |-> Item.name]
        /\ \/ functions'[i].public = Item.public
           \/ i \in 1 .. Len(functions) /\ functions'[i].public = functions[i].public
        /\ i \in 1 .. Len(functions) => functions[i].name = functions'[i].name
        /\ \A l \in 1 .. Len(functions') :
                l # i => l \in 1 .. Len(functions) /\ functions'[l] = functions[l]
    BY <2>2, Zenon DEF Begins
  <2>4. \/ Source(text, functions'[i], "fun")
        \/ i \in 1 .. Len(functions) /\ functions'[i].public = functions[i].public
    <3>1. ASSUME functions'[i].public = Item.public
          PROVE  Source(text, functions'[i], "fun")
      BY <2>1, <2>3, <3>1, ItemSource
    <3> QED BY <2>3, <3>1
  <2>5. \A l \in 1 .. Len(functions') :
            \/ Source(text, functions'[l], "fun")
            \/ /\ l \in 1 .. Len(functions)
               /\ functions'[l].name = functions[l].name
               /\ functions'[l].public = functions[l].public
    BY <2>3, <2>4
  <2> QED BY <2>1, <2>5, OriginKept
<1>6. CASE DefineStruct
  <2> DEFINE e == [name |-> [prefix |-> Module.prefix, name |-> Item.name],
                   fields |-> Item.fields, public |-> Item.public]
  <2>1. /\ UNCHANGED <<text, functions>> /\ structs' = Append(structs, e)
        /\ Module.next \in DOMAIN Items /\ Item.kind = "struct"
    BY <1>6, Zenon DEF DefineStruct, AtItem
  <2>2. Source(text, e, "struct")
    <3>1. e.name = [prefix |-> Module.prefix, name |-> Item.name] /\ e.public = Item.public
      OBVIOUS
    <3> HIDE DEF e
    <3> QED BY <2>1, <3>1, ItemSource
  <2> HIDE DEF e
  <2>3. /\ structs \in Seq(StructEntry(text)) /\ Len(structs) \in Nat
    BY <1>1, Lengths DEF Kinds
  <2>4. /\ Len(structs') = Len(structs) + 1 /\ structs'[Len(structs) + 1] = e
        /\ \A l \in 1 .. Len(structs) : structs'[l] = structs[l]
    BY <2>1, <2>3
  <2>5. \A l \in 1 .. Len(structs') : l \in 1 .. Len(structs) \/ l = Len(structs) + 1
    BY <2>3, <2>4
  <2>6. \A l \in 1 .. Len(structs') :
            \/ Source(text, structs'[l], "struct")
            \/ l \in 1 .. Len(structs) /\ structs'[l] = structs[l]
    BY <2>2, <2>4, <2>5
  <2> QED BY <2>1, <2>6, OriginKept
<1>7. CASE EndFunction
  <2>1. /\ UNCHANGED <<text, structs>> /\ Len(functions') = Len(functions)
        /\ \A i \in 1 .. Len(functions) : /\ functions'[i].name = functions[i].name
                                          /\ functions'[i].public = functions[i].public
    BY <1>7, EndFunctionFacts
  <2> QED BY <2>1, OriginKept
<1>8. CASE BeginImport
  <2>1. /\ Module.next \in DOMAIN Items /\ Item.kind = "imp" /\ Item.file \in DOMAIN text
        /\ text' = text
        /\ DeclaresFunctions(functions, functions', text[Item.file], Item.alias,
                             Len(text[Item.file]))
        /\ DeclaresStructs(structs, structs', text[Item.file], Item.alias,
                           Len(text[Item.file]))
    BY <1>8, BeginImportFacts
  <2>2. Denotes(text, Item.alias, Item.file) /\ text \in Texts
    BY <1>1, <2>1, ItemFacts, ModuleFacts DEF Denotes
  <2>3. /\ Len(functions) \in Nat /\ Len(functions') \in Nat
        /\ Len(structs) \in Nat /\ Len(structs') \in Nat
    BY <1>1, Lengths
  <2>4. /\ \A i \in 1 .. Len(functions') :
                \/ Source(text, functions'[i], "fun")
                \/ i \in 1 .. Len(functions) /\ functions'[i] = functions[i]
        /\ \A i \in 1 .. Len(structs') :
                \/ Source(text, structs'[i], "struct")
                \/ i \in 1 .. Len(structs) /\ structs'[i] = structs[i]
    BY <2>1, <2>2, <2>3, ImportOrigin
  <2> QED BY <2>1, <2>4, OriginKept
<1>9. CASE EndCall
  <2> DEFINE call == Last(open)
  <2>1. /\ UNCHANGED <<text, structs>>
        /\ open # <<>> /\ call.kind = "call"
        /\ CallOp(call) = "call" => Remember(call.func, Len(code) + 1)
        /\ CallOp(call) # "call" => functions' = functions
    BY <1>9, EndCallFacts
  <2>2. call \in Calls(text)
    BY <2>1, LastCallFacts
  <2> HIDE DEF call
  <2>3. CallOp(call) = "call" => call.func \in 1 .. Len(functions)
    BY <1>1, <2>2, EmittedFacts
  <2>4. CASE CallOp(call) = "call"
    <3>1. /\ Len(functions') = Len(functions)
          /\ \A l \in 1 .. Len(functions) : /\ functions'[l].name = functions[l].name
                                            /\ functions'[l].public = functions[l].public
      BY <1>1, <2>1, <2>3, <2>4, RememberFacts
    <3> QED BY <2>1, <3>1, OriginKept
  <2>5. CASE CallOp(call) # "call"
    BY <1>2, <2>1, <2>5
  <2> QED BY <2>4, <2>5
<1> QED BY <1>3, <1>4, <1>5, <1>6, <1>7, <1>8, <1>9, Zenon DEF Next

\* In programs whose aliases stand for one file each, what is public of an entry
\* is what the file says that its prefix stands for.
LEMMA SourcePublic ==
    ASSUME OneAlias, NEW t \in Texts, NEW e, NEW k \in {"fun", "struct"}, Source(t, e, k),
           NEW f \in DOMAIN t, Denotes(t, e.name.prefix, f),
           NEW j \in DOMAIN t[f], t[f][j].kind = k, t[f][j].name = e.name.name
    PROVE  e.public = t[f][j].public
<1>1. PICK g \in DOMAIN t : \E i \in DOMAIN t[g] :
            /\ Denotes(t, e.name.prefix, g) /\ t[g][i].kind = k
            /\ t[g][i].name = e.name.name /\ t[g][i].public = e.public
  BY Zenon DEF Source
<1>2. g = f
  BY <1>1, DenotesOne
<1>3. PICK i \in DOMAIN t[f] : /\ t[f][i].kind = k /\ t[f][i].name = e.name.name
                               /\ t[f][i].public = e.public
  BY <1>1, <1>2
<1>4. Label(t[f][i]) = Label(t[f][j])
  BY <1>3 DEF Label
<1>5. i = j
  BY <1>3, <1>4, TextTypes
<1> QED BY <1>3, <1>5

\* The place of what is meant.
LEMMA PlaceFacts ==
    ASSUME NEW m, NEW k, NEW j \in DOMAIN text[m.file],
           text[m.file][j].kind = k, text[m.file][j].name = m.name
    PROVE  /\ Place(m, k) \in DOMAIN text[m.file]
           /\ text[m.file][Place(m, k)].kind = k
           /\ text[m.file][Place(m, k)].name = m.name
<1>1. j \in Named(m.file, k) /\ text[m.file][j].name = m.name
  BY DEF Named
<1>2. Place(m, k) \in Named(m.file, k) /\ text[m.file][Place(m, k)].name = m.name
  BY <1>1, Zenon DEF Place
<1> QED BY <1>2 DEF Named

\* A name of an imported file stands for what the file has of that name.
LEMMA ForeignFunction ==
    ASSUME OneAlias, LInv, Origin, NEW u \in Foreign("fun"), Resolve(u) # 0
    PROVE  /\ Resolve(u) \in 1 .. Len(functions) /\ IsFunction(Resolve(u))
           /\ u.prefix # NULL
           /\ functions[Resolve(u)].name.prefix = u.prefix
           /\ functions[Resolve(u)].name.name = u.name
           /\ functions[Resolve(u)].public =
                text[Meaning(u, "fun").file][Place(Meaning(u, "fun"), "fun")].public
<1> DEFINE m == Meaning(u, "fun")
           i == Resolve(u)
<1>1. IInv /\ Kinds /\ text \in Texts
  BY ModuleFacts DEF LInv, Linked
<1>2. PICK a \in Imports : \E j \in DOMAIN text[Items[a].file] :
        /\ u = [prefix |-> u.prefix, name |-> u.name]
        /\ u.prefix # NULL /\ m.name = u.name
        /\ Items[a].alias = u.prefix /\ m.file = Items[a].file
        /\ m.file \in DOMAIN text
        /\ text[m.file][j].kind = "fun" /\ text[m.file][j].name = u.name
        /\ Items[a] \in ImportsOf(text)
  BY <1>1, ForeignMeaning
<1>3. PICK j \in DOMAIN text[m.file] : text[m.file][j].kind = "fun" /\ text[m.file][j].name = m.name
  BY <1>2
<1> HIDE DEF m
<1>4. functions \in Seq(FunctionEntry(text))
  BY <1>1 DEF Kinds
<1>5. /\ i \in 1 .. Len(functions)
      /\ functions[i].name.name = u.name /\ functions[i].name.prefix = u.prefix
  BY <1>1, <1>2, <1>4, ResolveFacts
<1>6. IsFunction(i)
  BY <1>1, <1>5, Lengths DEF IsFunction
<1> HIDE DEF i
<1>7. /\ Place(m, "fun") \in DOMAIN text[m.file]
      /\ text[m.file][Place(m, "fun")].kind = "fun"
      /\ text[m.file][Place(m, "fun")].name = m.name
  BY <1>3, PlaceFacts
<1>8. Denotes(text, functions[i].name.prefix, m.file)
  BY <1>2, <1>5 DEF Denotes
<1>9. Source(text, functions[i], "fun")
  BY <1>5 DEF Origin
<1>10. functions[i].public = text[m.file][Place(m, "fun")].public
  <2>1. m.name = functions[i].name.name /\ m.file \in DOMAIN text
    BY <1>2, <1>5
  <2> QED BY <1>1, <1>7, <1>8, <1>9, <2>1, SourcePublic
<1> QED BY <1>2, <1>5, <1>6, <1>10 DEF i, m

LEMMA ForeignStruct ==
    ASSUME OneAlias, LInv, Origin, NEW u \in Foreign("struct"), ResolveStruct(u) # 0
    PROVE  /\ ResolveStruct(u) \in 1 .. Len(structs)
           /\ u.prefix # NULL
           /\ structs[ResolveStruct(u)].public =
                text[Meaning(u, "struct").file][Place(Meaning(u, "struct"), "struct")].public
<1> DEFINE m == Meaning(u, "struct")
           i == ResolveStruct(u)
<1>1. IInv /\ Kinds /\ text \in Texts
  BY ModuleFacts DEF LInv, Linked
<1>2. PICK a \in Imports : \E j \in DOMAIN text[Items[a].file] :
        /\ u = [prefix |-> u.prefix, name |-> u.name]
        /\ u.prefix # NULL /\ m.name = u.name
        /\ Items[a].alias = u.prefix /\ m.file = Items[a].file
        /\ m.file \in DOMAIN text
        /\ text[m.file][j].kind = "struct" /\ text[m.file][j].name = u.name
        /\ Items[a] \in ImportsOf(text)
  BY <1>1, ForeignMeaning
<1>3. PICK j \in DOMAIN text[m.file] :
        text[m.file][j].kind = "struct" /\ text[m.file][j].name = m.name
  BY <1>2
<1> HIDE DEF m
<1>4. structs \in Seq(StructEntry(text))
  BY <1>1 DEF Kinds
<1>5. /\ i \in 1 .. Len(structs)
      /\ structs[i].name.name = u.name /\ structs[i].name.prefix = u.prefix
  <2>1. i = Find(structs, u)
    BY <1>2 DEF ResolveStruct
  <2>2. i \in 1 .. Len(structs) /\ structs[i].name = u
    BY <1>4, <2>1, FindFacts
  <2> QED BY <2>2
<1> HIDE DEF i
<1>6. /\ Place(m, "struct") \in DOMAIN text[m.file]
      /\ text[m.file][Place(m, "struct")].kind = "struct"
      /\ text[m.file][Place(m, "struct")].name = m.name
  BY <1>3, PlaceFacts
<1>7. Denotes(text, structs[i].name.prefix, m.file)
  BY <1>2, <1>5 DEF Denotes
<1>8. Source(text, structs[i], "struct")
  BY <1>5 DEF Origin
<1>9. structs[i].public = text[m.file][Place(m, "struct")].public
  <2>1. m.name = structs[i].name.name /\ m.file \in DOMAIN text
    BY <1>2, <1>5
  <2> QED BY <1>1, <1>6, <1>7, <1>8, <2>1, SourcePublic
<1> QED BY <1>2, <1>5, <1>9 DEF i, m

\* What is private is found out.
LEMMA PrivateFunction ==
    ASSUME OneAlias, LInv, Origin, NEW u \in Functions, Resolve(u) # 0,
           IsPrivate(Meaning(u, "fun"), "fun")
    PROVE  Hidden(u, Resolve(u))
<1>1. IInv
  BY DEF LInv
<1>2. Meaning(u, "fun").file \notin {Module.file, NativeFile}
  BY Zenon DEF IsPrivate
<1>3. u \in Foreign("fun")
  <2> SUFFICES ASSUME u \notin Foreign("fun") PROVE FALSE
    OBVIOUS
  <2>1. u.prefix = NULL
    BY <1>1, FunctionNames
  <2>2. CASE u \in Own("fun")
    <3>1. Meaning(u, "fun") = [file |-> Module.file, name |-> u.name]
      BY <1>1, <2>2, OwnMeaning
    <3> QED BY <1>2, <3>1
  <2>3. CASE u \notin Own("fun")
    BY <1>1, <1>2, <2>1, <2>3, FunctionNames
  <2> QED BY <2>2, <2>3
<1>4. /\ IsFunction(Resolve(u)) /\ u.prefix # NULL
      /\ functions[Resolve(u)].public =
            text[Meaning(u, "fun").file][Place(Meaning(u, "fun"), "fun")].public
  BY <1>3, ForeignFunction
<1>5. ~text[Meaning(u, "fun").file][Place(Meaning(u, "fun"), "fun")].public
  BY Zenon DEF IsPrivate
<1> QED BY <1>4, <1>5, Zenon DEF Hidden

LEMMA PrivateStruct ==
    ASSUME OneAlias, LInv, Origin, NEW u \in Own("struct") \cup Foreign("struct"),
           ResolveStruct(u) # 0, IsPrivate(Meaning(u, "struct"), "struct")
    PROVE  u.prefix # NULL /\ ~structs[ResolveStruct(u)].public
<1>1. IInv
  BY DEF LInv
<1>2. Meaning(u, "struct").file \notin {Module.file, NativeFile}
  BY Zenon DEF IsPrivate
<1>3. u \in Foreign("struct")
  <2> SUFFICES ASSUME u \in Own("struct") PROVE FALSE
    OBVIOUS
  <2>1. Meaning(u, "struct") = [file |-> Module.file, name |-> u.name]
    BY <1>1, OwnMeaning
  <2> QED BY <1>2, <2>1
<1>4. /\ u.prefix # NULL
      /\ structs[ResolveStruct(u)].public =
            text[Meaning(u, "struct").file][Place(Meaning(u, "struct"), "struct")].public
  BY <1>3, ForeignStruct
<1>5. ~text[Meaning(u, "struct").file][Place(Meaning(u, "struct"), "struct")].public
  BY Zenon DEF IsPrivate
<1> QED BY <1>4, <1>5, Zenon

-----------------------------------------------------------------------------
(* What is wrong in the main file *)

\* the main file does not import itself
NotItself ==
    \A t \in Texts : \A i \in DOMAIN t[Main] :
        t[Main][i].kind = "imp" => t[Main][i].file # Main

\* the calls under way in the main file that mean one of its functions
OwnCalls ==
    Len(frames) = 1 => \A i \in 1 .. Len(open) :
        (/\ open[i].kind = "call"
         /\ open[i].func \in 1 .. Len(functions)
         /\ open[i].means.file = Main)
            => functions[open[i].func].name.prefix = NULL

\* the functions to come of the main file whose return type is inferred
OwnUnknown ==
    \A j \in frames[1].next .. Len(text[Main]) :
        text[Main][j].kind = "fun" /\ ~text[Main][j].typed =>
            \A i \in 1 .. Len(functions) :
                functions[i].name = [prefix |-> NULL, name |-> text[Main][j].name]
                    => ~functions[i].known

\* what was reported of the main file is in had_error, or saved while an import
\* of it is compiled
OwnKept == NULL \in mistakes => IF Len(frames) = 1 THEN had_error ELSE frames[2].saved

MInv == Origin /\ OwnCalls /\ OwnUnknown /\ OwnKept

\* The frames when the last file goes to its next item.
LEMMA PassedFrames ==
    ASSUME LInv, frames' = NextItem(frames)
    PROVE  /\ Len(frames') = Len(frames)
           /\ frames[1].next \in Nat /\ frames'[1].next \in Nat
           /\ frames'[1].next >= frames[1].next
           /\ Len(frames) = 1 => frames'[1].next = frames[1].next + 1
           /\ Len(frames) # 1 => frames'[2].saved = frames[2].saved
           /\ \A k \in 1 .. Len(frames) : /\ frames'[k].file = frames[k].file
                                          /\ frames'[k].prefix = frames[k].prefix
                                          /\ frames'[k].saved = frames[k].saved
<1> DEFINE n == Len(frames)
           fs == NextItem(frames)
<1>1. frames \in Seq(Frame(text)) /\ n \in Nat /\ n >= 1
  BY DEF LInv, IInv, Typed
<1>2. /\ Len(fs) = n
      /\ \A k \in 1 .. n - 1 : fs[k] = frames[k]
      /\ \A k \in 1 .. n : /\ fs[k].file = frames[k].file
                           /\ fs[k].prefix = frames[k].prefix
                           /\ fs[k].saved = frames[k].saved
      /\ fs[n].next = frames[n].next + 1
  BY <1>1, NextItemFrames
<1>3. 1 \in 1 .. n /\ frames[1] \in Frame(text)
  BY <1>1
<1>4. frames[1].next \in Nat
  BY <1>3 DEF Frame
<1>5. frames' = fs
  OBVIOUS
<1> HIDE DEF fs
<1>6. CASE n = 1
  BY <1>2, <1>4, <1>5, <1>6
<1>7. CASE n # 1
  <2>1. 1 \in 1 .. n - 1 /\ 2 \in 1 .. n
    <3>1. n \in Nat /\ n >= 1 /\ n # 1
      BY <1>1, <1>7
    <3> HIDE DEF n
    <3> QED BY <3>1
  <2> QED BY <1>2, <1>4, <1>5, <1>7, <2>1
<1> QED BY <1>6, <1>7

\* A report, of whatever is wrong in the main file at least.
LEMMA OwnReported ==
    ASSUME LInv, OwnKept, NEW errors, NEW wrong, Report(errors, wrong),
           Len(frames') = Len(frames), Len(frames) # 1 => frames'[2].saved = frames[2].saved,
           Len(frames) = 1 /\ wrong => errors
    PROVE  OwnKept'
<1>1. /\ had_error' = (had_error \/ errors)
      /\ mistakes' = IF wrong THEN mistakes \cup {Module.prefix} ELSE mistakes
  BY Zenon DEF Report
<1>2. /\ Len(frames) = 1 => Module.prefix = NULL
      /\ Len(frames) # 1 => Module.prefix # NULL
  BY ModuleDenotes
<1> SUFFICES ASSUME NULL \in mistakes'
             PROVE  IF Len(frames') = 1 THEN had_error' ELSE frames'[2].saved
  BY Zenon DEF OwnKept
<1>3. CASE Len(frames) = 1
  <2>1. NULL \in mistakes \/ wrong
    BY <1>1, Zenon
  <2>2. NULL \in mistakes => had_error
    BY <1>3, Zenon DEF OwnKept
  <2>3. had_error \/ errors
    BY <1>3, <2>1, <2>2, Zenon
  <2> QED BY <1>1, <1>3, <2>3, Zenon
<1>4. CASE Len(frames) # 1
  <2>1. NULL \in mistakes
    BY <1>1, <1>2, <1>4, Zenon
  <2>2. frames[2].saved
    BY <1>4, <2>1, Zenon DEF OwnKept
  <2>3. frames'[2].saved
    BY <1>4, <2>2, Zenon
  <2> QED BY <1>4, <2>3, Zenon
<1> QED BY <1>3, <1>4

LEMMA OwnCallsKept ==
    ASSUME OwnCalls, Len(frames') = Len(frames), Len(functions') = Len(functions),
           \A i \in 1 .. Len(functions) : functions'[i].name = functions[i].name,
           \A i \in 1 .. Len(open') :
                \/ i \in 1 .. Len(open) /\ open'[i] = open[i]
                \/ open'[i].kind # "call"
                \/ open'[i].func \notin 1 .. Len(functions)
                \/ Len(frames) = 1 =>
                        \/ open'[i].means.file # Main
                        \/ functions[open'[i].func].name.prefix = NULL
    PROVE  OwnCalls'
<1> SUFFICES ASSUME Len(frames) = 1, NEW i \in 1 .. Len(open'),
                    open'[i].kind = "call", open'[i].func \in 1 .. Len(functions),
                    open'[i].means.file = Main
             PROVE  functions'[open'[i].func].name.prefix = NULL
  BY DEF OwnCalls
<1> DEFINE o == open'[i]
<1>1. functions'[o.func].name = functions[o.func].name
  OBVIOUS
<1>2. functions[o.func].name.prefix = NULL
  <2>1. CASE i \in 1 .. Len(open) /\ o = open[i]
    BY <2>1 DEF OwnCalls
  <2>2. CASE o.kind # "call"
    BY <2>2
  <2>3. CASE o.means.file # Main \/ functions[o.func].name.prefix = NULL
    BY <2>3
  <2> QED BY <2>1, <2>2, <2>3
<1> QED BY <1>1, <1>2

\* Functions of other files, and the main file going on, make no difference.
LEMMA OwnUnknownKept ==
    ASSUME LInv, OwnUnknown, text' = text,
           frames[1].next \in Nat, frames'[1].next \in Nat,
           frames'[1].next >= frames[1].next,
           \A i \in 1 .. Len(functions') :
                functions'[i].name.prefix = NULL =>
                    /\ i \in 1 .. Len(functions)
                    /\ functions'[i].name = functions[i].name
                    /\ functions'[i].known = functions[i].known
    PROVE  OwnUnknown'
<1> SUFFICES ASSUME NEW j \in frames'[1].next .. Len(text[Main]),
                    text[Main][j].kind = "fun", ~text[Main][j].typed,
                    NEW i \in 1 .. Len(functions'),
                    functions'[i].name = [prefix |-> NULL, name |-> text[Main][j].name]
             PROVE  ~functions'[i].known
  BY Zenon DEF OwnUnknown
<1>1. text \in Texts /\ Main \in DOMAIN text
  BY ModuleFacts, ModulesAssumption DEF LInv
<1>2. Len(text[Main]) \in Nat
  BY <1>1, TextTypes
<1>3. j \in frames[1].next .. Len(text[Main])
  BY <1>2
<1>4. functions'[i].name.prefix = NULL
  OBVIOUS
<1>5. ~functions[i].known /\ functions'[i].known = functions[i].known
  BY <1>3, <1>4 DEF OwnUnknown
<1> QED BY <1>5, Zenon

\* Two functions of a file have two names.
LEMMA NamesApart ==
    ASSUME NEW t \in Texts, NEW f \in DOMAIN t, NEW i \in DOMAIN t[f], NEW j \in DOMAIN t[f],
           t[f][i].kind = "fun", t[f][j].kind = "fun", t[f][i].name = t[f][j].name
    PROVE  i = j
<1>1. Label(t[f][i]) = Label(t[f][j])
  BY DEF Label
<1> QED BY <1>1, TextTypes

\* The main file goes past a function: those to come have other names.
LEMMA OwnUnknownPast ==
    ASSUME LInv, OwnUnknown, text' = text, Len(frames) = 1,
           Module.next \in DOMAIN Items, Item.kind = "fun",
           frames'[1].next \in {frames[1].next, frames[1].next + 1},
           frames'[1].next = frames[1].next =>
                \A i \in 1 .. Len(functions') :
                    functions'[i].name = [prefix |-> NULL, name |-> Item.name]
                        => \/ functions'[i].known = Item.typed
                           \/ /\ i \in 1 .. Len(functions)
                              /\ functions'[i].name = functions[i].name
                              /\ functions'[i].known = functions[i].known,
           \A i \in 1 .. Len(functions') :
                functions'[i].name # [prefix |-> NULL, name |-> Item.name] =>
                    /\ i \in 1 .. Len(functions)
                    /\ functions'[i].name = functions[i].name
                    /\ functions'[i].known = functions[i].known
    PROVE  OwnUnknown'
<1>1. /\ text \in Texts /\ Main \in DOMAIN text /\ Module = frames[1]
      /\ Item = text[Module.file][Module.next] /\ Module.next \in Nat
      /\ Items = text[Module.file]
  BY ModuleFacts, ItemFacts, ModulesAssumption DEF LInv
<1>2. Module.file = Main
  BY ModuleDenotes
<1> DEFINE next == frames[1].next
<1>3. /\ next \in DOMAIN text[Main] /\ Item = text[Main][next] /\ next \in Nat
  BY <1>1, <1>2
<1> HIDE DEF next
<1>4. Len(text[Main]) \in Nat /\ DOMAIN text[Main] = 1 .. Len(text[Main])
  BY <1>1, TextTypes
<1> SUFFICES ASSUME NEW j \in frames'[1].next .. Len(text[Main]),
                    text[Main][j].kind = "fun", ~text[Main][j].typed,
                    NEW i \in 1 .. Len(functions'),
                    functions'[i].name = [prefix |-> NULL, name |-> text[Main][j].name]
             PROVE  ~functions'[i].known
  BY Zenon DEF OwnUnknown
<1>5. frames'[1].next \in {next, next + 1}
  BY DEF next
<1>6. j \in next .. Len(text[Main]) /\ j \in DOMAIN text[Main] /\ (frames'[1].next = next + 1 => j # next)
  BY <1>3, <1>4, <1>5
<1>7. CASE j = next
  <2>1. frames'[1].next = frames[1].next /\ Item = text[Main][j]
    BY <1>3, <1>5, <1>6, <1>7 DEF next
  <2>2. CASE functions'[i].known = Item.typed
    BY <2>1, <2>2, Zenon
  <2>3. CASE /\ i \in 1 .. Len(functions)
             /\ functions'[i].name = functions[i].name
             /\ functions'[i].known = functions[i].known
    <3>1. functions[i].name = [prefix |-> NULL, name |-> text[Main][j].name]
      BY <2>3
    <3>2. ~functions[i].known
      BY <1>6, <2>3, <3>1, Zenon DEF OwnUnknown, next
    <3> QED BY <2>3, <3>2, Zenon
  <2> QED BY <2>1, <2>2, <2>3
<1>8. CASE j # next
  <2>1. text[Main][j].name # Item.name
    BY <1>1, <1>3, <1>6, <1>8, NamesApart
  <2>2. functions'[i].name # [prefix |-> NULL, name |-> Item.name]
    <3>1. functions'[i].name.name # Item.name
      BY <2>1
    <3> QED BY <3>1
  <2>3. /\ i \in 1 .. Len(functions)
        /\ functions[i].name = [prefix |-> NULL, name |-> text[Main][j].name]
        /\ functions'[i].known = functions[i].known
    BY <2>2
  <2>4. ~functions[i].known
    BY <1>6, <2>3, Zenon DEF OwnUnknown, next
  <2> QED BY <2>3, <2>4, Zenon
<1> QED BY <1>7, <1>8

\* The first frame, and a second one.
LEMMA FirstFrames ==
    ASSUME LInv
    PROVE  /\ frames[1].next \in Nat /\ Len(frames) \in Nat /\ Len(frames) >= 1
           /\ Len(frames) # 1 => Len(frames) >= 2 /\ 2 \in 1 .. Len(frames)
<1> DEFINE n == Len(frames)
<1>1. frames \in Seq(Frame(text)) /\ n \in Nat /\ n >= 1
  BY DEF LInv, IInv, Typed
<1>2. frames[1] \in Frame(text)
  BY <1>1
<1>3. frames[1].next \in Nat
  BY <1>2 DEF Frame
<1> HIDE DEF n
<1>4. n # 1 => n >= 2 /\ 2 \in 1 .. n
  BY <1>1
<1> QED BY <1>1, <1>3, <1>4 DEF n

\* Steps between items that leave the functions alone.
LEMMA PassOwn ==
    ASSUME LInv, MInv, UNCHANGED <<text, functions, open>>, open = <<>>,
           frames' = NextItem(frames)
    PROVE  OwnCalls' /\ OwnUnknown'
<1>1. /\ Len(frames') = Len(frames)
      /\ frames[1].next \in Nat /\ frames'[1].next \in Nat
      /\ frames'[1].next >= frames[1].next
  BY PassedFrames
<1>2. OwnUnknown'
  BY <1>1, OwnUnknownKept DEF MInv
<1>3. OwnCalls'
  BY DEF OwnCalls
<1> QED BY <1>2, <1>3

\* Steps that leave the files and what is in the table of functions alone.
LEMMA InsideOwn ==
    ASSUME LInv, MInv, UNCHANGED <<text, frames>>, Len(functions') = Len(functions),
           \A i \in 1 .. Len(functions) : /\ functions'[i].name = functions[i].name
                                          /\ functions'[i].known = functions[i].known,
           \A i \in 1 .. Len(open') :
                \/ i \in 1 .. Len(open) /\ open'[i] = open[i]
                \/ open'[i].kind # "call"
                \/ open'[i].func \notin 1 .. Len(functions)
                \/ Len(frames) = 1 =>
                        \/ open'[i].means.file # Main
                        \/ functions[open'[i].func].name.prefix = NULL
    PROVE  OwnCalls' /\ OwnUnknown'
<1>1. OwnCalls'
  BY OwnCallsKept DEF MInv
<1>2. frames[1].next \in Nat /\ frames'[1].next = frames[1].next
  BY FirstFrames
<1>3. frames'[1].next >= frames[1].next
  BY <1>2
<1>4. OwnUnknown'
  BY <1>2, <1>3, OwnUnknownKept DEF MInv
<1> QED BY <1>1, <1>4

LEMMA UnreportedOwn ==
    ASSUME OwnKept, UNCHANGED <<had_error, mistakes>>, Len(frames') = Len(frames),
           Len(frames) # 1 => frames'[2].saved = frames[2].saved
    PROVE  OwnKept'
<1>1. CASE Len(frames) = 1
  BY <1>1, Zenon DEF OwnKept
<1>2. CASE Len(frames) # 1
  BY <1>2, Zenon DEF OwnKept
<1> QED BY <1>1, <1>2

LEMMA PassingOwn ==
    ASSUME LInv, MInv, RefuseImport \/ FailImport \/ DefineStruct
    PROVE  OwnCalls' /\ OwnUnknown' /\ OwnKept'
<1>1. /\ UNCHANGED <<text, functions, open>> /\ open = <<>> /\ frames' = NextItem(frames)
      /\ \/ \E wrong \in BOOLEAN : Report(TRUE, wrong)
         \/ UNCHANGED <<had_error, mistakes>>
  <2>1. CASE RefuseImport
    <3> DEFINE w == Item.file \in BeingCompiled \/ compiled_modules >= MaxModules
    <3>1. Report(TRUE, w) /\ w \in BOOLEAN
      BY <2>1, Zenon DEF RefuseImport
    <3>2. UNCHANGED <<text, functions, open>> /\ open = <<>> /\ frames' = NextItem(frames)
      BY <2>1, Zenon DEF RefuseImport, AtItem
    <3> HIDE DEF w
    <3> QED BY <3>1, <3>2, Zenon
  <2>2. CASE FailImport
    <3>1. Report(TRUE, TRUE) /\ TRUE \in BOOLEAN
      BY <2>2, Zenon DEF FailImport
    <3>2. UNCHANGED <<text, functions, open>> /\ open = <<>> /\ frames' = NextItem(frames)
      BY <2>2, Zenon DEF FailImport, AtItem
    <3> QED BY <3>1, <3>2, Zenon
  <2>3. CASE DefineStruct
    BY <2>3, Zenon DEF DefineStruct, AtItem
  <2> QED BY <2>1, <2>2, <2>3
<1>2. OwnCalls' /\ OwnUnknown'
  BY <1>1, PassOwn
<1>3. /\ Len(frames') = Len(frames)
      /\ Len(frames) # 1 => frames'[2].saved = frames[2].saved
  BY <1>1, PassedFrames
<1>4. OwnKept'
  <2>1. CASE UNCHANGED <<had_error, mistakes>>
    BY <1>3, <2>1, UnreportedOwn DEF MInv
  <2>2. CASE \E wrong \in BOOLEAN : Report(TRUE, wrong)
    <3>1. PICK wrong \in BOOLEAN : Report(TRUE, wrong)
      BY <2>2
    <3> DEFINE errors == TRUE
    <3>2. Report(errors, wrong) /\ (Len(frames) = 1 /\ wrong => errors)
      BY <3>1
    <3> HIDE DEF errors
    <3> QED BY <1>3, <3>2, OwnReported DEF MInv
  <2> QED BY <1>1, <2>1, <2>2
<1> QED BY <1>2, <1>4

LEMMA BeginFunctionOwn ==
    ASSUME LInv, MInv, BeginFunction
    PROVE  OwnCalls' /\ OwnUnknown' /\ OwnKept'
<1>1. /\ Module.next \in DOMAIN Items /\ Item.kind = "fun" /\ UNCHANGED <<text, frames>>
  BY BeginFunctionFacts
<1>2. UNCHANGED <<had_error, mistakes>>
  BY Zenon DEF BeginFunction
<1>3. PICK f \in Nat : Begins(f)
  BY BeginFunctionFacts
<1>4. OwnKept'
  BY <1>1, <1>2, UnreportedOwn DEF MInv
<1>5. OwnCalls'
  <2> DEFINE o == [kind |-> "body", func |-> f, jump |-> Len(code) + 1]
  <2>1. open' = <<o>> /\ o.kind = "body"
    BY <1>3, Zenon DEF Begins
  <2> HIDE DEF o
  <2>2. \A i \in 1 .. Len(open') : open'[i] = o
    BY <2>1
  <2> QED BY <2>1, <2>2 DEF OwnCalls
<1>6. /\ functions'[f].name = [prefix |-> Module.prefix, name |-> Item.name]
      /\ \/ functions'[f].known = Item.typed
         \/ /\ f \in 1 .. Len(functions)
            /\ functions'[f].known = functions[f].known
      /\ f \in 1 .. Len(functions) =>
            functions[f].name = [prefix |-> Module.prefix, name |-> Item.name]
      /\ \A l \in 1 .. Len(functions') :
            l # f => l \in 1 .. Len(functions) /\ functions'[l] = functions[l]
  BY <1>3, Zenon DEF Begins
<1>7. frames[1].next \in Nat /\ frames'[1].next = frames[1].next
  BY <1>1, FirstFrames
<1>8. CASE Len(frames) = 1
  <2>1. Module.prefix = NULL
    BY <1>8, ModuleDenotes
  <2>2. \A i \in 1 .. Len(functions') :
            functions'[i].name = [prefix |-> NULL, name |-> Item.name]
                => \/ functions'[i].known = Item.typed
                   \/ /\ i \in 1 .. Len(functions)
                      /\ functions'[i].name = functions[i].name
                      /\ functions'[i].known = functions[i].known
    BY <1>6, <2>1
  <2>3. \A i \in 1 .. Len(functions') :
            functions'[i].name # [prefix |-> NULL, name |-> Item.name] =>
                /\ i \in 1 .. Len(functions)
                /\ functions'[i].name = functions[i].name
                /\ functions'[i].known = functions[i].known
    BY <1>6, <2>1
  <2>4. frames'[1].next \in {frames[1].next, frames[1].next + 1}
    BY <1>7
  <2> QED BY <1>1, <1>4, <1>5, <1>8, <2>2, <2>3, <2>4, OwnUnknownPast DEF MInv
<1>9. CASE Len(frames) # 1
  <2>1. Module.prefix # NULL
    BY <1>9, ModuleDenotes
  <2>2. \A i \in 1 .. Len(functions') :
            functions'[i].name.prefix = NULL =>
                /\ i \in 1 .. Len(functions)
                /\ functions'[i].name = functions[i].name
                /\ functions'[i].known = functions[i].known
    BY <1>6, <2>1
  <2>3. frames'[1].next >= frames[1].next
    BY <1>7
  <2>4. OwnUnknown'
    BY <1>1, <1>7, <2>2, <2>3, OwnUnknownKept DEF MInv
  <2> QED BY <1>4, <1>5, <2>4
<1> QED BY <1>8, <1>9

LEMMA EndFunctionOwn ==
    ASSUME LInv, MInv, EndFunction
    PROVE  OwnCalls' /\ OwnUnknown' /\ OwnKept'
<1> DEFINE body == Last(open)
<1>1. /\ open # <<>> /\ body.kind = "body" /\ open' = Front(open) /\ text' = text
      /\ Len(functions') = Len(functions)
      /\ \A i \in 1 .. Len(functions) :
            /\ functions'[i].name = functions[i].name
            /\ functions'[i].known = IF body.func = i THEN TRUE ELSE functions[i].known
      /\ \/ body.func # 0 /\ frames' = NextItem(frames) /\ open' = <<>>
         \/ body.func = 0 /\ frames' = frames /\ functions' = functions
  BY EndFunctionFacts
<1>2. UNCHANGED <<had_error, mistakes>>
  BY Zenon DEF EndFunction
<1>3. /\ body.func # 0 => functions[body.func].name =
                            [prefix |-> Module.prefix, name |-> Item.name]
      /\ Module.next \in DOMAIN Items /\ Item.kind = "fun"
  BY <1>1, LastBodyFacts
<1> HIDE DEF body
<1>4. CASE body.func = 0
  <2>1. frames' = frames /\ functions' = functions
    BY <1>1, <1>4
  <2>2. open \in Seq(Opens(text))
    BY DEF LInv, Linked, Kinds
  <2>3. Len(open') = Len(open) - 1 /\ \A i \in 1 .. Len(open) - 1 : open'[i] = open[i]
    BY <1>1, <2>2, FrontFacts
  <2>4. \A i \in 1 .. Len(open') : i \in 1 .. Len(open) /\ open'[i] = open[i]
    BY <2>2, <2>3
  <2>5. OwnCalls' /\ OwnUnknown'
    BY <1>1, <2>1, <2>4, InsideOwn
  <2>6. OwnKept'
    BY <1>2, <2>1, UnreportedOwn DEF MInv
  <2> QED BY <2>5, <2>6
<1>5. CASE body.func # 0
  <2>1. frames' = NextItem(frames) /\ open' = <<>>
    BY <1>1, <1>5
  <2>2. /\ Len(frames') = Len(frames)
        /\ frames[1].next \in Nat /\ frames'[1].next \in Nat
        /\ frames'[1].next >= frames[1].next
        /\ Len(frames) = 1 => frames'[1].next = frames[1].next + 1
        /\ Len(frames) # 1 => frames'[2].saved = frames[2].saved
    BY <2>1, PassedFrames
  <2>3. OwnKept'
    BY <1>2, <2>2, UnreportedOwn DEF MInv
  <2>4. OwnCalls'
    BY <2>1 DEF OwnCalls
  <2>5. \A i \in 1 .. Len(functions') :
            functions'[i].name # [prefix |-> Module.prefix, name |-> Item.name] =>
                /\ i \in 1 .. Len(functions)
                /\ functions'[i].name = functions[i].name
                /\ functions'[i].known = functions[i].known
    <3> SUFFICES ASSUME NEW i \in 1 .. Len(functions'),
                        functions'[i].name # [prefix |-> Module.prefix, name |-> Item.name]
                 PROVE  /\ i \in 1 .. Len(functions)
                        /\ functions'[i].name = functions[i].name
                        /\ functions'[i].known = functions[i].known
      OBVIOUS
    <3>1. i \in 1 .. Len(functions) /\ functions'[i].name = functions[i].name
      BY <1>1
    <3>2. body.func # i
      BY <1>3, <1>5, <3>1
    <3> QED BY <1>1, <3>1, <3>2
  <2>6. CASE Len(frames) = 1
    <3>1. Module.prefix = NULL
      BY <2>6, ModuleDenotes
    <3>2. /\ frames'[1].next # frames[1].next
          /\ frames'[1].next \in {frames[1].next, frames[1].next + 1}
      BY <2>2, <2>6
    <3>3. \A i \in 1 .. Len(functions') :
            functions'[i].name # [prefix |-> NULL, name |-> Item.name] =>
                /\ i \in 1 .. Len(functions)
                /\ functions'[i].name = functions[i].name
                /\ functions'[i].known = functions[i].known
      BY <2>5, <3>1
    <3>4. OwnUnknown'
      BY <1>1, <1>3, <2>6, <3>2, <3>3, OwnUnknownPast DEF MInv
    <3> QED BY <2>3, <2>4, <3>4
  <2>7. CASE Len(frames) # 1
    <3>1. Module.prefix # NULL
      BY <2>7, ModuleDenotes
    <3>2. \A i \in 1 .. Len(functions') :
            functions'[i].name.prefix = NULL =>
                /\ i \in 1 .. Len(functions)
                /\ functions'[i].name = functions[i].name
                /\ functions'[i].known = functions[i].known
      BY <2>5, <3>1
    <3>3. OwnUnknown'
      BY <1>1, <2>2, <3>2, OwnUnknownKept DEF MInv
    <3> QED BY <2>3, <2>4, <3>3
  <2> QED BY <2>6, <2>7
<1> QED BY <1>4, <1>5

LEMMA BeginImportOwn ==
    ASSUME LInv, MInv, BeginImport
    PROVE  OwnCalls' /\ OwnUnknown' /\ OwnKept'
<1> DEFINE e == [file |-> Item.file, prefix |-> Item.alias, next |-> 1, saved |-> had_error]
           n == Len(frames)
<1>1. /\ open = <<>> /\ Module.next \in DOMAIN Items /\ Item.kind = "imp"
      /\ UNCHANGED <<text, open, had_error, mistakes>>
      /\ DeclaresFunctions(functions, functions', text[Item.file], Item.alias,
                           Len(text[Item.file]))
      /\ frames' = Append(frames, e) /\ e.saved = had_error
  BY BeginImportFacts
<1> HIDE DEF e
<1>2. frames \in Seq(Frame(text)) /\ n \in Nat /\ n >= 1
  BY DEF LInv, IInv, Typed
<1>3. /\ Len(frames') = n + 1 /\ frames'[1] = frames[1] /\ frames'[n + 1] = e
      /\ \A k \in 1 .. n : frames'[k] = frames[k]
  BY <1>1, <1>2
<1>4. frames[1].next \in Nat /\ (n # 1 => 2 \in 1 .. n)
  BY FirstFrames
<1> HIDE DEF n
<1>5. OwnCalls'
  BY <1>1 DEF OwnCalls
<1>6. OwnUnknown'
  <2>1. Item.alias # NULL
    BY <1>1, ItemFacts DEF LInv
  <2>2. Len(functions) \in Nat
    BY Lengths DEF LInv, Linked
  <2>3. \A i \in 1 .. Len(functions') :
            functions'[i].name.prefix = NULL =>
                /\ i \in 1 .. Len(functions)
                /\ functions'[i].name = functions[i].name
                /\ functions'[i].known = functions[i].known
    <3> SUFFICES ASSUME NEW i \in 1 .. Len(functions'), functions'[i].name.prefix = NULL
                 PROVE  i \in 1 .. Len(functions) /\ functions'[i] = functions[i]
      OBVIOUS
    <3>1. i <= Len(functions) /\ functions'[i] = functions[i]
      <4>1. \/ i <= Len(functions) /\ functions'[i] = functions[i]
            \/ \E j \in 1 .. Len(text[Item.file]) :
                functions'[i].name = [prefix |-> Item.alias,
                                      name |-> text[Item.file][j].name]
        BY <1>1 DEF DeclaresFunctions
      <4>2. ASSUME NEW j \in 1 .. Len(text[Item.file]),
                   functions'[i].name = [prefix |-> Item.alias,
                                         name |-> text[Item.file][j].name]
            PROVE  FALSE
        <5>1. functions'[i].name.prefix = Item.alias
          BY <4>2
        <5> QED BY <2>1, <5>1
      <4> QED BY <4>1, <4>2
    <3> QED BY <2>2, <3>1
  <2>4. frames'[1].next \in Nat /\ frames'[1].next >= frames[1].next
    BY <1>3, <1>4
  <2> QED BY <1>1, <1>4, <2>3, <2>4, OwnUnknownKept DEF MInv
<1>7. OwnKept'
  <2> SUFFICES ASSUME NULL \in mistakes' PROVE frames'[2].saved
    <3>1. Len(frames') # 1
      BY <1>2, <1>3
    <3> QED BY <3>1, Zenon DEF OwnKept
  <2>1. NULL \in mistakes
    BY <1>1
  <2>2. CASE n = 1
    <3>1. frames'[2] = e
      BY <1>3, <2>2
    <3>2. had_error
      BY <2>1, <2>2, Zenon DEF MInv, OwnKept, n
    <3> QED BY <1>1, <3>1, <3>2, Zenon
  <2>3. CASE n # 1
    <3>1. frames'[2] = frames[2]
      BY <1>3, <1>4, <2>3
    <3>2. frames[2].saved
      BY <2>1, <2>3, Zenon DEF MInv, OwnKept, n
    <3> QED BY <3>1, <3>2, Zenon
  <2> QED BY <2>2, <2>3
<1> QED BY <1>5, <1>6, <1>7

LEMMA EndImportOwn ==
    ASSUME LInv, MInv, EndImport
    PROVE  OwnCalls' /\ OwnUnknown' /\ OwnKept'
<1> DEFINE n == Len(frames)
<1>1. /\ n > 1 /\ n \in Nat /\ Module = frames[n]
      /\ UNCHANGED <<text, open, functions, mistakes>> /\ open = <<>>
      /\ had_error' = Module.saved /\ Len(frames') = n - 1
      /\ \A k \in 1 .. n - 2 : frames'[k] = frames[k]
      /\ \A k \in 1 .. n - 1 : frames'[k].saved = frames[k].saved
      /\ frames'[n - 1].next = frames[n - 1].next + 1
  BY EndImportFacts
<1>2. frames[1].next \in Nat
  BY FirstFrames
<1> HIDE DEF n
<1>3. OwnCalls'
  BY <1>1 DEF OwnCalls
<1>4. OwnUnknown'
  <2>1. frames'[1].next \in Nat /\ frames'[1].next >= frames[1].next
    <3>1. CASE n = 2
      BY <1>1, <1>2, <3>1
    <3>2. CASE n # 2
      <4>1. 1 \in 1 .. n - 2
        BY <1>1, <3>2
      <4>2. frames'[1] = frames[1]
        BY <1>1, <4>1
      <4> QED BY <1>2, <4>2
    <3> QED BY <3>1, <3>2
  <2> QED BY <1>1, <1>2, <2>1, OwnUnknownKept DEF MInv
<1>5. OwnKept'
  <2> SUFFICES ASSUME NULL \in mistakes'
               PROVE  IF Len(frames') = 1 THEN had_error' ELSE frames'[2].saved
    BY Zenon DEF OwnKept
  <2>1. n # 1
    BY <1>1
  <2>2. frames[2].saved
    BY <1>1, <2>1, Zenon DEF MInv, OwnKept, n
  <2>3. CASE n = 2
    <3>1. Len(frames') = 1 /\ had_error' = frames[2].saved
      BY <1>1, <2>3
    <3> QED BY <2>2, <3>1, Zenon
  <2>4. CASE n # 2
    <3>1. Len(frames') # 1 /\ 2 \in 1 .. n - 1
      BY <1>1, <2>4
    <3>2. frames'[2].saved = frames[2].saved
      BY <1>1, <3>1
    <3> QED BY <2>2, <3>1, <3>2, Zenon
  <2> QED BY <2>3, <2>4
<1> QED BY <1>3, <1>4, <1>5

\* A call of a function of the main file that comes later, and whose return type
\* is inferred, is reported.
LEMMA UntypedReported ==
    ASSUME OneAlias, LInv, MInv, Len(frames) = 1, open # <<>>, Last(open).kind = "call",
           IsFunction(Last(open).func), IsUntyped(Last(open).means)
    PROVE  ~functions[Last(open).func].known
<1> DEFINE call == Last(open)
           i == call.func
           m == call.means
           j == Place(m, "fun")
<1>1. /\ call = open[Len(open)] /\ Len(open) \in 1 .. Len(open)
      /\ i \in 1 .. Len(functions) /\ functions[i].name.name = m.name
  BY LastCallFacts
<1>2. /\ text \in Texts /\ Module = frames[1] /\ Items = text[Module.file]
      /\ Module.file \in DOMAIN text
  BY ModuleFacts DEF LInv
<1>3. Module.file = Main
  BY ModuleDenotes
<1>4. m.file = Main /\ ~text[Main][j].typed /\ j >= frames[1].next
  BY <1>2, <1>3, Zenon DEF IsUntyped
<1>5. functions[i].name.prefix = NULL
  BY <1>1, <1>4 DEF MInv, OwnCalls
<1>6. Source(text, functions[i], "fun")
  BY <1>1 DEF MInv, Origin
<1>7. functions[i].name = [prefix |-> NULL, name |-> m.name]
  <2>1. functions[i].name \in Qualified(text)
    BY <1>1, Lengths DEF LInv, Linked, FunctionEntry
  <2> HIDE DEF i, m
  <2> QED BY <1>1, <1>5, <2>1 DEF Qualified
<1> HIDE DEF call, i, m, j
<1>8. PICK f \in DOMAIN text : \E k \in DOMAIN text[f] :
            /\ Denotes(text, functions[i].name.prefix, f)
            /\ text[f][k].kind = "fun" /\ text[f][k].name = functions[i].name.name
  BY <1>6, Zenon DEF Source
<1>9. f = Main
  BY <1>2, <1>5, <1>8, DenotesOne DEF Denotes
<1>10. PICK k \in DOMAIN text[m.file] : text[m.file][k].kind = "fun" /\ text[m.file][k].name = m.name
  BY <1>1, <1>4, <1>8, <1>9
<1>11. /\ j \in DOMAIN text[Main] /\ text[Main][j].kind = "fun" /\ text[Main][j].name = m.name
  BY <1>4, <1>10, PlaceFacts DEF j
<1>12. Len(text[Main]) \in Nat /\ DOMAIN text[Main] = 1 .. Len(text[Main])
  BY <1>2, <1>3, TextTypes
<1>13. frames[1].next \in Nat
  BY FirstFrames
<1>14. j \in frames[1].next .. Len(text[Main])
  BY <1>4, <1>11, <1>12, <1>13
<1>15. functions[i].name = [prefix |-> NULL, name |-> text[Main][j].name]
  BY <1>7, <1>11
<1>16. ~functions[i].known
  BY <1>1, <1>4, <1>11, <1>14, <1>15, Zenon DEF MInv, OwnUnknown, i, m, j, call
<1> QED BY <1>16 DEF i, call

LEMMA EndCallOwn ==
    ASSUME OneAlias, LInv, MInv, EndCall
    PROVE  OwnCalls' /\ OwnUnknown' /\ OwnKept'
<1> DEFINE call == Last(open)
           errors == IsFunction(call.func) /\ ~functions[call.func].known
           wrong == IsFunction(call.func) /\ IsUntyped(call.means)
<1>1. /\ open # <<>> /\ call.kind = "call" /\ open' = Front(open)
      /\ UNCHANGED <<text, frames>>
      /\ CallOp(call) = "call" => Remember(call.func, Len(code) + 1)
      /\ CallOp(call) # "call" => functions' = functions
      /\ Report(errors, wrong)
  BY EndCallFacts
<1>2. Kinds
  BY DEF LInv, Linked
<1>3. call \in Calls(text)
  BY <1>1, LastCallFacts
<1>4. Len(frames) = 1 /\ wrong => errors
  BY <1>1, UntypedReported
<1> HIDE DEF errors, wrong, call
<1>5. /\ Len(functions') = Len(functions)
      /\ \A i \in 1 .. Len(functions) : /\ functions'[i].name = functions[i].name
                                        /\ functions'[i].known = functions[i].known
  <2>1. CASE CallOp(call) = "call"
    <3>1. call.func \in 1 .. Len(functions)
      BY <1>2, <1>3, <2>1, EmittedFacts
    <3> QED BY <1>1, <1>2, <2>1, <3>1, RememberFacts
  <2>2. CASE CallOp(call) # "call"
    BY <1>1, <2>2
  <2> QED BY <2>1, <2>2
<1>6. open \in Seq(Opens(text))
  BY <1>2 DEF Kinds
<1>7. Len(open') = Len(open) - 1 /\ \A i \in 1 .. Len(open) - 1 : open'[i] = open[i]
  BY <1>1, <1>6, FrontFacts
<1>8. \A i \in 1 .. Len(open') : i \in 1 .. Len(open) /\ open'[i] = open[i]
  BY <1>6, <1>7
<1>9. OwnCalls' /\ OwnUnknown'
  BY <1>1, <1>5, <1>8, InsideOwn
<1>10. OwnKept'
  BY <1>1, <1>4, OwnReported DEF MInv
<1> QED BY <1>9, <1>10

\* A name that is used: what is private is an error.
LEMMA UseValueOwn ==
    ASSUME OneAlias, LInv, MInv, NEW u \in Functions, UseValue(u)
    PROVE  OwnCalls' /\ OwnUnknown' /\ OwnKept'
<1> DEFINE errors == Hidden(u, Resolve(u))
           wrong == IsPrivate(Meaning(u, "fun"), "fun")
<1>1. /\ Resolve(u) # 0 /\ Report(errors, wrong)
      /\ UNCHANGED <<text, frames, open, functions>>
  BY Zenon DEF UseValue
<1>2. wrong => errors
  BY <1>1, PrivateFunction DEF MInv
<1> HIDE DEF errors, wrong
<1>3. OwnCalls' /\ OwnUnknown'
  BY <1>1, InsideOwn
<1>4. OwnKept'
  BY <1>1, <1>2, OwnReported DEF MInv
<1> QED BY <1>3, <1>4

LEMMA InstantiateOwn ==
    ASSUME OneAlias, LInv, MInv, NEW u \in Own("struct") \cup Foreign("struct"), Instantiate(u)
    PROVE  OwnCalls' /\ OwnUnknown' /\ OwnKept'
<1> DEFINE i == ResolveStruct(u)
           m == Meaning(u, "struct")
           errors == \/ i = 0
                     \/ u.prefix # NULL /\ ~structs[i].public
                     \/ structs[i].fields # text[m.file][Place(m, "struct")].fields
           wrong == IsPrivate(m, "struct")
<1>1. Report(errors, wrong) /\ UNCHANGED <<text, frames, open, functions>>
  BY Zenon DEF Instantiate
<1>2. wrong => errors
  BY PrivateStruct, Zenon DEF MInv
<1> HIDE DEF errors, wrong
<1>3. OwnCalls' /\ OwnUnknown'
  BY <1>1, InsideOwn
<1>4. OwnKept'
  BY <1>1, <1>2, OwnReported DEF MInv
<1> QED BY <1>3, <1>4

\* A call in the main file of what means a function of that file is resolved to
\* one without a prefix.
LEMMA OwnResolved ==
    ASSUME NotItself, LInv, Len(frames) = 1, NEW u \in Functions,
           Resolve(u) \in 1 .. Len(functions), Meaning(u, "fun").file = Main
    PROVE  functions[Resolve(u)].name.prefix = NULL
<1> DEFINE i == Resolve(u)
           m == Meaning(u, "fun")
<1>1. IInv /\ Kinds
  BY DEF LInv, Linked
<1>2. /\ text \in Texts /\ Items = text[Main] /\ Module.prefix = NULL
  BY <1>1, ModuleFacts, ModuleDenotes
<1>3. u = [prefix |-> u.prefix, name |-> u.name] /\ (u \in Foreign("fun") <=> u.prefix # NULL)
  BY <1>1, FunctionNames
<1>4. u.prefix = NULL
  <2> SUFFICES ASSUME u \in Foreign("fun") PROVE FALSE
    BY <1>3
  <2>1. PICK k \in Imports : m.file = Items[k].file /\ k \in DOMAIN Items
                             /\ Items[k].kind = "imp"
    BY <1>1, ForeignMeaning
  <2> QED BY <1>2, <2>1 DEF NotItself
<1>5. i # 0 /\ i # NativeIndex
  BY <1>1, Lengths DEF NativeIndex
<1>6. functions \in Seq(FunctionEntry(text))
  BY <1>1 DEF Kinds
<1> QED BY <1>1, <1>2, <1>3, <1>4, <1>5, <1>6, ResolveFacts

LEMMA BeginCallOwn ==
    ASSUME OneAlias, NotItself, LInv, MInv, NEW u \in Functions, NEW go \in BOOLEAN,
           BeginCall(u, go)
    PROVE  OwnCalls' /\ OwnUnknown' /\ OwnKept'
<1> DEFINE errors == Hidden(u, Resolve(u))
           wrong == IsPrivate(Meaning(u, "fun"), "fun")
           o == [kind |-> "call", func |-> Resolve(u), means |-> Meaning(u, "fun"), go |-> go]
<1>1. /\ Resolve(u) # 0 /\ Report(errors, wrong)
      /\ UNCHANGED <<text, frames, functions>> /\ open' = Append(open, o)
  BY Zenon DEF BeginCall, OpenCall
<1>2. wrong => errors
  BY <1>1, PrivateFunction DEF MInv
<1>3. o.func = Resolve(u) /\ o.means = Meaning(u, "fun")
  OBVIOUS
<1>4. Len(frames) = 1 /\ o.func \in 1 .. Len(functions) =>
            o.means.file # Main \/ functions[o.func].name.prefix = NULL
  BY <1>3, OwnResolved
<1> HIDE DEF errors, wrong, o
<1>5. open \in Seq(Opens(text))
  BY DEF LInv, Linked, Kinds
<1>6. \A i \in 1 .. Len(open') : (i \in 1 .. Len(open) /\ open'[i] = open[i]) \/ open'[i] = o
  BY <1>1, <1>5
<1>7. \A i \in 1 .. Len(open') :
            \/ i \in 1 .. Len(open) /\ open'[i] = open[i]
            \/ open'[i].func \notin 1 .. Len(functions)
            \/ Len(frames) = 1 => \/ open'[i].means.file # Main
                                  \/ functions[open'[i].func].name.prefix = NULL
  BY <1>4, <1>6
<1>8. OwnCalls' /\ OwnUnknown'
  BY <1>1, <1>7, InsideOwn
<1>9. OwnKept'
  BY <1>1, <1>2, OwnReported DEF MInv
<1> QED BY <1>8, <1>9

\* A function without a name, and the call of a value.
LEMMA OpenOwn ==
    ASSUME LInv, MInv, NEW o, o.kind # "call" \/ o.func \notin 1 .. Len(functions),
           UNCHANGED <<text, frames, functions, had_error, mistakes>>,
           open' = Append(open, o)
    PROVE  OwnCalls' /\ OwnUnknown' /\ OwnKept'
<1>1. open \in Seq(Opens(text))
  BY DEF LInv, Linked, Kinds
<1>2. \A i \in 1 .. Len(open') : (i \in 1 .. Len(open) /\ open'[i] = open[i]) \/ open'[i] = o
  BY <1>1
<1>3. \A i \in 1 .. Len(open') :
            \/ i \in 1 .. Len(open) /\ open'[i] = open[i]
            \/ open'[i].kind # "call"
            \/ open'[i].func \notin 1 .. Len(functions)
  BY <1>2
<1>4. OwnCalls' /\ OwnUnknown'
  BY <1>3, InsideOwn
<1>5. OwnKept'
  BY UnreportedOwn DEF MInv
<1> QED BY <1>4, <1>5

\* Steps inside of a file that open and close nothing.
LEMMA StillOwn ==
    ASSUME LInv, MInv, UNCHANGED <<text, frames, functions, open>>,
           \/ UNCHANGED <<had_error, mistakes>>
           \/ \E wrong \in BOOLEAN : Report(TRUE, wrong)
    PROVE  OwnCalls' /\ OwnUnknown' /\ OwnKept'
<1>1. OwnCalls' /\ OwnUnknown'
  BY InsideOwn
<1>2. CASE UNCHANGED <<had_error, mistakes>>
  BY <1>1, <1>2, UnreportedOwn DEF MInv
<1>3. CASE \E wrong \in BOOLEAN : Report(TRUE, wrong)
  <2>1. PICK wrong \in BOOLEAN : Report(TRUE, wrong)
    BY <1>3
  <2> DEFINE errors == TRUE
  <2>2. Report(errors, wrong) /\ (Len(frames) = 1 /\ wrong => errors)
    BY <2>1
  <2> HIDE DEF errors
  <2> QED BY <1>1, <2>2, OwnReported DEF MInv
<1> QED BY <1>2, <1>3

LEMMA NextOwn ==
    ASSUME OneAlias, NotItself, LInv, LInv', MInv, [Next]_vars
    PROVE  MInv'
<1> SUFFICES OwnCalls' /\ OwnUnknown' /\ OwnKept'
  BY NextOrigin DEF MInv
<1>1. CASE BeginFunction
  BY <1>1, BeginFunctionOwn
<1>2. CASE RefuseImport \/ FailImport \/ DefineStruct
  BY <1>2, PassingOwn
<1>3. CASE EndFunction
  BY <1>3, EndFunctionOwn
<1>4. CASE BeginLambda
  <2> DEFINE o == [kind |-> "body", func |-> 0, jump |-> Len(code) + 1]
  <2>1. /\ UNCHANGED <<text, frames, functions, had_error, mistakes>>
        /\ open' = Append(open, o) /\ o.kind # "call"
    BY <1>4, Zenon DEF BeginLambda
  <2> HIDE DEF o
  <2> QED BY <2>1, OpenOwn
<1>5. CASE BeginImport
  BY <1>5, BeginImportOwn
<1>6. CASE EndImport
  BY <1>6, EndImportOwn
<1>7. CASE Refer
  <2>1. CASE \E u \in Functions : Undefined(u)
    <3>1. PICK u \in Functions : Undefined(u)
      BY <2>1
    <3>2. Report(TRUE, FALSE) /\ FALSE \in BOOLEAN /\ UNCHANGED <<text, frames, functions, open>>
      BY <3>1, Zenon DEF Undefined
    <3>3. \E wrong \in BOOLEAN : Report(TRUE, wrong)
      BY <3>2, Zenon
    <3> QED BY <3>2, <3>3, StillOwn
  <2>2. CASE \E u \in Functions : UseValue(u)
    BY <2>2, UseValueOwn
  <2>3. CASE \E u \in Functions : \E go \in BOOLEAN : BeginCall(u, go)
    <3>1. PICK u \in Functions, go \in BOOLEAN : BeginCall(u, go)
      BY <2>3
    <3> QED BY <3>1, BeginCallOwn
  <2>4. CASE \E go \in BOOLEAN : BeginValueCall(go)
    <3>1. PICK go \in BOOLEAN : BeginValueCall(go)
      BY <2>4
    <3> DEFINE o == [kind |-> "call", func |-> ValueIndex, means |-> Nothing, go |-> go]
    <3>2. /\ UNCHANGED <<text, frames, functions, had_error, mistakes>>
          /\ open' = Append(open, o)
      BY <3>1, Zenon DEF BeginValueCall, OpenCall
    <3>3. o.func \notin 1 .. Len(functions)
      BY DEF ValueIndex
    <3> HIDE DEF o
    <3> QED BY <3>2, <3>3, OpenOwn
  <2>5. CASE \E u \in Own("struct") \cup Foreign("struct") : Instantiate(u)
    BY <2>5, InstantiateOwn
  <2> QED BY <1>7, <2>1, <2>2, <2>3, <2>4, <2>5, Zenon DEF Refer
<1>8. CASE EndCall
  BY <1>8, EndCallOwn
<1>9. CASE Mistake
  <2>1. Report(TRUE, TRUE) /\ TRUE \in BOOLEAN /\ UNCHANGED <<text, frames, functions, open>>
    BY <1>9, Zenon DEF Mistake
  <2>2. \E wrong \in BOOLEAN : Report(TRUE, wrong)
    BY <2>1, Zenon
  <2> QED BY <2>1, <2>2, StillOwn
<1>10. CASE Finish \/ Finished \/ UNCHANGED vars
  <2>1. UNCHANGED <<text, frames, functions, open, had_error, mistakes>>
    BY <1>10, Zenon DEF Finish, Finished, vars
  <2> QED BY <2>1, StillOwn
<1>11. CASE BeginGo
  <2> DEFINE o == [kind |-> "go", begun |-> Len(code)]
  <2>1. /\ UNCHANGED <<text, frames, functions, had_error, mistakes>>
        /\ open' = Append(open, o) /\ o.kind # "call"
    BY <1>11, Zenon DEF BeginGo
  <2> HIDE DEF o
  <2> QED BY <2>1, OpenOwn
<1>12. CASE EndGo
  <2>1. /\ UNCHANGED <<text, frames, functions, had_error, mistakes>>
        /\ \A i \in 1 .. Len(open') : i \in 1 .. Len(open) /\ open'[i] = open[i]
    BY <1>12, EndGoFacts DEF LInv, Linked
  <2>2. OwnCalls' /\ OwnUnknown'
    BY <2>1, InsideOwn
  <2> QED BY <2>1, <2>2, UnreportedOwn DEF MInv
<1> QED
  BY <1>1, <1>2, <1>3, <1>4, <1>5, <1>6, <1>7, <1>8, <1>9, <1>10, <1>11, <1>12,
     Zenon DEF Next

LEMMA InitOwn == Init => MInv
<1> SUFFICES ASSUME Init PROVE MInv
  OBVIOUS
<1>1. /\ text \in Texts /\ Main \in DOMAIN text
      /\ frames = <<[file |-> Main, prefix |-> NULL, next |-> 1, saved |-> FALSE]>>
      /\ open = <<>> /\ mistakes = {}
      /\ DeclaresFunctions(<<>>, functions, text[Main], NULL, Len(text[Main]))
  BY InitFacts
<1>2. OwnCalls
  BY <1>1 DEF OwnCalls
<1>3. OwnKept
  BY <1>1, Zenon DEF OwnKept
<1>4. OwnUnknown
  <2> SUFFICES ASSUME NEW j \in frames[1].next .. Len(text[Main]),
                      text[Main][j].kind = "fun", ~text[Main][j].typed,
                      NEW i \in 1 .. Len(functions),
                      functions[i].name = [prefix |-> NULL, name |-> text[Main][j].name]
               PROVE  ~functions[i].known
    BY Zenon DEF OwnUnknown
  <2>1. frames[1].next = 1 /\ Len(<<>>) = 0
    BY <1>1
  <2>2. PICK k \in 1 .. Len(text[Main]) :
            /\ text[Main][k].kind = "fun"
            /\ functions[i].name = [prefix |-> NULL, name |-> text[Main][k].name]
            /\ functions[i].known = text[Main][k].typed
    BY <1>1, <2>1, SMTT(30) DEF DeclaresFunctions
  <2>3. text[Main][k].name = text[Main][j].name
    <3>1. functions[i].name.name = text[Main][k].name
      BY <2>2
    <3> QED BY <3>1
  <2>4. j \in DOMAIN text[Main] /\ k \in DOMAIN text[Main]
    BY <1>1, <2>1, TextTypes
  <2>5. k = j
    BY <1>1, <2>2, <2>3, <2>4, NamesApart
  <2> QED BY <2>2, <2>5, Zenon
<1> QED BY <1>2, <1>3, <1>4, InitOrigin DEF MInv

\* The result is not known before the main file has been compiled.
LEMMA StillRunning ==
    ASSUME BeginFunction \/ DefineStruct \/ EndFunction \/ BeginLambda \/ RefuseImport
           \/ FailImport \/ BeginImport \/ EndImport \/ Refer \/ EndCall \/ Mistake
           \/ BeginGo \/ EndGo
    PROVE  result = "none" /\ result' = result
<1>1. CASE BeginFunction \/ DefineStruct \/ RefuseImport \/ FailImport \/ BeginImport
  BY <1>1, Zenon DEF BeginFunction, DefineStruct, RefuseImport, FailImport, BeginImport,
     AtItem, Running
<1>2. CASE EndFunction \/ BeginLambda \/ EndImport \/ EndCall \/ Mistake
  BY <1>2, Zenon DEF EndFunction, BeginLambda, EndImport, EndCall, Mistake, InBody, Running
<1>3. CASE Refer
  BY <1>3, Zenon DEF Refer, InBody, Running, Undefined, UseValue, BeginCall,
     BeginValueCall, OpenCall, Instantiate
<1>4. CASE BeginGo \/ EndGo
  BY <1>4, Zenon DEF BeginGo, EndGo, InBody, Running
<1> QED BY <1>1, <1>2, <1>3, <1>4

\* The result is known when the main file has been compiled, and goes by had_error.
LEMMA NextRejected ==
    ASSUME LInv, MInv, OwnMistakesRejected, [Next]_vars
    PROVE  OwnMistakesRejected'
<1>1. CASE BeginFunction \/ DefineStruct \/ EndFunction \/ BeginLambda \/ RefuseImport
           \/ FailImport \/ BeginImport \/ EndImport \/ Refer \/ EndCall \/ Mistake
           \/ BeginGo \/ EndGo
  BY <1>1, StillRunning DEF OwnMistakesRejected
<1>2. CASE Finish
  <2>1. /\ Len(frames) = 1 /\ mistakes' = mistakes
        /\ result' = IF had_error THEN "null" ELSE "chunk"
    BY <1>2, Zenon DEF Finish
  <2>2. NULL \in mistakes => had_error
    BY <2>1, Zenon DEF MInv, OwnKept
  <2>3. NULL \in mistakes => result' = "null"
    BY <2>1, <2>2, Zenon
  <2> QED BY <2>1, <2>3 DEF OwnMistakesRejected
<1>3. CASE Finished \/ UNCHANGED vars
  <2>1. UNCHANGED <<result, mistakes>>
    BY <1>3, Zenon DEF Finished, vars
  <2> QED BY <2>1 DEF OwnMistakesRejected
<1> QED BY <1>1, <1>2, <1>3, Zenon DEF Next

\* In programs whose aliases stand for one file each, and whose main file does
\* not import itself, what is wrong in the main file makes compiler_compile
\* return null, whatever is imported after it: had_error is saved and restored
\* around imports of any depth.
THEOREM OwnMistakesAreRejected ==
    ASSUME OneAlias, NotItself
    PROVE  Spec => []OwnMistakesRejected
<1> DEFINE Inv == LInv /\ MInv /\ OwnMistakesRejected
<1>1. Init => Inv
  <2> SUFFICES ASSUME Init PROVE Inv
    OBVIOUS
  <2>1. LInv /\ MInv
    BY InitIInv, InitLinked, InitOwn DEF LInv
  <2>2. OwnMistakesRejected
    BY InitFacts DEF OwnMistakesRejected
  <2> QED BY <2>1, <2>2
<1>2. Inv /\ [Next]_vars => Inv'
  <2> SUFFICES ASSUME Inv, [Next]_vars PROVE Inv'
    OBVIOUS
  <2>1. LInv'
    BY NextLinked
  <2>2. MInv'
    BY <2>1, NextOwn
  <2>3. OwnMistakesRejected'
    BY NextRejected
  <2> QED BY <2>1, <2>2, <2>3
<1>3. Inv => OwnMistakesRejected
  OBVIOUS
<1> HIDE DEF Inv
<1> QED BY <1>1, <1>2, <1>3, PTL DEF Spec

-----------------------------------------------------------------------------
(* What references reach *)

\* functions have names of their own: other ones than the natives, and in an
\* imported file other ones than in the main file
OwnNames ==
    \A t \in Texts : \A f \in DOMAIN t : \A i \in DOMAIN t[f] :
        t[f][i].kind = "fun" =>
            /\ t[f][i].name \notin Natives
            /\ f # Main => \A j \in DOMAIN t[Main] :
                    t[Main][j].kind = "fun" => t[Main][j].name # t[f][i].name

\* m is the function that the table has under a name
Stands(t, name, m) ==
    /\ m.name = name.name
    /\ m.file \in DOMAIN t
    /\ Denotes(t, name.prefix, m.file)

EntryOf(chunk, a, m) == a \in 1 .. Len(chunk) /\ chunk[a].op = "entry" /\ chunk[a].means = m

\* the call at place c gets its address later
Waits(table, chunk, c) ==
    /\ chunk[c].op = "call" /\ chunk[c].addr = Unknown
    /\ \E i \in 1 .. Len(table) : /\ table[i].addr = Unknown
                                  /\ c \in ToSet(table[i].pending)

ReachesAt(table, chunk, c) ==
    chunk[c].op # "entry" /\ chunk[c].means # Nothing =>
        IF chunk[c].means.file = NativeFile THEN chunk[c].addr = 0
        ELSE EntryOf(chunk, chunk[c].addr, chunk[c].means) \/ Waits(table, chunk, c)

MarkedAt(chunk, c) ==
    /\ chunk[c].op = "go" <=> chunk[c].go
    /\ chunk[c].op = "jump" => chunk[c].means = Nothing

\* what the call o means is what its name was resolved to
MeansAt(t, table, o) ==
    o.kind = "call" =>
        /\ o.func = NativeIndex => o.means.file = NativeFile
        /\ o.func = ValueIndex => o.means = Nothing
        /\ o.func \in 1 .. Len(table) =>
            /\ Stands(t, table[o.func].name, o.means)
            /\ o.go => table[o.func].addr # Unknown

Reaching == \A c \in 1 .. Len(code) : ReachesAt(functions, code, c) /\ MarkedAt(code, c)
Entered ==
    \A i \in 1 .. Len(functions) : functions[i].addr # Unknown =>
        \E m : /\ EntryOf(code, functions[i].addr, m)
               /\ Stands(text, functions[i].name, m)
Awaiting ==
    \A i \in 1 .. Len(functions) : \A c \in ToSet(functions[i].pending) :
        c \in 1 .. Len(code) /\ Stands(text, functions[i].name, code[c].means)
OpenMeans == \A i \in 1 .. Len(open) : MeansAt(text, functions, open[i])

\* is_go is set in go statements, and nothing but the call that they start is
\* open in them
OneGo ==
    /\ is_go <=> \E i \in 1 .. Len(open) : open[i].kind = "go"
    /\ \A i \in 1 .. Len(open) : \A j \in i + 1 .. Len(open) :
            open[i].kind = "go" => open[j].kind = "call" /\ open[j].go
    /\ \A j \in 1 .. Len(open) : open[j].kind = "call" /\ open[j].go =>
            \E i \in 1 .. j - 1 : open[i].kind = "go"

RInv == Reaching /\ Entered /\ Awaiting /\ OpenMeans /\ OneGo

\* Two meanings of one name are one.
LEMMA StandsOne ==
    ASSUME OneAlias, NEW t \in Texts, NEW name, NEW m \in Meanings(t), NEW n \in Meanings(t),
           Stands(t, name, m), Stands(t, name, n)
    PROVE  m = n
<1>1. m.file = n.file /\ m.name = n.name
  BY DenotesOne DEF Stands
<1> QED BY <1>1 DEF Meanings

\* Natives are in no file.
LEMMA StandsFile ==
    ASSUME NEW t \in Texts, NEW name, NEW m, Stands(t, name, m)
    PROVE  m.file # NativeFile /\ m # Nothing
<1>1. m.file \in DOMAIN t
  BY DEF Stands
<1>2. DOMAIN t \subseteq Files
  BY DEF Files
<1>3. m.file # NativeFile /\ m.file # NULL
  BY <1>1, <1>2, ModulesAssumption
<1>4. Nothing.file = NULL
  BY DEF Nothing
<1> QED BY <1>3, <1>4

\* Instructions keep what they are for.
CodeKept ==
    /\ Len(code') >= Len(code)
    /\ \A c \in 1 .. Len(code) : /\ code'[c].op = code[c].op
                                 /\ code'[c].means = code[c].means
                                 /\ code'[c].go = code[c].go

LEMMA EntryKept ==
    ASSUME Kinds, Kinds', CodeKept, NEW a, NEW m, EntryOf(code, a, m)
    PROVE  EntryOf(code', a, m)
<1>1. Len(code) \in Nat /\ Len(code') \in Nat
  BY Lengths
<1>2. a \in 1 .. Len(code) /\ a \in 1 .. Len(code')
  BY <1>1 DEF EntryOf, CodeKept
<1> QED BY <1>2 DEF EntryOf, CodeKept

LEMMA ReachingKept ==
    ASSUME Kinds, Kinds', Reaching, CodeKept,
           \A c \in 1 .. Len(code) :
                \/ code'[c].addr = code[c].addr
                \/ code[c].op = "jump"
                \/ /\ code[c].means.file # NativeFile
                   /\ EntryOf(code', code'[c].addr, code[c].means),
           \A c \in 1 .. Len(code) : Waits(functions, code, c) =>
                \/ Waits(functions', code', c)
                \/ EntryOf(code', code'[c].addr, code[c].means),
           \A c \in Len(code) + 1 .. Len(code') :
                ReachesAt(functions', code', c) /\ MarkedAt(code', c)
    PROVE  Reaching'
<1>1. Len(code) \in Nat /\ Len(code') \in Nat
  BY Lengths
<1> SUFFICES ASSUME NEW c \in 1 .. Len(code')
             PROVE  ReachesAt(functions', code', c) /\ MarkedAt(code', c)
  BY Zenon DEF Reaching
<1>2. CASE c \in Len(code) + 1 .. Len(code')
  BY <1>2
<1>3. CASE c \in 1 .. Len(code)
  <2>1. /\ code'[c].op = code[c].op /\ code'[c].means = code[c].means
        /\ code'[c].go = code[c].go
    BY <1>3 DEF CodeKept
  <2>2. ReachesAt(functions, code, c) /\ MarkedAt(code, c)
    BY <1>3 DEF Reaching
  <2>3. MarkedAt(code', c)
    BY <2>1, <2>2, Zenon DEF MarkedAt
  <2>4. ReachesAt(functions', code', c)
    <3> SUFFICES ASSUME code[c].op # "entry", code[c].means # Nothing
                 PROVE  IF code[c].means.file = NativeFile THEN code'[c].addr = 0
                        ELSE \/ EntryOf(code', code'[c].addr, code[c].means)
                             \/ Waits(functions', code', c)
      BY <2>1, Zenon DEF ReachesAt
    <3>1. code[c].op # "jump"
      BY <2>2 DEF MarkedAt
    <3>2. CASE code[c].means.file = NativeFile
      BY <1>3, <2>2, <3>1, <3>2 DEF ReachesAt
    <3>3. CASE code[c].means.file # NativeFile /\ code'[c].addr = code[c].addr
      <4>1. CASE EntryOf(code, code[c].addr, code[c].means)
        BY <3>3, <4>1, EntryKept
      <4>2. CASE Waits(functions, code, c)
        BY <1>3, <3>3, <4>2
      <4> QED BY <2>2, <3>3, <4>1, <4>2 DEF ReachesAt
    <3>4. CASE code[c].means.file # NativeFile /\ code'[c].addr # code[c].addr
      BY <1>3, <3>1, <3>4
    <3> QED BY <3>2, <3>3, <3>4
  <2> QED BY <2>3, <2>4
<1> QED BY <1>1, <1>2, <1>3

LEMMA EnteredKept ==
    ASSUME Kinds, Kinds', Entered, CodeKept, text' = text,
           \A i \in 1 .. Len(functions') :
                \/ functions'[i].addr = Unknown
                \/ /\ i \in 1 .. Len(functions)
                   /\ functions'[i].name = functions[i].name
                   /\ functions'[i].addr = functions[i].addr
                \/ \E m : /\ EntryOf(code', functions'[i].addr, m)
                          /\ Stands(text, functions'[i].name, m)
    PROVE  Entered'
<1> SUFFICES ASSUME NEW i \in 1 .. Len(functions'), functions'[i].addr # Unknown
             PROVE  \E m : /\ EntryOf(code', functions'[i].addr, m)
                           /\ Stands(text', functions'[i].name, m)
  BY DEF Entered
<1>1. CASE /\ i \in 1 .. Len(functions)
           /\ functions'[i].name = functions[i].name
           /\ functions'[i].addr = functions[i].addr
  <2>1. PICK m : EntryOf(code, functions[i].addr, m) /\ Stands(text, functions[i].name, m)
    BY <1>1 DEF Entered
  <2>2. EntryOf(code', functions[i].addr, m)
    BY <2>1, EntryKept
  <2> QED BY <1>1, <2>1, <2>2
<1>2. CASE \E m : /\ EntryOf(code', functions'[i].addr, m)
                  /\ Stands(text, functions'[i].name, m)
  BY <1>2
<1> QED BY <1>1, <1>2

LEMMA AwaitingKept ==
    ASSUME Kinds, Kinds', Awaiting, CodeKept, text' = text,
           \A i \in 1 .. Len(functions') : \A c \in ToSet(functions'[i].pending) :
                \/ /\ i \in 1 .. Len(functions)
                   /\ functions'[i].name = functions[i].name
                   /\ c \in ToSet(functions[i].pending)
                \/ /\ c \in 1 .. Len(code')
                   /\ Stands(text, functions'[i].name, code'[c].means)
    PROVE  Awaiting'
<1> SUFFICES ASSUME NEW i \in 1 .. Len(functions'), NEW c \in ToSet(functions'[i].pending)
             PROVE  c \in 1 .. Len(code') /\ Stands(text', functions'[i].name, code'[c].means)
  BY DEF Awaiting
<1>1. CASE /\ i \in 1 .. Len(functions)
           /\ functions'[i].name = functions[i].name
           /\ c \in ToSet(functions[i].pending)
  <2>1. c \in 1 .. Len(code) /\ Stands(text, functions[i].name, code[c].means)
    BY <1>1 DEF Awaiting
  <2>2. Len(code) \in Nat /\ Len(code') \in Nat
    BY Lengths
  <2>3. c \in 1 .. Len(code') /\ code'[c].means = code[c].means
    BY <2>1, <2>2 DEF CodeKept
  <2> QED BY <1>1, <2>1, <2>3
<1>2. CASE /\ c \in 1 .. Len(code')
           /\ Stands(text, functions'[i].name, code'[c].means)
  BY <1>2
<1> QED BY <1>1, <1>2

\* The calls that stay open.
LEMMA OpenMeansKept ==
    ASSUME OpenMeans, text' = text, Len(functions') = Len(functions),
           \A i \in 1 .. Len(functions) :
                /\ functions'[i].name = functions[i].name
                /\ functions[i].addr # Unknown => functions'[i].addr # Unknown,
           \A i \in 1 .. Len(open') :
                \/ i \in 1 .. Len(open) /\ open'[i] = open[i]
                \/ open'[i].kind # "call"
                \/ MeansAt(text', functions', open'[i])
    PROVE  OpenMeans'
<1> SUFFICES ASSUME NEW i \in 1 .. Len(open')
             PROVE  MeansAt(text', functions', open'[i])
  BY DEF OpenMeans
<1>1. CASE i \in 1 .. Len(open) /\ open'[i] = open[i]
  <2> DEFINE o == open[i]
  <2>1. MeansAt(text, functions, o) /\ open'[i] = o
    BY <1>1 DEF OpenMeans
  <2> HIDE DEF o
  <2>2. MeansAt(text', functions', o)
    BY <2>1 DEF MeansAt
  <2> QED BY <2>1, <2>2
<1>2. CASE open'[i].kind # "call"
  BY <1>2 DEF MeansAt
<1> QED BY <1>1, <1>2

\* Steps that leave the chunk, the table and what is open alone.
LEMMA StillReaches ==
    ASSUME RInv, UNCHANGED <<text, functions, code, open, is_go>>
    PROVE  RInv'
<1>1. Reaching'
  BY DEF RInv, Reaching
<1>2. Entered' /\ Awaiting' /\ OpenMeans'
  BY DEF RInv, Entered, Awaiting, OpenMeans
<1>3. OneGo'
  BY Zenon DEF RInv, OneGo
<1> QED BY <1>1, <1>2, <1>3 DEF RInv

\* Steps that only emit.
LEMMA EmitReaches ==
    ASSUME LInv, LInv', RInv, UNCHANGED <<text, functions, open, is_go>>,
           Len(code') >= Len(code), \A c \in 1 .. Len(code) : code'[c] = code[c],
           \A c \in Len(code) + 1 .. Len(code') :
                ReachesAt(functions', code', c) /\ MarkedAt(code', c)
    PROVE  RInv'
<1>1. Kinds /\ Kinds'
  BY DEF LInv, Linked
<1>2. CodeKept
  BY DEF CodeKept
<1>3. Reaching'
  <2>1. \A c \in 1 .. Len(code) :
            Waits(functions, code, c) => Waits(functions', code', c)
    BY DEF Waits
  <2> QED BY <1>1, <1>2, <2>1, ReachingKept DEF RInv
<1>4. Entered'
  BY <1>1, <1>2, EnteredKept DEF RInv
<1>5. Awaiting'
  BY <1>1, <1>2, AwaitingKept DEF RInv
<1>6. OpenMeans'
  BY DEF RInv, OpenMeans
<1>7. OneGo'
  BY ZenonT(30) DEF RInv, OneGo
<1> QED BY <1>3, <1>4, <1>5, <1>6, <1>7 DEF RInv

\* What the name of a function is resolved to is what it means.
LEMMA ResolveMeans ==
    ASSUME OneAlias, OwnNames, LInv, Origin, NEW u \in Functions, Resolve(u) # 0
    PROVE  /\ Resolve(u) = NativeIndex => Meaning(u, "fun").file = NativeFile
           /\ Resolve(u) # ValueIndex
           /\ Resolve(u) # NativeIndex => Resolve(u) \in 1 .. Len(functions)
           /\ Resolve(u) \in 1 .. Len(functions) =>
                Stands(text, functions[Resolve(u)].name, Meaning(u, "fun"))
<1> DEFINE i == Resolve(u)
           m == Meaning(u, "fun")
<1>1. IInv /\ Kinds
  BY DEF LInv, Linked
<1>2. /\ text \in Texts /\ Items = text[Module.file] /\ Module.file \in DOMAIN text
      /\ Denotes(text, Module.prefix, Module.file)
  BY <1>1, ModuleFacts, ModuleDenotes
<1>3. /\ u = [prefix |-> u.prefix, name |-> u.name] /\ m.name = u.name
      /\ (u \in Foreign("fun") <=> u.prefix # NULL)
      /\ u.prefix = NULL /\ u \notin Own("fun") =>
                u.name \in Natives /\ m.file = NativeFile
  BY <1>1, FunctionNames
<1>4. functions \in Seq(FunctionEntry(text)) /\ Len(functions) \in Nat
  BY <1>1 DEF Kinds
<1>5. \/ i = NativeIndex /\ u.prefix = NULL /\ u.name \in Natives
      \/ /\ i \in 1 .. Len(functions)
         /\ functions[i].name.name = u.name
         /\ functions[i].name.prefix = u.prefix
      \/ /\ i \in 1 .. Len(functions)
         /\ u.prefix = NULL
         /\ functions[i].name.name = u.name
         /\ functions[i].name.prefix = Module.prefix
  BY <1>1, <1>3, <1>4, ResolveFacts
<1>6. u \in Own("fun") => u.prefix = NULL /\ u.name \notin Natives
                          /\ m.file = Module.file
  <2> SUFFICES ASSUME u \in Own("fun")
               PROVE  u.prefix = NULL /\ u.name \notin Natives /\ m.file = Module.file
    OBVIOUS
  <2>1. PICK j \in DOMAIN Items : /\ u.prefix = NULL /\ m = [file |-> Module.file, name |-> u.name]
                                  /\ Items[j].kind = "fun" /\ Items[j].name = u.name
    BY <1>1, OwnMeaning
  <2>2. Items[j].name \notin Natives
    BY <1>2, <2>1 DEF OwnNames
  <2> QED BY <2>1, <2>2
<1>7. u.prefix = NULL /\ u.name \in Natives => i = NativeIndex
  BY DEF Resolve
<1>8. i = NativeIndex => m.file = NativeFile
  <2>1. NativeIndex \notin 1 .. Len(functions)
    BY <1>4 DEF NativeIndex
  <2> QED BY <1>3, <1>5, <1>6, <2>1
<1>9. i # ValueIndex /\ (i # NativeIndex => i \in 1 .. Len(functions))
  <2>1. ValueIndex \notin 1 .. Len(functions) /\ NativeIndex # ValueIndex
    BY <1>4 DEF ValueIndex, NativeIndex
  <2> QED BY <1>5, <2>1
<1>10. ASSUME i \in 1 .. Len(functions)
       PROVE  m.file \in DOMAIN text /\ Denotes(text, functions[i].name.prefix, m.file)
  <2>0. i # NativeIndex
    BY <1>4, <1>10 DEF NativeIndex
  <2>1. CASE u \in Foreign("fun")
    <3>1. PICK a \in Imports : /\ Items[a].alias = u.prefix /\ m.file = Items[a].file
                               /\ Items[a].file \in DOMAIN text
                               /\ Items[a] \in ImportsOf(text)
      BY <1>1, <2>1, ForeignMeaning
    <3>2. functions[i].name.prefix = u.prefix
      BY <1>3, <1>5, <2>0, <2>1
    <3> QED BY <3>1, <3>2 DEF Denotes
  <2>2. CASE u \in Own("fun")
    <3>1. m.file = Module.file /\ u.prefix = NULL
      BY <1>6, <2>2
    <3>2. CASE functions[i].name.prefix = Module.prefix
      BY <1>2, <3>1, <3>2
    <3>3. CASE functions[i].name.prefix = NULL
      <4>1. Source(text, functions[i], "fun")
        BY <1>10 DEF Origin
      <4> DEFINE e == functions[i]
      <4>2. PICK f \in DOMAIN text : \E j \in DOMAIN text[f] :
                /\ Denotes(text, e.name.prefix, f)
                /\ text[f][j].kind = "fun" /\ text[f][j].name = e.name.name
        BY <4>1, Zenon DEF Source
      <4>3. f = Main
        BY <1>2, <3>3, <4>2, DenotesOne DEF Denotes
      <4>4. PICK j \in DOMAIN text[Main] : text[Main][j].kind = "fun" /\ text[Main][j].name = u.name
        BY <1>5, <1>10, <2>0, <4>2, <4>3
      <4>5. PICK k \in DOMAIN Items : Items[k].kind = "fun" /\ Items[k].name = u.name
        BY <1>1, <2>2, OwnMeaning
      <4>6. Module.file = Main
        BY <1>2, <4>4, <4>5 DEF OwnNames
      <4> QED BY <1>2, <3>1, <3>3, <4>6 DEF Denotes
    <3> QED BY <1>5, <2>0, <3>1, <3>2, <3>3
  <2>3. CASE u \notin Foreign("fun") /\ u \notin Own("fun")
    BY <1>3, <1>7, <2>0, <2>3
  <2> QED BY <2>1, <2>2, <2>3
<1>11. i \in 1 .. Len(functions) => Stands(text, functions[i].name, m)
  <2>1. i \in 1 .. Len(functions) => functions[i].name.name = m.name
    <3>1. NativeIndex \notin 1 .. Len(functions)
      BY <1>4 DEF NativeIndex
    <3> QED BY <1>3, <1>5, <3>1
  <2> QED BY <1>10, <2>1 DEF Stands
<1> QED BY <1>8, <1>9, <1>11

\* A function that is pushed has its address.
LEMMA PushedHasAddress ==
    ASSUME Features = {}, Kinds, NEW i \in 1 .. Len(functions), MayPush(i)
    PROVE  functions[i].addr # Unknown
BY Lengths DEF MayPush, IsFunction

\* The address of what is meant.
LEMMA AddressReaches ==
    ASSUME OneAlias, LInv, Entered, NEW i \in 1 .. Len(functions), functions[i].addr # Unknown,
           NEW m \in Meanings(text), Stands(text, functions[i].name, m)
    PROVE  EntryOf(code, functions[i].addr, m)
<1>1. PICK n : EntryOf(code, functions[i].addr, n) /\ Stands(text, functions[i].name, n)
  BY DEF Entered
<1>2. Kinds /\ text \in Texts
  BY ModuleFacts DEF LInv, Linked
<1>3. n \in Meanings(text)
  <2>1. code[functions[i].addr] \in Instructions(text)
    BY <1>1, <1>2, Lengths DEF EntryOf
  <2> QED BY <1>1, <2>1 DEF EntryOf, Instructions
<1>4. n = m
  BY <1>1, <1>2, <1>3, StandsOne
<1> QED BY <1>1, <1>4

\* An instruction that refers to nothing.
LEMMA PlainReaches ==
    ASSUME NEW table, NEW chunk, NEW c, chunk[c].means = Nothing,
           chunk[c].go = FALSE, chunk[c].op # "go"
    PROVE  ReachesAt(table, chunk, c) /\ MarkedAt(chunk, c)
<1>1. ReachesAt(table, chunk, c)
  BY DEF ReachesAt
<1>2. MarkedAt(chunk, c)
  <2>1. ~chunk[c].go
    OBVIOUS
  <2> QED BY <2>1, Zenon DEF MarkedAt
<1> QED BY <1>1, <1>2

LEMMA UseValueReaches ==
    ASSUME OneAlias, OwnNames, Features = {}, LInv, LInv', Origin, RInv,
           NEW u \in Functions, UseValue(u)
    PROVE  RInv'
<1> DEFINE i == Resolve(u)
           m == Meaning(u, "fun")
           e == IF IsFunction(i) THEN Instruction("value", functions[i].addr, m, FALSE)
                ELSE Instruction("native", 0, m, FALSE)
<1>1. /\ i # 0 /\ MayPush(i)
      /\ UNCHANGED <<text, functions, open, is_go>>
      /\ code' = Append(code, e)
  BY Zenon DEF UseValue
<1>2. Kinds /\ IInv
  BY DEF LInv, Linked
<1>3. m \in Meanings(text)
  BY <1>2, FunctionNames
<1>4. /\ i = NativeIndex => m.file = NativeFile
      /\ i # NativeIndex => i \in 1 .. Len(functions)
      /\ i \in 1 .. Len(functions) => Stands(text, functions[i].name, m)
  BY <1>1, ResolveMeans
<1>5. IsFunction(i) <=> i \in 1 .. Len(functions)
  BY <1>2, Lengths DEF IsFunction
<1>6. /\ i \in 1 .. Len(functions) => e.op = "value" /\ e.addr = functions[i].addr
      /\ i \notin 1 .. Len(functions) => e.op = "native" /\ e.addr = 0
      /\ e.means = m /\ e.go = FALSE
  BY <1>5 DEF Instruction
<1> HIDE DEF e
<1>7. /\ i \in 1 .. Len(functions) => EntryOf(code, e.addr, m) /\ m.file # NativeFile
      /\ i \notin 1 .. Len(functions) => e.addr = 0 /\ m.file = NativeFile
  <2>1. ASSUME i \in 1 .. Len(functions)
        PROVE  EntryOf(code, e.addr, m) /\ m.file # NativeFile
    <3>1. functions[i].addr # Unknown
      BY <1>1, <1>2, <2>1, PushedHasAddress
    <3>2. Stands(text, functions[i].name, m)
      BY <1>4, <2>1
    <3> HIDE DEF i, m
    <3>3. EntryOf(code, functions[i].addr, m)
      BY <1>3, <2>1, <3>1, <3>2, AddressReaches DEF RInv
    <3> QED BY <1>2, <1>6, <2>1, <3>2, <3>3, StandsFile, ModuleFacts
  <2> QED BY <1>4, <1>6, <2>1
<1> HIDE DEF i, m
<1>8. code \in Seq(Instructions(text)) /\ Len(code) \in Nat
  BY <1>2 DEF Kinds
<1>9. /\ Len(code') = Len(code) + 1
      /\ \A c \in 1 .. Len(code) : code'[c] = code[c]
      /\ code'[Len(code) + 1] = e
  BY <1>1, <1>8
<1>10. \A c \in Len(code) + 1 .. Len(code') : code'[c] = e
  BY <1>8, <1>9
<1>11. m.file # NativeFile => EntryOf(code', e.addr, m)
  <2>1. ASSUME EntryOf(code, e.addr, m)
        PROVE  EntryOf(code', e.addr, m)
    <3>1. e.addr \in 1 .. Len(code) /\ e.addr \in 1 .. Len(code')
      BY <1>8, <1>9, <2>1 DEF EntryOf
    <3> QED BY <1>9, <2>1, <3>1 DEF EntryOf
  <2> QED BY <1>7, <2>1
<1>12. ASSUME NEW c \in Len(code) + 1 .. Len(code')
       PROVE  ReachesAt(functions', code', c) /\ MarkedAt(code', c)
  <2>1. code'[c] = e
    BY <1>10
  <2>2. MarkedAt(code', c)
    <3>1. e.op # "go" /\ ~e.go /\ e.op # "jump"
      BY <1>6
    <3> QED BY <2>1, <3>1, Zenon DEF MarkedAt
  <2>3. ReachesAt(functions', code', c)
    BY <1>6, <1>7, <1>11, <2>1 DEF ReachesAt
  <2> QED BY <2>2, <2>3
<1> QED BY <1>1, <1>8, <1>9, <1>12, EmitReaches

LEMMA InstantiateReaches ==
    ASSUME LInv, LInv', RInv, NEW u, Instantiate(u)
    PROVE  RInv'
<1> DEFINE e == Plain("struct", 0)
<1>1. /\ UNCHANGED <<text, functions, open, is_go>>
      /\ code' = code \/ code' = Append(code, e)
  BY Zenon DEF Instantiate
<1>2. e.op = "struct" /\ e.means = Nothing /\ e.go = FALSE
  BY DEF Plain, Instruction
<1> HIDE DEF e
<1>3. code \in Seq(Instructions(text)) /\ Len(code) \in Nat
  BY DEF LInv, Linked, Kinds
<1>4. CASE code' = code
  BY <1>1, <1>4, StillReaches
<1>5. CASE code' = Append(code, e)
  <2>1. /\ Len(code') = Len(code) + 1 /\ code'[Len(code) + 1] = e
        /\ \A c \in 1 .. Len(code) : code'[c] = code[c]
    BY <1>3, <1>5
  <2>2. \A c \in Len(code) + 1 .. Len(code') : code'[c] = e
    BY <1>3, <2>1
  <2>3. \A c \in Len(code) + 1 .. Len(code') :
            ReachesAt(functions', code', c) /\ MarkedAt(code', c)
    BY <1>2, <2>2, PlainReaches
  <2> QED BY <1>1, <1>3, <2>1, <2>3, EmitReaches
<1> QED BY <1>1, <1>4, <1>5

\* Something is opened: what the chunk and the table have stays.
LEMMA OpenReaches ==
    ASSUME LInv, LInv', RInv, UNCHANGED <<text, functions>>,
           Len(code') >= Len(code), \A c \in 1 .. Len(code) : code'[c] = code[c],
           \A c \in Len(code) + 1 .. Len(code') :
                ReachesAt(functions', code', c) /\ MarkedAt(code', c),
           NEW o, open' = Append(open, o), MeansAt(text, functions, o), OneGo'
    PROVE  RInv'
<1>1. Kinds /\ Kinds'
  BY DEF LInv, Linked
<1>2. CodeKept
  BY DEF CodeKept
<1>3. Reaching'
  <2>1. \A c \in 1 .. Len(code) :
            Waits(functions, code, c) => Waits(functions', code', c)
    BY DEF Waits
  <2> QED BY <1>1, <1>2, <2>1, ReachingKept DEF RInv
<1>4. Entered'
  BY <1>1, <1>2, EnteredKept DEF RInv
<1>5. Awaiting'
  BY <1>1, <1>2, AwaitingKept DEF RInv
<1>6. OpenMeans'
  <2>1. open \in Seq(Opens(text))
    BY <1>1 DEF Kinds
  <2>2. \A i \in 1 .. Len(open') : (i \in 1 .. Len(open) /\ open'[i] = open[i]) \/ open'[i] = o
    BY <2>1
  <2>3. \A i \in 1 .. Len(open') :
            \/ i \in 1 .. Len(open) /\ open'[i] = open[i]
            \/ MeansAt(text', functions', open'[i])
    BY <2>2
  <2> QED BY <2>3, OpenMeansKept DEF RInv
<1> QED BY <1>3, <1>4, <1>5, <1>6 DEF RInv

\* The call that a go statement starts is opened in it, and everything else in
\* no go statement.
LEMMA OneGoOpened ==
    ASSUME Kinds, OneGo, NEW o, open' = Append(open, o),
           \/ /\ open # <<>> /\ Last(open).kind = "go" /\ is_go' = is_go
              /\ o.kind = "call" /\ o.go
           \/ ~InGo /\ is_go' = is_go /\ o.kind # "go" /\ ~ (o.kind = "call" /\ o.go)
           \/ ~InGo /\ is_go' = TRUE /\ o.kind = "go"
    PROVE  OneGo'
<1> DEFINE n == Len(open)
<1>1. open \in Seq(Opens(text)) /\ n \in Nat /\ DOMAIN open = 1 .. n
  BY Lengths DEF Kinds
<1>2. /\ Len(open') = n + 1 /\ open'[n + 1] = o
      /\ \A i \in 1 .. n : open'[i] = open[i]
  BY <1>1
<1>3. InGo <=> \E i \in 1 .. n : open[i].kind = "go"
  BY <1>1 DEF InGo
<1>4. open # <<>> => n \in 1 .. n /\ Last(open) = open[n]
  BY <1>1 DEF Last
<1>5. /\ is_go <=> InGo
      /\ \A i \in 1 .. n : \A j \in i + 1 .. n :
            open[i].kind = "go" => open[j].kind = "call" /\ open[j].go
      /\ \A j \in 1 .. n : open[j].kind = "call" /\ open[j].go =>
            \E i \in 1 .. j - 1 : open[i].kind = "go"
  BY <1>3, Zenon DEF OneGo
<1> HIDE DEF n
<1>6. /\ n + 1 \in 1 .. n + 1
      /\ \A i \in 1 .. n : i \in 1 .. n + 1
      /\ \A i \in 1 .. n + 1 : i \in 1 .. n \/ i = n + 1
      /\ \A i \in 1 .. n : i \in 1 .. (n + 1) - 1
      /\ \A j \in 1 .. n : \A i \in 1 .. j - 1 : i \in 1 .. n
      /\ \A i \in 1 .. n + 1 : \A j \in i + 1 .. n + 1 :
            i \in 1 .. n /\ (j = n + 1 \/ (j \in 1 .. n /\ j \in i + 1 .. n))
  BY <1>1
<1>7. is_go' <=> \E i \in 1 .. n + 1 : open'[i].kind = "go"
  <2>1. (\E i \in 1 .. n + 1 : open'[i].kind = "go") <=> InGo \/ o.kind = "go"
    BY <1>2, <1>3, <1>6, Zenon
  <2>2. o.kind = "call" => o.kind # "go"
    OBVIOUS
  <2>3. open # <<>> /\ Last(open).kind = "go" => InGo
    BY <1>3, <1>4, Zenon
  <2>4. CASE open # <<>> /\ Last(open).kind = "go" /\ is_go' = is_go /\ o.kind = "call"
    BY <1>5, <2>1, <2>3, <2>4, Zenon
  <2>5. CASE ~InGo /\ is_go' = is_go /\ o.kind # "go"
    BY <1>5, <2>1, <2>5, Zenon
  <2>6. CASE is_go' = TRUE /\ o.kind = "go"
    BY <2>1, <2>6, Zenon
  <2> QED BY <2>4, <2>5, <2>6, Zenon
<1>8. ASSUME NEW i \in 1 .. n + 1, NEW j \in i + 1 .. n + 1, open'[i].kind = "go"
      PROVE  open'[j].kind = "call" /\ open'[j].go
  <2>1. i \in 1 .. n /\ open[i].kind = "go"
    BY <1>2, <1>6, <1>8
  <2>2. InGo
    BY <1>3, <2>1
  <2>3. o.kind = "call" /\ o.go
    BY <2>2, Zenon
  <2>4. CASE j = n + 1
    BY <1>2, <2>3, <2>4, Zenon
  <2>5. CASE j \in 1 .. n /\ j \in i + 1 .. n
    <3>1. open[j].kind = "call" /\ open[j].go
      BY <1>5, <2>1, <2>5, Zenon
    <3>2. open'[j] = open[j]
      BY <1>2, <2>5, Zenon
    <3> QED BY <3>1, <3>2, Zenon
  <2> QED BY <1>6, <2>4, <2>5
<1>9. ASSUME NEW j \in 1 .. n + 1, open'[j].kind = "call", open'[j].go
      PROVE  \E i \in 1 .. j - 1 : open'[i].kind = "go"
  <2>1. CASE j \in 1 .. n
    <3>1. open[j].kind = "call" /\ open[j].go
      BY <1>2, <1>9, <2>1, Zenon
    <3>2. PICK i \in 1 .. j - 1 : open[i].kind = "go"
      BY <1>5, <2>1, <3>1, Zenon
    <3>3. open'[i].kind = "go"
      BY <1>2, <1>6, <2>1, <3>2, Zenon
    <3> QED BY <3>3
  <2>2. CASE j = n + 1
    <3>1. o.kind = "call" /\ o.go
      BY <1>2, <1>9, <2>2, Zenon
    <3>2. o.kind # "go"
      BY <3>1
    <3>3. open # <<>> /\ Last(open).kind = "go"
      BY <3>1, <3>2, Zenon
    <3>4. n \in 1 .. n /\ open[n].kind = "go"
      BY <1>4, <3>3
    <3>5. n \in 1 .. j - 1 /\ open'[n].kind = "go"
      BY <1>2, <1>6, <2>2, <3>4
    <3> QED BY <3>5
  <2> QED BY <1>6, <2>1, <2>2
<1> QED BY <1>2, <1>7, <1>8, <1>9, SMTT(30) DEF OneGo

LEMMA LastIsGo ==
    ASSUME Kinds, OneGo, open # <<>>, Last(open).kind = "go"
    PROVE  is_go
<1>1. open \in Seq(Opens(text))
  BY DEF Kinds
<1>2. Len(open) \in 1 .. Len(open) /\ Last(open) = open[Len(open)]
  BY <1>1, FrontFacts
<1> QED BY <1>2, Zenon DEF OneGo

LEMMA BeginCallReaches ==
    ASSUME OneAlias, OwnNames, Features = {}, LInv, LInv', Origin, RInv,
           NEW u \in Functions, NEW go \in BOOLEAN, open # <<>>, BeginCall(u, go)
    PROVE  RInv'
<1> DEFINE i == Resolve(u)
           m == Meaning(u, "fun")
           o == [kind |-> "call", func |-> i, means |-> m, go |-> go]
<1>1. /\ i # 0 /\ UNCHANGED <<text, functions, code>>
      /\ go => Last(open).kind = "go"
      /\ InGo => go \/ "go_inner" \in Features
      /\ is_go => MayPush(i)
      /\ is_go' = is_go /\ open' = Append(open, o)
  BY Zenon DEF BeginCall, OpenCall
<1>2. Kinds
  BY DEF LInv, Linked
<1>3. InGo => go
  BY <1>1
<1>4. open # <<>>
  OBVIOUS
<1>5. o.kind = "call" /\ o.func = i /\ o.means = m /\ o.go = go
  OBVIOUS
<1>6. /\ i = NativeIndex => m.file = NativeFile
      /\ i # ValueIndex
      /\ i \in 1 .. Len(functions) => Stands(text, functions[i].name, m)
  BY <1>1, ResolveMeans
<1>7. go /\ i \in 1 .. Len(functions) => functions[i].addr # Unknown
  <2>1. go => is_go
    BY <1>1, <1>2, <1>4, LastIsGo DEF RInv
  <2> QED BY <1>1, <1>2, <2>1, PushedHasAddress
<1> HIDE DEF i, m, o
<1>8. MeansAt(text, functions, o)
  <2>1. o.go => go
    BY <1>5
  <2> QED BY <1>5, <1>6, <1>7, <2>1 DEF MeansAt
<1>9. OneGo'
  <2>1. o.kind # "go" /\ (o.go <=> go)
    BY <1>5
  <2> QED BY <1>1, <1>2, <1>3, <1>4, <1>5, <2>1, OneGoOpened, Zenon DEF RInv
<1>10. Len(code) \in Nat
  BY <1>2, Lengths
<1> QED BY <1>1, <1>8, <1>9, <1>10, OpenReaches

LEMMA BeginValueCallReaches ==
    ASSUME Features = {}, LInv, LInv', RInv, NEW go \in BOOLEAN, open # <<>>,
           BeginValueCall(go)
    PROVE  RInv'
<1> DEFINE o == [kind |-> "call", func |-> ValueIndex, means |-> Nothing, go |-> go]
<1>1. /\ UNCHANGED <<text, functions, code>>
      /\ go => Last(open).kind = "go"
      /\ InGo => go \/ "go_inner" \in Features
      /\ is_go' = is_go /\ open' = Append(open, o)
  BY Zenon DEF BeginValueCall, OpenCall
<1>2. Kinds
  BY DEF LInv, Linked
<1>3. InGo => go
  BY <1>1
<1>4. open # <<>>
  OBVIOUS
<1>5. o.kind = "call" /\ o.func = ValueIndex /\ o.means = Nothing /\ o.go = go
  OBVIOUS
<1> HIDE DEF o
<1>6. MeansAt(text, functions, o)
  <2>1. ValueIndex # NativeIndex /\ ValueIndex \notin 1 .. Len(functions)
    BY <1>2, Lengths DEF ValueIndex, NativeIndex
  <2> QED BY <1>5, <2>1 DEF MeansAt
<1>7. OneGo'
  <2>1. o.kind # "go" /\ (o.go <=> go)
    BY <1>5
  <2> QED BY <1>1, <1>2, <1>3, <1>4, <1>5, <2>1, OneGoOpened, Zenon DEF RInv
<1>8. Len(code) \in Nat
  BY <1>2, Lengths
<1> QED BY <1>1, <1>6, <1>7, <1>8, OpenReaches

LEMMA BeginLambdaReaches ==
    ASSUME Features = {}, LInv, LInv', RInv, BeginLambda
    PROVE  RInv'
<1> DEFINE j == Plain("jump", Unknown)
           e == Plain("entry", Len(code) + 2)
           o == [kind |-> "body", func |-> 0, jump |-> Len(code) + 1]
<1>1. /\ UNCHANGED <<text, functions, is_go>>
      /\ "go_inner" \in Features \/ ~InGo
      /\ open' = Append(open, o) /\ code' = code \o <<j, e>>
  BY Zenon DEF BeginLambda
<1>2. Kinds
  BY DEF LInv, Linked
<1>3. /\ j.op = "jump" /\ j.means = Nothing /\ j.go = FALSE
      /\ e.op = "entry" /\ e.means = Nothing /\ e.go = FALSE
      /\ o.kind = "body"
  BY DEF Plain, Instruction
<1> HIDE DEF j, e, o
<1>4. code \in Seq(Instructions(text)) /\ Len(code) \in Nat
  BY <1>2 DEF Kinds
<1>5. /\ Len(code') = Len(code) + 2
      /\ \A c \in 1 .. Len(code) : code'[c] = code[c]
      /\ code'[Len(code) + 1] = j /\ code'[Len(code) + 2] = e
  BY <1>1, <1>4
<1>6. \A c \in Len(code) + 1 .. Len(code') : code'[c] = j \/ code'[c] = e
  <2>1. \A c \in Len(code) + 1 .. Len(code') : c = Len(code) + 1 \/ c = Len(code) + 2
    BY <1>4, <1>5
  <2> QED BY <1>5, <2>1
<1>7. \A c \in Len(code) + 1 .. Len(code') :
            ReachesAt(functions', code', c) /\ MarkedAt(code', c)
  <2>1. \A c \in Len(code) + 1 .. Len(code') :
            code'[c].means = Nothing /\ code'[c].go = FALSE /\ code'[c].op # "go"
    BY <1>3, <1>6
  <2> QED BY <2>1, PlainReaches
<1>8. OneGo'
  <2>1. ~InGo /\ o.kind # "go" /\ o.kind # "call"
    BY <1>1, <1>3
  <2> QED BY <1>1, <1>2, <2>1, OneGoOpened, Zenon DEF RInv
<1>9. MeansAt(text, functions, o)
  BY <1>3 DEF MeansAt
<1>10. Len(code') >= Len(code)
  BY <1>4, <1>5
<1> QED BY <1>1, <1>5, <1>7, <1>8, <1>9, <1>10, OpenReaches

\* The go statement begins with is_go set.
LEMMA BeginGoReaches ==
    ASSUME Features = {}, LInv, LInv', RInv, BeginGo
    PROVE  RInv'
<1> DEFINE o == [kind |-> "go", begun |-> Len(code)]
<1>1. /\ UNCHANGED <<text, functions, code>> /\ is_go' = TRUE
      /\ "go_inner" \in Features \/ ~InGo
      /\ open' = Append(open, o)
  BY Zenon DEF BeginGo
<1>2. Kinds
  BY DEF LInv, Linked
<1>3. o.kind = "go"
  OBVIOUS
<1> HIDE DEF o
<1>4. OneGo'
  <2>1. ~InGo
    BY <1>1
  <2> QED BY <1>1, <1>2, <1>3, <2>1, OneGoOpened, Zenon DEF RInv
<1>5. MeansAt(text, functions, o)
  BY <1>3 DEF MeansAt
<1>6. Len(code) \in Nat
  BY <1>2, Lengths
<1> QED BY <1>1, <1>4, <1>5, <1>6, OpenReaches

\* What is open when the last of it ends.
LEMMA OneGoFront ==
    ASSUME Kinds, OneGo, open # <<>>, open' = Front(open),
           is_go' = IF Last(open).kind = "go" THEN FALSE ELSE is_go
    PROVE  OneGo'
<1> DEFINE n == Len(open)
<1>1. open \in Seq(Opens(text)) /\ n \in Nat
  BY DEF Kinds
<1>2. /\ Len(open') = n - 1 /\ Last(open) = open[n] /\ n \in 1 .. n
      /\ \A i \in 1 .. n - 1 : open'[i] = open[i]
  BY <1>1, FrontFacts
<1>3. /\ is_go <=> \E i \in 1 .. n : open[i].kind = "go"
      /\ \A i \in 1 .. n : \A j \in i + 1 .. n :
            open[i].kind = "go" => open[j].kind = "call" /\ open[j].go
      /\ \A j \in 1 .. n : open[j].kind = "call" /\ open[j].go =>
            \E i \in 1 .. j - 1 : open[i].kind = "go"
  BY Zenon DEF OneGo
<1> HIDE DEF n
<1>4. /\ \A i \in 1 .. n - 1 : i \in 1 .. n /\ n \in i + 1 .. n
      /\ \A i \in 1 .. n : i \in 1 .. n - 1 \/ i = n
      /\ \A i \in 1 .. n - 1 : \A j \in i + 1 .. n - 1 : j \in i + 1 .. n /\ j \in 1 .. n - 1
      /\ \A j \in 1 .. n - 1 : \A i \in 1 .. j - 1 : i \in 1 .. n - 1
  BY <1>1
<1>5. \A i \in 1 .. n - 1 : open[i].kind = "go" => open[n].kind # "go"
  <2> SUFFICES ASSUME NEW i \in 1 .. n - 1, open[i].kind = "go"
               PROVE  open[n].kind # "go"
    OBVIOUS
  <2>1. open[n].kind = "call"
    BY <1>3, <1>4, Zenon
  <2> QED BY <2>1
<1>6. is_go' <=> \E i \in 1 .. n - 1 : open'[i].kind = "go"
  <2>1. CASE open[n].kind = "go"
    BY <1>2, <1>5, <2>1, Zenon
  <2>2. CASE open[n].kind # "go"
    BY <1>2, <1>3, <1>4, <2>2, Zenon
  <2> QED BY <2>1, <2>2
<1>7. ASSUME NEW i \in 1 .. n - 1, NEW j \in i + 1 .. n - 1, open'[i].kind = "go"
      PROVE  open'[j].kind = "call" /\ open'[j].go
  <2>1. open'[i] = open[i] /\ open'[j] = open[j]
    BY <1>2, <1>4, Zenon
  <2>2. open[i].kind = "go" /\ i \in 1 .. n /\ j \in i + 1 .. n
    BY <1>4, <1>7, <2>1, Zenon
  <2>3. open[j].kind = "call" /\ open[j].go
    BY <1>3, <2>2, Zenon
  <2> QED BY <2>1, <2>3, Zenon
<1>8. ASSUME NEW j \in 1 .. n - 1, open'[j].kind = "call", open'[j].go
      PROVE  \E i \in 1 .. j - 1 : open'[i].kind = "go"
  <2>1. j \in 1 .. n /\ open[j].kind = "call" /\ open[j].go
    BY <1>2, <1>4, <1>8, Zenon
  <2>2. PICK i \in 1 .. j - 1 : open[i].kind = "go"
    BY <1>3, <2>1, Zenon
  <2>3. open'[i].kind = "go"
    BY <1>2, <1>4, <2>2, Zenon
  <2> QED BY <2>3
<1> QED BY <1>2, <1>6, <1>7, <1>8, ZenonT(30) DEF OneGo

\* The go statement ends with is_go reset, and was in no other.
LEMMA EndGoReaches ==
    ASSUME LInv, LInv', RInv, EndGo
    PROVE  RInv'
<1>1. Kinds /\ Kinds'
  BY DEF LInv, Linked
<1>2. /\ UNCHANGED <<text, functions, code>>
      /\ open # <<>> /\ Last(open).kind = "go" /\ open' = Front(open) /\ is_go' = FALSE
      /\ \A i \in 1 .. Len(open') : i \in 1 .. Len(open) /\ open'[i] = open[i]
  BY <1>1, EndGoFacts
<1>3. Reaching' /\ Entered' /\ Awaiting'
  BY <1>2 DEF RInv, Reaching, Entered, Awaiting
<1>4. OpenMeans'
  BY <1>2, OpenMeansKept DEF RInv
<1>5. OneGo'
  BY <1>1, <1>2, OneGoFront DEF RInv
<1> QED BY <1>3, <1>4, <1>5 DEF RInv

LEMMA EndFunctionReaches ==
    ASSUME LInv, LInv', RInv, EndFunction
    PROVE  RInv'
<1>1. /\ open # <<>> /\ Last(open).kind = "body" /\ open' = Front(open)
      /\ UNCHANGED <<text, is_go>> /\ Len(code') > Len(code)
      /\ \A c \in 1 .. Len(code) :
            /\ code'[c].op = code[c].op /\ code'[c].means = code[c].means
            /\ code'[c].go = code[c].go
            /\ code[c].op # "jump" => code'[c] = code[c]
      /\ \A c \in Len(code) + 1 .. Len(code') :
            code'[c].op \in {"ret", "value"} /\ code'[c].means = Nothing /\ code'[c].go = FALSE
      /\ Len(functions') = Len(functions)
      /\ \A i \in 1 .. Len(functions) : /\ functions'[i].name = functions[i].name
                                        /\ functions'[i].addr = functions[i].addr
                                        /\ functions'[i].pending = functions[i].pending
  BY EndFunctionFacts
<1>2. Kinds /\ Kinds'
  BY DEF LInv, Linked
<1>3. CodeKept
  <2>1. Len(code') >= Len(code)
    BY <1>1, <1>2, Lengths
  <2> QED BY <1>1, <2>1 DEF CodeKept
<1>4. Reaching'
  <2>1. \A c \in Len(code) + 1 .. Len(code') :
            ReachesAt(functions', code', c) /\ MarkedAt(code', c)
    <3>1. \A c \in Len(code) + 1 .. Len(code') :
            code'[c].means = Nothing /\ code'[c].go = FALSE /\ code'[c].op # "go"
      BY <1>1
    <3> QED BY <3>1, PlainReaches
  <2>2. ASSUME NEW c \in 1 .. Len(code), Waits(functions, code, c)
        PROVE  Waits(functions', code', c)
    <3>1. code'[c] = code[c]
      BY <1>1, <2>2 DEF Waits
    <3>2. PICK i \in 1 .. Len(functions) : functions[i].addr = Unknown
                                           /\ c \in ToSet(functions[i].pending)
      BY <2>2 DEF Waits
    <3>3. i \in 1 .. Len(functions') /\ functions'[i].addr = Unknown
          /\ c \in ToSet(functions'[i].pending)
      BY <1>1, <3>2
    <3> QED BY <2>2, <3>1, <3>3 DEF Waits
  <2>3. \A c \in 1 .. Len(code) : code'[c].addr = code[c].addr \/ code[c].op = "jump"
    BY <1>1
  <2> QED BY <1>2, <1>3, <2>1, <2>2, <2>3, ReachingKept DEF RInv
<1>5. Entered'
  BY <1>1, <1>2, <1>3, EnteredKept DEF RInv
<1>6. Awaiting'
  BY <1>1, <1>2, <1>3, AwaitingKept DEF RInv
<1>7. OpenMeans'
  <2>1. open \in Seq(Opens(text))
    BY <1>2 DEF Kinds
  <2>2. Len(open') = Len(open) - 1 /\ \A i \in 1 .. Len(open) - 1 : open'[i] = open[i]
    BY <1>1, <2>1, FrontFacts
  <2>3. \A i \in 1 .. Len(open') : i \in 1 .. Len(open) /\ open'[i] = open[i]
    BY <2>1, <2>2
  <2> QED BY <1>1, <2>3, OpenMeansKept DEF RInv
<1>8. OneGo'
  <2>1. Last(open).kind # "go"
    BY <1>1
  <2> QED BY <1>1, <1>2, <2>1, OneGoFront DEF RInv
<1> QED BY <1>4, <1>5, <1>6, <1>7, <1>8 DEF RInv

\* The go statement under way is that of the call which ends.
LEMMA LastGo ==
    ASSUME LInv, OneGo, open # <<>>, Last(open).kind = "call"
    PROVE  Last(open).go <=> is_go
<1> DEFINE n == Len(open)
<1>1. Last(open) = open[n] /\ n \in 1 .. n /\ open[n].kind = "call"
  BY LastCallFacts
<1>2. /\ is_go <=> \E i \in 1 .. n : open[i].kind = "go"
      /\ \A i \in 1 .. n : \A j \in i + 1 .. n :
            open[i].kind = "go" => open[j].kind = "call" /\ open[j].go
      /\ \A j \in 1 .. n : open[j].kind = "call" /\ open[j].go =>
            \E i \in 1 .. j - 1 : open[i].kind = "go"
  BY Zenon DEF OneGo
<1>3. n \in Nat
  BY Lengths DEF LInv, Linked
<1> HIDE DEF n
<1>4. /\ \A i \in 1 .. n : i = n \/ n \in i + 1 .. n
      /\ \A i \in 1 .. n - 1 : i \in 1 .. n
  BY <1>3
<1>5. open[n].kind # "go"
  BY <1>1
<1>6. is_go => open[n].go
  BY <1>1, <1>2, <1>4, <1>5, Zenon
<1>7. open[n].go => is_go
  BY <1>1, <1>2, <1>4, Zenon
<1> QED BY <1>1, <1>6, <1>7, Zenon

\* Where a function is called before it is compiled.
LEMMA RememberPlaces ==
    ASSUME Kinds, NEW i \in 1 .. Len(functions), Remember(i, Len(code) + 1)
    PROVE  /\ ToSet(functions'[i].pending) \subseteq
                    ToSet(functions[i].pending) \cup {Len(code) + 1}
           /\ ToSet(functions[i].pending) \subseteq ToSet(functions'[i].pending)
           /\ functions[i].addr = Unknown /\ Len(functions[i].pending) < MaxPatches =>
                    Len(code) + 1 \in ToSet(functions'[i].pending)
<1> DEFINE p == functions[i].pending
           q == functions'[i].pending
<1>1. \/ q = p /\ (functions[i].addr = Unknown => Len(p) >= MaxPatches)
      \/ q = Append(p, Len(code) + 1)
  BY RememberFacts
<1>2. p \in Seq(Nat) /\ Len(code) \in Nat
  BY Lengths DEF FunctionEntry
<1> HIDE DEF p, q
<1>3. CASE q = p /\ (functions[i].addr = Unknown => Len(p) >= MaxPatches)
  <2>1. ~ (functions[i].addr = Unknown /\ Len(p) < MaxPatches)
    BY <1>2, <1>3, ModulesAssumption
  <2> QED BY <1>3, <2>1 DEF p, q
<1>4. CASE q = Append(p, Len(code) + 1)
  <2>1. /\ Len(q) = Len(p) + 1 /\ q[Len(p) + 1] = Len(code) + 1 /\ Len(p) \in Nat
        /\ \A k \in 1 .. Len(p) : q[k] = p[k]
        /\ DOMAIN q = 1 .. Len(q) /\ DOMAIN p = 1 .. Len(p)
    BY <1>2, <1>4
  <2>2. Len(p) + 1 \in DOMAIN q /\ \A k \in 1 .. Len(p) : k \in DOMAIN q
    BY <2>1
  <2>3. \A k \in DOMAIN q : k \in DOMAIN p \/ k = Len(p) + 1
    BY <2>1
  <2>4. Len(code) + 1 \in ToSet(q)
    BY <2>1, <2>2 DEF ToSet
  <2>5. ToSet(p) \subseteq ToSet(q)
    BY <2>1, <2>2 DEF ToSet
  <2>6. ToSet(q) \subseteq ToSet(p) \cup {Len(code) + 1}
    BY <2>1, <2>3 DEF ToSet
  <2> QED BY <2>4, <2>5, <2>6 DEF p, q
<1> QED BY <1>1, <1>3, <1>4

LEMMA EndCallReaches ==
    ASSUME OneAlias, MaxUses <= MaxPatches, LInv, LInv', Bounded, RInv, EndCall
    PROVE  RInv'
<1> DEFINE call == Last(open)
           i == call.func
           e == Emitted(call)
<1>1. /\ open # <<>> /\ call.kind = "call" /\ open' = Front(open)
      /\ text' = text /\ is_go' = is_go
      /\ code' = Append(code, e)
      /\ CallOp(call) = "call" => Remember(i, Len(code) + 1)
      /\ CallOp(call) # "call" => functions' = functions
  BY EndCallFacts
<1>2. Kinds /\ Kinds'
  BY DEF LInv, Linked
<1>3. /\ call \in Calls(text) /\ call = open[Len(open)] /\ Len(open) \in 1 .. Len(open)
      /\ i \in {NativeIndex, ValueIndex} \/ i \in 1 .. Len(functions)
      /\ IsFunction(i) <=> i \in 1 .. Len(functions)
      /\ ~IsFunction(NativeIndex) /\ ~IsFunction(ValueIndex)
  BY <1>1, LastCallFacts
<1>4. /\ e.op = CallOp(call) /\ e.addr = CallAddr(call)
      /\ e.means = call.means /\ e.go = call.go
      /\ CallOp(call) \in {"go", "call", "native", "invoke"}
      /\ CallOp(call) = "call" => i \in 1 .. Len(functions)
      /\ call.means \in Meanings(text)
  <2>1. call \in Calls(text)
    BY <1>3
  <2> HIDE DEF call
  <2> QED BY <1>2, <2>1, EmittedFacts DEF Calls
<1>5. MeansAt(text, functions, call)
  BY <1>3 DEF RInv, OpenMeans
<1>6. call.go <=> is_go
  BY <1>1, LastGo DEF RInv
<1>7. CallAddr(call) = IF IsFunction(i) THEN functions[i].addr ELSE 0
  BY DEF CallAddr
<1>8. Len(open) >= 2 /\ Len(open) \in Nat
  BY <1>1, CallInBody
<1>9. CallOp(call) = "go" <=> is_go
  BY DEF CallOp
<1>10. ~is_go /\ IsFunction(i) => CallOp(call) = "call"
  BY DEF CallOp
<1>11. OneGo'
  <2>1. Last(open).kind # "go"
    BY <1>1
  <2> QED BY <1>1, <1>2, <2>1, OneGoFront DEF RInv
<1> HIDE DEF call, i, e
<1>12. /\ code \in Seq(Instructions(text)) /\ Len(code) \in Nat
       /\ open \in Seq(Opens(text))
  BY <1>2 DEF Kinds
<1>13. /\ Len(code') = Len(code) + 1 /\ Len(code) + 1 \in 1 .. Len(code')
       /\ \A c \in 1 .. Len(code) : code'[c] = code[c]
       /\ code'[Len(code) + 1] = e
  <2>1. Len(code') = Len(code) + 1
    BY <1>1, <1>12
  <2> QED BY <1>1, <1>12, <2>1
<1>14. CodeKept
  BY <1>12, <1>13 DEF CodeKept
<1>15. /\ Len(functions') = Len(functions)
       /\ \A l \in 1 .. Len(functions) :
            /\ functions'[l].name = functions[l].name
            /\ functions'[l].addr = functions[l].addr
            /\ l # i => functions'[l] = functions[l]
            /\ ToSet(functions[l].pending) \subseteq ToSet(functions'[l].pending)
            /\ l = i => ToSet(functions'[l].pending) \subseteq
                            ToSet(functions[l].pending) \cup {Len(code) + 1}
       /\ CallOp(call) # "call" => functions' = functions
  <2>1. CASE CallOp(call) # "call"
    BY <1>1, <2>1
  <2>2. CASE CallOp(call) = "call"
    <3>1. i \in 1 .. Len(functions) /\ Remember(i, Len(code) + 1)
      BY <1>1, <1>4, <2>2
    <3>2. /\ Len(functions') = Len(functions)
          /\ \A l \in 1 .. Len(functions) : /\ l # i => functions'[l] = functions[l]
                                            /\ functions'[l].name = functions[l].name
                                            /\ functions'[l].addr = functions[l].addr
      BY <1>2, <3>1, RememberFacts
    <3>3. /\ ToSet(functions'[i].pending) \subseteq
                    ToSet(functions[i].pending) \cup {Len(code) + 1}
          /\ ToSet(functions[i].pending) \subseteq ToSet(functions'[i].pending)
      BY <1>2, <3>1, RememberPlaces
    <3> QED BY <2>2, <3>2, <3>3
  <2> QED BY <2>1, <2>2
<1>16. ReachesAt(functions', code', Len(code) + 1)
  <2>1. CASE i = NativeIndex
    <3>1. call.means.file = NativeFile
      BY <1>1, <1>5, <2>1 DEF MeansAt, i
    <3>2. e.addr = 0
      BY <1>3, <1>4, <1>7, <2>1
    <3> QED BY <1>4, <1>13, <3>1, <3>2 DEF ReachesAt
  <2>2. CASE i = ValueIndex
    <3>1. call.means = Nothing
      BY <1>1, <1>5, <2>2 DEF MeansAt, i
    <3> QED BY <1>4, <1>13, <3>1 DEF ReachesAt
  <2>3. CASE i \in 1 .. Len(functions)
    <3>1. /\ Stands(text, functions[i].name, call.means)
          /\ call.go => functions[i].addr # Unknown
      BY <1>1, <1>5, <2>3 DEF MeansAt, i
    <3>2. e.addr = functions[i].addr
      BY <1>3, <1>4, <1>7, <2>3
    <3>3. call.means.file # NativeFile
      <4>1. text \in Texts
        BY ModuleFacts DEF LInv
      <4> QED BY <3>1, <4>1, StandsFile
    <3>4. CASE functions[i].addr # Unknown
      <4>1. EntryOf(code, e.addr, e.means)
        BY <1>4, <2>3, <3>1, <3>2, <3>4, AddressReaches DEF RInv
      <4>2. EntryOf(code', e.addr, e.means)
        BY <1>2, <1>14, <4>1, EntryKept
      <4> QED BY <1>4, <1>13, <3>3, <4>2 DEF ReachesAt
    <3>5. CASE functions[i].addr = Unknown
      <4>1. ~is_go
        BY <1>6, <3>1, <3>5
      <4>2. CallOp(call) = "call" /\ Remember(i, Len(code) + 1)
        BY <1>1, <1>3, <1>10, <2>3, <4>1
      <4>3. Len(functions[i].pending) < MaxPatches
        <5>1. functions[i].pending \in Seq(Nat) /\ Len(functions[i].pending) <= Uses
          BY <1>2, <2>3, Lengths DEF FunctionEntry, Bounded
        <5>2. Uses + Len(open) <= MaxUses + 1
          BY <1>1 DEF EndCall, Bounded
        <5>3. Uses \in Nat /\ MaxUses \in Nat /\ MaxPatches \in Nat
              /\ Len(functions[i].pending) \in Nat
          BY <1>2, <5>1, UsesFinite, ModulesAssumption
        <5> QED BY <1>8, <5>1, <5>2, <5>3
      <4>4. Len(code) + 1 \in ToSet(functions'[i].pending)
        BY <1>2, <2>3, <3>5, <4>2, <4>3, RememberPlaces
      <4>5. Waits(functions', code', Len(code) + 1)
        BY <1>4, <1>13, <1>15, <2>3, <3>2, <3>5, <4>2, <4>4 DEF Waits
      <4> QED BY <1>4, <1>13, <3>3, <4>5 DEF ReachesAt
    <3> QED BY <3>4, <3>5
  <2> QED BY <1>3, <2>1, <2>2, <2>3
<1>17. MarkedAt(code', Len(code) + 1)
  <2>1. e.op = "go" <=> is_go
    BY <1>4, <1>9
  <2>2. e.go = call.go
    BY <1>4
  <2>3. e.op # "jump"
    BY <1>4
  <2> QED BY <1>6, <1>13, <2>1, <2>2, <2>3, Zenon DEF MarkedAt
<1>18. Reaching'
  <2>1. \A c \in Len(code) + 1 .. Len(code') :
            ReachesAt(functions', code', c) /\ MarkedAt(code', c)
    <3>1. \A c \in Len(code) + 1 .. Len(code') : c = Len(code) + 1
      BY <1>12, <1>13
    <3> QED BY <1>16, <1>17, <3>1
  <2>2. \A c \in 1 .. Len(code) : Waits(functions, code, c) => Waits(functions', code', c)
    BY <1>13, <1>15 DEF Waits
  <2> QED BY <1>2, <1>13, <1>14, <2>1, <2>2, ReachingKept DEF RInv
<1>19. Entered'
  BY <1>1, <1>2, <1>14, <1>15, EnteredKept DEF RInv
<1>20. Awaiting'
  <2>1. ASSUME NEW l \in 1 .. Len(functions'), NEW c \in ToSet(functions'[l].pending)
        PROVE  \/ /\ l \in 1 .. Len(functions)
                  /\ functions'[l].name = functions[l].name
                  /\ c \in ToSet(functions[l].pending)
               \/ /\ c \in 1 .. Len(code')
                  /\ Stands(text, functions'[l].name, code'[c].means)
    <3>1. l \in 1 .. Len(functions) /\ functions'[l].name = functions[l].name
      BY <1>15
    <3>2. CASE c \in ToSet(functions[l].pending)
      BY <3>1, <3>2
    <3>3. CASE c \notin ToSet(functions[l].pending)
      <4>1. l = i /\ CallOp(call) = "call" /\ c = Len(code) + 1
        BY <1>15, <3>1, <3>3
      <4>2. Stands(text, functions[i].name, call.means)
        BY <1>1, <1>5, <3>1, <4>1 DEF MeansAt, i
      <4> QED BY <1>4, <1>13, <3>1, <4>1, <4>2
    <3> QED BY <3>2, <3>3
  <2> QED BY <1>1, <1>2, <1>14, <2>1, AwaitingKept DEF RInv
<1>21. OpenMeans'
  <2>1. Len(open') = Len(open) - 1 /\ \A l \in 1 .. Len(open) - 1 : open'[l] = open[l]
    BY <1>1, <1>12, FrontFacts
  <2>2. \A l \in 1 .. Len(open') : l \in 1 .. Len(open) /\ open'[l] = open[l]
    BY <1>8, <2>1
  <2> QED BY <1>1, <1>15, <2>2, OpenMeansKept DEF RInv
<1> QED BY <1>11, <1>18, <1>19, <1>20, <1>21 DEF RInv

LEMMA BeginFunctionReaches ==
    ASSUME OneAlias, LInv, LInv', RInv, BeginFunction
    PROVE  RInv'
<1> DEFINE m == [file |-> Module.file, name |-> Item.name]
           a == Len(code) + 2
<1>1. /\ open = <<>> /\ text' = text /\ is_go' = is_go
      /\ Module.next \in DOMAIN Items /\ Item.kind = "fun"
      /\ Len(code') = Len(code) + 2
      /\ code'[Len(code) + 1].op = "jump" /\ code'[Len(code) + 1].means = Nothing
      /\ code'[Len(code) + 1].go = FALSE
      /\ code'[Len(code) + 2].op = "entry" /\ code'[Len(code) + 2].go = FALSE
      /\ code'[Len(code) + 2].means = m
  BY BeginFunctionFacts
<1>2. PICK i \in Nat :
        /\ Begins(i)
        /\ \A c \in 1 .. Len(code) :
            /\ code'[c].op = code[c].op /\ code'[c].means = code[c].means
            /\ code'[c].go = code[c].go
            /\ c \in Places(i) => code'[c].addr = a
            /\ c \notin Places(i) => code'[c] = code[c]
  BY BeginFunctionFacts
<1>3. Kinds /\ Kinds' /\ Pending /\ IInv
  BY DEF LInv, Linked
<1>4. text \in Texts /\ Module.file \in DOMAIN text
  BY <1>3, ModuleFacts
<1>5. m \in Meanings(text)
  BY <1>1, <1>3, <1>4, ItemFacts DEF Meanings
<1>6. m.file = Module.file /\ m.name = Item.name
  OBVIOUS
<1>7. Len(code) \in Nat /\ Len(code') \in Nat /\ a = Len(code) + 2 /\ a # Unknown
  <2>1. Len(code) \in Nat /\ Len(code') \in Nat
    BY <1>3, Lengths
  <2> QED BY <2>1 DEF Unknown
<1> HIDE DEF m, a
<1>8. CodeKept
  BY <1>1, <1>2, <1>7 DEF CodeKept
<1>9. EntryOf(code', a, m)
  BY <1>1, <1>7 DEF EntryOf
<1>10. /\ i \in 1 .. Len(functions') /\ Len(functions') >= Len(functions)
       /\ functions'[i].name = [prefix |-> Module.prefix, name |-> Item.name]
       /\ functions'[i].addr = a /\ functions'[i].pending = <<>>
       /\ i \in 1 .. Len(functions) => functions[i].name = functions'[i].name
       /\ \A l \in 1 .. Len(functions') :
                l # i => l \in 1 .. Len(functions) /\ functions'[l] = functions[l]
  BY <1>2, <1>7 DEF Begins
<1>11. Stands(text, functions'[i].name, m)
  <2>1. /\ functions'[i].name.name = Item.name
        /\ functions'[i].name.prefix = Module.prefix
    BY <1>10
  <2> QED BY <1>4, <1>6, <2>1, ModuleDenotes DEF Stands
<1>12. ASSUME NEW c \in Places(i)
       PROVE  /\ c \in 1 .. Len(code) /\ code[c].op = "call" /\ code[c].means = m
              /\ code'[c].addr = a
  <2>1. i \in 1 .. Len(functions) /\ c \in ToSet(functions[i].pending)
    BY <1>12 DEF Places
  <2>2. c \in 1 .. Len(code) /\ Stands(text, functions[i].name, code[c].means)
    BY <2>1 DEF RInv, Awaiting
  <2>3. code[c].op = "call"
    <3> DEFINE p == functions[i].pending
    <3>1. p \in Seq(Nat)
      BY <1>3, <2>1, Lengths DEF FunctionEntry
    <3>2. \A k \in 1 .. Len(p) : code[p[k]].op = "call"
      BY <1>3, <2>1 DEF Pending
    <3>3. c \in ToSet(p)
      BY <2>1
    <3> HIDE DEF p
    <3> QED BY <3>1, <3>2, <3>3 DEF ToSet
  <2>4. code[c].means \in Meanings(text)
    <3>1. code[c] \in Instructions(text)
      BY <1>3, <2>2 DEF Kinds
    <3> QED BY <3>1 DEF Instructions
  <2>5. Stands(text, functions[i].name, m)
    BY <1>10, <1>11, <2>1
  <2>6. code[c].means = m
    BY <1>4, <1>5, <2>2, <2>4, <2>5, StandsOne
  <2> QED BY <1>2, <2>2, <2>3, <2>6
<1>13. Reaching'
  <2>1. ASSUME NEW c \in 1 .. Len(code)
        PROVE  \/ code'[c].addr = code[c].addr
               \/ code[c].op = "jump"
               \/ /\ code[c].means.file # NativeFile
                  /\ EntryOf(code', code'[c].addr, code[c].means)
    <3>1. m.file # NativeFile
      BY <1>4, <1>11, StandsFile
    <3>2. CASE c \in Places(i)
      BY <1>9, <1>12, <3>1, <3>2
    <3>3. CASE c \notin Places(i)
      BY <1>2, <3>3
    <3> QED BY <3>2, <3>3
  <2>2. ASSUME NEW c \in 1 .. Len(code), Waits(functions, code, c)
        PROVE  \/ Waits(functions', code', c)
               \/ EntryOf(code', code'[c].addr, code[c].means)
    <3>1. CASE c \in Places(i)
      BY <1>9, <1>12, <3>1
    <3>2. CASE c \notin Places(i)
      <4>1. PICK l \in 1 .. Len(functions) : functions[l].addr = Unknown
                                             /\ c \in ToSet(functions[l].pending)
        BY <2>2 DEF Waits
      <4>2. l # i
        BY <3>2, <4>1 DEF Places
      <4>3. l \in 1 .. Len(functions')
        BY <1>3, <1>10, Lengths
      <4>4. functions'[l] = functions[l] /\ code'[c] = code[c]
        BY <1>2, <1>10, <3>2, <4>2, <4>3
      <4> QED BY <2>2, <4>1, <4>3, <4>4 DEF Waits
    <3> QED BY <3>1, <3>2
  <2>3. ASSUME NEW c \in Len(code) + 1 .. Len(code')
        PROVE  ReachesAt(functions', code', c) /\ MarkedAt(code', c)
    <3>1. c = Len(code) + 1 \/ c = Len(code) + 2
      BY <1>1, <1>7
    <3>2. CASE c = Len(code) + 1
      <4>1. /\ code'[c].means = Nothing /\ code'[c].go = FALSE /\ code'[c].op # "go"
        BY <1>1, <3>2
      <4> QED BY <4>1, PlainReaches
    <3>3. CASE c = Len(code) + 2
      <4>1. code'[c].op = "entry" /\ ~code'[c].go
        BY <1>1, <3>3
      <4>2. code'[c].op # "go" /\ code'[c].op # "jump"
        BY <4>1
      <4>3. MarkedAt(code', c)
        BY <4>1, <4>2, Zenon DEF MarkedAt
      <4> QED BY <4>1, <4>3 DEF ReachesAt
    <3> QED BY <3>1, <3>2, <3>3
  <2> QED BY <1>3, <1>8, <2>1, <2>2, <2>3, ReachingKept DEF RInv
<1>14. Entered'
  <2>1. ASSUME NEW l \in 1 .. Len(functions')
        PROVE  \/ functions'[l].addr = Unknown
               \/ /\ l \in 1 .. Len(functions)
                  /\ functions'[l].name = functions[l].name
                  /\ functions'[l].addr = functions[l].addr
               \/ \E n : /\ EntryOf(code', functions'[l].addr, n)
                         /\ Stands(text, functions'[l].name, n)
    <3>1. CASE l = i
      BY <1>9, <1>10, <1>11, <3>1
    <3>2. CASE l # i
      BY <1>10, <3>2
    <3> QED BY <3>1, <3>2
  <2> QED BY <1>1, <1>3, <1>8, <2>1, EnteredKept DEF RInv
<1>15. Awaiting'
  <2>1. ASSUME NEW l \in 1 .. Len(functions'), NEW c \in ToSet(functions'[l].pending)
        PROVE  /\ l \in 1 .. Len(functions)
               /\ functions'[l].name = functions[l].name
               /\ c \in ToSet(functions[l].pending)
    <3>1. l # i
      <4>1. ToSet(<<>>) = {}
        BY DEF ToSet
      <4> QED BY <1>10, <2>1, <4>1
    <3> QED BY <1>10, <2>1, <3>1
  <2> QED BY <1>1, <1>3, <1>8, <2>1, AwaitingKept DEF RInv
<1>16. open' = <<[kind |-> "body", func |-> i, jump |-> Len(code) + 1]>>
  BY <1>2 DEF Begins
<1>17. Len(open') = 1 /\ open'[1].kind = "body"
  BY <1>16
<1>18. \A l \in 1 .. Len(open') : open'[l].kind = "body"
  BY <1>17
<1>19. OpenMeans'
  BY <1>18 DEF OpenMeans, MeansAt
<1>20. OneGo'
  <2>1. ~is_go
    <3>1. \A l \in 1 .. Len(open) : FALSE
      BY <1>1
    <3> QED BY <3>1, Zenon DEF RInv, OneGo
  <2>2. \A l \in 1 .. Len(open') : open'[l].kind # "go" /\ open'[l].kind # "call"
    BY <1>18
  <2> QED BY <1>1, <2>1, <2>2, Zenon DEF OneGo
<1> QED BY <1>13, <1>14, <1>15, <1>19, <1>20 DEF RInv

LEMMA BeginImportReaches ==
    ASSUME LInv, LInv', RInv, BeginImport
    PROVE  RInv'
<1>1. /\ open = <<>> /\ UNCHANGED <<text, open, code, is_go>>
      /\ DeclaresFunctions(functions, functions', text[Item.file], Item.alias,
                           Len(text[Item.file]))
  BY BeginImportFacts
<1>2. Kinds /\ Kinds'
  BY DEF LInv, Linked
<1>3. Len(code) \in Nat /\ Len(functions) \in Nat /\ Len(functions') \in Nat
  BY <1>2, Lengths
<1>4. CodeKept
  BY <1>1, <1>3 DEF CodeKept
<1>5. \A l \in 1 .. Len(functions) :
        /\ l \in 1 .. Len(functions')
        /\ functions'[l].name = functions[l].name
        /\ functions'[l].addr = functions[l].addr
        /\ functions'[l].pending = functions[l].pending
  BY <1>1, <1>3 DEF DeclaresFunctions
<1>6. \A l \in 1 .. Len(functions') :
        l \notin 1 .. Len(functions) =>
            functions'[l].addr = Unknown /\ functions'[l].pending = <<>>
  BY <1>1, <1>3 DEF DeclaresFunctions
<1>7. Reaching'
  <2>1. \A c \in 1 .. Len(code) : Waits(functions, code, c) => Waits(functions', code', c)
    BY <1>1, <1>5 DEF Waits
  <2>2. \A c \in Len(code) + 1 .. Len(code') : FALSE
    BY <1>1, <1>3
  <2> QED BY <1>1, <1>2, <1>4, <2>1, <2>2, ReachingKept DEF RInv
<1>8. Entered'
  BY <1>1, <1>2, <1>4, <1>5, <1>6, EnteredKept DEF RInv
<1>9. Awaiting'
  <2>1. ASSUME NEW l \in 1 .. Len(functions'), NEW c \in ToSet(functions'[l].pending)
        PROVE  /\ l \in 1 .. Len(functions)
               /\ functions'[l].name = functions[l].name
               /\ c \in ToSet(functions[l].pending)
    <3>1. ToSet(<<>>) = {}
      BY DEF ToSet
    <3> QED BY <1>5, <1>6, <2>1, <3>1
  <2> QED BY <1>1, <1>2, <1>4, <2>1, AwaitingKept DEF RInv
<1>10. OpenMeans' /\ OneGo'
  <2>1. \A l \in 1 .. Len(open) : FALSE
    BY <1>1
  <2>2. OpenMeans'
    BY <1>1, <2>1 DEF OpenMeans
  <2>3. open' = open /\ is_go' = is_go /\ OneGo
    BY <1>1 DEF RInv
  <2>4. OneGo'
    BY <2>3, Zenon DEF OneGo
  <2> QED BY <2>2, <2>4
<1> QED BY <1>7, <1>8, <1>9, <1>10 DEF RInv

\* The end: every function is compiled, and main is called by its entry.
LEMMA FinishFacts ==
    ASSUME LInv, Finish
    PROVE  /\ UNCHANGED <<text, functions, open, is_go>>
           /\ \A l \in 1 .. Len(functions) : functions[l].addr # Unknown
           /\ Len(code') >= Len(code) /\ \A c \in 1 .. Len(code) : code'[c] = code[c]
           /\ \A c \in Len(code) + 1 .. Len(code') :
                \/ /\ code'[c].op = "halt" /\ code'[c].means = Nothing
                   /\ code'[c].go = FALSE
                \/ /\ code'[c].op = "call" /\ code'[c].go = FALSE
                   /\ code'[c].means = [file |-> Main, name |-> "main"]
                   /\ \E l \in 1 .. Len(functions) :
                        /\ functions[l].name = [prefix |-> NULL, name |-> "main"]
                        /\ code'[c].addr = functions[l].addr
<1> DEFINE name == [prefix |-> NULL, name |-> "main"]
           m == [file |-> Main, name |-> "main"]
           i == Find(functions, name)
           e == Instruction("call", functions[i].addr, m, FALSE)
           h == Plain("halt", 0)
<1>1. IInv /\ Kinds /\ Awaited
  BY DEF LInv, Linked
<1>2. /\ UNCHANGED <<text, functions, open, is_go>>
      /\ code' = code \o (IF i = 0 THEN <<>> ELSE <<e>>) \o <<h>>
      /\ Len(frames) = 1 /\ Module.next = Len(Items) + 1
  BY Zenon DEF Finish
<1>3. /\ e.op = "call" /\ e.addr = functions[i].addr /\ e.means = m /\ e.go = FALSE
      /\ h.op = "halt" /\ h.means = Nothing /\ h.go = FALSE
  BY DEF Plain, Instruction
<1>4. i # 0 => i \in 1 .. Len(functions) /\ functions[i].name = name
  <2>1. functions \in Seq(FunctionEntry(text))
    BY <1>1 DEF Kinds
  <2> HIDE DEF name
  <2> QED BY <2>1, FindFacts
<1>5. ASSUME NEW l \in 1 .. Len(functions)
      PROVE  functions[l].addr # Unknown
  <2> SUFFICES ASSUME functions[l].addr = Unknown PROVE FALSE
    OBVIOUS
  <2>1. PICK k \in 1 .. Len(frames) :
            \E j \in frames[k].next .. Len(text[frames[k].file]) : TRUE
    BY <1>1 DEF Awaited
  <2>2. k = 1
    BY <1>2
  <2>3. PICK j \in frames[1].next .. Len(text[frames[1].file]) : TRUE
    BY <2>1, <2>2
  <2>4. Module = frames[1] /\ Items = text[frames[1].file]
    BY <1>2 DEF Module, Items, Last
  <2>5. Len(text[frames[1].file]) \in Nat
    <3>1. text \in Texts /\ Module.file \in DOMAIN text
      BY <1>1, ModuleFacts
    <3> QED BY <2>4, <3>1, TextTypes
  <2> QED BY <1>2, <2>3, <2>4, <2>5
<1> HIDE DEF i, e, h, m, name
<1>6. code \in Seq(Instructions(text)) /\ Len(code) \in Nat
  BY <1>1 DEF Kinds
<1>7. /\ Len(code') >= Len(code) /\ \A c \in 1 .. Len(code) : code'[c] = code[c]
      /\ \A c \in Len(code) + 1 .. Len(code') : code'[c] = h \/ (i # 0 /\ code'[c] = e)
  <2>1. CASE i = 0
    <3>1. Len(code') = Len(code) + 1 /\ \A c \in 1 .. Len(code) : code'[c] = code[c]
      BY <1>2, <1>6, <2>1
    <3>2. code'[Len(code) + 1] = h
      BY <1>2, <1>6, <2>1
    <3>3. \A c \in Len(code) + 1 .. Len(code') : c = Len(code) + 1
      BY <1>6, <3>1
    <3>4. Len(code') >= Len(code)
      BY <1>6, <3>1
    <3> QED BY <3>1, <3>2, <3>3, <3>4
  <2>2. CASE i # 0
    <3> DEFINE called == code \o <<e>>
    <3>1. code' = called \o <<h>>
      BY <1>2, <2>2
    <3>2. /\ called \in Seq(Instructions(text) \cup {e}) /\ Len(called) = Len(code) + 1
          /\ \A c \in 1 .. Len(code) : called[c] = code[c]
          /\ called[Len(code) + 1] = e
      BY <1>6
    <3> HIDE DEF called
    <3>3. /\ Len(code') = Len(code) + 2 /\ \A c \in 1 .. Len(code) + 1 : code'[c] = called[c]
          /\ code'[Len(code) + 2] = h
      BY <1>6, <3>1, <3>2
    <3>4. /\ \A c \in 1 .. Len(code) : code'[c] = code[c]
          /\ code'[Len(code) + 1] = e
      BY <1>6, <3>2, <3>3
    <3>5. \A c \in Len(code) + 1 .. Len(code') : c = Len(code) + 1 \/ c = Len(code) + 2
      BY <1>6, <3>3
    <3>6. Len(code') >= Len(code)
      BY <1>6, <3>3
    <3> QED BY <2>2, <3>3, <3>4, <3>5, <3>6
  <2> QED BY <2>1, <2>2
<1>8. ASSUME NEW c \in Len(code) + 1 .. Len(code')
      PROVE  \/ /\ code'[c].op = "halt" /\ code'[c].means = Nothing
                /\ code'[c].go = FALSE
             \/ /\ code'[c].op = "call" /\ code'[c].go = FALSE
                /\ code'[c].means = m
                /\ \E l \in 1 .. Len(functions) : /\ functions[l].name = name
                                                  /\ code'[c].addr = functions[l].addr
  BY <1>3, <1>4, <1>7
<1> QED BY <1>2, <1>5, <1>7, <1>8 DEF m, name

LEMMA FinishReaches ==
    ASSUME OneAlias, LInv, LInv', RInv, Finish
    PROVE  RInv'
<1> DEFINE m == [file |-> Main, name |-> "main"]
<1>1. /\ UNCHANGED <<text, functions, open, is_go>>
      /\ \A l \in 1 .. Len(functions) : functions[l].addr # Unknown
      /\ Len(code') >= Len(code) /\ \A c \in 1 .. Len(code) : code'[c] = code[c]
      /\ \A c \in Len(code) + 1 .. Len(code') :
           \/ /\ code'[c].op = "halt" /\ code'[c].means = Nothing
              /\ code'[c].go = FALSE
           \/ /\ code'[c].op = "call" /\ code'[c].go = FALSE
              /\ code'[c].means = m
              /\ \E l \in 1 .. Len(functions) :
                   /\ functions[l].name = [prefix |-> NULL, name |-> "main"]
                   /\ code'[c].addr = functions[l].addr
  BY FinishFacts
<1>2. Kinds /\ Kinds' /\ IInv
  BY DEF LInv, Linked
<1>3. text \in Texts /\ Main \in DOMAIN text
  BY <1>2, ModuleFacts, ModulesAssumption
<1>4. m.file = Main /\ m.name = "main"
  OBVIOUS
<1> HIDE DEF m
<1>5. CodeKept
  BY <1>1 DEF CodeKept
<1>6. ASSUME NEW c \in Len(code) + 1 .. Len(code')
      PROVE  ReachesAt(functions', code', c) /\ MarkedAt(code', c)
  <2>1. CASE /\ code'[c].op = "halt" /\ code'[c].means = Nothing
             /\ code'[c].go = FALSE
    <3>1. code'[c].op # "go"
      BY <2>1
    <3> QED BY <2>1, <3>1, PlainReaches
  <2>2. CASE /\ code'[c].op = "call" /\ code'[c].go = FALSE
             /\ code'[c].means = m
             /\ \E l \in 1 .. Len(functions) :
                  /\ functions[l].name = [prefix |-> NULL, name |-> "main"]
                  /\ code'[c].addr = functions[l].addr
    <3>1. PICK l \in 1 .. Len(functions) :
              /\ functions[l].name = [prefix |-> NULL, name |-> "main"]
              /\ code'[c].addr = functions[l].addr
      BY <2>2
    <3>2. functions[l].name.prefix = NULL /\ functions[l].name.name = "main"
      BY <3>1
    <3>3. Stands(text, functions[l].name, m)
      BY <1>3, <1>4, <3>2 DEF Stands, Denotes
    <3>4. m \in Meanings(text)
      <4>1. functions[l].name \in Qualified(text)
        BY <1>2, Lengths DEF FunctionEntry
      <4>2. "main" \in Names(text)
        BY <3>2, <4>1 DEF Qualified
      <4> QED BY <1>3, <4>2 DEF Meanings, m
    <3>5. EntryOf(code, functions[l].addr, m)
      BY <1>1, <3>3, <3>4, AddressReaches DEF RInv
    <3>6. EntryOf(code', functions[l].addr, m)
      BY <1>2, <1>5, <3>5, EntryKept
    <3>7. m.file # NativeFile
      BY <1>3, <3>3, StandsFile
    <3>8. ReachesAt(functions', code', c)
      BY <2>2, <3>1, <3>6, <3>7 DEF ReachesAt
    <3>9. MarkedAt(code', c)
      <4>1. ~code'[c].go /\ code'[c].op # "go" /\ code'[c].op # "jump"
        BY <2>2
      <4> QED BY <4>1, Zenon DEF MarkedAt
    <3> QED BY <3>8, <3>9
  <2> QED BY <1>1, <2>1, <2>2
<1> QED BY <1>1, <1>6, EmitReaches

LEMMA NextReaches ==
    ASSUME OneAlias, OwnNames, Features = {}, MaxUses <= MaxPatches,
           LInv, LInv', Bounded, Origin, RInv, [Next]_vars
    PROVE  RInv'
<1>1. CASE BeginFunction
  BY <1>1, BeginFunctionReaches
<1>2. CASE EndFunction
  BY <1>2, EndFunctionReaches
<1>3. CASE BeginLambda
  BY <1>3, BeginLambdaReaches
<1>4. CASE BeginImport
  BY <1>4, BeginImportReaches
<1>5. CASE Refer
  <2> open # <<>>
    BY <1>5, Zenon DEF Refer, InBody
  <2>1. CASE \E u \in Functions : Undefined(u)
    <3>1. UNCHANGED <<text, functions, code, open, is_go>>
      BY <2>1, Zenon DEF Undefined
    <3> QED BY <3>1, StillReaches
  <2>2. CASE \E u \in Functions : UseValue(u)
    BY <2>2, UseValueReaches
  <2>3. CASE \E u \in Functions : \E go \in BOOLEAN : BeginCall(u, go)
    <3>1. PICK u \in Functions, go \in BOOLEAN : BeginCall(u, go)
      BY <2>3
    <3> QED BY <3>1, BeginCallReaches
  <2>4. CASE \E go \in BOOLEAN : BeginValueCall(go)
    <3>1. PICK go \in BOOLEAN : BeginValueCall(go)
      BY <2>4
    <3> QED BY <3>1, BeginValueCallReaches
  <2>5. CASE \E u \in Own("struct") \cup Foreign("struct") : Instantiate(u)
    BY <2>5, InstantiateReaches
  <2> QED BY <1>5, <2>1, <2>2, <2>3, <2>4, <2>5, Zenon DEF Refer
<1>6. CASE EndCall
  BY <1>6, EndCallReaches
<1>7. CASE Finish
  BY <1>7, FinishReaches
<1>8. CASE DefineStruct \/ RefuseImport \/ FailImport \/ EndImport \/ Mistake
           \/ Finished \/ UNCHANGED vars
  <2>1. UNCHANGED <<text, functions, code, open, is_go>>
    BY <1>8, Zenon DEF DefineStruct, RefuseImport, FailImport, EndImport, Mistake,
       Finished, vars
  <2> QED BY <2>1, StillReaches
<1>9. CASE BeginGo \/ EndGo
  BY <1>9, BeginGoReaches, EndGoReaches
<1> QED BY <1>1, <1>2, <1>3, <1>4, <1>5, <1>6, <1>7, <1>8, <1>9, Zenon DEF Next

LEMMA InitReaches == Init => RInv
<1> SUFFICES ASSUME Init PROVE RInv
  OBVIOUS
<1>1. /\ open = <<>> /\ code = <<>> /\ is_go = FALSE
      /\ DeclaresFunctions(<<>>, functions, text[Main], NULL, Len(text[Main]))
  BY InitFacts
<1>2. /\ \A c \in 1 .. Len(code) : FALSE
      /\ \A c \in 1 .. Len(open) : FALSE
  BY <1>1
<1>3. Reaching /\ OpenMeans
  BY <1>2 DEF Reaching, OpenMeans
<1>4. OneGo
  BY <1>1, <1>2, Zenon DEF OneGo
<1>5. \A l \in 1 .. Len(functions) : functions[l].addr = Unknown /\ functions[l].pending = <<>>
  <2>1. Len(<<>>) = 0
    OBVIOUS
  <2> QED BY <1>1, <2>1 DEF DeclaresFunctions
<1>6. Entered
  BY <1>5 DEF Entered
<1>7. Awaiting
  <2>1. ToSet(<<>>) = {}
    BY DEF ToSet
  <2> QED BY <1>5, <2>1 DEF Awaiting
<1> QED BY <1>3, <1>4, <1>6, <1>7 DEF RInv

\* What waits is patched before the program is accepted.
LEMMA NextCallsReach ==
    ASSUME LInv, LInv', RInv', CallsReach, [Next]_vars
    PROVE  CallsReach'
<1>1. CASE BeginFunction \/ DefineStruct \/ EndFunction \/ BeginLambda \/ RefuseImport
           \/ FailImport \/ BeginImport \/ EndImport \/ Refer \/ EndCall \/ Mistake
           \/ BeginGo \/ EndGo
  BY <1>1, StillRunning DEF CallsReach
<1>2. CASE Finish
  <2>1. \A l \in 1 .. Len(functions') : functions'[l].addr # Unknown
    BY <1>2, FinishFacts
  <2>2. Kinds'
    BY DEF LInv, Linked
  <2>3. DOMAIN code' = 1 .. Len(code')
    BY <2>2, Lengths
  <2>4. ASSUME NEW c \in DOMAIN code'
        PROVE  /\ (code'[c].op = "go") = code'[c].go
               /\ code'[c].means \notin {Nothing} /\ code'[c].op # "entry" =>
                    IF code'[c].means.file = NativeFile THEN code'[c].addr = 0
                    ELSE /\ code'[c].addr \in DOMAIN code'
                         /\ code'[code'[c].addr].op = "entry"
                         /\ code'[code'[c].addr].means = code'[c].means
    <3>1. ReachesAt(functions', code', c) /\ MarkedAt(code', c)
      BY <2>3 DEF RInv, Reaching
    <3>2. (code'[c].op = "go") = code'[c].go
      <4>1. code'[c].go \in BOOLEAN
        <5>1. code'[c] \in Instructions(text')
          BY <2>2, <2>3 DEF Kinds
        <5> QED BY <5>1 DEF Instructions
      <4> QED BY <3>1, <4>1, Zenon DEF MarkedAt
    <3>3. ~Waits(functions', code', c)
      BY <2>1 DEF Waits
    <3>4. code'[c].means \notin {Nothing} /\ code'[c].op # "entry" =>
                    IF code'[c].means.file = NativeFile THEN code'[c].addr = 0
                    ELSE EntryOf(code', code'[c].addr, code'[c].means)
      BY <3>1, <3>3 DEF ReachesAt
    <3> QED BY <2>3, <3>2, <3>4 DEF EntryOf
  <2> QED BY <2>4, Zenon DEF CallsReach
<1>3. CASE Finished \/ UNCHANGED vars
  <2>1. UNCHANGED <<result, code>>
    BY <1>3, Zenon DEF Finished, vars
  <2> QED BY <2>1 DEF CallsReach
<1> QED BY <1>1, <1>2, <1>3, Zenon DEF Next

\* In a program that was accepted every reference goes to the function that its
\* author meant, and the calls of go statements and no others are run by
\* goroutines of their own.  This holds for all programs in which an alias
\* stands for one file, functions have names of their own, functions that come
\* later are only called, the expression of a go statement is one call with no
\* calls and no functions inside of it, and there are no more references in all
\* than one function can remember calls.
THEOREM ReferencesReach ==
    ASSUME OneAlias, OwnNames, Features = {}, MaxUses <= MaxPatches
    PROVE  Spec => []CallsReach
<1> DEFINE Inv == LInv /\ Bounded /\ Origin /\ RInv /\ CallsReach
<1>1. Init => Inv
  <2> SUFFICES ASSUME Init PROVE Inv
    OBVIOUS
  <2>1. LInv /\ Bounded /\ Origin /\ RInv
    BY InitIInv, InitLinked, InitBounded, InitOrigin, InitReaches DEF LInv
  <2>2. CallsReach
    BY InitFacts DEF CallsReach
  <2> QED BY <2>1, <2>2
<1>2. Inv /\ [Next]_vars => Inv'
  <2> SUFFICES ASSUME Inv, [Next]_vars PROVE Inv'
    OBVIOUS
  <2>1. LInv'
    BY NextLinked
  <2>2. Bounded' /\ Origin'
    BY <2>1, NextBounded, NextOrigin
  <2>3. RInv'
    BY <2>1, NextReaches
  <2>4. CallsReach'
    BY <2>1, <2>3, NextCallsReach
  <2> QED BY <2>1, <2>2, <2>3, <2>4
<1>3. Inv => CallsReach
  OBVIOUS
<1> HIDE DEF Inv
<1> QED BY <1>1, <1>2, <1>3, PTL DEF Spec

-----------------------------------------------------------------------------
(* Why a program is refused *)

\* structs have no fields
NoFields ==
    \A t \in Texts : \A f \in DOMAIN t : \A i \in DOMAIN t[f] :
        t[f][i].kind = "struct" => t[f][i].fields = 0

\* an entry of the table has the name
InTable(table, prefix, name) ==
    \E i \in 1 .. Len(table) : table[i].name = [prefix |-> prefix, name |-> name]

\* the functions and structs of file f are in the tables under prefix p
DeclaredIn(t, fs, ss, f, p) ==
    \A j \in DOMAIN t[f] :
        /\ t[f][j].kind = "fun" => InTable(fs, p, t[f][j].name)
        /\ t[f][j].kind = "struct" => InTable(ss, p, t[f][j].name)

\* what file k has imported is in the tables, and not being compiled around it
ImportedFrom(t, fs, ss, frs, k, item) ==
    /\ DeclaredIn(t, fs, ss, item.file, item.alias)
    /\ \A l \in 1 .. k : item.file # frs[l].file

NoError == ~had_error /\ \A k \in 1 .. Len(frames) : ~frames[k].saved

\* compilation_stack is the list of the files being compiled
StackExact ==
    /\ Len(compilation_stack) = Len(frames) - 1
    /\ \A i \in 1 .. Len(compilation_stack) : compilation_stack[i] = frames[i + 1].file

Available ==
    \A k \in 1 .. Len(frames) :
        /\ DeclaredIn(text, functions, structs, frames[k].file, frames[k].prefix)
        /\ \A j \in DOMAIN text[frames[k].file] :
            j < frames[k].next /\ text[frames[k].file][j].kind = "imp" =>
                ImportedFrom(text, functions, structs, frames, k, text[frames[k].file][j])

\* a return type that is not known is that of a function to come
Untyped ==
    \A i \in 1 .. Len(functions) : ~functions[i].known =>
        \E k \in 1 .. Len(frames) :
            /\ frames[k].prefix = functions[i].name.prefix
            /\ \E j \in frames[k].next .. Len(text[frames[k].file]) :
                /\ text[frames[k].file][j].kind = "fun"
                /\ text[frames[k].file][j].name = functions[i].name.name
                /\ ~text[frames[k].file][j].typed

\* a call under way is of a function of this file or of one it has imported
Here == {Module.file} \cup {Items[a].file : a \in Imports}
MeantHere(o) ==
    o.kind = "call" /\ o.func \in 1 .. Len(functions) =>
        Stands(text, functions[o.func].name, o.means) /\ o.means.file \in Here
OpenMeant == \A i \in 1 .. Len(open) : MeantHere(open[i])

Clean == NoError /\ StackExact /\ Available /\ Untyped /\ OpenMeant
AInv == mistakes = {} => Clean

\* Without mistakes so far and in the step, an error is one that error_at got.
LEMMA CleanReport ==
    ASSUME AInv, NEW errors, NEW wrong, Report(errors, wrong), mistakes' = {}
    PROVE  Clean /\ mistakes = {} /\ ~wrong /\ (~errors => ~had_error')
<1>1. mistakes = {} /\ ~wrong
  BY DEF Report
<1>2. Clean /\ ~had_error
  BY <1>1 DEF AInv, Clean, NoError
<1> QED BY <1>1, <1>2 DEF Report

\* Larger tables have more in them.
LEMMA DeclaredKept ==
    ASSUME NEW t, NEW fs, NEW ss, NEW gs, NEW rs, NEW f, NEW p,
           DeclaredIn(t, fs, ss, f, p),
           Len(fs) \in Nat, Len(gs) \in Nat, Len(fs) <= Len(gs),
           \A i \in 1 .. Len(fs) : gs[i].name = fs[i].name,
           Len(ss) \in Nat, Len(rs) \in Nat, Len(ss) <= Len(rs),
           \A i \in 1 .. Len(ss) : rs[i].name = ss[i].name
    PROVE  DeclaredIn(t, gs, rs, f, p)
<1>1. ASSUME NEW n, InTable(fs, p, n) PROVE InTable(gs, p, n)
  BY <1>1 DEF InTable
<1>2. ASSUME NEW n, InTable(ss, p, n) PROVE InTable(rs, p, n)
  BY <1>2 DEF InTable
<1> QED BY <1>1, <1>2, Zenon DEF DeclaredIn

\* The tables' names stay where they are, the files being compiled too.
NamesKept ==
    /\ text' = text
    /\ Len(functions') \in Nat /\ Len(functions) <= Len(functions')
    /\ \A i \in 1 .. Len(functions) : functions'[i].name = functions[i].name
    /\ Len(structs') \in Nat /\ Len(structs) <= Len(structs')
    /\ \A i \in 1 .. Len(structs) : structs'[i].name = structs[i].name

LEMMA DeclaredStill ==
    ASSUME LInv, NamesKept, NEW f, NEW p, DeclaredIn(text, functions, structs, f, p)
    PROVE  DeclaredIn(text', functions', structs', f, p)
<1>1. Len(functions) \in Nat /\ Len(structs) \in Nat
  BY Lengths DEF LInv, Linked
<1> QED BY <1>1, DeclaredKept DEF NamesKept

\* What frame k has imported stays so while it and the frames around it stay.
LEMMA ImportedStill ==
    ASSUME LInv, NamesKept, NEW k, NEW item,
           ImportedFrom(text, functions, structs, frames, k, item),
           \A l \in 1 .. k : frames'[l].file = frames[l].file
    PROVE  ImportedFrom(text', functions', structs', frames', k, item)
<1>1. DeclaredIn(text', functions', structs', item.file, item.alias)
  BY DeclaredStill DEF ImportedFrom
<1>2. \A l \in 1 .. k : item.file # frames'[l].file
  BY DEF ImportedFrom
<1> QED BY <1>1, <1>2 DEF ImportedFrom

\* What the running file has imported.
LEMMA PassedImports ==
    ASSUME LInv, Available, NEW a \in Imports
    PROVE  /\ a \in DOMAIN Items
           /\ DeclaredIn(text, functions, structs, Items[a].file, Items[a].alias)
           /\ \A l \in 1 .. Len(frames) : Items[a].file # frames[l].file
<1>1. /\ Len(frames) \in 1 .. Len(frames) /\ Module = frames[Len(frames)]
      /\ Items = text[Module.file]
  BY ModuleFacts DEF LInv
<1>2. a \in DOMAIN text[Module.file] /\ text[Module.file][a].kind = "imp" /\ a < Module.next
  BY DEF Imports, Named
<1>3. ImportedFrom(text, functions, structs, frames, Len(frames), Items[a])
  BY <1>1, <1>2 DEF Available
<1> QED BY <1>1, <1>2, <1>3 DEF ImportedFrom

\* The main file inside of itself has not come to the import that led there.
LEMMA MainInside ==
    ASSUME LInv, Available, Len(frames) # 1, frames[Len(frames)].file = Main
    PROVE  frames[Len(frames)].next <= frames[1].next
<1>1. IInv /\ Chain
  BY DEF LInv, Linked
<1>2. Len(frames) \in Nat /\ Len(frames) >= 1
  BY <1>1, ModuleFacts
<1> DEFINE n == Len(frames)
<1>3. 1 \in 1 .. n - 1 /\ 1 \in 1 .. n /\ n \in 1 .. n /\ 2 \in 1 .. n /\ 1 + 1 = 2
  BY <1>2
<1> HIDE DEF n
<1> DEFINE j == frames[1].next
<1>4. /\ j \in DOMAIN text[Main] /\ text[Main][j].kind = "imp"
      /\ text[Main][j].file = frames[2].file
  BY <1>1, <1>3 DEF Chain, n
<1>5. frames[n].next \in Nat /\ j \in Nat
  <2>1. frames[n] \in Frame(text) /\ frames[1] \in Frame(text)
    BY <1>1, <1>3 DEF IInv, Typed, n
  <2> QED BY <2>1 DEF Frame
<1>6. ~ (j < frames[n].next)
  <2> SUFFICES ASSUME j < frames[n].next PROVE FALSE
    OBVIOUS
  <2> HIDE DEF j
  <2>1. ImportedFrom(text, functions, structs, frames, n, text[Main][j])
    BY <1>3, <1>4 DEF Available, n
  <2> QED BY <1>3, <1>4, <2>1 DEF ImportedFrom
<1> QED BY <1>5, <1>6 DEF n

\* Steps inside of a function, or between items, that leave the files.
LEMMA AvailableKept ==
    ASSUME LInv, Available, NamesKept, frames' = frames
    PROVE  Available'
<1>1. ASSUME NEW k \in 1 .. Len(frames)
      PROVE  /\ DeclaredIn(text', functions', structs', frames'[k].file, frames'[k].prefix)
             /\ \A j \in DOMAIN text'[frames'[k].file] :
                j < frames'[k].next /\ text'[frames'[k].file][j].kind = "imp" =>
                    ImportedFrom(text', functions', structs', frames', k,
                                 text'[frames'[k].file][j])
  <2>1. DeclaredIn(text', functions', structs', frames'[k].file, frames'[k].prefix)
    BY DeclaredStill, <1>1 DEF Available
  <2>2. ASSUME NEW j \in DOMAIN text'[frames'[k].file],
               j < frames'[k].next, text'[frames'[k].file][j].kind = "imp"
        PROVE  ImportedFrom(text', functions', structs', frames', k, text'[frames'[k].file][j])
    <3>1. ImportedFrom(text, functions, structs, frames, k, text[frames[k].file][j])
      BY <1>1, <2>2 DEF Available, NamesKept
    <3>2. text' = text
      BY DEF NamesKept
    <3> QED BY <3>1, <3>2, ImportedStill
  <2> QED BY <2>1, <2>2
<1> QED BY <1>1 DEF Available

\* The file that goes to its next item, when that is not an import.
LEMMA AvailablePassed ==
    ASSUME LInv, Available, NamesKept, frames' = NextItem(frames),
           Module.next \in DOMAIN Items, Item.kind # "imp"
    PROVE  Available'
<1>1. /\ Len(frames) \in 1 .. Len(frames) /\ Module = frames[Len(frames)]
      /\ Item = text[Module.file][Module.next] /\ Module.next \in Nat
      /\ DOMAIN text[Module.file] = 1 .. Len(text[Module.file]) /\ Len(text[Module.file]) \in Nat
  <2>1. IInv
    BY DEF LInv
  <2> QED BY <2>1, ModuleFacts, ItemFacts
<1>2. /\ Len(frames') = Len(frames)
      /\ \A k \in 1 .. Len(frames) : /\ frames'[k].file = frames[k].file
                                     /\ frames'[k].prefix = frames[k].prefix
                                     /\ k # Len(frames) => frames'[k] = frames[k]
      /\ frames'[Len(frames)].next = frames[Len(frames)].next + 1
  <2>1. frames \in Seq(Frame(text)) /\ Len(frames) >= 1
    BY DEF LInv, IInv, Typed
  <2>2. \A k \in 1 .. Len(frames) : k # Len(frames) => k \in 1 .. Len(frames) - 1
    BY <2>1
  <2> QED BY <2>1, <2>2, NextItemFrames
<1>3. text' = text
  BY DEF NamesKept
<1>4. ASSUME NEW k \in 1 .. Len(frames')
      PROVE  /\ DeclaredIn(text', functions', structs', frames'[k].file, frames'[k].prefix)
             /\ \A j \in DOMAIN text'[frames'[k].file] :
                j < frames'[k].next /\ text'[frames'[k].file][j].kind = "imp" =>
                    ImportedFrom(text', functions', structs', frames', k,
                                 text'[frames'[k].file][j])
  <2>1. DeclaredIn(text', functions', structs', frames'[k].file, frames'[k].prefix)
    BY DeclaredStill, <1>2, <1>4 DEF Available
  <2>2. ASSUME NEW j \in DOMAIN text'[frames'[k].file],
               j < frames'[k].next, text'[frames'[k].file][j].kind = "imp"
        PROVE  ImportedFrom(text', functions', structs', frames', k, text'[frames'[k].file][j])
    <3>1. k \in 1 .. Len(frames) /\ frames'[k].file = frames[k].file
      BY <1>2, <1>4
    <3>2. j < frames[k].next
      <4>1. CASE k # Len(frames)
        BY <1>2, <2>2, <3>1, <4>1
      <4>2. CASE k = Len(frames)
        <5>1. j \in DOMAIN text[Module.file] /\ j < Module.next + 1
              /\ text[Module.file][j].kind = "imp"
          BY <1>1, <1>2, <1>3, <2>2, <3>1, <4>2
        <5>2. j # Module.next
          BY <1>1, <5>1
        <5>3. j < Module.next
          BY <1>1, <5>1, <5>2
        <5> QED BY <1>1, <4>2, <5>3
      <4> QED BY <4>1, <4>2
    <3>3. ImportedFrom(text, functions, structs, frames, k, text[frames[k].file][j])
      BY <1>3, <2>2, <3>1, <3>2 DEF Available
    <3>4. \A l \in 1 .. k : frames'[l].file = frames[l].file
      BY <1>2, <3>1
    <3> QED BY <1>3, <3>1, <3>3, <3>4, ImportedStill
  <2> QED BY <2>1, <2>2
<1> QED BY <1>4 DEF Available

LEMMA UntypedKept ==
    ASSUME IInv, Untyped, text' = text, Len(functions') = Len(functions),
           \A i \in 1 .. Len(functions) : /\ functions'[i].name = functions[i].name
                                          /\ ~functions'[i].known => ~functions[i].known,
           \/ frames' = frames
           \/ /\ frames' = NextItem(frames)
              /\ Module.next \in DOMAIN Items
              /\ Item.kind = "fun" => \A i \in 1 .. Len(functions) :
                    functions[i].name = [prefix |-> Module.prefix, name |-> Item.name]
                        => functions'[i].known,
           \A i \in 1 .. Len(functions) :
                functions[i].name = [prefix |-> functions[i].name.prefix,
                                     name |-> functions[i].name.name]
    PROVE  Untyped'
<1>1. CASE frames' = frames
  BY <1>1 DEF Untyped
<1>2. CASE frames' # frames
  <2>1. /\ frames' = NextItem(frames) /\ frames \in Seq(Frame(text)) /\ Len(frames) >= 1
        /\ Module.next \in DOMAIN Items
    BY <1>2 DEF IInv, Typed
  <2>2. /\ Len(frames) \in 1 .. Len(frames) /\ Module = frames[Len(frames)]
        /\ Item = text[Module.file][Module.next] /\ Module.next \in Nat
        /\ Len(text[Module.file]) \in Nat
    BY <2>1, ModuleFacts, ItemFacts
  <2>3. /\ Len(frames') = Len(frames)
        /\ \A k \in 1 .. Len(frames) : /\ frames'[k].file = frames[k].file
                                       /\ frames'[k].prefix = frames[k].prefix
                                       /\ k # Len(frames) => frames'[k] = frames[k]
        /\ frames'[Len(frames)].next = frames[Len(frames)].next + 1
    <3>1. \A k \in 1 .. Len(frames) : k # Len(frames) => k \in 1 .. Len(frames) - 1
      BY <2>1
    <3> QED BY <2>1, <3>1, NextItemFrames
  <2>4. ASSUME NEW i \in 1 .. Len(functions'), ~functions'[i].known
        PROVE  \E k \in 1 .. Len(frames') :
            /\ frames'[k].prefix = functions'[i].name.prefix
            /\ \E j \in frames'[k].next .. Len(text'[frames'[k].file]) :
                /\ text'[frames'[k].file][j].kind = "fun"
                /\ text'[frames'[k].file][j].name = functions'[i].name.name
                /\ ~text'[frames'[k].file][j].typed
    <3>1. i \in 1 .. Len(functions) /\ ~functions[i].known
      BY <2>4
    <3>2. PICK k \in 1 .. Len(frames) :
            /\ frames[k].prefix = functions[i].name.prefix
            /\ \E j \in frames[k].next .. Len(text[frames[k].file]) :
                /\ text[frames[k].file][j].kind = "fun"
                /\ text[frames[k].file][j].name = functions[i].name.name
                /\ ~text[frames[k].file][j].typed
      BY <3>1 DEF Untyped
    <3>3. PICK j \in frames[k].next .. Len(text[frames[k].file]) :
                /\ text[frames[k].file][j].kind = "fun"
                /\ text[frames[k].file][j].name = functions[i].name.name
                /\ ~text[frames[k].file][j].typed
      BY <3>2
    <3>4. CASE k # Len(frames)
      <4>1. frames'[k] = frames[k] /\ k \in 1 .. Len(frames')
        BY <2>3, <3>4
      <4> QED BY <3>1, <3>2, <3>3, <4>1
    <3>5. CASE k = Len(frames)
      <4>1. j # Module.next
        <5> SUFFICES ASSUME j = Module.next PROVE FALSE
          OBVIOUS
        <5>1. Item.kind = "fun" /\ functions[i].name.name = Item.name
              /\ functions[i].name.prefix = Module.prefix
          BY <2>2, <3>2, <3>3, <3>5
        <5>2. functions[i].name = [prefix |-> Module.prefix, name |-> Item.name]
          BY <3>1, <5>1
        <5> QED BY <1>2, <2>4, <3>1, <5>1, <5>2
      <4>2. j \in Module.next + 1 .. Len(text[Module.file])
        BY <2>2, <3>3, <3>5, <4>1, SMTT(30)
      <4>3. j \in frames'[k].next .. Len(text'[frames'[k].file]) /\ k \in 1 .. Len(frames')
        BY <2>2, <2>3, <3>5, <4>2
      <4> QED BY <2>3, <3>1, <3>2, <3>3, <4>3, ZenonT(30)
    <3> QED BY <3>4, <3>5
  <2> QED BY <2>4 DEF Untyped
<1> QED BY <1>1, <1>2

LEMMA EntryName ==
    ASSUME Kinds
    PROVE  \A i \in 1 .. Len(functions) :
                functions[i].name = [prefix |-> functions[i].name.prefix,
                                     name |-> functions[i].name.name]
<1> TAKE i \in 1 .. Len(functions)
<1>1. functions[i] \in FunctionEntry(text)
  BY Lengths
<1>2. functions[i].name \in Qualified(text)
  BY <1>1 DEF FunctionEntry
<1> QED BY <1>2 DEF Qualified

LEMMA HereKept ==
    ASSUME text' = text, frames' = frames
    PROVE  Here' = Here
BY Zenon DEF Here, Imports, Named, Items, Module

LEMMA NoErrorKept ==
    ASSUME NoError, ~had_error', Len(frames') = Len(frames),
           \A k \in 1 .. Len(frames) : frames'[k].saved = frames[k].saved
    PROVE  NoError'
BY DEF NoError

\* Steps inside of a function, or between items, that leave the files.
LEMMA InsideClean ==
    ASSUME LInv, Clean, UNCHANGED <<text, frames, compilation_stack>>, ~had_error',
           Len(functions') = Len(functions),
           \A i \in 1 .. Len(functions) : /\ functions'[i].name = functions[i].name
                                          /\ ~functions'[i].known => ~functions[i].known,
           structs' = structs,
           \A i \in 1 .. Len(open') :
                \/ i \in 1 .. Len(open) /\ open'[i] = open[i]
                \/ open'[i].kind # "call"
                \/ MeantHere(open'[i])
    PROVE  Clean'
<1>1. IInv /\ Kinds
  BY DEF LInv, Linked
<1>2. NoError' /\ StackExact'
  BY NoErrorKept DEF Clean, StackExact
<1>3. NamesKept
  BY <1>1, Lengths DEF NamesKept
<1>4. Available'
  BY <1>3, AvailableKept DEF Clean
<1>5. Untyped'
  BY <1>1, EntryName, UntypedKept DEF Clean
<1>6. ASSUME NEW i \in 1 .. Len(open')
      PROVE  MeantHere(open[i])' 
  <2>1. open'[i].kind # "call" \/ MeantHere(open'[i])
    BY <1>6 DEF Clean, OpenMeant
  <2>2. Here' = Here
    BY HereKept
  <2> QED BY <2>1, <2>2 DEF MeantHere
<1>7. OpenMeant'
  BY <1>6 DEF OpenMeant
<1> QED BY <1>2, <1>4, <1>5, <1>7 DEF Clean

\* Going to the next item, when this one is not an import.
LEMMA PassClean ==
    ASSUME LInv, Clean, UNCHANGED <<text, compilation_stack>>, ~had_error',
           frames' = NextItem(frames), Module.next \in DOMAIN Items, Item.kind # "imp",
           open' = <<>>, NamesKept, Len(functions') = Len(functions),
           \A i \in 1 .. Len(functions) : ~functions'[i].known => ~functions[i].known,
           Item.kind = "fun" => \A i \in 1 .. Len(functions) :
                functions[i].name = [prefix |-> Module.prefix, name |-> Item.name]
                    => functions'[i].known
    PROVE  Clean'
<1>1. IInv /\ Kinds
  BY DEF LInv, Linked
<1>2. /\ Len(frames') = Len(frames)
      /\ \A k \in 1 .. Len(frames) : /\ frames'[k].file = frames[k].file
                                     /\ frames'[k].saved = frames[k].saved
  BY <1>1, NextItemFrames DEF IInv, Typed
<1>3. NoError'
  BY <1>2, NoErrorKept DEF Clean
<1>4. StackExact'
  <2>1. Len(frames) \in Nat /\ Len(compilation_stack) = Len(frames) - 1
    BY <1>1, ModuleFacts DEF Clean, StackExact
  <2>2. \A i \in 1 .. Len(compilation_stack) : i + 1 \in 1 .. Len(frames)
    BY <2>1
  <2> QED BY <1>2, <2>1, <2>2 DEF Clean, StackExact
<1>5. Available'
  BY AvailablePassed DEF Clean
<1>6. Untyped'
  BY <1>1, EntryName, UntypedKept DEF Clean, NamesKept
<1>7. OpenMeant'
  BY DEF OpenMeant
<1> QED BY <1>3, <1>4, <1>5, <1>6, <1>7 DEF Clean

LEMMA FindIn ==
    ASSUME NEW S, NEW table \in Seq(S), NEW p, NEW n, InTable(table, p, n)
    PROVE  Find(table, [prefix |-> p, name |-> n]) # 0
<1>1. Find(table, [prefix |-> p, name |-> n]) # 0
        \/ \A k \in 1 .. Len(table) : table[k].name # [prefix |-> p, name |-> n]
  BY FindFacts
<1> QED BY <1>1 DEF InTable

\* What the running file may refer to is in the tables.
LEMMA ReferredIn ==
    ASSUME LInv, Available, NEW k \in {"fun", "struct"}, NEW u \in Own(k) \cup Foreign(k)
    PROVE  /\ u = [prefix |-> u.prefix, name |-> u.name]
           /\ InTable(IF k = "fun" THEN functions ELSE structs,
                      IF u.prefix = NULL THEN Module.prefix ELSE u.prefix, u.name)
<1>1. IInv
  BY DEF LInv
<1>2. CASE u \in Own(k)
  <2>1. /\ u = [prefix |-> u.prefix, name |-> u.name] /\ u.prefix = NULL
        /\ \E j \in DOMAIN Items : Items[j].kind = k /\ Items[j].name = u.name
    BY <1>1, <1>2, OwnMeaning
  <2>2. /\ Len(frames) \in 1 .. Len(frames) /\ Module = frames[Len(frames)]
        /\ Items = text[Module.file]
    BY <1>1, ModuleFacts
  <2>3. DeclaredIn(text, functions, structs, Module.file, Module.prefix)
    BY <2>2 DEF Available
  <2> QED BY <2>1, <2>2, <2>3 DEF DeclaredIn
<1>3. CASE u \in Foreign(k)
  <2>1. /\ u = [prefix |-> u.prefix, name |-> u.name] /\ u.prefix # NULL
        /\ \E i \in Imports : \E j \in DOMAIN text[Items[i].file] :
                /\ Items[i].alias = u.prefix
                /\ text[Items[i].file][j].kind = k
                /\ text[Items[i].file][j].name = u.name
    BY <1>1, <1>3, ForeignMeaning
  <2>2. PICK i \in Imports : \E j \in DOMAIN text[Items[i].file] :
                /\ Items[i].alias = u.prefix
                /\ text[Items[i].file][j].kind = k
                /\ text[Items[i].file][j].name = u.name
    BY <2>1
  <2>3. DeclaredIn(text, functions, structs, Items[i].file, Items[i].alias)
    BY PassedImports
  <2> QED BY <2>1, <2>2, <2>3 DEF DeclaredIn
<1> QED BY <1>2, <1>3

\* Every name of a function resolves to something ...
LEMMA Found ==
    ASSUME LInv, Available, NEW u \in Functions
    PROVE  Resolve(u) # 0
<1>1. IInv /\ functions \in Seq(FunctionEntry(text))
  BY DEF LInv, Linked, Kinds
<1> DEFINE plain == Find(functions, u)
           mine == Find(functions, [u EXCEPT !.prefix = Module.prefix])
<1>2. Resolve(u) = IF u.prefix # NULL THEN plain
                   ELSE IF u.name \in Natives THEN NativeIndex
                   ELSE IF plain = 0 /\ Module.prefix # NULL THEN mine ELSE plain
  BY DEF Resolve
<1>3. CASE u \in Own("fun") \cup Foreign("fun")
  <2>1. /\ u = [prefix |-> u.prefix, name |-> u.name]
        /\ InTable(functions, IF u.prefix = NULL THEN Module.prefix ELSE u.prefix, u.name)
    BY <1>3, ReferredIn
  <2>2. Find(functions, [prefix |-> IF u.prefix = NULL THEN Module.prefix ELSE u.prefix,
                         name |-> u.name]) # 0
    BY <1>1, <2>1, FindIn
  <2>3. u.prefix # NULL \/ Module.prefix = NULL => plain # 0
    BY <2>1, <2>2
  <2>4. u.prefix = NULL => mine # 0
    <3>1. [u EXCEPT !.prefix = Module.prefix] = [prefix |-> Module.prefix, name |-> u.name]
      BY <2>1
    <3> QED BY <2>2, <3>1
  <2> HIDE DEF plain, mine
  <2> QED BY <1>2, <2>3, <2>4 DEF NativeIndex
<1>4. CASE u \notin Own("fun") \cup Foreign("fun")
  <2>1. u.prefix = NULL /\ u.name \in Natives
    BY <1>4 DEF Functions
  <2> HIDE DEF plain, mine
  <2> QED BY <1>2, <2>1 DEF NativeIndex
<1> QED BY <1>3, <1>4

\* ... every name of a struct too, which has no fields.
LEMMA FoundStruct ==
    ASSUME NoFields, LInv, Available, NEW u \in Own("struct") \cup Foreign("struct")
    PROVE  /\ ResolveStruct(u) \in 1 .. Len(structs)
           /\ structs[ResolveStruct(u)].fields = 0
<1>1. IInv /\ structs \in Seq(StructEntry(text)) /\ text \in Texts
  BY DEF LInv, Linked, Kinds, IInv, Typed
<1> DEFINE plain == Find(structs, u)
           mine == Find(structs, [u EXCEPT !.prefix = Module.prefix])
<1>2. ResolveStruct(u) = IF plain = 0 /\ u.prefix = NULL /\ Module.prefix # NULL
                         THEN mine ELSE plain
  BY DEF ResolveStruct
<1>3. /\ u = [prefix |-> u.prefix, name |-> u.name]
      /\ InTable(structs, IF u.prefix = NULL THEN Module.prefix ELSE u.prefix, u.name)
  BY ReferredIn
<1>4. Find(structs, [prefix |-> IF u.prefix = NULL THEN Module.prefix ELSE u.prefix,
                     name |-> u.name]) # 0
  BY <1>1, <1>3, FindIn
<1>5. u.prefix # NULL \/ Module.prefix = NULL => plain # 0
  BY <1>3, <1>4
<1>6. u.prefix = NULL => mine # 0
  <2>1. [u EXCEPT !.prefix = Module.prefix] = [prefix |-> Module.prefix, name |-> u.name]
    BY <1>3
  <2> QED BY <1>4, <2>1
<1>7. plain \in {0} \cup 1 .. Len(structs) /\ mine \in {0} \cup 1 .. Len(structs)
  BY <1>1, FindFacts
<1> HIDE DEF plain, mine
<1>8. ResolveStruct(u) \in 1 .. Len(structs)
  BY <1>2, <1>5, <1>6, <1>7
<1>9. structs[ResolveStruct(u)].fields \in Sizes(text)
  <2>1. structs[ResolveStruct(u)] \in StructEntry(text)
    BY <1>1, <1>8
  <2> QED BY <2>1 DEF StructEntry
<1>10. Sizes(text) = {0}
  BY <1>1 DEF NoFields, Sizes
<1> QED BY <1>8, <1>9, <1>10

\* Other files than the running one are those it imports.
LEMMA NotHere ==
    ASSUME LInv, Available, NEW k \in {"fun", "struct"}, NEW u \in Foreign(k)
    PROVE  /\ Meaning(u, k).file \in DOMAIN text /\ Meaning(u, k).file \in Here
           /\ Meaning(u, k).file \notin {Module.file, NativeFile}
<1>1. IInv
  BY DEF LInv
<1>2. PICK i \in Imports : Meaning(u, k).file = Items[i].file /\ Items[i].file \in DOMAIN text
  BY <1>1, ForeignMeaning
<1>3. Items[i].file # Module.file
  <2>1. Len(frames) \in 1 .. Len(frames) /\ Module = frames[Len(frames)]
    BY <1>1, ModuleFacts
  <2> QED BY <2>1, PassedImports
<1>4. Items[i].file # NativeFile
  <2>1. text \in Texts
    BY <1>1 DEF IInv, Typed
  <2> QED BY <1>2, <2>1, ModulesAssumption DEF Files
<1> QED BY <1>2, <1>3, <1>4 DEF Here

LEMMA HiddenPrivate ==
    ASSUME OneAlias, LInv, Origin, Available, NEW u \in Functions,
           Hidden(u, Resolve(u))
    PROVE  IsPrivate(Meaning(u, "fun"), "fun")
<1>1. u \in Foreign("fun")
  BY FunctionNames DEF Hidden, LInv
<1>2. Resolve(u) # 0
  BY Found
<1>3. functions[Resolve(u)].public =
        text[Meaning(u, "fun").file][Place(Meaning(u, "fun"), "fun")].public
  BY <1>1, <1>2, ForeignFunction
<1>4. Meaning(u, "fun").file \notin {Module.file, NativeFile}
  BY <1>1, NotHere
<1> QED BY <1>3, <1>4, Zenon DEF Hidden, IsPrivate

LEMMA HiddenStruct ==
    ASSUME OneAlias, NoFields, LInv, Origin, Available,
           NEW u \in Own("struct") \cup Foreign("struct"),
           u.prefix # NULL, ~structs[ResolveStruct(u)].public
    PROVE  IsPrivate(Meaning(u, "struct"), "struct")
<1>1. u \in Foreign("struct")
  BY OwnMeaning DEF LInv
<1>2. ResolveStruct(u) # 0
  <2>1. Len(structs) \in Nat
    BY Lengths DEF LInv, Linked
  <2> QED BY <2>1, FoundStruct
<1>3. structs[ResolveStruct(u)].public =
        text[Meaning(u, "struct").file][Place(Meaning(u, "struct"), "struct")].public
  BY <1>1, <1>2, ForeignStruct
<1>4. Meaning(u, "struct").file \notin {Module.file, NativeFile}
  BY <1>1, NotHere
<1> QED BY <1>3, <1>4, Zenon DEF IsPrivate

\* A struct that is instantiated in the running file is found there.
LEMMA PlaceOfStruct ==
    ASSUME LInv, NEW u \in Own("struct") \cup Foreign("struct")
    PROVE  LET m == Meaning(u, "struct")
           IN  /\ m.file \in DOMAIN text
               /\ Place(m, "struct") \in DOMAIN text[m.file]
               /\ text[m.file][Place(m, "struct")].kind = "struct"
<1> DEFINE m == Meaning(u, "struct")
<1>1. IInv
  BY DEF LInv
<1>2. /\ m.file \in DOMAIN text
      /\ \E j \in DOMAIN text[m.file] : /\ text[m.file][j].kind = "struct"
                                        /\ text[m.file][j].name = m.name
  <2>1. CASE u \in Own("struct")
    <3>1. m = [file |-> Module.file, name |-> u.name]
          /\ \E j \in DOMAIN Items : Items[j].kind = "struct" /\ Items[j].name = u.name
      BY <1>1, <2>1, OwnMeaning
    <3>2. Module.file \in DOMAIN text /\ Items = text[Module.file]
      BY <1>1, ModuleFacts
    <3> QED BY <3>1, <3>2
  <2>2. CASE u \in Foreign("struct")
    <3>1. m.name = u.name /\ \E i \in Imports : \E j \in DOMAIN text[Items[i].file] :
                /\ m.file = Items[i].file
                /\ Items[i].file \in DOMAIN text
                /\ text[Items[i].file][j].kind = "struct"
                /\ text[Items[i].file][j].name = u.name
      BY <1>1, <2>2, ForeignMeaning
    <3> HIDE DEF m
    <3> QED BY <3>1
  <2> QED BY <2>1, <2>2
<1> HIDE DEF m
<1>3. /\ Place(m, "struct") \in DOMAIN text[m.file]
      /\ text[m.file][Place(m, "struct")].kind = "struct"
  BY <1>2, PlaceFacts
<1> QED BY <1>2, <1>3 DEF m

LEMMA UndefinedClean ==
    ASSUME LInv, AInv, mistakes' = {}, NEW u \in Functions, Undefined(u)
    PROVE  Clean'
<1>1. Report(TRUE, FALSE) /\ Resolve(u) = 0
  BY DEF Undefined
<1>2. Clean
  <2> DEFINE errors == TRUE
             wrong == FALSE
  <2>1. Report(errors, wrong)
    BY <1>1
  <2> HIDE DEF errors, wrong
  <2> QED BY <2>1, CleanReport
<1> QED BY <1>1, <1>2, Found DEF Clean

LEMMA UseValueClean ==
    ASSUME OneAlias, LInv, Origin, AInv, mistakes' = {}, NEW u \in Functions, UseValue(u)
    PROVE  Clean'
<1>1. /\ Report(Hidden(u, Resolve(u)), IsPrivate(Meaning(u, "fun"), "fun"))
      /\ UNCHANGED <<text, frames, open, functions, structs, compilation_stack>>
  BY DEF UseValue
<1>2. /\ Clean /\ ~IsPrivate(Meaning(u, "fun"), "fun")
      /\ ~Hidden(u, Resolve(u)) => ~had_error'
  BY <1>1, CleanReport
<1>3. ~had_error'
  BY <1>2, HiddenPrivate DEF Clean
<1> QED BY <1>1, <1>2, <1>3, InsideClean

LEMMA InstantiateClean ==
    ASSUME OneAlias, NoFields, LInv, Origin, AInv, mistakes' = {},
           NEW u \in Own("struct") \cup Foreign("struct"), Instantiate(u)
    PROVE  Clean'
<1> DEFINE i == ResolveStruct(u)
           m == Meaning(u, "struct")
           errors == \/ i = 0
                     \/ u.prefix # NULL /\ ~structs[i].public
                     \/ structs[i].fields # text[m.file][Place(m, "struct")].fields
<1>1. /\ Report(errors, IsPrivate(m, "struct"))
      /\ UNCHANGED <<text, frames, open, functions, structs, compilation_stack>>
  BY DEF Instantiate
<1>2. Clean /\ ~IsPrivate(m, "struct") /\ (~errors => ~had_error')
  <2> HIDE DEF errors, m
  <2> QED BY <1>1, CleanReport
<1>3. Available
  BY <1>2 DEF Clean
<1>4. i # 0 /\ structs[i].fields = 0
  <2>1. Len(structs) \in Nat
    BY Lengths DEF LInv, Linked
  <2> QED BY <1>3, <2>1, FoundStruct
<1>5. text[m.file][Place(m, "struct")].fields = 0
  <2>1. text \in Texts
    BY DEF LInv, IInv, Typed
  <2> QED BY <2>1, PlaceOfStruct DEF NoFields
<1>6. ~ (u.prefix # NULL /\ ~structs[i].public)
  BY <1>2, <1>3, HiddenStruct
<1>7. ~had_error'
  BY <1>2, <1>4, <1>5, <1>6
<1> QED BY <1>1, <1>2, <1>7, InsideClean

LEMMA OpenClean ==
    ASSUME LInv, Clean, ~had_error', NEW o, open' = Append(open, o),
           UNCHANGED <<text, frames, functions, structs, compilation_stack>>,
           o.kind # "call" \/ MeantHere(o)
    PROVE  Clean'
<1>1. open \in Seq(Opens(text) \cup {o})
  <2>1. open \in Seq(Opens(text))
    BY DEF LInv, Linked, Kinds
  <2> QED BY <2>1
<1>2. /\ Len(open') = Len(open) + 1 /\ open'[Len(open) + 1] = o
      /\ \A i \in 1 .. Len(open) : open'[i] = open[i]
  BY <1>1, EmitFacts
<1>3. \A i \in 1 .. Len(open') :
            \/ i \in 1 .. Len(open) /\ open'[i] = open[i]
            \/ open'[i].kind # "call"
            \/ MeantHere(open'[i])
  <2>1. Len(open) \in Nat
    BY <1>1
  <2>2. ASSUME NEW i \in 1 .. Len(open') PROVE i \in 1 .. Len(open) \/ i = Len(open) + 1
    BY <1>2, <2>1, <2>2
  <2> QED BY <1>2, <2>2
<1> QED BY <1>3, InsideClean

LEMMA BeginCallClean ==
    ASSUME OneAlias, OwnNames, LInv, Origin, AInv, mistakes' = {},
           NEW u \in Functions, NEW go \in BOOLEAN, BeginCall(u, go)
    PROVE  Clean'
<1> DEFINE i == Resolve(u)
           m == Meaning(u, "fun")
           o == [kind |-> "call", func |-> i, means |-> m, go |-> go]
<1>1. /\ i # 0 /\ Report(Hidden(u, i), IsPrivate(m, "fun")) /\ open' = Append(open, o)
      /\ UNCHANGED <<text, frames, functions, structs, compilation_stack>>
  BY DEF BeginCall, OpenCall
<1>2. Clean /\ ~IsPrivate(m, "fun") /\ (~Hidden(u, i) => ~had_error')
  <2> HIDE DEF i, m
  <2> QED BY <1>1, CleanReport
<1>3. ~had_error'
  BY <1>2, HiddenPrivate DEF Clean
<1>4. MeantHere(o)
  <2> SUFFICES ASSUME i \in 1 .. Len(functions)
               PROVE  Stands(text, functions[i].name, m) /\ m.file \in Here
    BY DEF MeantHere
  <2>1. Stands(text, functions[i].name, m)
    BY <1>1, ResolveMeans
  <2>2. m.file # NativeFile
    BY <2>1, StandsFile DEF LInv, IInv, Typed
  <2>3. CASE u \in Foreign("fun")
    BY <1>2, <2>1, <2>3, NotHere DEF Clean
  <2>4. CASE u \in Own("fun")
    <3>1. m = [file |-> Module.file, name |-> u.name]
      BY <2>4, OwnMeaning DEF LInv
    <3> QED BY <2>1, <3>1 DEF Here
  <2>5. CASE u \notin Own("fun") \cup Foreign("fun")
    BY <2>2, <2>5, FunctionNames DEF LInv
  <2> QED BY <2>1, <2>3, <2>4, <2>5
<1> HIDE DEF o
<1> QED BY <1>1, <1>2, <1>3, <1>4, OpenClean

LEMMA BeginValueCallClean ==
    ASSUME LInv, AInv, mistakes' = {}, NEW go \in BOOLEAN, BeginValueCall(go)
    PROVE  Clean'
<1> DEFINE o == [kind |-> "call", func |-> ValueIndex, means |-> Nothing, go |-> go]
<1>1. /\ open' = Append(open, o) /\ UNCHANGED <<had_error, mistakes>>
      /\ UNCHANGED <<text, frames, functions, structs, compilation_stack>>
  BY DEF BeginValueCall, OpenCall
<1>2. Clean /\ ~had_error'
  BY <1>1 DEF AInv, Clean, NoError
<1>3. MeantHere(o)
  BY DEF MeantHere, ValueIndex
<1> HIDE DEF o
<1> QED BY <1>1, <1>2, <1>3, OpenClean

LEMMA BeginLambdaClean ==
    ASSUME LInv, AInv, mistakes' = {}, BeginLambda
    PROVE  Clean'
<1> DEFINE o == [kind |-> "body", func |-> 0, jump |-> Len(code) + 1]
<1>1. /\ open' = Append(open, o) /\ UNCHANGED <<had_error, mistakes>>
      /\ UNCHANGED <<text, frames, functions, structs, compilation_stack>>
  BY DEF BeginLambda
<1>2. Clean /\ ~had_error'
  BY <1>1 DEF AInv, Clean, NoError
<1>3. o.kind # "call"
  OBVIOUS
<1> HIDE DEF o
<1> QED BY <1>1, <1>2, <1>3, OpenClean

LEMMA GoClean ==
    ASSUME LInv, AInv, mistakes' = {}, BeginGo \/ EndGo
    PROVE  Clean'
<1>1. CASE BeginGo
  <2> DEFINE o == [kind |-> "go", begun |-> Len(code)]
  <2>1. /\ open' = Append(open, o) /\ UNCHANGED <<had_error, mistakes>>
        /\ UNCHANGED <<text, frames, functions, structs, compilation_stack>>
    BY <1>1 DEF BeginGo
  <2>2. Clean /\ ~had_error' /\ o.kind # "call"
    BY <2>1 DEF AInv, Clean, NoError
  <2> HIDE DEF o
  <2> QED BY <2>1, <2>2, OpenClean
<1>2. CASE EndGo
  <2>1. /\ UNCHANGED <<text, frames, functions, structs, compilation_stack, had_error,
                       mistakes>>
        /\ \A i \in 1 .. Len(open') : i \in 1 .. Len(open) /\ open'[i] = open[i]
    BY <1>2, EndGoFacts DEF LInv, Linked
  <2>2. Clean /\ ~had_error'
    BY <2>1 DEF AInv, Clean, NoError
  <2> QED BY <2>1, <2>2, InsideClean
<1> QED BY <1>1, <1>2

\* A call of a function whose return type is not known is a mistake: the
\* function is still to come in the running file.
LEMMA UnknownUntyped ==
    ASSUME OneAlias, LInv, Clean, open # <<>>, Last(open).kind = "call",
           IsFunction(Last(open).func), ~functions[Last(open).func].known
    PROVE  IsUntyped(Last(open).means)
<1> DEFINE call == Last(open)
           i == call.func
           m == call.means
           n == Len(frames)
<1>1. /\ call = open[Len(open)] /\ Len(open) \in 1 .. Len(open)
      /\ i \in 1 .. Len(functions)
  BY LastCallFacts
<1>2. IInv /\ Chain /\ text \in Texts
  BY DEF LInv, Linked, IInv, Typed
<1>3. /\ n \in Nat /\ n \in 1 .. n /\ Module = frames[n] /\ Items = text[Module.file]
      /\ Module.next \in Nat /\ Module.file \in DOMAIN text
  BY <1>2, ModuleFacts
<1>4. Stands(text, functions[i].name, m) /\ m.file \in Here
  <2>1. MeantHere(call)
    BY <1>1 DEF Clean, OpenMeant
  <2> QED BY <1>1, <2>1 DEF MeantHere
<1>5. Available
  BY DEF Clean
<1>6. PICK k \in 1 .. n :
        /\ frames[k].prefix = functions[i].name.prefix
        /\ \E j \in frames[k].next .. Len(text[frames[k].file]) :
            /\ text[frames[k].file][j].kind = "fun"
            /\ text[frames[k].file][j].name = functions[i].name.name
            /\ ~text[frames[k].file][j].typed
  BY <1>1 DEF Clean, Untyped
<1>7. PICK j \in frames[k].next .. Len(text[frames[k].file]) :
            /\ text[frames[k].file][j].kind = "fun"
            /\ text[frames[k].file][j].name = functions[i].name.name
            /\ ~text[frames[k].file][j].typed
  BY <1>6
<1>8. m.file = frames[k].file
  <2>1. Denotes(text, functions[i].name.prefix, frames[k].file)
    BY <1>6, FrameDenotes
  <2> QED BY <1>2, <1>4, <2>1, DenotesOne DEF Stands
<1> HIDE DEF call, i, m, n
<1>9. m.file = Module.file
  <2> SUFFICES ASSUME m.file # Module.file PROVE FALSE
    OBVIOUS
  <2>1. PICK a \in Imports : m.file = Items[a].file
    BY <1>4 DEF Here
  <2>2. Items[a].file # frames[k].file
    BY <1>5, PassedImports DEF n
  <2> QED BY <1>8, <2>1, <2>2
<1>10. frames[k].next \in Nat /\ Len(text[Module.file]) \in Nat
       /\ DOMAIN text[Module.file] = 1 .. Len(text[Module.file])
  <2>1. frames[k] \in Frame(text)
    BY <1>2 DEF IInv, Typed, n
  <2> QED BY <1>2, <1>3, <2>1, TextTypes DEF Frame
<1>11. Module.next <= frames[k].next
  <2>1. CASE k = n
    BY <1>3, <1>10, <2>1
  <2>2. CASE k # n /\ k # 1
    <3>1. k \in 2 .. n /\ n \in 2 .. n
      BY <1>3, <2>2
    <3>2. frames[k].file = frames[n].file
      BY <1>3, <1>8, <1>9
    <3> QED BY <1>2, <2>2, <3>1, <3>2 DEF IInv, NoImportInsideItself, n
  <2>3. CASE k # n /\ k = 1
    <3>1. frames[n].file = Main
      BY <1>2, <1>3, <1>8, <1>9, <2>3 DEF Chain
    <3> QED BY <1>3, <1>5, <2>3, <3>1, MainInside DEF n
  <2> QED BY <2>1, <2>2, <2>3
<1>12. j \in DOMAIN text[m.file] /\ j >= Module.next
  <2>1. frames[k].next >= 1
    BY <1>2, <1>6 DEF Chain, n
  <2>2. j \in frames[k].next .. Len(text[Module.file])
    BY <1>7, <1>8, <1>9
  <2> QED BY <1>3, <1>9, <1>10, <1>11, <2>1, <2>2
<1>13. /\ text[m.file][j].kind = "fun" /\ text[m.file][j].name = m.name
       /\ ~text[m.file][j].typed
  BY <1>4, <1>7, <1>8 DEF Stands
<1>14. Place(m, "fun") = j
  <2> DEFINE p == Place(m, "fun")
  <2>1. /\ p \in DOMAIN text[m.file] /\ text[m.file][p].kind = "fun"
        /\ text[m.file][p].name = m.name
    BY <1>12, <1>13, PlaceFacts
  <2> HIDE DEF p
  <2>2. Label(text[m.file][p]) = Label(text[m.file][j])
    BY <1>13, <2>1 DEF Label
  <2>3. p = j
    BY <1>2, <1>3, <1>9, <1>12, <2>1, <2>2, TextTypes
  <2> QED BY <2>3 DEF p
<1>15. IsUntyped(m)
  <2>1. ~Items[j].typed
    BY <1>3, <1>9, <1>13
  <2> QED BY <1>9, <1>12, <1>14, <2>1 DEF IsUntyped
<1> QED BY <1>15 DEF m, call

LEMMA EndCallClean ==
    ASSUME OneAlias, LInv, AInv, mistakes' = {}, EndCall
    PROVE  Clean'
<1> DEFINE call == Last(open)
           errors == IsFunction(call.func) /\ ~functions[call.func].known
           wrong == IsFunction(call.func) /\ IsUntyped(call.means)
<1>1. /\ open # <<>> /\ call.kind = "call" /\ open' = Front(open)
      /\ UNCHANGED <<text, frames, structs>>
      /\ CallOp(call) = "call" => Remember(call.func, Len(code) + 1)
      /\ CallOp(call) # "call" => functions' = functions
      /\ Report(errors, wrong)
  BY EndCallFacts
<1>2. compilation_stack' = compilation_stack
  BY Zenon DEF EndCall
<1>3. Clean /\ ~wrong /\ (~errors => ~had_error')
  <2> HIDE DEF errors, wrong
  <2> QED BY <1>1, CleanReport
<1>4. ~errors
  BY <1>1, <1>3, UnknownUntyped
<1>5. Kinds /\ Len(functions) \in Nat
  BY Lengths DEF LInv, Linked
<1>6. /\ Len(functions') = Len(functions)
      /\ \A i \in 1 .. Len(functions) : /\ functions'[i].name = functions[i].name
                                        /\ functions'[i].known = functions[i].known
  <2>1. CASE CallOp(call) = "call"
    <3>1. call.func \in 1 .. Len(functions)
      BY <1>1, <1>5, <2>1, EmittedFacts, LastCallFacts
    <3>2. Remember(call.func, Len(code) + 1)
      BY <1>1, <2>1
    <3> HIDE DEF call
    <3> QED BY <1>5, <3>1, <3>2, RememberFacts
  <2>2. CASE CallOp(call) # "call"
    BY <1>1, <2>2
  <2> QED BY <2>1, <2>2
<1>7. \A i \in 1 .. Len(open') : i \in 1 .. Len(open) /\ open'[i] = open[i]
  <2>1. open \in Seq(Opens(text)) /\ Len(open) \in Nat
    BY <1>5, Lengths DEF Kinds
  <2>2. Len(open') = Len(open) - 1 /\ \A i \in 1 .. Len(open) - 1 : open'[i] = open[i]
    BY <1>1, <2>1, FrontFacts
  <2> QED BY <2>1, <2>2
<1> HIDE DEF call, errors, wrong
<1>8. ~had_error'
  BY <1>3, <1>4
<1> QED BY <1>1, <1>2, <1>3, <1>6, <1>7, <1>8, InsideClean

LEMMA EndFunctionClean ==
    ASSUME LInv, AInv, mistakes' = {}, EndFunction
    PROVE  Clean'
<1>1. /\ open # <<>> /\ Last(open).kind = "body" /\ open' = Front(open)
      /\ UNCHANGED <<text, structs>>
      /\ Len(functions') = Len(functions)
      /\ \A i \in 1 .. Len(functions) :
            /\ functions'[i].name = functions[i].name
            /\ functions'[i].known = IF Last(open).func = i THEN TRUE ELSE functions[i].known
      /\ \/ Last(open).func # 0 /\ frames' = NextItem(frames) /\ open' = <<>>
         \/ Last(open).func = 0 /\ frames' = frames /\ functions' = functions
  BY EndFunctionFacts
<1>2. UNCHANGED <<compilation_stack, had_error, mistakes>>
  BY Zenon DEF EndFunction
<1>3. Clean /\ ~had_error'
  BY <1>2 DEF AInv, Clean, NoError
<1>4. Kinds /\ Len(functions) \in Nat /\ Len(structs) \in Nat
  BY Lengths DEF LInv, Linked
<1>5. \A i \in 1 .. Len(functions) : ~functions'[i].known => ~functions[i].known
  BY <1>1
<1>6. CASE Last(open).func = 0
  <2>1. \A i \in 1 .. Len(open') : i \in 1 .. Len(open) /\ open'[i] = open[i]
    <3>1. open \in Seq(Opens(text)) /\ Len(open) \in Nat
      BY <1>4, Lengths DEF Kinds
    <3>2. Len(open') = Len(open) - 1 /\ \A i \in 1 .. Len(open) - 1 : open'[i] = open[i]
      BY <1>1, <3>1, FrontFacts
    <3> QED BY <3>1, <3>2
  <2>2. frames' = frames
    BY <1>1, <1>6
  <2> QED BY <1>1, <1>2, <1>3, <1>5, <2>1, <2>2, InsideClean
<1>7. CASE Last(open).func # 0
  <2> DEFINE g == Last(open).func
  <2>1. /\ g \in 1 .. Len(functions)
        /\ functions[g].name = [prefix |-> Module.prefix, name |-> Item.name]
        /\ Module.next \in DOMAIN Items /\ Item.kind = "fun"
    BY <1>1, <1>7, LastBodyFacts
  <2>2. Distinct(functions)
    BY <1>4 DEF Kinds
  <2>3. functions'[g].known
    BY <1>1, <2>1
  <2> HIDE DEF g
  <2>4. \A i \in 1 .. Len(functions) :
            functions[i].name = [prefix |-> Module.prefix, name |-> Item.name]
                => functions'[i].known
    BY <2>1, <2>2, <2>3 DEF Distinct
  <2>5. NamesKept
    <3>1. /\ text' = text /\ structs' = structs /\ Len(functions') = Len(functions)
          /\ \A i \in 1 .. Len(functions) : functions'[i].name = functions[i].name
      BY <1>1
    <3>2. Len(functions) \in Nat /\ Len(structs) \in Nat
      BY <1>4
    <3> QED BY <3>1, <3>2 DEF NamesKept
  <2>6. Item.kind # "imp" /\ frames' = NextItem(frames) /\ open' = <<>>
    BY <1>1, <1>7, <2>1
  <2> QED BY <1>1, <1>2, <1>3, <1>5, <2>1, <2>4, <2>5, <2>6, PassClean
<1> QED BY <1>6, <1>7

LEMMA DefineStructClean ==
    ASSUME LInv, LInv', AInv, mistakes' = {}, DefineStruct
    PROVE  Clean'
<1> DEFINE e == [name |-> [prefix |-> Module.prefix, name |-> Item.name],
                 fields |-> Item.fields, public |-> Item.public]
<1>1. /\ open = <<>> /\ Module.next \in DOMAIN Items /\ Item.kind = "struct"
      /\ structs' = Append(structs, e) /\ frames' = NextItem(frames)
      /\ UNCHANGED <<text, open, functions, compilation_stack, had_error, mistakes>>
  BY DEF DefineStruct, AtItem
<1>2. Clean /\ ~had_error'
  BY <1>1 DEF AInv, Clean, NoError
<1>3. Kinds /\ Len(functions) \in Nat /\ Len(structs) \in Nat
      /\ structs \in Seq(StructEntry(text) \cup {e})
  <2>1. structs \in Seq(StructEntry(text)) /\ Kinds
    BY DEF LInv, Linked, Kinds
  <2> HIDE DEF e
  <2> QED BY <2>1, Lengths
<1> HIDE DEF e
<1>4. /\ Len(structs') = Len(structs) + 1
      /\ \A i \in 1 .. Len(structs) : structs'[i] = structs[i]
  BY <1>1, <1>3, EmitFacts
<1>5. NamesKept
  BY <1>1, <1>3, <1>4 DEF NamesKept
<1> QED BY <1>1, <1>2, <1>5, PassClean

LEMMA BeginFunctionClean ==
    ASSUME LInv, AInv, mistakes' = {}, BeginFunction
    PROVE  Clean'
<1>1. /\ open = <<>> /\ Module.next \in DOMAIN Items /\ Item.kind = "fun"
      /\ UNCHANGED <<text, frames, structs, compilation_stack>>
      /\ functions' \in Seq(FunctionEntry(text))
  BY BeginFunctionFacts
<1>2. UNCHANGED <<had_error, mistakes>>
  BY Zenon DEF BeginFunction
<1>3. Clean /\ ~had_error'
  BY <1>2 DEF AInv, Clean, NoError
<1>4. PICK f \in Nat : Begins(f)
  BY BeginFunctionFacts
<1>5. /\ Len(functions') >= Len(functions)
      /\ functions'[f].name = [prefix |-> Module.prefix, name |-> Item.name]
      /\ \/ functions'[f].known = Item.typed
         \/ /\ f \in 1 .. Len(functions)
            /\ functions'[f].known = functions[f].known
      /\ f \in 1 .. Len(functions) =>
            functions[f].name = [prefix |-> Module.prefix, name |-> Item.name]
      /\ \A l \in 1 .. Len(functions') :
            l # f => l \in 1 .. Len(functions) /\ functions'[l] = functions[l]
  BY <1>4, Zenon DEF Begins
<1>6. IInv /\ Kinds /\ Len(functions) \in Nat /\ Len(structs) \in Nat
  BY Lengths DEF LInv, Linked
<1>7. NamesKept
  <2>1. Len(functions') \in Nat
    BY <1>1
  <2>2. \A i \in 1 .. Len(functions) : functions'[i].name = functions[i].name
    <3> TAKE i \in 1 .. Len(functions)
    <3>1. i \in 1 .. Len(functions')
      BY <1>5, <1>6, <2>1
    <3> QED BY <1>5, <3>1
  <2> QED BY <1>1, <1>5, <1>6, <2>1, <2>2 DEF NamesKept
<1>8. NoError' /\ StackExact'
  BY <1>1, <1>3 DEF Clean, NoError, StackExact
<1>9. Available'
  BY <1>1, <1>3, <1>7, AvailableKept DEF Clean
<1>10. ASSUME NEW i \in 1 .. Len(functions'), ~functions'[i].known
       PROVE  \E k \in 1 .. Len(frames) :
            /\ frames[k].prefix = functions'[i].name.prefix
            /\ \E j \in frames[k].next .. Len(text[frames[k].file]) :
                /\ text[frames[k].file][j].kind = "fun"
                /\ text[frames[k].file][j].name = functions'[i].name.name
                /\ ~text[frames[k].file][j].typed
  <2>1. CASE i \in 1 .. Len(functions) /\ ~functions[i].known
    <3>1. functions'[i].name = functions[i].name
      BY <1>7, <2>1 DEF NamesKept
    <3>2. Untyped
      BY <1>3 DEF Clean
    <3> QED BY <2>1, <3>1, <3>2 DEF Untyped
  <2>2. CASE i = f /\ ~Item.typed
    <3>1. /\ Len(frames) \in 1 .. Len(frames) /\ Module = frames[Len(frames)]
          /\ Module.next \in Nat
          /\ Item = text[Module.file][Module.next]
          /\ DOMAIN Items = 1 .. Len(Items) /\ Len(Items) \in Nat /\ Items = text[Module.file]
      BY <1>1, <1>6, ModuleFacts, ItemFacts
    <3>2. functions'[i].name.prefix = Module.prefix /\ functions'[i].name.name = Item.name
      BY <1>5, <2>2
    <3>3. Module.next \in Module.next .. Len(text[Module.file])
      BY <1>1, <3>1
    <3> QED BY <1>1, <2>2, <3>1, <3>2, <3>3
  <2> QED BY <1>5, <1>10, <2>1, <2>2
<1>11. Untyped'
  BY <1>1, <1>10 DEF Untyped
<1>12. OpenMeant'
  <2> DEFINE o == [kind |-> "body", func |-> f, jump |-> Len(code) + 1]
  <2>1. open' = <<o>> /\ o.kind = "body"
    BY <1>4, Zenon DEF Begins
  <2> HIDE DEF o
  <2>2. \A i \in 1 .. Len(open') : open'[i] = o
    BY <2>1
  <2> QED BY <2>1, <2>2 DEF OpenMeant, MeantHere
<1> QED BY <1>8, <1>9, <1>11, <1>12 DEF Clean

\* Without mistakes no import is refused: a circular one is of a file being
\* compiled, since that is what is on the stack.
LEMMA RefusedMistaken ==
    ASSUME LInv, AInv, RefuseImport \/ FailImport \/ Mistake
    PROVE  mistakes' # {}
<1>1. CASE FailImport \/ Mistake
  BY <1>1 DEF FailImport, Mistake, Report
<1>2. CASE RefuseImport
  <2> DEFINE wrong == Item.file \in BeingCompiled \/ compiled_modules >= MaxModules
  <2>1. Report(TRUE, wrong) /\ (IsCircular \/ IsTooMany)
    BY <1>2 DEF RefuseImport
  <2>2. CASE wrong
    <3> HIDE DEF wrong
    <3> QED BY <2>1, <2>2 DEF Report
  <2>3. CASE ~wrong /\ mistakes = {}
    <3>1. StackExact
      BY <2>3 DEF AInv, Clean
    <3>2. Contains(compilation_stack, Item.file)
      BY <2>1, <2>3 DEF IsTooMany, IsCircular
    <3>3. /\ compilation_stack \in Seq(DOMAIN text) /\ Len(frames) \in Nat
          /\ Len(compilation_stack) = Len(frames) - 1
      BY <3>1, ModuleFacts DEF LInv, IInv, Typed, StackExact
    <3>4. PICK i \in 1 .. Len(compilation_stack) : compilation_stack[i] = Item.file
      BY <3>2, <3>3 DEF Contains
    <3>5. i + 1 \in 2 .. Len(frames) /\ frames[i + 1].file = Item.file
      BY <3>1, <3>3, <3>4 DEF StackExact
    <3>6. Item.file \in BeingCompiled
      BY <3>5 DEF BeingCompiled
    <3> QED BY <2>3, <3>6
  <2>4. CASE mistakes # {}
    <3> HIDE DEF wrong
    <3> QED BY <2>1, <2>4 DEF Report
  <2> QED BY <2>2, <2>3, <2>4
<1> QED BY <1>1, <1>2

LEMMA BeginImportClean ==
    ASSUME LInv, AInv, mistakes' = {}, BeginImport
    PROVE  Clean'
<1> DEFINE n == Len(frames)
           e == [file |-> Item.file, prefix |-> Item.alias, next |-> 1, saved |-> had_error]
<1>1. /\ open = <<>> /\ Module.next \in DOMAIN Items /\ Item.kind = "imp"
      /\ Item.file \in DOMAIN text
      /\ UNCHANGED <<text, open, had_error, mistakes>>
      /\ functions' \in Seq(FunctionEntry(text)) /\ structs' \in Seq(StructEntry(text))
      /\ DeclaresFunctions(functions, functions', text[Item.file], Item.alias,
                           Len(text[Item.file]))
      /\ DeclaresStructs(structs, structs', text[Item.file], Item.alias,
                         Len(text[Item.file]))
      /\ frames' = Append(frames, e)
  BY BeginImportFacts
<1>2. Clean /\ ~had_error
  BY <1>1 DEF AInv, Clean, NoError
<1>3. IInv /\ Kinds /\ Len(functions) \in Nat /\ Len(structs) \in Nat
      /\ text \in Texts /\ n \in Nat
  BY Lengths, ModuleFacts DEF LInv, Linked
<1>4. /\ Len(frames') = n + 1 /\ frames'[n + 1] = e
      /\ \A k \in 1 .. n : frames'[k] = frames[k]
  <2>1. frames \in Seq(Frame(text) \cup {e})
    <3>1. frames \in Seq(Frame(text))
      BY <1>3 DEF IInv, Typed
    <3> HIDE DEF e
    <3> QED BY <3>1
  <2> HIDE DEF e
  <2> QED BY <1>1, <2>1, EmitFacts
<1>5. /\ e.file = Item.file /\ e.prefix = Item.alias /\ e.next = 1 /\ e.saved = had_error
  OBVIOUS
<1>6. Len(text[Item.file]) \in Nat /\ DOMAIN text[Item.file] = 1 .. Len(text[Item.file])
  BY <1>1, <1>3, TextTypes
<1> HIDE DEF n, e
<1>7. \A k \in 1 .. Len(frames') : k \in 1 .. n \/ k = n + 1
  BY <1>3, <1>4
<1>8. NamesKept
  <2>1. Len(functions') \in Nat /\ Len(structs') \in Nat
    BY <1>1
  <2>2. /\ Len(functions') >= Len(functions)
        /\ \A i \in 1 .. Len(functions) : functions'[i].name = functions[i].name
    BY <1>1 DEF DeclaresFunctions
  <2>3. /\ Len(structs') >= Len(structs)
        /\ \A i \in 1 .. Len(structs) : structs'[i].name = structs[i].name
    BY <1>1 DEF DeclaresStructs
  <2> QED BY <1>1, <1>3, <2>1, <2>2, <2>3 DEF NamesKept
<1>9. NoError'
  BY <1>1, <1>2, <1>4, <1>5, <1>7 DEF Clean, NoError, n
<1>10. StackExact'
  <2>1. /\ Len(compilation_stack) = n - 1
        /\ \A i \in 1 .. Len(compilation_stack) : compilation_stack[i] = frames[i + 1].file
    BY <1>2 DEF Clean, StackExact, n
  <2>2. compilation_stack' = Append(compilation_stack, Item.file)
    BY BeginImportFacts DEF PushModule
  <2>3. compilation_stack \in Seq(DOMAIN text)
    BY <1>3 DEF IInv, Typed
  <2>4. /\ Len(compilation_stack') = n /\ compilation_stack'[n] = Item.file
        /\ \A i \in 1 .. n - 1 : compilation_stack'[i] = frames[i + 1].file
    <3>1. /\ Len(compilation_stack') = Len(compilation_stack) + 1
          /\ compilation_stack'[Len(compilation_stack) + 1] = Item.file
          /\ \A i \in 1 .. Len(compilation_stack) :
                compilation_stack'[i] = compilation_stack[i]
      BY <1>1, <2>2, <2>3, EmitFacts
    <3> QED BY <1>3, <2>1, <3>1
  <2>5. \A i \in 1 .. n : compilation_stack'[i] = frames'[i + 1].file
    <3> TAKE i \in 1 .. n
    <3>1. CASE i = n
      BY <1>4, <1>5, <2>4, <3>1
    <3>2. CASE i # n
      <4>1. i \in 1 .. n - 1 /\ i + 1 \in 1 .. n
        BY <1>3, <3>2
      <4> QED BY <1>4, <2>4, <4>1
    <3> QED BY <3>1, <3>2
  <2> QED BY <1>3, <1>4, <2>4, <2>5 DEF StackExact
<1>11. DeclaredIn(text', functions', structs', Item.file, Item.alias)
  <2>1. \A j \in 1 .. Len(text[Item.file]) :
            /\ text[Item.file][j].kind = "fun" => \E i \in 1 .. Len(functions') :
                functions'[i].name = [prefix |-> Item.alias, name |-> text[Item.file][j].name]
            /\ text[Item.file][j].kind = "struct" => \E i \in 1 .. Len(structs') :
                structs'[i].name = [prefix |-> Item.alias, name |-> text[Item.file][j].name]
    BY <1>1 DEF DeclaresFunctions, DeclaresStructs
  <2> QED BY <1>1, <1>6, <2>1 DEF DeclaredIn, InTable
<1>12. ASSUME NEW k \in 1 .. n
       PROVE  /\ DeclaredIn(text', functions', structs', frames'[k].file, frames'[k].prefix)
              /\ \A j \in DOMAIN text'[frames'[k].file] :
                 j < frames'[k].next /\ text'[frames'[k].file][j].kind = "imp" =>
                     ImportedFrom(text', functions', structs', frames', k,
                                  text'[frames'[k].file][j])
  <2>1. frames'[k] = frames[k] /\ text' = text /\ k \in 1 .. Len(frames)
    BY <1>1, <1>4 DEF n
  <2>2. DeclaredIn(text, functions, structs, frames[k].file, frames[k].prefix)
    BY <1>2, <2>1 DEF Clean, Available
  <2>3. \A l \in 1 .. k : frames'[l].file = frames[l].file
    BY <1>3, <1>4
  <2>4. ASSUME NEW j \in DOMAIN text'[frames'[k].file],
               j < frames'[k].next, text'[frames'[k].file][j].kind = "imp"
        PROVE  ImportedFrom(text', functions', structs', frames', k, text'[frames'[k].file][j])
    <3>1. ImportedFrom(text, functions, structs, frames, k, text[frames[k].file][j])
      BY <1>2, <2>1, <2>4 DEF Clean, Available
    <3> QED BY <1>8, <2>1, <2>3, <3>1, ImportedStill
  <2>5. DeclaredIn(text', functions', structs', frames'[k].file, frames'[k].prefix)
    BY <1>8, <2>1, <2>2, DeclaredStill
  <2> QED BY <2>4, <2>5
<1>13. ASSUME NEW j \in DOMAIN text'[Item.file]
       PROVE  ~ (j < 1)
  BY <1>1, <1>6, <1>13
<1>14. Available'
  <2>1. ASSUME NEW k \in 1 .. Len(frames')
        PROVE  /\ DeclaredIn(text', functions', structs', frames'[k].file, frames'[k].prefix)
               /\ \A j \in DOMAIN text'[frames'[k].file] :
                  j < frames'[k].next /\ text'[frames'[k].file][j].kind = "imp" =>
                      ImportedFrom(text', functions', structs', frames', k,
                                   text'[frames'[k].file][j])
    <3>1. CASE k \in 1 .. n
      BY <1>12, <3>1
    <3>2. CASE k = n + 1
      <4>1. frames'[k].file = Item.file /\ frames'[k].prefix = Item.alias /\ frames'[k].next = 1
        BY <1>4, <1>5, <3>2
      <4> QED BY <1>11, <1>13, <4>1
    <3> QED BY <1>7, <3>1, <3>2
  <2> QED BY <2>1 DEF Available
<1>15. ASSUME NEW i \in 1 .. Len(functions'), ~functions'[i].known
       PROVE  \E k \in 1 .. Len(frames') :
            /\ frames'[k].prefix = functions'[i].name.prefix
            /\ \E j \in frames'[k].next .. Len(text[frames'[k].file]) :
                /\ text[frames'[k].file][j].kind = "fun"
                /\ text[frames'[k].file][j].name = functions'[i].name.name
                /\ ~text[frames'[k].file][j].typed
  <2>1. CASE i <= Len(functions) /\ functions'[i] = functions[i]
    <3>1. i \in 1 .. Len(functions) /\ ~functions[i].known /\ Untyped
      BY <1>2, <1>3, <1>15, <2>1 DEF Clean
    <3>2. PICK k \in 1 .. n :
            /\ frames[k].prefix = functions[i].name.prefix
            /\ \E j \in frames[k].next .. Len(text[frames[k].file]) :
                /\ text[frames[k].file][j].kind = "fun"
                /\ text[frames[k].file][j].name = functions[i].name.name
                /\ ~text[frames[k].file][j].typed
      BY <3>1 DEF Untyped, n
    <3>3. frames'[k] = frames[k] /\ k \in 1 .. Len(frames')
      BY <1>3, <1>4
    <3> QED BY <2>1, <3>2, <3>3
  <2>2. CASE ~ (i <= Len(functions) /\ functions'[i] = functions[i])
    <3>1. PICK j \in 1 .. Len(text[Item.file]) :
            /\ text[Item.file][j].kind = "fun"
            /\ functions'[i].name = [prefix |-> Item.alias, name |-> text[Item.file][j].name]
            /\ functions'[i].known = text[Item.file][j].typed
      BY <1>1, <2>2 DEF DeclaresFunctions
    <3>2. /\ functions'[i].name.prefix = Item.alias
          /\ functions'[i].name.name = text[Item.file][j].name
          /\ ~text[Item.file][j].typed
      BY <1>15, <3>1
    <3>3. /\ n + 1 \in 1 .. Len(frames') /\ frames'[n + 1].prefix = Item.alias
          /\ frames'[n + 1].file = Item.file /\ frames'[n + 1].next = 1
      BY <1>3, <1>4, <1>5
    <3> QED BY <3>1, <3>2, <3>3
  <2> QED BY <2>1, <2>2
<1>16. Untyped'
  <2>1. text' = text
    BY <1>1
  <2> QED BY <1>15, <2>1 DEF Untyped
<1>17. OpenMeant'
  BY <1>1 DEF OpenMeant
<1> QED BY <1>9, <1>10, <1>14, <1>16, <1>17 DEF Clean

LEMMA EndImportClean ==
    ASSUME LInv, AInv, mistakes' = {}, EndImport
    PROVE  Clean'
<1> DEFINE n == Len(frames)
           h == n - 1
<1>1. /\ n > 1 /\ n \in Nat /\ Module = frames[n]
      /\ Module.next = Len(Items) + 1 /\ open = <<>>
      /\ UNCHANGED <<text, open, functions, structs, mistakes>>
      /\ had_error' = Module.saved /\ compilation_stack' = Front(compilation_stack)
      /\ Len(frames') = h
      /\ \A k \in 1 .. n - 2 : frames'[k] = frames[k]
      /\ \A k \in 1 .. h : /\ frames'[k].file = frames[k].file
                           /\ frames'[k].prefix = frames[k].prefix
                           /\ frames'[k].saved = frames[k].saved
      /\ frames'[h].next = frames[h].next + 1
  BY EndImportFacts
<1>2. Clean
  BY <1>1 DEF AInv
<1>3. IInv /\ Chain /\ Kinds /\ text \in Texts /\ Items = text[Module.file]
  BY ModuleFacts DEF LInv, Linked
<1>4. /\ h \in 1 .. n /\ n \in 1 .. n /\ h \in 1 .. n - 1 /\ h + 1 = n /\ h \in Nat
      /\ \A k \in 1 .. h : k \in 1 .. n /\ (k # h => k \in 1 .. n - 2)
  BY <1>1
<1> DEFINE item == text[frames[h].file][frames[h].next]
<1>5. /\ frames[h].next \in DOMAIN text[frames[h].file]
      /\ item.kind = "imp" /\ item.file = frames[n].file /\ item.alias = frames[n].prefix
  BY <1>3, <1>4 DEF Chain
<1>6. \A k \in 1 .. n : /\ frames[k].file \in DOMAIN text /\ frames[k].next \in Nat
                        /\ DOMAIN text[frames[k].file] = 1 .. Len(text[frames[k].file])
                        /\ Len(text[frames[k].file]) \in Nat
  <2> TAKE k \in 1 .. n
  <2>1. frames[k] \in Frame(text)
    BY <1>3 DEF IInv, Typed
  <2>2. frames[k].file \in DOMAIN text /\ frames[k].next \in Nat
    BY <2>1 DEF Frame
  <2> QED BY <1>3, <2>2, TextTypes
<1>7. NoError'
  <2>1. ~frames[n].saved /\ \A k \in 1 .. h : ~frames[k].saved
    BY <1>2, <1>4 DEF Clean, NoError
  <2> HIDE DEF n, h
  <2> QED BY <1>1, <2>1 DEF NoError
<1>8. StackExact'
  <2>1. /\ Len(compilation_stack) = h
        /\ \A i \in 1 .. Len(compilation_stack) : compilation_stack[i] = frames[i + 1].file
        /\ compilation_stack \in Seq(DOMAIN text)
    BY <1>2, <1>3 DEF Clean, StackExact, IInv, Typed
  <2>2. compilation_stack # <<>>
    BY <1>1, <2>1
  <2>3. /\ Len(compilation_stack') = Len(compilation_stack) - 1
        /\ \A i \in 1 .. Len(compilation_stack) - 1 :
                compilation_stack'[i] = compilation_stack[i]
    BY <1>1, <2>1, <2>2, FrontFacts
  <2>4. \A i \in 1 .. h - 1 : /\ i + 1 \in 1 .. h /\ i \in 1 .. Len(compilation_stack)
                              /\ compilation_stack'[i] = frames[i + 1].file
    <3> HIDE DEF h, n
    <3> TAKE i \in 1 .. h - 1
    <3>1. i + 1 \in 1 .. h /\ i \in 1 .. h /\ i \in 1 .. Len(compilation_stack) - 1
      BY <1>4, <2>1
    <3> QED BY <2>1, <2>3, <3>1
  <2> HIDE DEF h
  <2> QED BY <1>1, <2>1, <2>3, <2>4 DEF StackExact
<1>9. Available
  BY <1>2 DEF Clean
<1>10. NamesKept
  BY <1>1, <1>3, Lengths DEF NamesKept
<1>11. ImportedFrom(text, functions, structs, frames, h, item)
  <2>1. DeclaredIn(text, functions, structs, frames[n].file, frames[n].prefix)
    BY <1>4, <1>9 DEF Available
  <2>2. ASSUME NEW l \in 1 .. h
        PROVE  frames[n].file # frames[l].file
    <3>1. CASE l # 1
      <4>1. l \in 2 .. n /\ n \in 2 .. n /\ l # n
        BY <1>1, <2>2, <3>1
      <4> QED BY <1>3, <4>1 DEF IInv, NoImportInsideItself
    <3>2. CASE l = 1
      <4> SUFFICES ASSUME frames[n].file = Main PROVE FALSE
        BY <1>3, <3>2 DEF Chain
      <4>1. frames[n].next <= frames[1].next
        BY <1>1, <1>9, MainInside
      <4>2. frames[1].next \in DOMAIN text[Main] /\ 1 \in 1 .. n
        <5>1. 1 \in 1 .. n - 1 /\ 1 \in 1 .. n
          BY <1>1
        <5> QED BY <1>3, <5>1 DEF Chain
      <4>3. /\ frames[n].next = Len(text[Main]) + 1 /\ Len(text[Main]) \in Nat
            /\ frames[1].next \in 1 .. Len(text[Main])
        BY <1>1, <1>3, <1>4, <1>6, <4>2
      <4> HIDE DEF n
      <4> QED BY <4>1, <4>3
    <3> QED BY <3>1, <3>2
  <2> HIDE DEF item, h, n
  <2> QED BY <1>5, <2>1, <2>2 DEF ImportedFrom
<1>12. Available'
  <2>1. ASSUME NEW k \in 1 .. Len(frames')
        PROVE  /\ DeclaredIn(text', functions', structs', frames'[k].file, frames'[k].prefix)
               /\ \A j \in DOMAIN text'[frames'[k].file] :
                  j < frames'[k].next /\ text'[frames'[k].file][j].kind = "imp" =>
                      ImportedFrom(text', functions', structs', frames', k,
                                   text'[frames'[k].file][j])
    <3>1. /\ k \in 1 .. h /\ k \in 1 .. n /\ text' = text
          /\ frames'[k].file = frames[k].file /\ frames'[k].prefix = frames[k].prefix
      BY <1>1, <1>4
    <3>2. DeclaredIn(text, functions, structs, frames[k].file, frames[k].prefix)
      BY <1>9, <3>1 DEF Available
    <3>3. \A l \in 1 .. k : frames'[l].file = frames[l].file
      <4>1. \A l \in 1 .. k : l \in 1 .. h
        <5> HIDE DEF h
        <5> QED BY <1>4, <3>1
      <4> QED BY <1>1, <4>1
    <3>4. ASSUME NEW j \in DOMAIN text'[frames'[k].file],
                 j < frames'[k].next, text'[frames'[k].file][j].kind = "imp"
          PROVE  ImportedFrom(text', functions', structs', frames', k,
                              text'[frames'[k].file][j])
      <4>1. j \in DOMAIN text[frames[k].file] /\ text[frames[k].file][j].kind = "imp"
        BY <3>1, <3>4
      <4>2. j < frames[k].next \/ (k = h /\ j = frames[h].next)
        <5>1. CASE k # h
          <6>1. frames'[k] = frames[k]
            BY <1>1, <1>4, <3>1, <5>1
          <6> QED BY <3>4, <6>1
        <5>2. CASE k = h
          <6>1. j \in Nat /\ frames[h].next \in Nat
            <7>1. j \in 1 .. Len(text[frames[k].file]) /\ frames[k].next \in Nat
              BY <1>6, <3>1, <4>1
            <7> QED BY <5>2, <7>1
          <6>2. j < frames[h].next + 1
            BY <1>1, <3>4, <5>2
          <6> HIDE DEF h
          <6> QED BY <5>2, <6>1, <6>2
        <5> QED BY <5>1, <5>2
      <4>3. ImportedFrom(text, functions, structs, frames, k, text[frames[k].file][j])
        <5>1. CASE j < frames[k].next
          BY <1>9, <3>1, <4>1, <5>1 DEF Available
        <5>2. CASE k = h /\ j = frames[h].next
          BY <1>11, <5>2
        <5> QED BY <4>2, <5>1, <5>2
      <4> QED BY <1>10, <3>1, <3>3, <4>3, ImportedStill
    <3>5. DeclaredIn(text', functions', structs', frames'[k].file, frames'[k].prefix)
      BY <1>10, <3>1, <3>2, DeclaredStill
    <3> QED BY <3>4, <3>5
  <2> QED BY <2>1 DEF Available
<1>13. ASSUME NEW i \in 1 .. Len(functions), ~functions[i].known
       PROVE  \E k \in 1 .. h :
            /\ frames'[k].prefix = functions[i].name.prefix
            /\ \E j \in frames'[k].next .. Len(text[frames'[k].file]) :
                /\ text[frames'[k].file][j].kind = "fun"
                /\ text[frames'[k].file][j].name = functions[i].name.name
                /\ ~text[frames'[k].file][j].typed
  <2>1. PICK k \in 1 .. n :
            /\ frames[k].prefix = functions[i].name.prefix
            /\ \E j \in frames[k].next .. Len(text[frames[k].file]) :
                /\ text[frames[k].file][j].kind = "fun"
                /\ text[frames[k].file][j].name = functions[i].name.name
                /\ ~text[frames[k].file][j].typed
    BY <1>2, <1>13 DEF Clean, Untyped
  <2>2. PICK j \in frames[k].next .. Len(text[frames[k].file]) :
                /\ text[frames[k].file][j].kind = "fun"
                /\ text[frames[k].file][j].name = functions[i].name.name
                /\ ~text[frames[k].file][j].typed
    BY <2>1
  <2>3. j \in Int /\ frames[k].next <= j /\ j <= Len(text[frames[k].file])
    BY <1>6, <2>1, <2>2
  <2>4. k # n
    BY <1>1, <1>3, <1>6, <2>3
  <2>5. k \in 1 .. h
    BY <1>1, <2>4
  <2>6. frames'[k].next <= j
    <3>1. CASE k # h
      <4>1. frames'[k] = frames[k]
        BY <1>1, <1>4, <2>5, <3>1
      <4> QED BY <2>3, <4>1
    <3>2. CASE k = h
      <4>1. j # frames[h].next
        BY <1>5, <2>2, <3>2
      <4>2. frames[h].next \in Nat /\ frames'[h].next = frames[h].next + 1
        BY <1>1, <1>4, <1>6
      <4> HIDE DEF h
      <4> QED BY <2>3, <3>2, <4>1, <4>2
    <3> QED BY <3>1, <3>2
  <2>7. frames'[k].file = frames[k].file /\ frames'[k].prefix = frames[k].prefix
    BY <1>1, <2>5
  <2>8. frames'[k].next \in Int
    <3>1. CASE k # h
      <4>1. frames'[k] = frames[k]
        BY <1>1, <1>4, <2>5, <3>1
      <4> QED BY <1>6, <2>1, <4>1
    <3>2. CASE k = h
      BY <1>1, <1>4, <1>6, <3>2
    <3> QED BY <3>1, <3>2
  <2>9. j \in frames'[k].next .. Len(text[frames'[k].file])
    BY <1>6, <2>1, <2>3, <2>6, <2>7, <2>8
  <2> HIDE DEF h, n
  <2> QED BY <2>1, <2>2, <2>5, <2>7, <2>9
<1>14. Untyped'
  <2>1. text' = text /\ functions' = functions /\ Len(frames') = h
    BY <1>1
  <2> HIDE DEF h
  <2> QED BY <1>13, <2>1 DEF Untyped
<1>15. OpenMeant'
  BY <1>1 DEF OpenMeant
<1> QED BY <1>7, <1>8, <1>12, <1>14, <1>15 DEF Clean

LEMMA StillClean ==
    ASSUME LInv, AInv, mistakes' = {}, UNCHANGED vars \/ Finish
    PROVE  Clean'
<1>1. UNCHANGED <<text, frames, open, functions, structs, compilation_stack,
                  had_error, mistakes>>
  BY Zenon DEF vars, Finish
<1>2. Clean /\ ~had_error'
  BY <1>1 DEF AInv, Clean, NoError
<1> QED BY <1>1, <1>2, InsideClean

LEMMA NextClean ==
    ASSUME OneAlias, OwnNames, NoFields, LInv, LInv', Origin, AInv, [Next]_vars
    PROVE  AInv'
<1> SUFFICES ASSUME mistakes' = {} PROVE Clean'
  BY DEF AInv
<1>1. CASE BeginFunction
  BY <1>1, BeginFunctionClean
<1>2. CASE DefineStruct
  BY <1>2, DefineStructClean
<1>3. CASE EndFunction
  BY <1>3, EndFunctionClean
<1>4. CASE BeginLambda
  BY <1>4, BeginLambdaClean
<1>5. CASE RefuseImport \/ FailImport \/ Mistake
  BY <1>5, RefusedMistaken
<1>6. CASE BeginImport
  BY <1>6, BeginImportClean
<1>7. CASE EndImport
  BY <1>7, EndImportClean
<1>8. CASE Refer
  <2>1. CASE \E u \in Functions : Undefined(u)
    BY <2>1, UndefinedClean
  <2>2. CASE \E u \in Functions : UseValue(u)
    BY <2>2, UseValueClean
  <2>3. CASE \E u \in Functions : \E go \in BOOLEAN : BeginCall(u, go)
    <3>1. PICK u \in Functions, go \in BOOLEAN : BeginCall(u, go)
      BY <2>3
    <3> QED BY <3>1, BeginCallClean
  <2>4. CASE \E go \in BOOLEAN : BeginValueCall(go)
    BY <2>4, BeginValueCallClean
  <2>5. CASE \E u \in Own("struct") \cup Foreign("struct") : Instantiate(u)
    BY <2>5, InstantiateClean
  <2> QED BY <1>8, <2>1, <2>2, <2>3, <2>4, <2>5, Zenon DEF Refer
<1>9. CASE EndCall
  BY <1>9, EndCallClean
<1>10. CASE Finish \/ Finished \/ UNCHANGED vars
  <2>1. Finish \/ UNCHANGED vars
    BY <1>10, Zenon DEF Finished
  <2> QED BY <2>1, StillClean
<1>11. CASE BeginGo \/ EndGo
  BY <1>11, GoClean
<1> QED
  BY <1>1, <1>2, <1>3, <1>4, <1>5, <1>6, <1>7, <1>8, <1>9, <1>10, <1>11, Zenon DEF Next

LEMMA InitClean == Init => AInv
<1> SUFFICES ASSUME Init PROVE Clean
  BY DEF AInv
<1> DEFINE e == [file |-> Main, prefix |-> NULL, next |-> 1, saved |-> FALSE]
<1>1. /\ text \in Texts /\ Main \in DOMAIN text /\ frames = <<e>>
      /\ open = <<>> /\ compilation_stack = <<>> /\ had_error = FALSE
      /\ functions \in Seq(FunctionEntry(text)) /\ structs \in Seq(StructEntry(text))
      /\ DeclaresFunctions(<<>>, functions, text[Main], NULL, Len(text[Main]))
      /\ DeclaresStructs(<<>>, structs, text[Main], NULL, Len(text[Main]))
  BY InitFacts
<1>2. e.file = Main /\ e.prefix = NULL /\ e.next = 1 /\ e.saved = FALSE
  OBVIOUS
<1> HIDE DEF e
<1>3. Len(frames) = 1 /\ frames[1] = e /\ \A k \in 1 .. Len(frames) : k = 1
  BY <1>1
<1>4. Len(text[Main]) \in Nat /\ DOMAIN text[Main] = 1 .. Len(text[Main])
  BY <1>1, TextTypes
<1>5. NoError
  BY <1>1, <1>2, <1>3 DEF NoError
<1>6. StackExact
  BY <1>1, <1>3 DEF StackExact
<1>7. DeclaredIn(text, functions, structs, Main, NULL)
  <2>1. \A j \in 1 .. Len(text[Main]) :
            /\ text[Main][j].kind = "fun" => \E i \in 1 .. Len(functions) :
                functions[i].name = [prefix |-> NULL, name |-> text[Main][j].name]
            /\ text[Main][j].kind = "struct" => \E i \in 1 .. Len(structs) :
                structs[i].name = [prefix |-> NULL, name |-> text[Main][j].name]
    BY <1>1 DEF DeclaresFunctions, DeclaresStructs
  <2> QED BY <1>4, <2>1 DEF DeclaredIn, InTable
<1>8. \A j \in DOMAIN text[Main] : ~ (j < 1)
  BY <1>4
<1>9. Available
  BY <1>2, <1>3, <1>7, <1>8 DEF Available
<1>10. Untyped
  <2> SUFFICES ASSUME NEW i \in 1 .. Len(functions), ~functions[i].known
               PROVE  \E k \in 1 .. Len(frames) :
                        /\ frames[k].prefix = functions[i].name.prefix
                        /\ \E j \in frames[k].next .. Len(text[frames[k].file]) :
                            /\ text[frames[k].file][j].kind = "fun"
                            /\ text[frames[k].file][j].name = functions[i].name.name
                            /\ ~text[frames[k].file][j].typed
    BY DEF Untyped
  <2>1. ~ (i <= Len(<<>>))
    OBVIOUS
  <2>2. PICK j \in 1 .. Len(text[Main]) :
            /\ text[Main][j].kind = "fun"
            /\ functions[i].name = [prefix |-> NULL, name |-> text[Main][j].name]
            /\ functions[i].known = text[Main][j].typed
    BY <1>1, <2>1 DEF DeclaresFunctions
  <2>3. /\ functions[i].name.prefix = NULL
        /\ functions[i].name.name = text[Main][j].name
        /\ ~text[Main][j].typed
    BY <2>2
  <2>4. 1 \in 1 .. Len(frames)
    BY <1>3
  <2> QED BY <1>2, <1>3, <2>2, <2>3, <2>4
<1>11. OpenMeant
  BY <1>1 DEF OpenMeant
<1> QED BY <1>5, <1>6, <1>9, <1>10, <1>11 DEF Clean

LEMMA NextAccepted ==
    ASSUME AInv, Accepted, [Next]_vars
    PROVE  Accepted'
<1>1. CASE BeginFunction \/ DefineStruct \/ EndFunction \/ BeginLambda \/ RefuseImport
           \/ FailImport \/ BeginImport \/ EndImport \/ Refer \/ EndCall \/ Mistake
           \/ BeginGo \/ EndGo
  BY <1>1, StillRunning DEF Accepted
<1>2. CASE Finish
  <2>1. mistakes' = mistakes /\ result' = IF had_error THEN "null" ELSE "chunk"
    BY <1>2, Zenon DEF Finish
  <2>2. mistakes = {} => ~had_error
    BY DEF AInv, Clean, NoError
  <2> QED BY <2>1, <2>2 DEF Accepted
<1>3. CASE Finished \/ UNCHANGED vars
  <2>1. UNCHANGED <<result, mistakes>>
    BY <1>3, Zenon DEF Finished, vars
  <2> QED BY <2>1 DEF Accepted
<1> QED BY <1>1, <1>2, <1>3, Zenon DEF Next

\* A program is refused only if there is something wrong with it: whatever is
\* imported and however often, names that are declared are found, visible names
\* and return types that are known are accepted, and no import is taken for a
\* circular one.  This holds for all programs in which an alias stands for one
\* file, functions have names of their own, and structs have no fields.
THEOREM RightProgramsAccepted ==
    ASSUME OneAlias, OwnNames, NoFields
    PROVE  Spec => []Accepted
<1> DEFINE Inv == LInv /\ Origin /\ AInv /\ Accepted
<1>1. Init => Inv
  <2> SUFFICES ASSUME Init PROVE Inv
    OBVIOUS
  <2>1. LInv /\ Origin /\ AInv
    BY InitIInv, InitLinked, InitOrigin, InitClean DEF LInv
  <2>2. Accepted
    BY InitFacts DEF Accepted
  <2> QED BY <2>1, <2>2
<1>2. Inv /\ [Next]_vars => Inv'
  <2> SUFFICES ASSUME Inv, [Next]_vars PROVE Inv'
    OBVIOUS
  <2>1. LInv'
    BY NextLinked
  <2>2. Origin' /\ AInv'
    BY <2>1, NextOrigin, NextClean
  <2>3. Accepted'
    BY NextAccepted
  <2> QED BY <2>1, <2>2, <2>3
<1>3. Inv => Accepted
  OBVIOUS
<1> HIDE DEF Inv
<1> QED BY <1>1, <1>2, <1>3, PTL DEF Spec
=============================================================================
