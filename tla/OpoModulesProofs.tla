-------------------------- MODULE OpoModulesProofs --------------------------
(***************************************************************************)
(* Theorems on OpoModules, for all programs: no imported file is compiled  *)
(* inside of itself, so that imports are nested at most one deeper than    *)
(* there are files, and the tables of handle_import are large enough.      *)
(*                                                                         *)
(* compilation_stack is not the list of the files being compiled: an       *)
(* import that fails leaves its file on it, and the end of the importing   *)
(* file takes that off instead of its own.  What holds is that the files   *)
(* being compiled are among its entries in the same order (OnStack).       *)
(***************************************************************************)
EXTENDS OpoModules, SequenceTheorems, TLAPS

\* the imports of a program, the prefixes they give, and the files being compiled
ImportsOf(t) ==
    UNION {{t[f][i] : i \in {k \in DOMAIN t[f] : t[f][k].kind = "imp"}} : f \in DOMAIN t}
Aliases(t) == {NULL} \cup {item.alias : item \in ImportsOf(t)}
Frame(t) == [file : DOMAIN t, prefix : Aliases(t), next : Nat, saved : BOOLEAN]

\* the types of what imports change
Typed ==
    /\ text \in Texts
    /\ frames \in Seq(Frame(text))
    /\ Len(frames) >= 1
    /\ compilation_stack \in Seq(DOMAIN text)
    /\ compiled_modules \in Nat
    /\ had_error \in BOOLEAN

\* the files being compiled, without the main file, are on the stack in order
OnStack ==
    \E p \in [2 .. Len(frames) -> 1 .. Len(compilation_stack)] :
        /\ \A i, j \in 2 .. Len(frames) : i < j => p[i] < p[j]
        /\ \A i \in 2 .. Len(frames) : compilation_stack[p[i]] = frames[i].file

IInv == Typed /\ OnStack /\ NoImportInsideItself /\ TablesFit

-----------------------------------------------------------------------------

\* Steps that go to the next item or not, and may add to the stack, keep the
\* order of the files on it: an import that is refused or fails, everything
\* but the beginning and the end of an import.
LEMMA SameFiles ==
    ASSUME IInv, Typed', TablesFit',
           Len(frames') = Len(frames),
           \A i \in 1 .. Len(frames) : frames'[i].file = frames[i].file,
           Len(compilation_stack') >= Len(compilation_stack),
           \A i \in 1 .. Len(compilation_stack) :
                compilation_stack'[i] = compilation_stack[i]
    PROVE  IInv'
<1> USE DEF IInv, Typed
<1>1. PICK p \in [2 .. Len(frames) -> 1 .. Len(compilation_stack)] :
        /\ \A i, j \in 2 .. Len(frames) : i < j => p[i] < p[j]
        /\ \A i \in 2 .. Len(frames) : compilation_stack[p[i]] = frames[i].file
  BY DEF OnStack
<1>2. /\ p \in [2 .. Len(frames') -> 1 .. Len(compilation_stack')]
      /\ \A i, j \in 2 .. Len(frames') : i < j => p[i] < p[j]
  BY <1>1
<1>3. ASSUME NEW i \in 2 .. Len(frames')
      PROVE  compilation_stack'[p[i]] = frames'[i].file
  <2>1. i \in 1 .. Len(frames) /\ p[i] \in 1 .. Len(compilation_stack)
    BY <1>1
  <2> QED
    BY <1>1, <2>1
<1>4. OnStack'
  BY <1>2, <1>3 DEF OnStack
<1>5. NoImportInsideItself'
  BY DEF NoImportInsideItself
<1> QED
  BY <1>4, <1>5

\* Going to the next item changes the last frame only, and not its file.
LEMMA NextItemFacts ==
    ASSUME NEW t, NEW fs \in Seq(Frame(t)), Len(fs) >= 1
    PROVE  /\ NextItem(fs) \in Seq(Frame(t))
           /\ Len(NextItem(fs)) = Len(fs)
           /\ \A i \in 1 .. Len(fs) : NextItem(fs)[i].file = fs[i].file
<1>1. Len(fs) \in 1 .. Len(fs) /\ fs[Len(fs)] \in Frame(t)
  OBVIOUS
<1>2. [fs[Len(fs)] EXCEPT !.next = @ + 1] \in Frame(t)
  BY <1>1 DEF Frame
<1> QED
  BY <1>1, <1>2 DEF NextItem, Frame

\* An item that is an import names a file of the program.
LEMMA ImportedFile ==
    ASSUME Typed, AtItem("imp")
    PROVE  Item \in ImportsOf(text) /\ Item.file \in DOMAIN text
<1>1. Module \in Frame(text)
  BY DEF Typed, Module, Last
<1>2. Module.file \in DOMAIN text
  BY <1>1 DEF Frame
<1>3. /\ Module.next \in DOMAIN text[Module.file]
      /\ text[Module.file][Module.next].kind = "imp"
  BY DEF AtItem, Item, Items
<1>4. /\ text \in Texts
      /\ text[Module.file][Module.next].file \in DOMAIN text
  BY ModulesAssumption, <1>2, <1>3 DEF Typed
<1> QED
  BY <1>2, <1>3, <1>4 DEF ImportsOf, Item, Items

\* error_at sets had_error to a Boolean.
LEMMA ReportFacts ==
    ASSUME NEW errors, NEW wrong, had_error \in BOOLEAN, Report(errors, wrong)
    PROVE  had_error' \in BOOLEAN
BY Zenon DEF Report

\* Steps inside of a file: nothing of imports changes but the next item.
LEMMA InsideFile ==
    ASSUME IInv, text' = text,
           frames' = frames \/ frames' = NextItem(frames),
           compilation_stack' = compilation_stack,
           compiled_modules' = compiled_modules,
           had_error' \in BOOLEAN
    PROVE  IInv'
<1>1. /\ frames' \in Seq(Frame(text))
      /\ Len(frames') = Len(frames)
      /\ \A i \in 1 .. Len(frames) : frames'[i].file = frames[i].file
  BY NextItemFacts, Zenon DEF IInv, Typed
<1>2. Typed' /\ TablesFit'
  BY <1>1 DEF IInv, Typed, TablesFit
<1> QED
  BY <1>1, <1>2, SameFiles DEF IInv, Typed

-----------------------------------------------------------------------------

LEMMA InitIInv == Init => IInv
<1> SUFFICES ASSUME Init PROVE IInv
  OBVIOUS
<1>1. text \in Texts /\ Main \in DOMAIN text
  BY ModulesAssumption DEF Init
<1>2. Len(frames) = 1 /\ frames \in Seq(Frame(text))
  <2>1. frames = <<[file |-> Main, prefix |-> NULL, next |-> 1, saved |-> FALSE]>>
    BY DEF Init
  <2> QED BY <1>1, <2>1 DEF Frame, Aliases
<1>3. compilation_stack = <<>> /\ compiled_modules = 0 /\ had_error = FALSE
  BY DEF Init
<1>4. Typed
  <2>1. had_error \in BOOLEAN
    BY <1>3, Zenon
  <2>2. compilation_stack \in Seq(DOMAIN text) /\ compiled_modules \in Nat
    BY <1>3
  <2> QED
    BY <1>1, <1>2, <2>1, <2>2 DEF Typed
<1>5. NoImportInsideItself
  BY <1>2 DEF NoImportInsideItself
<1>6. TablesFit
  BY <1>3, ModulesAssumption DEF TablesFit
<1>7. OnStack
  <2> DEFINE p == [i \in 2 .. Len(frames) |-> i]
  <2>1. \A i \in 2 .. Len(frames) : FALSE
    BY <1>2
  <2>2. p \in [2 .. Len(frames) -> 1 .. Len(compilation_stack)]
    BY <2>1
  <2> HIDE DEF p
  <2> QED
    BY <2>1, <2>2, Zenon DEF OnStack
<1> QED
  BY <1>4, <1>5, <1>6, <1>7 DEF IInv

\* An import that is refused puts nothing on the stack.
LEMMA RefuseImportStep ==
    ASSUME IInv, RefuseImport PROVE IInv'
<1>1. had_error' \in BOOLEAN
  BY ReportFacts, Zenon DEF RefuseImport, IInv, Typed
<1> QED
  BY <1>1, InsideFile DEF RefuseImport

\* What PushModule does: the file was not on the stack, and there is room.
LEMMA PushModuleFacts ==
    ASSUME IInv, text' = text, AtItem("imp"), PushModule
    PROVE  /\ Item.file \in DOMAIN text
           /\ compilation_stack' = Append(compilation_stack, Item.file)
           /\ compilation_stack' \in Seq(DOMAIN text)
           /\ Len(compilation_stack') = Len(compilation_stack) + 1
           /\ compiled_modules' \in Nat
           /\ TablesFit'
           /\ \A i \in 1 .. Len(compilation_stack) :
                /\ compilation_stack'[i] = compilation_stack[i]
                /\ compilation_stack[i] # Item.file
<1>1. Item.file \in DOMAIN text
  BY ImportedFile DEF IInv
<1>2. compilation_stack \in Seq(DOMAIN text) /\ compiled_modules \in Nat
  BY DEF IInv, Typed
<1>3. \A i \in 1 .. Len(compilation_stack) : compilation_stack[i] # Item.file
  BY DEF PushModule, IsCircular, Contains
<1>4. compiled_modules < MaxModules
  BY <1>2, ModulesAssumption DEF PushModule, IsTooMany
<1>5. /\ compilation_stack' = Append(compilation_stack, Item.file)
      /\ compiled_modules' = compiled_modules + 1
  BY DEF PushModule
<1>6. TablesFit'
  BY <1>2, <1>4, <1>5, <1>1, ModulesAssumption DEF IInv, TablesFit
<1> HIDE DEF Item
<1> QED
  BY <1>1, <1>2, <1>3, <1>5, <1>6

\* An import that fails leaves its file on the stack.
LEMMA FailImportStep ==
    ASSUME IInv, FailImport PROVE IInv'
<1>1. /\ AtItem("imp") /\ PushModule /\ text' = text
      /\ frames' = NextItem(frames)
  BY DEF FailImport
<1>2. had_error' \in BOOLEAN
  BY ReportFacts, Zenon DEF FailImport, IInv, Typed
<1>3. /\ compilation_stack' \in Seq(DOMAIN text)
      /\ Len(compilation_stack') = Len(compilation_stack) + 1
      /\ compiled_modules' \in Nat
      /\ TablesFit'
      /\ \A i \in 1 .. Len(compilation_stack) :
            compilation_stack'[i] = compilation_stack[i]
  BY <1>1, PushModuleFacts, Zenon
<1>4. /\ frames' \in Seq(Frame(text))
      /\ Len(frames') = Len(frames)
      /\ \A i \in 1 .. Len(frames) : frames'[i].file = frames[i].file
  BY <1>1, NextItemFacts, Zenon DEF IInv, Typed
<1>5. Typed'
  BY <1>1, <1>2, <1>3, <1>4 DEF IInv, Typed
<1>6. Len(compilation_stack') >= Len(compilation_stack)
  BY <1>3 DEF IInv, Typed
<1> QED
  BY <1>3, <1>4, <1>5, <1>6, SameFiles, Zenon

\* The file of an import is the last on the stack; no file was there twice.
LEMMA BeginImportStep ==
    ASSUME IInv, BeginImport PROVE IInv'
<1> DEFINE fr == [file |-> Item.file, prefix |-> Item.alias,
                  next |-> 1, saved |-> had_error]
           n == Len(frames)
           m == Len(compilation_stack)
<1>1. /\ AtItem("imp") /\ PushModule /\ text' = text /\ had_error' = had_error
      /\ frames' = Append(frames, fr)
  BY DEF BeginImport
<1>2. /\ Item.file \in DOMAIN text
      /\ compilation_stack' = Append(compilation_stack, Item.file)
      /\ compilation_stack' \in Seq(DOMAIN text)
      /\ Len(compilation_stack') = m + 1
      /\ compiled_modules' \in Nat
      /\ TablesFit'
      /\ \A i \in 1 .. m : /\ compilation_stack'[i] = compilation_stack[i]
                           /\ compilation_stack[i] # Item.file
  BY <1>1, PushModuleFacts, Zenon
<1>3. fr \in Frame(text) /\ fr.file = Item.file
  <2>1. Item \in ImportsOf(text)
    BY <1>1, ImportedFile DEF IInv
  <2>2. Item.alias \in {item.alias : item \in ImportsOf(text)}
    BY <2>1, Zenon
  <2>3. had_error \in BOOLEAN
    BY DEF IInv, Typed
  <2> HIDE DEF Item
  <2> QED
    BY <1>2, <2>2, <2>3 DEF Frame, Aliases
<1>4. /\ frames \in Seq(Frame(text)) /\ n \in Nat /\ n >= 1
      /\ compilation_stack \in Seq(DOMAIN text) /\ m \in Nat
  BY DEF IInv, Typed
<1> HIDE DEF fr, Item
<1>5. /\ frames' \in Seq(Frame(text))
      /\ Len(frames') = n + 1
      /\ frames'[n + 1] = fr
      /\ \A i \in 1 .. n : frames'[i] = frames[i]
  BY <1>1, <1>3, <1>4
<1>6. Typed'
  BY <1>1, <1>2, <1>4, <1>5 DEF IInv, Typed
<1>7. PICK p \in [2 .. n -> 1 .. m] :
        /\ \A i, j \in 2 .. n : i < j => p[i] < p[j]
        /\ \A i \in 2 .. n : compilation_stack[p[i]] = frames[i].file
  BY DEF IInv, OnStack
<1> DEFINE q == [i \in 2 .. n + 1 |-> IF i = n + 1 THEN m + 1 ELSE p[i]]
<1>8. /\ \A i \in 2 .. n : q[i] = p[i] /\ q[i] \in 1 .. m
      /\ q[n + 1] = m + 1
      /\ q \in [2 .. n + 1 -> 1 .. m + 1]
  <2>1. \A i \in 2 .. n + 1 : i = n + 1 \/ i \in 2 .. n
    BY <1>4
  <2>2. n + 1 \in 2 .. n + 1 /\ m + 1 \in 1 .. m + 1
    BY <1>4
  <2>3. \A i \in 2 .. n : i \in 2 .. n + 1 /\ i # n + 1 /\ p[i] \in 1 .. m
    BY <1>4, <1>7
  <2>4. \A k \in 1 .. m : k \in 1 .. m + 1
    BY <1>4
  <2> HIDE DEF n, m
  <2> QED
    BY <2>1, <2>2, <2>3, <2>4
<1> HIDE DEF q
<1>9. \A i, j \in 2 .. n + 1 : i < j => q[i] < q[j]
  <2> SUFFICES ASSUME NEW i \in 2 .. n + 1, NEW j \in 2 .. n + 1, i < j
               PROVE  q[i] < q[j]
    OBVIOUS
  <2>1. i \in 2 .. n /\ q[i] = p[i] /\ q[i] \in 1 .. m
    BY <1>4, <1>8
  <2>2. CASE j = n + 1
    BY <1>4, <1>8, <2>1, <2>2
  <2>3. CASE j # n + 1
    <3>1. j \in 2 .. n /\ q[j] = p[j]
      BY <1>4, <1>8, <2>3
    <3> QED
      BY <1>7, <2>1, <3>1
  <2> QED
    BY <2>2, <2>3
<1>10. compilation_stack'[m + 1] = Item.file
  BY <1>2, <1>4
<1>11. \A i \in 2 .. n + 1 : compilation_stack'[q[i]] = frames'[i].file
  <2> SUFFICES ASSUME NEW i \in 2 .. n + 1
               PROVE  compilation_stack'[q[i]] = frames'[i].file
    OBVIOUS
  <2>1. CASE i = n + 1
    BY <1>3, <1>5, <1>8, <1>10, <2>1
  <2>2. CASE i # n + 1
    <3>1. i \in 2 .. n /\ i \in 1 .. n
      BY <1>4, <2>2
    <3>2. compilation_stack'[q[i]] = compilation_stack[p[i]]
      BY <1>2, <1>8, <3>1
    <3> QED
      BY <1>5, <1>7, <3>1, <3>2
  <2> QED
    BY <2>1, <2>2
<1>12. OnStack'
  <2>1. Len(frames') = n + 1 /\ Len(compilation_stack') = m + 1
    BY <1>2, <1>5
  <2> HIDE DEF n, m
  <2>2. q \in [2 .. Len(frames') -> 1 .. Len(compilation_stack')]
    BY <1>8, <2>1
  <2>3. /\ \A i, j \in 2 .. Len(frames') : i < j => q[i] < q[j]
        /\ \A i \in 2 .. Len(frames') : compilation_stack'[q[i]] = frames'[i].file
    BY <1>9, <1>11, <2>1, Zenon
  <2> QED
    BY <2>2, <2>3, Zenon DEF OnStack
<1>13. \A i \in 2 .. n : frames[i].file # Item.file
  BY <1>2, <1>7, <1>8, Zenon
<1>14. NoImportInsideItself'
  <2>1. \A i, j \in 2 .. n : frames[i].file = frames[j].file => i = j
    BY DEF IInv, NoImportInsideItself
  <2>2. \A i \in 2 .. n : frames'[i] = frames[i]
    BY <1>4, <1>5
  <2>3. \A i \in 2 .. n : frames'[i].file # frames'[n + 1].file
    BY <1>3, <1>5, <1>13, <2>2
  <2>4. \A i, j \in 2 .. n : frames'[i].file = frames'[j].file => i = j
    BY <2>1, <2>2
  <2>5. \A i \in 2 .. Len(frames') : i = n + 1 \/ i \in 2 .. n
    BY <1>4, <1>5
  <2> HIDE DEF n, m
  <2> QED
    BY <2>3, <2>4, <2>5 DEF NoImportInsideItself
<1> QED
  BY <1>2, <1>6, <1>12, <1>14 DEF IInv

\* The end of an import takes the last entry off the stack: it is after those
\* of the files that are still being compiled.
LEMMA EndImportStep ==
    ASSUME IInv, EndImport PROVE IInv'
<1> DEFINE n == Len(frames)
           m == Len(compilation_stack)
<1>1. /\ text' = text /\ n > 1
      /\ frames' = NextItem(Front(frames))
      /\ had_error' = Module.saved
      /\ compilation_stack' = Front(compilation_stack)
      /\ compiled_modules' = compiled_modules
  BY DEF EndImport
<1>2. /\ frames \in Seq(Frame(text)) /\ n \in Nat
      /\ compilation_stack \in Seq(DOMAIN text) /\ m \in Nat
  BY DEF IInv, Typed
<1>3. PICK p \in [2 .. n -> 1 .. m] :
        /\ \A i, j \in 2 .. n : i < j => p[i] < p[j]
        /\ \A i \in 2 .. n : compilation_stack[p[i]] = frames[i].file
  BY DEF IInv, OnStack
<1>4. m >= 1
  BY <1>1, <1>2, <1>3
<1>5. /\ Front(frames) \in Seq(Frame(text))
      /\ Len(Front(frames)) = n - 1
      /\ \A i \in 1 .. n - 1 : Front(frames)[i] = frames[i]
  BY <1>1, <1>2 DEF Front
<1>6. /\ frames' \in Seq(Frame(text))
      /\ Len(frames') = n - 1
      /\ \A i \in 1 .. n - 1 : frames'[i].file = frames[i].file
  <2>1. Len(Front(frames)) >= 1
    BY <1>1, <1>2, <1>5
  <2>2. /\ NextItem(Front(frames)) \in Seq(Frame(text))
        /\ Len(NextItem(Front(frames))) = Len(Front(frames))
        /\ \A i \in 1 .. Len(Front(frames)) :
                NextItem(Front(frames))[i].file = Front(frames)[i].file
    BY <1>5, <2>1, NextItemFacts
  <2> QED
    BY <1>1, <1>5, <2>2
<1>7. /\ compilation_stack' \in Seq(DOMAIN text)
      /\ Len(compilation_stack') = m - 1
      /\ \A i \in 1 .. m - 1 : compilation_stack'[i] = compilation_stack[i]
  <2>1. SubSeq(compilation_stack, 1, m - 1) \in Seq(DOMAIN text)
    BY <1>2, <1>4
  <2>2. /\ Len(SubSeq(compilation_stack, 1, m - 1)) = m - 1
        /\ \A i \in 1 .. m - 1 :
                SubSeq(compilation_stack, 1, m - 1)[i] = compilation_stack[i]
    <3>1. 1 \in 1 .. m + 1 /\ m - 1 \in 0 .. m /\ (m - 1) - 1 + 1 = m - 1
      BY <1>2, <1>4
    <3>2. \A i \in 1 .. m - 1 : i \in 1 .. (m - 1) - 1 + 1 /\ 1 + i - 1 = i
      BY <1>2
    <3> QED
      BY <1>2, <1>4, <3>1, <3>2, SubSeqProperties
  <2>3. compilation_stack' = SubSeq(compilation_stack, 1, m - 1)
    BY <1>1, Zenon DEF Front
  <2> HIDE DEF m
  <2> QED
    BY <2>1, <2>2, <2>3, Zenon
<1>8. had_error' \in BOOLEAN
  <2>1. Module \in Frame(text)
    BY <1>1, <1>2 DEF Module, Last
  <2> QED
    BY <1>1, <2>1 DEF Frame
<1>9. Typed'
  BY <1>1, <1>2, <1>6, <1>7, <1>8 DEF IInv, Typed
<1>10. TablesFit'
  BY <1>1, <1>2, <1>7, ModulesAssumption DEF IInv, Typed, TablesFit
<1> DEFINE q == [i \in 2 .. n - 1 |-> p[i]]
<1>11. /\ \A i \in 2 .. n - 1 : q[i] = p[i] /\ q[i] \in 1 .. m - 1
       /\ q \in [2 .. n - 1 -> 1 .. m - 1]
  <2>1. n \in Nat /\ n > 1 /\ m \in Nat
    BY <1>1, <1>2
  <2> HIDE DEF n, m
  <2>2. \A i \in 2 .. n - 1 : i \in 2 .. n /\ n \in 2 .. n /\ i < n
    BY <2>1
  <2>3. \A i \in 2 .. n - 1 : p[i] \in 1 .. m /\ p[n] \in 1 .. m /\ p[i] < p[n]
    BY <1>3, <2>2, Zenon
  <2>4. \A i \in 2 .. n - 1 : p[i] \in 1 .. m - 1
    BY <2>1, <2>3
  <2> QED
    BY <2>4
<1> HIDE DEF q
<1>12. \A i \in 2 .. n - 1 : i \in 2 .. n /\ i \in 1 .. n - 1
  BY <1>2
<1>13. \A i, j \in 2 .. n - 1 : i < j => q[i] < q[j]
  BY <1>3, <1>11, <1>12
<1>14. \A i \in 2 .. n - 1 : compilation_stack'[q[i]] = frames'[i].file
  <2> SUFFICES ASSUME NEW i \in 2 .. n - 1
               PROVE  compilation_stack'[q[i]] = frames'[i].file
    OBVIOUS
  <2>1. compilation_stack'[q[i]] = compilation_stack[p[i]]
    BY <1>7, <1>11
  <2> QED
    BY <1>3, <1>6, <1>12, <2>1
<1>15. OnStack'
  <2>1. Len(frames') = n - 1 /\ Len(compilation_stack') = m - 1
    BY <1>6, <1>7
  <2> HIDE DEF n, m
  <2>2. q \in [2 .. Len(frames') -> 1 .. Len(compilation_stack')]
    BY <1>11, <2>1
  <2>3. /\ \A i, j \in 2 .. Len(frames') : i < j => q[i] < q[j]
        /\ \A i \in 2 .. Len(frames') : compilation_stack'[q[i]] = frames'[i].file
    BY <1>13, <1>14, <2>1, Zenon
  <2> QED
    BY <2>2, <2>3, Zenon DEF OnStack
<1>16. NoImportInsideItself'
  BY <1>2, <1>6 DEF IInv, NoImportInsideItself
<1> QED
  BY <1>9, <1>10, <1>15, <1>16 DEF IInv

-----------------------------------------------------------------------------

\* What the compiler does inside of a file leaves imports alone.
LEMMA InsideSteps ==
    ASSUME IInv,
           \/ BeginFunction \/ DefineStruct \/ EndFunction \/ BeginLambda
           \/ BeginGo \/ EndGo \/ Refer \/ EndCall \/ Mistake \/ Finish
    PROVE  IInv'
<1>1. had_error \in BOOLEAN
  BY DEF IInv, Typed
<1>2. CASE BeginFunction
  <2>1. had_error' = had_error
    BY <1>2 DEF BeginFunction
  <2> QED
    BY <1>1, <1>2, <2>1, InsideFile, Zenon DEF BeginFunction
<1>3. CASE DefineStruct
  <2>1. had_error' = had_error
    BY <1>3 DEF DefineStruct
  <2> QED
    BY <1>1, <1>3, <2>1, InsideFile, Zenon DEF DefineStruct
<1>4. CASE EndFunction
  <2>1. had_error' = had_error
    BY <1>4 DEF EndFunction
  <2>2. frames' = frames \/ frames' = NextItem(frames)
    BY <1>4, Zenon DEF EndFunction
  <2> QED
    BY <1>1, <1>4, <2>1, <2>2, InsideFile, Zenon DEF EndFunction
<1>5. CASE BeginLambda
  <2>1. had_error' = had_error
    BY <1>5 DEF BeginLambda
  <2> QED
    BY <1>1, <1>5, <2>1, InsideFile, Zenon DEF BeginLambda
<1>6. CASE Refer
  <2>1. CASE \E u \in Functions : Undefined(u)
    <3>1. had_error' \in BOOLEAN
      BY <1>1, <2>1, ReportFacts, Zenon DEF Undefined
    <3> QED
      BY <2>1, <3>1, InsideFile, Zenon DEF Undefined
  <2>2. CASE \E u \in Functions : UseValue(u)
    <3>1. PICK u \in Functions : UseValue(u)
      BY <2>2
    <3>2. Report(Hidden(u, Resolve(u)), IsPrivate(Meaning(u, "fun"), "fun"))
      BY <3>1, Zenon DEF UseValue
    <3>3. had_error' \in BOOLEAN
      BY <1>1, <3>2, Zenon DEF Report
    <3> QED
      BY <3>1, <3>3, InsideFile, Zenon DEF UseValue
  <2>3. CASE \E u \in Functions : \E go \in BOOLEAN : BeginCall(u, go)
    <3>1. PICK u \in Functions, go \in BOOLEAN : BeginCall(u, go)
      BY <2>3
    <3>2. Report(Hidden(u, Resolve(u)), IsPrivate(Meaning(u, "fun"), "fun"))
      BY <3>1, Zenon DEF BeginCall
    <3>3. had_error' \in BOOLEAN
      BY <1>1, <3>2, Zenon DEF Report
    <3> QED
      BY <3>1, <3>3, InsideFile, Zenon DEF BeginCall, OpenCall
  <2>4. CASE \E go \in BOOLEAN : BeginValueCall(go)
    <3>1. had_error' = had_error
      BY <2>4, Zenon DEF BeginValueCall
    <3> QED
      BY <1>1, <2>4, <3>1, InsideFile, Zenon DEF BeginValueCall, OpenCall
  <2>5. CASE \E u \in Own("struct") \cup Foreign("struct") : Instantiate(u)
    <3>1. PICK u \in Own("struct") \cup Foreign("struct") : Instantiate(u)
      BY <2>5
    <3>2. \E errors : Report(errors, IsPrivate(Meaning(u, "struct"), "struct"))
      BY <3>1, Zenon DEF Instantiate
    <3>3. had_error' \in BOOLEAN
      BY <1>1, <3>2, Zenon DEF Report
    <3> QED
      BY <3>1, <3>3, InsideFile, Zenon DEF Instantiate
  <2> QED
    BY <1>6, <2>1, <2>2, <2>3, <2>4, <2>5, Zenon DEF Refer
<1>7. CASE EndCall
  <2>1. had_error' \in BOOLEAN
    BY <1>1, <1>7, ReportFacts, Zenon DEF EndCall
  <2> QED
    BY <1>7, <2>1, InsideFile, Zenon DEF EndCall
<1>8. CASE Mistake
  <2>1. had_error' \in BOOLEAN
    BY <1>1, <1>8, ReportFacts, Zenon DEF Mistake
  <2> QED
    BY <1>8, <2>1, InsideFile, Zenon DEF Mistake
<1>9. CASE Finish
  <2>1. had_error' = had_error
    BY <1>9 DEF Finish
  <2> QED
    BY <1>1, <1>9, <2>1, InsideFile, Zenon DEF Finish
<1>10. CASE BeginGo \/ EndGo
  <2>1. had_error' = had_error
    BY <1>10 DEF BeginGo, EndGo
  <2> QED
    BY <1>1, <1>10, <2>1, InsideFile, Zenon DEF BeginGo, EndGo
<1> QED
  BY <1>2, <1>3, <1>4, <1>5, <1>6, <1>7, <1>8, <1>9, <1>10, Zenon

LEMMA NextIInv == IInv /\ [Next]_vars => IInv'
<1> SUFFICES ASSUME IInv, [Next]_vars PROVE IInv'
  OBVIOUS
<1>1. CASE \/ BeginFunction \/ DefineStruct \/ EndFunction \/ BeginLambda
           \/ BeginGo \/ EndGo \/ Refer \/ EndCall \/ Mistake \/ Finish
  BY <1>1, InsideSteps, Zenon
<1>2. CASE RefuseImport
  BY <1>2, RefuseImportStep
<1>3. CASE FailImport
  BY <1>3, FailImportStep
<1>4. CASE BeginImport
  BY <1>4, BeginImportStep
<1>5. CASE EndImport
  BY <1>5, EndImportStep
<1>6. CASE Finished \/ UNCHANGED vars
  <2>1. /\ text' = text /\ frames' = frames /\ had_error' = had_error
        /\ compilation_stack' = compilation_stack
        /\ compiled_modules' = compiled_modules
    BY <1>6 DEF Finished, vars
  <2>2. had_error \in BOOLEAN
    BY DEF IInv, Typed
  <2> QED
    BY <2>1, <2>2, InsideFile, Zenon
<1> QED
  BY <1>1, <1>2, <1>3, <1>4, <1>5, <1>6, Zenon DEF Next

LEMMA ImportInvariant == Spec => []IInv
<1> QED
  BY InitIInv, NextIInv, PTL DEF Spec

\* No file that is imported is compiled inside of itself, whatever imports
\* whatever, and whatever imports failed before: handle_import cannot recurse
\* for ever.
THEOREM NoFileInsideItself == Spec => []NoImportInsideItself
<1>1. IInv => NoImportInsideItself
  BY DEF IInv
<1> QED
  BY <1>1, ImportInvariant, PTL

\* handle_import never writes past compilation_stack nor past
\* compiled_modules, whose entries nothing takes away.
THEOREM ImportTablesFit == Spec => []TablesFit
<1>1. IInv => TablesFit
  BY DEF IInv
<1> QED
  BY <1>1, ImportInvariant, PTL
=============================================================================
