----------------------------- MODULE OpoModules -----------------------------
(***************************************************************************)
(* How the compiler of src/src/compiler.c goes through the files of a      *)
(* program: it predeclares the functions and structs of a file, compiles   *)
(* its items in order, imports files in the middle of others, and emits    *)
(* calls of functions whose address it may not know yet.                   *)
(*                                                                         *)
(* A file is the sequence of its items.  The body of a function is not in  *)
(* it, since predeclaration skips bodies: whatever its file may refer to   *)
(* may come next in it.  One instruction takes one place of the code, and  *)
(* addresses count from 1.  The field means of an instruction is what the  *)
(* programmer referred to, and go whether as the call that a go statement  *)
(* is to start, which is the last one of its expression; the compiler sees *)
(* neither.                                                                *)
(***************************************************************************)
EXTENDS Integers, FiniteSets, SequencesExt

CONSTANTS
    Texts,          \* the programs: functions from files to sequences of items
    Main,           \* the file the compiler is given
    Unreadable,     \* imported files that cannot be read
    Natives,        \* the names of the natives
    MaxModules,     \* the size of compiled_modules, 64
    MaxPatches,     \* the size of pending_call_patches, 64
    MaxUses,        \* bound on the references in a program
    Features        \* see AllFeatures

AllFeatures == {
    "forward_value",    \* functions that come later are started by go, or used
                        \* as values
    "go_inner"}         \* calls and functions without a name inside of the
                        \* expression of a go statement: what it calls may be
                        \* the result of a call, and so may the arguments

NULL == "NULL"          \* the prefix of Main
Unknown == -1           \* the address of a function not compiled yet
NativeIndex == -1       \* what a name of a native resolves to
ValueIndex == -2        \* the callee of a call of a function value
NativeFile == "natives"
Nothing == [file |-> NULL, name |-> NULL]

Files == UNION {DOMAIN t : t \in Texts}
Label(item) == IF item.kind = "imp" THEN item.alias ELSE item.name

ASSUME ModulesAssumption ==
    /\ \A t \in Texts : Main \in DOMAIN t
    /\ \A t \in Texts : \A f \in DOMAIN t :
        /\ t[f] \in Seq(ToSet(t[f]))
        /\ \A i \in DOMAIN t[f] :
            \/ t[f][i].kind = "fun" /\ {t[f][i].public, t[f][i].typed} \subseteq BOOLEAN
            \/ t[f][i].kind = "struct" /\ t[f][i].public \in BOOLEAN
            \/ t[f][i].kind = "imp" /\ t[f][i].file \in DOMAIN t /\ t[f][i].alias # NULL
        /\ \A i, j \in DOMAIN t[f] : Label(t[f][i]) = Label(t[f][j]) => i = j
    /\ NativeFile \notin Files /\ NULL \notin Files
    /\ MaxModules \in Nat /\ MaxPatches \in Nat /\ MaxUses \in Nat
    /\ Features \subseteq AllFeatures

VARIABLES
    text,               \* the program
    frames,             \* the files being compiled, each with the alias of its
                        \* import, its next item and the had_error it was saved with
    open,               \* the function bodies, calls and go statements being
                        \* compiled
    functions, structs, \* the tables of CompilerState
    code,               \* the chunk
    compilation_stack, compiled_modules,
    had_error,          \* of parser; panic_mode has the same value
    is_go,
    mistakes,           \* history: the aliases (NULL for Main) of the files with
                        \* something in them that the compiler must reject
    result              \* of compiler_compile: "none" yet, "chunk", or "null"

vars == <<text, frames, open, functions, structs, code, compilation_stack,
          compiled_modules, had_error, is_go, mistakes, result>>

-----------------------------------------------------------------------------
(* The text of a program *)

Module == Last(frames)
Items == text[Module.file]
Item == Items[Module.next]

Named(file, k) == {i \in DOMAIN text[file] : text[file][i].kind = k}

\* the place of what m names in its file
Place(m, k) == CHOOSE i \in Named(m.file, k) : text[m.file][i].name = m.name

\* the imports that the running file has reached
Imports == {i \in Named(Module.file, "imp") : i < Module.next}
Imported(alias) == Items[CHOOSE i \in Imports : Items[i].alias = alias].file

\* What the running file may refer to: its own items by their names, those of
\* the files it imports by alias and name
Own(k) == {[prefix |-> NULL, name |-> Items[i].name] : i \in Named(Module.file, k)}
Foreign(k) ==
    UNION {{[prefix |-> Items[i].alias, name |-> text[Items[i].file][j].name] :
                j \in Named(Items[i].file, k)} : i \in Imports}
Functions ==
    Own("fun") \cup Foreign("fun") \cup {[prefix |-> NULL, name |-> n] : n \in Natives}

\* ... and what it means by that
Meaning(u, k) ==
    [file |-> IF u.prefix # NULL THEN Imported(u.prefix)
              ELSE IF u \in Own(k) THEN Module.file ELSE NativeFile,
     name |-> u.name]

IsPrivate(m, k) ==
    /\ m.file \notin {Module.file, NativeFile}
    /\ ~text[m.file][Place(m, k)].public

\* an inferred return type is known when the function has been compiled
IsUntyped(m) ==
    /\ m.file = Module.file
    /\ LET i == Place(m, "fun") IN ~Items[i].typed /\ i >= Module.next

-----------------------------------------------------------------------------
(* The tables and the code *)

\* find_function, and the same loop over structs: the first of that name, or 0
Find(table, name) == SelectInSeq(table, LAMBDA e : e.name = name)

DeclareFunction(table, item, prefix) ==
    LET name == [prefix |-> prefix, name |-> item.name]
        i == Find(table, name)
    IN  IF i = 0
        THEN Append(table, [name |-> name, addr |-> Unknown, public |-> item.public,
                            known |-> item.typed, pending |-> <<>>])
        ELSE [table EXCEPT ![i].public = item.public, ![i].known = item.typed]

DeclareStruct(table, item, prefix) ==
    LET name == [prefix |-> prefix, name |-> item.name]
    IN  IF Find(table, name) = 0
        THEN Append(table, [name |-> name, fields |-> 0, public |-> item.public])
        ELSE table

\* an item of a file; bodies, which nothing here shows, are skipped
DeclareItem(tables, item, prefix) ==
    CASE item.kind = "fun" ->
            [tables EXCEPT !.functions = DeclareFunction(@, item, prefix)]
      [] item.kind = "struct" ->
            [tables EXCEPT !.structs = DeclareStruct(@, item, prefix)]
      [] item.kind = "imp" -> tables

\* predeclare_module_functions
Predeclared(tables, items, prefix) ==
    FoldLeft(LAMBDA ts, item : DeclareItem(ts, item, prefix), tables, items)

Predeclare(items, prefix) ==
    LET tables == Predeclared([functions |-> functions, structs |-> structs], items, prefix)
    IN  functions' = tables.functions /\ structs' = tables.structs

Instruction(op, addr, means, go) == [op |-> op, addr |-> addr, means |-> means, go |-> go]
Plain(op, addr) == Instruction(op, addr, Nothing, FALSE)

\* patch_int32 at each of the places
Patch(chunk, places, addr) ==
    [i \in DOMAIN chunk |->
        IF i \in places THEN [chunk[i] EXCEPT !.addr = addr] ELSE chunk[i]]

\* error_at
Report(errors, wrong) ==
    /\ had_error' = (had_error \/ errors)
    /\ mistakes' = IF wrong THEN mistakes \cup {Module.prefix} ELSE mistakes

-----------------------------------------------------------------------------
(* Items *)

Running == result = "none"
AtItem(k) ==
    /\ Running
    /\ open = <<>>
    /\ Module.next \in DOMAIN Items
    /\ Item.kind = k

NextItem(fs) == [fs EXCEPT ![Len(fs)].next = @ + 1]

\* compiler_compile up to compile_internal
Init ==
    /\ text \in Texts
    /\ frames = <<[file |-> Main, prefix |-> NULL, next |-> 1, saved |-> FALSE]>>
    /\ open = <<>>
    /\ LET tables ==
            Predeclared([functions |-> <<>>, structs |-> <<>>], text[Main], NULL)
       IN  functions = tables.functions /\ structs = tables.structs
    /\ code = <<>>
    /\ compilation_stack = <<>>
    /\ compiled_modules = 0
    /\ had_error = FALSE
    /\ is_go = FALSE
    /\ mistakes = {}
    /\ result = "none"

\* a function's name and parameters: its address is known now, and the calls
\* emitted before are patched
BeginFunction ==
    /\ AtItem("fun")
    /\ LET table == DeclareFunction(functions, Item, Module.prefix)
           i == Find(table, [prefix |-> Module.prefix, name |-> Item.name])
           addr == Len(code) + 2
       IN  /\ functions' = [table EXCEPT ![i].addr = addr, ![i].pending = <<>>]
           /\ code' = Patch(code, ToSet(table[i].pending), addr)
                        \o <<Plain("jump", Unknown),
                             Instruction("entry", addr,
                                 [file |-> Module.file, name |-> Item.name], FALSE)>>
           /\ open' = <<[kind |-> "body", func |-> i, jump |-> Len(code) + 1]>>
    /\ UNCHANGED <<text, frames, structs, compilation_stack, compiled_modules,
                   had_error, is_go, mistakes, result>>

DefineStruct ==
    /\ AtItem("struct")
    /\ structs' = Append(structs,
            [name |-> [prefix |-> Module.prefix, name |-> Item.name],
             fields |-> Item.fields, public |-> Item.public])
    /\ frames' = NextItem(frames)
    /\ UNCHANGED <<text, open, functions, code, compilation_stack, compiled_modules,
                   had_error, is_go, mistakes, result>>

-----------------------------------------------------------------------------
(* Imports: the alternatives of handle_import *)

IsCircular_Importer == compilation_stack # <<>> /\ Last(compilation_stack) = Item.file
IsCircular == Contains(compilation_stack, Item.file)
IsTooMany_OffByOne == ~IsCircular /\ compiled_modules > MaxModules
IsTooMany == ~IsCircular /\ compiled_modules >= MaxModules
BeingCompiled == {frames[i].file : i \in 2 .. Len(frames)}

\* circular, or the table of modules is full
RefuseImport ==
    /\ AtItem("imp")
    /\ IsCircular \/ IsTooMany
    /\ Report(TRUE, Item.file \in BeingCompiled \/ compiled_modules >= MaxModules)
    /\ frames' = NextItem(frames)
    /\ UNCHANGED <<text, open, functions, structs, code, compilation_stack,
                   compiled_modules, is_go, result>>

PushModule ==
    /\ ~IsCircular /\ ~IsTooMany
    /\ compiled_modules' = compiled_modules + 1
    /\ compilation_stack' = Append(compilation_stack, Item.file)

FailImport ==
    /\ AtItem("imp")
    /\ Item.file \in Unreadable
    /\ PushModule
    /\ Report(TRUE, TRUE)
    /\ frames' = NextItem(frames)
    /\ UNCHANGED <<text, open, functions, structs, code, is_go, result>>

BeginImport_SavesReset ==
    /\ AtItem("imp")
    /\ Item.file \notin Unreadable
    /\ PushModule
    /\ Predeclare(text[Item.file], Item.alias)
    /\ frames' = Append(frames, [file |-> Item.file, prefix |-> Item.alias,
                                 next |-> 1, saved |-> FALSE])
    /\ UNCHANGED <<text, open, code, had_error, is_go, mistakes, result>>

BeginImport ==
    /\ AtItem("imp")
    /\ Item.file \notin Unreadable
    /\ PushModule
    /\ Predeclare(text[Item.file], Item.alias)
    /\ frames' = Append(frames, [file |-> Item.file, prefix |-> Item.alias,
                                 next |-> 1, saved |-> had_error])
    /\ UNCHANGED <<text, open, code, had_error, is_go, mistakes, result>>

EndImport_KeepsStack ==
    /\ Running
    /\ Len(frames) > 1
    /\ Module.next = Len(Items) + 1
    /\ frames' = NextItem(Front(frames))
    /\ had_error' = Module.saved
    /\ UNCHANGED <<text, open, functions, structs, code, compilation_stack,
                   compiled_modules, is_go, mistakes, result>>

EndImport ==
    /\ Running
    /\ Len(frames) > 1
    /\ Module.next = Len(Items) + 1
    /\ frames' = NextItem(Front(frames))
    /\ had_error' = Module.saved
    /\ compilation_stack' = Front(compilation_stack)
    /\ UNCHANGED <<text, open, functions, structs, code, compiled_modules, is_go,
                   mistakes, result>>

-----------------------------------------------------------------------------
(* Bodies *)

UseOps == {"call", "go", "value", "native", "invoke", "struct"}
Uses == Cardinality({i \in DOMAIN code : code[i].op \in UseOps})
InBody ==
    /\ Running
    /\ open # <<>>
    /\ Uses + Len(open) <= MaxUses

\* the expression of a go statement is being compiled, and the call that it is
\* to start has been: nothing more comes in it
InGo == \E j \in DOMAIN open : open[j].kind = "go"
Started ==
    LET go == Last(open)
    IN  go.kind = "go" /\ Len(code) > go.begun /\ Last(code).go

\* a go statement with calls in it starts the last one
MayEndGo ==
    \/ Started
    \/ \A i \in DOMAIN code : i > Last(open).begun => code[i].op # "go"

\* The order in which variable() looks a name up: natives, then functions by the
\* name as it is written, then with the prefix of the file being compiled
Resolve(u) ==
    LET plain == Find(functions, u)
    IN  IF u.prefix # NULL THEN plain
        ELSE IF u.name \in Natives THEN NativeIndex
        ELSE IF plain = 0 /\ Module.prefix # NULL
        THEN Find(functions, [u EXCEPT !.prefix = Module.prefix])
        ELSE plain

IsFunction(i) == i \in DOMAIN functions

\* only names with a prefix are tested for pub
Hidden(u, i) == u.prefix # NULL /\ IsFunction(i) /\ ~functions[i].public

\* emit_push_func takes the address as it is
MayPush(i) ==
    \/ "forward_value" \in Features
    \/ IsFunction(i) => functions[i].addr # Unknown

\* a name that resolves to nothing
Undefined(u) ==
    /\ Resolve(u) = 0
    /\ Report(TRUE, FALSE)
    /\ UNCHANGED <<text, frames, open, functions, structs, code, compilation_stack,
                   compiled_modules, is_go, result>>

\* the expression of a go statement is compiled with is_go set
BeginGo ==
    /\ InBody
    /\ Last(open).kind = "body"
    /\ "go_inner" \in Features \/ ~InGo
    /\ is_go' = TRUE
    /\ open' = Append(open, [kind |-> "go", begun |-> Len(code)])
    /\ UNCHANGED <<text, frames, functions, structs, code, compilation_stack,
                   compiled_modules, had_error, mistakes, result>>

EndGo_StaysSet ==
    /\ Running
    /\ open # <<>>
    /\ Last(open).kind = "go"
    /\ MayEndGo
    /\ open' = Front(open)
    /\ UNCHANGED <<text, frames, functions, structs, code, compilation_stack,
                   compiled_modules, had_error, is_go, mistakes, result>>

\* is_go is not put back but reset, also behind a go statement inside of another
EndGo ==
    /\ Running
    /\ open # <<>>
    /\ Last(open).kind = "go"
    /\ MayEndGo
    /\ is_go' = FALSE
    /\ open' = Front(open)
    /\ UNCHANGED <<text, frames, functions, structs, code, compilation_stack,
                   compiled_modules, had_error, mistakes, result>>

\* from a name, or a value, and its parenthesis to the end of the arguments
OpenCall(i, means, go) ==
    /\ go => Last(open).kind = "go"
    /\ InGo => go \/ "go_inner" \in Features
    /\ is_go => MayPush(i)
    /\ open' = Append(open, [kind |-> "call", func |-> i, means |-> means, go |-> go])
    /\ UNCHANGED <<text, frames, functions, structs, code, compilation_stack,
                   compiled_modules, is_go, result>>

BeginCall(u, go) ==
    LET i == Resolve(u)
        m == Meaning(u, "fun")
    IN  /\ i # 0
        /\ OpenCall(i, m, go)
        /\ Report(Hidden(u, i), IsPrivate(m, "fun"))

\* the value of a local or of the expression in front is called
BeginValueCall(go) ==
    /\ OpenCall(ValueIndex, Nothing, go)
    /\ UNCHANGED <<had_error, mistakes>>

Remember_Once(i, place) ==
    functions' =
        IF functions[i].addr = Unknown /\ functions[i].pending = <<>>
        THEN [functions EXCEPT ![i].pending = <<place>>]
        ELSE functions

\* emit_direct_function_call remembers the call when the address is not known
\* and there is room
Remember(i, place) ==
    functions' =
        IF /\ functions[i].addr = Unknown
           /\ Len(functions[i].pending) < MaxPatches
        THEN [functions EXCEPT ![i].pending = Append(@, place)]
        ELSE functions

EndCall ==
    /\ Running
    /\ open # <<>>
    /\ Last(open).kind = "call"
    /\ LET call == Last(open)
           i == call.func
           addr == IF IsFunction(i) THEN functions[i].addr ELSE 0
           op == IF is_go THEN "go" ELSE IF IsFunction(i) THEN "call"
                 ELSE IF i = NativeIndex THEN "native" ELSE "invoke"
       IN  /\ code' = Append(code, Instruction(op, addr, call.means, call.go))
           /\ IF op = "call" THEN Remember(i, Len(code) + 1) ELSE UNCHANGED functions
           /\ Report(IsFunction(i) /\ ~functions[i].known,
                     IsFunction(i) /\ IsUntyped(call.means))
           /\ open' = Front(open)
    /\ UNCHANGED <<text, frames, structs, compilation_stack, compiled_modules, is_go,
                   result>>

\* a name without parenthesis
UseValue(u) ==
    LET i == Resolve(u)
        m == Meaning(u, "fun")
    IN  /\ i # 0
        /\ MayPush(i)
        /\ Report(Hidden(u, i), IsPrivate(m, "fun"))
        /\ code' = Append(code,
                IF IsFunction(i) THEN Instruction("value", functions[i].addr, m, FALSE)
                ELSE Instruction("native", 0, m, FALSE))
        /\ UNCHANGED <<text, frames, open, functions, structs, compilation_stack,
                       compiled_modules, is_go, result>>

ResolveStruct(u) ==
    LET plain == Find(structs, u)
    IN  IF plain = 0 /\ u.prefix = NULL /\ Module.prefix # NULL
        THEN Find(structs, [u EXCEPT !.prefix = Module.prefix]) ELSE plain

\* a struct is instantiated with as many values as it declares
Instantiate(u) ==
    LET i == ResolveStruct(u)
        m == Meaning(u, "struct")
    IN  /\ Report(\/ i = 0
                  \/ u.prefix # NULL /\ ~structs[i].public
                  \/ structs[i].fields # text[m.file][Place(m, "struct")].fields,
                  IsPrivate(m, "struct"))
        /\ code' = IF i = 0 THEN code ELSE Append(code, Plain("struct", 0))
        /\ UNCHANGED <<text, frames, open, functions, structs, compilation_stack,
                       compiled_modules, is_go, result>>

\* a function without a name
BeginLambda ==
    /\ InBody
    /\ ~Started
    /\ "go_inner" \in Features \/ ~InGo
    /\ code' = code \o <<Plain("jump", Unknown), Plain("entry", Len(code) + 2)>>
    /\ open' = Append(open, [kind |-> "body", func |-> 0, jump |-> Len(code) + 1])
    /\ UNCHANGED <<text, frames, functions, structs, compilation_stack,
                   compiled_modules, had_error, is_go, mistakes, result>>

\* the end of a body: OP_RET, the jump over the function, the return type, and
\* the value of a function without a name
EndFunction ==
    /\ Running
    /\ open # <<>>
    /\ Last(open).kind = "body"
    /\ LET body == Last(open)
           closed == Patch(Append(code, Plain("ret", 0)), {body.jump}, Len(code) + 2)
       IN  IF body.func # 0
           THEN /\ code' = closed
                /\ functions' = [functions EXCEPT ![body.func].known = TRUE]
                /\ frames' = NextItem(frames)
           ELSE /\ code' = Append(closed, Plain("value", body.jump + 1))
                /\ UNCHANGED <<functions, frames>>
    /\ open' = Front(open)
    /\ UNCHANGED <<text, structs, compilation_stack, compiled_modules, had_error,
                   is_go, mistakes, result>>

\* anything else that the parser reports in a file; where in an item makes no
\* difference, had_error is read between items only
Mistake ==
    /\ Running
    /\ open = <<>>
    /\ Module.prefix \notin mistakes
    /\ Report(TRUE, TRUE)
    /\ UNCHANGED <<text, frames, open, functions, structs, code, compilation_stack,
                   compiled_modules, is_go, result>>

\* compiler_compile after compile_internal
Finish ==
    /\ Running
    /\ Len(frames) = 1
    /\ Module.next = Len(Items) + 1
    /\ LET i == Find(functions, [prefix |-> NULL, name |-> "main"])
       IN  code' = code
                \o (IF i = 0 THEN <<>> ELSE
                      <<Instruction("call", functions[i].addr,
                                    [file |-> Main, name |-> "main"], FALSE)>>)
                \o <<Plain("halt", 0)>>
    /\ result' = IF had_error THEN "null" ELSE "chunk"
    /\ UNCHANGED <<text, frames, open, functions, structs, compilation_stack,
                   compiled_modules, had_error, is_go, mistakes>>

Finished == ~Running /\ UNCHANGED vars

Refer ==
    /\ InBody
    /\ ~Started
    /\ \/ \E u \in Functions :
            \/ Undefined(u) \/ UseValue(u)
            \/ \E go \in BOOLEAN : BeginCall(u, go)
       \/ \E go \in BOOLEAN : BeginValueCall(go)
       \/ \E u \in Own("struct") \cup Foreign("struct") : Instantiate(u)

Next ==
    \/ BeginFunction \/ DefineStruct \/ EndFunction \/ BeginLambda \/ BeginGo \/ EndGo
    \/ RefuseImport \/ FailImport \/ BeginImport \/ EndImport
    \/ Refer \/ EndCall \/ Mistake \/ Finish \/ Finished

Spec == Init /\ [][Next]_vars

-----------------------------------------------------------------------------
(* Properties *)

\* compilation_stack and compiled_modules stay in their arrays
TablesFit ==
    /\ Len(compilation_stack) <= compiled_modules
    /\ compiled_modules <= MaxModules

TypeOK ==
    /\ text \in Texts
    /\ \A i \in DOMAIN frames :
        /\ frames[i].file \in DOMAIN text
        /\ frames[i].next \in 1 .. Len(text[frames[i].file]) + 1
        /\ frames[i].saved \in BOOLEAN
    /\ \A i \in DOMAIN open :
        \/ open[i].kind = "body" /\ open[i].func \in {0} \cup DOMAIN functions
                                /\ open[i].jump \in DOMAIN code
        \/ open[i].kind = "go" /\ open[i].begun \in DOMAIN code
        \/ open[i].kind = "call" /\ open[i].go \in BOOLEAN
            /\ open[i].func \in {NativeIndex, ValueIndex} \cup DOMAIN functions
    /\ \A i \in DOMAIN functions :
        /\ functions[i].addr \in {Unknown} \cup DOMAIN code
        /\ functions[i].public \in BOOLEAN /\ functions[i].known \in BOOLEAN
        /\ ToSet(functions[i].pending) \subseteq DOMAIN code
        /\ Len(functions[i].pending) <= MaxPatches
    /\ TablesFit
    /\ had_error \in BOOLEAN /\ is_go \in BOOLEAN
    /\ result \in {"none", "chunk", "null"}

\* In a program that was accepted every reference to a function goes to the
\* function that its author meant, as he meant it: calls that were emitted
\* before the function was compiled, calls of functions in other files, and
\* the call of a go statement and no other is run by a goroutine of its own.
CallsReach ==
    result = "chunk" => \A i \in DOMAIN code :
        LET c == code[i]
        IN  /\ (c.op = "go") = c.go
            /\ c.means \notin {Nothing} /\ c.op # "entry" =>
                IF c.means.file = NativeFile THEN c.addr = 0
                ELSE /\ c.addr \in DOMAIN code
                     /\ code[c.addr].op = "entry"
                     /\ code[c.addr].means = c.means

\* At any time, a call without an address is remembered by a function that
\* will be compiled and patch it.
NoCallForgotten ==
    \A i \in DOMAIN code : code[i].op = "call" /\ code[i].addr = Unknown =>
        \E f \in DOMAIN functions : /\ functions[f].addr = Unknown
                                    /\ functions[f].name.name = code[i].means.name
                                    /\ Contains(functions[f].pending, i)

\* No imported file is compiled inside of itself: its circular imports are
\* refused, also after imports that failed.  The file that the compiler is given
\* is never on compilation_stack, and may be imported once by what it imports.
NoImportInsideItself ==
    \A i, j \in 2 .. Len(frames) : frames[i].file = frames[j].file => i = j

\* No file at all is.
NoReentry == \A i, j \in DOMAIN frames : frames[i].file = frames[j].file => i = j

\* A program is refused only if there is something wrong with it.
Accepted == result = "null" => mistakes # {}

\* What is wrong in the file that the compiler is given is not forgotten while
\* it compiles others.
OwnMistakesRejected == result = "chunk" => NULL \notin mistakes

\* ... nor what is wrong in an imported file.
MistakesRejected == result = "chunk" => mistakes = {}
=============================================================================
