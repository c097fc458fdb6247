----------------------------- MODULE OpoScopes ------------------------------
(***************************************************************************)
(* How the compiler (src/src/compiler.c) finds the variable that a name    *)
(* stands for, and the loop that a jump leaves, inside of function bodies: *)
(* one array of locals and one pointer to the innermost loop for all the   *)
(* functions under way, while functions, loops, branches, matches, try     *)
(* blocks and calls nest in any way.                                       *)
(*                                                                         *)
(* A behaviour is the compilation of one program, construct by construct.  *)
(* Any text the grammar allows may come next.  open is what has been       *)
(* opened and not closed: each element has the C variables that the        *)
(* compiler keeps meanwhile (keep, local, was, exits), and what the text   *)
(* says without the compiler: the variables declared in that block         *)
(* (names), what it tests (tests, finds) and which loops its jumps mean    *)
(* (the elements of exits and again).  mistaken says whether the text has  *)
(* broken a rule of docs/02-language.  The properties compare the two.     *)
(***************************************************************************)
EXTENDS Integers, FiniteSets, SequencesExt

CONSTANTS
    Names,          \* of variables
    NoName,
    MAX_LOCALS,     \* size of the array locals, 256
    MAX_BREAKS,     \* size of end_jump_patches, 64
    Earlier,        \* what functions compiled before may leave in locals
    Programs,       \* what the programs of a behaviour may contain: features and types
    MaxOpen,        \* bound on Len(open)
    MaxList         \* bound on captures and on parameters of a function

AllFeatures == {
    "nested_names",     \* a nested function declares names after the one around it
    "nested_jump",      \* . or .. in a nested function, for a loop around it
    "shadow_function",  \* a function is named like a variable of an outer block
    "catch_declares",   \* a catch block declares variables
    "call_declares",    \* the arguments of a computed call declare variables
    "call_names",       \* the arguments of a computed call use variables
    "past_name",        \* a name is used after the block that declared it
    "retyped",          \* a name gets another type after the block that declared it
    "redeclared",       \* a declaration of a variable that exists gives another type
    "assigned_option"}  \* an option is unwrapped in a test of it, but reassigned before

\* kinds of types: of functions, of options, and the type any
Types == {"fun", "opt", "any"}
Variants == {"none", "some"}
NoSlot == -1

Entries == [name : Names \cup {NoName}, type : Types, guard : Variants \cup {"no"}]
Unwritten == [name |-> NoName, type |-> "any", guard |-> "no"]

Slots == 0 .. MAX_LOCALS - 1

ASSUME ScopesAssumption ==
    /\ IsFiniteSet(Names) /\ NoName \notin Names
    /\ MAX_LOCALS \in Nat \ {0} /\ MAX_BREAKS \in Nat
    /\ Earlier \subseteq [Slots -> Entries]
    /\ Programs \subseteq [features : SUBSET AllFeatures, types : SUBSET Types]
    /\ MaxOpen \in Nat \ {0} /\ MaxList \in Nat

VARIABLES
    locals, local_count,
    current_loop,   \* the element of open whose loop it points to, or 0
    open,           \* what is under way, outermost first
    error,          \* the message that ends the compilation, or "none"
    mistaken,       \* the text breaks a rule of the language
    program         \* one of Programs

vars == <<locals, local_count, current_loop, open, error, mistaken, program>>
features == program.features

-----------------------------------------------------------------------------
(* The text, without the compiler *)

NothingDeclared == [x \in {} |-> <<>>]

Construct(kind) ==
    [kind |-> kind,
     names |-> NothingDeclared, \* variables declared in this block
     past |-> {},               \* of a function: names of blocks that ended, with types
     tests |-> <<>>, finds |-> "no",  \* the variable tested, and what it was found to be
     keep |-> 0,                \* old_local_count, loop.next or tmp_func_local
     local |-> NoSlot, was |-> "no",  \* cond_local or matched_local, old_variant
     exits |-> <<>>,            \* end_jump_patches, as the loops meant
     again |-> {}]              \* the same of the jumps to start_addr

Blocks == {"function", "then", "else", "loop", "arm", "try", "catch"}
LastOf(s, K) == SelectLastInSeq(s, LAMBDA c : c.kind \in K)

\* the function that is being compiled, and the innermost block
FunctionOf(s) == LastOf(s, {"function"})
Block(s) == LastOf(s, Blocks)
Running == FunctionOf(open)

InArguments == Last(open).kind = "call"

\* the blocks of the running function that declare x; the innermost one counts
Declaring(x) == {i \in Running .. Len(open) : x \in DOMAIN open[i].names}
Visible(x) == Declaring(x) # {}
Declared(x) == Max(Declaring(x))
Variable(x) == open[Declared(x)].names[x]

\* the tests of x around here, and what the innermost one says of it
Tests(x) == {i \in Running .. Len(open) : open[i].tests = <<Declared(x), x>>}
Found(x) == IF Tests(x) = {} THEN "no" ELSE open[Max(Tests(x))].finds

\* nothing but a value of the declared type may be stored
\* (docs/02-language/variables.md)
Accepts(declared, value) == declared = "any" \/ declared = value

\* the innermost loop of this function, 0 when there is none
MeantLoop ==
    LET i == LastOf(open, {"loop"}) IN IF i > Running THEN i ELSE 0

Variables(x, slot, type) == [n \in {x} |-> [slot |-> slot, type |-> type]]

\* s with new variables in block i
Declare(s, i, new) ==
    [s EXCEPT ![i].names = [n \in DOMAIN @ \cup DOMAIN new |->
                               IF n \in DOMAIN new THEN new[n] ELSE @[n]]]

\* open, with a value stored in x: earlier tests say nothing any more
Stored(x) ==
    [i \in 1 .. Len(open) |->
        IF i \in Tests(x) THEN [open[i] EXCEPT !.finds = "assigned"] ELSE open[i]]

\* open without its last block, whose names are past for the function
Closed ==
    LET b == Last(open)
        ended == {<<x, b.names[x].type>> : x \in DOMAIN b.names}
    IN [Front(open) EXCEPT ![Running].past = @ \cup ended]

\* the first n of s have declared nothing so far
Bare(s, n) == \A i \in 1 .. n : s[i].names = NothingDeclared /\ s[i].past = {}

\* programs that may declare a variable where s is open: in a nested function,
\* and among what ends by counting local_count down
MayNest(s) == Bare(s, FunctionOf(s) - 1) \/ "nested_names" \in features
MayDeclare(s) ==
    LET holder == s[LastOf(s, {"function", "arm", "catch", "call"})].kind
    IN /\ MayNest(s)
       /\ holder = "catch" => "catch_declares" \in features
       /\ holder = "call" => "call_declares" \in features

\* programs that may mention x here
MayMention(x) ==
    /\ InArguments => "call_names" \in features
    /\ ~Visible(x) /\ (\E t \in Types : <<x, t>> \in open[Running].past)
          => "past_name" \in features

-----------------------------------------------------------------------------
(* The compiler's table of locals *)

resolve_local(x) ==
    LET S == {i \in 0 .. local_count - 1 : locals[i].name = x}
    IN IF S = {} THEN NoSlot ELSE Max(S)

Local(x, t) == [name |-> x, type |-> t, guard |-> "no"]

Full == local_count = MAX_LOCALS

add_local(x, t) ==
    /\ locals' = [locals EXCEPT ![local_count] = Local(x, t)]
    /\ local_count' = local_count + 1

is_assignable(expected, actual) == expected = "any" \/ expected = actual

Going == error = "none" /\ ~mistaken
Open == Len(open) < MaxOpen

Judge(message, wrong) == error' = message /\ mistaken' = wrong

\* An expression that declares nothing: with an error of it or in it the
\* compilation ends, and the compiler's state is freed.
Check(message, wrong) ==
    /\ Judge(message, wrong)
    /\ program' = program
    /\ IF message = "none" /\ ~wrong
         THEN UNCHANGED <<locals, local_count, current_loop, open>>
         ELSE /\ locals' = [i \in Slots |-> Unwritten]
              /\ local_count' = 0
              /\ current_loop' = 0
              /\ open' = <<>>

\* a function without captures, at the level of a file
Init ==
    /\ locals \in Earlier
    /\ local_count = 0
    /\ current_loop = 0
    /\ open = <<Construct("function")>>
    /\ error = "none"
    /\ mistaken = FALSE
    /\ program \in Programs

-----------------------------------------------------------------------------
(* Names in expressions *)

\* variable(): a name is read, or called
Use(x, called) ==
    LET i == resolve_local(x)
    IN /\ Going
       /\ MayMention(x)
       /\ Check(IF i = NoSlot THEN "undefined"
               ELSE IF called /\ locals[i].type # "fun" THEN "not_function"
               ELSE "none",
               ~Visible(x) \/ (called /\ Variable(x).type # "fun"))

\* dot(): x.some
Unwrap(x) ==
    LET i == resolve_local(x)
    IN /\ Going
       /\ MayMention(x)
       /\ Visible(x) /\ Found(x) = "assigned" => "assigned_option" \in features
       /\ Check(IF i = NoSlot THEN "undefined"
               ELSE IF locals[i].type # "opt" THEN "unknown_member"
               ELSE IF locals[i].guard # "some" THEN "unsafe_unwrap"
               ELSE "none",
               ~Visible(x) \/ Variable(x).type # "opt" \/ Found(x) # "some")

\* assignment(), of a value of type t; declared is the type written after the
\* name, or "no".  The text means the variable that is visible here, or else
\* declares one in this block.
Assign(x, t, declared) ==
    LET i == resolve_local(x)
        type == IF declared = "no" THEN t ELSE declared
        fits == IF declared # "no" THEN is_assignable(declared, t)
                ELSE i # NoSlot => is_assignable(locals[i].type, t)
        new == Variables(x, IF i = NoSlot THEN local_count ELSE i, type)
        wrong == IF Visible(x) THEN ~Accepts(Variable(x).type, t) \/ ~Accepts(type, t)
                 ELSE ~Accepts(type, t)
    IN /\ Going
       /\ InArguments => "call_names" \in features
       /\ Visible(x) /\ declared # "no" /\ declared # Variable(x).type
             => "redeclared" \in features
       /\ ~Visible(x) => MayDeclare(open)
       /\ ~Visible(x) /\ (\E u \in Types \ {type} : <<x, u>> \in open[Running].past)
             => "retyped" \in features
       /\ IF ~fits THEN Check("mismatch", wrong)
          ELSE IF i = NoSlot /\ Full THEN Check("too_many", wrong)
          ELSE /\ IF i = NoSlot THEN add_local(x, type)
                                ELSE UNCHANGED <<locals, local_count>>
               /\ open' = IF Visible(x) THEN Stored(x)
                          ELSE Declare(open, Block(open), new)
               /\ Judge("none", wrong)
               /\ UNCHANGED <<current_loop, program>>

-----------------------------------------------------------------------------
(* Calls and functions *)

\* call_expr(): a function that is not a local variable is put into the slot
\* behind the locals, whose entry is not written.  (Reading behind the end of
\* the array is left out.)
BeginCall ==
    /\ Going /\ Open
    /\ ~Full
    /\ open' = Append(open, [Construct("call") EXCEPT !.keep = local_count])
    /\ local_count' = local_count + 1
    /\ UNCHANGED <<locals, current_loop, error, mistaken, program>>

(* the slot stays in use *)
EndCall_KeepsSlot ==
    /\ Going
    /\ InArguments
    /\ open' = Front(open)
    /\ UNCHANGED <<locals, local_count, current_loop, error, mistaken, program>>

EndCall ==
    /\ Going
    /\ InArguments
    /\ open' = Front(open)
    /\ local_count' = local_count - 1
    /\ UNCHANGED <<locals, current_loop, error, mistaken, program>>

\* parse_function() up to the body: captures first, then parameters, from the
\* first entry of the table on
BeginFunction(captures, params) ==
    LET found == [i \in DOMAIN captures |-> resolve_local(captures[i])]
        entries == [i \in DOMAIN captures |-> Local(captures[i], locals[found[i]].type)]
                   \o [i \in DOMAIN params |-> Local(params[i].name, params[i].type)]
        invisible == \E i \in DOMAIN captures : ~Visible(captures[i])
        meant == [i \in DOMAIN captures |-> Variable(captures[i]).type]
                 \o [i \in DOMAIN params |-> params[i].type]
        name == captures \o [i \in DOMAIN params |-> params[i].name]
        at(x) == Max({i \in DOMAIN name : name[i] = x})
    IN /\ Going /\ Open
       /\ Len(name) <= MAX_LOCALS
       /\ \A i \in DOMAIN captures : MayMention(captures[i])
       /\ name # <<>> => Bare(open, Len(open)) \/ "nested_names" \in features
       /\ IF \E i \in DOMAIN captures : found[i] = NoSlot THEN Check("not_captured", invisible)
          ELSE IF invisible THEN Check("none", TRUE)
          ELSE /\ locals' = [i \in Slots |-> IF i < Len(entries) THEN entries[i + 1]
                                                                ELSE locals[i]]
               /\ local_count' = Len(entries)
               /\ open' = Append(open,
                    [Construct("function") EXCEPT
                        !.keep = local_count,
                        !.names = [x \in Range(name) |->
                                      [slot |-> at(x) - 1, type |-> meant[at(x)]]]])
               /\ UNCHANGED <<current_loop, error, mistaken, program>>

(* local_count stays that of the body *)
EndFunction_KeepsCount(name) ==
    /\ Going
    /\ Last(open).kind = "function" /\ Len(open) > 1
    /\ name = NoName
    /\ open' = Front(open)
    /\ UNCHANGED <<locals, local_count, current_loop, error, mistaken, program>>

\* parse_function() from the end of the body on: the function is a value, and
\* a new local variable of the function around it when it has a name
EndFunction(name) ==
    LET outer == Front(open)
        count == Last(open).keep
        hidden == {i \in FunctionOf(outer) .. Len(outer) : name \in DOMAIN outer[i].names}
    IN /\ Going
       /\ Last(open).kind = "function" /\ Len(open) > 1
       /\ IF name = NoName
            THEN /\ open' = outer
                 /\ local_count' = count
                 /\ UNCHANGED <<locals, current_loop, error, mistaken, program>>
            ELSE /\ MayDeclare(outer)
                 /\ hidden \subseteq {Block(outer)} \/ "shadow_function" \in features
                 /\ IF count = MAX_LOCALS
                      THEN Check("too_many", FALSE)
                      ELSE /\ locals' = [locals EXCEPT ![count] = Local(name, "fun")]
                           /\ local_count' = count + 1
                           /\ open' = Declare(outer, Block(outer),
                                              Variables(name, count, "fun"))
                           /\ UNCHANGED <<current_loop, error, mistaken, program>>

-----------------------------------------------------------------------------
(* Blocks *)

\* a statement starts that tests x, or something else than a variable (NoName)
MayTest(x) ==
    /\ Going /\ Open
    /\ ~InArguments
    /\ x = NoName \/ /\ Visible(x) /\ Variable(x).type = "opt"
                     /\ resolve_local(x) # NoSlot

\* c is a block in which the test found x to be as finds
Testing(c, x, finds) ==
    LET i == resolve_local(x)
    IN IF x = NoName THEN c
       ELSE [c EXCEPT !.local = i, !.was = locals[i].guard,
                      !.tests = <<Declared(x), x>>, !.finds = finds]

Guarded(x, finds) ==
    IF x = NoName THEN locals ELSE [locals EXCEPT ![resolve_local(x)].guard = finds]

(* the guard outlives the block *)
Unguarded_Never == locals

\* the guard of the variable that the last block tests is put back
Unguarded ==
    LET b == Last(open)
    IN IF b.local = NoSlot THEN locals ELSE [locals EXCEPT ![b.local].guard = b.was]

\* x ? [
EnterThen(x) ==
    /\ MayTest(x)
    /\ open' = Append(open, Testing(Construct("then"), x, "some"))
    /\ locals' = Guarded(x, "some")
    /\ UNCHANGED <<local_count, current_loop, error, mistaken, program>>

\* ] : [
EnterElse ==
    /\ Going
    /\ Last(open).kind = "then"
    /\ open' = Append(Closed, Construct("else"))
    /\ locals' = Unguarded
    /\ UNCHANGED <<local_count, current_loop, error, mistaken, program>>

\* ] of a branch
LeaveBranch ==
    /\ Going
    /\ Last(open).kind \in {"then", "else"}
    /\ open' = Closed
    /\ locals' = Unguarded
    /\ UNCHANGED <<local_count, current_loop, error, mistaken, program>>

(* a loop in a loop is not made the current one *)
EnterLoop_Outermost(x) ==
    /\ MayTest(x)
    /\ open' = Append(open, Testing([Construct("loop") EXCEPT !.keep = current_loop],
                                    x, "some"))
    /\ locals' = Guarded(x, "some")
    /\ current_loop' = IF current_loop = 0 THEN Len(open) + 1 ELSE current_loop
    /\ UNCHANGED <<local_count, error, mistaken, program>>

\* x @ [
EnterLoop(x) ==
    /\ MayTest(x)
    /\ open' = Append(open, Testing([Construct("loop") EXCEPT !.keep = current_loop],
                                    x, "some"))
    /\ locals' = Guarded(x, "some")
    /\ current_loop' = Len(open) + 1
    /\ UNCHANGED <<local_count, error, mistaken, program>>

(* current_loop still points to the loop *)
LeaveLoop_KeepsCurrent ==
    /\ Going
    /\ Last(open).kind = "loop"
    /\ open' = Closed
    /\ locals' = Unguarded
    /\ UNCHANGED <<local_count, current_loop, error, mistaken, program>>

\* the end of a loop, where end_jump_patches get their targets
LeaveLoop ==
    /\ Going
    /\ Last(open).kind = "loop"
    /\ open' = Closed
    /\ locals' = Unguarded
    /\ current_loop' = Last(open).keep
    /\ UNCHANGED <<local_count, error, mistaken, program>>

\* one arm of a match on x: some, whose binding of type t is a new local, or none
EnterArm(x, binding, t) ==
    LET variant == IF binding = NoName THEN "none" ELSE "some"
        c == Testing([Construct("arm") EXCEPT !.keep = local_count], x, variant)
    IN /\ MayTest(x)
       /\ IF binding = NoName
            THEN /\ open' = Append(open, c)
                 /\ locals' = Guarded(x, variant)
                 /\ UNCHANGED <<local_count, current_loop, error, mistaken, program>>
          ELSE /\ MayNest(open)
               /\ IF Full THEN Check("too_many", FALSE)
                  ELSE /\ open' = Append(open,
                            [c EXCEPT !.names = Variables(binding, local_count, t)])
                       /\ locals' = [Guarded(x, variant) EXCEPT
                                        ![local_count] = Local(binding, t)]
                       /\ local_count' = local_count + 1
                       /\ UNCHANGED <<current_loop, error, mistaken, program>>

LeaveArm ==
    /\ Going
    /\ Last(open).kind = "arm"
    /\ open' = Front(open)
    /\ locals' = Unguarded
    /\ local_count' = Last(open).keep
    /\ UNCHANGED <<current_loop, error, mistaken, program>>

EnterTry ==
    /\ MayTest(NoName)
    /\ open' = Append(open, Construct("try"))
    /\ UNCHANGED <<locals, local_count, current_loop, error, mistaken, program>>

\* the end of a try block, and the name of the error
EnterCatch(x) ==
    /\ Going
    /\ Last(open).kind = "try"
    /\ MayNest(open)
    /\ IF Full THEN Check("too_many", FALSE)
       ELSE /\ add_local(x, "any")
            /\ open' = Append(Closed, [Construct("catch") EXCEPT
                                          !.names = Variables(x, local_count, "any")])
            /\ UNCHANGED <<current_loop, error, mistaken, program>>

\* the newest local goes, which is the error unless the block has declared one
LeaveCatch ==
    /\ Going
    /\ Last(open).kind = "catch"
    /\ open' = IF "catch_declares" \in features THEN Closed ELSE Front(open)
    /\ local_count' = local_count - 1
    /\ UNCHANGED <<locals, current_loop, error, mistaken, program>>

\* break_op()
Break ==
    /\ Going
    /\ MeantLoop = 0 /\ current_loop # 0 => "nested_jump" \in features
    /\ IF current_loop = 0 THEN Check("no_loop", MeantLoop = 0)
       ELSE IF Len(open[current_loop].exits) >= MAX_BREAKS
         THEN Check("too_many", MeantLoop = 0)
       ELSE /\ open' = [open EXCEPT ![current_loop].exits = Append(@, MeantLoop)]
            /\ Judge("none", MeantLoop = 0)
            /\ UNCHANGED <<locals, local_count, current_loop, program>>

\* continue_op()
Continue ==
    /\ Going
    /\ MeantLoop = 0 /\ current_loop # 0 => "nested_jump" \in features
    /\ IF current_loop = 0 THEN Check("no_loop", MeantLoop = 0)
       ELSE /\ open' = [open EXCEPT ![current_loop].again = @ \cup {MeantLoop}]
            /\ Judge("none", MeantLoop = 0)
            /\ UNCHANGED <<locals, local_count, current_loop, program>>

\* compilation has ended, with the program or with an error
Ended ==
    /\ Going => Len(open) = 1
    /\ UNCHANGED vars

-----------------------------------------------------------------------------

Lists(S) == {s \in UNION {[1 .. n -> S] : n \in 0 .. MaxList} : IsInjective(s)}
Params ==
    {s \in Lists([name : Names, type : program.types]) :
        IsInjective([i \in DOMAIN s |-> s[i].name])}

Next ==
    \/ \E x \in Names :
          \/ \E called \in BOOLEAN : Use(x, called)
          \/ Unwrap(x)
          \/ \E t \in program.types, declared \in program.types \cup {"no"} :
                Assign(x, t, declared)
          \/ EnterCatch(x)
    \/ BeginCall \/ EndCall
    \/ \E captures \in Lists(Names), params \in Params : BeginFunction(captures, params)
    \/ \E x \in Names \cup {NoName} :
          \/ EndFunction(x)
          \/ EnterThen(x) \/ EnterLoop(x)
          \/ \E binding \in Names \cup {NoName}, t \in program.types : EnterArm(x, binding, t)
    \/ EnterElse \/ LeaveBranch \/ LeaveLoop \/ LeaveArm
    \/ EnterTry \/ LeaveCatch
    \/ Break \/ Continue
    \/ Ended

Spec == Init /\ [][Next]_vars

-----------------------------------------------------------------------------
(* Properties *)

\* Programs whose names the table of locals gets wrong.
Misleads == {"nested_names", "shadow_function", "catch_declares", "call_declares"}

\* Every variable has its type; local_count may be one more than the table has
\* entries, for the slot of a call.
TypeOK ==
    /\ locals \in [Slots -> Entries]
    /\ local_count \in 0 .. MAX_LOCALS
    /\ current_loop \in 0 .. MaxOpen
    /\ Len(open) <= MaxOpen
    /\ current_loop # 0 => current_loop <= Len(open) /\ open[current_loop].kind = "loop"
    /\ \A i \in 1 .. Len(open) : Len(open[i].exits) <= MAX_BREAKS
    /\ mistaken \in BOOLEAN

\* Outside of the arguments of computed calls a name stands for the slot in
\* which the declaration that the text means has stored its value, however
\* functions, arms, handlers and blocks around it have come and gone.
NamesReachTheirVariables ==
    Going /\ ~InArguments =>
        \A x \in Names : Visible(x) => resolve_local(x) = Variable(x).slot
NamesReach == features \cap Misleads = {} => NamesReachTheirVariables

\* Variables that live at the same time have slots of their own, and so have
\* the functions kept for the calls under way.
OwnSlots ==
    features \cap Misleads = {} /\ Going =>
        LET Live == UNION {{<<i, x>> : x \in DOMAIN open[i].names} : i \in Running .. Len(open)}
            SlotOf(v) == open[v[1]].names[v[2]].slot
            Kept == {open[i].keep : i \in {j \in Running .. Len(open) : open[j].kind = "call"}}
        IN /\ \A v, w \in Live : v # w => SlotOf(v) # SlotOf(w)
           /\ \A v \in Live : SlotOf(v) < local_count /\ SlotOf(v) \notin Kept

\* A jump goes to the end or to the head of the innermost loop around it in its
\* own function.
JumpsLand ==
    "nested_jump" \notin features =>
        \A i \in 1 .. Len(open) : ToSet(open[i].exits) \cup open[i].again \subseteq {i}

\* A program is refused exactly when it breaks a rule of the language: a name
\* that no block around it declares, a value of another type than the
\* variable's, an option unwrapped without a test, a jump outside of a loop.
Judged ==
    features = {} /\ error # "too_many" => (error # "none" <=> mistaken)
=============================================================================
