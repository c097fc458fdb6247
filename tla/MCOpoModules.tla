---------------------------- MODULE MCOpoModules ----------------------------
(* Small programs for OpoModules. *)
EXTENDS OpoModules

Fun(name, public, typed) ==
    [kind |-> "fun", name |-> name, public |-> public, typed |-> typed]
Struct(name, fields) ==
    [kind |-> "struct", name |-> name, public |-> TRUE, fields |-> fields]
Imp(file, alias) == [kind |-> "imp", file |-> file, alias |-> alias]

Program(main, a, b) == [file \in {"main", "a", "b", "u"} |->
    CASE file = "main" -> main [] file = "a" -> a [] file = "b" -> b [] file = "u" -> <<>>]

MainFun == Fun("main", FALSE, TRUE)
f == Fun("f", FALSE, TRUE)

\* one file: a function that comes later, with and without a return type
OneFile == {Program(<<MainFun, Fun("f", FALSE, typed), Struct("S", 0)>>, <<>>, <<>>) :
                typed \in BOOLEAN}

\* an import before and after a function, a private function, one without a
\* return type, and a file imported by two others
Importing ==
    {Program(<<Imp("a", "a"), MainFun>>, <<Fun("g", TRUE, typed), Fun("h", FALSE, TRUE)>>,
             <<>>) : typed \in BOOLEAN}
    \cup {Program(<<Imp("a", "a"), MainFun, Imp("b", "b")>>,
                  <<Fun("g", TRUE, TRUE), Imp("b", "b")>>, <<Fun("k", TRUE, TRUE)>>)}

\* circles through one, two and all files, imports that cannot be read, and more
\* imports than modules
Failing ==
    {Program(<<Imp("a", "a"), MainFun>>, <<Imp("a", "z"), Fun("g", TRUE, TRUE)>>, <<>>),
     Program(<<Imp("a", "a"), MainFun>>, <<Imp("b", "b"), Fun("g", TRUE, TRUE)>>,
             <<Imp("a", "a"), Fun("k", TRUE, TRUE)>>),
     Program(<<Imp("main", "m"), MainFun>>, <<>>, <<>>),
     Program(<<Imp("a", "a"), Imp("b", "b"), MainFun>>, <<Imp("u", "u"), Imp("b", "b")>>,
             <<Imp("a", "a"), Imp("u", "v"), Fun("k", TRUE, TRUE)>>)}

Linked == OneFile \cup Importing \cup Failing

\* a file and the file it imports have functions of the same name
SameName == {Program(<<Imp("a", "a"), f, MainFun>>, <<f, Fun("g", TRUE, TRUE)>>, <<>>)}
=============================================================================
