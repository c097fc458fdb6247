# Opo: models, checks and proofs

This directory is a verification development of the Opo language: TLA+ modules
translated from the C sources in `src/src`, TLC runs on small instances, and
theorems checked by TLAPS. `PROJECT.json` is the machine-readable index: which
definition models which lines, which run checks what, which mutant of the code
each property catches, and the hazards and findings.

## The system

Opo is a compiled, statically typed language. `main.c` reads a program,
`compiler.c` compiles it in one pass to bytecode (a `Chunk`), `vm.c` runs it.
Every goroutine is a POSIX thread with a VM of its own; VMs share the code, the
string pool and the heap.

| part | state it keeps | operations | talks to |
|---|---|---|---|
| channels (`vm.c` `OP_CHAN`, `OP_SEND`, `OP_RECV`, `native_close`) | ring, count, head, tail, slot of an unbuffered channel, waiting receivers, closed, a mutex and two condition variables | send, receive, close | all goroutines that hold the channel |
| virtual machine (`vm_run`, `begin_call`, `runtime_error`) | operand stack, call frames, locals, try frames, panic flag | instructions, calls, natives, throw | heap, channels, natives |
| goroutines (`OP_GO`, `thread_routine`, `main`) | a detached thread with its VM and arguments | start, end, end of the process | machine, reference counts |
| maps (`map_set`, `map_get`, `native_delete`) | entries, capacity, count | set, get, has, keys, delete, grow | machine, JSON, HTTP |
| reference counts (`retain`, `release`, `free_object`) | a counter in every heap object | retain, release, free | everything that holds values |
| compiler: statements and type stack | type stack, loops, scopes, code | one function per construct | machine: the code must keep the operand stack as the type stack says |
| compiler: function table | functions, addresses, pending patches | predeclare, call, define, patch | code |
| compiler: imports | compilation stack, module table, saved lexer and parser | import a module | lexer, parser, function table |
| compiler: names, types, loops | one table of locals and one pointer to the innermost loop for all functions under way; structs, enums | declare, look up, capture, guard, jump, check types | code: slots and jump targets |
| lexer | position | next token | compiler |
| JSON (`json_stringify`, `json_parse`) | the pointer into the text, the recursion | write, read | machine, maps |
| HTTP, regex, files, network, time, math, FFI | none of their own | natives | the C library |
| `lib/`, `opm.opo` | none | Opo programs | natives |

What is hard in this code, and what correctness means for it:

* **Channels.** Two condition variables serve four waiting loops, an unbuffered
  send sleeps twice, and wakeups are signals to one waiter. Values must come out
  once and in order, a sender of an unbuffered channel must not return before
  its value is taken, nobody may sleep while its operation can go on, and a
  close must release everybody.
* **Errors.** `runtime_error` and `OP_THROW` unwind several calls and blocks at
  once, natives raise errors in the middle of `OP_INVOKE`, and the compiler
  must pair every try frame with its block on every way out of it. An error must
  reach the innermost catch block and find stack and frames as its `try` left
  them.
* **Operand stack against type stack.** The compiler counts the operands of the
  machine at compile time; nothing checks the two against each other at run time.
* **Maps.** Linear probing with deletion that moves entries back, on a ring that
  grows; a key must be found exactly when it is there.
* **Compiler tables.** Calls of functions that come later are patched; imports
  save and restore the parser; both have limits and ways to lose an entry.
* **Names and jumps.** A nested function uses the same table of locals as the
  function around it, from the first entry on; blocks do not put `local_count` back,
  matches and handlers do, in two ways; guards and loops are kept in C variables of
  recursive calls. A name must mean the variable that the text means, a jump the
  innermost loop of its function, and exactly the wrong programs must be refused.
* **The JSON reader.** Its loops end at a bracket or at the end of the text, and
  what it does not know it does not pass over. It must come to an end, and read what
  was written.
* **Reference counts.** Counters are atomic, but what lies between reading a
  reference and counting it is not. A counter must be the number of references,
  at every instruction's every step, or an object is freed early, twice or never.
* **Goroutines.** The process ends with `main`; an uncaught error anywhere ends
  it too; objects are shared by reference counts only.

## Modules

| module | models | relation |
|---|---|---|
| `ChannelSpec` | what a channel promises: a bounded queue, or a rendezvous | abstract |
| `OpoChannel` | the channel with mutex, condition variables and ring | implements `ChannelSpec` |
| `MCOpoChannel` | programs of channel operations for TLC | extends `OpoChannel` |
| `OpoChannelProofs` | theorems on `OpoChannel` | extends `OpoChannel` |
| `OpoVM` | control state of one machine, and the code the compiler emits for statements | |
| `OpoVMProofs` | theorems on `OpoVM` | extends `OpoVM` |
| `OpoModules` | the compiler between files: predeclaration, function table, forward calls, imports | |
| `MCOpoModules` | small programs for TLC | extends `OpoModules` |
| `OpoModulesProofs` | theorems on the imports of `OpoModules` | extends `OpoModules` |
| `OpoLinkProofs` | theorems on the tables, the code and the calls of `OpoModules` | extends `OpoModulesProofs` |
| `OpoScopes` | the compiler inside of functions: names, guards of options, loops | |
| `MCOpoScopes` | small tables and sets of programs for TLC | extends `OpoScopes` |
| `OpoScopesProofs` | theorems on the loops, the names and the types of `OpoScopes` | extends `OpoScopes` |
| `MapSpec` | what a map promises | abstract |
| `OpoMap` | the hash table | implements `MapSpec` |
| `MCOpoMap` | colliding keys for TLC | extends `OpoMap` |
| `OpoMapProofs` | theorems on `OpoMap` | extends `OpoMap` |
| `OpoHeap` | reference counts, in every kind of instruction that uses them, and the life of a goroutine as far as references go | |
| `MCOpoHeap` | symmetry for TLC | extends `OpoHeap` |
| `OpoHeapProofs` | theorems on `OpoHeap` | extends `OpoHeap` |
| `OpoJson` | writing and reading JSON | |
| `MCOpoJson` | short texts and small values for TLC | extends `OpoJson` |
| `OpoJsonProofs` | the theorem on `OpoJson` | extends `OpoJson` |

Definitions named `X_Something` are faulty variants of `X` that the properties
must catch; no specification uses them.

### Channels

One action of `OpoChannel` is what a goroutine does between two acquisitions of
the channel's mutex: from `pthread_mutex_lock`, or from the return of
`pthread_cond_wait`, to the next wait or to the unlock. This is exact, because
every access to the channel is made under its mutex. `pc[t]` is the loop a
goroutine sleeps or is about to test in: `"offer"` and `"handoff"` are the two
loops of an unbuffered send, `"full"` that of a buffered one, `"take"` and
`"empty"` those of a receive. `send_cond` and `recv_cond` are the sets of
goroutines asleep on the condition variables; a signal wakes any one of them, a
broadcast all, and with `Spurious` a goroutine may wake by itself as POSIX
allows. `Guarded` are the goroutines that run in a try block: in the others a
send on a closed channel ends the process (`exited`). `Program` gives each
goroutine its operations. `sent` and `received` are histories.

`close()` is modelled as the machine implements it. The compiler today rejects
every call of it: `add_native("close", ...)` declares its parameter as a channel
without element type, and `is_assignable` has no rule that accepts a `chan<int>`
there.

### The machine

`OpoVM` does not represent bytecode. `ctl` is the sequence of what control is
inside of: the calls under way, and in each its loops, matches, try and catch
blocks and pending operands. It stands for `ip`, the return addresses and the
handler addresses at once, and it is what the compiler knows at compile time.
`stack`, `frame_ptr`, `try_stack` and `panic` are the fields of `struct VM`, and
they change only as the instructions change them. So the properties compare what
the machine has with where the program is. Any statement that the grammar allows
may come next. `features`, chosen at the start from the constant `Programs`, limits
the statements a program may contain:

| feature | statements |
|---|---|
| `op_error` | an instruction that is not a native call fails |
| `leave_try` | `^`, `.` or `..` in a try block |
| `leave_match` | the same in a match |
| `void_value` | natives that return void, `^` in a void function |
| `block_value` | blocks whose last expression has a value |
| `deep_try` | more than `TRY_STACK_MAX` try blocks |

Each of these breaks a property, and that is a finding or an observation below;
the passing run takes programs without any of them, for `StackAgrees`, and programs
with those that do not touch the other properties; `deep_try` is in no run, and
`leave_try` in that of finding 2 only.

### Files, functions and imports

`OpoModules` takes a program as a function from files to sequences of items:
functions, structs and imports. That much of the text must be fixed, because
predeclaration reads a file before any of it is compiled. It skips bodies, so a
body is not part of the text: within `MaxUses` references, anything its file may
refer to comes next in it (`Refer`). `frames` are the files whose compilation is
under way, with what `handle_import` keeps in C variables (`saved` is `had_error`
of `old_parser`); `open` are the bodies, calls and `go` statements under way. The code is a
sequence of instructions of one place each. Each keeps, next to what the compiler
emits, what the programmer referred to (`means`), which is computed from the text
alone, with the rules of `docs/02-language/modules.md`: a name without prefix is
one of the same file, a name with prefix is one of the file imported under it.
`mistakes` says likewise where the text has something that must be rejected, from
the text alone, except for `Mistake`, which stands for everything else that the
parser reports. `CallsReach`, `Accepted` and `OwnMistakesRejected` compare the
compiler's view with that one.

`Features` adds references to functions that come later by `go` or as values
(`"forward_value"`), and calls and functions without a name inside of the expression of a
`go` statement (`"go_inner"`): its callee or its arguments may be the results of calls. `is_go`
is set for the whole of that expression (`BeginGo`, `EndGo`); the call that the statement
is to start is the last one in it. `panic_mode` is not a variable, as it always equals `had_error`. Enums are like
structs and left out. A file has one name here; in the compiler `a.opo` and
`./a.opo` are two, each refused inside of itself.

### Names, guards and loops

In `OpoScopes` a behaviour is the compilation of one program inside of functions.
Any construct the grammar allows may come next; `open` is the sequence of those that
are open. Each has two kinds of fields: what the compiler keeps meanwhile in C variables
(`keep` is `old_local_count`, `loop.next` or `tmp_func_local`; `local` and `was` are
`cond_local` and `old_variant`; `exits` and `again` are the jumps emitted so far), and
what the text says without the compiler (`names`, the variables that a block declares;
`tests` and `finds`, what a block has found an option to be; `past`, the names of
blocks that ended). `locals`, `local_count` and `current_loop` are the fields of
`CompilerState`; `scope_depth` has no influence on names and is left out.
`mistaken` is set when the text breaks a rule of `docs/02-language` (`variables.md`,
Scoping and Static Typing; `functions.md`; `types.md`, Options; `control-flow.md`), computed
from the text alone. The properties compare the two sides: `resolve_local` finds the slot
of the variable that the text means (`NamesReach`), variables that live together
have slots of their own (`OwnSlots`), a jump leaves the innermost loop of its
function (`JumpsLand`), and a program is refused exactly when it is wrong (`Judged`).

An error, or a mistake that the compiler has let pass, ends the behaviour. A compiled
body is a statement list; types are those of functions, of options, and `any`.
`Earlier` is what functions compiled before may have left in the table.
`features` are the constructs that break one of the properties:

| feature | construct | breaks |
|---|---|---|
| `nested_names` | a function with parameters, captures or locals inside of one that has locals | `NamesReach`, `OwnSlots`, `Judged` |
| `nested_jump` | `.` or `..` in a nested function for a loop around it | `JumpsLand`, `Judged` |
| `shadow_function` | a function named like a variable of an outer block | `NamesReach` |
| `catch_declares` | a catch block that declares variables | `Judged` |
| `call_declares` | arguments of a computed call that declare variables | `NamesReach`, `OwnSlots`, `Judged` |
| `call_names` | arguments of a computed call that use variables | `Judged` |
| `past_name` | a name used after the block that declared it | `Judged` |
| `retyped` | a name that gets another type in a later block | `Judged` |
| `redeclared` | a declaration of a variable that exists, with another type | `Judged` |
| `assigned_option` | an option that was assigned to since its test, unwrapped | `Judged` |

`Judged` is stated for programs with none of them, the others for programs without those
that the table gives; the run takes both kinds of programs. No run has `nested_jump` or one of
`Misleads` (`nested_names`, `shadow_function`, `catch_declares` and `call_declares`).

### JSON

A behaviour of `OpoJson` starts with any text, or it writes one of a value first. `calls` are
the calls of `stringify_inner` under way for arrays and maps, each with the item that it
is at; one action is one call of it up to the next one (`WriteLeaf`, `WriteOpen`), or what
its loops do between two calls (`WriteItem`, `WriteValue`, `WriteClose`). `gap` is the white
space that other writers put in front of tokens, and `Deliver` hands the text to the reader,
whole or cut off. `stack` are the calls of `parse_array` and `parse_object` under way,
`at` is where the pointer is, and one action is one call of a parse function up to the
next, or one turn of a loop between two calls. A text is a sequence of characters, with
the three words and a number without its sign as one element each; `"a"` stands for every
character that starts no value, the first letter of an incomplete word among them.

A number is a whole number of parts, `Unit` of which make one, and `Denotes` gives the size
of every number of a text. What `stringify_inner` writes is the nearest number with the
digits that `%g` keeps (`Printed`; `Kept` is ten to the number of these digits, six in the
code), or the whole of an int; `parse_number` takes the nearest double (`Double`; every
whole number up to `Exact`, 2^53, is one) and makes an int of it when it is whole and
smaller than `MaxInt`, 2^63 (`Scanned`). So a number need not come back: `Survives` says
which do, `exact` whether all numbers written so far do, and `RoundTrip` speaks of these.
A part is the finest that `%g` writes in the numbers of the model, so halfway cases and
exponents occur with two digits in place of six. Left out are `-0.0` (read as the int 0),
infinities and NaN, which are written as words that no reader knows; enums and channels,
which are written as `null`; and strings with a quotation mark in them.
`MaxItems` bounds an array whose loop does not end. `Stray` says of a text,
without the reader, whether something stands where nothing may start.

### Maps

One action of `OpoMap` is one iteration of the loops that move entries; the
loops that only search are the operator `Probe`. `hash_value` is the constant
`Hash`: the run takes one with many collisions. `Comparable` are the keys that `values_equal` finds equal
to themselves, `Values` may or may not contain `Void`. `Contents` reads the table
as a map in the middle of a growth or deletion too; it is the refinement mapping
to `MapSpec`: its `call` is the operation under way, a set takes effect with its
last step (`pc = "store"` is the search and the write at the end of `map_set`), a
deletion with its first.

### Reference counts

In `OpoHeap` a *place* owns a reference or is empty: the locals and operands of a
goroutine (`Root`), the variables `obj` and `val` an instruction pops its operands
into (`Hand`), the `ThreadArgs` of a goroutine that starts (`Args`), and the items
of objects (`Item`: elements, fields, entries, payloads, captures, queued values).
`ptr[t]` is an object that an instruction points to and does not own: one it has
read from an item and not yet counted, or has just allocated. An action is one
access to what other goroutines can reach, so two goroutines interleave between
the reading of an item and `vm_push`, between the release of an old item and the
writing of the new one (`stale`), and inside `free_object`, which releases the
items of what it frees one by one. The operands an instruction pops are released
in any order, and which operands are on top is not represented: the model allows
more than the code does. Operations on a channel's ring and slot are single steps
here, since they are made under its mutex; `OpoChannel` has their details.

`user[o]` says which goroutine a program lets open `o`: one, which may write it
and may give it up to another by sending it; `"any"` for objects that nobody
writes once they are built; `"chan"` for channels. It is the discipline that
the documentation asks for, not something the code checks. The constant `Features`
drops it (`"shared_write"`), or lets an index be out of bounds in an array that no
variable refers to (`"late_report"`). `kept` counts
the references that instructions count and never release: those of `OP_AS_TYPE`,
`OP_THROW` and the reading of enum payloads, of `native_str` for a string that is
on the heap, of `native_error` for its argument (`Keep`), and of `parse_array` for the
array that it returns (`New`). The other way round, the string that `native_str`
makes has a count of 0, and `OP_PRINT`, `OP_ADD`, `native_print` and `native_str`
itself release it (`Lose`): its counter becomes -1, `kept` is -1, and it is never freed.
Some objects are made and never counted, which `Lose` has too. `CountExact` says that
these are the only differences between counters and references, `Reclaimed` that an
object is freed by the step that gives up its last reference unless one of them was
forgotten. `FreedWhenUnneeded`, which the documentation promises, is false (see the
observations). When `main` returns the process is gone, and with it the heap (`Exit`).

## Runs

| run | question | bounds | expected |
|---|---|---|---|
| `channel_buffered` | two producers, two consumers and a goroutine that may close, spurious wakeups: is it the abstract queue, in order, with no lost wakeup, and does everything that can go on go on? | 5 values, capacity 2 | pass |
| `channel_unbuffered` | the same without a buffer: does a sender return only after its value was received, also when senders share the slot? | 4 sends, 3 receives, a negative capacity | pass |
| `channel_rendezvous` | with one sender, is everybody served who can be? | 2 consumers, the producer closes | pass |
| `channel_two_senders` | and with two senders? | 2 senders, 1 receiver, no close | violation |
| `vm_programs` | do frames and try frames follow the program, do errors reach the innermost handler, does the operand stack hold what the type stack says? | 4 frames, 2 try frames, 3 operands, 6 open things | pass |
| `vm_leave_try` | do errors reach the innermost handler where a try block may be left by a jump? | 3 operands, 5 open things | violation |
| `scopes_lexical` | do names, slots and jumps mean what the text means, and is what is wrong refused and nothing else? | 2 names, 2 locals, 3 constructs open, 1 break, 1 capture and 1 parameter | pass |
| `map_collisions` | is the table a map, and does every operation end? | 5 keys, 2 values, table of 4 growing to 8 | pass |
| `heap_shared` | do counters differ from references only where an instruction forgets one, and is nothing freed early or twice, or kept when its last reference goes? | 2 goroutines, 3 objects of 1 item, 2 roots each, 1 forgotten reference | pass |
| `json_read` | does the reader end, and read what was written? | all texts of up to 4 tokens, values two levels deep | pass |
| `modules_linked` | does every call reach what it names, is what is wrong rejected and nothing else, is no imported file compiled inside of itself? | 9 programs of up to 4 files, 3 references, 3 modules, 4 patches | pass |
| `modules_same_name` | do calls reach what they name when two files use the same name? | 1 program, 2 references | violation |

The bounds are small but reach the cases: capacity 2 with five values wraps the
ring twice; with two goroutines on each side a signal can reach the wrong one;
four frames, of which `main` has the second, and two try frames let an error unwind two
calls at once with what is open in them, and let both limits be hit; five keys with three homes fill a cluster
that wraps around the end of the table and force one growth in every position of
a cluster; three objects of one item make chains and cycles of references, two
goroutines meet in every pair of instructions, and two roots suffice for an
operand and its container (`heap_shared` visits 907 000 states up to symmetry of
objects and roots). The programs of `modules_linked` are chosen by hand, one for
each way in which files can depend on each other: a function that comes later in its
file, imports before and after a function, a file imported by two others, circles through one,
two and all files, an unreadable file before and inside of a circle, and more imports
than the table holds. Three references make two calls that wait for the same function,
or a call in the arguments of a call in a body. Two names, two slots and three
open constructs put a function into a loop into a function, a block that reuses a name
next to one that has it, and a table of locals that is full; each construct in the
table above breaks its property within these bounds, except `catch_declares`, which
needs three slots. The texts of `json_read` are all of up to four tokens, so every
token is met in every state of the reader, at the end of the text too, and the
values nest arrays and maps in each other; among their numbers are ones that survive and
ones that do not, for each of the reasons there are (a digit too many, a float that is
whole, an int between two doubles). What the bounds leave out the theorems cover for channels, reference counts,
maps, the machine, imports, calls that wait, names, jumps and JSON.

**Fairness.** Channel runs assume weak fairness of each goroutine's own sends and
receives: the operating system runs every runnable thread and a free mutex is
eventually acquired. Nobody is assumed to close a channel, and nothing is assumed
of spurious wakeups, nor of which waiter a signal wakes. Map and JSON runs
assume that the thread in a loop goes on. Everything else is safety.

## Findings

All were reproduced with the compiled program. Each of these has a run that shows it.

1. `channel_two_senders`: an unbuffered channel with two senders can leave a
   sender asleep whose value was received, or everybody asleep (`vm.c:2313`, `2330`).
2. `vm_leave_try`: leaving a try block by `^`, `.` or `..` leaves its try frame,
   and a later error runs a stale handler (`compiler.c:1969`, `1935`, `1945`).
3. `modules_same_name`: a call inside an imported file goes to the main file's
   function when that has one of the same name (`compiler.c:1740`).

Observed with the same modules, by giving their constants other values or checking a
stronger property:

* `OpoModules` with `"forward_value"`: `go f(x)` before `f` is compiled, and `f` as a
  value, take the address -1 and nothing is run (`compiler.c:1782`, `1790`);
  with a small `MaxPatches`: calls beyond the 64th of a
  function that comes later go to address -1 (`compiler.c:299`); with a native's
  name in the texts: a function of that name is never called (`compiler.c:1644`); with
  one alias for two files: calls go to the one that happens to be compiled
  (`compiler.c:394`).
* `Accepted` of `OpoModules` fails with a struct that has fields: predeclaration adds
  a struct without fields in front of it (`compiler.c:335`), and every instantiation
  is refused, as that in `tests/main_import.opo:7` is. `match` on an enum fails likewise.
* `MistakesRejected` of `OpoModules` fails: what is wrong in an imported file,
  circular imports among it, is printed and then forgotten, and the program runs
  (`compiler.c:2234`; `docs/02-language/modules.md:69` promises a compile-time error).
  A file that several others import is compiled for each (`compiled_modules` is never
  searched; `docs/02-language/modules.md:68` says once).
* `CallsReach` of `OpoModules` fails with `"go_inner"`: `is_go` is set for the whole expression
  of a `go` statement (`compiler.c:2433`), so in `go mk()(1)` the call of `mk` is started as a
  goroutine too, and the machine stops with "Stack underflow"; calls in the arguments fare
  likewise. `docs/02-language/concurrency.md:7` says that a `go` statement starts one call.
  (With `"go_inner"` the bound may end a program inside of a `go` statement, so TLC must not
  check deadlock.)
* `NoReentry` of `OpoModules`, which speaks of the main file too, fails: the main file is never
  on `compilation_stack` (`compiler.c:2209`). When it imports itself or is imported by what it
  imports, it is compiled once more inside of itself; only the import in that copy is refused,
  this is forgotten with the copy, and the program runs, though `docs/02-language/modules.md:69`
  promises a compile-time error.
* `FreedWhenUnneeded` of `OpoHeap` fails, though `docs/04-runtime/memory.md:3` says that memory is
  freed as soon as it is no longer needed: what is printed and is no string on the heap leaves
  a string behind that is never freed, with a counter of -1 (`vm.c:441`, `1659`).
* `OpoVM` with `"op_error"` breaks `StackAgrees`: after a caught error of an
  instruction the next native call's result is lost (`vm.c:1588`, `2205`).
* `OpoHeap` with `"shared_write"`: counters are atomic, reading and counting a
  reference together is not, so a goroutine that reads an array another one writes
  can count a freed object (`vm.c:1947`).
* `OpoHeap` with `"late_report"` breaks `NoDangling`: an index out of bounds on an
  array that nothing else refers to is reported from freed memory (`vm.c:1944`, `2047`).
* `OpoVM` with `"deep_try"`: the 17th nested try block raises an error and is then
  entered into the try stack all the same (`vm.c:2008`).
* `OpoVM` with `"void_value"`: `^` in a void function and void natives leave an
  operand per call (`compiler.c:1958`, `vm.c:2212`); with `"block_value"`, so do
  blocks that end with a value (`compiler.c:2396`, `2451`, `2470`, `2502`, `2555`).
* `OpoMap` with `Void` among `Values`: `has` and indexing take a void value for a
  missing key (`vm.c:717`, `1963`); with a key outside `Comparable`: options and
  enums are never found as keys (`vm.c:273`).
* `OpoHeap`: every `OP_AS_TYPE` and `OP_THROW` of an object leaks it (`vm.c:2148`,
  `2034`), and so do `str` of a string on the heap (`vm.c:379`), `error` (`vm.c:724`) and
  `json_parse` for every array (`vm.c:986`), which is why `kept` exists. `print`, `str` of
  arrays and maps and the concatenation of strings leave temporary strings behind as
  `OP_PRINT` does (`vm.c:386`, `400`, `532`).

* `OpoScopes` with the constructs of its table, one at a time:
  * a function inside of a function takes the same slots and names as its surroundings
    (`compiler.c:481`): after the second of two nested functions in a row, variables of
    the first are "Undefined identifier" in it, though `docs/02-language/functions.md`
    allows nesting; `.` in a nested function inside of a loop jumps to the end of the
    outer function's loop (`compiler.c:1925`);
  * a function named like an outer variable hides it after the block ends too, and
    the arguments of a computed call, `(mk())(1 => x)`, lose the names that they declare
    and see the one that the callee's slot had before (`compiler.c:560`, `589`);
  * names stay visible behind their block, so a sibling block that declares one with
    another type is a "Type mismatch" (`compiler.c:2036`), and a declaration of an
    existing variable with another type is accepted, `10 => x "text" => x: str`
    (`compiler.c:1811`);
  * a catch block that declares a variable drops that and keeps the error's name
    (`compiler.c:2471`);
  * an option that is assigned to in the block that tested it is unwrapped without a
    test of the new value (`o ? [void => o ...]`), and prints void.
* `locals` of the compiler has 256 entries and a frame of the machine 48
  (`LOCALS_PER_FRAME`): functions with more than 48 variables are compiled.
* `TerminatesAlways` of `OpoJson` fails: the reader loops for ever on `[tru`, `[-`,
  `{]`, `[:`, `[}` and `{"a":x}` (`vm.c:988`, `1007`). It also refuses `null ` for the
  white space at its end (`vm.c:1365`), ignores what follows a value, and accepts
  missing commas and brackets.
* `RoundTrip` of `OpoJson` without `exact` fails: `[0.1234567]` comes back as
  `[0.123457]`, `[3.0]` as the int in `[3]`, and 9007199254740993 as 9007199254740992
  (`vm.c:897`, `967`, `969`). No document promises otherwise.
* Strings of JSON are written without escapes, though
  `docs/03-standard-library/json.md:46` promises them; the strings in `Values` therefore
  have no quotation marks (`Leaf`).

## Proofs

`OpoChannelProofs` proves, for any finite set of goroutines, any programs, any
capacity, with and without spurious wakeups:

* `TypeCorrect`: `TypeOK`.
* `TakerPresent`: `ValueHasTaker`, the counter of waiting receivers is right and
  a value in the slot has a receiver.
* `WakeupsSuffice`: `NoLostWakeup`, enough goroutines are awake for the free
  places and values of a buffered channel.
* `InOrder`: `FirstInFirstOut`, received and held values are the sent ones, in order.
* `SendsReturnAfterReceipt`: `ReturnsAfterReceipt`.
* `NothingLost`: `AcceptedIsReceived`.
* `ChannelIsQueue`: `ImplementsQueue`, the channel is the bounded queue or rendezvous
  of `ChannelSpec`.

They assume only `ChannelAssumption` of `OpoChannel`, which TLC evaluates in
every channel run. `TypeOK` alone is not inductive: that an index stays in the
ring needs that head, tail and count agree (`PositionOK`), that the ring and the
slot hold what was sent and not received needs to know where (`RingHolds`,
`SlotHolds`), and the order needs that what was received is a prefix of what was
sent (`ReceivedIsPrefix`). `Inv` is their conjunction. `Counted`, that
`waiting_receivers` is the number of goroutines in the loop, is inductive on top
of it and uses the theorems on cardinalities. `NextInv` has one step per action.
The action property follows from the invariant `HandedOver` by the step that
returns. In the refinement `Contents` is what was sent and not received, so a step
that adds to `sent` or to `received` is a step of the queue (`QueueGrows`,
`QueueShrinks`), and falling asleep and waking up is none (`SleepMaps`).

`OpoHeapProofs` proves, for any finite sets of goroutines, objects, roots and
items, any `MaxKept` and no `Features`:

* `TypeCorrect`: `TypeOK`; `Exact`: `CountExact`; `Safe`: `NoDangling`;
  `Reclaims`: `Reclaimed`; `NeverFreedTwice`: `FreedOnce`.

They assume `HeapAssumption` and `DisjointNames`, which TLC evaluates in the heap
runs. The argument: a counter is the cardinality of the set of its holders
(`CountedOK`), so the lemmas `AddCount`, `TakeCount` and `MoveCount` on
cardinalities say what an instruction does to it, and `LastHolder` that the one who
takes a counter to zero was the only holder. That alone is not inductive:
between reading an item and counting it a goroutine relies on a reference it does
not own. `ThreadOK` says why it may: the item is still there, in an object that the
goroutine holds and that nobody else may write. `ApartOK` shows that the steps of
others leave it so. `StaleOK`, `BuildsOK` and `UnusedOK` say
when a released reference can still be seen and when an object may have no
references; `HeldIsLive` says of what is held also that it was not released uncounted. `IInv` is the conjunction; there is one lemma per action, and
`Assemble` puts the parts together. `FreedStep` shows that every retain and
release is of a live object.

`OpoModulesProofs` proves, for any set of programs, any unreadable files and any
size of the table of modules, with and without `Features`:

* `NoFileInsideItself`: `NoImportInsideItself`, however files import each other;
* `ImportTablesFit`: `TablesFit`, the conjunct of `TypeOK` on the two tables of
  `handle_import`.

They assume `ModulesAssumption`, which TLC evaluates in the runs of `OpoModules`:
a program is a function from files to sequences of items, whose labels differ within
a file, as the compiler demands. `handle_import` looks for a file in `compilation_stack`, which is not the list of
the files being compiled: an import that fails leaves its file on it
(`compiler.c:2212`), and the file that contains that import then takes this entry
off when it ends instead of its own. `NoImportInsideItself` is therefore not inductive. `OnStack`
makes it so: some strictly increasing map takes the files being compiled to
positions of the stack that hold them. `BeginImportStep` extends this map by the
new last position, which no file had; `EndImportStep` restricts it, which is
allowed because the other files lie below the entry that goes. All other steps
keep it (`SameFiles`).

`OpoLinkProofs` proves, for the same parameters:

* `TypeCorrect`: `TypeOK`;
* `CallsRemembered`: `NoCallForgotten`, if `MaxUses <= MaxPatches`: there are no more
  references in the whole program than one function remembers calls. In programs with
  more, calls beyond the 64th of a function are forgotten;
* `OwnMistakesAreRejected`: `OwnMistakesRejected`, if an alias stands for one file
  (`OneAlias`) and the main file does not import itself (`NotItself`). With one alias for
  two files the compiler judges by the file it happens to have in its table; a main file
  that imports itself has functions whose return type is inferred twice, and `mistakes`
  does not tell the two apart.
* `ReferencesReach`: `CallsReach`, if `OneAlias` holds, `MaxUses <= MaxPatches`, there
  are no `Features`, and functions have names of their own (`OwnNames`): none that a
  native has, and in an imported file none that the main file has. Each is needed: the
  findings and observations on `OpoModules` are what happens otherwise.
* `RightProgramsAccepted`: `Accepted`, if `OneAlias` and `OwnNames` hold and structs have
  no fields (`NoFields`): every instantiation of a struct that has fields is refused.

`Predeclared` is a fold over the items of a file; `FoldPasses` unfolds it into the
tables after each item, and `PredeclaredHolds` says by the least item that could break
it what they hold in the end. `Linked` is the invariant: the types of tables, code and
open calls (`Kinds`); every file being compiled stands at the import of the next
(`Chain`); the function being compiled is the one at the next item and has its address
(`InFunction`); what is open refers to what is in the tables (`Opened`); a function
without an address comes later in a file being compiled (`Awaited`); calls that wait
are calls in the code, and functions with an address have none (`Pending`). `Awaited`
is what needs the whole of it: an import adds functions that come in its file, and when
a file ends none of its functions may be left. There is one lemma per action.
`Bounded` adds that no function remembers more calls than there are references, which
leaves room for the next. For `OwnMistakesRejected`, `OwnKept` says where a mistake of the main
file is: in `had_error`, and during its imports in what the first of them saved. That every
mistake is reported at all needs `Origin`, every entry of the tables is that of an item of
the file its prefix stands for, so that what is private is found out; and for inferred
return types `OwnUnknown`, those of the functions to come are not known, and `OwnCalls`, the
calls under way go to functions of the main file when they mean them.
For `CallsReach`, `Stands` says which function the table has under a name, and
`ResolveMeans` that the order in which names are looked up finds the one that is meant.
`RInv` follows it from there: the address of a function is an entry of what it stands for
(`Entered`), an open call goes to what it means (`OpenMeans`), a call in the code has
such an entry for its address or waits for one (`Reaching`), and what waits for a function
means that function (`Awaiting`), so that `BeginFunction` patches no call of another.
`OneGo` says that `is_go` is set exactly inside of a `go` statement, and that nothing is open in
that but the call it starts. At the end every function has its address (`FinishFacts`), and nothing waits.
For `Accepted`, `AInv` says what holds as long as there is no mistake. The functions and
structs of every file being compiled, and of every file it has imported, are in the tables
(`Available`), so lookups find them (`Found`, `FoundStruct`); what is not public is in
another file (`NotHere`). `compilation_stack` is then the list of the files being compiled
(`StackExact`), so no import is refused (`RefusedMistaken`). A return type that is not known
is that of a function to come in some file being compiled (`Untyped`), and a call under way
goes to this file or one it has imported (`OpenMeant`), none of which is being compiled
around it (`ImportedFrom`): so it is to come in this file, which is a mistake
(`UnknownUntyped`). The main file inside of itself needs an argument of its own
(`MainInside`), since it is never on the stack.

`OpoMapProofs` proves, for any keys, any hash function and any capacity to begin with:

* `TypeCorrect`: `TypeOK`;
* `CountIsExact`: `CountAgrees`, and `TableIsMap`: `ImplementsMap`, if every key equals
  itself (`Comparable = Keys`);
* `LookupsAgree`: `LookupAgrees`, if moreover `Void` is not stored.

They assume `MapAssumption`; that the two conditions are needed is among the
observations above. `TInv` says that `count` is the number of used entries and that there is
always an unused one, in the middle of a growth too, where the entries still to be moved
count (`Copied`). So the probing loops stop (`ProbeStops`). `Placed` is the invariant of
linear probing: no key twice (`Distinct`), no unused entry between an entry and its home
(`Reachable`). A deletion breaks it for a while: `AroundHole` says that everything from
the hole to where the loop has come is used, and nothing passed so far needs the hole.

`OpoVMProofs` proves, for any programs and limits of the machine:

* `TypeCorrect`: `TypeOK`; `FramesMatch`: `FramesAgree`;
* `TriesMatch`: `TryAgrees`, which says where the frame of a try block belongs and nothing of
  the operands it keeps, and `InnermostCatches`: `CaughtByInnermost`, if no
  program leaves a try block by a jump or opens too many (finding 2 and an observation);
* `OperandsMatch`: `StackAgrees`, which speaks of programs with no feature.

They assume `VMAssumption`. The k-th frame, try frame or operand belongs to the k-th
place of `ctl` that has one (`Framed`, `Handled`, `Stacked`), which counts of places up to
a position express. `Edits` says that every step keeps some first places of `ctl` and
opens at most one behind them, `Follows` that frames, try frames and operands follow;
there is one lemma per step that it does, and one (`FollowsKeeps`) that the invariant
survives it.

`OpoScopesProofs` proves, for any names, any table of locals, anything that earlier
functions left in it and any sets of programs:

* `LoopsLeftInOrder`: `JumpsLand`, which says nothing of programs with `nested_jump`.

There is one pointer to a loop for all the functions under way, and each loop keeps
the one before. `Chain` says that these are all the open loops, in order, across
functions; it is inductive, because loops close in the opposite order only, and a
function inside of a loop is compiled to its end before the loop ends. When the
function has a loop at all, its last one is therefore the current one (`Meant`). Where
it has none but a function around it has, text and compiler differ; these are the
programs with `nested_jump`. `Changed`, `OpenStep` and `ClosedFacts` say what changes of
`open` keep the chain, and each action is one or two of them.

And on names, for the same parameters:

* `NamesAreReached`: `NamesReach`; `SlotsAreOwn`: `OwnSlots`;
* `TypeCorrect`: `TypeOK`, in programs with any feature;
* `VerdictIsRight`: `Judged`, in programs with none.

The first two say nothing of programs with a feature in `Misleads`, and need an invariant on
the whole of `open`, because `local_count` and the table serve all functions under way at
once. `NowNamed` gives every element of `open` a level: what `local_count` was, or will be
again, when that element is the last one. A function, an arm and a call keep the level
below them; `catch` blocks and calls add one to it (`Levels`). A variable has a slot
below the level of its block, and the entry has its name (`Placed`); inner
declarations have greater slots (`Shadowed`), and no entry in use above a variable's
slot has its name unless a block in between declares it too (`Latest`). A nested
function writes into the same entries from the first one on. `OneDeclares` says why that
does no harm: of two functions under way at most one has declared anything.
`NamedPush`, `NamedPart` and `NamedDeclare` show that opening, closing and declaring keep
this, whatever the action; `FoundHere`, `SlotsDiffer` and `KeptAbove` derive the
properties from it. `MaxOf`, on the greatest element of a set of numbers, rests on
`WFMin` of the library. `TypeCorrect` needs less of the counts but in all programs: `Room` says
that `local_count` is always enough for all that the open elements will count back.

`VerdictIsRight` needs to know what the table says of types and of tests, where `NowNamed`
says only where variables are. `Judging` adds that the entry of a variable has its
type (`Typed`); that every open block that tests something means the same variable in
the text and in the table (`Tested`); that the guard of an entry is what the last open test of
it found, unless the variable was assigned to since, and that each test keeps what the
test around it found, so that the guard put back is the right one (`Guards`,
`Untested`); and that an entry that is still counted but belongs to no variable, as the
ones of ended branches do, is one of a block of the same function (`Remembered`,
`Unused`). A name found in such an entry is one that the text does not have; by
`Remembered` the program then has the feature `past_name` or `retyped`. The invariant
itself is that text and compiler have judged alike so far (`Verdict`), and each kind of
judgement - of a use, an unwrapping, an assignment, a capture, a jump - has a lemma that
the two sides agree on it (`UseVerdict` to `JumpVerdict`). `JudgedPush`, `JudgedClose`,
`JudgedDeclare` and `JudgedFunction` show that opening, closing and declaring keep
`Judging`. That levels are determined by the kinds of constructs and one of the counts
(`SameLevels`) is what lets these lemmas speak of the levels before a step and after it.

`OpoJsonProofs` proves, for any texts and any values, of any size and depth:

* `RoundTripHolds`: `RoundTrip`, what was written of a value whose numbers survive is read
  as that value.

It assumes `JsonAssumption`, which TLC evaluates in `json_read`: a value is a word, a number
that has a spelling in the text, a string without quotation marks, or an array or a map of
values, with no key twice in a map unless such keys are never equal to each other (arrays,
maps and void). The invariant says nothing once a number was written that does not survive
(`Inv`). Neither the
writer nor the reader has a grammar, and the values have no depth on which one could do an
induction. The proof has a `Layout` in their place: a set of places `<<p, v, q>>`, which say
that value `v` stands in the text from `p` up to `q`; each is justified by the characters
of the text and by the places of the parts of `v` (`Justified`), so a proof never has to go
down more than one level. The writer builds a layout from the inside outwards. `Chain` says
where each of its calls began and that what it has written so far, brackets, keys, colons
and commas, stands in the text (`Prefix`, `Expects`, `Reached`); a call that ends
adds its place (`LeafStep`, `CloseStep`). Layouts are kept when the text grows
(`LayoutStays`). The reader goes through the layout that the writer leaves from the outside
inwards. Each of its calls stands for a place, has read the first items of the value
there (`FrameOf`), and waits for the place of the next part, behind which the rest of
its value stands (`Awaits`, `Rest`). `AtValue` says by the first character
that the reader calls the function for the value that stands there, `StringText`,
`NumberText` and `WordText` that it reads this value, and `LoopsOn` that a loop goes
on at the next item or the closing bracket, with a comma and white space passed over.
For a number, its place says too that it survives (`Spelled`), which is what `NumberText`
needs.

Least and greatest elements of sets of numbers rest on `WFMin` of the library; with
them an argument by induction becomes one about a least counterexample.

Every invariant and action property that a passing run checks is stated by a theorem.
Checked by TLC only are the liveness properties (`Responsive`, `AllFinish`,
`CloseReleases`, `Returns`, `Terminates`), which are out of the prover's reach.

## Not modelled

`PROJECT.json` lists every part with its status. Out of scope for good: the
lexer and the parsing and typing of expressions (a case analysis of data, with no
order of events; `OpoScopes` keeps the three kinds of types on which names and guards
depend), fields of structs and enums, arithmetic, and the natives that pass their
arguments to the C library. Of data races on maps and arrays that goroutines share
only what they do to reference counts is modelled. The byte that indexes string
constants (`compiler.c:1850`) and the REPL, which frees code that goroutines may
still run (`main.c:66`), are hazards without a property.

## Plan

Done so far: channels, control of the machine, maps, reference counts, files and
functions, names and loops inside of functions, the JSON reader. Next, in this order:

1. An abstract specification of the compiler that `OpoModules` implements: a
   program means the graph of what its functions refer to.
2. The REPL.
