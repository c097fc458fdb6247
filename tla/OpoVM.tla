------------------------------- MODULE OpoVM --------------------------------
(***************************************************************************)
(* The control state of one virtual machine (struct VM in src/src/vm.h)    *)
(* while it runs a program: call frames, try frames, operand stack and the *)
(* panic flag, through calls, returns, loops, matches, try blocks, throw,  *)
(* natives and runtime errors.                                             *)
(*                                                                         *)
(* The bytecode itself is not represented.  Where the machine is in it     *)
(* (ip and the return addresses in the frames) is the sequence ctl of what *)
(* the compiler has opened and not closed on the way there: "call" for the *)
(* body of a function, "try", "catch", "loop" and "match" for the blocks,  *)
(* "temp" and "result" for the operands its type stack says are there.     *)
(* Any statement the grammar allows may come next, so a behaviour is a run *)
(* of some program; features says which statements the program may contain.*)
(***************************************************************************)
EXTENDS Integers, SequencesExt

CONSTANTS
    FRAMES_MAX, TRY_STACK_MAX, STACK_MAX,   \* the limits of vm.h
    MaxOpen,    \* bound on Len(ctl)
    MaxArgs,    \* bound on the arguments of a call
    Programs    \* the features that programs may have together, see AllFeatures

AllFeatures == {
    "op_error",     \* an instruction other than a native call fails
    "leave_try",    \* ^, . or .. inside a try block leaves it
    "leave_match",  \* ^, . or .. inside a match leaves it
    "void_value",   \* natives that return void, and ^ in void functions
    "block_value",  \* blocks that end with an expression that has a value
    "deep_try"}     \* more than TRY_STACK_MAX try blocks open at once

ASSUME VMAssumption ==
    /\ FRAMES_MAX \in Nat \ {0, 1}
    /\ TRY_STACK_MAX \in Nat \ {0}
    /\ STACK_MAX \in Nat
    /\ MaxOpen \in Nat /\ MaxArgs \in Nat
    /\ Programs \subseteq SUBSET AllFeatures

Operands == {"temp", "result", "match"}
Blocks == {"try", "catch", "loop", "match"}

VARIABLES
    ctl,        \* where the machine is in the program
    frame_ptr,  \* call frames, with the one of vm_init
    stack,      \* the operand stack
    try_stack,  \* the try frames
    panic,
    status,     \* "run", or how the machine ended
    features    \* of the program, one of Programs

vars == <<ctl, frame_ptr, stack, try_stack, panic, status, features>>

\* vm_init, and the call of main that the program begins with
Init ==
    /\ ctl = <<"call">>
    /\ frame_ptr = 2
    /\ stack = <<>>
    /\ try_stack = <<>>
    /\ panic = FALSE
    /\ status = "run"
    /\ features \in Programs

-----------------------------------------------------------------------------
(* Positions in the program *)

Pop(s, n) == SubSeq(s, 1, Len(s) - n)
Smaller(a, b) == IF a <= b THEN a ELSE b
Count(s, K) == Cardinality({i \in 1 .. Len(s) : s[i] \in K})

Running == status = "run"
Open == Len(ctl) < MaxOpen

\* the last index of s that holds an element of K, 0 when there is none
LastIndex(s, K) == SelectLastInSeq(s, LAMBDA k : k \in K)

\* what is open in the running function, outermost first
Path == SubSeq(ctl, LastIndex(ctl, {"call"}) + 1, Len(ctl))

\* ctl up to the call that frame n belongs to (frame 1 is vm_init's)
UpToFrame(n) ==
    SubSeq(ctl, 1, CHOOSE i \in 1 .. Len(ctl) :
                      ctl[i] = "call" /\ Count(SubSeq(ctl, 1, i), {"call"}) = n - 1)

\* a statement starts: no operand of an unfinished expression is pending
AtStatement == Last(ctl) \notin {"temp", "result"}

\* the n newest operands are values of the current expression
HasArgs(n) ==
    /\ n <= Len(ctl)
    /\ \A i \in Len(ctl) - n + 1 .. Len(ctl) : ctl[i] \in {"temp", "result"}

\* a statement has one value, the newest operand
HasValue == HasArgs(1) /\ ~HasArgs(2)

\* programs that may leave the blocks above index i of ctl
MayLeave(i) ==
    /\ (\E j \in i + 1 .. Len(ctl) : ctl[j] = "try") => "leave_try" \in features
    /\ (\E j \in i + 1 .. Len(ctl) : ctl[j] = "match") => "leave_match" \in features

-----------------------------------------------------------------------------
(* Ends of the machine, errors and handlers *)

\* exit(1), or the HALT behind the call of main
Ends(how) ==
    /\ status' = how
    /\ UNCHANGED <<features, ctl, frame_ptr, stack, try_stack, panic>>

(* a handler runs in the frame that the error was raised in *)
Unwind_KeepsFrames(s, panic1, pushed) ==
    LET F == Last(try_stack)
        kept == SubSeq(s, 1, Smaller(Len(s), F.stack_ptr))
    IN IF Len(kept) >= STACK_MAX
         THEN Ends("overflow")
         ELSE /\ stack' = kept
              /\ frame_ptr' = frame_ptr
              /\ ctl' = UpToFrame(frame_ptr) \o F.path \o <<"catch">>
              /\ try_stack' = Pop(try_stack, 1) \o pushed
              /\ panic' = panic1
              /\ UNCHANGED <<features, status>>

(* operands above the try frame stay *)
Unwind_KeepsOperands(s, panic1, pushed) ==
    LET F == Last(try_stack)
        n == Smaller(frame_ptr, F.frame_ptr)
    IN IF Len(s) >= STACK_MAX
         THEN Ends("overflow")
         ELSE /\ stack' = s
              /\ frame_ptr' = n
              /\ ctl' = UpToFrame(n) \o F.path \o <<"catch">>
              /\ try_stack' = Pop(try_stack, 1) \o pushed
              /\ panic' = panic1
              /\ UNCHANGED <<features, status>>

\* Unwinding to the newest try frame with the operands in s, in runtime_error
\* and OP_THROW: operands and frames above it go, the handler starts with the
\* error on the stack and stores it in a local.  pushed are the try frames that
\* the instruction adds after that.
Unwind(s, panic1, pushed) ==
    LET F == Last(try_stack)
        n == Smaller(frame_ptr, F.frame_ptr)
        kept == SubSeq(s, 1, Smaller(Len(s), F.stack_ptr))
    IN IF Len(kept) >= STACK_MAX
         THEN Ends("overflow")
         ELSE /\ stack' = kept
              /\ frame_ptr' = n
              /\ ctl' = UpToFrame(n) \o F.path \o <<"catch">>
              /\ try_stack' = Pop(try_stack, 1) \o pushed
              /\ panic' = panic1
              /\ UNCHANGED <<features, status>>

RuntimeError(panic1) ==
    IF try_stack = <<>> THEN Ends("error") ELSE Unwind(stack, panic1, <<>>)

\* an instruction fails: division by zero, index out of bounds, missing key,
\* send on a closed channel
OpError ==
    /\ Running
    /\ "op_error" \in features
    /\ RuntimeError(TRUE)

\* a native fails: OP_INVOKE clears the flag again
NativeError ==
    /\ Running
    /\ RuntimeError(FALSE)

Throw ==
    /\ Running
    /\ HasArgs(1)
    /\ IF try_stack = <<>> THEN Ends("unhandled")
       ELSE IF stack = <<>> THEN Ends("underflow")
       ELSE Unwind(Pop(stack, 1), panic, <<>>)

-----------------------------------------------------------------------------
(* Expressions *)

\* an instruction pushes a value
Push ==
    /\ Running /\ Open
    /\ IF Len(stack) >= STACK_MAX
         THEN Ends("overflow")
         ELSE /\ stack' = Append(stack, "temp")
              /\ ctl' = Append(ctl, "temp")
              /\ UNCHANGED <<features, frame_ptr, try_stack, panic, status>>

\* OP_POP at the end of a statement, or an instruction that takes a value
Drop ==
    /\ Running
    /\ HasArgs(1)
    /\ IF stack = <<>>
         THEN Ends("underflow")
         ELSE /\ stack' = Pop(stack, 1)
              /\ ctl' = Pop(ctl, 1)
              /\ UNCHANGED <<features, frame_ptr, try_stack, panic, status>>

\* The value of the last expression of a block that is not a function body: the
\* compiler takes it off its type stack without an OP_POP.
Forget ==
    /\ Running
    /\ "block_value" \in features
    /\ HasValue
    /\ ctl' = Pop(ctl, 1)
    /\ UNCHANGED <<features, frame_ptr, stack, try_stack, panic, status>>

\* OP_INVOKE of a native that succeeds: with the panic flag left by an earlier
\* error its result is thrown away and its arguments stay.  The compiler
\* expects no operand of a native that returns void.
Invoke(n, void) ==
    /\ Running /\ Open
    /\ HasArgs(n)
    /\ void => "void_value" \in features
    /\ IF Len(stack) >= STACK_MAX THEN Ends("overflow")
       ELSE IF Len(stack) < n THEN Ends("underflow")
       ELSE /\ stack' = IF panic THEN stack ELSE Append(Pop(stack, n), "result")
            /\ ctl' = IF void THEN Pop(ctl, n) ELSE Append(Pop(ctl, n), "result")
            /\ panic' = FALSE
            /\ UNCHANGED <<features, frame_ptr, try_stack, status>>

(* begin_call does not test the limit *)
Call_NoLimit(n) ==
    /\ Running /\ Open
    /\ HasArgs(n)
    /\ IF Len(stack) < n THEN Ends("underflow")
       ELSE /\ frame_ptr' = frame_ptr + 1
            /\ ctl' = Append(Pop(ctl, n), "call")
            /\ stack' = Pop(stack, n)
            /\ UNCHANGED <<features, try_stack, panic, status>>

\* OP_CALL, and OP_INVOKE of an Opo function: begin_call, then the function
\* stores its n arguments in its locals
Call(n) ==
    /\ Running /\ Open
    /\ HasArgs(n)
    /\ IF frame_ptr >= FRAMES_MAX
         THEN "op_error" \in features /\ RuntimeError(TRUE)
       ELSE IF Len(stack) < n THEN Ends("underflow")
       ELSE /\ frame_ptr' = frame_ptr + 1
            /\ ctl' = Append(Pop(ctl, n), "call")
            /\ stack' = Pop(stack, n)
            /\ UNCHANGED <<features, try_stack, panic, status>>

(* the frame stays *)
Leave_KeepsFrame(left, pushed) ==
    /\ frame_ptr' = frame_ptr
    /\ stack' = stack \o pushed
    /\ ctl' = SubSeq(ctl, 1, LastIndex(ctl, {"call"}) - 1) \o left
    /\ status' = IF frame_ptr = 2 THEN "halt" ELSE "run"
    /\ UNCHANGED <<features, try_stack, panic>>

\* OP_RET: the frame goes, try frames and operands stay.  left is what the
\* compiler expects on the stack of the caller, pushed what ^ pushed.
Leave(left, pushed) ==
    /\ frame_ptr' = frame_ptr - 1
    /\ stack' = stack \o pushed
    /\ ctl' = SubSeq(ctl, 1, LastIndex(ctl, {"call"}) - 1) \o left
    /\ status' = IF frame_ptr = 2 THEN "halt" ELSE "run"
    /\ UNCHANGED <<features, try_stack, panic>>

\* the value of ^ e, or of the last expression of the body, stays on the stack
ReturnValue ==
    /\ Running
    /\ HasValue
    /\ MayLeave(LastIndex(ctl, {"call"}))
    /\ Leave(<<Last(ctl)>>, <<>>)

\* the end of the body of a void function
ReturnEnd ==
    /\ Running
    /\ Path = <<>>
    /\ Leave(<<>>, <<>>)

\* ^ in a void function pushes the integer 0
ReturnVoid ==
    /\ Running
    /\ AtStatement
    /\ "void_value" \in features
    /\ MayLeave(LastIndex(ctl, {"call"}))
    /\ IF Len(stack) >= STACK_MAX THEN Ends("overflow") ELSE Leave(<<>>, <<"temp">>)

-----------------------------------------------------------------------------
(* Blocks *)

Enter(block) ==
    /\ Running /\ Open
    /\ AtStatement
    /\ ctl' = Append(ctl, block)

EnterLoop ==
    /\ Enter("loop")
    /\ UNCHANGED <<features, frame_ptr, stack, try_stack, panic, status>>

\* the end of a loop or of a catch block: no instruction but a jump
LeaveBlock ==
    /\ Running
    /\ Last(ctl) \in {"loop", "catch"}
    /\ ctl' = Pop(ctl, 1)
    /\ UNCHANGED <<features, frame_ptr, stack, try_stack, panic, status>>

\* the matched value stays on the stack until the end of the match
EnterMatch ==
    /\ Running
    /\ HasValue
    /\ IF stack = <<>>
         THEN Ends("underflow")
         ELSE /\ ctl' = Append(Pop(ctl, 1), "match")
              /\ stack' = Append(Pop(stack, 1), "match")
              /\ UNCHANGED <<features, frame_ptr, try_stack, panic, status>>

LeaveMatch ==
    /\ Running
    /\ Last(ctl) = "match"
    /\ IF stack = <<>>
         THEN Ends("underflow")
         ELSE /\ ctl' = Pop(ctl, 1)
              /\ stack' = Pop(stack, 1)
              /\ UNCHANGED <<features, frame_ptr, try_stack, panic, status>>

\* OP_TRY.  At the limit runtime_error unwinds to the newest handler, and the
\* instruction then pushes its try frame all the same.
EnterTry ==
    LET TryFrame(sp, fp) == [path |-> Path, stack_ptr |-> sp, frame_ptr |-> fp]
    IN IF Len(try_stack) < TRY_STACK_MAX
         THEN /\ Enter("try")
              /\ try_stack' = Append(try_stack, TryFrame(Len(stack), frame_ptr))
              /\ UNCHANGED <<features, frame_ptr, stack, panic, status>>
         ELSE LET F == Last(try_stack)
              IN /\ Running /\ Open
                 /\ AtStatement
                 /\ "deep_try" \in features
                 /\ Unwind(stack, TRUE,
                          <<TryFrame(Smaller(Len(stack), F.stack_ptr) + 1,
                                     Smaller(frame_ptr, F.frame_ptr))>>)

(* the compiler leaves OP_END_TRY out *)
LeaveTry_NoEndTry ==
    /\ Running
    /\ Last(ctl) = "try"
    /\ ctl' = Pop(ctl, 1)
    /\ UNCHANGED <<features, frame_ptr, stack, try_stack, panic, status>>

\* OP_END_TRY, and the jump over the catch block
LeaveTry ==
    /\ Running
    /\ Last(ctl) = "try"
    /\ ctl' = Pop(ctl, 1)
    /\ try_stack' = IF try_stack = <<>> THEN <<>> ELSE Pop(try_stack, 1)
    /\ UNCHANGED <<features, frame_ptr, stack, panic, status>>

\* . and .. jump to the end and to the head of the innermost loop
Jump(keep) ==
    LET i == LastIndex(ctl, {"loop"})
    IN /\ Running
       /\ AtStatement
       /\ i > LastIndex(ctl, {"call"})
       /\ MayLeave(i)
       /\ ctl' = SubSeq(ctl, 1, IF keep THEN i ELSE i - 1)
       /\ UNCHANGED <<features, frame_ptr, stack, try_stack, panic, status>>

Break == Jump(FALSE)
Continue == Jump(TRUE)

Ended == ~Running /\ UNCHANGED vars

Next ==
    \/ OpError \/ NativeError \/ Throw
    \/ Push \/ Drop \/ Forget
    \/ \E n \in 0 .. MaxArgs : Call(n) \/ \E void \in BOOLEAN : Invoke(n, void)
    \/ ReturnValue \/ ReturnEnd \/ ReturnVoid
    \/ EnterLoop \/ LeaveBlock \/ Break \/ Continue
    \/ EnterMatch \/ LeaveMatch
    \/ EnterTry \/ LeaveTry
    \/ Ended

Spec == Init /\ [][Next]_vars

-----------------------------------------------------------------------------
(* Properties *)

\* Every variable has its type, within the limits of vm.h.
TypeOK ==
    /\ ctl \in Seq(Operands \cup Blocks \cup {"call"})
    /\ frame_ptr \in 1 .. FRAMES_MAX
    /\ stack \in Seq(Operands) /\ Len(stack) <= STACK_MAX
    /\ try_stack \in Seq([path : Seq(Operands \cup Blocks),
                          stack_ptr : 0 .. STACK_MAX, frame_ptr : 2 .. FRAMES_MAX])
    /\ Len(try_stack) <= TRY_STACK_MAX
    /\ panic \in BOOLEAN
    /\ status \in {"run", "halt", "error", "unhandled", "overflow", "underflow"}

\* The frames are those of the calls under way: neither a return nor an error
\* that unwinds several calls at once leaves one too many or one too few.
FramesAgree == Running => frame_ptr = 1 + Count(ctl, {"call"})

\* The try frames are those of the try blocks that control is inside of,
\* innermost last, and each would resume where its own catch block starts, in
\* the frame of its own function.
TryAgrees ==
    Running =>
        LET tries == {i \in 1 .. Len(ctl) : ctl[i] = "try"}
            Upto(i) == SubSeq(ctl, 1, i - 1)
        IN /\ Len(try_stack) = Count(ctl, {"try"})
           /\ \A i \in tries :
                 LET F == try_stack[Count(SubSeq(ctl, 1, i), {"try"})]
                 IN /\ F.frame_ptr = 1 + Count(Upto(i), {"call"})
                    /\ F.path = SubSeq(ctl, LastIndex(Upto(i), {"call"}) + 1, i - 1)

\* Programs whose errors come from natives and throw, whose blocks end without
\* a value, and whose void functions end with their last statement.
Balanced == features = {}

\* The operand stack holds what the type stack of the compiler says, in order:
\* nothing is left behind by a finished statement, nothing is missing, and the
\* result of a native is where its caller looks for it.
StackAgrees ==
    Balanced /\ Running =>
        /\ Len(stack) = Count(ctl, Operands)
        /\ \A i \in 1 .. Len(ctl) :
              ctl[i] \in Operands => stack[Count(SubSeq(ctl, 1, i), Operands)] = ctl[i]

\* An error, however deep in calls and blocks, is handled by the catch block of
\* the innermost try block that control is inside of and by no other.
CaughtByInnermost ==
    [][ ctl' # <<>> /\ Last(ctl') = "catch" /\ ~IsPrefix(ctl', ctl)
          => LET i == LastIndex(ctl, {"try"})
             IN i > 0 /\ ctl' = Append(SubSeq(ctl, 1, i - 1), "catch") ]_vars
=============================================================================
