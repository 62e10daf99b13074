-------------------------- MODULE AggregateTracker --------------------------
(***************************************************************************)
(* The scopes of shared/infrastructure/persistence/AggregateTracker.ts.    *)
(*                                                                         *)
(* An async context owns a stack (the array held by the AsyncLocalStorage) *)
(* of scopes (the Set pushed by begin).  The stack is given to every       *)
(* operator as an argument: which context is current is the concern of the *)
(* module that runs in it.  A context with no store and a context whose    *)
(* stack is empty behave the same in all five operations, so both are      *)
(* <<>>; a scope is the set of the event sources registered in it.         *)
(***************************************************************************)
EXTENDS Sequences, Integers

(* The scope that track, drain and peek work on.                           *)
Innermost(stack) == stack[Len(stack)]

(* A pop that is a no-op on an empty stack, as drain and clear do it.      *)
Pop(stack) == IF stack = <<>> THEN <<>> ELSE SubSeq(stack, 1, Len(stack) - 1)

(* A begin that reuses the open scope instead of pushing a new one: the    *)
(* mutant of BeginScope.                                                   *)
BeginScopeReusing(stack) == IF stack = <<>> THEN <<{}>> ELSE stack

(* begin(): creates the stack of the context if need be, opens a scope.    *)
BeginScope(stack) == Append(stack, {})

(* A registration in the outermost scope: the mutant of TrackIn.           *)
TrackInOutermost(stack, source) ==
  IF stack = <<>> THEN <<>> ELSE [stack EXCEPT ![1] = @ \cup {source}]

(* track(source): registers in the innermost scope; without one the call   *)
(* is silently dropped.                                                    *)
TrackIn(stack, source) ==
  IF stack = <<>> THEN <<>>
  ELSE [stack EXCEPT ![Len(stack)] = @ \cup {source}]

(* peek(): the sources of the innermost scope, which stays open.           *)
PeekScope(stack) == IF stack = <<>> THEN {} ELSE Innermost(stack)

(* drain() returns DrainedSources and leaves DrainScope; clear() leaves    *)
(* ClearScope and returns nothing.                                         *)
DrainedSources(stack) == PeekScope(stack)

(* A drain that only reads, as peek does: the mutant of DrainScope.        *)
DrainScopeKeeping(stack) == stack

DrainScope(stack) == Pop(stack)

(* A clear that empties the scope but leaves it on the stack: the mutant   *)
(* of ClearScope.                                                          *)
ClearScopeKeeping(stack) ==
  IF stack = <<>> THEN <<>> ELSE [stack EXCEPT ![Len(stack)] = {}]

ClearScope(stack) == Pop(stack)
=============================================================================
