---------------------------- MODULE GenerateSpec ----------------------------
(***************************************************************************)
(* What CodeGen.Generate promises its caller (spec 4.3, 7, 8.4): a call   *)
(* on a checked module returns, in one step as the caller sees it, either *)
(* an error that has a cause, in the program or in its environment, or,   *)
(* only if every reference into its imports checks, the filesystem        *)
(* requests the reference semantics gives its targets; and a call that    *)
(* has started always returns.                                             *)
(***************************************************************************)
EXTENDS Semantics

CONSTANTS
  MaxGenerate,  \* how many times Generate is called on the same module
  Errors        \* the errors the environment may cause: imports, callables

VARIABLES
  gens,         \* Generate invocations so far
  result        \* the result of the last Generate, "running" while it runs

vars == <<prog, gens, result>>

Init ==
  /\ prog \in Programs
  /\ gens = 0
  /\ result = [state |-> "idle", reqs |-> <<>>, err |-> None]

Call ==
  /\ result.state # "running"
  /\ gens < MaxGenerate
  /\ gens' = gens + 1
  /\ result' = [state |-> "running", reqs |-> <<>>, err |-> None]
  /\ UNCHANGED prog

(* The errors the program itself gives: a target whose reference value is  *)
(* an error, a target that is not a filesystem (its Request() fails), an   *)
(* import of Main whose references do not check.                          *)
Causes ==
  {Why(RefTarget(Targets[i])) : i \in {j \in 1..Len(Targets) : IsErr(RefTarget(Targets[j]))}}
    \cup {"bad cast" : i \in {j \in 1..Len(Targets) : RefTarget(Targets[j]).kind \notin {"fs", "error"}}}
    \cup {"check references" : n \in {x \in DOMAIN Decls[Main] : Decls[Main][x].type = "import"
                                                     /\ ~CheckReferences(Main, x)}}

Succeed ==
  /\ result.state = "running"
  /\ \A i \in 1..Len(Targets) : RefTarget(Targets[i]).kind = "fs"
  /\ \A n \in DOMAIN Decls[Main] : Decls[Main][n].type = "import" => CheckReferences(Main, n)
  /\ result' = [state |-> "ok", reqs |-> [i \in 1..Len(Targets) |-> RefTarget(Targets[i])],
                err |-> None]
  /\ UNCHANGED <<prog, gens>>

Fail ==
  /\ result.state = "running"
  /\ \/ \E e \in Errors : result' = [state |-> "error", reqs |-> <<>>, err |-> e]
     \/ \E e \in Causes : result' = [state |-> "error", reqs |-> <<>>, err |-> e]
  /\ UNCHANGED <<prog, gens>>

Return == Fail \/ Succeed

Next == Call \/ Return

(* Generate runs on the caller's goroutine and waits on nothing: once     *)
(* called it keeps running until it returns.                               *)
Spec == Init /\ [][Next]_vars /\ WF_vars(Return)

=============================================================================
