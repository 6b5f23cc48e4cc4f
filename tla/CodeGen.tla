------------------------------- MODULE CodeGen -------------------------------
(***************************************************************************)
(* The HLB code generator (src/codegen/codegen.go) as a state machine.     *)
(*                                                                         *)
(* The Go code is a recursive interpreter whose values live in Registers:  *)
(* EmitBlock does not run a call statement, it hands a closure to          *)
(* Register.SetAsync, and the closure runs when the register is forced by  *)
(* Register.Value().  A closure creates fresh registers, forces them, and  *)
(* may load an imported module on the way (lookupCall).  The Go call stack *)
(* is the variable stack: one record per activation, the top one is the   *)
(* running handler, and every action is one step of one handler.           *)
(*                                                                         *)
(* The Register type is not in src/: it is modelled from the spec (3, 4.5, *)
(* 9).  Eager selects how SetAsync runs its closure: FALSE is the deferred *)
(* chain the spec describes (closures run when Value() forces the          *)
(* register), TRUE runs the closure at once and returns its error, the     *)
(* other implementation the spec allows.                                   *)
(***************************************************************************)
EXTENDS Semantics

CONSTANTS
  ImportFailures, \* what EmitImport may meet besides success: open, parse or check errors
  Eager,        \* the Register flavour (see above)
  MaxGenerate   \* how many times Generate is called on the same module

VARIABLES
  gens,      \* Generate invocations so far
  stack,     \* the Go call stack of the code generator
  reg,       \* the registers: Seq([val, chain])
  rv,        \* the value and error the last returning handler gave its caller
  data,      \* the ImportDecl objects whose Object.Data holds a module
  checked,   \* the ImportDecl objects whose CheckReferences succeeded (history)
  firstErr,  \* the first error raised during the current Generate (history)
  outcome    \* the result of the last Generate

vars == <<prog, gens, stack, reg, rv, data, checked, firstErr, outcome>>

-----------------------------------------------------------------------------
(* EmitBuiltinDecl: pick the callable by the return type captured in the  *)
(* closure's context, or by the first of the builtin's kinds that has one; *)
(* append the generator's extra solve options to the call's options;      *)
(* reflect the arguments; call it.  The callable itself (the build engine, *)
(* cancellation) may fail: fails is that choice.                           *)

CallableKind(c) ==
  IF c.rt # None THEN c.rt
  ELSE LET ks == {i \in DOMAIN Builtins[c.name] : c.name \in Callables[Builtins[c.name][i]]}
       IN IF ks = {} THEN None ELSE Builtins[c.name][CHOOSE i \in ks : \A j \in ks : i <= j]

(* Variant: the extra solve options are not appended. *)
EmitBuiltinDeclNoExtra(c, v, fails) ==
  CASE CallableKind(c) = None \/ c.name \notin Callables[CallableKind(c)] ->
         Err("unrecognized builtin")
    [] \E i \in DOMAIN c.args : IsErr(c.args[i]) -> Err("bad cast")
    [] fails -> Err("call failed: " \o c.name)
    [] OTHER -> Applied(CallableKind(c), v, c.name, c.args, c.opts)

EmitBuiltinDecl(c, v, fails) ==
  CASE CallableKind(c) = None \/ c.name \notin Callables[CallableKind(c)] ->
         Err("unrecognized builtin")
    [] \E i \in DOMAIN c.args : IsErr(c.args[i]) -> Err("bad cast")
    [] fails -> Err("call failed: " \o c.name)
    [] OTHER -> Applied(CallableKind(c), v, c.name, c.args, c.opts \o ExtraSolveOpts)


-----------------------------------------------------------------------------
(* Module instances.  EmitImport parses the imported file afresh and       *)
(* lookupCall caches the module on the ImportDecl object of the importing *)
(* instance, so each import followed from Main gives a new instance with   *)
(* its own, empty, cache; a module reached twice (through a cycle, or two  *)
(* importers) is two instances.  An instance is named by the sequence of   *)
(* import names followed from Main, and an ImportDecl object is the pair   *)
(* of its instance and its name.                                           *)
InstScope(m, i) == [RootScope(m) EXCEPT !.inst = i]

-----------------------------------------------------------------------------
(* Stack helpers. *)

Top == stack[Len(stack)]
Replace(f) == stack' = [stack EXCEPT ![Len(stack)] = f]
Push(f) == stack' = Append(stack, f)
PushOver(top, f) == stack' = Append([stack EXCEPT ![Len(stack)] = top], f)
Pop == SubSeq(stack, 1, Len(stack) - 1)
Return(val, err) == /\ stack' = Pop
                    /\ rv' = [val |-> val, err |-> err]
Raise(why) == firstErr' = IF firstErr = None THEN why ELSE firstErr

NewReg(v) == [val |-> v, chain |-> <<>>]
(* Set stores v as the register's value unless it has already failed, and *)
(* supersedes the closures still queued on it: Value() returns the last    *)
(* value stored (spec 8.3, Register invariant 3).                          *)
RegSet(r, v) == [reg EXCEPT ![r].val = IF IsErr(@) THEN @ ELSE v, ![r].chain = <<>>]
RegSetAsync(r, c) == [reg EXCEPT ![r].chain = Append(@, c)]
ForceFrame(r, flush) == [fn |-> "Force", r |-> r, pc |-> "next", flush |-> flush]

-----------------------------------------------------------------------------
(* Generate: for each target, emit the target identifier into a fresh      *)
(* register, force it and convert the value to a request.  The debugger is *)
(* the no-op one that New installs.                                        *)

(* Variant: Generate runs whatever the number of earlier invocations. *)
GenerateStartUnbounded ==
  /\ stack = <<>>
  /\ gens' = gens + 1
  /\ stack' = <<[fn |-> "Gen", pc |-> "loop", i |-> 1, ret |-> 0, reqs |-> <<>>]>>
  /\ reg' = <<>>
  /\ firstErr' = None
  /\ outcome' = [state |-> "running", reqs |-> <<>>, err |-> None]
  /\ UNCHANGED <<prog, rv, data, checked>>

GenerateStart ==
  /\ stack = <<>>
  /\ gens < MaxGenerate
  /\ gens' = gens + 1
  /\ stack' = <<[fn |-> "Gen", pc |-> "loop", i |-> 1, ret |-> 0, reqs |-> <<>>]>>
  /\ reg' = <<>>
  /\ firstErr' = None
  /\ outcome' = [state |-> "running", reqs |-> <<>>, err |-> None]
  /\ UNCHANGED <<prog, rv, data, checked>>

Finish(state, reqs, err) ==
  /\ stack' = <<>>
  /\ outcome' = [state |-> state, reqs |-> reqs, err |-> err]

GenerateTarget ==
  /\ stack # <<>> /\ Top.fn = "Gen" /\ Top.pc = "loop"
  /\ Top.i <= Len(Targets)
  /\ IF Targets[Top.i] \notin DOMAIN Decls[Main]
       THEN /\ Finish("error", <<>>, "target not defined")
            /\ Raise("target not defined")
            /\ UNCHANGED reg
       ELSE /\ reg' = Append(reg, NewReg(Zero))
            /\ PushOver([Top EXCEPT !.pc = "emitted", !.ret = Len(reg) + 1],
                        [fn |-> "Ident", scope |-> InstScope(Main, <<>>), name |-> Targets[Top.i],
                         ref |-> NoRef, args |-> <<>>, opts |-> <<>>, b |-> None,
                         ret |-> Len(reg) + 1, rt |-> None])
            /\ UNCHANGED <<outcome, firstErr>>
  /\ UNCHANGED <<prog, gens, rv, data, checked>>

GenerateEmitted ==
  /\ stack # <<>> /\ Top.fn = "Gen" /\ Top.pc = "emitted"
  /\ IF rv.err # None
       THEN Finish("error", <<>>, rv.err)
       ELSE /\ PushOver([Top EXCEPT !.pc = "forced"], ForceFrame(Top.ret, FALSE))
            /\ UNCHANGED outcome
  /\ UNCHANGED <<prog, gens, reg, rv, data, checked, firstErr>>

GenerateForcedNoCast ==
  /\ stack # <<>> /\ Top.fn = "Gen" /\ Top.pc = "forced"
  /\ IF IsErr(rv.val)
       THEN /\ Finish("error", <<>>, Why(rv.val))
            /\ UNCHANGED firstErr
       ELSE /\ Replace([Top EXCEPT !.pc = "loop", !.i = @ + 1,
                                   !.reqs = Append(@, rv.val)])
            /\ UNCHANGED <<outcome, firstErr>>
  /\ UNCHANGED <<prog, gens, reg, rv, data, checked>>

GenerateForced ==
  /\ stack # <<>> /\ Top.fn = "Gen" /\ Top.pc = "forced"
  /\ CASE IsErr(rv.val) ->
            /\ Finish("error", <<>>, Why(rv.val))
            /\ UNCHANGED firstErr
       [] rv.val.kind # "fs" ->
            /\ Finish("error", <<>>, "bad cast")
            /\ Raise("bad cast")
       [] OTHER ->
            /\ Replace([Top EXCEPT !.pc = "loop", !.i = @ + 1,
                                   !.reqs = Append(@, rv.val)])
            /\ UNCHANGED <<outcome, firstErr>>
  /\ UNCHANGED <<prog, gens, reg, rv, data, checked>>

GenerateDone ==
  /\ stack # <<>> /\ Top.fn = "Gen" /\ Top.pc = "loop"
  /\ Top.i > Len(Targets)
  /\ Finish("ok", Top.reqs, None)
  /\ UNCHANGED <<prog, gens, reg, rv, data, checked, firstErr>>

-----------------------------------------------------------------------------
(* EmitIdentExpr: resolve the name in the frame's scope and act on the     *)
(* object it names.  One action per kind of object.                        *)

IdentFrameObj == Lookup(Top.scope, Top.name)

IdentUndefined ==
  /\ stack # <<>> /\ Top.fn = "Ident"
  /\ IdentFrameObj.type = None
  /\ Return(Zero, "undefined: " \o Top.name)
  /\ Raise("undefined: " \o Top.name)
  /\ UNCHANGED <<prog, gens, reg, data, checked, outcome>>

(* A builtin becomes a closure on the return register; it captures the     *)
(* context's return type, the arguments, the options and the binding.      *)
(* With the eager register SetAsync runs it now and returns its error.     *)
IdentBuiltin ==
  /\ stack # <<>> /\ Top.fn = "Ident"
  /\ IdentFrameObj.type = "builtin"
  /\ reg' = RegSetAsync(Top.ret, [type |-> "builtin", name |-> Top.name, rt |-> Top.rt,
                                  args |-> Top.args, opts |-> Top.opts, b |-> Top.b])
  /\ IF Eager THEN /\ Replace(ForceFrame(Top.ret, TRUE))
                   /\ UNCHANGED rv
              ELSE Return(Zero, None)
  /\ UNCHANGED <<prog, gens, data, checked, firstErr, outcome>>

(* EmitFuncDecl (tail call): check arity, open a scope holding the         *)
(* arguments, then EmitBlock of the body with the function's kind as the   *)
(* return type.  A function reached by name gets no binding, and the call's *)
(* options are not passed on (EmitFuncDecl(ctx, n, args, nil, ret)).       *)
IdentFunc ==
  /\ stack # <<>> /\ Top.fn = "Ident"
  /\ IdentFrameObj.type = "func"
  /\ LET fun == IdentFrameObj IN
     IF Len(fun.params) # Len(Top.args)
       THEN /\ Return(Zero, "arity: " \o Top.name)
            /\ Raise("arity: " \o Top.name)
       ELSE /\ Replace([fn |-> "Block",
                        scope |-> [FuncScope(fun.mod, fun, Top.args) EXCEPT !.inst = Top.scope.inst],
                        stmts |-> fun.body, idx |-> 1, pc |-> "stmt", b |-> None,
                        ret |-> Top.ret, rt |-> fun.kind])
            /\ UNCHANGED <<rv, firstErr>>
  /\ UNCHANGED <<prog, gens, reg, data, checked, outcome>>

(* An import must already hold its module (lookupCall installs it); the    *)
(* reference is then resolved again in the imported module's scope.        *)
IdentImport ==
  /\ stack # <<>> /\ Top.fn = "Ident"
  /\ IdentFrameObj.type = "import"
  /\ IF <<Top.scope.inst, Top.name>> \notin data
       THEN /\ Return(Zero, "import not resolved")
            /\ Raise("import not resolved")
       ELSE /\ Replace([Top EXCEPT !.scope = InstScope(IdentFrameObj.path,
                                                        Append(Top.scope.inst, Top.name)),
                                   !.name = Top.ref, !.ref = NoRef, !.b = None])
            /\ UNCHANGED <<rv, firstErr>>
  /\ UNCHANGED <<prog, gens, reg, data, checked, outcome>>

(* A parameter: unless both it and the register's value ret.Value() are   *)
(* options, its value replaces the register's; two option lists are       *)
(* appended, the register's first.                                          *)
FieldSet(val, cur) ==
  IF val.kind # "option" \/ cur.kind # "option" THEN val
  ELSE [val EXCEPT !.ops = cur.ops \o val.ops]

IdentField ==
  /\ stack # <<>> /\ Top.fn = "Ident"
  /\ IdentFrameObj.type = "field"
  /\ reg' = RegSet(Top.ret, FieldSet(IdentFrameObj.val, reg[Top.ret].val))
  /\ Return(Zero, None)
  /\ UNCHANGED <<prog, gens, data, checked, firstErr, outcome>>

-----------------------------------------------------------------------------
(* EmitBlock: every statement is fed into the same return register.  A    *)
(* call statement or a call expression becomes a SetAsync closure; a       *)
(* literal expression is a synchronous Set.                                *)

BlockStmt == Top.stmts[Top.idx]

BlockSetAsync ==
  /\ stack # <<>> /\ Top.fn = "Block" /\ Top.pc = "stmt"
  /\ Top.idx <= Len(Top.stmts)
  /\ BlockStmt.type = "call"
  /\ reg' = RegSetAsync(Top.ret, [type |-> BlockStmt.form, scope |-> Top.scope,
                                  call |-> BlockStmt, b |-> Top.b, rt |-> Top.rt])
  /\ IF Eager THEN PushOver([Top EXCEPT !.pc = "wait"], ForceFrame(Top.ret, TRUE))
              ELSE Replace([Top EXCEPT !.idx = @ + 1])
  /\ UNCHANGED <<prog, gens, rv, data, checked, firstErr, outcome>>

BlockLit ==
  /\ stack # <<>> /\ Top.fn = "Block" /\ Top.pc = "stmt"
  /\ Top.idx <= Len(Top.stmts)
  /\ BlockStmt.type = "lit"
  /\ reg' = RegSet(Top.ret, LitVal(BlockStmt.lit))
  /\ Replace([Top EXCEPT !.idx = @ + 1])
  /\ UNCHANGED <<prog, gens, rv, data, checked, firstErr, outcome>>

(* A function literal statement: EmitFuncLit emits its block, in the same *)
(* scope and with the same binding, into the block's own register.         *)
BlockFuncLit ==
  /\ stack # <<>> /\ Top.fn = "Block" /\ Top.pc = "stmt"
  /\ Top.idx <= Len(Top.stmts)
  /\ BlockStmt.type = "funclit"
  /\ PushOver([Top EXCEPT !.pc = "wait"],
              [fn |-> "Block", scope |-> Top.scope, stmts |-> BlockStmt.body, idx |-> 1,
               pc |-> "stmt", b |-> Top.b, ret |-> Top.ret, rt |-> Top.rt])
  /\ UNCHANGED <<prog, gens, reg, rv, data, checked, firstErr, outcome>>

(* SetAsync of the eager register, or a function literal's block, has     *)
(* returned; an error ends the block.                                      *)
BlockWait ==
  /\ stack # <<>> /\ Top.fn = "Block" /\ Top.pc = "wait"
  /\ IF rv.err # None
       THEN Return(Zero, rv.err)
       ELSE /\ Replace([Top EXCEPT !.idx = @ + 1, !.pc = "stmt"])
            /\ UNCHANGED rv
  /\ UNCHANGED <<prog, gens, reg, data, checked, firstErr, outcome>>

BlockDone ==
  /\ stack # <<>> /\ Top.fn = "Block" /\ Top.pc = "stmt"
  /\ Top.idx > Len(Top.stmts)
  /\ Return(Zero, None)
  /\ UNCHANGED <<prog, gens, reg, data, checked, firstErr, outcome>>

-----------------------------------------------------------------------------
(* Register.Value(): run the pending closures in insertion order, each on  *)
(* the value the previous one left; an error is terminal and drops the     *)
(* rest.  A flush is SetAsync of the eager register: it returns the error. *)

ForceReg == reg[Top.r]

ForceReturn ==
  /\ stack # <<>> /\ Top.fn = "Force" /\ Top.pc = "next"
  /\ IsErr(ForceReg.val) \/ ForceReg.chain = <<>>
  /\ reg' = [reg EXCEPT ![Top.r].chain = <<>>]
  /\ Return(ForceReg.val,
            IF Top.flush /\ IsErr(ForceReg.val) THEN Why(ForceReg.val) ELSE None)
  /\ UNCHANGED <<prog, gens, data, checked, firstErr, outcome>>

ForceBuiltin ==
  /\ stack # <<>> /\ Top.fn = "Force" /\ Top.pc = "next"
  /\ ~IsErr(ForceReg.val) /\ ForceReg.chain # <<>>
  /\ Head(ForceReg.chain).type = "builtin"
  /\ \E fails \in BOOLEAN :
       LET v == EmitBuiltinDecl(Head(ForceReg.chain), ForceReg.val, fails)
       IN /\ reg' = [reg EXCEPT ![Top.r] = [val |-> v, chain |-> Tail(@.chain)]]
          /\ IF IsErr(v) THEN Raise(Why(v)) ELSE UNCHANGED firstErr
  /\ UNCHANGED <<prog, gens, stack, rv, data, checked, outcome>>

ForceClosure ==
  /\ stack # <<>> /\ Top.fn = "Force" /\ Top.pc = "next"
  /\ ~IsErr(ForceReg.val) /\ ForceReg.chain # <<>>
  /\ Head(ForceReg.chain).type # "builtin"
  /\ LET c == Head(ForceReg.chain) IN
       /\ reg' = [reg EXCEPT ![Top.r].chain = Tail(@)]
       /\ PushOver([Top EXCEPT !.pc = "wait"],
                   [fn |-> "Closure", scope |-> c.scope, call |-> c.call, b |-> c.b,
                    rt |-> c.rt, v |-> ForceReg.val, pc |-> "lookup", r2 |-> 0, err |-> None])
  /\ UNCHANGED <<prog, gens, rv, data, checked, firstErr, outcome>>

ForceResume ==
  /\ stack # <<>> /\ Top.fn = "Force" /\ Top.pc = "wait"
  /\ reg' = [reg EXCEPT ![Top.r].val = IF rv.err # None THEN Err(rv.err) ELSE rv.val]
  /\ Replace([Top EXCEPT !.pc = "next"])
  /\ UNCHANGED <<prog, gens, rv, data, checked, firstErr, outcome>>

-----------------------------------------------------------------------------
(* The closure EmitBlock (and EmitExpr, for a call expression) hands to    *)
(* SetAsync.  It receives the register's value v, resolves the callee      *)
(* with lookupCall, which installs an import's module the first time it is *)
(* named, feeds v into a fresh register, emits the call into it, forces it *)
(* and returns its value together with the emit error.                     *)

ClosureObj == Lookup(Top.scope, Top.call.name)
ClosureImportObj == <<Top.scope.inst, Top.call.name>>

(* lookupCall resolves the callee first: an undefined name is an error.   *)
(* A checked module resolves every name, but EmitFuncDecl leaves variadic *)
(* parameters out of the function scope.                                   *)
ClosureUndefined ==
  /\ stack # <<>> /\ Top.fn = "Closure" /\ Top.pc = "lookup"
  /\ ClosureObj.type = None
  /\ Return(Zero, "undefined: " \o Top.call.name)
  /\ Raise("undefined: " \o Top.call.name)
  /\ UNCHANGED <<prog, gens, reg, data, checked, outcome>>

ClosureResolved ==
  /\ stack # <<>> /\ Top.fn = "Closure" /\ Top.pc = "lookup"
  /\ ClosureObj.type # None
  /\ ClosureObj.type = "import" => ClosureImportObj \in data
  /\ Replace([Top EXCEPT !.pc = "call"])
  /\ UNCHANGED <<prog, gens, reg, rv, data, checked, firstErr, outcome>>

(* EmitImport fails: the file is missing (ImportPathNotExist), cannot be   *)
(* opened, or the imported module does not parse or check.                 *)
ImportFails ==
  /\ stack # <<>> /\ Top.fn = "Closure" /\ Top.pc = "lookup"
  /\ ClosureObj.type = "import" /\ ClosureImportObj \notin data
  /\ \E why \in ImportFailures : /\ Return(Zero, why)
                                 /\ Raise(why)
  /\ UNCHANGED <<prog, gens, reg, data, checked, outcome>>

(* EmitImport succeeds: the module is installed on the import object       *)
(* (obj.Data = imod) and only then are the importer's references to it     *)
(* checked.                                                                *)
(* Variant: lookupCall checks the import but never stores it in obj.Data. *)
ImportLoadsNoInstall ==
  /\ stack # <<>> /\ Top.fn = "Closure" /\ Top.pc = "lookup"
  /\ ClosureObj.type = "import" /\ ClosureImportObj \notin data
  /\ IF CheckReferences(Top.scope.mod, Top.call.name)
       THEN /\ checked' = checked \cup {ClosureImportObj}
            /\ Replace([Top EXCEPT !.pc = "call"])
            /\ UNCHANGED <<rv, firstErr>>
       ELSE /\ Return(Zero, "check references")
            /\ Raise("check references")
            /\ UNCHANGED checked
  /\ UNCHANGED <<prog, gens, reg, data, outcome>>

ImportLoads ==
  /\ stack # <<>> /\ Top.fn = "Closure" /\ Top.pc = "lookup"
  /\ ClosureObj.type = "import" /\ ClosureImportObj \notin data
  /\ data' = data \cup {ClosureImportObj}
  /\ IF CheckReferences(Top.scope.mod, Top.call.name)
       THEN /\ checked' = checked \cup {ClosureImportObj}
            /\ Replace([Top EXCEPT !.pc = "call"])
            /\ UNCHANGED <<rv, firstErr>>
       ELSE /\ Return(Zero, "check references")
            /\ Raise("check references")
            /\ UNCHANGED checked
  /\ UNCHANGED <<prog, gens, reg, outcome>>

(* Variant: the fresh register does not receive the incoming value. *)
ClosureCallNoSet ==
  /\ stack # <<>> /\ Top.fn = "Closure" /\ Top.pc = "call"
  /\ reg' = Append(reg, NewReg(Zero))
  /\ PushOver([Top EXCEPT !.pc = "emit", !.r2 = Len(reg) + 1],
              [fn |-> "Call", scope |-> Top.scope, call |-> Top.call, b |-> Top.b,
               ret |-> Len(reg) + 1, rt |-> Top.rt, idx |-> 1, vals |-> <<>>,
               opts |-> <<>>, wait |-> "", r |-> 0, pc |-> "args"])
  /\ UNCHANGED <<prog, gens, rv, data, checked, firstErr, outcome>>

(* Variant: the call is emitted into the register being forced. *)
ClosureCallSameReg ==
  /\ stack # <<>> /\ Top.fn = "Closure" /\ Top.pc = "call"
  /\ LET r == stack[Len(stack) - 1].r IN
       /\ reg' = reg
       /\ PushOver([Top EXCEPT !.pc = "emit", !.r2 = r],
                   [fn |-> "Call", scope |-> Top.scope, call |-> Top.call, b |-> Top.b,
                    ret |-> r, rt |-> Top.rt, idx |-> 1, vals |-> <<>>,
                    opts |-> <<>>, wait |-> "", r |-> 0, pc |-> "args"])
  /\ UNCHANGED <<prog, gens, rv, data, checked, firstErr, outcome>>

ClosureCall ==
  /\ stack # <<>> /\ Top.fn = "Closure" /\ Top.pc = "call"
  /\ reg' = Append(reg, NewReg(Top.v))
  /\ PushOver([Top EXCEPT !.pc = "emit", !.r2 = Len(reg) + 1],
              [fn |-> "Call", scope |-> Top.scope, call |-> Top.call, b |-> Top.b,
               ret |-> Len(reg) + 1, rt |-> Top.rt, idx |-> 1, vals |-> <<>>,
               opts |-> <<>>, wait |-> "", r |-> 0, pc |-> "args"])
  /\ UNCHANGED <<prog, gens, rv, data, checked, firstErr, outcome>>

ClosureEmitted ==
  /\ stack # <<>> /\ Top.fn = "Closure" /\ Top.pc = "emit"
  /\ PushOver([Top EXCEPT !.pc = "force", !.err = rv.err], ForceFrame(Top.r2, FALSE))
  /\ UNCHANGED <<prog, gens, reg, rv, data, checked, firstErr, outcome>>

(* Variant: the closure returns the value but drops the emit error. *)
ClosureForcedNoErr ==
  /\ stack # <<>> /\ Top.fn = "Closure" /\ Top.pc = "force"
  /\ Return(rv.val, None)
  /\ UNCHANGED <<prog, gens, reg, data, checked, firstErr, outcome>>

ClosureForced ==
  /\ stack # <<>> /\ Top.fn = "Closure" /\ Top.pc = "force"
  /\ Return(rv.val, Top.err)
  /\ UNCHANGED <<prog, gens, reg, data, checked, firstErr, outcome>>

-----------------------------------------------------------------------------
(* EmitCallStmt / EmitCallExpr: Evaluate the arguments, each into its own  *)
(* register in the kind of the callee's signature, forcing it at once,    *)
(* then a call statement's with clause, then EmitIdentExpr of the callee   *)
(* with the argument values and the options.  The debugger is the no-op   *)
(* one; breakpoints are not modelled (see the README).                    *)

CallArg == Top.call.args[Top.idx]

(* Evaluate of one expression: EmitExpr into a fresh register with the    *)
(* kind as its return type, then Value().  A literal is Set, a call        *)
(* expression queues its closure (SetAsync, which the eager register runs *)
(* at once and reports), a function literal emits its block into the      *)
(* register (EmitFuncLit), which is then forced.                           *)
ExprReg(e, k, b) ==
  CASE e.type = "lit" -> NewReg(LitVal(e.lit))
    [] e.type = "call" -> [val |-> Zero,
                           chain |-> <<[type |-> "expr", scope |-> Top.scope, call |-> e,
                                        b |-> b, rt |-> k]>>]
    [] OTHER -> NewReg(Zero)

Evaluate(e, k, b, wait) ==
  /\ reg' = Append(reg, ExprReg(e, k, b))
  /\ IF e.type = "funclit"
       THEN PushOver([Top EXCEPT !.pc = "block", !.wait = wait, !.r = Len(reg) + 1],
                     [fn |-> "Block", scope |-> Top.scope, stmts |-> e.body, idx |-> 1,
                      pc |-> "stmt", b |-> b, ret |-> Len(reg) + 1, rt |-> k])
       ELSE PushOver([Top EXCEPT !.pc = wait, !.r = Len(reg) + 1],
                     ForceFrame(Len(reg) + 1, Eager))

EvaluateArg ==
  /\ stack # <<>> /\ Top.fn = "Call" /\ Top.pc = "args"
  /\ Top.idx <= Len(Top.call.args)
  /\ Evaluate(CallArg, Top.call.sig[Top.idx], None, "argwait")
  /\ UNCHANGED <<prog, gens, rv, data, checked, firstErr, outcome>>

(* A function literal's block has been emitted: its error is returned,    *)
(* otherwise the register is forced.                                       *)
EvaluateBlockDone ==
  /\ stack # <<>> /\ Top.fn = "Call" /\ Top.pc = "block"
  /\ IF rv.err # None
       THEN Return(Zero, rv.err)
       ELSE /\ PushOver([Top EXCEPT !.pc = Top.wait], ForceFrame(Top.r, FALSE))
            /\ UNCHANGED rv
  /\ UNCHANGED <<prog, gens, reg, data, checked, firstErr, outcome>>

(* The eager register reports the argument's error from SetAsync; the      *)
(* deferred one has nothing to report and Value() hands back the error.    *)
(* Variant: Evaluate ignores the error of an argument's SetAsync. *)
EvaluateArgDoneNoErr ==
  /\ stack # <<>> /\ Top.fn = "Call" /\ Top.pc = "argwait"
  /\ Replace([Top EXCEPT !.pc = "args", !.idx = @ + 1, !.vals = Append(@, rv.val)])
  /\ UNCHANGED <<prog, gens, reg, rv, data, checked, firstErr, outcome>>

EvaluateArgDone ==
  /\ stack # <<>> /\ Top.fn = "Call" /\ Top.pc = "argwait"
  /\ IF rv.err # None
       THEN Return(Zero, rv.err)
       ELSE /\ Replace([Top EXCEPT !.pc = "args", !.idx = @ + 1, !.vals = Append(@, rv.val)])
            /\ UNCHANGED rv
  /\ UNCHANGED <<prog, gens, reg, data, checked, firstErr, outcome>>

ArgsDone == Top.pc = "args" /\ Top.idx > Len(Top.call.args)

(* A call statement's with clause is evaluated like an argument, into a   *)
(* register of kind Option::<callee> (the hint that picks the option      *)
(* callable), with access to the binding; Option() casts its value.       *)
EvaluateWith ==
  /\ stack # <<>> /\ Top.fn = "Call" /\ ArgsDone
  /\ Top.call.with # <<>>
  /\ Evaluate(Top.call.with[1], OptionKind(Top.call.name), Top.b, "withwait")
  /\ UNCHANGED <<prog, gens, rv, data, checked, firstErr, outcome>>

EvaluateWithDone ==
  /\ stack # <<>> /\ Top.fn = "Call" /\ Top.pc = "withwait"
  /\ CASE rv.err # None -> /\ Return(Zero, rv.err)
                           /\ UNCHANGED firstErr
       [] rv.val.kind # "option" -> /\ Return(Zero, "bad cast")
                                   /\ Raise("bad cast")
       [] OTHER -> /\ Replace([Top EXCEPT !.pc = "dispatch", !.opts = rv.val.ops])
                   /\ UNCHANGED <<rv, firstErr>>
  /\ UNCHANGED <<prog, gens, reg, data, checked, outcome>>

CallDispatch ==
  /\ stack # <<>> /\ Top.fn = "Call"
  /\ \/ ArgsDone /\ Top.call.with = <<>>
     \/ Top.pc = "dispatch"
  /\ Replace([fn |-> "Ident", scope |-> Top.scope, name |-> Top.call.name,
              ref |-> Top.call.ref, args |-> Top.vals, opts |-> Top.opts, b |-> None,
              ret |-> Top.ret, rt |-> Top.rt])
  /\ UNCHANGED <<prog, gens, reg, rv, data, checked, firstErr, outcome>>

-----------------------------------------------------------------------------
Init ==
  /\ prog \in Programs
  /\ gens = 0
  /\ stack = <<>>
  /\ reg = <<>>
  /\ rv = [val |-> Zero, err |-> None]
  /\ data = {}
  /\ checked = {}
  /\ firstErr = None
  /\ outcome = [state |-> "idle", reqs |-> <<>>, err |-> None]

(* Every Generate has returned: the program stops. *)
Done ==
  /\ stack = <<>> /\ gens = MaxGenerate
  /\ UNCHANGED vars

Next ==
  \/ GenerateStart \/ GenerateTarget \/ GenerateEmitted \/ GenerateForced \/ GenerateDone
  \/ IdentUndefined \/ IdentBuiltin \/ IdentFunc \/ IdentImport \/ IdentField
  \/ BlockSetAsync \/ BlockLit \/ BlockFuncLit \/ BlockWait \/ BlockDone
  \/ ForceReturn \/ ForceBuiltin \/ ForceClosure \/ ForceResume
  \/ ClosureUndefined \/ ClosureResolved \/ ImportFails \/ ImportLoads
  \/ ClosureCall \/ ClosureEmitted \/ ClosureForced
  \/ EvaluateArg \/ EvaluateBlockDone \/ EvaluateArgDone \/ EvaluateWith \/ EvaluateWithDone \/ CallDispatch
  \/ Done

Spec == Init /\ [][Next]_vars

(* The generator is one goroutine that waits on nothing the model leaves  *)
(* out: while it has a step to take it takes one.                          *)
FairSpec == Spec /\ WF_vars(Next)

-----------------------------------------------------------------------------
FrameKinds == {"Gen", "Ident", "Block", "Force", "Closure", "Call"}

(* Types of the generator's state; in particular every import lookupCall  *)
(* has checked is one it has stored in obj.Data (codegen.go 528-530).      *)
TypeOK ==
  /\ prog \in Programs
  /\ gens \in 0..MaxGenerate
  /\ \A i \in DOMAIN stack : stack[i].fn \in FrameKinds
  /\ \A r \in DOMAIN reg : reg[r].val.kind \in {None, "error", "fs", "string", "option"}
  /\ rv.err \in STRING
  /\ \A o \in data : o[1] \in Seq(STRING) /\ o[2] \in STRING
  /\ checked \subseteq data
  /\ outcome.state \in {"idle", "running", "ok", "error"}

(* Block ordering and composition (spec 8.4): when Generate succeeds, each *)
(* request is the value the reference semantics gives its target, so every *)
(* statement saw exactly the value of the statement before it, through     *)
(* function calls, imports, argument registers and deferred closures.      *)
GenerateMatchesReference ==
  outcome.state = "ok" =>
    outcome.reqs = [i \in 1..Len(Targets) |-> RefTarget(Targets[i])]

(* Error propagation (spec 7): Generate succeeds only if no error was      *)
(* raised while it ran (by a builtin, an import, a lookup or a cast), and  *)
(* when it fails it returns the first error raised.                        *)
FirstErrorReturned ==
  /\ outcome.state = "ok" => firstErr = None
  /\ outcome.state = "error" => outcome.err = firstErr

(* Kind safety across modules: a request Generate returns was built only  *)
(* by filesystem callables, so no step of it ran a function of another     *)
(* kind, here one reached through a qualified reference into an import.    *)
RequestsWellKinded ==
  outcome.state = "ok" =>
    \A i \in DOMAIN outcome.reqs :
      \A j \in DOMAIN outcome.reqs[i].ops : outcome.reqs[i].ops[j].fn \in Callables["fs"]

(* EmitIdentExpr only re-dispatches into an imported module whose          *)
(* qualified references from the importer passed CheckReferences: the     *)
(* import cached by lookupCall is a checked one (spec 3, Scope inv. 2).    *)
ImportDispatchChecked ==
  (stack # <<>> /\ Top.fn = "Ident" /\ IdentFrameObj.type = "import"
                /\ <<Top.scope.inst, Top.name>> \in data)
    => <<Top.scope.inst, Top.name>> \in checked

(* Register.Value() is never re-entered: no register is forced again from *)
(* inside one of its own closures, and when EmitIdentExpr reads           *)
(* ret.Value() to merge a parameter's options, ret has no pending closure  *)
(* and is not being forced, so the read forces nothing (codegen.go 306).  *)
(* A re-entrant force would run the chain out of order or wait on itself. *)
ForceNotReentrant ==
  /\ \A i, j \in DOMAIN stack :
       (i < j /\ stack[i].fn = "Force" /\ stack[j].fn = "Force") => stack[i].r # stack[j].r
  /\ (stack # <<>> /\ Top.fn = "Ident" /\ IdentFrameObj.type = "field")
       => /\ reg[Top.ret].chain = <<>>
          /\ \A i \in DOMAIN stack : stack[i].fn = "Force" => stack[i].r # Top.ret

=============================================================================
