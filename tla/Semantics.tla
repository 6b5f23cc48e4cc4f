------------------------------ MODULE Semantics ------------------------------
(***************************************************************************)
(* The program a code generator runs on, and what it means: the checked   *)
(* module declarations, values and scopes as src/codegen/codegen.go uses   *)
(* them, the checker's CheckReferences, and the reference semantics of     *)
(* spec 8.4 that every implementation of Generate must agree with.         *)
(***************************************************************************)
EXTENDS Naturals, Sequences, FiniteSets

CONSTANTS
  Programs,     \* checked programs: [decls |-> [module -> [name -> object]], targets |-> Seq(name)]
  Main,         \* the module handed to Generate
  Builtins,     \* BuiltinDecl.Kinds: [builtin name -> Seq(kind)]
  Callables,    \* codegen.Callables: [kind -> set of builtin names]
  NoRef,        \* the Reference of an unqualified identifier
  ExtraSolveOpts \* cg.extraSolveOpts (WithExtraSolveOpts): options every builtin call gets

VARIABLE prog   \* the program being generated (fixed for a behaviour)

Decls == prog.decls
Targets == prog.targets
None == "none"

-----------------------------------------------------------------------------
(* Values.  A value records the builtins that produced it, in the order    *)
(* they ran, with the argument values and the options each received; this *)
(* is what the build engine would see of a Filesystem.  An option value    *)
(* (kind Option::<callee>, whose Kind() is Option) is its list of option   *)
(* fragments, each one the option builtin that made it.  An error is a    *)
(* value of kind "error": Register.Value() has no error result, it        *)
(* returns the error.                                                      *)

Zero == [kind |-> None, ops |-> <<>>]
Err(why) == [kind |-> "error", ops |-> <<[fn |-> why, args |-> <<>>, opts |-> <<>>]>>]
IsErr(v) == v.kind = "error"
Why(v) == v.ops[1].fn
LitVal(l) == [kind |-> "string", ops |-> <<[fn |-> l, args |-> <<>>, opts |-> <<>>]>>]
OptionKind(n) == "option::" \o n
Primary(k) == IF \E n \in DOMAIN Builtins : k = OptionKind(n) THEN "option" ELSE k
(* Applied: the callee's result, of its kind.  The callable's conversion  *)
(* of the incoming value (a bad cast on a kind mismatch) is not modelled:  *)
(* the callables are outside src/, and checked programs never mismatch.    *)
Applied(k, v, name, args, opts) ==
  [kind |-> Primary(k), ops |-> Append(v.ops, [fn |-> name, args |-> args, opts |-> opts])]

(* Scopes: a function scope binds parameter names to Field objects whose  *)
(* Data is the argument value; Lookup walks out to the module and the      *)
(* builtins.  EmitFuncDecl inserts only the parameters without a modifier: *)
(* a variadic parameter is skipped.                                        *)
RootScope(m) == [mod |-> m, inst |-> <<>>, binds |-> <<>>]
FuncScope(m, fun, args) ==
  [mod |-> m, inst |-> <<>>,
   binds |-> [n \in {fun.params[i].name : i \in {j \in DOMAIN fun.params : ~fun.params[j].variadic}} |->
                args[CHOOSE i \in DOMAIN fun.params : fun.params[i].name = n]]]

Lookup(scope, n) ==
  CASE n \in DOMAIN scope.binds -> [type |-> "field", val |-> scope.binds[n]]
    [] n \in DOMAIN Decls[scope.mod] -> [Decls[scope.mod][n] EXCEPT !.mod = scope.mod]
    [] n \in DOMAIN Builtins -> [type |-> "builtin", kinds |-> Builtins[n]]
    [] OTHER -> [type |-> None]

-----------------------------------------------------------------------------
(* CheckReferences (checker, not in src; spec 4.3): every qualified        *)
(* reference imp.member of module m names a function of the imported      *)
(* module whose kind is the kind its context expects: in arguments, with  *)
(* clauses and the blocks of function literals.                            *)

RECURSIVE ExprRefs(_, _, _)
ExprRefs(e, k, imp) ==
  (IF e.type = "call" /\ e.name = imp THEN {<<e.ref, k>>} ELSE {})
    \cup UNION {ExprRefs(e.args[i], e.sig[i], imp) : i \in DOMAIN e.args}
    \cup UNION {ExprRefs(e.with[i], OptionKind(e.name), imp) : i \in DOMAIN e.with}
    \cup UNION {ExprRefs(e.body[i], e.kind, imp) : i \in DOMAIN e.body}

CheckReferences(m, imp) ==
  LET lib  == Decls[m][imp].path
      body(f) == Decls[m][f].body
      refs == UNION {UNION {ExprRefs(body(f)[j], Decls[m][f].kind, imp) : j \in DOMAIN body(f)} :
                       f \in {g \in DOMAIN Decls[m] : Decls[m][g].type = "func"}}
  IN \A r \in refs : /\ r[1] \in DOMAIN Decls[lib]
                     /\ Decls[lib][r[1]].type = "func"
                     /\ Decls[lib][r[1]].kind = r[2]

-----------------------------------------------------------------------------
(* The reference semantics of the spec (3 BlockStmt, 4.5, 8.4): a block    *)
(* folds its statements over one value, each statement seeing the value   *)
(* of the one before; a function body continues from the caller's value;  *)
(* an argument starts from nothing; a literal replaces the value; a        *)
(* function literal is its block, run in the enclosing scope on the value *)
(* it is given; a parameter is its argument.                               *)

(* Binding of the spec (4.3, 8.4 "bind parameters"): every parameter is   *)
(* bound, a trailing variadic one to the list of the remaining arguments.  *)
VariadicVal(vs) == [kind |-> "list", ops |-> <<[fn |-> "variadic", args |-> vs, opts |-> <<>>]>>]
BindParams(m, fun, args) ==
  [mod |-> m,
   binds |-> [n \in {fun.params[i].name : i \in DOMAIN fun.params} |->
                LET i == CHOOSE j \in DOMAIN fun.params : fun.params[j].name = n
                IN IF fun.params[i].variadic THEN VariadicVal(SubSeq(args, i, Len(args)))
                   ELSE args[i]]]

RECURSIVE RefBlock(_, _, _, _), RefStmt(_, _, _, _), RefCall(_, _, _, _, _, _, _)
RefBlock(scope, stmts, v, k) ==
  IF stmts = <<>> THEN v
  ELSE RefBlock(scope, Tail(stmts), RefStmt(scope, Head(stmts), v, k), k)

(* A call's with clause is an expression of kind Option::<callee>; the     *)
(* callee receives its option list (spec 4.6 step 3, E2).                 *)
RefStmt(scope, s, v, k) ==
  IF s.type = "lit" THEN LitVal(s.lit)
  ELSE IF s.type = "funclit" THEN RefBlock(scope, s.body, v, s.kind)
  ELSE LET args == [i \in DOMAIN s.args |-> RefStmt(scope, s.args[i], Zero, s.sig[i])]
           w == IF s.with = <<>> THEN [kind |-> "option", ops |-> <<>>]
                ELSE RefStmt(scope, s.with[1], Zero, OptionKind(s.name))
       IN IF IsErr(w) THEN w ELSE RefCall(scope, s.name, s.ref, args, w.ops, v, k)

(* Builtins get the options and the generator's extra solve options;      *)
(* functions and parameters get none; a parameter holding options appends *)
(* them to the options already built (spec 4.5, 8.5).                      *)
RefCall(scope, n, ref, args, opts, v, k) ==
  LET obj == Lookup(scope, n) IN
  CASE obj.type = "builtin" -> Applied(k, v, n, args, opts \o ExtraSolveOpts)
    [] obj.type = "func"    -> RefBlock(BindParams(obj.mod, obj, args), obj.body, v, obj.kind)
    [] obj.type = "import"  -> RefCall(RootScope(obj.path), ref, NoRef, args, opts, v, k)
    [] obj.type = "field"   -> IF obj.val.kind = "option" /\ v.kind = "option"
                                 THEN [obj.val EXCEPT !.ops = v.ops \o @] ELSE obj.val
    [] OTHER                -> Err("undefined: " \o n)

RefTarget(t) ==
  IF t \in DOMAIN Decls[Main] THEN RefCall(RootScope(Main), t, NoRef, <<>>, <<>>, Zero, None)
  ELSE Err("target not defined")

=============================================================================
