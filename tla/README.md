# HLB code generator: TLA+ models

TLA+ models of the HLB code generator (`src/codegen/codegen.go`), its callable
registry, and the builtin table generator (`src/builtin/gen/builtins.go`). The
code generator turns a checked HLB module into a build request. The modules
are written from the Go source. Three things are not under `src/`: the
`Register` type, the checker, and the binding rules for parameters. Those
parts are modelled from `spec.md`, and PROJECT.json marks them
`spec_modelled`.

## 1. Inventory

### Parts of the system

| Part | Source | State | Operations |
|---|---|---|---|
| Code generator | `codegen.go` 45-654 | the `CodeGen`; the registers of values; `Object.Data` of import declarations | `Generate`, `EmitExpr`, `EmitBasicLit`, `EmitStringLit`, `EmitHeredoc`, `EmitRawHeredoc`, `EmitCallExpr`, `EmitIdentExpr`, `EmitImport`, `EmitBuiltinDecl`, `EmitFuncDecl`, `EmitBinding`, `lookupCall`, `EmitBlock`, `EmitCallStmt`, `Evaluate` |
| Register / Value (not in `src/`) | spec 3, 4.5, 9 | a value, plus closures queued by `SetAsync` | `Set`, `SetAsync`, `Value()` (forces the queued closures in order) |
| Imports | `codegen.go` 324-390, 510-537 | `obj.Data` caches the imported module | `EmitImport` (resolve, open, parse, semantic pass, check), then `CheckReferences` |
| Callable registry | `codegen.go` 665-890, 418-468 | `Callables[kind][name]`, `PrototypeIn/Out` | `initCallables` and `CheckPrototype` at init; the reflective call in `EmitBuiltinDecl` |
| String / heredoc elaboration | `codegen.go` 153-256 | none (pure) | escapes, interpolation, trim, dedent (`<<-`), fold (`<<~`) |
| Builtin generator | `src/builtin/gen/builtins.go` | none | `GenerateBuiltins`: parse `builtin.hlb`, group functions by kind, render the Go lookup table and `Reference` |
| Legacy grammar | `src/unnamed/part_000` | none | participle AST and `Parse` |
| `ErrCodeGen` | `src/unnamed/part_001` | none | error formatting |

### How the parts interact

`Generate` emits each target identifier into a fresh register and forces it
with `Value()`.

- `EmitBlock` does not run a call statement. It queues a closure with
  `SetAsync`.
- That closure first calls `lookupCall`. An undefined name is an error there.
  The first time an import is named, `lookupCall` loads the module with
  `EmitImport`, stores it in `obj.Data`, and only then calls
  `CheckReferences`.
- The closure then puts the incoming value into a fresh register, emits the
  call, and forces that register.
- `EmitCallStmt` calls `Evaluate`. `Evaluate` emits each argument into its own
  register and forces it, then dispatches through `EmitIdentExpr`:
  - a builtin queues a closure on the return register;
  - a function (`EmitFuncDecl`) checks its arity, binds its parameters, and
    emits its body as a block;
  - an import is resolved again in the imported module's scope;
  - a parameter's value replaces the register's value, unless both are
    option lists, which are appended.
- A call statement's `with` clause is evaluated after the arguments, into a
  register whose return type is `option::<callee>`, and cast with `Option()`.
  A builtin captures those options in its closure, an import passes them on,
  and a function drops them.
- `EmitBuiltinDecl` picks the callable by the return type captured in the
  closure's context, appends the generator's `extraSolveOpts` to the call's
  options, then reflects the arguments and calls it with
  `reflect.Value.Call`.
- At program start, `initCallables` checks every callable against the
  `Prototype`, and the program panics if one fails.

The builtin generator runs at build time (`go generate`). It writes the
`builtin` package, which the checker uses to know the builtins' signatures.

### Hard behaviours

- The order in which queued closures, synchronous `Set`s and forced registers
  act on values.
- A failure between two steps of `lookupCall`.
- State cached across `Generate` calls.
- Errors carried as values.
- Reflection. A signature accepted at init must be callable with the values
  `EmitBuiltinDecl` builds.
- Boundary cases of heredoc trimming and dedent.
- Escaping in generated code.

PROJECT.json lists each hazard at the line where it bites.

### What makes the system correct

- Every target's request is the value that the block semantics of spec 8.4
  gives it.
- `Generate` returns the first error raised (spec 7).
- `Generate` fails only for a cause in the program or its environment, and
  always returns.
- Dispatch goes only into imports whose references were checked (spec 3,
  Scope invariant 2).
- A request is built only from filesystem callables.
- A registered callable never panics when called (spec 4.4).
- The generated builtin table is `builtin.hlb`'s.
- Options reach their callable (spec 8.5, scenario E2): the with clause's
  list, built by option functions and merged through option parameters,
  followed by the extra solve options.
- `Register.Value()` is never re-entered for the same register.
- String and heredoc elaboration follows spec 4.2.

## 2. Modules

### `Semantics.tla`: programs and their meaning

This module holds what the code generator and its abstract specification
share:

- the checked program (`prog`, constant within a behaviour);
- values and errors;
- scopes and `Lookup`;
- the checker's `CheckReferences`;
- a RECURSIVE reference semantics: `RefBlock`, `RefStmt`, `RefCall` and
  `RefTarget`.

A value is its kind plus the list of builtins applied to it, each with its
argument values and the options it received. A value of kind
`option::<callee>` has the primary kind `option` (`Primary`), and its list is
its option fragments. `RefStmt` evaluates a with clause in kind
`option::<callee>`. `RefCall` gives a builtin the clause's options followed by
the constant `ExtraSolveOpts`. A parameter holding options appends them to
the options already built (spec 4.5 table, 8.5).

A scope binds names to parameter values. There are two bindings:

- `FuncScope` is the code's. `EmitFuncDecl` skips every parameter that has a
  modifier.
- `BindParams` is the spec's. Every parameter is bound, and a trailing
  variadic one collects the remaining arguments.

The reference semantics uses `BindParams`.

### `CodeGen.tla`: the code generator as a call-stack machine

The Go call stack is the variable `stack`, a sequence of frame records. The
frame kinds are Gen, Ident, Block, Force, Closure and Call. Each action is one
step of the handler on top of the stack. A tail call replaces the top frame,
and `rv` carries the value and error returned to the caller.

| Variables | Correspond to |
|---|---|
| `reg` | the registers: a value plus the chain of queued closures |
| `data` | the import objects whose `Object.Data` holds a module |
| `checked` | history: the import objects whose `CheckReferences` passed |
| `firstErr` | history: the first error raised during the current Generate |
| `outcome` | the result of the last Generate |
| `gens` | the number of Generate calls so far |

Actions, grouped by handler:

- **Generate**: `GenerateStart`, `GenerateTarget`, `GenerateEmitted`,
  `GenerateForced`, `GenerateDone`.
- **EmitIdentExpr**: `IdentUndefined`, `IdentBuiltin`, `IdentFunc`
  (`EmitFuncDecl`, including its exact arity check), `IdentImport`,
  `IdentField`.
- **EmitBlock**: `BlockSetAsync`, `BlockLit`, `BlockFuncLit` (a function
  literal statement: `EmitFuncLit` emits its block into the same register),
  `BlockWait`, `BlockDone`.
- **Register.Value**: `ForceReturn`, `ForceBuiltin` (runs `EmitBuiltinDecl`;
  the callable may fail), `ForceClosure`, `ForceResume`.
- **The SetAsync closure with `lookupCall`**: `ClosureUndefined`,
  `ClosureResolved`, `ImportFails`, `ImportLoads`, `ClosureCall`,
  `ClosureEmitted`, `ClosureForced`.
- **EmitCallStmt/EmitCallExpr with `Evaluate`**: `EvaluateArg`,
  `EvaluateBlockDone`, `EvaluateArgDone`, `EvaluateWith`, `EvaluateWithDone`,
  `CallDispatch`. The operator `Evaluate` is one expression of `Evaluate`:
  a literal is `Set`, a call expression queues a closure, and a function
  literal's block is emitted into the fresh register before it is forced.
  `EvaluateWith` queues the with clause with the return type
  `option::<callee>` and the frame's binding. `EvaluateWithDone` returns the
  error, fails the `Option()` cast of a non-option value, or records the
  options. The Ident frame then carries them: `IdentBuiltin` captures them,
  `IdentImport` keeps them, and `IdentFunc` drops them. `IdentField` merges a
  parameter with `ret.Value()` (`FieldSet`, lines 306-317).

An import object is a pair: the module instance, and the import's name. An
instance is named by the chain of imports followed from Main (`InstScope`).
`EmitImport` parses the file afresh, and `lookupCall` caches the module on the
`ImportDecl` of the importing instance. So a module reached twice, through
two importers or a cycle, is two instances, each with an empty cache.

Values are abstracted to their kind plus the ordered list of builtins applied
to them, with their arguments. This is what the build engine would see.
Errors are values of kind `error`.

The constant `Eager` selects how the register behaves:

- **FALSE**: the deferred register of spec 3 and 9. Closures run when
  `Value()` forces the register. A `Set` stores the last value and
  supersedes the closures still queued (`RegSet`), as spec 8.3's Register
  invariant 3 asks: `Value()` returns the last value stored.
- **TRUE**: `SetAsync` runs the closure at once and returns its error. This is
  the other flavour the spec allows, and it makes the code's error checks
  effective.

Properties:

- `GenerateMatchesReference`: every successful request equals the reference
  value of its target.
- `FirstErrorReturned`: success only if no error was raised, and a failure
  returns the first error raised.
- `RequestsWellKinded`: every operation in a successful request is a
  filesystem callable.
- `TypeOK`: the types of the state, and every import `lookupCall` checked is
  one it stored in `obj.Data` (lines 528-530).
- `ImportDispatchChecked`: `EmitIdentExpr` re-dispatches only into imports
  that passed `CheckReferences`. It is checked in the stale_import run, the
  one with two Generates on the same module: with a single Generate a failed
  check ends the call before anything is dispatched.
- `ForceNotReentrant`: no register is forced from inside one of its own
  closures. When `IdentField` reads `ret.Value()`, `ret` has nothing queued
  and is not being forced. The read at line 306 would otherwise run closures
  in the middle of an emit, or wait on itself.
- `GenerateRefines` (in `MC_CodeGen.tla`): CodeGen implements GenerateSpec.

### `GenerateSpec.tla`: what Generate promises

This is the abstract specification. It has the variables `gens` and `result`,
and three actions:

- **`Call`**: Generate is called.
- **`Succeed`**: returns the reference requests of the targets. It is enabled
  only when every target's reference value is a filesystem and every import of
  the main module passes `CheckReferences`.
- **`Fail`**: returns an error from `Errors` (what the environment may cause:
  an unreadable or unparsable import, a failing callable) or from `Causes`
  (what the program itself causes: a target whose reference value is an
  error, a target that is not a filesystem, an import whose references do not
  check).

`Spec` has weak fairness on `Return`, so a call that has started returns.

`MC_CodeGen.tla` defines `GS == INSTANCE GenerateSpec WITH result <- outcome`.
The refinement mapping is the identity on `prog` and `gens`, and maps
`outcome` to `result`. All the call-stack state is hidden. `GenerateRefines ==
GS!Spec` is checked as a PROPERTY under `CodeGen!FairSpec`.

### `Prototype.tla`: the callable registry and the reflective call

Go types are records `[name, iface, methods]`:

- an interface type is its method set;
- a concrete type has the methods it implements;
- `Implements(t, i)` is `i.methods ⊆ t.methods`.

A callable is its `Call` signature: input types (the variadic element type
last), a variadic flag, and output types. One callable is followed through
three steps:

- **`InitCallables`**: `CheckPrototype` as written. An interface parameter
  passes when `param.Implements(proto)`; a concrete one must be equal.
- **`EmitBuiltinDecl`**:
  - the arity check `len(args) < expected`;
  - `Reflect` of each regular and variadic argument;
  - the four prototype values, of any dynamic type the code may hold (a
    `*context.valueCtx`, the client, the incoming value, the options).
- **`Call`**: `reflect.Value.Call`, which panics unless every value is
  assignable to its parameter and the count matches.

`MC_Prototype.tla` has two sets of signatures. `RepoSignatures` have the
prototype's own types as a prefix, as every callable in `Callables` does.
`AnySignatures` also have a wider context interface and `interface{}`.

Property: `NoPanicAtCall`.

### `BuiltinGen.tla`: `GenerateBuiltins`

The input is a sequence of parsed declarations and the source text. The
actions are `ParseFails` and `Generate`.

`Generate` does four things:

- groups the function declarations by kind, in order (`FuncsByKind`);
- renders the lookup map literal (`RenderLookup`) with the `kind` template
  function (`KindExpr`: a parser constant for the four base kinds, a quoted
  string otherwise);
- HTML-escapes the source text for `{{.Reference}}` (`HTMLEscape`);
- decides whether `format.Source` accepts the result (`GoParses`).

Properties:

- `LookupMatchesDecls`: the map, read back as Go would read it (`GoKind`), is
  the functions by kind.
- `ReferenceIsSource`: `Reference` is the source text.

### `Heredoc.tla`: `EmitStringLit`, `EmitHeredoc`, `EmitRawHeredoc`

A literal is a form (string, heredoc or raw heredoc), an opener (`<<`, `<<-`
or `<<~`), and a sequence of fragments:

- text;
- spaces (raw heredocs only);
- an escaped character;
- an interpolation, carrying the result of emitting its expression.

Each handler is one action. It maps every fragment to a piece, or stops at
the first error (`JoinPieces`):

- **`EmitStringLit`**: `\$` gives `$`. Every other escape goes through
  `strconv.UnquoteChar` (`UnquoteChar`), which fails on a character Go does
  not know.
- **`EmitHeredoc`**: keeps escapes as written, except `\$`. It then runs
  `emitHeredocPieces`.
- **`EmitRawHeredoc`**: joins the text.

`emitHeredocPieces` is modelled as operators over texts (sequences of
one-character strings):

- `strings.TrimLeft`, `TrimRight` and `TrimSpace`;
- the `bufio` line scan;
- `lithammer/dedent` as it behaves: whitespace-only lines are emptied; the
  margin is cut down to any indent that is a prefix of it; the margin becomes
  empty when two indents are not prefixes of each other;
- the fold.

Properties:

- `DedentKeepsRelativeIndent` and `FoldKeepsWords`: the two heredoc modes.
- `ElaboratesAsSpecified`: a literal elaborates exactly when none of its
  fragments is a bad escape or a failed interpolation. The error is that of
  the first such fragment. A string that elaborates is the concatenation of
  the spec's readings of its fragments.
- `DedentRemovesCommonIndent`: spec 4.2's `<<-`. This is the violation run.

## 3. Runs

| Run | Config | Expect | Shows |
|---|---|---|---|
| codegen | `MC_CodeGen.cfg` | pass | One Generate per program with the eager register. Checks reference values (including the options each builtin got), the first error, well-kinded requests, and no re-entrant force. Under fairness it checks the refinement of GenerateSpec: every Generate returns, and fails only with a cause. |
| codegen_reuse | `MC_CodeGen_reuse.cfg` | pass | Two Generate calls on the same module share the import cache and still give reference values and the first error. This includes modules that fail on an undefined name or an arity error. |
| stale_import | `MC_CodeGen_stale.cfg` | violation | An import is installed in `obj.Data` before `CheckReferences` fails (line 528). The next Generate finds it cached, skips the check, and `EmitIdentExpr` dispatches into the unchecked module. With the real `run` callable the string that `libbad.build` produces then fails `run`'s conversion with a bad cast (spec line 44), so the second Generate reports a cast error, not the reference error. The model's `Applied` does not convert the incoming value, so in the model that call goes on to succeed. That is why the run checks the dispatch and not the outcome. |
| swallowed_arg_error | `MC_CodeGen_swallow.cfg` | violation | With the deferred register, `Evaluate` keeps an argument's error as a value. The error is lost when the parameter is unused. |
| variadic_param | `MC_CodeGen_variadic.cfg` | violation | The checker accepts `fs many(string variadic xs) { run xs }`, yet Generate fails. With two arguments it fails `EmitFuncDecl`'s exact arity check. With one argument `xs` is undefined, because variadic parameters are never put in scope. |
| prototype | `MC_Prototype.cfg` | pass | For signatures with the prototype's own types, a callable accepted at init never makes `reflect.Call` panic, whatever arguments get through. |
| prototype_any | `MC_Prototype_any.cfg` | violation | A callable whose ctx parameter is wider than `context.Context` passes `CheckPrototype`, because `Implements` is tested in the wrong direction. `reflect.Call` then panics on the `*context.valueCtx` it receives. |
| builtingen | `MC_BuiltinGen.cfg` | pass | For every module of up to two declarations over three kinds (one an option kind), the generated map reads back as exactly the functions by kind, with parameters, modifiers and effects in order. |
| builtin_reference_escaped | `MC_BuiltinGen_escaped.cfg` | violation | A `<` in `builtin.hlb` becomes `&lt;` in `Reference`, because the file is rendered with `html/template`. |
| heredoc | `MC_Heredoc.cfg` | pass | Every literal within the bounds elaborates exactly as spec 4.2 reads its fragments, or fails with the first bad fragment. Dedent keeps relative indent, and fold gives one trimmed line with the same words. |
| heredoc_dedent_margin | `MC_Heredoc_margin.cfg` | violation | For lines indented by tab-tab and tab-space, the shared tab is kept (no common-indent removal). |

Two disagreements were seen while modelling but are not kept as runs:

- `emitHeredocPieces` strips every leading newline of a heredoc (`TrimLeft`
  at line 226), where spec 4.2 strips one.
- `EmitBuiltinDecl` rejects only too few arguments (line 435). Extra arguments
  to a non-variadic callable are silently not passed.

PROJECT.json lists a mutant for every property of every passing run. Each
mutant is a plausible bug in the mapped code, such as:

- a dropped cast check;
- a dropped error check;
- a missing `Set(v)` in the closure;
- a module checked but never stored in `obj.Data`;
- a receiver counted as a parameter;
- arguments passed without `Reflect`;
- an unquoted option kind;
- non-function declarations not skipped;
- a margin that is not cut down;
- a fold without trimming;
- a `\$` escape passed to `UnquoteChar`;
- the extra solve options not appended;
- a call emitted into the register being forced.

### Bounds

- **CodeGen**:
  - Programs are built from 2-3 modules.
  - Functions have up to 3 statements, with argument nesting up to depth 2.
  - `MaxGenerate` is 1, or 2 for the reuse runs. Two calls are the least that
    expose state kept across calls.
  - Builtins: `image` and `run` (filesystem), `format` (string), and `env`,
    which is both a filesystem builtin and an option of `run`. One extra
    solve option is configured.
  - The `Options` program: `run "x" with tagged(base)` builds a list through
    an option function and an option parameter, and so takes the append
    branch of the merge. `run "y" with env "Z"` names the builtin directly,
    so only the `option::run` hint picks the option callable.
    `run "w" with option { env "L" }` is spec scenario E2, and
    `fs { run "v" }` is a function literal statement.
  - The `Cycle` program: `main` and `cyc` import each other, and
    `cyc.build` calls `main.helper`, so `main` is loaded a second time as
    instance `<<cyc, main>>`. It is in both pass runs.
  - The `Diamond` program has two targets. `lib` is imported by `main` and
    by `mid`, so it is loaded as two instances in one Generate. It is in
    both pass runs.
  - The `ImportOptions` program sends a with clause and a function literal
    across an import. In `run "x" with lib.opts`, the option list is built by
    a function of the imported module, which CheckReferences checks against
    the kind `option::run`. In `lib.apply fs { run "v" }`, the literal is
    evaluated in `main`'s scope and then bound to a parameter of the
    imported function. It is in the codegen run and reaches an ok outcome.
  - Each of these cases happens in the runs: an import that loads, fails, or
    fails its check; a builtin that fails; a wrong-kind target; an undefined
    name; an arity error.
- **Prototype**:
  - Prototype of four inputs and two outputs.
  - Signatures with up to two domain parameters, variadic or not.
  - Up to 3 arguments of two kinds.
  - This covers too few, exact and too many arguments, a failed `Reflect`, and
    every dynamic type the four prototype values take.
- **BuiltinGen**:
  - Up to two declarations, each a function (two names, three kinds, at most
    one parameter and one effect) or not a function.
  - Source texts of up to 1 character for the pass run, and up to 3 for the
    escape run, over `a`, `<` and the backquote.
- **Heredoc** (`MaxLen` = 6):
  - Strings: every sequence of up to 4 fragments. The fragments are text,
    the escapes `n`, `$` and backslash, and an interpolation that succeeds or
    fails in one of two ways.
  - Heredocs, under every opener: up to 6 text fragments over
    `{a, space, tab, newline}`, or up to 5 with one special fragment (an
    escape, or an interpolation that succeeds or fails) at any position.
  - Raw heredocs: up to 4 text fragments, with or without one spaces
    fragment.
  - Every combination of blank lines, tab and space indents, and
    leading/trailing newlines within those lengths is covered.
  - The margin run uses `<<-` heredocs of up to 3 line fragments. A line
    fragment is two blanks and `a`, or a newline. The shortest
    counterexample has two lines.

### Fairness

Only the codegen run assumes fairness: `FairSpec == Spec /\ WF_vars(Next)`.
Spec 5 says the evaluator is single-threaded and deterministic. It waits on
nothing the model leaves out: imports and callables are modelled as steps that
succeed or fail. So while the generator has a step to take, it takes one. The
abstract specification asks only weak fairness of `Return`.

The other runs check safety properties and assume no fairness.

## 4. Not modelled, and the plan

Not modelled (see PROJECT.json components):

- The legacy grammar.
- `ErrCodeGen`: formatting.
- The build engine behind the callables: abstracted to success or failure.
- Slice aliasing of options. The appends at lines 317 and 415 could write
  into a backing array that another live value shares. Whether they do
  depends on the `Option` type, the register's zero value, and the capacity
  that the option callables (`RunEnv` and the rest) leave. None of these is
  under `src/`. Options are modelled as list values, and the merge and the
  extra solve options are checked at that level.
- Bindings (`BindClause`, `EmitBinding`, the binding match in
  `EmitCallStmt` 626-630). The checker builds the `Binding` and its closure,
  and the callables invoke it. Both are outside `src/`, and the spec says
  little of either beyond scenario E6.
- Breakpoints (`EmitCallStmt` 605-619). `call.Breakpoint` and the
  `breakpoint` builtin are defined outside `src/`, and the `Callables` table
  has no breakpoint entry. The debugger is the no-op one that `New` installs.
- A with clause on a call expression. Spec 2 gives `CallExpr` a with clause,
  but `EmitCallExpr` passes nil options (line 275). The AST is not in
  `src/`, so the model gives call expressions no with clause.
- A cycle in the call graph across modules. It recurses without end in any
  implementation, and the checker that might reject it is not in `src/`.
  Import cycles without a call cycle are modelled.

- The conversion a callable makes of the value it receives. The callables
  are outside `src/`; `Applied` appends every builtin to the incoming value
  and gives the result the callee's kind. Real callables convert the incoming
  value (`Filesystem()`, `String()`) and fail with a bad cast on a kind
  mismatch, and source callables such as `image` start afresh. For checked
  programs the two agree; they differ only once an unchecked module runs
  (the stale_import run), which is why that run checks the dispatch itself.

Plan for the next sitting: bindings and breakpoints, should their
definitions (`ast.Binding`, `call.Breakpoint`) move under `src/`.
