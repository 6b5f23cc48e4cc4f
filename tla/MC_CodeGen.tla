----------------------------- MODULE MC_CodeGen -----------------------------
(***************************************************************************)
(* Checked HLB programs for CodeGen.  Each one is a Module AST the checker *)
(* accepts (only CheckReferences, which codegen runs lazily, may reject a  *)
(* qualified reference).  Builtins: image and run build a filesystem,     *)
(* format builds a string, env is both a filesystem builtin and an option *)
(* of run; each takes one string argument.  The generator is configured   *)
(* with one extra solve option.                                            *)
(***************************************************************************)
EXTENDS CodeGen, TLC

Stmt(form, n, r, as, sig) ==
  [form |-> form, type |-> "call", name |-> n, ref |-> r, args |-> as, sig |-> sig, lit |-> "",
   with |-> <<>>, body |-> <<>>, kind |-> None]
CallS(n, as, sig) == Stmt("stmt", n, NoRef, as, sig)
QCallS(n, r) == Stmt("stmt", n, r, <<>>, <<>>)
CallE(n) == Stmt("expr", n, NoRef, <<>>, <<>>)
QCallE(n, r) == Stmt("expr", n, r, <<>>, <<>>)
Lit(l) == [form |-> "expr", type |-> "lit", name |-> "", ref |-> NoRef, args |-> <<>>,
           sig |-> <<>>, lit |-> l, with |-> <<>>, body |-> <<>>, kind |-> None]
FuncLit(k, body) == [Lit("") EXCEPT !.type = "funclit", !.body = body, !.kind = k]
Op(n, arg) == CallS(n, <<arg>>, <<"string">>)
With(s, w) == [s EXCEPT !.with = <<w>>]
Param(k, n) == [name |-> n, kind |-> k, variadic |-> FALSE]
Func(k, ps, body) == [type |-> "func", kind |-> k, params |-> ps, body |-> body, path |-> "", mod |-> ""]
Import(p) == [type |-> "import", kind |-> None, params |-> <<>>, body |-> <<>>, path |-> p, mod |-> ""]

MCBuiltins == [n \in {"image", "run"} |-> <<"fs">>] @@ ("format" :> <<"string">>)
                @@ ("env" :> <<"fs", "option::run">>)
MCCallables == ("fs" :> {"image", "run", "env"}) @@ ("string" :> {"format"})
                 @@ ("option::run" :> {"env"})
MCExtraSolveOpts == <<[fn |-> "solve option", args |-> <<>>, opts |-> <<>>]>>

Greeting == Func("string", <<>>, <<Op("format", Lit("hi"))>>)
Ignore == Func("fs", <<Param("string", "s")>>, <<Op("run", Lit("i"))>>)

(* fs default() { image "alpine"; steps; run greeting } *)
Compose ==
  [decls |-> "main" :>
     [n \in {"default", "steps", "greeting"} |->
        CASE n = "default" -> Func("fs", <<>>, <<Op("image", Lit("alpine")), CallS("steps", <<>>, <<>>),
                                              Op("run", CallE("greeting"))>>)
          [] n = "steps" -> Func("fs", <<>>, <<Op("run", Lit("make")), Op("run", Lit("test"))>>)
          [] n = "greeting" -> Greeting],
   targets |-> <<"default">>]

(* The same module asked for a string function as a target. *)
StringTarget == [Compose EXCEPT !.targets = <<"greeting">>]

(* The same module asked for an undefined second target. *)
Missing == [Compose EXCEPT !.targets = <<"default", "nope">>]

(* import lib "lib.hlb"; fs default() { image "alpine"; lib.build; run lib.name } *)
ImportsOf(lib) ==
  [decls |-> ("main" :>
     [n \in {"default", "lib"} |->
        IF n = "lib" THEN Import(lib)
        ELSE Func("fs", <<>>, <<Op("image", Lit("alpine")), QCallS("lib", "build"),
                               Op("run", QCallE("lib", "name"))>>)])
     @@ ("lib" :> [n \in {"build", "name"} |->
                     IF n = "build" THEN Func("fs", <<>>, <<Op("run", Lit("b"))>>) ELSE Greeting])
     @@ ("libmissing" :> ("name" :> Greeting))
     @@ ("libbad" :> [n \in {"build", "name"} |->
                     IF n = "build" THEN Greeting ELSE Greeting]),
   targets |-> <<"default">>]
Imports == ImportsOf("lib")
(* lib.build is a string function used as a filesystem statement *)
BadImport == ImportsOf("libbad")
(* lib.build does not exist *)
MissingMember == ImportsOf("libmissing")

(* Modules that import each other; the call graph has no cycle:           *)
(* main: import cyc "cyc"; fs default() { image "a"; cyc.build }            *)
(*       fs helper() { run "h" }                                           *)
(* cyc:  import main "main"; fs build() { run "b"; main.helper }            *)
Cycle ==
  [decls |-> ("main" :>
     [n \in {"default", "helper", "cyc"} |->
        CASE n = "default" -> Func("fs", <<>>, <<Op("image", Lit("a")), QCallS("cyc", "build")>>)
          [] n = "helper" -> Func("fs", <<>>, <<Op("run", Lit("h"))>>)
          [] n = "cyc" -> Import("cyc")])
     @@ ("cyc" :> [n \in {"main", "build"} |->
                     IF n = "main" THEN Import("main")
                     ELSE Func("fs", <<>>, <<Op("run", Lit("b")), QCallS("main", "helper")>>)]),
   targets |-> <<"default">>]

(* Two targets; lib is imported by main and by mid, so it is loaded twice: *)
(* main: import lib "lib"; import mid "mid"                                *)
(*       fs default() { image "a"; lib.build }                             *)
(*       fs other() { image "b"; mid.wrap }                                *)
(* mid:  import lib "lib"; fs wrap() { lib.build; run "m" }                 *)
Diamond ==
  [decls |-> ("main" :>
     [n \in {"default", "other", "lib", "mid"} |->
        CASE n = "default" -> Func("fs", <<>>, <<Op("image", Lit("a")), QCallS("lib", "build")>>)
          [] n = "other" -> Func("fs", <<>>, <<Op("image", Lit("b")), QCallS("mid", "wrap")>>)
          [] n = "lib" -> Import("lib")
          [] n = "mid" -> Import("mid")])
     @@ ("mid" :> [n \in {"lib", "wrap"} |->
                     IF n = "lib" THEN Import("lib")
                     ELSE Func("fs", <<>>, <<QCallS("lib", "build"), Op("run", Lit("m"))>>)])
     @@ ("lib" :> ("build" :> Func("fs", <<>>, <<Op("run", Lit("b"))>>))),
   targets |-> <<"default", "other">>]

(* fs wrap(string s) { run echo(s) }   string echo(string t) { format "e"; t } *)
Params ==
  [decls |-> "main" :>
     [n \in {"default", "wrap", "echo", "greeting"} |->
        CASE n = "default" -> Func("fs", <<>>, <<Op("image", Lit("a")), Op("wrap", CallE("greeting"))>>)
          [] n = "wrap" -> Func("fs", <<Param("string", "s")>>,
                                <<Op("run", Stmt("expr", "echo", NoRef, <<CallE("s")>>, <<"string">>))>>)
          [] n = "echo" -> Func("string", <<Param("string", "t")>>,
                                <<Op("format", Lit("e")), CallS("t", <<>>, <<>>)>>)
          [] n = "greeting" -> Greeting],
   targets |-> <<"default">>]

(* string label() { format "x"; "lit" } used as  run label *)
Literal ==
  [decls |-> "main" :>
     [n \in {"default", "label"} |->
        IF n = "default" THEN Func("fs", <<>>, <<Op("image", Lit("a")), Op("run", CallE("label"))>>)
        ELSE Func("string", <<>>, <<Op("format", Lit("x")), Lit("lit")>>)],
   targets |-> <<"default">>]

(* fs ignore(string s) { run "i" } called as  ignore greeting *)
Swallow ==
  [decls |-> "main" :>
     [n \in {"default", "ignore", "greeting"} |->
        CASE n = "default" -> Func("fs", <<>>, <<Op("image", Lit("a")), Op("ignore", CallE("greeting")),
                                              Op("run", Lit("x"))>>)
          [] n = "ignore" -> Ignore
          [] n = "greeting" -> Greeting],
   targets |-> <<"default">>]

(* fs many(string variadic xs) { run xs }, called with the arguments as: *)
(* the checker counts the variadic parameter (spec 4.3), so one or more   *)
(* arguments are accepted.                                                 *)
VariadicCall(as) ==
  [decls |-> "main" :>
     [n \in {"default", "many"} |->
        IF n = "default"
          THEN Func("fs", <<>>, <<Op("image", Lit("a")),
                                 CallS("many", as, [i \in DOMAIN as |-> "string"])>>)
          ELSE Func("fs", <<[name |-> "xs", kind |-> "string", variadic |-> TRUE]>>,
                    <<Op("run", CallE("xs"))>>)],
   targets |-> <<"default">>]

(* fs default() {                                                         *)
(*   image "a"; run "x" with tagged(base); run "y" with env "Z";           *)
(*   run "w" with option { env "L" }; fs { run "v" } }                     *)
(* option::run base() { env "K" }                                          *)
(* option::run tagged(option::run o) { env "T"; o }                        *)
Options ==
  [decls |-> "main" :>
     [n \in {"default", "base", "tagged"} |->
        CASE n = "default" ->
               Func("fs", <<>>, <<Op("image", Lit("a")),
                                  With(Op("run", Lit("x")),
                                       Stmt("expr", "tagged", NoRef, <<CallE("base")>>, <<"option::run">>)),
                                  With(Op("run", Lit("y")),
                                       Stmt("expr", "env", NoRef, <<Lit("Z")>>, <<"string">>)),
                                  With(Op("run", Lit("w")),
                                       FuncLit("option::run", <<Op("env", Lit("L"))>>)),
                                  FuncLit("fs", <<Op("run", Lit("v"))>>)>>)
          [] n = "base" -> Func("option::run", <<>>, <<Op("env", Lit("K"))>>)
          [] n = "tagged" -> Func("option::run", <<Param("option::run", "o")>>,
                                  <<Op("env", Lit("T")), CallS("o", <<>>, <<>>)>>)],
   targets |-> <<"default">>]

(* Options and a function literal handed across an import:              *)
(* main:   import lib "optlib"                                             *)
(*         fs default() { image "a"; run "x" with lib.opts;                *)
(*                        lib.apply fs { run "v" } }                       *)
(* optlib: option::run opts() { env "K" }   fs apply(fs f) { run "b"; f }  *)
ImportOptions ==
  [decls |-> ("main" :>
     [n \in {"default", "lib"} |->
        IF n = "lib" THEN Import("optlib")
        ELSE Func("fs", <<>>, <<Op("image", Lit("a")),
                               With(Op("run", Lit("x")), QCallE("lib", "opts")),
                               Stmt("stmt", "lib", "apply", <<FuncLit("fs", <<Op("run", Lit("v"))>>)>>,
                                    <<"fs">>)>>)])
     @@ ("optlib" :> [n \in {"opts", "apply"} |->
                       IF n = "opts" THEN Func("option::run", <<>>, <<Op("env", Lit("K"))>>)
                       ELSE Func("fs", <<Param("fs", "f")>>, <<Op("run", Lit("b")), CallS("f", <<>>, <<>>)>>)]),
   targets |-> <<"default">>]

MCPrograms == {Compose, StringTarget, Missing, Imports, BadImport, Literal, Swallow, Params, Options, Cycle, Diamond,
              ImportOptions}
ReusePrograms == {Imports, BadImport, MissingMember}
SwallowOnly == {Swallow}
VariadicOnly == {VariadicCall(<<Lit("a")>>), VariadicCall(<<Lit("a"), Lit("b")>>)}
ReuseVariadic == ReusePrograms \cup VariadicOnly \cup {Cycle, Diamond}
MCImportFailures == {"import path not exist", "parse error"}

(* The errors the environment of these programs may cause: an import that *)
(* cannot be read or parsed, a callable that fails.                        *)
MCErrors == MCImportFailures \cup {"call failed: " \o n : n \in DOMAIN MCBuiltins}

(* Generate implements its abstract specification: with outcome as the     *)
(* abstract result, every step of the generator either leaves the result  *)
(* alone or is a call, a success returning the reference requests, or a   *)
(* failure whose error has a cause in the program or its environment;    *)
(* and, the generator being weakly fair, every call returns.               *)
GS == INSTANCE GenerateSpec WITH result <- outcome, Errors <- MCErrors
GenerateRefines == GS!Spec
=============================================================================
