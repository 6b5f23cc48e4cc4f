------------------------------ MODULE BuiltinGen ------------------------------
(***************************************************************************)
(* The builtin generator (src/builtin/gen/builtins.go: GenerateBuiltins,  *)
(* the "kind" template function and referenceTmpl).  It reads builtin.hlb, *)
(* groups its function declarations by return kind, and writes a Go file   *)
(* holding the lookup table and the source text itself as Reference.       *)
(*                                                                         *)
(* The parsed module is a sequence of declarations; the source text is a   *)
(* short sequence of one-character strings.  The generated Go file is      *)
(* abstracted to what a Go compiler reads from it: the lookup map literal, *)
(* as entries keyed by Go kind expressions, and the contents of the raw    *)
(* string literal that Reference is set to.  Field and function names are  *)
(* identifiers, which html/template leaves as they are.                     *)
(***************************************************************************)
EXTENDS Naturals, Sequences, SequencesExt

CONSTANTS
  Kinds,       \* return and parameter kinds of builtin.hlb, option kinds included
  Names,       \* builtin function names
  FieldNames,  \* parameter and effect names
  Chars,       \* the characters of the source text
  MaxDecls,    \* the most declarations in the module
  MaxText      \* the longest source text

None == "none"
BT == "BQ"   \* the backquote character

(* a parsed parameter or effect, and a declaration: a function or another  *)
(* kind of declaration (an import, a comment group) whose Func is nil      *)
Fields(variadic) == [kind : Kinds, name : FieldNames, variadic : variadic]
FuncDecl == [func : {TRUE}, name : Names, kind : Kinds,
             params : BoundedSeq(Fields(BOOLEAN), 1), effects : BoundedSeq(Fields({FALSE}), 1)]
OtherDecl == [func : {FALSE}, name : {None}, kind : {None}, params : {<<>>}, effects : {<<>>}]

-----------------------------------------------------------------------------
(* GenerateBuiltins, lines 42-60: funcsByKind[kind] gets a ParsedFunc per  *)
(* function declaration, in declaration order.                             *)

(* Variant: declarations whose Func is nil are not skipped. *)
FuncDeclsUnskipped(ds) == ds

FuncDecls(ds) == SelectSeq(ds, LAMBDA d : d.func)

ParsedFunc(d) == [name |-> d.name, params |-> d.params, effects |-> d.effects]

FuncsByKind(ds) ==
  [k \in {FuncDecls(ds)[i].kind : i \in DOMAIN FuncDecls(ds)} |->
     LET fs == SelectSeq(FuncDecls(ds), LAMBDA d : d.kind = k)
     IN [j \in DOMAIN fs |-> ParsedFunc(fs[j])]]

(* tmplFunctions "kind": the four base kinds name their parser constant,   *)
(* any other kind (option::run ...) is written as a quoted string.         *)
ParserConst == [string |-> "parser.String", int |-> "parser.Int",
                bool |-> "parser.Bool", fs |-> "parser.Filesystem"]
Quote(k) == "\"" \o k \o "\""
(* Variant: the default case writes the kind without quoting it. *)
KindExprUnquoted(k) == IF k \in DOMAIN ParserConst THEN ParserConst[k] ELSE k

KindExpr(k) == IF k \in DOMAIN ParserConst THEN ParserConst[k] ELSE Quote(k)

(* referenceTmpl, lines 122-143: the Lookup map literal, one key per kind, *)
(* one FuncLookup per function, NewField(kind, name, modifier) for each    *)
(* parameter and NewField(kind, name, false) for each effect.             *)
FieldLit(f) == [kind |-> KindExpr(f.kind), name |-> f.name, modifier |-> f.variadic]
EffectLit(f) == [kind |-> KindExpr(f.kind), name |-> f.name, modifier |-> FALSE]
RenderLookup(fbk) ==
  {<<KindExpr(k), [j \in DOMAIN fbk[k] |->
                     [name |-> fbk[k][j].name,
                      params |-> [i \in DOMAIN fbk[k][j].params |-> FieldLit(fbk[k][j].params[i])],
                      effects |-> [i \in DOMAIN fbk[k][j].effects |-> EffectLit(fbk[k][j].effects[i])]]]>> :
     k \in DOMAIN fbk}

(* html/template, line 144: {{.Reference}} is a string in HTML text        *)
(* context, so the escaper rewrites " & ' + < > as character references.   *)
HTMLEscapes == [c \in {"\"", "&", "'", "+", "<", ">"} |->
                 CASE c = "\"" -> <<"&", "#", "3", "4", ";">>
                   [] c = "&"  -> <<"&", "a", "m", "p", ";">>
                   [] c = "'"  -> <<"&", "#", "3", "9", ";">>
                   [] c = "+"  -> <<"&", "#", "4", "3", ";">>
                   [] c = "<"  -> <<"&", "l", "t", ";">>
                   [] c = ">"  -> <<"&", "g", "t", ";">>]
HTMLEscape(text) ==
  FlattenSeq([i \in DOMAIN text |->
                IF text[i] \in DOMAIN HTMLEscapes THEN HTMLEscapes[text[i]] ELSE <<text[i]>>])

(* format.Source, lines 75-80, on the rendered file.  Reference is the     *)
(* source wrapped in backquotes (line 66); a backquote in the escaped text *)
(* ends the raw string early and, over the characters modelled (no newline,*)
(* no "="), leaves tokens no Go var declaration accepts.                   *)
GoParses(escaped) == \A i \in DOMAIN escaped : escaped[i] # BT

-----------------------------------------------------------------------------
VARIABLES
  decls,    \* the declarations parser.Parse returns
  text,     \* the source text it read (fb.Bytes())
  parses,   \* whether parser.Parse succeeds on it
  out       \* the result of GenerateBuiltins

vars == <<decls, text, parses, out>>

Pending == [state |-> "running"]

(* builtin.hlb passes the semantic pass (spec 4.3): a name is declared    *)
(* once per kind.                                                          *)
UniquePerKind(ds) ==
  \A i, j \in DOMAIN ds : ds[i].func /\ ds[j].func /\ i # j =>
    <<ds[i].name, ds[i].kind>> # <<ds[j].name, ds[j].kind>>

Init ==
  /\ decls \in {ds \in BoundedSeq(FuncDecl \cup OtherDecl, MaxDecls) : UniquePerKind(ds)}
  /\ text \in BoundedSeq(Chars, MaxText)
  /\ parses \in BOOLEAN
  /\ out = Pending

(* lines 37-40: a parse error is returned as is *)
ParseFails ==
  /\ out = Pending
  /\ ~parses
  /\ out' = [state |-> "done", err |-> "parse error", lookup |-> {}, reference |-> <<>>,
             valid |-> FALSE]
  /\ UNCHANGED <<decls, text, parses>>

(* lines 42-82: group, render, format; a format error is only logged and   *)
(* the unformatted source returned with a nil error.                        *)
Generate ==
  /\ out = Pending
  /\ parses
  /\ out' = [state |-> "done", err |-> None, lookup |-> RenderLookup(FuncsByKind(decls)),
             reference |-> HTMLEscape(text), valid |-> GoParses(HTMLEscape(text))]
  /\ UNCHANGED <<decls, text, parses>>

Finished == out # Pending /\ UNCHANGED vars

Next == ParseFails \/ Generate \/ Finished

Spec == Init /\ [][Next]_vars

-----------------------------------------------------------------------------
(* What the Go compiler makes of a kind expression: the parser constant's  *)
(* kind, the kind a string literal spells, or None when it does not        *)
(* compile (an undeclared identifier).                                     *)
GoKind(e) ==
  CASE \E k \in DOMAIN ParserConst : ParserConst[k] = e ->
         CHOOSE k \in DOMAIN ParserConst : ParserConst[k] = e
    [] \E k \in Kinds : Quote(k) = e -> CHOOSE k \in Kinds : Quote(k) = e
    [] OTHER -> None

GoField(f) == [kind |-> GoKind(f.kind), name |-> f.name, variadic |-> f.modifier]

Done == out.state = "done"

TypeOK ==
  /\ decls \in Seq(FuncDecl \cup OtherDecl)
  /\ text \in Seq(Chars)
  /\ parses \in BOOLEAN
  /\ Done => /\ out.err \in {None, "parse error"}
             /\ \A p \in out.lookup : p[1] \in {KindExpr(k) : k \in Kinds}
             /\ out.valid \in BOOLEAN

(* The generated table is builtin.hlb's: the Go map the compiler builds    *)
(* from the rendered literal has a key for exactly the kinds some function *)
(* returns, and under each the functions of that kind in declaration order *)
(* with their parameters (kind, name, variadic) and effects, read back     *)
(* through the kind function's Go expressions.                             *)
LookupMatchesDecls ==
  (Done /\ out.err = None) =>
    LET fbk == FuncsByKind(decls)
    IN /\ {GoKind(p[1]) : p \in out.lookup} = DOMAIN fbk
       /\ \A p \in out.lookup :
            LET fs == fbk[GoKind(p[1])]
            IN /\ Len(p[2]) = Len(fs)
               /\ \A j \in DOMAIN fs :
                    /\ p[2][j].name = fs[j].name
                    /\ [i \in DOMAIN p[2][j].params |-> GoField(p[2][j].params[i])] = fs[j].params
                    /\ [i \in DOMAIN p[2][j].effects |-> GoField(p[2][j].effects[i])] = fs[j].effects

(* Reference holds the source of builtin.hlb: when GenerateBuiltins        *)
(* returns valid Go, the raw string Reference is set to is the text read.  *)
ReferenceIsSource ==
  (Done /\ out.err = None /\ out.valid) => out.reference = text

=============================================================================
