------------------------------- MODULE Heredoc -------------------------------
(***************************************************************************)
(* String and heredoc elaboration (src/codegen/codegen.go: EmitStringLit,  *)
(* EmitHeredoc, EmitRawHeredoc, emitHeredocPieces).  A literal is its      *)
(* fragments as the parser gives them (spec 4.2): Text, Spaces (heredocs   *)
(* only), Escaped (a backslash and one character) and Interpolated, whose  *)
(* value is the outcome of emitting the expression and taking its String() *)
(* (a text, or the error either step returns).  Texts are sequences of     *)
(* one-character strings.  The dedent of "<<-" is github.com/lithammer/    *)
(* dedent, modelled by what it does: blank lines are emptied, the margin   *)
(* is the indent of the first indented line, cut down to any shorter       *)
(* indent it is a prefix of, and dropped altogether as soon as two indents *)
(* are not prefixes of one another.                                        *)
(*                                                                         *)
(* The state machine elaborates one literal: Init picks it, and the        *)
(* handler of its form elaborates it in one step.                          *)
(***************************************************************************)
EXTENDS Naturals, Sequences, SequencesExt

CONSTANTS
  Chars,    \* the characters a text is made of
  Literals  \* the literals elaborated: [form, opener, frags]

NL == "\n"
TAB == "\t"
SP == " "
Blanks == {SP, TAB}
Whitespace == {SP, TAB, NL}   \* unicode.IsSpace on Chars
Openers == {"<<", "<<-", "<<~"}

-----------------------------------------------------------------------------
(* strings and bufio, on texts *)

TrimLeft(s, cut) ==
  LET k == SelectInSeq(s, LAMBDA c : c \notin cut)
  IN IF k = 0 THEN <<>> ELSE SubSeq(s, k, Len(s))

TrimRight(s, cut) == SubSeq(s, 1, SelectLastInSeq(s, LAMBDA c : c \notin cut))

TrimSpace(s) == TrimRight(TrimLeft(s, Whitespace), Whitespace)

(* strings.Split on any character of cut: n cuts give n + 1 parts *)
RECURSIVE SplitOn(_, _)
SplitOn(s, cut) ==
  LET k == SelectInSeq(s, LAMBDA c : c \in cut)
  IN IF k = 0 THEN <<s>>
     ELSE <<SubSeq(s, 1, k - 1)>> \o SplitOn(SubSeq(s, k + 1, Len(s)), cut)

Join(sep, parts) ==
  IF parts = <<>> THEN <<>>
  ELSE FoldLeft(LAMBDA acc, p : acc \o sep \o p, Head(parts), Tail(parts))

(* bufio.ScanLines: no empty last token after a final newline *)
ScanLines(s) ==
  LET parts == SplitOn(s, {NL})
  IN IF parts[Len(parts)] = <<>> THEN Front(parts) ELSE parts

-----------------------------------------------------------------------------
(* dedent.Dedent *)

IsBlankLine(l) == \A i \in DOMAIN l : l[i] \in Blanks
Indent(l) == SubSeq(l, 1, SelectInSeq(l, LAMBDA c : c \notin Blanks) - 1)

(* the margin loop over the indents of the non-blank lines, in order *)
RECURSIVE DedentMarginKeepLonger(_, _)
DedentMarginKeepLonger(indents, margin) ==
  IF indents = <<>> THEN margin
  ELSE LET x == Head(indents) IN
       CASE IsPrefix(margin, x) -> DedentMarginKeepLonger(Tail(indents), margin)
         [] IsPrefix(x, margin) -> DedentMarginKeepLonger(Tail(indents), margin)
         [] OTHER -> <<>>

RECURSIVE DedentMargin(_, _)
DedentMargin(indents, margin) ==
  IF indents = <<>> THEN margin
  ELSE LET x == Head(indents) IN
       CASE IsPrefix(margin, x) -> DedentMargin(Tail(indents), margin)
         [] IsPrefix(x, margin) -> DedentMargin(Tail(indents), x)
         [] OTHER -> <<>>

Dedent(text) ==
  LET ls      == [i \in DOMAIN SplitOn(text, {NL}) |->
                    IF IsBlankLine(SplitOn(text, {NL})[i]) THEN <<>> ELSE SplitOn(text, {NL})[i]]
      indents == SelectSeq([i \in DOMAIN ls |-> IF ls[i] = <<>> THEN <<NL>> ELSE Indent(ls[i])],
                           LAMBDA x : x # <<NL>>)
      margin  == IF indents = <<>> THEN <<>> ELSE DedentMargin(Tail(indents), Head(indents))
  IN Join(<<NL>>, [i \in DOMAIN ls |->
                     IF margin # <<>> /\ IsPrefix(margin, ls[i])
                       THEN SubSeq(ls[i], Len(margin) + 1, Len(ls[i])) ELSE ls[i]])

-----------------------------------------------------------------------------
(* emitHeredocPieces, on the joined pieces; opener is the heredoc start    *)
(* with its terminator trimmed off.                                        *)

FoldTrailingSpace(raw) == FlattenSeq([l \in DOMAIN ScanLines(TrimSpace(raw)) |->
                                        TrimSpace(ScanLines(TrimSpace(raw))[l]) \o <<SP>>])

FoldUntrimmed(raw) == Join(<<SP>>, [l \in DOMAIN ScanLines(raw) |->
                                      TrimSpace(ScanLines(raw)[l])])

Fold(raw) == Join(<<SP>>, [l \in DOMAIN ScanLines(TrimSpace(raw)) |->
                             TrimSpace(ScanLines(TrimSpace(raw))[l])])

EmitHeredocPieces(opener, raw) ==
  LET trimmed == TrimRight(TrimLeft(raw, {NL}), {NL, TAB})
  IN CASE opener = "<<-" -> Dedent(trimmed)
       [] opener = "<<~" -> Fold(trimmed)
       [] OTHER -> trimmed

-----------------------------------------------------------------------------
(* The fragments of a literal and the outcome of elaborating one.         *)

Ok(s) == [ok |-> TRUE, s |-> s, err |-> "none"]
Failed(e) == [ok |-> FALSE, s |-> <<>>, err |-> e]

Text(s) == [type |-> "text", s |-> s]
Spaces(s) == [type |-> "spaces", s |-> s]
Escaped(c) == [type |-> "escaped", c |-> c]
Interpolated(r) == [type |-> "interpolated", val |-> r]

(* strconv.UnquoteChar(`\c`, '"'), line 161: the one-character escapes;   *)
(* anything else (\', or \x, \u, an octal digit without the digits that  *)
(* follow it) is strconv.ErrSyntax.                                        *)
GoSimpleEscapes == ("n" :> <<NL>>) @@ ("t" :> <<TAB>>) @@ ("\\" :> <<"\\">>) @@ ("\"" :> <<"\"">>)
UnquoteChar(c) == IF c \in DOMAIN GoSimpleEscapes THEN Ok(GoSimpleEscapes[c])
                  ELSE Failed("invalid syntax")

(* Variant: the "\$" case dropped, every escape goes to UnquoteChar. *)
StringPieceNoDollar(f) ==
  CASE f.type = "escaped"      -> UnquoteChar(f.c)
    [] f.type = "interpolated" -> f.val
    [] f.type = "text"         -> Ok(f.s)

(* the piece each fragment of a string adds, lines 156-181 *)
StringPiece(f) ==
  CASE f.type = "escaped"      -> IF f.c = "$" THEN Ok(<<"$">>) ELSE UnquoteChar(f.c)
    [] f.type = "interpolated" -> f.val
    [] f.type = "text"         -> Ok(f.s)

(* a heredoc keeps an escape as written, except "\$", lines 190-214 *)
HeredocPiece(f) ==
  CASE f.type = "escaped"      -> Ok(IF f.c = "$" THEN <<"$">> ELSE <<"\\", f.c>>)
    [] f.type = "interpolated" -> f.val
    [] f.type \in {"spaces", "text"} -> Ok(f.s)

(* a raw heredoc has only Spaces and Text, lines 245-252 *)
RawHeredocPiece(f) == Ok(f.s)

(* the fragment loop: the pieces joined in order, or the first error      *)
RECURSIVE JoinPieces(_)
JoinPieces(rs) ==
  IF rs = <<>> THEN Ok(<<>>)
  ELSE IF ~Head(rs).ok THEN Head(rs)
  ELSE LET rest == JoinPieces(Tail(rs))
       IN IF rest.ok THEN Ok(Head(rs).s \o rest.s) ELSE rest

-----------------------------------------------------------------------------
VARIABLES
  lit,   \* the literal: [form, opener, frags]
  out    \* what the handler sets the register to, or its error

vars == <<lit, out>>

Pending == Failed("pending")

Init ==
  /\ lit \in Literals
  /\ out = Pending

EmitStringLit ==
  /\ out = Pending /\ lit.form = "string"
  /\ out' = JoinPieces([i \in DOMAIN lit.frags |-> StringPiece(lit.frags[i])])
  /\ UNCHANGED lit

EmitHeredoc ==
  /\ out = Pending /\ lit.form = "heredoc"
  /\ LET r == JoinPieces([i \in DOMAIN lit.frags |-> HeredocPiece(lit.frags[i])])
     IN out' = IF r.ok THEN Ok(EmitHeredocPieces(lit.opener, r.s)) ELSE r
  /\ UNCHANGED lit

EmitRawHeredoc ==
  /\ out = Pending /\ lit.form = "rawheredoc"
  /\ out' = Ok(EmitHeredocPieces(lit.opener,
                                 JoinPieces([i \in DOMAIN lit.frags |-> RawHeredocPiece(lit.frags[i])]).s))
  /\ UNCHANGED lit

Emitted == out # Pending /\ UNCHANGED vars

Next == EmitStringLit \/ EmitHeredoc \/ EmitRawHeredoc \/ Emitted

Spec == Init /\ [][Next]_vars

-----------------------------------------------------------------------------
Forms == {"string", "heredoc", "rawheredoc"}
Done == out # Pending

(* The heredoc's text as joined from its fragments, and as trimmed. *)
Raw == JoinPieces([i \in DOMAIN lit.frags |-> HeredocPiece(lit.frags[i])]).s
Trimmed == TrimRight(TrimLeft(Raw, {NL}), {NL, TAB})

TypeOK ==
  /\ lit.form \in Forms /\ lit.opener \in Openers \cup {"none"}
  /\ out.ok \in BOOLEAN
  /\ out.ok => out.s \in Seq(STRING)
  /\ out.ok /\ lit.form # "string" => Len(out.s) <= Len(Raw)   \* trimming only drops characters

Lines(s) == SplitOn(s, {NL})
Words(s) == SelectSeq(SplitOn(s, Whitespace), LAMBDA w : w # <<>>)
HeredocDone(op) == lit.form \in {"heredoc", "rawheredoc"} /\ lit.opener = op /\ out.ok

(* Dedent ("<<-") keeps the shape of the text: the same lines, blank ones  *)
(* emptied, and one margin of blanks, common to every non-blank line, cut  *)
(* from each of them, so relative indentation is kept, whatever text the   *)
(* interpolations brought into it.                                         *)
DedentKeepsRelativeIndent ==
  HeredocDone("<<-") =>
    /\ Len(Lines(out.s)) = Len(Lines(Trimmed))
    /\ \E m \in {Indent(l) : l \in {Lines(Trimmed)[i] : i \in DOMAIN Lines(Trimmed)}} \cup {<<>>} :
         \A i \in DOMAIN Lines(Trimmed) :
           IF IsBlankLine(Lines(Trimmed)[i]) THEN Lines(out.s)[i] = <<>>
           ELSE Lines(Trimmed)[i] = m \o Lines(out.s)[i]

(* Fold ("<<~") gives one line, with no whitespace around it, that has the *)
(* words of the joined heredoc in order (blanks inside a line are kept).   *)
FoldKeepsWords ==
  HeredocDone("<<~") =>
    /\ \A i \in DOMAIN out.s : out.s[i] # NL
    /\ out.s = TrimSpace(out.s)
    /\ Words(out.s) = Words(Raw)

(* Spec 4.2: "<<-" removes the indentation common to the non-blank lines.  *)
DedentRemovesCommonIndent ==
  HeredocDone("<<-") =>
    LET ls == Lines(Trimmed)
        common == LongestCommonPrefix({Indent(ls[i]) : i \in {j \in DOMAIN ls : ~IsBlankLine(ls[j])}})
    IN \A i \in DOMAIN ls :
         ~IsBlankLine(ls[i]) => ls[i] = common \o Lines(out.s)[i]

(* The spec's reading of a fragment (spec 4.2, 6): a string's escapes are  *)
(* \n \t \\ \" and \$; an interpolation is its value coerced to a string.  *)
SpecEscapes == GoSimpleEscapes @@ ("$" :> <<"$">>)
SpecFails(f) == \/ f.type = "interpolated" /\ ~f.val.ok
                \/ f.type = "escaped" /\ lit.form = "string" /\ f.c \notin DOMAIN SpecEscapes
SpecText(f) == CASE f.type = "escaped" -> SpecEscapes[f.c]
                 [] f.type = "interpolated" -> f.val.s
                 [] OTHER -> f.s

(* Elaboration of a string or heredoc fails exactly when one of its        *)
(* fragments cannot be elaborated (an interpolation whose emission or      *)
(* String() fails, an escape a string does not have), with the error of    *)
(* the first such fragment, even when a later one fails too; and a string  *)
(* that elaborates is its fragments read as the spec reads them, in order. *)
ElaboratesAsSpecified ==
  Done =>
    LET bad == {i \in DOMAIN lit.frags : SpecFails(lit.frags[i])}
        first == CHOOSE i \in bad : \A j \in bad : i <= j
    IN /\ out.ok <=> bad = {}
       /\ bad # {} /\ lit.frags[first].type = "interpolated" => out.err = lit.frags[first].val.err
       /\ out.ok /\ lit.form = "string" =>
            out.s = FlattenSeq([i \in DOMAIN lit.frags |-> SpecText(lit.frags[i])])

=============================================================================
