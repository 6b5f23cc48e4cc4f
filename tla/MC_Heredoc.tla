----------------------------- MODULE MC_Heredoc -----------------------------
EXTENDS Heredoc

CONSTANT MaxLen   \* the most fragments in a literal

(* a word character and the three whitespace characters a heredoc can hold *)
MCChars == {"a", " ", "\t", "\n"}

TextFrags == {Text(<<c>>) : c \in MCChars}
Texts(n) == BoundedSeq(TextFrags, n)

(* one fragment of another kind put anywhere among text fragments *)
WithOne(specials, n) ==
  {InsertAt(p[1], p[2], p[3]) :
     p \in {q \in Texts(n - 1) \X (1..n) \X specials : q[2] <= Len(q[1]) + 1}}

HeredocSpecials ==
  {Escaped("n"), Escaped("$"), Interpolated(Ok(<<"\n", "a">>)), Interpolated(Failed("not a string"))}

(* string fragments: a word, the escapes of spec 6, and interpolations of  *)
(* a string, of a value that is not one, and of a call that fails          *)
StringFrags ==
  {Text(<<"a">>), Escaped("n"), Escaped("$"), Escaped("\\"),
   Interpolated(Ok(<<"a">>)), Interpolated(Failed("not a string")), Interpolated(Failed("call failed"))}

MCLiterals ==
  {[form |-> "string", opener |-> "none", frags |-> fs] : fs \in BoundedSeq(StringFrags, MaxLen - 2)}
  \cup {[form |-> "heredoc", opener |-> o, frags |-> fs] : o \in Openers, fs \in Texts(MaxLen) \cup WithOne(HeredocSpecials, MaxLen - 1)}
  \cup {[form |-> "rawheredoc", opener |-> o, frags |-> fs] :
          o \in Openers, fs \in Texts(MaxLen - 2) \cup WithOne({Spaces(<<"\t">>)}, MaxLen - 2)}

(* dedent heredocs of up to MaxLen lines, each an indent of two blanks   *)
(* before a word, or a line break                                          *)
LineFrags == {Text(<<x, y, "a">>) : x, y \in {" ", "\t"}} \cup {Text(<<"\n">>)}
DedentLines == {[form |-> "heredoc", opener |-> "<<-", frags |-> fs] : fs \in BoundedSeq(LineFrags, MaxLen)}
=============================================================================
