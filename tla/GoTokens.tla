------------------------------- MODULE GoTokens -------------------------------
(***************************************************************************)
(* External: the tokens of Go.                                             *)
(*                                                                         *)
(* A text is taken in pieces, of which each stands for many: "name" for    *)
(* every identifier, number and keyword that may end a statement, ")" for  *)
(* every operator that may ("++" too), "if" and "+" for the others that    *)
(* the compiler knows, "go" and "&" for those it does not know, "huge" for *)
(* numbers that no type has, "{" for what its strings leave out.           *)
(* "dquote" and "squote" are the two quotation marks, "esc" an escape      *)
(* sequence that both kinds of literals have, "hexesc" one that is written *)
(* in hexadecimal, "badesc" none.                                          *)
(***************************************************************************)
EXTENDS Integers, Sequences

Words == {"name", "huge", "if", "go"}
Pieces == Words \cup {")", "+", "{", "&", "dquote", "squote", "esc", "hexesc", "badesc",
                      "blank", "newline", "cr", "/*", "*/", "//"}

EOF == "end of file"

(* Two pieces that would not be two pieces next to each other. *)
Glued(p, q) ==
  \/ p \in Words /\ q \in Words
  \/ p = q /\ p \in {"+", "&"}
  \/ p = "/*" /\ q \in {"/*", "//"}
  \/ p = "*/" /\ q \in {"/*", "*/", "//"}

SingleCharacters == {"name", ")", "+", "{", "&", "dquote", "blank", "cr"}

Token(kind, value) == [kind |-> kind, value |-> value]
Tokens == [kind : Pieces \cup {";", "*", "/", "string", "rune", "END", "failure"}, value : Seq(Pieces)]
Semicolon == Token(";", <<>>)

(* The tokens after which a line ends with a semicolon. *)
EndsStatement == {"name", "huge", ")"}

-----------------------------------------------------------------------------
(* A scanner of Go: its mode, whether the last token of the line ends a    *)
(* statement ("no", "yes", or "rune" if it does and is a rune), the        *)
(* literal that it is in, and the tokens of the piece that it took last.   *)
GoStart == [mode |-> "code", ends |-> "no", literal |-> <<>>, tokens |-> <<>>]

Illegal(g) == [g EXCEPT !.mode = "illegal", !.tokens = <<>>]
Enters(g, mode) == [g EXCEPT !.mode = mode, !.literal = <<>>, !.tokens = <<>>]
Returns(g, token, ends) == [g EXCEPT !.mode = "code", !.ends = ends, !.tokens = <<token>>]
Nothing(g) == [g EXCEPT !.tokens = <<>>]
Extends(g, p) == [g EXCEPT !.literal = Append(@, p), !.tokens = <<>>]

(* The end of a line, in code or in a comment. *)
LineEnds(g) == IF g.ends = "no" THEN Nothing(g) ELSE [g EXCEPT !.ends = "no", !.tokens = <<Semicolon>>]

InCode(g, p) ==
  CASE p \in {"newline", EOF} -> LineEnds(g)
    [] p \in {"blank", "cr"} -> Nothing(g)
    [] p = "//" -> Enters(g, "line comment")
    [] p = "/*" -> Enters(g, "comment")
    [] p = "dquote" -> Enters(g, "string")
    [] p = "squote" -> Enters(g, "rune")
    [] p = "*/" -> [g EXCEPT !.ends = "no", !.tokens = <<Token("*", <<>>), Token("/", <<>>)>>]
    [] p \in {"esc", "hexesc", "badesc"} -> Illegal(g)
    [] OTHER -> Returns(g, Token(p, <<>>), IF p \in EndsStatement THEN "yes" ELSE "no")

InString(g, p) ==
  CASE p \in {"newline", "badesc", EOF} -> Illegal(g)
    [] p = "dquote" -> Returns(g, Token("string", g.literal), "yes")
    [] OTHER -> Extends(g, p)

InRune(g, p) ==
  CASE p = "squote" -> IF g.literal = <<>> THEN Illegal(g) ELSE Returns(g, Token("rune", g.literal), "rune")
    [] p \in SingleCharacters \cup {"esc", "hexesc"} -> IF g.literal = <<>> THEN Extends(g, p) ELSE Illegal(g)
    [] OTHER -> Illegal(g)

InLineComment(g, p) ==
  IF p \in {"newline", EOF} THEN [LineEnds(g) EXCEPT !.mode = "code"] ELSE Nothing(g)

(* A comment with newlines acts like a newline. *)
InComment(g, p) ==
  CASE p = EOF -> Illegal(g)
    [] p = "*/" -> [Nothing(g) EXCEPT !.mode = "code"]
    [] p = "newline" -> LineEnds(g)
    [] OTHER -> Nothing(g)

GoTakes(g, p) ==
  CASE g.mode = "code" -> InCode(g, p)
    [] g.mode = "string" -> InString(g, p)
    [] g.mode = "rune" -> InRune(g, p)
    [] g.mode = "line comment" -> InLineComment(g, p)
    [] g.mode = "comment" -> InComment(g, p)
    [] g.mode = "illegal" -> Nothing(g)
=============================================================================
