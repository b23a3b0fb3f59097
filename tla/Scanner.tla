-------------------------------- MODULE Scanner --------------------------------
(***************************************************************************)
(* The rules of src/lexer/lexer.l, as flex applies them, and Scanner::lex  *)
(* (src/lexer/scanner.cpp).                                                *)
(*                                                                         *)
(* One step applies one rule to the next piece of the text.  Which rule it *)
(* is depends on the start condition.  A run of characters that a rule     *)
(* takes at once may be taken piece by piece, since taking it again has    *)
(* the same effect.                                                        *)
(***************************************************************************)
EXTENDS GoTokens

CONSTANT None  (* no piece, no token, no exit status *)

VARIABLES
  next,           (* the piece at which flex stands, None before it is read *)
  condition,      (* the start condition                                    *)
  stack,          (* those saved by yy_push_state, the last one first       *)
  inLine,         (* the rule that is applied is the one of //              *)
  stringLiteral,
  runeValue,      (* None for -1                                            *)
  token           (* what Scanner::lex has returned, or None                *)

scannerVars == <<next, condition, stack, inLine, stringLiteral, runeValue, token>>

Conditions == {"INITIAL", "MULTILINE_COMMENT", "STRING_LITERAL", "RUNE_LITERAL", "ENABLE_SEMICOLON"}

(* fail throws an exception, which the parser turns into an error. *)
Failure == Token("failure", <<>>)
END == Token("END", <<>>)

(* Mutant: the condition is changed and not saved. *)
PushNothing(c) == condition' = c /\ UNCHANGED stack

yy_push_state(c) == condition' = c /\ stack' = <<condition>> \o stack

(* Mutant: every condition is left for INITIAL. *)
PopInitial == condition' = "INITIAL" /\ stack' = Tail(stack)

yy_pop_state == condition' = Head(stack) /\ stack' = Tail(stack)
BEGIN(c) == condition' = c /\ UNCHANGED stack

Consumed == next' = None
Silent == UNCHANGED <<stringLiteral, runeValue, token>>
Return(t) == token' = t /\ UNCHANGED <<stringLiteral, runeValue>>
Fails == token' = Failure /\ UNCHANGED <<condition, stack, inLine, stringLiteral, runeValue>>

InCondition(c) == condition = c /\ ~inLine /\ token = None /\ next # None

-----------------------------------------------------------------------------
(* INITIAL.                                                                *)

PrintedOnly == {"go", "&"}
PushesSemicolon == {"name", ")"}

MatchToken ==
  /\ InCondition("INITIAL")
  /\ next \in {"name", "if", ")", "+", "{"}
  /\ Consumed
  /\ IF next \in PushesSemicolon THEN yy_push_state("ENABLE_SEMICOLON") ELSE UNCHANGED <<condition, stack>>
  /\ Return(Token(next, <<>>))
  /\ UNCHANGED inLine

(* The asterisk of "*/" first. *)
MatchAsterisk ==
  /\ InCondition("INITIAL") /\ next \in {"*/", "/"}
  /\ next' = IF next = "/" THEN None ELSE "/"
  /\ Return(Token(IF next = "/" THEN "/" ELSE "*", <<>>))
  /\ UNCHANGED <<condition, stack, inLine>>

(* Words and operators that are printed, not returned; blanks. *)
MatchIgnored ==
  /\ InCondition("INITIAL")
  /\ next \in PrintedOnly \cup {"blank", "newline", "cr"}
  /\ Consumed /\ Silent
  /\ UNCHANGED <<condition, stack, inLine>>

(* stoll throws out_of_range, and a backslash has no rule of its own. *)
MatchBadCharacter ==
  /\ InCondition("INITIAL")
  /\ next \in {"huge", "esc", "hexesc", "badesc"}
  /\ Consumed /\ Fails

MatchEnd ==
  /\ InCondition("INITIAL") /\ next = EOF
  /\ Return(END)
  /\ UNCHANGED <<next, condition, stack, inLine>>

OpenString ==
  /\ InCondition("INITIAL") /\ next = "dquote"
  /\ Consumed
  /\ yy_push_state("STRING_LITERAL")
  /\ stringLiteral' = <<>>
  /\ UNCHANGED <<inLine, runeValue, token>>

(* Mutant: the value of the last rune is kept. *)
OpenRuneKeeping ==
  /\ InCondition("INITIAL") /\ next = "squote"
  /\ Consumed
  /\ yy_push_state("RUNE_LITERAL")
  /\ UNCHANGED <<inLine, stringLiteral, runeValue, token>>

OpenRune ==
  /\ InCondition("INITIAL") /\ next = "squote"
  /\ Consumed
  /\ yy_push_state("RUNE_LITERAL")
  /\ runeValue' = None
  /\ UNCHANGED <<inLine, stringLiteral, token>>

-----------------------------------------------------------------------------
(* Comments, in INITIAL and ENABLE_SEMICOLON.                              *)

OpenComment ==
  /\ InCondition("INITIAL") \/ InCondition("ENABLE_SEMICOLON")
  /\ next = "/*"
  /\ Consumed
  /\ yy_push_state("MULTILINE_COMMENT")
  /\ Silent /\ UNCHANGED inLine

(* What no rule takes is echoed. *)
MatchInComment ==
  /\ InCondition("MULTILINE_COMMENT")
  /\ IF next = EOF THEN Consumed /\ Fails
     ELSE /\ Consumed
          /\ IF next = "*/" THEN yy_pop_state ELSE UNCHANGED <<condition, stack>>
          /\ Silent /\ UNCHANGED inLine

MatchLineComment ==
  /\ InCondition("INITIAL") \/ InCondition("ENABLE_SEMICOLON")
  /\ next = "//"
  /\ Consumed
  /\ inLine' = TRUE
  /\ Silent /\ UNCHANGED <<condition, stack>>

(* .* takes all but a newline. *)
MatchInLineComment ==
  /\ inLine /\ token = None /\ next # None
  /\ IF next \in {"newline", EOF} THEN inLine' = FALSE /\ UNCHANGED next
                                  ELSE Consumed /\ UNCHANGED inLine
  /\ Silent /\ UNCHANGED <<condition, stack>>

-----------------------------------------------------------------------------
(* ENABLE_SEMICOLON: after a token that may end a statement.  A quotation  *)
(* mark is in the class of blanks, [" "\t].                                *)

SkipBlank ==
  /\ InCondition("ENABLE_SEMICOLON") /\ next \in {"blank", "dquote"}
  /\ Consumed
  /\ Silent /\ UNCHANGED <<condition, stack, inLine>>

InsertSemicolon ==
  /\ InCondition("ENABLE_SEMICOLON") /\ next \in {"newline", EOF}
  /\ next' = IF next = EOF THEN EOF ELSE None
  /\ BEGIN("INITIAL")
  /\ Return(Semicolon)
  /\ UNCHANGED inLine

(* Mutant: the empty text is matched, and matched again. *)
MatchEmptyAgain ==
  /\ InCondition("ENABLE_SEMICOLON")
  /\ next \notin {"blank", "dquote", "//", "/*", "newline", EOF}
  /\ Silent /\ UNCHANGED <<next, condition, stack, inLine>>

(* The empty text before anything else. *)
MatchEmpty ==
  /\ InCondition("ENABLE_SEMICOLON")
  /\ next \notin {"blank", "dquote", "//", "/*", "newline", EOF}
  /\ BEGIN("INITIAL")
  /\ Silent /\ UNCHANGED <<next, inLine>>

-----------------------------------------------------------------------------
(* Literals.                                                               *)

EndsStringWrongly == {"badesc", "newline", EOF}

CloseString ==
  /\ InCondition("STRING_LITERAL") /\ next = "dquote"
  /\ Consumed
  /\ yy_push_state("ENABLE_SEMICOLON")
  /\ Return(Token("string", stringLiteral))
  /\ UNCHANGED inLine

(* Number signs and braces have no rule: they are echoed and not kept. *)
MatchInString ==
  /\ InCondition("STRING_LITERAL") /\ next # "dquote"
  /\ Consumed
  /\ IF next \in EndsStringWrongly THEN Fails
     ELSE /\ stringLiteral' = IF next = "{" THEN stringLiteral ELSE Append(stringLiteral, next)
          /\ UNCHANGED <<condition, stack, inLine, runeValue, token>>

CloseRune ==
  /\ InCondition("RUNE_LITERAL") /\ next = "squote"
  /\ Consumed
  /\ IF runeValue = None THEN Fails
     ELSE yy_pop_state /\ Return(Token("rune", <<runeValue>>)) /\ UNCHANGED inLine

(* The text that stoi gets of a hexadecimal escape begins with an x: it    *)
(* throws invalid_argument.                                                *)
MatchInRune ==
  /\ InCondition("RUNE_LITERAL") /\ next # "squote"
  /\ Consumed
  /\ IF next \in SingleCharacters \cup {"esc"} /\ runeValue = None
       THEN runeValue' = next /\ UNCHANGED <<condition, stack, inLine, stringLiteral, token>>
       ELSE Fails

-----------------------------------------------------------------------------
Match ==
  \/ MatchToken \/ MatchAsterisk \/ MatchIgnored \/ MatchBadCharacter \/ MatchEnd
  \/ OpenString \/ OpenRune \/ OpenComment \/ MatchInComment \/ MatchLineComment \/ MatchInLineComment
  \/ SkipBlank \/ InsertSemicolon \/ MatchEmpty
  \/ CloseString \/ MatchInString \/ CloseRune \/ MatchInRune

ScannerStarts ==
  /\ next = None /\ condition = "INITIAL" /\ stack = <<>> /\ inLine = FALSE
  /\ stringLiteral = <<>> /\ runeValue = None /\ token = None
=============================================================================
