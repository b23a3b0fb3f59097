------------------------------- MODULE Frontend -------------------------------
(***************************************************************************)
(* The compiler as a process: main (src/main.cpp), the reading of the      *)
(* source (src/utils/io.hpp), Driver::parse (src/parser/driver.cpp), the   *)
(* writing of the class file (src/codegen/codegen.cpp).  It runs several   *)
(* times in one directory.                                                 *)
(*                                                                         *)
(* The text is chosen piece by piece while the scanner reads it, and a     *)
(* scanner of Go reads it too.  The tables of the parser and the passes    *)
(* are not here: the parser may find an error at every token, the analysis *)
(* in every program.                                                       *)
(***************************************************************************)
EXTENDS Scanner

CONSTANTS
  MaxRuns,       (* how often the compiler runs                            *)
  MaxPieces,     (* the length of the texts of all runs, without the last  *)
                 (* newline                                                *)
  LongestString  (* the length of the string literals                      *)

(* No exit status is the absence of one, no piece is none, and no token is *)
(* none.                                                                   *)
ASSUME NoneAssumption ==
  None \notin {"success", "failure", "aborted", "killed"} \cup Pieces \cup {EOF, "/"} \cup Tokens

VARIABLES
  run, stage, exit,
  source,       (* what the text comes from; "test" is the stream of       *)
                (* tests/runner/parse_test.cpp                             *)
  pieces, last, (* how many were read, and the last one                    *)
  go,           (* the scanner of Go                                       *)
  ahead,        (* tokens that it has and that were not returned here yet  *)
  same,         (* all tokens were those of Go                             *)
  met,          (* constructs that the scanner does not take as Go does    *)
  status, root, diagnostics,  (* of the parser, and of ParseResult         *)
  analysis,
  stream,       (* of the class file                                       *)
  classFile     (* parts, each with the run that wrote it; None if absent  *)

textVars == <<pieces, last, go, ahead, same, met>>
parseVars == <<status, root, diagnostics>>
fileVars == <<stream, classFile>>
vars == <<scannerVars, run, stage, exit, source, textVars, parseVars, analysis, fileVars>>

Sources == {"no argument", "missing", "unreadable", "file", "test"}
ClosedStream == [open |-> FALSE, buffer |-> <<>>, failed |-> FALSE]

ScannerGone ==
  /\ next' = None /\ condition' = "INITIAL" /\ stack' = <<>> /\ inLine' = FALSE
  /\ stringLiteral' = <<>> /\ runeValue' = None /\ token' = None

TextGone == last' = None /\ go' = GoStart /\ ahead' = <<>> /\ same' = TRUE /\ met' = {} /\ UNCHANGED pieces

(* The process ends, and its memory with it. *)
Exits(code) ==
  /\ stage' = "exited"
  /\ exit' = code
  /\ ScannerGone /\ TextGone
  /\ status' = 0 /\ root' = FALSE /\ diagnostics' = FALSE
  /\ UNCHANGED <<run, source, analysis>>

-----------------------------------------------------------------------------
(* The text.                                                               *)

(* StreamLinesFromFile ends every line with a newline, the last one too.   *)
MayEnd == source = "test" \/ last = "newline"

(* What the scanner does not take as Go does: the piece p, where the       *)
(* scanner of Go is g.                                                     *)
(*   quote after token: the quotation mark is skipped like a blank.        *)
(*   newline in comment: it does not end the line.                         *)
(*   carriage return: nor does a newline after it.                         *)
(*   rune at end of line: nor does a newline after a rune.                 *)
(*   dropped: keywords and operators that are printed only.                *)
(*   brace in string: it is not in the value.                              *)
(*   escape in rune, number: conversions that throw.                       *)
Differs(c, g, p) ==
  \/ c = "quoteAfterToken" /\ g.mode = "code" /\ p = "dquote" /\ condition = "ENABLE_SEMICOLON"
  \/ c = "newlineInComment" /\ g.mode = "comment" /\ p = "newline" /\ g.ends # "no"
  \/ c = "carriageReturn" /\ g.mode = "code" /\ p = "cr" /\ g.ends # "no"
  \/ c = "runeAtEndOfLine" /\ g.mode \in {"code", "line comment"} /\ p \in {"newline", EOF} /\ g.ends = "rune"
  \/ c = "dropped" /\ g.mode = "code" /\ p \in PrintedOnly
  \/ c = "braceInString" /\ g.mode = "string" /\ p = "{"
  \/ c = "escapeInRune" /\ g.mode = "rune" /\ p = "hexesc"
  \/ c = "number" /\ g.mode = "code" /\ p = "huge"

Constructs(g, p) ==
  {c \in {"quoteAfterToken", "newlineInComment", "carriageReturn", "runeAtEndOfLine",
          "dropped", "braceInString", "escapeInRune", "number"} : Differs(c, g, p)}

(* After a difference, and after MaxPieces, the text ends. *)
MayFollow(p) ==
  /\ ~Glued(last, p)
  /\ p = EOF => MayEnd
  /\ pieces >= MaxPieces \/ ~same => p = IF MayEnd THEN EOF ELSE "newline"
  /\ go.mode = "string" /\ Len(go.literal) >= LongestString => p \in {"dquote", "newline", "badesc", EOF}
  /\ met # {} /\ Constructs(go, p) # {} => p \in {"newline", EOF}

ReadPiece ==
  /\ stage = "parsing" /\ next = None /\ token = None
  /\ \E p \in Pieces \cup {EOF} :
       /\ MayFollow(p)
       /\ next' = p
       /\ last' = p
       /\ pieces' = pieces + 1
       /\ LET taken == GoTakes(go, p)
          IN  /\ go' = Nothing(taken)
              /\ ahead' = IF same THEN ahead \o taken.tokens ELSE <<>>
       /\ met' = met \cup Constructs(go, p)
  /\ UNCHANGED <<condition, stack, inLine, stringLiteral, runeValue, token, same,
                 run, stage, exit, source, parseVars, analysis, fileVars>>

Scan ==
  /\ stage = "parsing"
  /\ Match
  /\ UNCHANGED <<run, stage, exit, source, textVars, parseVars, analysis, fileVars>>

-----------------------------------------------------------------------------
(* The parser takes a token.                                               *)

Compared(t) ==
  LET agrees == IF t = END THEN ahead = <<>> ELSE ahead # <<>> /\ Head(ahead) = t
  IN  /\ same' = (same /\ agrees)
      /\ ahead' = IF same' /\ ahead # <<>> THEN Tail(ahead) ELSE <<>>

Takes(t) ==
  /\ stage = "parsing"
  /\ token # None /\ t = token
  /\ token' = None
  /\ UNCHANGED <<next, condition, stack, inLine, stringLiteral, runeValue,
                 run, exit, source, pieces, last, go, met, analysis, fileVars>>

Shift ==
  \E t \in {token} :
    /\ t \notin {Failure, END}
    /\ Takes(t) /\ Compared(t)
    /\ UNCHANGED <<stage, parseVars>>

(* Parser::error, for an exception of the scanner. *)
ScannerFails ==
  /\ Takes(Failure)
  /\ status' = 1 /\ diagnostics' = TRUE
  /\ stage' = "returning"
  /\ UNCHANGED <<root, ahead, same>>

(* An error at a token.  Default reductions come before it: that of Root   *)
(* may be one of them.                                                     *)
SyntaxError ==
  \E t \in {token} :
    /\ t # Failure
    /\ Takes(t) /\ Compared(t)
    /\ status' = 1 /\ diagnostics' = TRUE
    /\ root' \in {root, TRUE}
    /\ stage' = "returning"

Accept ==
  /\ Takes(END) /\ Compared(END)
  /\ status' = 0 /\ root' = TRUE
  /\ stage' = "returning"
  /\ UNCHANGED diagnostics

(* Mutant: the root is returned whatever the parser says. *)
DriverReturnsRoot ==
  /\ stage = "returning"
  /\ stage' = "parsed"
  /\ ScannerGone
  /\ UNCHANGED <<run, exit, source, textVars, parseVars, analysis, fileVars>>

(* The rest of Driver::parse. *)
DriverReturns ==
  /\ stage = "returning"
  /\ root' = (root /\ status = 0 /\ ~diagnostics)
  /\ stage' = "parsed"
  /\ ScannerGone
  /\ UNCHANGED <<run, exit, source, textVars, status, diagnostics, analysis, fileVars>>

-----------------------------------------------------------------------------
(* main.                                                                   *)

(* A file that cannot be read, such as a directory, has no end of file:    *)
(* the loop of StreamLinesFromFile does not end.                           *)
Start ==
  /\ stage = "start" /\ source # "unreadable"
  /\ IF source \in {"no argument", "missing"} THEN Exits("failure") /\ UNCHANGED fileVars
     ELSE /\ stage' = "parsing"
          /\ UNCHANGED <<scannerVars, run, exit, source, textVars, parseVars, analysis, fileVars>>

Parsed == root /\ ~diagnostics

CheckResult ==
  /\ stage = "parsed"
  /\ IF source = "test" \/ ~Parsed THEN Exits(IF Parsed THEN "success" ELSE "failure") /\ UNCHANGED fileVars
     ELSE /\ stage' = "analysing"
          /\ TextGone
          /\ UNCHANGED <<scannerVars, run, exit, source, parseVars, analysis, fileVars>>

Analyse ==
  /\ stage = "analysing"
  /\ analysis' \in {"ok", "errors"}
  /\ stage' = "analysed"
  /\ UNCHANGED <<scannerVars, run, exit, source, textVars, parseVars, fileVars>>

(* Mutant: code is generated for every program. *)
CreateDotFileAlways ==
  /\ stage = "analysed"
  /\ stage' = "generating"
  /\ UNCHANGED <<scannerVars, run, exit, source, textVars, parseVars, analysis, fileVars>>

(* The tree is written in any case; create_directory may throw. *)
CreateDotFile ==
  /\ stage = "analysed"
  /\ \/ Exits("aborted") /\ UNCHANGED fileVars
     \/ analysis = "errors" /\ Exits("failure") /\ UNCHANGED fileVars
     \/ /\ analysis = "ok" /\ stage' = "generating"
        /\ UNCHANGED <<scannerVars, run, exit, source, textVars, parseVars, analysis, fileVars>>

-----------------------------------------------------------------------------
(* Generator::generate.  No call on the stream is checked.                 *)

Continues(from, to) ==
  /\ stage = from /\ stage' = to
  /\ UNCHANGED <<scannerVars, run, exit, source, textVars, parseVars, analysis>>

(* Mutant: what is in the file stays there. *)
OpenClassFileAppending ==
  /\ Continues("generating", "opened")
  /\ stream' = [ClosedStream EXCEPT !.open = TRUE]
  /\ classFile' = IF classFile = None THEN <<>> ELSE classFile

OpenClassFile ==
  /\ Continues("generating", "opened")
  /\ \/ stream' = [ClosedStream EXCEPT !.open = TRUE] /\ classFile' = <<>>
     \/ stream' = [ClosedStream EXCEPT !.failed = TRUE] /\ UNCHANGED classFile

Write(part) ==
  /\ stream' = IF stream.open /\ ~stream.failed
                 THEN [stream EXCEPT !.buffer = Append(@, [part |-> part, run |-> run])] ELSE stream
  /\ UNCHANGED classFile

WriteHead == Continues("opened", "headed") /\ Write("head")
WritePool == Continues("headed", "pooled") /\ Write("pool")
WriteTail == Continues("pooled", "written") /\ Write("tail")

(* The buffer of the stream is written when it is full, or cannot be.      *)
Overflow ==
  /\ stream.open /\ stream.buffer # <<>>
  /\ \/ /\ classFile' = Append(classFile, Head(stream.buffer))
        /\ stream' = [stream EXCEPT !.buffer = Tail(@)]
     \/ stream' = [stream EXCEPT !.buffer = <<>>, !.failed = TRUE] /\ UNCHANGED classFile
  /\ UNCHANGED <<scannerVars, run, stage, exit, source, textVars, parseVars, analysis>>

CloseClassFile ==
  /\ stage = "written"
  /\ \E n \in 0 .. Len(stream.buffer) :
       /\ classFile' = IF stream.open THEN classFile \o SubSeq(stream.buffer, 1, n) ELSE classFile
       /\ stream' = [ClosedStream EXCEPT !.failed = stream.failed \/ n < Len(stream.buffer)]
  /\ Exits("success")

-----------------------------------------------------------------------------
(* A signal or an exception that nothing catches. *)
Kill ==
  /\ stage # "exited"
  /\ Exits("killed")
  /\ stream' = ClosedStream /\ UNCHANGED classFile

NextRun ==
  /\ stage = "exited" /\ run < MaxRuns
  /\ run' = run + 1
  /\ stage' = "start" /\ exit' = None /\ source' \in Sources
  /\ analysis' = None /\ stream' = ClosedStream
  /\ UNCHANGED <<scannerVars, textVars, parseVars, classFile>>

Init ==
  /\ ScannerStarts
  /\ run = 1 /\ stage = "start" /\ exit = None /\ source \in Sources
  /\ pieces = 0 /\ last = None /\ go = GoStart /\ ahead = <<>> /\ same = TRUE /\ met = {}
  /\ status = 0 /\ root = FALSE /\ diagnostics = FALSE
  /\ analysis = None
  /\ stream = ClosedStream /\ classFile = None

Step ==
  \/ Start \/ ReadPiece \/ Scan \/ Shift \/ ScannerFails \/ SyntaxError \/ Accept
  \/ DriverReturns \/ CheckResult \/ Analyse \/ CreateDotFile
  \/ OpenClassFile \/ WriteHead \/ WritePool \/ WriteTail \/ Overflow \/ CloseClassFile

Next == Step \/ Kill \/ NextRun

(* The compiler is one process that does not wait for anything; the file   *)
(* ends.                                                                   *)
Spec == Init /\ [][Next]_vars /\ WF_vars(Step)

-----------------------------------------------------------------------------
(* The type invariant.  The conditions that yy_pop_state leaves have one   *)
(* to go back to.                                                          *)
TypeOK ==
  /\ condition \in Conditions
  /\ condition \in {"MULTILINE_COMMENT", "STRING_LITERAL", "RUNE_LITERAL", "ENABLE_SEMICOLON"} => stack # <<>>
  /\ stage \in {"start", "parsing", "returning", "parsed", "analysing", "analysed",
                "generating", "opened", "headed", "pooled", "written", "exited"}
  /\ exit \in {None, "success", "failure", "aborted", "killed"}
  /\ (stage = "exited") = (exit # None)
  /\ stage # "parsing" => ahead = <<>> \/ stage \in {"returning", "parsed"}

(* The tokens that the parser gets are those of Go, semicolons and values  *)
(* of literals included, whatever comments and lines are around them.      *)
TokensAsInGo ==
  same \/ met \cap {"quoteAfterToken", "newlineInComment", "carriageReturn", "runeAtEndOfLine",
                    "dropped", "braceInString"} # {}

(* The scanner fails only where Go has no token: a literal does not depend *)
(* on those before it.                                                     *)
RejectsOnlyIllegal ==
  token = Failure => go.mode = "illegal" \/ met \cap {"quoteAfterToken", "escapeInRune", "number"} # {}

(* Driver::parse returns a tree only for a text that was read to its end   *)
(* and is in Go's tokens, even if the tree was made before the error.      *)
AcceptsOnlyLegal ==
  stage = "parsed" /\ root => (last = EOF /\ go.mode = "code") \/ met \cap {"quoteAfterToken"} # {}

(* After exit status 0 the class file is that of this run, unless a call   *)
(* on the stream failed, whatever runs before it have left behind.         *)
Whole == <<[part |-> "head", run |-> run], [part |-> "pool", run |-> run], [part |-> "tail", run |-> run]>>
WholeClassFile == exit = "success" /\ source = "file" /\ ~stream.failed => classFile = Whole

(* The class file of an earlier run stays as it is, unless this run has a  *)
(* program without errors.                                                 *)
KeepsClassFile == [][classFile' # classFile => Parsed /\ analysis = "ok"]_vars

(* Every run ends, whatever the text is and wherever it stops, if there is *)
(* a text.                                                                 *)
Terminates == stage # "exited" /\ source # "unreadable" ~> stage = "exited"
=============================================================================
