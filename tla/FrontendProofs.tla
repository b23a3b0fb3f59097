---------------------------- MODULE FrontendProofs ----------------------------
(***************************************************************************)
(* Proofs about Frontend, for texts of any length and any number of runs.  *)
(*                                                                         *)
(* Three invariants: of the start conditions, of the class file and of the *)
(* tokens.  The second says what each stage has written or holds in the    *)
(* buffer of the stream, and that a stream is open only after an analysis  *)
(* without errors.                                                         *)
(*                                                                         *)
(* The third relates two scanners that do not move together: that of Go    *)
(* takes a piece at once, lexer.l may apply several rules to it.  It says  *)
(* that there is a scanner of Go that is settled with lexer.l where that   *)
(* stands now, and that would be where the scanner of Go is if it took     *)
(* what lexer.l still has to take.                                         *)
(***************************************************************************)
EXTENDS Frontend, SequenceTheorems, TLAPS

-----------------------------------------------------------------------------
(* Start conditions.                                                       *)

(* The first condition that was saved is INITIAL, and no other condition   *)
(* is entered without saving one.                                          *)
Conditional ==
  /\ condition \in Conditions
  /\ stack \in Seq(Conditions)
  /\ stack = <<>> => condition = "INITIAL"
  /\ stack # <<>> => stack[Len(stack)] = "INITIAL"

LEMMA PushKeepsConditional ==
  ASSUME Conditional, NEW c \in Conditions, yy_push_state(c)
  PROVE  Conditional'
<1>1. condition' = c /\ stack' = <<condition>> \o stack
  BY DEF yy_push_state
<1>2. stack' \in Seq(Conditions) /\ Len(stack') = Len(stack) + 1
  BY <1>1 DEF Conditional
<1>3. stack' # <<>>
  BY <1>2, EmptySeq DEF Conditional
<1>4. stack'[Len(stack')] = "INITIAL"
  <2>1. CASE stack = <<>>
    BY <1>1, <1>2, <2>1 DEF Conditional
  <2>2. CASE stack # <<>>
    <3>1. Len(stack) \in 1 .. Len(stack)
      BY <2>2, EmptySeq DEF Conditional
    <3>2. stack'[Len(stack) + 1] = stack[Len(stack)]
      BY <1>1, <3>1 DEF Conditional
    <3> QED BY <1>2, <2>2, <3>2 DEF Conditional
  <2> QED BY <2>1, <2>2
<1> QED BY <1>1, <1>2, <1>3, <1>4 DEF Conditional

LEMMA PopKeepsConditional ==
  ASSUME Conditional, condition # "INITIAL", yy_pop_state
  PROVE  Conditional'
<1>1. condition' = Head(stack) /\ stack' = Tail(stack)
  BY DEF yy_pop_state
<1>2. stack # <<>> /\ Len(stack) \in Nat \ {0} /\ stack[Len(stack)] = "INITIAL"
  BY EmptySeq DEF Conditional
<1>3. condition' \in Conditions /\ condition' = stack[1]
  BY <1>1, <1>2 DEF Conditional
<1>4. stack' \in Seq(Conditions) /\ Len(stack') = Len(stack) - 1
  BY <1>1, <1>2 DEF Conditional
<1>5. stack' = <<>> => condition' = "INITIAL"
  <2> HAVE stack' = <<>>
  <2>1. Len(stack') = 0
    BY EmptySeq
  <2>2. Len(stack) = 1
    BY <1>2, <1>4, <2>1
  <2> QED BY <1>2, <1>3, <2>2
<1>6. stack' # <<>> => stack'[Len(stack')] = "INITIAL"
  <2> HAVE stack' # <<>>
  <2>1. Len(stack') \in 1 .. Len(stack')
    BY <1>4, EmptySeq
  <2>2. stack'[Len(stack')] = stack[Len(stack') + 1]
    BY <1>1, <1>2, <1>4, <2>1 DEF Conditional
  <2> QED BY <1>2, <1>4, <2>2
<1> QED BY <1>3, <1>4, <1>5, <1>6 DEF Conditional

LEMMA BeginKeepsConditional ==
  ASSUME Conditional, BEGIN("INITIAL")
  PROVE  Conditional'
BY DEF Conditional, BEGIN, Conditions

LEMMA SameKeepsConditional ==
  ASSUME Conditional, UNCHANGED <<condition, stack>>
  PROVE  Conditional'
BY DEF Conditional

LEMMA GoneIsConditional == ScannerGone => Conditional'
BY DEF ScannerGone, Conditional, Conditions

LEMMA MatchKeepsConditional ==
  ASSUME Conditional, Match
  PROVE  Conditional'
<1> USE DEF InCondition
<1> DEFINE Pushes == \E c \in Conditions : yy_push_state(c)
           Same == UNCHANGED <<condition, stack>>
<1>1. CASE MatchToken
  <2>1. Pushes \/ Same
    BY <1>1 DEF MatchToken, Conditions
  <2> QED BY <2>1, PushKeepsConditional, SameKeepsConditional
<1>2. CASE MatchAsterisk \/ MatchIgnored \/ MatchEnd \/ MatchLineComment \/ MatchInLineComment \/ SkipBlank
  <2>1. Same
    BY <1>2 DEF MatchAsterisk, MatchIgnored, MatchEnd, MatchLineComment, MatchInLineComment, SkipBlank
  <2> QED BY <2>1, SameKeepsConditional
<1>3. CASE MatchBadCharacter \/ MatchInString \/ MatchInRune
  <2>1. Same
    BY <1>3 DEF MatchBadCharacter, MatchInString, MatchInRune, Fails
  <2> QED BY <2>1, SameKeepsConditional
<1>4. CASE OpenString \/ OpenRune \/ OpenComment \/ CloseString
  <2>1. Pushes
    BY <1>4 DEF OpenString, OpenRune, OpenComment, CloseString, Conditions
  <2> QED BY <2>1, PushKeepsConditional
<1>5. CASE InsertSemicolon \/ MatchEmpty
  <2>1. BEGIN("INITIAL")
    BY <1>5 DEF InsertSemicolon, MatchEmpty
  <2> QED BY <2>1, BeginKeepsConditional
<1>6. CASE MatchInComment \/ CloseRune
  <2>1. Same \/ (condition # "INITIAL" /\ yy_pop_state)
    BY <1>6 DEF MatchInComment, CloseRune, Fails
  <2> QED BY <2>1, PopKeepsConditional, SameKeepsConditional
<1> QED BY <1>1, <1>2, <1>3, <1>4, <1>5, <1>6 DEF Match

-----------------------------------------------------------------------------
(* Stages.                                                                 *)

Stages == {"start", "parsing", "returning", "parsed", "analysing", "analysed",
           "generating", "opened", "headed", "pooled", "written", "exited"}

Codes == {"success", "failure", "aborted", "killed"}

Staged ==
  /\ stage \in Stages
  /\ exit \in Codes \cup {None}
  /\ stage = "exited" <=> exit # None
  /\ stage \notin {"parsing", "returning", "parsed"} => ahead = <<>>

LEMMA ExitKeepsStaged ==
  ASSUME NEW code \in Codes, Exits(code)
  PROVE  Staged' /\ Conditional'
<1>1. ScannerGone /\ ahead' = <<>> /\ stage' = "exited" /\ exit' = code
  BY DEF Exits, TextGone
<1> QED BY <1>1, GoneIsConditional, NoneAssumption DEF Staged, Stages, Codes

(* The stages that a step without an exit leads to.                        *)
LEMMA StepKeepsStaged ==
  ASSUME Staged, Conditional, Step
  PROVE  Staged' /\ Conditional'
<1>1. CASE \E code \in Codes : Exits(code)
  BY <1>1, ExitKeepsStaged
<1>2. CASE \A code \in Codes : ~Exits(code)
  <2> DEFINE Same == UNCHANGED <<condition, stack>>
             Moves(to) == stage' = to /\ exit' = exit /\ ahead' = ahead
             Reads == stage = "parsing" /\ stage' \in {"parsing", "returning"} /\ exit' = exit
  <2> USE DEF Codes, Staged, Stages
  <2>1. CASE Start
    BY <1>2, <2>1, SameKeepsConditional DEF Start, scannerVars, textVars
  <2>2. CASE ReadPiece
    BY <2>2, SameKeepsConditional DEF ReadPiece
  <2>3. CASE Scan
    BY <2>3, MatchKeepsConditional DEF Scan, textVars
  <2>4. CASE Shift \/ ScannerFails \/ SyntaxError \/ Accept
    <3>1. Reads /\ Same
      BY <2>4 DEF Shift, ScannerFails, SyntaxError, Accept, Takes
    <3> QED BY <3>1, SameKeepsConditional
  <2>5. CASE DriverReturns
    BY <2>5, GoneIsConditional DEF DriverReturns, textVars
  <2>6. CASE CheckResult
    BY <1>2, <2>6, SameKeepsConditional DEF CheckResult, TextGone, scannerVars
  <2>7. CASE Analyse
    BY <2>7, SameKeepsConditional DEF Analyse, scannerVars, textVars
  <2>8. CASE CreateDotFile
    BY <1>2, <2>8, SameKeepsConditional DEF CreateDotFile, scannerVars, textVars
  <2>9. CASE OpenClassFile \/ WriteHead \/ WritePool \/ WriteTail
    BY <2>9, SameKeepsConditional
       DEF OpenClassFile, WriteHead, WritePool, WriteTail, Continues, scannerVars, textVars
  <2>10. CASE Overflow
    BY <2>10, SameKeepsConditional DEF Overflow, scannerVars, textVars
  <2>11. CASE CloseClassFile
    BY <1>2, <2>11 DEF CloseClassFile
  <2> QED BY <2>1, <2>2, <2>3, <2>4, <2>5, <2>6, <2>7, <2>8, <2>9, <2>10, <2>11 DEF Step
<1> QED BY <1>1, <1>2

LEMMA NextKeepsStaged == Staged /\ Conditional /\ [Next]_vars => Staged' /\ Conditional'
<1> SUFFICES ASSUME Staged, Conditional, [Next]_vars PROVE Staged' /\ Conditional'
  OBVIOUS
<1>1. CASE Step
  BY <1>1, StepKeepsStaged
<1>2. CASE Kill
  BY <1>2, ExitKeepsStaged DEF Kill, Codes
<1>3. CASE NextRun
  BY <1>3, SameKeepsConditional DEF NextRun, Staged, Stages, scannerVars, textVars
<1>4. CASE UNCHANGED vars
  BY <1>4, SameKeepsConditional DEF vars, Staged, scannerVars, textVars
<1> QED BY <1>1, <1>2, <1>3, <1>4 DEF Next

LEMMA InitIsStaged == Init => Staged /\ Conditional
BY DEF Init, ScannerStarts, Staged, Stages, Codes, Conditional, Conditions

(* The scanner is always in a condition of lexer.l that it can leave, and  *)
(* every run of the compiler is in a stage of main: for texts of any       *)
(* length, after any number of runs.                                       *)
THEOREM TypeCorrect == Spec => []TypeOK
<1>1. Staged /\ Conditional => TypeOK
  BY DEF Staged, Conditional, TypeOK, Stages, Codes, Conditions
<1> QED BY <1>1, InitIsStaged, NextKeepsStaged, PTL DEF Spec

-----------------------------------------------------------------------------
(* The class file.                                                         *)

Part(name) == [part |-> name, run |-> run]
Parts == [part : {"head", "pool", "tail"}, run : {run}]
Generating == {"generating", "opened", "headed", "pooled", "written"}
Parsing == {"start", "parsing", "returning", "parsed", "exited"}

(* What a stage has given to the stream. *)
Expected(s) ==
  CASE s = "opened"  -> <<>>
    [] s = "headed"  -> <<Part("head")>>
    [] s = "pooled"  -> <<Part("head"), Part("pool")>>
    [] s = "written" -> <<Part("head"), Part("pool"), Part("tail")>>

Filed ==
  /\ stage \notin Parsing => Parsed
  /\ stage \in Generating => analysis = "ok"
  /\ stream \in [open : BOOLEAN, buffer : Seq(Parts), failed : BOOLEAN]
  /\ stream.open => stage \in Generating \ {"generating"} /\ classFile \in Seq(Parts)
  /\ ~stream.open => stream.buffer = <<>>
  /\ stage \in Generating \ {"generating"} /\ ~stream.failed =>
       stream.open /\ classFile \o stream.buffer = Expected(stage)
  /\ WholeClassFile

Inv == Staged /\ Filed

(* A stage that does not touch the class file.                             *)
LEMMA OtherKeepsFiled ==
  ASSUME Inv, UNCHANGED <<run, source, fileVars>>, stage \notin Generating,
         stage' \notin Parsing => Parsed',
         stage' \in Generating => stage' = "generating" /\ analysis' = "ok",
         exit' = "success" => exit = "success" \/ source # "file"
  PROVE  Filed'
BY DEF Inv, Staged, Stages, Filed, Generating, Parts, WholeClassFile, Whole, fileVars

LEMMA InitIsFiled == Init => Filed
<1> SUFFICES ASSUME Init PROVE Filed
  OBVIOUS
<1>1. stage = "start" /\ exit = None /\ stream = [open |-> FALSE, buffer |-> <<>>, failed |-> FALSE]
  BY DEF Init, ClosedStream
<1> QED BY <1>1, NoneAssumption DEF Filed, Generating, Parsing, WholeClassFile

LEMMA AppendToSecond ==
  ASSUME NEW S, NEW s \in Seq(S), NEW t \in Seq(S), NEW e \in S
  PROVE  s \o Append(t, e) = Append(s \o t, e)
<1>1. s \o t \in Seq(S) /\ <<e>> \in Seq(S)
  BY ConcatProperties
<1>2. Append(t, e) = t \o <<e>> /\ Append(s \o t, e) = (s \o t) \o <<e>>
  BY <1>1, AppendIsConcat
<1> QED BY <1>1, <1>2, ConcatAssociative

(* The stream takes a part, unless a call on it has failed.                *)
LEMMA WriteKeepsFiled ==
  ASSUME Inv, NEW from \in Generating \ {"generating"}, NEW to \in Generating \ {"generating"},
         NEW name \in {"head", "pool", "tail"},
         Continues(from, to), Write(name), Expected(to) = Append(Expected(from), Part(name))
  PROVE  Filed'
<1>1. /\ stage = from /\ stage' = to /\ run' = run /\ exit' = exit /\ source' = source
      /\ root' = root /\ diagnostics' = diagnostics /\ analysis' = analysis /\ classFile' = classFile
  BY DEF Continues, Write, parseVars
<1>2. Parts' = Parts /\ Expected(to)' = Expected(to)
  BY <1>1 DEF Parts, Expected, Part
<1>3. Part(name) \in Parts
  BY DEF Part, Parts
<1>4. Parsed' /\ analysis' = "ok" /\ exit' # "success"
  BY <1>1, NoneAssumption DEF Inv, Staged, Codes, Filed, Generating, Parsing, Parsed
<1>5. CASE stream.open /\ ~stream.failed
  <2>1. stream' = [stream EXCEPT !.buffer = Append(@, Part(name))]
    BY <1>5 DEF Write, Part
  <2>2. /\ stream' \in [open : BOOLEAN, buffer : Seq(Parts), failed : BOOLEAN]
        /\ stream'.open /\ stream'.buffer = Append(stream.buffer, Part(name))
    <3>1. stream \in [open : BOOLEAN, buffer : Seq(Parts), failed : BOOLEAN]
      BY DEF Inv, Filed
    <3> DEFINE longer == Append(stream.buffer, Part(name))
    <3>2. longer \in Seq(Parts)
      BY <1>3, <3>1, AppendProperties
    <3>3. stream' = [stream EXCEPT !.buffer = longer]
      BY <2>1
    <3> HIDE DEF longer
    <3>4. stream' \in [open : BOOLEAN, buffer : Seq(Parts), failed : BOOLEAN] /\ stream'.open /\ stream'.buffer = longer
      BY <1>5, <3>1, <3>2, <3>3
    <3> QED BY <3>4 DEF longer
  <2>3. /\ classFile \in Seq(Parts) /\ stream.buffer \in Seq(Parts)
        /\ classFile \o stream.buffer = Expected(from)
    BY <1>1, <1>5 DEF Inv, Filed
  <2>4. classFile \o Append(stream.buffer, Part(name)) = Append(classFile \o stream.buffer, Part(name))
    <3> DEFINE f == classFile
               b == stream.buffer
               e == Part(name)
               S == Parts
    <3>1. f \in Seq(S) /\ b \in Seq(S) /\ e \in S
      BY <1>3, <2>3
    <3> HIDE DEF f, b, e, S
    <3>2. f \o Append(b, e) = Append(f \o b, e)
      BY <3>1, AppendToSecond
    <3> QED BY <3>2 DEF f, b, e
  <2> QED BY <1>1, <1>2, <1>4, <2>2, <2>3, <2>4 DEF Filed, WholeClassFile
<1>6. CASE ~(stream.open /\ ~stream.failed)
  <2>1. stream' = stream
    BY <1>6 DEF Write
  <2>2. stream.failed
    BY <1>1, <1>6 DEF Inv, Filed
  <2> QED BY <1>1, <1>2, <1>4, <2>1, <2>2 DEF Inv, Filed, WholeClassFile
<1> QED BY <1>5, <1>6

LEMMA OverflowKeepsFiled ==
  ASSUME Inv, Overflow
  PROVE  Filed'
<1>1. /\ run' = run /\ stage' = stage /\ exit' = exit /\ source' = source
      /\ root' = root /\ diagnostics' = diagnostics /\ analysis' = analysis
      /\ stream.open /\ stream.buffer # <<>>
  BY DEF Overflow, parseVars
<1>2. Parts' = Parts /\ Expected(stage)' = Expected(stage)
  BY <1>1 DEF Parts, Expected, Part
<1>3. /\ stage \in Generating \ {"generating"} /\ classFile \in Seq(Parts)
      /\ stream \in [open : BOOLEAN, buffer : Seq(Parts), failed : BOOLEAN]
  BY <1>1 DEF Inv, Filed
<1>4. Parsed' /\ analysis' = "ok" /\ exit' # "success"
  BY <1>1, <1>3, NoneAssumption DEF Inv, Staged, Codes, Filed, Generating, Parsing, Parsed
<1>5. CASE /\ classFile' = Append(classFile, Head(stream.buffer))
           /\ stream' = [stream EXCEPT !.buffer = Tail(@)]
  <2>1. /\ Head(stream.buffer) \in Parts /\ Tail(stream.buffer) \in Seq(Parts)
        /\ stream.buffer = <<Head(stream.buffer)>> \o Tail(stream.buffer)
    BY <1>1, <1>3
  <2>2. /\ stream' \in [open : BOOLEAN, buffer : Seq(Parts), failed : BOOLEAN]
        /\ stream'.open /\ stream'.buffer = Tail(stream.buffer) /\ stream'.failed = stream.failed
    BY <1>1, <1>3, <1>5, <2>1
  <2>3. classFile' \in Seq(Parts)
    BY <1>3, <1>5, <2>1
  <2>4. classFile' \o stream'.buffer = classFile \o stream.buffer
    BY <1>3, <1>5, <2>1, <2>2
  <2>5. ~stream.failed => classFile \o stream.buffer = Expected(stage)
    BY <1>3 DEF Inv, Filed
  <2> QED BY <1>1, <1>2, <1>3, <1>4, <2>2, <2>3, <2>4, <2>5 DEF Filed, WholeClassFile
<1>6. CASE stream' = [stream EXCEPT !.buffer = <<>>, !.failed = TRUE] /\ classFile' = classFile
  <2>1. /\ stream' \in [open : BOOLEAN, buffer : Seq(Parts), failed : BOOLEAN]
        /\ stream'.open /\ stream'.failed
    <3>1. <<>> \in Seq(Parts)
      OBVIOUS
    <3> HIDE DEF Parts
    <3> QED BY <1>1, <1>3, <1>6, <3>1
  <2> QED BY <1>1, <1>2, <1>3, <1>4, <1>6, <2>1 DEF Filed, WholeClassFile
<1> QED BY <1>5, <1>6 DEF Overflow

LEMMA OpenKeepsFiled ==
  ASSUME Inv, OpenClassFile
  PROVE  Filed'
<1>1. /\ stage' = "opened" /\ run' = run /\ exit' = exit /\ source' = source
      /\ root' = root /\ diagnostics' = diagnostics /\ analysis' = analysis /\ stage = "generating"
  BY DEF OpenClassFile, Continues, parseVars
<1>2. Parts' = Parts /\ Expected("opened")' = <<>>
  BY DEF Expected, Parts, OpenClassFile, Continues
<1>3. Parsed' /\ analysis' = "ok" /\ exit' # "success"
  BY <1>1, NoneAssumption DEF Inv, Staged, Codes, Filed, Generating, Parsing, Parsed
<1>4. CASE stream' = [ClosedStream EXCEPT !.open = TRUE] /\ classFile' = <<>>
  <2>1. stream' = [open |-> TRUE, buffer |-> <<>>, failed |-> FALSE]
    BY <1>4 DEF ClosedStream
  <2>2. <<>> \in Seq(Parts) /\ <<>> \o <<>> = <<>>
    OBVIOUS
  <2> HIDE DEF Parts
  <2>3. stream' \in [open : BOOLEAN, buffer : Seq(Parts), failed : BOOLEAN]
    BY <2>1, <2>2
  <2>4. classFile' \o stream'.buffer = <<>>
    BY <1>4, <2>1, <2>2
  <2> QED BY <1>1, <1>2, <1>3, <1>4, <2>1, <2>2, <2>3, <2>4 DEF Filed, Generating, Parsing, WholeClassFile
<1>5. CASE stream' = [ClosedStream EXCEPT !.failed = TRUE]
  <2>1. stream' = [open |-> FALSE, buffer |-> <<>>, failed |-> TRUE]
    BY <1>5 DEF ClosedStream
  <2> QED BY <1>1, <1>2, <1>3, <2>1 DEF Filed, Generating, Parsing, WholeClassFile
<1> QED BY <1>4, <1>5 DEF OpenClassFile

(* What is closed without a failure is whole: the rest of the buffer is    *)
(* written after what was in the file before.                              *)
LEMMA CloseKeepsFiled ==
  ASSUME Inv, CloseClassFile
  PROVE  Filed'
<1>1. stage = "written" /\ stage' = "exited" /\ run' = run
  BY DEF CloseClassFile, Exits
<1>2. PICK n \in 0 .. Len(stream.buffer) :
        /\ classFile' = IF stream.open THEN classFile \o SubSeq(stream.buffer, 1, n) ELSE classFile
        /\ stream' = [ClosedStream EXCEPT !.failed = stream.failed \/ n < Len(stream.buffer)]
  BY DEF CloseClassFile
<1>3. stream \in [open : BOOLEAN, buffer : Seq(Parts), failed : BOOLEAN]
  BY DEF Inv, Filed
<1>4. stream' = [open |-> FALSE, buffer |-> <<>>, failed |-> stream.failed \/ n < Len(stream.buffer)]
  BY <1>2 DEF ClosedStream
<1>5. stream' \in [open : BOOLEAN, buffer : Seq(Parts'), failed : BOOLEAN]
  BY <1>4
<1>6. ASSUME ~stream'.failed PROVE classFile' = Whole'
  <2>1. ~stream.failed /\ n = Len(stream.buffer)
    <3>1. ~stream.failed /\ ~(n < Len(stream.buffer))
      BY <1>4, <1>6
    <3>2. Len(stream.buffer) \in Nat
      BY <1>3
    <3> QED BY <1>2, <3>1, <3>2
  <2>2. stream.open /\ classFile \o stream.buffer = Expected("written")
    BY <1>1, <2>1 DEF Inv, Filed, Generating
  <2>3. SubSeq(stream.buffer, 1, Len(stream.buffer)) = stream.buffer
    BY <1>3
  <2>4. classFile' = Expected("written")
    BY <1>2, <2>1, <2>2, <2>3
  <2>5. Expected("written") = Whole'
    BY <1>1 DEF Expected, Part, Whole
  <2> QED BY <2>4, <2>5
<1> QED BY <1>1, <1>4, <1>5, <1>6 DEF Filed, Generating, Parsing, WholeClassFile

LEMMA KillKeepsFiled ==
  ASSUME Kill
  PROVE  Filed'
<1>1. stage' = "exited" /\ exit' = "killed" /\ stream' = [open |-> FALSE, buffer |-> <<>>, failed |-> FALSE]
  BY DEF Kill, Exits, ClosedStream
<1> QED BY <1>1 DEF Filed, Generating, Parsing, WholeClassFile

LEMMA NextRunKeepsFiled ==
  ASSUME NextRun
  PROVE  Filed'
<1>1. stage' = "start" /\ exit' = None /\ stream' = [open |-> FALSE, buffer |-> <<>>, failed |-> FALSE]
  BY DEF NextRun, ClosedStream
<1> QED BY <1>1, NoneAssumption DEF Filed, Generating, Parsing, WholeClassFile

LEMMA StepKeepsFiled ==
  ASSUME Inv, Step
  PROVE  Filed'
<1> DEFINE Other == /\ UNCHANGED <<run, source, fileVars>> /\ stage \notin Generating
                    /\ stage' \notin Parsing => Parsed'
                    /\ stage' \in Generating => stage' = "generating" /\ analysis' = "ok"
                    /\ exit' = "success" => exit = "success" \/ source # "file"
<1> USE DEF Generating, Parsing, Parsed, parseVars, Inv, Staged, Stages
<1>1. CASE Start
  BY <1>1, OtherKeepsFiled DEF Start, Exits
<1>2. CASE ReadPiece \/ Scan
  BY <1>2, OtherKeepsFiled DEF ReadPiece, Scan
<1>3. CASE Shift \/ ScannerFails \/ SyntaxError \/ Accept
  <2>1. Other
    BY <1>3 DEF Shift, ScannerFails, SyntaxError, Accept, Takes
  <2> QED BY <2>1, OtherKeepsFiled
<1>4. CASE DriverReturns
  BY <1>4, OtherKeepsFiled DEF DriverReturns
<1>5. CASE CheckResult
  <2>1. Other
    BY <1>5 DEF CheckResult, Exits
  <2> QED BY <2>1, OtherKeepsFiled
<1>6. CASE Analyse
  BY <1>6, OtherKeepsFiled DEF Analyse, Filed
<1>7. CASE CreateDotFile
  <2>1. CASE \E code \in {"aborted", "failure"} : Exits(code) /\ UNCHANGED fileVars
    <3>1. Other
      BY <1>7, <2>1 DEF CreateDotFile, Exits
    <3> QED BY <3>1, OtherKeepsFiled
  <2>2. CASE /\ stage = "analysed" /\ analysis = "ok" /\ stage' = "generating"
             /\ UNCHANGED <<run, exit, source, parseVars, analysis, fileVars>>
    BY <2>2, OtherKeepsFiled DEF Filed
  <2> QED BY <1>7, <2>1, <2>2 DEF CreateDotFile
<1>8. CASE OpenClassFile
  BY <1>8, OpenKeepsFiled
<1>9. CASE WriteHead
  <2>1. Expected("headed") = Append(Expected("opened"), Part("head"))
    BY DEF Expected
  <2> QED BY <1>9, <2>1, WriteKeepsFiled DEF WriteHead
<1>10. CASE WritePool
  <2>1. Expected("pooled") = Append(Expected("headed"), Part("pool"))
    BY DEF Expected
  <2> QED BY <1>10, <2>1, WriteKeepsFiled DEF WritePool
<1>11. CASE WriteTail
  <2>1. Expected("written") = Append(Expected("pooled"), Part("tail"))
    BY DEF Expected
  <2> QED BY <1>11, <2>1, WriteKeepsFiled DEF WriteTail
<1>12. CASE Overflow
  BY <1>12, OverflowKeepsFiled
<1>13. CASE CloseClassFile
  BY <1>13, CloseKeepsFiled
<1> QED BY <1>1, <1>2, <1>3, <1>4, <1>5, <1>6, <1>7, <1>8, <1>9, <1>10, <1>11, <1>12, <1>13 DEF Step

LEMMA NextKeepsFiled == Inv /\ [Next]_vars => Filed'
<1> SUFFICES ASSUME Inv, [Next]_vars PROVE Filed'
  OBVIOUS
<1>1. CASE Next
  BY <1>1, StepKeepsFiled, KillKeepsFiled, NextRunKeepsFiled DEF Next
<1>2. CASE UNCHANGED vars
  BY <1>2 DEF vars, parseVars, fileVars, Inv, Filed, Parts, Expected, Part, Parsed, WholeClassFile, Whole
<1> QED BY <1>1, <1>2

LEMMA Invariance == Spec => []Inv
<1>1. Staged /\ Conditional /\ Filed /\ [Next]_vars => (Staged /\ Conditional /\ Filed)'
  BY NextKeepsStaged, NextKeepsFiled DEF Inv
<1>2. Staged /\ Conditional /\ Filed => Inv
  BY DEF Inv
<1> QED BY <1>1, <1>2, InitIsStaged, InitIsFiled, PTL DEF Spec

-----------------------------------------------------------------------------
(* What follows.                                                           *)

(* After exit status 0 the class file has the head, the pool and the tail  *)
(* of this run and nothing else, whatever earlier runs have left, and      *)
(* however the stream divided its writes, unless a call on it failed.      *)
THEOREM WholeFileAfterSuccess == Spec => []WholeClassFile
<1>1. Inv => WholeClassFile
  BY DEF Inv, Filed
<1> QED BY <1>1, Invariance, PTL

(* No step of any run changes the class file of an earlier run before the  *)
(* program of this run was found to have no errors.                        *)
THEOREM EarlierFileIsKept == Spec => KeepsClassFile
<1> DEFINE Changed == classFile' # classFile => Parsed /\ analysis = "ok"
<1>1. Inv /\ [Next]_vars => [Changed]_vars
  <2> SUFFICES ASSUME Inv, [Next]_vars, classFile' # classFile
               PROVE  Parsed /\ analysis = "ok"
    OBVIOUS
  <2>1. CASE stage \in Generating
    BY <2>1 DEF Inv, Filed, Generating, Parsing
  <2>2. CASE stage \notin Generating
    <3>1. UNCHANGED classFile
      <4>1. ~OpenClassFile /\ ~WriteHead /\ ~WritePool /\ ~WriteTail /\ ~CloseClassFile
        BY <2>2 DEF OpenClassFile, WriteHead, WritePool, WriteTail, CloseClassFile, Continues, Generating
      <4>2. ~Overflow
        BY <2>2 DEF Overflow, Inv, Filed
      <4>3. CASE Start \/ ReadPiece \/ Scan \/ Shift \/ ScannerFails \/ SyntaxError \/ Accept
        BY <4>3 DEF Start, ReadPiece, Scan, Shift, ScannerFails, SyntaxError, Accept, Takes, fileVars
      <4>4. CASE DriverReturns \/ CheckResult \/ Analyse \/ CreateDotFile
        BY <4>4 DEF DriverReturns, CheckResult, Analyse, CreateDotFile, fileVars
      <4>5. CASE Kill \/ NextRun
        BY <4>5 DEF Kill, NextRun
      <4>6. CASE UNCHANGED vars
        BY <4>6 DEF vars, fileVars
      <4> QED BY <4>1, <4>2, <4>3, <4>4, <4>5, <4>6 DEF Next, Step
    <3> QED BY <3>1
  <2> QED BY <2>1, <2>2
<1> QED BY <1>1, Invariance, PTL DEF Spec, KeepsClassFile

-----------------------------------------------------------------------------
(* The relation between the two scanners.                                  *)

Modes == {"code", "line comment", "comment", "string", "rune", "illegal"}
GoStates == [mode : Modes, ends : {"no", "yes", "rune"}, literal : Seq(Pieces), tokens : {<<>>}]

Typed ==
  /\ next \in Pieces \cup {EOF, "/", None}
  /\ inLine \in BOOLEAN
  /\ stringLiteral \in Seq(Pieces)
  /\ runeValue \in Pieces \cup {None}
  /\ token \in Tokens \cup {None}
  /\ go \in GoStates
  /\ same \in BOOLEAN

(* The text has nothing that the tokens may differ for. *)
Clean ==
  met \cap {"quoteAfterToken", "newlineInComment", "carriageReturn", "runeAtEndOfLine",
            "dropped", "braceInString"} = {}

(* Between tokens, a line that ends gets a semicolon if Go gives it one.   *)
Between(c, g) == c \in {"INITIAL", "ENABLE_SEMICOLON"} /\ (Clean => (g.ends = "yes" <=> c = "ENABLE_SEMICOLON"))

SettledInCode(g) == g.mode = "code" /\ ~inLine /\ Between(condition, g)
SettledInLine(g) == g.mode = "line comment" /\ inLine /\ Between(condition, g)
SettledInComment(g) ==
  /\ g.mode = "comment" /\ ~inLine /\ condition = "MULTILINE_COMMENT"
  /\ stack # <<>> /\ Between(Head(stack), g)
SettledInString(g) ==
  /\ g.mode = "string" /\ ~inLine /\ condition = "STRING_LITERAL"
  /\ Clean => g.literal = stringLiteral
SettledInRune(g) ==
  /\ g.mode = "rune" /\ ~inLine /\ condition = "RUNE_LITERAL"
  /\ stack # <<>> /\ Head(stack) = "INITIAL"
  /\ g.literal = IF runeValue = None THEN <<>> ELSE <<runeValue>>

Settled(g) ==
  SettledInCode(g) \/ SettledInLine(g) \/ SettledInComment(g) \/ SettledInString(g) \/ SettledInRune(g)

(* What matters of the state of Go's scanner in its mode. *)
Alike(g, h) ==
  /\ g.mode = h.mode
  /\ g.mode \in {"string", "rune"} => g.literal = h.literal
  /\ g.mode \in {"code", "line comment", "comment"} => g.ends = h.ends

(* The tokens that are not returned yet are the one that lexer.l has       *)
(* returned, if any, and then the others.                                  *)
Ahead(others) ==
  IF token \in {None, END} THEN ahead = others ELSE ahead # <<>> /\ Head(ahead) = token /\ Tail(ahead) = others

(* lexer.l has still to apply rules to the piece next. *)
Stands(g) ==
  /\ Settled(g)
  /\ Alike(go, GoTakes(g, next))
  /\ Constructs(g, next) \subseteq met
  /\ Clean => Ahead(GoTakes(g, next).tokens)

Agreement ==
  stage = "parsing" /\ "quoteAfterToken" \notin met /\ token # Failure =>
    IF next = None THEN Settled(go) /\ (Clean => Ahead(<<>>)) ELSE \E g \in GoStates : Stands(g)

Legal == "quoteAfterToken" \notin met => last = EOF /\ go.mode = "code"

Agreed ==
  /\ Typed
  /\ Clean => same
  /\ Agreement
  /\ RejectsOnlyIllegal
  /\ next = EOF => last = EOF
  /\ token = END => next = EOF
  /\ token = END \/ next = "/" => condition = "INITIAL" /\ ~inLine
  /\ stage = "returning" => (status = 0 => Legal)
  /\ stage = "parsed" => (root => Legal)
  /\ stage \notin {"parsing", "returning"} => next = None /\ condition = "INITIAL" /\ ~inLine /\ token = None
  /\ stage \notin {"parsing", "returning", "parsed"} => go = GoStart /\ ahead = <<>> /\ same /\ met = {}

-----------------------------------------------------------------------------
(* The scanner of Go.                                                      *)

LEMMA NoneIsNothingElse ==
  /\ None \notin Pieces /\ None # EOF /\ None # "/"
  /\ \A t \in Tokens : t # None
BY NoneAssumption

LEMMA SpecialTokens ==
  /\ Failure \in Tokens /\ END \in Tokens /\ Semicolon \in Tokens
  /\ Failure # END /\ Semicolon # END /\ Semicolon # Failure
  /\ \A p \in Pieces \cup {"*", "/"} : Token(p, <<>>) \in Tokens
  /\ \A kind \in {"string", "rune"}, value \in Seq(Pieces) : Token(kind, value) \in Tokens
<1>1. <<>> \in Seq(Pieces)
  OBVIOUS
<1>2. ASSUME NEW k \in Pieces \cup {";", "*", "/", "string", "rune", "END", "failure"}, NEW v \in Seq(Pieces)
      PROVE  Token(k, v) \in Tokens
  BY DEF Token, Tokens
<1>3. Failure.kind = "failure" /\ END.kind = "END" /\ Semicolon.kind = ";"
  BY DEF Failure, END, Semicolon, Token
<1>4. Failure # END /\ Semicolon # END /\ Semicolon # Failure
  BY <1>3
<1>5. Failure \in Tokens /\ END \in Tokens /\ Semicolon \in Tokens
  BY <1>1, <1>2 DEF Failure, END, Semicolon
<1> QED BY <1>1, <1>2, <1>4, <1>5

LEMMA Singletons == <<>> \in Seq(Tokens) /\ \A t \in Tokens : <<t>> \in Seq(Tokens)
OBVIOUS

GoTaken == [mode : Modes, ends : {"no", "yes", "rune"}, literal : Seq(Pieces), tokens : Seq(Tokens)]

LEMMA GoBuilds ==
  ASSUME NEW g \in GoStates
  PROVE  /\ Illegal(g).mode = "illegal" /\ Illegal(g) \in GoTaken
         /\ Nothing(g).mode = g.mode /\ Nothing(g).ends = g.ends /\ Nothing(g).literal = g.literal
         /\ Nothing(g).tokens = <<>> /\ Nothing(g) \in GoTaken
         /\ LineEnds(g).mode = g.mode /\ LineEnds(g).ends = "no" /\ LineEnds(g) \in GoTaken
         /\ LineEnds(g).tokens = IF g.ends = "no" THEN <<>> ELSE <<Semicolon>>
<1> USE DEF GoStates, GoTaken, Modes
<1>1. <<>> \in Seq(Tokens) /\ <<Semicolon>> \in Seq(Tokens)
  BY SpecialTokens, Singletons
<1>2. Illegal(g).mode = "illegal" /\ Illegal(g) \in GoTaken
  BY <1>1 DEF Illegal
<1>3. /\ Nothing(g).mode = g.mode /\ Nothing(g).ends = g.ends /\ Nothing(g).literal = g.literal
      /\ Nothing(g).tokens = <<>> /\ Nothing(g) \in GoTaken
  <2>1. Nothing(g).mode = g.mode /\ Nothing(g).ends = g.ends /\ Nothing(g).literal = g.literal
    BY DEF Nothing
  <2>2. Nothing(g).tokens = <<>>
    BY DEF Nothing
  <2>3. Nothing(g) \in GoTaken
    BY <1>1 DEF Nothing
  <2> QED BY <2>1, <2>2, <2>3
<1>4. CASE g.ends = "no"
  <2>1. LineEnds(g) = Nothing(g)
    BY <1>4 DEF LineEnds
  <2> QED BY <1>2, <1>3, <1>4, <2>1
<1>5. CASE g.ends # "no"
  <2>1. LineEnds(g) = [g EXCEPT !.ends = "no", !.tokens = <<Semicolon>>]
    BY <1>5 DEF LineEnds
  <2>2. LineEnds(g) \in GoTaken
    BY <1>1, <2>1
  <2>3. LineEnds(g).mode = g.mode /\ LineEnds(g).ends = "no" /\ LineEnds(g).tokens = <<Semicolon>>
    BY <2>1
  <2> QED BY <1>2, <1>3, <1>5, <2>2, <2>3
<1> QED BY <1>4, <1>5

LEMMA GoEnters ==
  ASSUME NEW g \in GoStates, NEW m \in Modes
  PROVE  /\ Enters(g, m).mode = m /\ Enters(g, m).ends = g.ends
         /\ Enters(g, m).literal = <<>> /\ Enters(g, m).tokens = <<>>
         /\ Enters(g, m) \in GoTaken
<1>1. <<>> \in Seq(Pieces) /\ <<>> \in Seq(Tokens)
  OBVIOUS
<1> QED BY <1>1 DEF GoStates, GoTaken, Enters

LEMMA GoReturns ==
  ASSUME NEW g \in GoStates, NEW t \in Tokens, NEW e \in {"no", "yes", "rune"}
  PROVE  /\ Returns(g, t, e).mode = "code" /\ Returns(g, t, e).ends = e
         /\ Returns(g, t, e).tokens = <<t>>
         /\ Returns(g, t, e) \in GoTaken
<1>1. "code" \in Modes /\ <<t>> \in Seq(Tokens)
  BY DEF Modes
<1> QED BY <1>1 DEF GoStates, GoTaken, Returns

LEMMA GoExtends ==
  ASSUME NEW g \in GoStates, NEW p \in Pieces
  PROVE  /\ Extends(g, p).mode = g.mode /\ Extends(g, p).literal = Append(g.literal, p)
         /\ Extends(g, p).tokens = <<>>
         /\ Extends(g, p) \in GoTaken
<1>1. Append(g.literal, p) \in Seq(Pieces) /\ <<>> \in Seq(Tokens)
  BY DEF GoStates
<1> QED BY <1>1 DEF GoStates, GoTaken, Extends

LEMMA GoTakesStates ==
  ASSUME NEW g \in GoStates, NEW p \in Pieces \cup {EOF}
  PROVE  GoTakes(g, p) \in GoTaken
<1>1. g.mode \in Modes /\ g.literal \in Seq(Pieces)
  BY DEF GoStates
<1>2. /\ Illegal(g) \in GoTaken /\ Nothing(g) \in GoTaken /\ LineEnds(g) \in GoTaken
      /\ \A m \in Modes : Enters(g, m) \in GoTaken
      /\ \A t \in Tokens, e \in {"no", "yes", "rune"} : Returns(g, t, e) \in GoTaken
      /\ \A q \in Pieces : Extends(g, q) \in GoTaken
  BY GoBuilds, GoEnters, GoReturns, GoExtends
<1>5. CASE g.mode = "code"
  <2>1. GoTakes(g, p) = InCode(g, p)
    BY <1>5 DEF GoTakes
  <2>2. p # EOF => Token(p, <<>>) \in Tokens
    BY SpecialTokens
  <2>3. [g EXCEPT !.ends = "no", !.tokens = <<Token("*", <<>>), Token("/", <<>>)>>] \in GoTaken
    <3>1. Token("*", <<>>) \in Tokens /\ Token("/", <<>>) \in Tokens
      BY SpecialTokens
    <3>2. <<Token("*", <<>>), Token("/", <<>>)>> \in Seq(Tokens)
      BY <3>1
    <3> QED BY <3>2 DEF GoStates, GoTaken
  <2>4. {"line comment", "comment", "string", "rune"} \subseteq Modes
    BY DEF Modes
  <2> QED BY <1>2, <2>1, <2>2, <2>3, <2>4 DEF InCode
<1>6. CASE g.mode = "string"
  <2>1. GoTakes(g, p) = InString(g, p)
    BY <1>6 DEF GoTakes
  <2>2. Token("string", g.literal) \in Tokens
    BY <1>1, SpecialTokens
  <2> QED BY <1>2, <2>1, <2>2 DEF InString
<1>7. CASE g.mode = "rune"
  <2>1. GoTakes(g, p) = InRune(g, p)
    BY <1>7 DEF GoTakes
  <2>2. Token("rune", g.literal) \in Tokens
    BY <1>1, SpecialTokens
  <2>3. SingleCharacters \cup {"esc", "hexesc"} \subseteq Pieces
    BY DEF SingleCharacters, Pieces, Words
  <2> QED BY <1>2, <2>1, <2>2, <2>3 DEF InRune
<1>8. CASE g.mode = "line comment"
  <2>1. GoTakes(g, p) = InLineComment(g, p)
    BY <1>8 DEF GoTakes
  <2>2. [LineEnds(g) EXCEPT !.mode = "code"] \in GoTaken
    BY <1>2 DEF GoTaken, Modes
  <2> QED BY <1>2, <2>1, <2>2 DEF InLineComment
<1>9. CASE g.mode = "comment"
  <2>1. GoTakes(g, p) = InComment(g, p)
    BY <1>9 DEF GoTakes
  <2>2. [Nothing(g) EXCEPT !.mode = "code"] \in GoTaken
    BY <1>2 DEF GoTaken, Modes
  <2> QED BY <1>2, <2>1, <2>2 DEF InComment
<1>10. CASE g.mode = "illegal"
  BY <1>2, <1>10 DEF GoTakes
<1> QED BY <1>1, <1>5, <1>6, <1>7, <1>8, <1>9, <1>10 DEF Modes

(* The scanner of Go takes a piece, and lexer.l has it before it. *)
LEMMA ReadKeepsAgreement ==
  ASSUME Agreed, Conditional, ReadPiece
  PROVE  Typed' /\ (Clean => same)' /\ Agreement'
<1>1. PICK p \in Pieces \cup {EOF} :
        /\ next' = p
        /\ go' = Nothing(GoTakes(go, p))
        /\ ahead' = IF same THEN ahead \o GoTakes(go, p).tokens ELSE <<>>
        /\ met' = met \cup Constructs(go, p)
  BY DEF ReadPiece
<1>2. /\ stage = "parsing" /\ next = None /\ token = None
      /\ UNCHANGED <<condition, stack, inLine, stringLiteral, runeValue, token, same>>
  BY DEF ReadPiece
<1>3. go \in GoStates
  BY DEF Agreed, Typed
<1>4. go' \in GoStates
  <2> DEFINE h == GoTakes(go, p)
  <2>1. h \in GoTaken /\ go' = Nothing(h)
    BY <1>1, <1>3, GoTakesStates
  <2> HIDE DEF h
  <2> QED BY <2>1 DEF Nothing, GoTaken, GoStates
<1>5. Typed'
  BY <1>1, <1>2, <1>4 DEF Agreed, Typed
<1>6. (Clean => same)'
  BY <1>1, <1>2 DEF Agreed, Clean
<1>7. ASSUME "quoteAfterToken" \notin met' PROVE \E g \in GoStates : Stands(g)'
  <2>1. token # Failure
    BY <1>2, NoneIsNothingElse, SpecialTokens
  <2>2. PICK g \in GoStates : g = go
    BY <1>3
  <2>3. Settled(g) /\ (Clean => Ahead(<<>>))
    BY <1>1, <1>2, <1>7, <2>1, <2>2 DEF Agreed, Agreement
  <2>4. Clean' => Clean
    BY <1>1 DEF Clean
  <2>5. Settled(g)'
    BY <1>2, <2>3, <2>4
       DEF Settled, SettledInCode, SettledInLine, SettledInComment, SettledInString, SettledInRune, Between
  <2>6. Alike(go', GoTakes(g, p))
    <3> DEFINE h == GoTakes(g, p)
    <3>1. h \in GoTaken /\ go' = Nothing(h)
      BY <1>1, <2>2, GoTakesStates
    <3> HIDE DEF h
    <3>2. Alike(go', h)
      BY <3>1 DEF Alike, Nothing, GoTaken
    <3> QED BY <3>2 DEF h
  <2>7. Constructs(g, p)' \subseteq met'
    BY <1>1, <1>2, <2>2 DEF Constructs, Differs
  <2>8. Clean' => Ahead(GoTakes(g, p).tokens)'
    <3> HAVE Clean'
    <3>1. same /\ ahead = <<>>
      BY <1>2, <2>3, <2>4 DEF Agreed, Ahead
    <3>2. ahead' = GoTakes(g, p).tokens
      <4> DEFINE s == GoTakes(g, p).tokens
      <4>1. s \in Seq(Tokens) /\ ahead' = <<>> \o s
        BY <1>1, <2>2, <3>1, GoTakesStates DEF GoTaken
      <4> HIDE DEF s
      <4>2. <<>> \o s = s
        BY <4>1
      <4> QED BY <4>1, <4>2 DEF s
    <3> QED BY <1>2, <3>2 DEF Ahead
  <2> QED BY <1>1, <2>5, <2>6, <2>7, <2>8 DEF Stands
<1>8. next' # None
  BY <1>1, NoneIsNothingElse
<1> QED BY <1>5, <1>6, <1>7, <1>8 DEF Agreement

-----------------------------------------------------------------------------
(* The rules of lexer.l.                                                   *)

(* A rule is applied to the piece next, and g is settled with it. *)
Applied(g) ==
  /\ stage = "parsing" /\ "quoteAfterToken" \notin met
  /\ next \in Pieces \cup {EOF, "/"} /\ token = None
  /\ stringLiteral \in Seq(Pieces) /\ runeValue \in Pieces \cup {None}
  /\ stack \in Seq(Conditions)
  /\ g \in GoStates /\ go \in GoStates
  /\ Stands(g)
  /\ UNCHANGED <<stage, textVars>>

(* The piece was taken: both scanners are settled, after the tokens. *)
LEMMA Taken ==
  ASSUME NEW g, Applied(g), next' = None, Settled(go)',
         \/ token' = None /\ (Clean => ahead = <<>>)
         \/ \E t \in Tokens \ {END, Failure} : token' = t /\ (Clean => ahead = <<t>>)
  PROVE  Agreement' /\ RejectsOnlyIllegal'
<1>1. Clean' = Clean /\ ahead' = ahead
  BY DEF Applied, textVars, Clean
<1>2. (Clean => Ahead(<<>>))'
  <2>1. CASE token' = None /\ (Clean => ahead = <<>>)
    BY <1>1, <2>1 DEF Ahead
  <2>2. ASSUME NEW t \in Tokens \ {END, Failure}, token' = t, Clean => ahead = <<t>>
        PROVE  (Clean => Ahead(<<>>))'
    <3>1. token' # None /\ token' # END
      BY <2>2, NoneIsNothingElse
    <3>2. <<t>> # <<>> /\ Head(<<t>>) = t /\ Tail(<<t>>) = <<>>
      OBVIOUS
    <3> QED BY <1>1, <2>2, <3>1, <3>2 DEF Ahead
  <2> QED BY <2>1, <2>2
<1>3. token' # Failure
  BY SpecialTokens, NoneIsNothingElse
<1> QED BY <1>2, <1>3 DEF Agreement, RejectsOnlyIllegal

(* No token, since Go has none either or cannot go on. *)
LEMMA Failed ==
  ASSUME NEW g, Applied(g), token' = Failure,
         GoTakes(g, next).mode = "illegal" \/ Constructs(g, next) \cap {"escapeInRune", "number"} # {}
  PROVE  Agreement' /\ RejectsOnlyIllegal'
<1>1. go' = go /\ met' = met
  BY DEF Applied, textVars
<1>2. go.mode = GoTakes(g, next).mode /\ Constructs(g, next) \subseteq met
  BY DEF Applied, Stands, Alike
<1> QED BY <1>1, <1>2 DEF Agreement, RejectsOnlyIllegal

LEMMA SettledInCondition ==
  ASSUME NEW g, Settled(g), ~inLine
  PROVE  /\ condition \in {"INITIAL", "ENABLE_SEMICOLON"} => SettledInCode(g)
         /\ condition = "MULTILINE_COMMENT" => SettledInComment(g)
         /\ condition = "STRING_LITERAL" => SettledInString(g)
         /\ condition = "RUNE_LITERAL" => SettledInRune(g)
<1>1. CASE SettledInCode(g)
  BY <1>1 DEF SettledInCode, Between
<1>2. CASE SettledInComment(g)
  BY <1>2 DEF SettledInComment
<1>3. CASE SettledInString(g)
  BY <1>3 DEF SettledInString
<1>4. CASE SettledInRune(g)
  BY <1>4 DEF SettledInRune
<1> QED BY <1>1, <1>2, <1>3, <1>4 DEF Settled, SettledInLine

(* The states of lexer.l that correspond to code. *)
LEMMA SettlesInCode ==
  ASSUME NEW g, Applied(g), go.mode = "code", ~inLine', Between(condition, go)'
  PROVE  Settled(go)'
BY DEF Applied, textVars, Settled, SettledInCode

LEMMA TokenKeepsAgreement ==
  ASSUME NEW g, Applied(g), MatchToken
  PROVE  Agreement' /\ RejectsOnlyIllegal'
<1>1. /\ condition = "INITIAL" /\ ~inLine /\ next \in {"name", "if", ")", "+", "{"} /\ next' = None
      /\ token' = Token(next, <<>>) /\ inLine' = inLine
      /\ condition' = IF next \in PushesSemicolon THEN "ENABLE_SEMICOLON" ELSE "INITIAL"
  BY DEF MatchToken, InCondition, Consumed, Return, yy_push_state
<1>2. SettledInCode(g)
  BY <1>1, SettledInCondition DEF Applied, Stands
<1> DEFINE ends == IF next \in EndsStatement THEN "yes" ELSE "no"
<1>3. GoTakes(g, next) = Returns(g, Token(next, <<>>), ends)
  <2>1. GoTakes(g, next) = InCode(g, next)
    BY <1>2 DEF GoTakes, SettledInCode
  <2> QED BY <1>1, <2>1 DEF InCode, EOF
<1>4. Token(next, <<>>) \in Tokens \ {END, Failure}
  <2>1. next \in Pieces
    BY <1>1 DEF Pieces, Words
  <2>2. Token(next, <<>>).kind = next /\ END.kind = "END" /\ Failure.kind = "failure"
    BY DEF Token, END, Failure
  <2> QED BY <1>1, <2>1, <2>2, SpecialTokens
<1>5. /\ GoTakes(g, next).mode = "code" /\ GoTakes(g, next).ends = ends
      /\ GoTakes(g, next).tokens = <<Token(next, <<>>)>>
  BY <1>3, <1>4, GoReturns DEF Applied
<1>6. go.mode = "code" /\ go.ends = ends
  BY <1>5 DEF Applied, Stands, Alike
<1>7. Between(condition, go)'
  BY <1>1, <1>6 DEF Between, PushesSemicolon, EndsStatement, Applied, textVars
<1>8. Clean => ahead = <<Token(next, <<>>)>>
  BY <1>5 DEF Applied, Stands, Ahead
<1> QED BY <1>1, <1>4, <1>6, <1>7, <1>8, SettlesInCode, Taken

LEMMA AsteriskKeepsAgreement ==
  ASSUME NEW g, Applied(g), MatchAsterisk
  PROVE  Agreement' /\ RejectsOnlyIllegal'
<1>1. /\ condition = "INITIAL" /\ ~inLine /\ next \in {"*/", "/"}
      /\ token' = Token(IF next = "/" THEN "/" ELSE "*", <<>>)
      /\ next' = IF next = "/" THEN None ELSE "/"
      /\ UNCHANGED <<condition, stack, inLine, stringLiteral, runeValue>>
  BY DEF MatchAsterisk, InCondition, Return
<1>2. SettledInCode(g)
  BY <1>1, SettledInCondition DEF Applied, Stands
<1>3. GoTakes(g, next) = InCode(g, next) /\ GoTakes(g, "/") = InCode(g, "/")
  BY <1>2 DEF GoTakes, SettledInCode
<1>4. /\ Token("*", <<>>) \in Tokens \ {END, Failure} /\ Token("/", <<>>) \in Tokens \ {END, Failure}
      /\ Token("*", <<>>) # None
  <2>1. /\ Token("*", <<>>).kind = "*" /\ Token("/", <<>>).kind = "/"
        /\ END.kind = "END" /\ Failure.kind = "failure"
    BY DEF Token, END, Failure
  <2> QED BY <2>1, SpecialTokens, NoneIsNothingElse
<1>5. InCode(g, "/") = Returns(g, Token("/", <<>>), "no")
  BY DEF InCode, EOF, EndsStatement
<1>6. /\ InCode(g, "/").mode = "code" /\ InCode(g, "/").ends = "no"
      /\ InCode(g, "/").tokens = <<Token("/", <<>>)>>
  BY <1>4, <1>5, GoReturns DEF Applied
<1>7. CASE next = "/"
  <2>1. go.mode = "code" /\ go.ends = "no"
    BY <1>3, <1>6, <1>7 DEF Applied, Stands, Alike
  <2>2. Clean => ahead = <<Token("/", <<>>)>>
    BY <1>3, <1>6, <1>7 DEF Applied, Stands, Ahead
  <2>3. Between(condition, go)'
    BY <1>1, <2>1 DEF Between, Applied, textVars
  <2>4. Settled(go)'
    BY <1>1, <2>1, <2>3, SettlesInCode
  <2>5. token' = Token("/", <<>>) /\ next' = None
    BY <1>1, <1>7
  <2> QED BY <1>4, <2>2, <2>4, <2>5, Taken
<1>8. CASE next = "*/"
  <2>1. InCode(g, "*/") = [g EXCEPT !.ends = "no", !.tokens = <<Token("*", <<>>), Token("/", <<>>)>>]
    BY DEF InCode, EOF
  <2>2. /\ InCode(g, "*/").mode = "code" /\ InCode(g, "*/").ends = "no"
        /\ InCode(g, "*/").tokens = <<Token("*", <<>>), Token("/", <<>>)>>
    BY <1>2, <2>1 DEF Applied, GoStates, SettledInCode
  <2>3. go.mode = "code" /\ go.ends = "no"
    BY <1>3, <1>8, <2>2 DEF Applied, Stands, Alike
  <2>4. Clean => ahead = <<Token("*", <<>>), Token("/", <<>>)>>
    BY <1>3, <1>8, <2>2 DEF Applied, Stands, Ahead
  <2>5. next' = "/" /\ next' # None /\ token' = Token("*", <<>>)
    BY <1>1, <1>8, NoneIsNothingElse
  <2>6. Settled(g)'
    BY <1>1, <1>2 DEF Settled, SettledInCode, Between, Applied, textVars, Clean
  <2>7. Alike(go, GoTakes(g, next'))
    BY <1>3, <1>6, <2>3, <2>5 DEF Alike
  <2>8. (Clean => Ahead(GoTakes(g, next).tokens))'
    <3> HAVE Clean'
    <3>1. Clean /\ ahead' = ahead
      BY DEF Clean, Applied, textVars
    <3>2. GoTakes(g, next').tokens = <<Token("/", <<>>)>>
      BY <1>3, <1>6, <2>5
    <3>3. /\ <<Token("*", <<>>), Token("/", <<>>)>> # <<>>
          /\ Head(<<Token("*", <<>>), Token("/", <<>>)>>) = Token("*", <<>>)
          /\ Tail(<<Token("*", <<>>), Token("/", <<>>)>>) = <<Token("/", <<>>)>>
      OBVIOUS
    <3> QED BY <1>4, <2>4, <2>5, <3>1, <3>2, <3>3 DEF Ahead
  <2>9. Constructs(g, next)' \subseteq met'
    BY <1>2, <2>5 DEF Constructs, Differs, EOF, PrintedOnly, SettledInCode
  <2>10. Stands(g)' /\ token' # Failure
    BY <1>4, <2>5, <2>6, <2>7, <2>8, <2>9 DEF Stands, Applied, textVars
  <2> QED BY <2>5, <2>10 DEF Agreement, RejectsOnlyIllegal, Applied
<1> QED BY <1>1, <1>7, <1>8

(* Words and operators without a token are dropped, and blanks are nothing *)
(* in either scanner.                                                      *)
LEMMA IgnoredKeepsAgreement ==
  ASSUME NEW g, Applied(g), MatchIgnored
  PROVE  Agreement' /\ RejectsOnlyIllegal'
<1>1. /\ condition = "INITIAL" /\ ~inLine /\ next \in PrintedOnly \cup {"blank", "newline", "cr"}
      /\ next' = None /\ token = None
      /\ UNCHANGED <<condition, stack, inLine, stringLiteral, runeValue, token>>
  BY DEF MatchIgnored, InCondition, Consumed, Silent
<1>2. SettledInCode(g) /\ g.mode = "code" /\ (Clean => g.ends # "yes")
  BY <1>1, SettledInCondition DEF Applied, Stands, SettledInCode, Between
<1>3. GoTakes(g, next) = InCode(g, next)
  BY <1>2 DEF GoTakes
<1>4. next \in PrintedOnly => "dropped" \in Constructs(g, next)
  BY <1>2 DEF Constructs, Differs
<1>5. Clean => next \notin PrintedOnly
  BY <1>4 DEF Clean, Applied, Stands
<1>6. Clean /\ next = "newline" => g.ends = "no"
  <2> SUFFICES ASSUME Clean, next = "newline", g.ends # "no" PROVE FALSE
    OBVIOUS
  <2>1. g.ends = "rune"
    BY <1>2 DEF Applied, GoStates
  <2>2. "runeAtEndOfLine" \in Constructs(g, next)
    BY <1>2, <2>1 DEF Constructs, Differs
  <2> QED BY <2>2 DEF Clean, Applied, Stands
<1>7. GoTakes(g, next).mode = "code"
  <2>1. CASE next \in {"blank", "cr"}
    BY <1>2, <1>3, <2>1, GoBuilds DEF InCode, EOF, Applied
  <2>2. CASE next = "newline"
    BY <1>2, <1>3, <2>2, GoBuilds DEF InCode, EOF, Applied
  <2>3. CASE next \in PrintedOnly
    <3>1. Token(next, <<>>) \in Tokens
      BY <2>3, SpecialTokens DEF Pieces, Words, PrintedOnly
    <3>2. InCode(g, next) = Returns(g, Token(next, <<>>), "no")
      BY <2>3 DEF InCode, EOF, EndsStatement, PrintedOnly
    <3> QED BY <1>3, <3>1, <3>2, GoReturns DEF Applied
  <2> QED BY <1>1, <2>1, <2>2, <2>3
<1>8. Clean => GoTakes(g, next).ends # "yes" /\ GoTakes(g, next).tokens = <<>>
  <2> HAVE Clean
  <2>1. CASE next \in {"blank", "cr"}
    BY <1>2, <1>3, <2>1, GoBuilds DEF InCode, EOF, Applied
  <2>2. CASE next = "newline"
    BY <1>2, <1>3, <1>6, <2>2, GoBuilds DEF InCode, EOF, Applied
  <2> QED BY <1>1, <1>5, <2>1, <2>2
<1>9. go.mode = "code" /\ (Clean => go.ends # "yes" /\ ahead = <<>>)
  BY <1>1, <1>7, <1>8 DEF Applied, Stands, Alike, Ahead
<1>10. Between(condition, go)'
  BY <1>1, <1>9 DEF Between, Applied, textVars, Clean
<1> QED BY <1>1, <1>9, <1>10, SettlesInCode, Taken

LEMMA BadCharacterKeepsAgreement ==
  ASSUME NEW g, Applied(g), MatchBadCharacter
  PROVE  Agreement' /\ RejectsOnlyIllegal'
<1>1. /\ condition = "INITIAL" /\ ~inLine /\ next \in {"huge", "esc", "hexesc", "badesc"}
      /\ token' = Failure
  BY DEF MatchBadCharacter, InCondition, Fails
<1>2. g.mode = "code"
  BY <1>1, SettledInCondition DEF Applied, Stands, SettledInCode
<1>3. CASE next = "huge"
  <2>1. "number" \in Constructs(g, next)
    BY <1>2, <1>3 DEF Constructs, Differs
  <2> QED BY <1>1, <2>1, Failed
<1>4. CASE next # "huge"
  <2>1. GoTakes(g, next) = InCode(g, next)
    BY <1>2 DEF GoTakes
  <2>2. InCode(g, next) = Illegal(g)
    BY <1>1, <1>4 DEF InCode, EOF
  <2>3. GoTakes(g, next).mode = "illegal"
    BY <2>1, <2>2, GoBuilds DEF Applied
  <2> QED BY <1>1, <2>3, Failed
<1> QED BY <1>3, <1>4

LEMMA EndKeepsAgreement ==
  ASSUME NEW g, Applied(g), MatchEnd
  PROVE  Agreement' /\ RejectsOnlyIllegal'
<1>1. /\ next = EOF /\ token' = END /\ UNCHANGED <<next, condition, stack, inLine, stringLiteral, runeValue>>
  BY DEF MatchEnd, Return
<1>2. Settled(g)'
  BY <1>1 DEF Settled, SettledInCode, SettledInLine, SettledInComment, SettledInString, SettledInRune,
              Between, Applied, Stands, textVars, Clean
<1>3. Constructs(g, next)' \subseteq met'
  BY <1>1 DEF Constructs, Differs, Applied, Stands, textVars
<1>4. (Clean => Ahead(GoTakes(g, next).tokens))'
  BY <1>1 DEF Clean, Ahead, Applied, Stands, textVars
<1>5. Alike(go, GoTakes(g, next))'
  BY <1>1 DEF Stands, Applied, textVars
<1>6. Stands(g)'
  BY <1>2, <1>3, <1>4, <1>5 DEF Stands
<1>7. token' # Failure /\ next' # None
  BY <1>1, SpecialTokens, NoneIsNothingElse
<1> QED BY <1>6, <1>7 DEF Agreement, RejectsOnlyIllegal, Applied

(* A literal or a comment begins, in both. *)
LEMMA OpenKeepsAgreement ==
  ASSUME NEW g, Applied(g), OpenString \/ OpenRune \/ OpenComment \/ MatchLineComment
  PROVE  Agreement' /\ RejectsOnlyIllegal'
<1>1. /\ condition \in {"INITIAL", "ENABLE_SEMICOLON"} /\ ~inLine
      /\ next \in {"dquote", "squote", "/*", "//"} /\ next' = None /\ token' = None
  BY DEF OpenString, OpenRune, OpenComment, MatchLineComment, InCondition, Consumed, Silent
<1>2. SettledInCode(g) /\ g.mode = "code" /\ Between(condition, g)
  BY <1>1, SettledInCondition DEF Applied, Stands, SettledInCode
<1> DEFINE mode == CASE next = "dquote" -> "string" [] next = "squote" -> "rune"
                     [] next = "/*" -> "comment" [] next = "//" -> "line comment"
<1>3. GoTakes(g, next) = Enters(g, mode) /\ mode \in Modes
  <2>1. GoTakes(g, next) = InCode(g, next)
    BY <1>2 DEF GoTakes
  <2>2. CASE next = "dquote"
    BY <2>1, <2>2 DEF InCode, EOF, Modes
  <2>3. CASE next = "squote"
    BY <2>1, <2>3 DEF InCode, EOF, Modes
  <2>4. CASE next = "/*"
    BY <2>1, <2>4 DEF InCode, EOF, Modes
  <2>5. CASE next = "//"
    BY <2>1, <2>5 DEF InCode, EOF, Modes
  <2> QED BY <1>1, <2>2, <2>3, <2>4, <2>5
<1>4. /\ GoTakes(g, next).mode = mode /\ GoTakes(g, next).ends = g.ends
      /\ GoTakes(g, next).literal = <<>> /\ GoTakes(g, next).tokens = <<>>
  <2> HIDE DEF mode
  <2> QED BY <1>3, GoEnters DEF Applied
<1>5. /\ go.mode = mode
      /\ mode \in {"string", "rune"} => go.literal = <<>>
      /\ mode \in {"comment", "line comment"} => go.ends = g.ends
      /\ Clean => ahead = <<>>
  <2> HIDE DEF mode
  <2> QED BY <1>4 DEF Applied, Stands, Alike, Ahead
<1>6. UNCHANGED <<go, met, Clean>>
  BY DEF Applied, textVars, Clean
<1>7. CASE OpenString
  <2>1. mode = "string" /\ condition' = "STRING_LITERAL" /\ inLine' = inLine /\ stringLiteral' = <<>>
    BY <1>7 DEF OpenString, yy_push_state
  <2>2. SettledInString(go)'
    BY <1>1, <1>5, <1>6, <2>1 DEF SettledInString
  <2> QED BY <1>1, <1>5, <2>2, Taken DEF Settled
<1>8. CASE OpenRune
  <2>1. /\ mode = "rune" /\ condition' = "RUNE_LITERAL" /\ inLine' = inLine /\ runeValue' = None
        /\ stack' = <<"INITIAL">> \o stack
    BY <1>8 DEF OpenRune, yy_push_state, InCondition
  <2>2. stack' # <<>> /\ Head(stack') = "INITIAL"
    BY <2>1 DEF Applied, Conditions
  <2>3. SettledInRune(go)'
    BY <1>1, <1>5, <1>6, <2>1, <2>2 DEF SettledInRune
  <2> QED BY <1>1, <1>5, <2>3, Taken DEF Settled
<1>9. CASE OpenComment
  <2>1. /\ mode = "comment" /\ condition' = "MULTILINE_COMMENT" /\ inLine' = inLine
        /\ stack' = <<condition>> \o stack
    BY <1>9 DEF OpenComment, yy_push_state
  <2>2. stack' # <<>> /\ Head(stack') = condition
    BY <1>1, <2>1 DEF Applied, Conditions
  <2>3. Between(Head(stack), go)'
    BY <1>2, <1>5, <1>6, <2>1, <2>2 DEF Between
  <2>4. SettledInComment(go)'
    BY <1>1, <1>5, <1>6, <2>1, <2>2, <2>3 DEF SettledInComment
  <2> QED BY <1>1, <1>5, <2>4, Taken DEF Settled
<1>10. CASE MatchLineComment
  <2>1. mode = "line comment" /\ inLine' = TRUE /\ condition' = condition
    BY <1>10 DEF MatchLineComment
  <2>2. Between(condition, go)'
    BY <1>2, <1>5, <1>6, <2>1 DEF Between
  <2>3. SettledInLine(go)'
    BY <1>5, <1>6, <2>1, <2>2 DEF SettledInLine
  <2> QED BY <1>1, <1>5, <2>3, Taken DEF Settled
<1> QED BY <1>7, <1>8, <1>9, <1>10

LEMMA InCommentKeepsAgreement ==
  ASSUME NEW g, Applied(g), MatchInComment
  PROVE  Agreement' /\ RejectsOnlyIllegal'
<1>1. condition = "MULTILINE_COMMENT" /\ ~inLine /\ next # None /\ next' = None
  BY DEF MatchInComment, InCondition, Consumed
<1>2. SettledInComment(g) /\ g.mode = "comment"
  BY <1>1, SettledInCondition DEF Applied, Stands, SettledInComment
<1>3. GoTakes(g, next) = InComment(g, next)
  BY <1>2 DEF GoTakes
<1>4. UNCHANGED <<go, met, Clean>>
  BY DEF Applied, textVars, Clean
<1>5. CASE next = EOF
  <2>1. GoTakes(g, next) = Illegal(g)
    BY <1>3, <1>5 DEF InComment, EOF
  <2>2. GoTakes(g, next).mode = "illegal"
    BY <2>1, GoBuilds DEF Applied
  <2> QED BY <1>5, <2>2, Failed DEF MatchInComment, Fails
<1>6. CASE next = "*/"
  <2>1. /\ condition' = Head(stack) /\ inLine' = inLine /\ token' = token
    BY <1>6 DEF MatchInComment, yy_pop_state, Silent, EOF
  <2>2. GoTakes(g, next) = [Nothing(g) EXCEPT !.mode = "code"]
    BY <1>3, <1>6 DEF InComment, EOF
  <2>3. GoTakes(g, next).mode = "code" /\ GoTakes(g, next).ends = g.ends /\ GoTakes(g, next).tokens = <<>>
    BY <2>2, GoBuilds DEF Applied, GoTaken
  <2>4. go.mode = "code" /\ go.ends = g.ends /\ (Clean => ahead = <<>>)
    BY <2>3 DEF Applied, Stands, Alike, Ahead
  <2>5. Between(condition, go)'
    BY <1>2, <1>4, <2>1, <2>4 DEF Between, SettledInComment
  <2>6. Settled(go)'
    BY <1>1, <2>1, <2>4, <2>5, SettlesInCode
  <2> QED BY <1>1, <2>1, <2>4, <2>6, Taken DEF Applied
<1>7. CASE next \notin {EOF, "*/"}
  <2>1. UNCHANGED <<condition, stack, inLine, token>>
    BY <1>7 DEF MatchInComment, Silent
  <2>2. /\ GoTakes(g, next).mode = "comment" /\ (Clean => GoTakes(g, next).ends = g.ends)
        /\ Clean => GoTakes(g, next).tokens = <<>>
    <3>1. CASE next = "newline"
      <4>1. Clean => g.ends = "no"
        <5>1. g.ends # "no" => "newlineInComment" \in Constructs(g, next)
          BY <1>2, <3>1 DEF Constructs, Differs
        <5> QED BY <5>1 DEF Clean, Applied, Stands
      <4>2. GoTakes(g, next) = LineEnds(g)
        BY <1>3, <3>1 DEF InComment, EOF
      <4> QED BY <1>2, <4>1, <4>2, GoBuilds DEF Applied
    <3>2. CASE next # "newline"
      <4>1. GoTakes(g, next) = Nothing(g)
        BY <1>3, <1>7, <3>2 DEF InComment
      <4> QED BY <1>2, <4>1, GoBuilds DEF Applied
    <3> QED BY <3>1, <3>2
  <2>3. go.mode = "comment" /\ (Clean => go.ends = g.ends /\ ahead = <<>>)
    BY <2>2 DEF Applied, Stands, Alike, Ahead
  <2>4. Between(Head(stack), go)'
    BY <1>2, <1>4, <2>1, <2>3 DEF Between, SettledInComment
  <2>5. SettledInComment(go)'
    BY <1>2, <1>4, <2>1, <2>3, <2>4 DEF SettledInComment
  <2> QED BY <1>1, <2>1, <2>3, <2>5, Taken DEF Applied, Settled
<1> QED BY <1>5, <1>6, <1>7

LEMMA InLineKeepsAgreement ==
  ASSUME NEW g, Applied(g), MatchInLineComment
  PROVE  Agreement' /\ RejectsOnlyIllegal'
<1>1. inLine /\ next # None /\ UNCHANGED <<condition, stack, stringLiteral, runeValue, token>>
  BY DEF MatchInLineComment, Silent
<1>2. SettledInLine(g) /\ g.mode = "line comment"
  BY <1>1 DEF Applied, Stands, Settled, SettledInCode, SettledInLine, SettledInComment, SettledInString, SettledInRune
<1>3. GoTakes(g, next) = InLineComment(g, next)
  BY <1>2 DEF GoTakes
<1>4. UNCHANGED <<go, met, Clean, ahead, stage>>
  BY DEF Applied, textVars, Clean
<1>5. CASE next \in {"newline", EOF}
  <2> DEFINE h == [g EXCEPT !.mode = "code"]
  <2>1. /\ h \in GoStates /\ h.mode = "code" /\ h.ends = g.ends
    BY DEF Applied, GoStates, Modes
  <2>2. inLine' = FALSE /\ next' = next
    BY <1>5 DEF MatchInLineComment
  <2>3. GoTakes(g, next) = [LineEnds(g) EXCEPT !.mode = "code"]
    BY <1>3, <1>5 DEF InLineComment
  <2>4. /\ GoTakes(g, next).mode = "code" /\ GoTakes(g, next).ends = "no"
        /\ GoTakes(g, next).tokens = IF g.ends = "no" THEN <<>> ELSE <<Semicolon>>
    BY <2>3, GoBuilds DEF Applied, GoTaken
  <2> HIDE DEF h
  <2>5. GoTakes(h, next) = LineEnds(h)
    <3>1. GoTakes(h, next) = InCode(h, next)
      BY <2>1 DEF GoTakes
    <3> QED BY <1>5, <3>1 DEF InCode, EOF
  <2>6. /\ GoTakes(h, next).mode = "code" /\ GoTakes(h, next).ends = "no"
        /\ GoTakes(h, next).tokens = GoTakes(g, next).tokens
    BY <2>1, <2>4, <2>5, GoBuilds
  <2>7. Settled(h)'
    BY <1>1, <1>2, <1>4, <2>1, <2>2 DEF Settled, SettledInCode, SettledInLine, Between
  <2>8. Alike(go, GoTakes(h, next))'
    <3>1. Alike(go, GoTakes(g, next))
      BY DEF Applied, Stands
    <3> QED BY <1>4, <2>2, <2>4, <2>6, <3>1 DEF Alike
  <2>9. Constructs(h, next)' \subseteq met'
    <3>1. Constructs(g, next) \subseteq met
      BY DEF Applied, Stands
    <3> QED BY <1>2, <1>4, <1>5, <2>1, <2>2, <3>1 DEF Constructs, Differs, EOF, PrintedOnly
  <2>10. (Clean => Ahead(GoTakes(h, next).tokens))'
    <3>1. Clean => Ahead(GoTakes(g, next).tokens)
      BY DEF Applied, Stands
    <3> QED BY <1>1, <1>4, <2>2, <2>6, <3>1 DEF Ahead
  <2>11. Stands(h)'
    BY <2>7, <2>8, <2>9, <2>10 DEF Stands
  <2>12. token' # Failure /\ next' # None
    BY <1>1, <2>2, SpecialTokens, NoneIsNothingElse DEF Applied
  <2> QED BY <2>1, <2>11, <2>12 DEF Agreement, RejectsOnlyIllegal
<1>6. CASE next \notin {"newline", EOF}
  <2>1. UNCHANGED inLine /\ next' = None
    BY <1>6 DEF MatchInLineComment, Consumed
  <2>2. GoTakes(g, next) = Nothing(g)
    BY <1>3, <1>6 DEF InLineComment
  <2>3. go.mode = "line comment" /\ go.ends = g.ends /\ (Clean => ahead = <<>>)
    BY <1>2, <2>2, GoBuilds DEF Applied, Stands, Alike, Ahead
  <2>4. SettledInLine(go)'
    BY <1>1, <1>2, <1>4, <2>1, <2>3 DEF SettledInLine, Between
  <2> QED BY <1>1, <2>1, <2>3, <2>4, Taken DEF Applied, Settled
<1> QED BY <1>5, <1>6

(* After a token that may end a statement. *)
LEMMA BlankKeepsAgreement ==
  ASSUME NEW g, Applied(g), SkipBlank
  PROVE  Agreement' /\ RejectsOnlyIllegal'
<1>1. /\ condition = "ENABLE_SEMICOLON" /\ ~inLine /\ next \in {"blank", "dquote"} /\ next' = None
      /\ UNCHANGED <<condition, stack, inLine, token>>
  BY DEF SkipBlank, InCondition, Consumed, Silent
<1>2. SettledInCode(g) /\ g.mode = "code"
  BY <1>1, SettledInCondition DEF Applied, Stands, SettledInCode
<1>3. next = "blank"
  <2>1. next = "dquote" => "quoteAfterToken" \in Constructs(g, next)
    BY <1>1, <1>2 DEF Constructs, Differs
  <2> QED BY <1>1, <2>1 DEF Applied, Stands
<1>4. GoTakes(g, next) = Nothing(g)
  <2>1. GoTakes(g, next) = InCode(g, next)
    BY <1>2 DEF GoTakes
  <2> QED BY <1>3, <2>1 DEF InCode, EOF
<1>5. go.mode = "code" /\ go.ends = g.ends /\ (Clean => ahead = <<>>)
  BY <1>2, <1>4, GoBuilds DEF Applied, Stands, Alike, Ahead
<1>6. Between(condition, go)'
  BY <1>1, <1>2, <1>5 DEF Between, SettledInCode, Applied, textVars, Clean
<1> QED BY <1>1, <1>5, <1>6, SettlesInCode, Taken DEF Applied

LEMMA SemicolonKeepsAgreement ==
  ASSUME NEW g, Applied(g), InsertSemicolon
  PROVE  Agreement' /\ RejectsOnlyIllegal'
<1>1. /\ condition = "ENABLE_SEMICOLON" /\ ~inLine /\ next \in {"newline", EOF}
      /\ condition' = "INITIAL" /\ token' = Semicolon /\ inLine' = inLine
      /\ next' = IF next = EOF THEN EOF ELSE None
  BY DEF InsertSemicolon, InCondition, BEGIN, Return
<1>2. SettledInCode(g) /\ g.mode = "code" /\ (Clean => g.ends = "yes")
  BY <1>1, SettledInCondition DEF Applied, Stands, SettledInCode, Between
<1>3. GoTakes(g, next) = LineEnds(g)
  <2>1. GoTakes(g, next) = InCode(g, next)
    BY <1>2 DEF GoTakes
  <2> QED BY <1>1, <2>1 DEF InCode, EOF
<1>4. go.mode = "code" /\ go.ends = "no" /\ (Clean => ahead = <<Semicolon>>)
  <2>1. /\ GoTakes(g, next).mode = "code" /\ GoTakes(g, next).ends = "no"
        /\ Clean => GoTakes(g, next).tokens = <<Semicolon>>
    BY <1>2, <1>3, GoBuilds DEF Applied
  <2> QED BY <2>1 DEF Applied, Stands, Alike, Ahead
<1>5. Semicolon \in Tokens \ {END, Failure} /\ Semicolon # None
  BY SpecialTokens, NoneIsNothingElse
<1>6. UNCHANGED <<go, met, Clean, ahead, stage>>
  BY DEF Applied, textVars, Clean
<1>7. CASE next = "newline"
  <2>1. next' = None
    BY <1>1, <1>7 DEF EOF
  <2>2. Between(condition, go)'
    BY <1>1, <1>4, <1>6 DEF Between
  <2>3. Settled(go)'
    BY <1>1, <1>4, <2>2, SettlesInCode
  <2> QED BY <1>1, <1>4, <1>5, <2>1, <2>3, Taken
<1>8. CASE next = EOF
  <2> DEFINE h == [g EXCEPT !.ends = "no"]
  <2>1. h \in GoStates /\ h.mode = "code" /\ h.ends = "no"
    BY <1>2 DEF Applied, GoStates
  <2> HIDE DEF h
  <2>2. next' = EOF /\ next' # None
    BY <1>1, <1>8, NoneIsNothingElse
  <2>3. GoTakes(h, EOF) = LineEnds(h)
    <3>1. GoTakes(h, EOF) = InCode(h, EOF)
      BY <2>1 DEF GoTakes
    <3> QED BY <3>1 DEF InCode, EOF
  <2>4. GoTakes(h, EOF).mode = "code" /\ GoTakes(h, EOF).ends = "no" /\ GoTakes(h, EOF).tokens = <<>>
    BY <2>1, <2>3, GoBuilds
  <2>5. Settled(h)'
    BY <1>1, <2>1 DEF Settled, SettledInCode, Between
  <2>6. Alike(go, GoTakes(h, next))'
    BY <1>4, <1>6, <2>2, <2>4 DEF Alike
  <2>7. Constructs(h, next)' \subseteq met'
    BY <2>1, <2>2 DEF Constructs, Differs, EOF, PrintedOnly
  <2>8. (Clean => Ahead(GoTakes(h, next).tokens))'
    <3>1. <<Semicolon>> # <<>> /\ Head(<<Semicolon>>) = Semicolon /\ Tail(<<Semicolon>>) = <<>>
      OBVIOUS
    <3> QED BY <1>1, <1>4, <1>5, <1>6, <2>2, <2>4, <3>1 DEF Ahead
  <2>9. Stands(h)'
    BY <2>5, <2>6, <2>7, <2>8 DEF Stands
  <2>10. token' # Failure
    BY <1>1, <1>5
  <2> QED BY <2>1, <2>2, <2>9, <2>10 DEF Agreement, RejectsOnlyIllegal
<1> QED BY <1>1, <1>7, <1>8

(* The line goes on: a piece that Go takes in code whether or not a        *)
(* semicolon could come before it.                                         *)
LEMMA SameInCode ==
  ASSUME NEW g \in GoStates, NEW h \in GoStates, g.mode = "code", h.mode = "code",
         NEW p, p \notin {"blank", "dquote", "//", "/*", "newline", "cr", EOF},
         p \in Pieces \cup {"/"}
  PROVE  /\ Alike(GoTakes(g, p), GoTakes(h, p))
         /\ GoTakes(g, p).tokens = GoTakes(h, p).tokens
<1>1. GoTakes(g, p) = InCode(g, p) /\ GoTakes(h, p) = InCode(h, p)
  BY DEF GoTakes
<1>2. CASE p = "squote"
  <2>1. InCode(g, p) = Enters(g, "rune") /\ InCode(h, p) = Enters(h, "rune")
    BY <1>2 DEF InCode, EOF
  <2>2. "rune" \in Modes
    BY DEF Modes
  <2>3. /\ InCode(g, p).mode = "rune" /\ InCode(g, p).literal = <<>> /\ InCode(g, p).tokens = <<>>
        /\ InCode(h, p).mode = "rune" /\ InCode(h, p).literal = <<>> /\ InCode(h, p).tokens = <<>>
    BY <2>1, <2>2, GoEnters
  <2> QED BY <1>1, <2>3 DEF Alike
<1>3. CASE p = "*/"
  <2> DEFINE both == <<Token("*", <<>>), Token("/", <<>>)>>
  <2>1. InCode(g, p) = [g EXCEPT !.ends = "no", !.tokens = both] /\ InCode(h, p) = [h EXCEPT !.ends = "no", !.tokens = both]
    BY <1>3 DEF InCode, EOF
  <2> HIDE DEF both
  <2> QED BY <1>1, <2>1 DEF Alike, GoStates
<1>4. CASE p \in {"esc", "hexesc", "badesc"}
  <2>1. InCode(g, p) = Illegal(g) /\ InCode(h, p) = Illegal(h)
    BY <1>4 DEF InCode, EOF
  <2>2. Illegal(g).tokens = <<>> /\ Illegal(h).tokens = <<>>
    BY DEF Illegal, GoStates
  <2>3. /\ InCode(g, p).mode = "illegal" /\ InCode(g, p).tokens = <<>>
        /\ InCode(h, p).mode = "illegal" /\ InCode(h, p).tokens = <<>>
    BY <2>1, <2>2, GoBuilds
  <2> QED BY <1>1, <2>3 DEF Alike
<1>5. CASE p \notin {"squote", "*/", "esc", "hexesc", "badesc"}
  <2> DEFINE t == Token(p, <<>>)
             e == IF p \in EndsStatement THEN "yes" ELSE "no"
  <2>1. InCode(g, p) = Returns(g, t, e) /\ InCode(h, p) = Returns(h, t, e)
    BY <1>5 DEF InCode
  <2>2. t \in Tokens /\ e \in {"no", "yes", "rune"}
    BY SpecialTokens
  <2> HIDE DEF t, e
  <2>3. /\ InCode(g, p).mode = "code" /\ InCode(g, p).ends = e /\ InCode(g, p).tokens = <<t>>
        /\ InCode(h, p).mode = "code" /\ InCode(h, p).ends = e /\ InCode(h, p).tokens = <<t>>
    BY <2>1, <2>2, GoReturns
  <2> QED BY <1>1, <2>3 DEF Alike
<1> QED BY <1>2, <1>3, <1>4, <1>5

LEMMA EmptyKeepsAgreement ==
  ASSUME NEW g, Applied(g), MatchEmpty
  PROVE  Agreement' /\ RejectsOnlyIllegal'
<1>1. /\ condition = "ENABLE_SEMICOLON" /\ ~inLine /\ next # None
      /\ next \notin {"blank", "dquote", "//", "/*", "newline", EOF}
      /\ condition' = "INITIAL" /\ UNCHANGED <<next, inLine, token>>
  BY DEF MatchEmpty, InCondition, BEGIN, Silent
<1>2. SettledInCode(g) /\ g.mode = "code" /\ (Clean => g.ends = "yes")
  BY <1>1, SettledInCondition DEF Applied, Stands, SettledInCode, Between
<1>3. next = "cr" => ~Clean \/ g.ends = "no"
  <2>1. next = "cr" /\ g.ends # "no" => "carriageReturn" \in Constructs(g, next)
    BY <1>2 DEF Constructs, Differs
  <2> QED BY <2>1 DEF Applied, Stands, Clean
<1>4. PICK h \in GoStates : h.mode = "code" /\ (next = "cr" => h = g) /\ (next # "cr" => h.ends = "no")
  <2>1. CASE next = "cr"
    BY <1>2, <2>1 DEF Applied
  <2>2. CASE next # "cr"
    <3>1. [g EXCEPT !.ends = "no"] \in GoStates /\ [g EXCEPT !.ends = "no"].mode = "code"
          /\ [g EXCEPT !.ends = "no"].ends = "no"
      BY <1>2 DEF Applied, GoStates
    <3> QED BY <2>2, <3>1
  <2> QED BY <2>1, <2>2
<1>5. UNCHANGED <<go, met, Clean, ahead, stage, textVars>>
  BY DEF Applied, textVars, Clean
<1>6. Settled(h)'
  BY <1>1, <1>2, <1>3, <1>4, <1>5 DEF Settled, SettledInCode, Between
<1>7. Alike(go, GoTakes(h, next)) /\ GoTakes(g, next).tokens = GoTakes(h, next).tokens
  <2>1. Alike(go, GoTakes(g, next))
    BY DEF Applied, Stands
  <2>2. CASE next = "cr"
    BY <1>4, <2>1, <2>2
  <2>3. CASE next # "cr"
    <3>1. next \in Pieces \cup {"/"} /\ g \in GoStates
      BY <1>1 DEF Applied
    <3>2. /\ Alike(GoTakes(g, next), GoTakes(h, next))
          /\ GoTakes(g, next).tokens = GoTakes(h, next).tokens
      BY <1>1, <1>2, <1>4, <2>3, <3>1, SameInCode
    <3> QED BY <2>1, <3>2 DEF Alike
  <2> QED BY <2>2, <2>3
<1>8. Alike(go, GoTakes(h, next))'
  BY <1>1, <1>5, <1>7
<1>9. Constructs(h, next)' \subseteq met'
  <2>1. Constructs(g, next) \subseteq met
    BY DEF Applied, Stands
  <2> QED BY <1>1, <1>2, <1>4, <1>5, <2>1 DEF Constructs, Differs, EOF, PrintedOnly
<1>10. (Clean => Ahead(GoTakes(h, next).tokens))'
  <2>1. Clean => Ahead(GoTakes(g, next).tokens)
    BY DEF Applied, Stands
  <2> QED BY <1>1, <1>5, <1>7, <2>1 DEF Ahead
<1>11. Stands(h)'
  BY <1>6, <1>8, <1>9, <1>10 DEF Stands
<1>12. token' # Failure /\ next' # None
  BY <1>1, SpecialTokens, NoneIsNothingElse DEF Applied
<1> QED BY <1>4, <1>11, <1>12 DEF Agreement, RejectsOnlyIllegal

LEMMA LiteralTokens ==
  ASSUME NEW kind \in {"string", "rune"}, NEW value \in Seq(Pieces)
  PROVE  Token(kind, value) \in Tokens \ {END, Failure}
<1>1. Token(kind, value).kind = kind /\ END.kind = "END" /\ Failure.kind = "failure"
  BY DEF Token, END, Failure
<1> QED BY <1>1, SpecialTokens

LEMMA CloseStringKeepsAgreement ==
  ASSUME NEW g, Applied(g), CloseString
  PROVE  Agreement' /\ RejectsOnlyIllegal'
<1>1. /\ condition = "STRING_LITERAL" /\ ~inLine /\ next = "dquote" /\ next' = None
      /\ condition' = "ENABLE_SEMICOLON" /\ inLine' = inLine /\ token' = Token("string", stringLiteral)
  BY DEF CloseString, InCondition, Consumed, Return, yy_push_state
<1>2. g.mode = "string" /\ (Clean => g.literal = stringLiteral)
  BY <1>1, SettledInCondition DEF Applied, Stands, SettledInString
<1>3. GoTakes(g, next) = Returns(g, Token("string", g.literal), "yes")
  <2>1. GoTakes(g, next) = InString(g, next)
    BY <1>2 DEF GoTakes
  <2> QED BY <1>1, <2>1 DEF InString, EOF
<1>4. Token("string", g.literal) \in Tokens /\ Token("string", stringLiteral) \in Tokens \ {END, Failure}
  BY LiteralTokens DEF Applied, GoStates
<1>5. /\ GoTakes(g, next).mode = "code" /\ GoTakes(g, next).ends = "yes"
      /\ GoTakes(g, next).tokens = <<Token("string", g.literal)>>
  BY <1>3, <1>4, GoReturns DEF Applied
<1>6. go.mode = "code" /\ go.ends = "yes" /\ (Clean => ahead = <<Token("string", stringLiteral)>>)
  BY <1>2, <1>5 DEF Applied, Stands, Alike, Ahead
<1>7. Between(condition, go)'
  BY <1>1, <1>6 DEF Between, Applied, textVars
<1>8. Settled(go)'
  BY <1>1, <1>6, <1>7, SettlesInCode
<1> QED BY <1>1, <1>4, <1>6, <1>8, Taken

LEMMA InStringKeepsAgreement ==
  ASSUME NEW g, Applied(g), MatchInString
  PROVE  Agreement' /\ RejectsOnlyIllegal'
<1>1. condition = "STRING_LITERAL" /\ ~inLine /\ next # "dquote" /\ next' = None
  BY DEF MatchInString, InCondition, Consumed
<1>2. SettledInString(g) /\ g.mode = "string" /\ (Clean => g.literal = stringLiteral)
  BY <1>1, SettledInCondition DEF Applied, Stands, SettledInString
<1>3. GoTakes(g, next) = InString(g, next)
  BY <1>2 DEF GoTakes
<1>4. CASE next \in EndsStringWrongly
  <2>1. GoTakes(g, next) = Illegal(g)
    BY <1>1, <1>3, <1>4 DEF InString, EndsStringWrongly
  <2>2. GoTakes(g, next).mode = "illegal"
    BY <2>1, GoBuilds DEF Applied
  <2> QED BY <1>4, <2>2, Failed DEF MatchInString, Fails
<1>5. CASE next \notin EndsStringWrongly
  <2>1. /\ stringLiteral' = IF next = "{" THEN stringLiteral ELSE Append(stringLiteral, next)
        /\ UNCHANGED <<condition, inLine, token>>
    BY <1>5 DEF MatchInString
  <2>2. GoTakes(g, next) = Extends(g, next)
    BY <1>1, <1>3, <1>5 DEF InString, EndsStringWrongly
  <2>3. /\ GoTakes(g, next).mode = "string" /\ GoTakes(g, next).literal = Append(g.literal, next)
        /\ GoTakes(g, next).tokens = <<>>
    BY <1>2, <2>2 DEF Extends, Applied, GoStates
  <2>4. go.mode = "string" /\ go.literal = Append(g.literal, next) /\ (Clean => ahead = <<>>)
    BY <2>3 DEF Applied, Stands, Alike, Ahead
  <2>5. Clean => next # "{"
    <3>1. next = "{" => "braceInString" \in Constructs(g, next)
      BY <1>2 DEF Constructs, Differs
    <3> QED BY <3>1 DEF Applied, Stands, Clean
  <2>6. UNCHANGED <<go, Clean>>
    BY DEF Applied, textVars, Clean
  <2>7. SettledInString(go)'
    BY <1>1, <1>2, <2>1, <2>4, <2>5, <2>6 DEF SettledInString
  <2> QED BY <1>1, <2>1, <2>4, <2>7, Taken DEF Settled, Applied
<1> QED BY <1>4, <1>5

LEMMA CloseRuneKeepsAgreement ==
  ASSUME NEW g, Applied(g), CloseRune
  PROVE  Agreement' /\ RejectsOnlyIllegal'
<1>1. condition = "RUNE_LITERAL" /\ ~inLine /\ next = "squote" /\ next' = None
  BY DEF CloseRune, InCondition, Consumed
<1>2. /\ SettledInRune(g) /\ g.mode = "rune" /\ Head(stack) = "INITIAL"
      /\ g.literal = IF runeValue = None THEN <<>> ELSE <<runeValue>>
  BY <1>1, SettledInCondition DEF Applied, Stands, SettledInRune
<1>3. GoTakes(g, next) = IF g.literal = <<>> THEN Illegal(g) ELSE Returns(g, Token("rune", g.literal), "rune")
  <2>1. GoTakes(g, next) = InRune(g, next)
    BY <1>2 DEF GoTakes
  <2> QED BY <1>1, <2>1 DEF InRune, EOF, SingleCharacters
<1>4. CASE runeValue = None
  <2>1. GoTakes(g, next).mode = "illegal"
    BY <1>2, <1>3, <1>4, GoBuilds DEF Applied
  <2> QED BY <1>4, <2>1, Failed DEF CloseRune, Fails
<1>5. CASE runeValue # None
  <2> DEFINE t == Token("rune", <<runeValue>>)
  <2>1. condition' = "INITIAL" /\ token' = t /\ inLine' = inLine
    BY <1>2, <1>5 DEF CloseRune, yy_pop_state, Return
  <2>2. <<runeValue>> \in Seq(Pieces) /\ <<runeValue>> # <<>> /\ g.literal = <<runeValue>>
    BY <1>2, <1>5 DEF Applied
  <2>3. t \in Tokens \ {END, Failure}
    BY <2>2, LiteralTokens
  <2>4. GoTakes(g, next) = Returns(g, t, "rune")
    BY <1>3, <2>2
  <2> HIDE DEF t
  <2>5. GoTakes(g, next).mode = "code" /\ GoTakes(g, next).ends = "rune" /\ GoTakes(g, next).tokens = <<t>>
    BY <2>3, <2>4, GoReturns DEF Applied
  <2>6. go.mode = "code" /\ go.ends = "rune" /\ (Clean => ahead = <<t>>)
    BY <2>5 DEF Applied, Stands, Alike, Ahead
  <2>7. Between(condition, go)'
    BY <2>1, <2>6 DEF Between, Applied, textVars
  <2>8. Settled(go)'
    BY <1>1, <2>1, <2>6, <2>7, SettlesInCode
  <2> QED BY <1>1, <2>1, <2>3, <2>6, <2>8, Taken
<1> QED BY <1>4, <1>5

LEMMA InRuneKeepsAgreement ==
  ASSUME NEW g, Applied(g), MatchInRune
  PROVE  Agreement' /\ RejectsOnlyIllegal'
<1>1. condition = "RUNE_LITERAL" /\ ~inLine /\ next # "squote" /\ next' = None
  BY DEF MatchInRune, InCondition, Consumed
<1>2. /\ SettledInRune(g) /\ g.mode = "rune"
      /\ g.literal = IF runeValue = None THEN <<>> ELSE <<runeValue>>
  BY <1>1, SettledInCondition DEF Applied, Stands, SettledInRune
<1>3. GoTakes(g, next) = InRune(g, next)
  BY <1>2 DEF GoTakes
<1>4. CASE next \in SingleCharacters \cup {"esc"} /\ runeValue = None
  <2>1. runeValue' = next /\ UNCHANGED <<condition, stack, inLine, token>>
    BY <1>4 DEF MatchInRune
  <2>2. GoTakes(g, next) = Extends(g, next)
    BY <1>1, <1>2, <1>3, <1>4 DEF InRune
  <2>3. /\ GoTakes(g, next).mode = "rune" /\ GoTakes(g, next).literal = Append(g.literal, next)
        /\ GoTakes(g, next).tokens = <<>>
    BY <1>2, <2>2 DEF Extends, Applied, GoStates
  <2>4. next # None /\ Append(g.literal, next) = <<next>>
    <3>1. next # None
      BY NoneIsNothingElse DEF Applied
    <3>2. Append(<<>>, next) = <<next>>
      OBVIOUS
    <3> QED BY <1>2, <1>4, <3>1, <3>2
  <2>5. go.mode = "rune" /\ go.literal = <<next>> /\ (Clean => ahead = <<>>)
    BY <2>3, <2>4 DEF Applied, Stands, Alike, Ahead
  <2>6. SettledInRune(go)'
    BY <1>2, <2>1, <2>4, <2>5 DEF SettledInRune, Applied, textVars
  <2> QED BY <1>1, <2>1, <2>5, <2>6, Taken DEF Settled, Applied
<1>5. CASE ~(next \in SingleCharacters \cup {"esc"} /\ runeValue = None)
  <2>1. token' = Failure
    BY <1>5 DEF MatchInRune, Fails
  <2>2. CASE next = "hexesc"
    <3>1. "escapeInRune" \in Constructs(g, next)
      BY <1>2, <2>2 DEF Constructs, Differs
    <3> QED BY <2>1, <3>1, Failed
  <2>3. CASE next # "hexesc"
    <3>1. runeValue # None => g.literal # <<>>
      BY <1>2
    <3>2. GoTakes(g, next) = Illegal(g)
      BY <1>1, <1>3, <1>5, <2>3, <3>1 DEF InRune
    <3>3. GoTakes(g, next).mode = "illegal"
      BY <3>2, GoBuilds DEF Applied
    <3> QED BY <2>1, <3>3, Failed
  <2> QED BY <2>2, <2>3
<1> QED BY <1>4, <1>5

LEMMA MatchKeepsAgreement ==
  ASSUME Agreed, Conditional, Scan
  PROVE  Agreement' /\ RejectsOnlyIllegal'
<1>1. /\ stage = "parsing" /\ Match /\ UNCHANGED <<stage, textVars>>
  BY DEF Scan
<1>2. token = None /\ next # None
  BY <1>1 DEF Match, MatchToken, MatchAsterisk, MatchIgnored, MatchBadCharacter, MatchEnd, OpenString,
              OpenRune, OpenComment, MatchInComment, MatchLineComment, MatchInLineComment, SkipBlank,
              InsertSemicolon, MatchEmpty, CloseString, MatchInString, CloseRune, MatchInRune, InCondition
<1>3. CASE "quoteAfterToken" \in met
  BY <1>1, <1>3 DEF Agreement, RejectsOnlyIllegal, textVars
<1>4. CASE "quoteAfterToken" \notin met
  <2>1. token # Failure
    BY <1>2, SpecialTokens, NoneIsNothingElse
  <2>2. PICK g \in GoStates : Stands(g)
    BY <1>1, <1>2, <1>4, <2>1 DEF Agreed, Agreement
  <2>3. Applied(g)
    BY <1>1, <1>2, <1>4, <2>2 DEF Applied, Agreed, Typed, Conditional
  <2> QED BY <1>1, <2>3, TokenKeepsAgreement, AsteriskKeepsAgreement, IgnoredKeepsAgreement,
             BadCharacterKeepsAgreement, EndKeepsAgreement, OpenKeepsAgreement, InCommentKeepsAgreement,
             InLineKeepsAgreement, BlankKeepsAgreement, SemicolonKeepsAgreement, EmptyKeepsAgreement,
             CloseStringKeepsAgreement, InStringKeepsAgreement, CloseRuneKeepsAgreement,
             InRuneKeepsAgreement DEF Match
<1> QED BY <1>3, <1>4

LEMMA ScanKeepsTypes ==
  ASSUME Agreed, Scan
  PROVE  /\ Typed' /\ (next = EOF => last = EOF)' /\ (token = END => next = EOF)'
         /\ (token = END \/ next = "/" => condition = "INITIAL" /\ ~inLine)'
<1> DEFINE Reads == next' \in {None, next, "/"}
           Keeps == UNCHANGED <<stringLiteral, runeValue>>
           Ends == /\ token' = END => next' = EOF
                   /\ token' = END \/ next' = "/" => condition' = "INITIAL" /\ ~inLine'
<1>1. UNCHANGED <<go, same, last>> /\ Match
  BY DEF Scan, textVars
<1>2. /\ next \in Pieces \cup {EOF, "/", None} /\ inLine \in BOOLEAN
      /\ stringLiteral \in Seq(Pieces) /\ runeValue \in Pieces \cup {None}
      /\ next = "/" => condition = "INITIAL" /\ ~inLine
  BY DEF Agreed, Typed
<1>3. END # None /\ <<>> \in Seq(Pieces) /\ None # "/" /\ EOF # "/"
  <2>1. EOF # "/"
    BY DEF EOF
  <2>2. <<>> \in Seq(Pieces)
    OBVIOUS
  <2> QED BY <2>1, <2>2, SpecialTokens, NoneIsNothingElse
<1>4. /\ Reads /\ inLine' \in BOOLEAN
      /\ stringLiteral' \in Seq(Pieces) /\ runeValue' \in Pieces \cup {None}
      /\ token' \in Tokens \cup {None} /\ Ends
  <2>1. CASE MatchToken
    <3>1. next \in {"name", "if", ")", "+", "{"} /\ token' = Token(next, <<>>) /\ next' = None /\ Keeps /\ inLine' = inLine
      BY <2>1 DEF MatchToken, Return, Consumed
    <3>2. Token(next, <<>>).kind = next /\ END.kind = "END"
      BY DEF Token, END
    <3>3. next \in Pieces
      BY <3>1 DEF Pieces, Words
    <3> QED BY <1>2, <1>3, <3>1, <3>2, <3>3, SpecialTokens
  <2>2. CASE MatchAsterisk
    <3>1. /\ next' \in {None, "/"} /\ Keeps /\ inLine' = inLine /\ ~inLine /\ condition' = "INITIAL"
          /\ token' = Token("*", <<>>) \/ token' = Token("/", <<>>)
      BY <2>2 DEF MatchAsterisk, Return, InCondition
    <3>2. Token("*", <<>>).kind = "*" /\ Token("/", <<>>).kind = "/" /\ END.kind = "END"
      BY DEF Token, END
    <3> QED BY <1>2, <1>3, <3>1, <3>2, SpecialTokens
  <2>3. CASE MatchIgnored \/ SkipBlank \/ MatchEmpty \/ OpenComment \/ MatchLineComment \/ MatchInLineComment
    <3>1. Reads /\ Keeps /\ token' = None /\ inLine' \in BOOLEAN /\ next' # "/"
      BY <1>2, <1>3, <2>3 DEF MatchIgnored, SkipBlank, MatchEmpty, OpenComment, MatchLineComment, MatchInLineComment,
                        Consumed, Silent, InCondition
    <3> QED BY <1>2, <1>3, <3>1
  <2>4. CASE MatchBadCharacter
    BY <1>2, <1>3, <2>4, SpecialTokens DEF MatchBadCharacter, Fails, Consumed
  <2>5. CASE MatchEnd
    BY <1>2, <1>3, <2>5, SpecialTokens DEF MatchEnd, Return, InCondition
  <2>6. CASE OpenString \/ OpenRune
    BY <1>2, <1>3, <2>6 DEF OpenString, OpenRune, Consumed, InCondition
  <2>7. CASE MatchInComment
    BY <1>2, <1>3, <2>7, SpecialTokens DEF MatchInComment, Fails, Consumed, Silent, InCondition
  <2>8. CASE InsertSemicolon
    BY <1>2, <1>3, <2>8, SpecialTokens DEF InsertSemicolon, Return, InCondition
  <2>9. CASE CloseString
    <3>1. token' = Token("string", stringLiteral) /\ next' = None /\ Keeps /\ inLine' = inLine
      BY <2>9 DEF CloseString, Return, Consumed
    <3>2. Token("string", stringLiteral) \in Tokens \ {END, Failure}
      BY <1>2, LiteralTokens
    <3> QED BY <1>2, <1>3, <3>1, <3>2
  <2>10. CASE MatchInString
    <3>1. CASE next \in EndsStringWrongly
      BY <1>2, <1>3, <2>10, <3>1, SpecialTokens DEF MatchInString, Fails, Consumed
    <3>2. CASE next \notin EndsStringWrongly
      <4>1. next \in Pieces
        BY <1>2, <2>10, <3>2 DEF MatchInString, InCondition, EndsStringWrongly
      <4>2. stringLiteral' \in Seq(Pieces)
        <5>1. stringLiteral' = IF next = "{" THEN stringLiteral ELSE Append(stringLiteral, next)
          BY <2>10, <3>2 DEF MatchInString
        <5>2. Append(stringLiteral, next) \in Seq(Pieces)
          BY <1>2, <4>1
        <5> QED BY <1>2, <5>1, <5>2
      <4>3. next' = None /\ token' = None /\ UNCHANGED <<inLine, runeValue>>
        BY <2>10, <3>2 DEF MatchInString, Consumed, InCondition
      <4> QED BY <1>2, <1>3, <4>2, <4>3
    <3> QED BY <3>1, <3>2
  <2>11. CASE CloseRune
    <3>1. CASE runeValue = None
      BY <1>2, <1>3, <2>11, <3>1, SpecialTokens DEF CloseRune, Fails, Consumed
    <3>2. CASE runeValue # None
      <4>1. token' = Token("rune", <<runeValue>>) /\ next' = None /\ Keeps /\ inLine' = inLine
        BY <2>11, <3>2 DEF CloseRune, Return, Consumed
      <4>2. Token("rune", <<runeValue>>) \in Tokens \ {END, Failure}
        <5>1. <<runeValue>> \in Seq(Pieces)
          BY <1>2, <3>2
        <5> QED BY <5>1, LiteralTokens
      <4> QED BY <1>2, <1>3, <4>1, <4>2
    <3> QED BY <3>1, <3>2
  <2>12. CASE MatchInRune
    <3>1. SingleCharacters \cup {"esc"} \subseteq Pieces
      BY DEF SingleCharacters, Pieces, Words
    <3>2. token' = Failure \/ (token' = None /\ runeValue' \in Pieces)
      BY <2>12, <3>1 DEF MatchInRune, Fails, InCondition
    <3>3. next' = None /\ UNCHANGED <<stringLiteral, inLine>> /\ runeValue' \in Pieces \cup {None}
      BY <1>2, <2>12, <3>1 DEF MatchInRune, Fails, Consumed
    <3> QED BY <1>2, <1>3, <3>2, <3>3, SpecialTokens
  <2> QED BY <1>1, <2>1, <2>2, <2>3, <2>4, <2>5, <2>6, <2>7, <2>8, <2>9, <2>10, <2>11, <2>12 DEF Match
<1>5. Typed'
  BY <1>1, <1>2, <1>4 DEF Agreed, Typed
<1>6. (next = EOF => last = EOF)'
  BY <1>1, <1>4, NoneIsNothingElse DEF Agreed, EOF
<1> QED BY <1>4, <1>5, <1>6

LEMMA ScanKeepsAgreed ==
  ASSUME Agreed, Conditional, Scan
  PROVE  Agreed'
<1>1. UNCHANGED <<stage, textVars, parseVars>> /\ stage = "parsing"
  BY DEF Scan
<1>2. (Clean => same)'
  BY <1>1 DEF Agreed, Clean, textVars
<1> QED BY <1>1, <1>2, ScanKeepsTypes, MatchKeepsAgreement DEF Agreed

LEMMA ReadKeepsAgreed ==
  ASSUME Agreed, Conditional, ReadPiece
  PROVE  Agreed'
<1>1. /\ stage = "parsing" /\ token = None /\ next' = last' /\ next' \in Pieces \cup {EOF}
      /\ UNCHANGED <<stage, token>>
  BY DEF ReadPiece
<1>2. token' # Failure /\ token' # END
  BY <1>1, SpecialTokens, NoneIsNothingElse
<1>3. next' # "/"
  BY <1>1 DEF Pieces, Words, EOF
<1> QED BY <1>1, <1>2, <1>3, ReadKeepsAgreement DEF Agreed, RejectsOnlyIllegal

(* A token that the parser takes is the next one of Go. *)
LEMMA ComparedAgrees ==
  ASSUME Agreed, Conditional, stage = "parsing", token \notin {None, Failure}, Compared(token), met' = met
  PROVE  /\ (Clean => same)' /\ same' \in BOOLEAN
         /\ "quoteAfterToken" \notin met /\ token # END =>
              IF next = None THEN Settled(go) /\ (Clean => ahead' = <<>>)
              ELSE \E g \in GoStates : Stands(g) /\ (Clean => ahead' = GoTakes(g, next).tokens)
         /\ "quoteAfterToken" \notin met /\ token = END => last = EOF /\ go.mode = "code"
<1>1. same \in BOOLEAN /\ (Clean => same) /\ Clean' = Clean
  BY DEF Agreed, Typed, Clean
<1>2. CASE token = END
  <2>1. same' = (same /\ ahead = <<>>)
    BY <1>2 DEF Compared
  <2>2. next = EOF /\ next # None /\ condition = "INITIAL" /\ ~inLine /\ last = EOF
    BY <1>2, NoneIsNothingElse DEF Agreed
  <2>3. ASSUME "quoteAfterToken" \notin met PROVE go.mode = "code" /\ (Clean => ahead = <<>>)
    <3>1. PICK g \in GoStates : Stands(g)
      BY <2>2, <2>3 DEF Agreed, Agreement
    <3>2. g.mode = "code" /\ (Clean => g.ends # "yes")
      BY <2>2, <3>1, SettledInCondition DEF Stands, SettledInCode, Between
    <3>3. GoTakes(g, next) = LineEnds(g)
      <4>1. GoTakes(g, next) = InCode(g, next)
        BY <3>2 DEF GoTakes
      <4> QED BY <2>2, <4>1 DEF InCode, EOF
    <3>4. Clean => g.ends = "no"
      <4>1. g.ends = "rune" => "runeAtEndOfLine" \in Constructs(g, next)
        BY <2>2, <3>2 DEF Constructs, Differs
      <4>2. g.ends \in {"no", "yes", "rune"}
        BY DEF GoStates
      <4> QED BY <3>1, <3>2, <4>1, <4>2 DEF Stands, Clean
    <3>5. GoTakes(g, next).mode = "code" /\ (Clean => GoTakes(g, next).tokens = <<>>)
      BY <3>2, <3>3, <3>4, GoBuilds
    <3> QED BY <1>2, <3>1, <3>5 DEF Stands, Alike, Ahead
  <2>4. Clean => "quoteAfterToken" \notin met
    BY DEF Clean
  <2> QED BY <1>1, <1>2, <2>1, <2>2, <2>3, <2>4
<1>3. CASE token # END
  <2> DEFINE agrees == ahead # <<>> /\ Head(ahead) = token
  <2>1. /\ same' = (same /\ agrees)
        /\ ahead' = IF same' /\ ahead # <<>> THEN Tail(ahead) ELSE <<>>
    BY <1>3 DEF Compared
  <2>2. ASSUME "quoteAfterToken" \notin met, NEW others, Clean => Ahead(others)
        PROVE  Clean => agrees /\ ahead' = others
    BY <1>1, <1>3, <2>1, <2>2 DEF Ahead
  <2>3. Clean => "quoteAfterToken" \notin met
    BY DEF Clean
  <2>4. CASE next = None
    <3>1. "quoteAfterToken" \notin met => Settled(go) /\ (Clean => Ahead(<<>>))
      BY <2>4 DEF Agreed, Agreement
    <3>2. "quoteAfterToken" \notin met => Settled(go) /\ (Clean => agrees /\ ahead' = <<>>)
      BY <2>2, <3>1
    <3> QED BY <1>1, <1>3, <2>1, <2>3, <2>4, <3>2
  <2>5. CASE next # None
    <3>1. CASE "quoteAfterToken" \in met
      BY <1>1, <2>1, <2>3, <3>1
    <3>2. CASE "quoteAfterToken" \notin met
      <4>1. PICK g \in GoStates : Stands(g)
        BY <2>5, <3>2 DEF Agreed, Agreement
      <4>2. Clean => Ahead(GoTakes(g, next).tokens)
        BY <4>1 DEF Stands
      <4>3. Clean => agrees /\ ahead' = GoTakes(g, next).tokens
        BY <2>2, <3>2, <4>2
      <4> QED BY <1>1, <1>3, <2>1, <2>5, <4>1, <4>3
    <3> QED BY <3>1, <3>2
  <2> QED BY <2>4, <2>5
<1> QED BY <1>2, <1>3

LEMMA ShiftKeepsAgreed ==
  ASSUME Agreed, Conditional, Shift
  PROVE  Agreed'
<1>1. /\ stage = "parsing" /\ token \notin {None, Failure, END} /\ token' = None /\ Compared(token) /\ met' = met
      /\ UNCHANGED <<next, condition, stack, inLine, stringLiteral, runeValue, stage, pieces, last, go, parseVars>>
  BY DEF Shift, Takes
<1>2. Clean' = Clean
  BY <1>1 DEF Clean
<1>3. /\ (Clean => same)' /\ same' \in BOOLEAN
      /\ "quoteAfterToken" \notin met =>
              IF next = None THEN Settled(go) /\ (Clean => ahead' = <<>>)
              ELSE \E g \in GoStates : Stands(g) /\ (Clean => ahead' = GoTakes(g, next).tokens)
  BY <1>1, ComparedAgrees
<1>4. ASSUME NEW g, Settled(g) PROVE Settled(g)'
  BY <1>1, <1>2, <1>4
     DEF Settled, SettledInCode, SettledInLine, SettledInComment, SettledInString, SettledInRune, Between
<1>5. Agreement'
  <2> SUFFICES ASSUME "quoteAfterToken" \notin met
               PROVE  Agreement'
    BY <1>1 DEF Agreement
  <2>1. CASE next = None
    <3>1. Settled(go)'
      <4>1. PICK g : g = go
        OBVIOUS
      <4>2. Settled(g)'
        BY <1>3, <1>4, <2>1, <4>1
      <4> QED BY <1>1, <1>3, <2>1, <4>1, <4>2
                 DEF Settled, SettledInCode, SettledInLine, SettledInComment, SettledInString, SettledInRune, Between
    <3>2. (Clean => Ahead(<<>>))'
      BY <1>1, <1>2, <1>3, <2>1 DEF Ahead
    <3> QED BY <1>1, <2>1, <3>1, <3>2 DEF Agreement
  <2>2. CASE next # None
    <3>1. PICK g \in GoStates : Stands(g) /\ (Clean => ahead' = GoTakes(g, next).tokens)
      BY <1>3, <2>2
    <3>2. Settled(g)'
      BY <1>4, <3>1 DEF Stands
    <3>3. Alike(go, GoTakes(g, next))'
      BY <1>1, <3>1 DEF Stands
    <3>4. Constructs(g, next)' \subseteq met'
      BY <1>1, <3>1 DEF Stands, Constructs, Differs
    <3>5. (Clean => Ahead(GoTakes(g, next).tokens))'
      BY <1>1, <1>2, <3>1 DEF Ahead
    <3>6. Stands(g)'
      BY <3>2, <3>3, <3>4, <3>5 DEF Stands
    <3> QED BY <1>1, <2>2, <3>1, <3>6 DEF Agreement
  <2> QED BY <2>1, <2>2
<1>6. Typed'
  BY <1>1, <1>3 DEF Agreed, Typed
<1>7. token' # Failure /\ token' # END
  BY <1>1, SpecialTokens, NoneIsNothingElse
<1> QED BY <1>1, <1>3, <1>5, <1>6, <1>7 DEF Agreed, RejectsOnlyIllegal, parseVars

(* The parser ends, and accepts only at the end of a text in Go's tokens. *)
LEMMA ParserEndKeepsAgreed ==
  ASSUME Agreed, Conditional, ScannerFails \/ SyntaxError \/ Accept
  PROVE  Agreed'
<1>1. /\ stage = "parsing" /\ stage' = "returning" /\ token # None /\ token' = None /\ met' = met
      /\ UNCHANGED <<next, condition, stack, inLine, stringLiteral, runeValue, pieces, last, go>>
  BY DEF ScannerFails, SyntaxError, Accept, Takes
<1>2. Clean' = Clean
  BY <1>1 DEF Clean
<1>3. (Clean => same)' /\ same' \in BOOLEAN
  <2>1. CASE ScannerFails
    BY <1>2, <2>1 DEF ScannerFails, Agreed, Typed
  <2>2. CASE SyntaxError \/ Accept
    <3>1. token # Failure /\ Compared(token)
      BY <2>2, SpecialTokens DEF SyntaxError, Accept, Takes
    <3> QED BY <1>1, <3>1, ComparedAgrees
  <2> QED BY <2>1, <2>2
<1>4. status' = 0 => Legal'
  <2>1. CASE ScannerFails \/ SyntaxError
    BY <2>1 DEF ScannerFails, SyntaxError
  <2>2. CASE Accept
    <3>1. token = END /\ token # Failure /\ Compared(token)
      BY <2>2, SpecialTokens DEF Accept, Takes
    <3>2. "quoteAfterToken" \notin met => last = EOF /\ go.mode = "code"
      BY <1>1, <3>1, ComparedAgrees
    <3> QED BY <1>1, <3>2 DEF Legal
  <2> QED BY <2>1, <2>2
<1>5. Typed'
  BY <1>1, <1>3 DEF Agreed, Typed
<1>6. token' # Failure /\ token' # END
  BY <1>1, SpecialTokens, NoneIsNothingElse
<1> QED BY <1>1, <1>3, <1>4, <1>5, <1>6 DEF Agreed, Agreement, RejectsOnlyIllegal

LEMMA ReturnKeepsAgreed ==
  ASSUME Agreed, DriverReturns
  PROVE  Agreed'
<1>1. /\ stage = "returning" /\ stage' = "parsed" /\ ScannerGone
      /\ UNCHANGED <<pieces, last, go, ahead, same, met, status>>
      /\ root' = (root /\ status = 0 /\ ~diagnostics)
  BY DEF DriverReturns, textVars
<1>2. /\ next' = None /\ condition' = "INITIAL" /\ inLine' = FALSE /\ token' = None
      /\ stringLiteral' = <<>> /\ runeValue' = None
  BY <1>1 DEF ScannerGone
<1>3. <<>> \in Seq(Pieces)
  OBVIOUS
<1>4. Typed'
  BY <1>1, <1>2, <1>3 DEF Agreed, Typed
<1>5. (Clean => same)' /\ Legal' = Legal
  BY <1>1 DEF Agreed, Clean, Legal
<1>6. token' # Failure /\ token' # END /\ next' # EOF /\ next' # "/"
  BY <1>2, SpecialTokens, NoneIsNothingElse
<1> QED BY <1>1, <1>2, <1>4, <1>5, <1>6 DEF Agreed, Agreement, RejectsOnlyIllegal

LEMMA GoStartIsState == GoStart \in GoStates /\ GoStart.mode = "code" /\ GoStart.ends = "no"
<1>1. <<>> \in Seq(Pieces)
  OBVIOUS
<1> QED BY <1>1 DEF GoStart, GoStates, Modes

(* There is no text before it is read, nor after the tree was made. *)
LEMMA NoTextIsAgreed ==
  ASSUME next' = None, condition' = "INITIAL", inLine' = FALSE, token' = None,
         stringLiteral' \in Seq(Pieces), runeValue' \in Pieces \cup {None},
         go' = GoStart, ahead' = <<>>, same' = TRUE, met' = {}, stage' # "returning",
         stage' # "parsed"
  PROVE  Agreed'
<1>1. Typed'
  BY GoStartIsState DEF Typed
<1>2. Between(condition, go)'
  BY GoStartIsState DEF Between
<1>3. Settled(go)'
  BY <1>2, GoStartIsState DEF Settled, SettledInCode
<1>4. (Clean => Ahead(<<>>))'
  BY DEF Ahead
<1>5. token' # Failure /\ token' # END /\ next' # EOF /\ next' # "/"
  BY SpecialTokens, NoneIsNothingElse
<1> QED BY <1>1, <1>3, <1>4, <1>5 DEF Agreed, Agreement, RejectsOnlyIllegal

LEMMA ExitKeepsAgreed ==
  ASSUME NEW code, Exits(code)
  PROVE  Agreed'
<1>1. <<>> \in Seq(Pieces)
  OBVIOUS
<1> QED BY <1>1, NoTextIsAgreed DEF Exits, ScannerGone, TextGone

(* The other stages of main do not touch the text. *)
LEMMA OtherKeepsAgreed ==
  ASSUME Agreed, UNCHANGED <<scannerVars, textVars>>,
         stage \notin {"parsing", "returning", "parsed"}, stage' \notin {"returning", "parsed"}
  PROVE  Agreed'
<1>1. /\ next = None /\ condition = "INITIAL" /\ ~inLine /\ token = None
      /\ go = GoStart /\ ahead = <<>> /\ same /\ met = {} /\ Typed
  BY DEF Agreed
<1>2. /\ next' = None /\ condition' = "INITIAL" /\ inLine' = FALSE /\ token' = None
      /\ stringLiteral' \in Seq(Pieces) /\ runeValue' \in Pieces \cup {None}
      /\ go' = GoStart /\ ahead' = <<>> /\ same' = TRUE /\ met' = {}
  BY <1>1 DEF Typed, scannerVars, textVars
<1> QED BY <1>2, NoTextIsAgreed

LEMMA SameKeepsAgreed ==
  ASSUME Agreed, UNCHANGED <<scannerVars, textVars, parseVars, stage>>
  PROVE  Agreed'
<1>1. UNCHANGED <<next, condition, stack, inLine, stringLiteral, runeValue, token, stage, last, go, ahead, same, met,
                  status, root>>
  BY DEF scannerVars, textVars, parseVars
<1>2. Agreement'
  <2>1. CASE next = None
    BY <1>1, <2>1 DEF Agreed, Agreement, Settled, SettledInCode, SettledInLine, SettledInComment,
                      SettledInString, SettledInRune, Between, Clean, Ahead
  <2>2. CASE next # None
    <3> SUFFICES ASSUME stage = "parsing", "quoteAfterToken" \notin met, token # Failure
                 PROVE  \E g \in GoStates : Stands(g)'
      BY <1>1, <2>2 DEF Agreement
    <3>1. PICK g \in GoStates : Stands(g)
      BY <2>2 DEF Agreed, Agreement
    <3>2. Settled(g)'
      BY <1>1, <3>1 DEF Stands, Settled, SettledInCode, SettledInLine, SettledInComment,
                        SettledInString, SettledInRune, Between, Clean
    <3>3. Alike(go, GoTakes(g, next))' /\ Constructs(g, next)' \subseteq met'
      BY <1>1, <3>1 DEF Stands, Constructs, Differs
    <3>4. (Clean => Ahead(GoTakes(g, next).tokens))'
      BY <1>1, <3>1 DEF Stands, Clean, Ahead
    <3> QED BY <3>1, <3>2, <3>3, <3>4 DEF Stands
  <2> QED BY <2>1, <2>2
<1> QED BY <1>1, <1>2 DEF Agreed, Typed, Clean, RejectsOnlyIllegal, Legal

LEMMA StepKeepsAgreed ==
  ASSUME Agreed, Conditional, Step
  PROVE  Agreed'
<1> DEFINE Other == /\ UNCHANGED <<scannerVars, textVars>>
                    /\ stage \notin {"parsing", "returning", "parsed"} /\ stage' \notin {"returning", "parsed"}
<1>1. CASE ReadPiece
  BY <1>1, ReadKeepsAgreed
<1>2. CASE Scan
  BY <1>2, ScanKeepsAgreed
<1>3. CASE Shift
  BY <1>3, ShiftKeepsAgreed
<1>4. CASE ScannerFails \/ SyntaxError \/ Accept
  BY <1>4, ParserEndKeepsAgreed
<1>5. CASE DriverReturns
  BY <1>5, ReturnKeepsAgreed
<1>6. CASE \E code : Exits(code)
  BY <1>6, ExitKeepsAgreed
<1>7. CASE Start /\ ~\E code : Exits(code)
  <2>1. Other
    BY <1>7 DEF Start
  <2> QED BY <2>1, OtherKeepsAgreed
<1>8. CASE CheckResult /\ ~\E code : Exits(code)
  <2>1. stage = "parsed" /\ stage' = "analysing" /\ TextGone /\ UNCHANGED scannerVars
    BY <1>8 DEF CheckResult
  <2>2. next = None /\ condition = "INITIAL" /\ ~inLine /\ token = None /\ Typed
    BY <2>1 DEF Agreed
  <2>3. /\ next' = None /\ condition' = "INITIAL" /\ inLine' = FALSE /\ token' = None
        /\ stringLiteral' \in Seq(Pieces) /\ runeValue' \in Pieces \cup {None}
    BY <2>1, <2>2 DEF Typed, scannerVars
  <2> QED BY <2>1, <2>3, NoTextIsAgreed DEF TextGone
<1>9. CASE Analyse \/ (CreateDotFile /\ ~\E code : Exits(code))
  <2>1. Other
    BY <1>9 DEF Analyse, CreateDotFile
  <2> QED BY <2>1, OtherKeepsAgreed
<1>10. CASE OpenClassFile \/ WriteHead \/ WritePool \/ WriteTail
  <2>1. Other
    BY <1>10 DEF OpenClassFile, WriteHead, WritePool, WriteTail, Continues
  <2> QED BY <2>1, OtherKeepsAgreed
<1>11. CASE Overflow
  BY <1>11, SameKeepsAgreed DEF Overflow
<1>12. CASE CloseClassFile
  BY <1>12, ExitKeepsAgreed DEF CloseClassFile
<1> QED BY <1>1, <1>2, <1>3, <1>4, <1>5, <1>6, <1>7, <1>8, <1>9, <1>10, <1>11, <1>12 DEF Step

LEMMA NextKeepsAgreed == Agreed /\ Conditional /\ [Next]_vars => Agreed'
<1> SUFFICES ASSUME Agreed, Conditional, [Next]_vars PROVE Agreed'
  OBVIOUS
<1>1. CASE Step
  BY <1>1, StepKeepsAgreed
<1>2. CASE Kill
  BY <1>2, ExitKeepsAgreed DEF Kill
<1>3. CASE NextRun
  <2>1. UNCHANGED <<scannerVars, textVars>> /\ stage = "exited" /\ stage' = "start"
    BY <1>3 DEF NextRun
  <2> QED BY <2>1, OtherKeepsAgreed
<1>4. CASE UNCHANGED vars
  BY <1>4, SameKeepsAgreed DEF vars
<1> QED BY <1>1, <1>2, <1>3, <1>4 DEF Next

LEMMA InitIsAgreed == Init => Agreed
<1> SUFFICES ASSUME Init PROVE Agreed
  OBVIOUS
<1>1. /\ next = None /\ condition = "INITIAL" /\ inLine = FALSE /\ token = None
      /\ stringLiteral = <<>> /\ runeValue = None /\ stage = "start"
      /\ go = GoStart /\ ahead = <<>> /\ same = TRUE /\ met = {}
  BY DEF Init, ScannerStarts
<1>2. <<>> \in Seq(Pieces)
  OBVIOUS
<1>3. Typed
  BY <1>1, <1>2, GoStartIsState DEF Typed
<1>4. token # Failure /\ token # END /\ next # EOF /\ next # "/"
  BY <1>1, SpecialTokens, NoneIsNothingElse
<1> QED BY <1>1, <1>3, <1>4 DEF Agreed, Agreement, RejectsOnlyIllegal

-----------------------------------------------------------------------------
(* What follows.                                                           *)

LEMMA AgreedAlways == Spec => [](Agreed /\ Staged)
<1>1. Agreed /\ Staged /\ Conditional /\ [Next]_vars => (Agreed /\ Staged /\ Conditional)'
  BY NextKeepsAgreed, NextKeepsStaged
<1> QED BY <1>1, InitIsAgreed, InitIsStaged, PTL DEF Spec

(* The parser gets the tokens of Go, with the semicolons of Go and the     *)
(* values of its literals, for texts of any length, whatever comments and  *)
(* lines are around them, unless the text has one of the constructs that   *)
(* lexer.l takes otherwise.                                                *)
THEOREM TokensOfGo == Spec => []TokensAsInGo
<1>1. Agreed => TokensAsInGo
  BY DEF Agreed, Clean, TokensAsInGo
<1> QED BY <1>1, AgreedAlways, PTL

(* An exception of the scanner means that Go has no token there, or a      *)
(* conversion that throws.                                                 *)
THEOREM FailsOnlyWhereGoDoes == Spec => []RejectsOnlyIllegal
<1>1. Agreed => RejectsOnlyIllegal
  BY DEF Agreed
<1> QED BY <1>1, AgreedAlways, PTL

(* Driver::parse returns a tree only after the scanner has come to the end *)
(* of a text that is in Go's tokens to its end.                            *)
THEOREM TreeOnlyForLegal == Spec => []AcceptsOnlyLegal
<1>1. Agreed => AcceptsOnlyLegal
  BY DEF Agreed, Legal, AcceptsOnlyLegal
<1> QED BY <1>1, AgreedAlways, PTL
=============================================================================
