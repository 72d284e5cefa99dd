-------------------------------- MODULE Repl --------------------------------
(***************************************************************************)
(* The prompt of the command line (src/src/core/cli): the line being       *)
(* edited, the arrow keys, statements that take several lines, and the     *)
(* history with its file.                                                  *)
(*                                                                         *)
(* handed and pending are history variables: what was handed to _do, and   *)
(* the lines typed since.  What _do makes of it is in Session.             *)
(***************************************************************************)
EXTENDS Statements

CONSTANTS
    Lines,          \* what may be typed
    Drafts,         \* what may be on the screen when an arrow key is pressed
    HistoryMax,     \* 1000 in the code
    SavePeriod,     \* the history is saved every 10 entries
    MaxEnters,      \* bound: lines entered in all
    MaxKeys         \* bound: arrow keys between two other keys

ASSUME ReplAssumption ==
    /\ HistoryMax \in Nat \ {0} /\ SavePeriod \in Nat \ {0}
    /\ HistoryMax % SavePeriod = 0
    /\ MaxEnters \in Nat /\ MaxKeys \in Nat
    /\ \A line \in Lines \cup Drafts : line \in Seq(Chars) /\ (line # <<>> => Head(line) # " ")

VARIABLES
    multiline,      \* options.multiline of settings.json
    input,          \* the unfinished statement: globals.js, 27-32
    history, historyIndex,
    file,           \* the entries in .cli_history
    rlLine,         \* the line on the screen
    currentInput,   \* what the arrow keys have replaced
    navigating,
    keys,           \* arrow keys since the last other key
    handed,         \* the statements handed to _do, with the lines they were typed as
    pending,        \* the lines typed since
    entered         \* the number of lines entered

screenVars == <<rlLine, currentInput, navigating, keys>>
historyVars == <<history, historyIndex, file>>
vars == <<multiline, input, historyVars, screenVars, handed, pending, entered>>

FreshInput ==
    [buffer |-> <<>>, white |-> NoWhite, scan |-> FreshScan, multi |-> FALSE, lines |-> <<>>]

ReplTypeOK ==
    /\ multiline \in BOOLEAN
    /\ input.scan \in Scans /\ input.multi \in BOOLEAN
    /\ input.buffer \in Seq(Chars) /\ input.white \in Whites
    /\ input.lines \in Seq(Seq(Chars)) /\ \A i \in DOMAIN input.lines : input.lines[i] # <<>>
    /\ history \in Seq(Seq(Seq(Chars))) /\ Len(history) <= HistoryMax
    /\ \A i \in DOMAIN history : history[i] # <<>>
    /\ historyIndex \in 0 .. Len(history)
    /\ rlLine \in Seq(Chars) /\ currentInput \in Seq(Chars)
    /\ navigating => history # <<>>

NewSession(entries) ==
    /\ input' = FreshInput
    /\ history' = entries /\ historyIndex' = Len(entries)
    /\ rlLine' = <<>> /\ currentInput' = <<>> /\ navigating' = FALSE /\ keys' = 0
    /\ handed' = <<>> /\ pending' = <<>>

Init ==
    /\ multiline \in BOOLEAN
    /\ input = FreshInput
    /\ history = <<>> /\ historyIndex = 0 /\ file = <<>>
    /\ rlLine = <<>> /\ currentInput = <<>> /\ navigating = FALSE /\ keys = 0
    /\ handed = <<>> /\ pending = <<>> /\ entered = 0
-----------------------------------------------------------------------------
(***************************************************************************)
(* History.  An entry is the sequence of its lines.                        *)
(***************************************************************************)
AddToHistoryCountFirst(entry) ==
    LET added == history = <<>> \/ Last(history) # entry
        all == IF added THEN Append(history, entry) ELSE history
        kept == IF Len(all) > HistoryMax THEN Tail(all) ELSE all
    IN  /\ history' = kept
        /\ historyIndex' = Len(kept)
        /\ file' = IF added /\ Len(all) % SavePeriod = 0 THEN kept ELSE file

\* No entry twice in a row, HistoryMax of them at most.
AddToHistory(entry) ==
    LET added == history = <<>> \/ Last(history) # entry
        all == IF added THEN Append(history, entry) ELSE history
        kept == IF Len(all) > HistoryMax THEN Tail(all) ELSE all
    IN  /\ history' = kept
        /\ historyIndex' = Len(kept)
        /\ file' = IF added /\ Len(kept) % SavePeriod = 0 THEN kept ELSE file

\* An entry as the arrow keys show it: on one line, a blank for each line end.
HistoryLine(entry) ==
    LET shown[n \in 0 .. Len(entry)] ==
            IF n = 0 THEN <<>> ELSE (IF n = 1 THEN <<>> ELSE shown[n-1] \o <<" ">>) \o entry[n]
    IN  shown[Len(entry)]
-----------------------------------------------------------------------------
(***************************************************************************)
(* Keys.                                                                   *)
(***************************************************************************)
\* Other keys: the user begins a line, over what the arrow keys may have put there.
Type(line) ==
    /\ rlLine = <<>> \/ navigating
    /\ rlLine # line
    /\ rlLine' = line
    /\ currentInput' = IF navigating THEN <<>> ELSE currentInput
    /\ navigating' = FALSE /\ keys' = 0
    /\ UNCHANGED <<multiline, input, historyVars, handed, pending, entered>>

Up ==
    /\ keys < MaxKeys /\ keys' = keys + 1
    /\ currentInput' = IF rlLine # <<>> THEN rlLine ELSE currentInput
    /\ IF history = <<>> THEN UNCHANGED <<historyIndex, rlLine, navigating>>
       ELSE LET index == IF historyIndex > 0 THEN historyIndex - 1 ELSE 0
            IN  /\ historyIndex' = index
                /\ rlLine' = HistoryLine(history[index + 1])
                /\ navigating' = TRUE
    /\ UNCHANGED <<multiline, input, history, file, handed, pending, entered>>

Down ==
    /\ keys < MaxKeys /\ keys' = keys + 1
    /\ history # <<>>
    /\ navigating' = TRUE
    /\ IF historyIndex < Len(history) - 1
       THEN /\ historyIndex' = historyIndex + 1
            /\ rlLine' = HistoryLine(history[historyIndex + 2])
            /\ UNCHANGED currentInput
       ELSE /\ historyIndex' = Len(history)
            /\ rlLine' = currentInput
            /\ currentInput' = <<>>
    /\ UNCHANGED <<multiline, input, history, file, handed, pending, entered>>
-----------------------------------------------------------------------------
(***************************************************************************)
(* The handler of a line, which is the one on the screen or typed over it. *)
(* In each of its cases the screen is cleared for the next prompt.         *)
(***************************************************************************)
Enter ==
    /\ entered < MaxEnters /\ entered' = entered + 1
    /\ rlLine' = <<>> /\ keys' = 0
    /\ navigating' = FALSE
    /\ currentInput' = IF navigating THEN <<>> ELSE currentInput
    /\ UNCHANGED multiline

Hand(line, text, white, entry) ==
    /\ handed' = Append(handed, [text |-> text, white |-> white, lines |-> Append(pending, line)])
    /\ pending' = <<>>
    /\ input' = FreshInput
    /\ AddToHistory(entry)

\* _checkMultilineComplete: the input after a line that may leave the
\* statement unfinished, with the lines kept for the history.
Checked(line) == PromptCheck(input.buffer, input.white, input.scan, line)

InputAfter(line, multi, kept) ==
    [buffer |-> Checked(line).buffer, white |-> Checked(line).white,
     scan |-> Checked(line).scan, multi |-> multi,
     lines |-> IF multi /\ line # <<>> THEN Append(input.lines, kept) ELSE input.lines]

MoreLinesCut(line) == InputAfter(line, input.multi \/ ~HasSemicolon(line), UpToSemicolon(line))

MoreLines(line) ==
    LET multi == \/ input.multi
                 \/ ~HasSemicolon(line)
                 \/ \E k \in Kinds : Checked(line).scan.depth[k] > 0
    IN  InputAfter(line, multi, line)

\* A text as it is written, a line end as the blank that the arrow keys show for it.
Spelled(text, white) ==
    LET spelled[n \in 0 .. Len(text)] ==
            IF n = 0 THEN <<>>
            ELSE spelled[n-1] \o <<text[n]>> \o (IF n \in Gaps(white) THEN <<" ">> ELSE <<>>)
    IN  spelled[Len(text)]

EntryOf(text, white, lines) ==
    IF Len(lines) > 1 THEN lines ELSE <<Append(Spelled(text, white), ";")>>

MultilineStep(line) ==
    \/ /\ ~Checked(line).complete
       /\ input' = MoreLines(line)
       /\ pending' = Append(pending, line)
       /\ UNCHANGED <<historyVars, handed>>
    \/ /\ Checked(line).complete
       /\ LET done == Checked(line)
          IN  Hand(line, done.buffer, done.white,
                   EntryOf(done.buffer, done.white, MoreLines(line).lines))

SkipBlank(line) ==
    /\ line = <<>> /\ ~input.multi
    /\ Enter
    /\ pending' = Append(pending, line)
    /\ UNCHANGED <<input, historyVars, handed>>

MultilineCommand(line) == line # <<>> /\ Head(line) \in {"curl", "event"}

\* A line of an unfinished statement, or the first of one that may take several.
Statement(line) ==
    /\ line # <<"exit">>
    /\ input.multi \/ (line # <<>> /\ (MultilineCommand(line) \/ Head(line) \notin Commands))
    /\ multiline
    /\ Enter
    /\ MultilineStep(line)

\* With multiline off a line is a statement as it stands.
OneLine(line) ==
    /\ ~multiline
    /\ line # <<>> /\ line # <<"exit">>
    /\ MultilineCommand(line) \/ Head(line) \notin Commands
    /\ Enter
    /\ IF MultilineCommand(line)
       THEN LET white == [blanks |-> Inside(line), newlines |-> {}]
            IN  Hand(line, UpToSemicolon(line), white, EntryOf(UpToSemicolon(line), white, <<>>))
       ELSE Hand(line, line, NoWhite, <<Append(line, ";")>>)

Command(line) ==
    /\ line # <<>> /\ ~input.multi
    /\ Head(line) \in Commands /\ ~MultilineCommand(line)
    /\ Enter
    /\ Hand(line, line, NoWhite, <<line>>)
-----------------------------------------------------------------------------
\* The process ends, by `exit` or otherwise, and the next one reads the file.
Exit(line) ==
    /\ line = <<"exit">>
    /\ file' = history
    /\ NewSession(history)
    /\ UNCHANGED <<multiline, entered>>

Kill ==
    /\ handed # <<>> \/ pending # <<>>
    /\ NewSession(file)
    /\ UNCHANGED <<multiline, file, entered>>

Next ==
    \/ \E line \in Drafts : Type(line)
    \/ Up \/ Down
    \/ \E line \in Lines \cup {rlLine} :
          SkipBlank(line) \/ Statement(line) \/ OneLine(line) \/ Command(line) \/ Exit(line)
    \/ Kill

Spec == Init /\ [][Next]_vars
-----------------------------------------------------------------------------
(***************************************************************************)
(* Properties.                                                             *)
(***************************************************************************)
\* The file holds all but the last few entries: a process that is killed
\* loses less than SavePeriod of them, also when the history is full
\* (_addToHistory: history.js, 60-87).
FileKeepsUp ==
    /\ ReplTypeOK
    /\ IsPrefix(file, history) /\ Len(history) < Len(file) + SavePeriod

\* Lines whose semicolons, if any, end them, and that end in no backslash.
Tidy(lines) ==
    \A i \in DOMAIN lines :
        \A j \in DOMAIN lines[i] :
            /\ lines[i][j] = ";" => j = Len(lines[i]) /\ (j = 1 \/ lines[i][j-1] # "\\")
            /\ lines[i][j] = "\\" => j # Len(lines[i])

IsCommand(text) == text # <<>> /\ Head(text) \in Commands \ {"curl", "event"}

HandedIsWhole(stmt) ==
    LET text == Text(stmt.lines)
    IN  StatementEnds(text) # {} /\ stmt.text = Bare(StatementOf(text))

\* A statement is handed over when the semicolon outside strings and
\* brackets has been typed, and it is everything typed up to there
\* (multiline.js, 19-203).
StatementsAreWhole ==
    multiline =>
        /\ handed # <<>> /\ ~IsCommand(Last(handed).text) /\ Tidy(Last(handed).lines)
              => HandedIsWhole(Last(handed))
        /\ Tidy(pending) => StatementEnds(Text(pending)) = {}

\* Lines none of whose blanks comes after a backslash.
BlanksStay(lines) ==
    \A i \in DOMAIN lines : \A j \in DOMAIN lines[i] :
        lines[i][j] = " " => j = 1 \/ lines[i][j-1] # "\\"

\* A statement that is called back from the history is complete in the one
\* line it is shown on, with the words of the statement that ran and white
\* space where that had some, line ends included, which are blanks now
\* (multiline.js, 108-195; history.js, 95-108).  It is the same statement if
\* it kept no line end.  A path that was joined to the line before it in curl
\* has a blank before it; a semicolon that ends a line of a body cuts the one
\* line short; blanks that are taken out of an entry of one line may have been
\* what a backslash before them escaped.
RecalledOnOneLine ==
    multiline /\ handed # <<>> =>
        LET stmt == Last(handed)
            again == PromptCheck(<<>>, NoWhite, FreshScan, HistoryLine(Last(history)))
            onlyLastEnds == \A i \in 1 .. Len(stmt.lines) - 1 : ~HasSemicolon(stmt.lines[i])
            noPath == Starts(stmt.text, "curl") => \A i \in DOMAIN stmt.lines : ~Starts(stmt.lines[i], "/")
        IN  ~IsCommand(stmt.text) /\ Tidy(stmt.lines) /\ BlanksStay(stmt.lines) /\ onlyLastEnds /\ noPath
                => /\ again.complete /\ again.buffer = stmt.text
                   /\ again.white = OnOneLine(stmt.white)

\* The lines of the session so far, and whether a script of them is one for
\* which the two readers are meant to be the same: `event` takes one line
\* in a script, and only a script knows comments.
LinesOf(stmts) ==
    LET lines[n \in 0 .. Len(stmts)] ==
            IF n = 0 THEN <<>> ELSE lines[n-1] \o stmts[n].lines
    IN  lines[Len(stmts)]

LinesSoFar == LinesOf(handed) \o pending

InBoth(lines) ==
    /\ Tidy(lines)
    /\ \A i \in DOMAIN lines : lines[i] # <<>> => Head(lines[i]) \notin {"event", "#"}
    /\ ~multiline => \A i \in DOMAIN lines : ~Starts(lines[i], "curl")
    /\ ~ReadScript(multiline, lines).error

\* The same lines, typed or read from a script, are statements of the same
\* words, and are written the same but for curl and .catch() (multiline.js,
\* 19-203 and multilineParser.js, 11-305): the prompt keeps the line ends of
\* curl's -d, -H and strings, a script those after .catch(, and only a script
\* takes white space out of curl.
ScriptReadsTheSame ==
    LET script == ReadScript(multiline, LinesSoFar)
        WrittenAlike(stmt) == ~Starts(stmt.text, "curl") /\ ~Calls(stmt.text, stmt.white, "catch")
    IN  InBoth(LinesSoFar) =>
            /\ Len(script.out) = Len(handed) /\ script.buffer = input.buffer
            /\ \A i \in DOMAIN handed :
                  /\ script.out[i].text = handed[i].text
                  /\ WrittenAlike(handed[i]) => script.out[i].white = handed[i].white
=============================================================================
