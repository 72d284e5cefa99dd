----------------------------- MODULE Statements -----------------------------
(***************************************************************************)
(* How noAbi cuts what is typed, or read from a script, into statements    *)
(* (src/src/core/cli/multiline.js, src/src/core/utils/multilineParser.js). *)
(*                                                                         *)
(* A line is a sequence of words and of the characters that matter: the    *)
(* brackets, quotes, the backslash, the dot, the slash, the semicolon and  *)
(* the blank.  A text is such a sequence without its white space, and      *)
(* beside it after how many of its elements there is a blank, and after    *)
(* how many the end of a line: the body of .then() or .catch() is          *)
(* JavaScript, where the two are not the same.  White space is a line end  *)
(* if there is one in it, and a blank otherwise.                           *)
(***************************************************************************)
EXTENDS Integers, Sequences, SequencesExt

CONSTANTS
    Chars,          \* the words and characters of a line
    Names,          \* the words that are JavaScript names
    Commands        \* knownCommands, with "curl" and "event" among them

ASSUME CharsAssumption == {" ", ";"} \subseteq Chars

ASSUME CommandsAssumption == {"curl", "event"} \subseteq Commands

Opening == [paren |-> "(", bracket |-> "[", brace |-> "{"]
Closing == [paren |-> ")", bracket |-> "]", brace |-> "}"]
Kinds == DOMAIN Opening

\* What the scan keeps from one line to the next; quote is "" outside strings.
FreshScan == [depth |-> [k \in Kinds |-> 0], quote |-> "", escape |-> FALSE]

Scans == [depth : [Kinds -> Int], quote : {"", "'", "\""}, escape : BOOLEAN]

Counted(depth, ch) ==
    [k \in Kinds |-> depth[k] + (IF ch = Opening[k] THEN 1 ELSE IF ch = Closing[k] THEN -1 ELSE 0)]

ScanCharQuoted(scan, ch) ==
    IF scan.escape \/ ch = "\\" THEN [scan EXCEPT !.escape = ~scan.escape]
    ELSE IF ch \in {"'", "\""} THEN [scan EXCEPT !.quote = IF @ = ch THEN "" ELSE ch]
    ELSE [scan EXCEPT !.depth = Counted(@, ch)]

ScanChar(scan, ch) ==
    IF scan.escape \/ ch = "\\" THEN [scan EXCEPT !.escape = ~scan.escape]
    ELSE IF scan.quote # "" THEN IF ch = scan.quote THEN [scan EXCEPT !.quote = ""] ELSE scan
    ELSE IF ch \in {"'", "\""} THEN [scan EXCEPT !.quote = ch]
    ELSE [scan EXCEPT !.depth = Counted(@, ch)]

Scan(scan, line) ==
    LET at[n \in 0 .. Len(line)] == IF n = 0 THEN scan ELSE ScanChar(at[n-1], line[n])
    IN  at[Len(line)]

Balanced(scan) == scan.quote = "" /\ \A k \in Kinds : scan.depth[k] = 0

HasSemicolon(line) == Contains(line, ";")

\* What is kept of a text: neither its blanks nor the semicolons.
Bare(text) ==
    LET bare[n \in 0 .. Len(text)] ==
            IF n = 0 THEN <<>>
            ELSE IF text[n] \in {" ", ";"} THEN bare[n-1]
            ELSE Append(bare[n-1], text[n])
    IN  bare[Len(text)]

\* The line before its first semicolon, wherever that is.
Cut(line) ==
    LET i == SelectInSeq(line, LAMBDA ch : ch = ";")
    IN  IF i = 0 THEN line ELSE SubSeq(line, 1, i - 1)

UpToSemicolon(line) == Bare(Cut(line))

\* The blanks of a line, and those inside what is kept of it.
BlanksOf(line) == {Len(Bare(SubSeq(line, 1, i))) : i \in {j \in DOMAIN line : line[j] = " "}}
Inside(line) == BlanksOf(Cut(line)) \ {0, Len(UpToSemicolon(line))}

Starts(line, word) == line # <<>> /\ Head(line) = word

Whites == [blanks : SUBSET Nat, newlines : SUBSET Nat]
NoWhite == [blanks |-> {}, newlines |-> {}]
Gaps(white) == white.blanks \cup white.newlines

\* White space that is trimmed, or taken out elsewhere.
Without(white, gaps) == [blanks |-> white.blanks \ gaps, newlines |-> white.newlines \ gaps]

OnOneLine(white) == [blanks |-> Gaps(white), newlines |-> {}]

\* A text with a line behind it, and a newline, a blank or nothing between them.
Joined(text, white, separator, line) ==
    LET newlines == white.newlines \cup {n \in {Len(text)} : separator = "newline"}
        blanks == white.blanks \cup {n \in {Len(text)} : separator = "blank"}
                               \cup {Len(text) + k : k \in Inside(line)}
    IN  [blanks |-> blanks \ newlines, newlines |-> newlines]

\* .then( or .catch( is in the text.
Calls(text, white, name) ==
    \E n \in 1 .. Len(text) - 2 :
        /\ text[n] = "." /\ text[n+1] = name /\ text[n+2] = "("
        /\ {n, n + 1} \cap Gaps(white) = {}

\* What is put between the text and a line, with the state of the scan after that line.
Separator(text, line, keepsLines) ==
    IF text = <<>> \/ (Starts(text, "curl") /\ Starts(UpToSemicolon(line), "/")) THEN "none"
    ELSE IF line # <<>> /\ keepsLines THEN "newline" ELSE "blank"

PromptSeparator(text, white, after, line) ==
    LET HasOption == {"-d", "-H"} \cap (ToSet(text) \cup ToSet(UpToSemicolon(line))) # {}
    IN  Separator(text, line,
            \/ Starts(text, "curl") /\ (HasOption \/ after.quote # "")
            \/ Starts(text, "event")
            \/ /\ ~Starts(text, "curl")
               /\ Calls(text, white, "then") \/ after.depth["brace"] > 0)

ScriptSeparatorInBraces(text, white, after, line) ==
    Separator(text, line, after.depth["brace"] > 0)

ScriptSeparator(text, white, after, line) ==
    Separator(text, line, \/ Calls(text, white, "then") \/ Calls(text, white, "catch")
                          \/ after.depth["brace"] > 0)

\* The white space that goes when a statement is complete: around the bracket of `) .`,
\* and around the name of `. name (`.
Superfluous(text, gaps) ==
    LET Is(n, chars) == n \in DOMAIN text /\ text[n] \in chars
    IN  {n \in gaps :
            \/ Is(n, {")"}) /\ Is(n + 1, {"."})
            \/ Is(n + 1, {")"}) /\ Is(n + 2, {"."})
            \/ Is(n, {"."}) /\ Is(n + 1, Names) /\ Is(n + 2, {"("})
            \/ n - 1 \in gaps /\ Is(n - 1, {"."}) /\ Is(n, Names) /\ Is(n + 1, {"("})}

Trimmed(text, white) == Without(white, {0, Len(text)})

Cleaned(text, white) ==
    LET trimmed == Trimmed(text, white)
    IN  Without(trimmed, Superfluous(text, Gaps(trimmed)))

\* What a line adds to the statement that is being read, at the prompt ...
PromptCheck(buffer, white, scan, line) ==
    LET after == Scan(scan, line)
        text == buffer \o UpToSemicolon(line)
        all == Joined(buffer, white, PromptSeparator(buffer, white, after, line), line)
        complete == HasSemicolon(line) /\ Balanced(after)
    IN  [complete |-> complete, scan |-> after, buffer |-> text,
         white |-> IF ~complete THEN all
                   ELSE IF Starts(text, "curl") \/ Starts(text, "event") THEN Trimmed(text, all)
                   ELSE Cleaned(text, all)]

\* ... and in a script.
ScriptCheck(buffer, white, scan, line) ==
    LET after == Scan(scan, line)
        text == buffer \o UpToSemicolon(line)
        all == Joined(buffer, white, ScriptSeparator(buffer, white, after, line), line)
        complete == HasSemicolon(line) /\ Balanced(after)
    IN  [complete |-> complete, scan |-> after, buffer |-> text,
         white |-> IF complete THEN Cleaned(text, all) ELSE all]
-----------------------------------------------------------------------------
(***************************************************************************)
(* parseScriptLines: the statements of a script, one line after the other. *)
(* An unfinished statement before a command, or at the end, is an error:   *)
(* what is kept of it never ends in the semicolon that would excuse it.    *)
(***************************************************************************)
ScriptStart ==
    [out |-> <<>>, buffer |-> <<>>, white |-> NoWhite, scan |-> FreshScan, error |-> FALSE]

Emit(st, text, white) ==
    [ScriptStart EXCEPT !.out = Append(st.out, [text |-> text, white |-> white])]

ScriptLine(multiline, st, line) ==
    IF st.error \/ line = <<>> \/ Starts(line, "#") THEN st
    ELSE IF Head(line) \in Commands \ {"curl"}
    THEN IF st.buffer # <<>> THEN [st EXCEPT !.error = TRUE] ELSE Emit(st, line, NoWhite)
    ELSE IF ~multiline /\ ~Starts(line, "curl") /\ ~Starts(st.buffer, "curl") THEN Emit(st, line, NoWhite)
    ELSE LET check == ScriptCheck(st.buffer, st.white, st.scan, line)
         IN  IF check.complete THEN Emit(st, check.buffer, check.white)
             ELSE [st EXCEPT !.buffer = check.buffer, !.white = check.white, !.scan = check.scan]

ReadScript(multiline, lines) ==
    LET st[n \in 0 .. Len(lines)] ==
            IF n = 0 THEN ScriptStart ELSE ScriptLine(multiline, st[n-1], lines[n])
    IN  st[Len(lines)]

ParseScript(multiline, lines) ==
    LET st == ReadScript(multiline, lines)
    IN  IF st.buffer # <<>> THEN [st EXCEPT !.error = TRUE] ELSE st
-----------------------------------------------------------------------------
(***************************************************************************)
(* What a statement is, read off the whole text: it ends at the first      *)
(* semicolon outside strings and brackets, and it has to end its line.     *)
(***************************************************************************)
Text(lines) ==
    LET text[n \in 0 .. Len(lines)] ==
            IF n = 0 THEN <<>> ELSE text[n-1] \o lines[n] \o <<" ">>
    IN  text[Len(lines)]

\* The character has an odd number of backslashes before it.
Escaped(text, n) ==
    \E m \in 1 .. n - 1 :
        /\ (n - m) % 2 = 1
        /\ \A i \in m .. n - 1 : text[i] = "\\"
        /\ m = 1 \/ text[m-1] # "\\"

\* The quote that is open after each prefix of a text, "" outside strings.
QuoteAfter(text) ==
    LET quote[n \in 0 .. Len(text)] ==
            IF n = 0 THEN ""
            ELSE LET open == quote[n-1]
                 IN  IF Escaped(text, n) THEN open
                     ELSE IF open = "" /\ text[n] \in {"'", "\""} THEN text[n]
                     ELSE IF text[n] = open THEN "" ELSE open
    IN  quote

\* The semicolons of the text that are outside strings and have as many
\* brackets of each kind opened as closed before them.
StatementEnds(text) ==
    LET quote == QuoteAfter(text)
        read == {i \in DOMAIN text : quote[i-1] = "" /\ ~Escaped(text, i)}
        Upto(ch, n) == Cardinality({i \in read : i < n /\ text[i] = ch})
    IN  {n \in read : text[n] = ";" /\ \A k \in Kinds : Upto(Opening[k], n) = Upto(Closing[k], n)}

\* The text up to its first statement's end.
StatementOf(text) ==
    SubSeq(text, 1, (CHOOSE n \in StatementEnds(text) : \A m \in StatementEnds(text) : n <= m) - 1)
=============================================================================
