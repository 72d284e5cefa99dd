------------------------------- MODULE MCRepl -------------------------------
(***************************************************************************)
(* Repl: the lines a user may type.  There are too many for one user: one  *)
(* tries brackets, strings and the arrow keys, and another writes calls    *)
(* with a body, and curl, on all keys but the arrows.                      *)
(***************************************************************************)
EXTENDS Repl

VARIABLE topic      \* what this user types

MCCommands == {"use", "curl", "event"}

MCNames == {"a", "b", "then", "catch"}

\* Brackets, quotes and backslashes over several lines, commands between.
MCStrings == {<<"a", "(">>, <<"'", ")", "'">>, <<")", ";">>, <<"b", ";">>, <<"\\", "'", ";">>,
              <<"(", "\\", " ", ")", ";">>, <<"use", "w">>, <<"curl", " ", "u">>, <<>>, <<"exit">>}

MCDrafts == {<<"c", ";">>}

\* Calls with a body, calls that are cut before and after the dot, and curl.
MCBodies == {<<"a", "(", ")">>, <<".", "then", "(", "{">>, <<".", " ", "catch", " ", "(", "{">>,
             <<"a", ".", "catch", "(", "{">>, <<"b", " ", "b">>, <<"b", ";">>,
             <<"}", ")", ";">>, <<"}", ")">>, <<";">>,
             <<"curl", " ", "u">>, <<"/", "(", ")", " ", ".", ";">>, <<"-d", " ", "'">>, <<"'", ";">>, <<>>}

Vocabulary == [strings |-> MCStrings, bodies |-> MCBodies]

MCLines == MCStrings \cup MCBodies

MCChars == {" ", ";"} \cup UNION {{line[i] : i \in DOMAIN line} : line \in MCLines \cup MCDrafts}

MCInit == Init /\ topic \in DOMAIN Vocabulary

MCNext ==
    /\ \/ topic = "strings" /\ (Up \/ Down \/ \E line \in Drafts : Type(line))
       \/ \E line \in Vocabulary[topic] \cup {rlLine} :
             SkipBlank(line) \/ Statement(line) \/ OneLine(line) \/ Command(line) \/ Exit(line)
       \/ Kill
    /\ UNCHANGED topic

MCSpec == MCInit /\ [][MCNext]_<<vars, topic>>
=============================================================================
