----------------------------- MODULE ReplProofs -----------------------------
(***************************************************************************)
(* The prompt and the script reader cut the same statements out of the     *)
(* same lines, and each is the whole of what was typed, for every set of   *)
(* lines and commands and every size of the history.                       *)
(***************************************************************************)
EXTENDS Repl, LeastNumber, SequenceTheorems, FiniteSetTheorems

-----------------------------------------------------------------------------
(***************************************************************************)
(* Induction over a sequence, with a set in place of a predicate.          *)
(***************************************************************************)
\* What holds of the empty sequence, and of a sequence with one more element
\* when it holds of that sequence, holds of them all.
LEMMA AppendInduction ==
    ASSUME NEW S, NEW T, <<>> \in T,
           \A s \in Seq(S) : \A e \in S : s \in T => Append(s, e) \in T
    PROVE  \A s \in Seq(S) : s \in T
<1> SUFFICES ASSUME NEW s \in Seq(S) PROVE s \in T
  OBVIOUS
<1> DEFINE P == {n \in 0 .. Len(s) : SubSeq(s, 1, n) \in T}
<1>1. Len(s) \in Nat
  BY LenProperties
<1>2. 0 \in P
  <2>1. SubSeq(s, 1, 0) = <<>>
    BY SubSeqEmpty
  <2>2. SubSeq(s, 1, 0) \in T
    BY <2>1, Zenon
  <2> QED
    BY <1>1, <2>2
<1>3. ASSUME NEW n \in 1 .. Len(s), n - 1 \in P PROVE n \in P
  <2>1. SubSeq(s, 1, n - 1) \in Seq(S) /\ s[n] \in S
    <3>1. \A i \in 1 .. n - 1 : s[i] \in S
      BY <1>1, ElementOfSeq
    <3> QED
      BY <1>1, <3>1, SubSeqProperties, ElementOfSeq
  <2>2. SubSeq(s, 1, n) = SubSeq(s, 1, n - 1) \o <<s[n]>>
    BY <1>1, SubSeqRecursiveSecond
  <2>3. SubSeq(s, 1, n) = Append(SubSeq(s, 1, n - 1), s[n])
    BY <2>1, <2>2, AppendIsConcat
  <2>4. SubSeq(s, 1, n) \in T
    <3>1. SubSeq(s, 1, n - 1) \in T
      BY <1>3
    <3> QED
      BY <2>1, <2>3, <3>1, Zenon
  <2> QED
    BY <1>1, <2>4
<1>4. Len(s) \in P
  <2>1. \A n \in 0 .. Len(s) : n \in P
    <3> HIDE DEF P
    <3> QED
      BY <1>1, <1>2, <1>3, NumbersUpTo
  <2> QED
    BY <1>1, <2>1
<1> QED
  BY <1>4, SubSeqFull

\* Two sequences, the first of them not empty, begin as that one does.
LEMMA ConcatStart ==
    ASSUME NEW S, NEW a \in Seq(S), NEW b \in Seq(S), a # <<>>
    PROVE  a \o b \in Seq(S) /\ a \o b # <<>> /\ (a \o b)[1] = a[1]
<1>1. Len(a) \in Nat /\ 1 <= Len(a) /\ Len(b) \in Nat
  BY EmptySeq, LenProperties
<1>2. a \o b \in Seq(S) /\ Len(a \o b) = Len(a) + Len(b) /\ (a \o b)[1] = a[1]
  BY <1>1, ConcatProperties
<1> QED
  BY <1>1, <1>2

\* An element appended to the second of two sequences is appended to both.
LEMMA ConcatAppend ==
    ASSUME NEW S, NEW a \in Seq(S), NEW b \in Seq(S), NEW e \in S
    PROVE  a \o Append(b, e) = Append(a \o b, e)
<1>1. a \o b \in Seq(S) /\ <<e>> \in Seq(S)
  OBVIOUS
<1>2. Append(b, e) = b \o <<e>> /\ Append(a \o b, e) = (a \o b) \o <<e>>
  BY <1>1, AppendIsConcat
<1> QED
  BY <1>1, <1>2, ConcatAssociative

-----------------------------------------------------------------------------
(***************************************************************************)
(* Reading a line, character by character.                                 *)
(***************************************************************************)
\* The state of the scan stays one.
LEMMA ScanCharType == \A scan \in Scans : \A ch \in Chars : ScanChar(scan, ch) \in Scans
<1> SUFFICES ASSUME NEW scan \in Scans, NEW ch \in Chars PROVE ScanChar(scan, ch) \in Scans
  OBVIOUS
<1>1. Counted(scan.depth, ch) \in [Kinds -> Int]
  <2>1. \A k \in Kinds : scan.depth[k] \in Int
    BY DEF Scans
  <2> QED
    BY <2>1 DEF Counted
<1>2. ch \in {"'", "\""} => [scan EXCEPT !.quote = ch] \in Scans
  BY DEF Scans
<1>3. [scan EXCEPT !.quote = ""] \in Scans /\ [scan EXCEPT !.escape = ~scan.escape] \in Scans
  BY DEF Scans
<1>4. [scan EXCEPT !.depth = Counted(@, ch)] \in Scans
  BY <1>1 DEF Scans
<1> QED
  BY <1>2, <1>3, <1>4 DEF ScanChar

\* The scan of a line is the last state of a run through its characters.
LEMMA ScanRuns ==
    ASSUME NEW scan \in Scans, NEW line \in Seq(Chars)
    PROVE  \E at \in [0 .. Len(line) -> Scans] :
              /\ at[0] = scan
              /\ \A n \in 1 .. Len(line) : at[n] = ScanChar(at[n - 1], line[n])
              /\ Scan(scan, line) = at[Len(line)]
<1> DEFINE k == Len(line)
           step == [n \in 1 .. k |-> [s \in Scans |-> ScanChar(s, line[n])]]
           Is(h) == h = [n \in 0 .. k |-> IF n = 0 THEN scan ELSE ScanChar(h[n - 1], line[n])]
           at == CHOOSE h : Is(h)
<1>1. k \in Nat /\ \A n \in 1 .. k : line[n] \in Chars
  BY LenProperties, ElementOfSeq
<1>2. step \in [1 .. k -> [Scans -> Scans]]
  BY <1>1, ScanCharType
<1>3. PICK f \in [0 .. k -> Scans] : f[0] = scan /\ \A n \in 1 .. k : f[n] = step[n][f[n - 1]]
  <2>1. scan \in Scans /\ k \in Nat
    BY <1>1
  <2> HIDE DEF step, k
  <2>2. Runs(Scans, scan, step, k) # {}
    BY <1>2, <2>1, RunExists
  <2> QED
    BY <2>2 DEF Runs
<1>4. \A n \in 1 .. k : f[n] = ScanChar(f[n - 1], line[n])
  <2> SUFFICES ASSUME NEW n \in 1 .. k PROVE f[n] = ScanChar(f[n - 1], line[n])
    OBVIOUS
  <2>1. n - 1 \in 0 .. k
    BY <1>1
  <2>2. f[n - 1] \in Scans
    BY <1>3, <2>1
  <2> QED
    BY <1>3, <2>2
<1>5. Is(f)
  <2>1. \A n \in 0 .. k : f[n] = IF n = 0 THEN scan ELSE ScanChar(f[n - 1], line[n])
    BY <1>1, <1>3, <1>4
  <2>2. f = [n \in 0 .. k |-> f[n]]
    BY <1>3
  <2> QED
    BY <2>1, <2>2
<1>6. Is(at)
  <2> HIDE DEF Is
  <2> QED
    BY <1>5, Zenon
<1>7. at[0] = scan /\ \A n \in 1 .. k : at[n] = ScanChar(at[n - 1], line[n])
  <2> HIDE DEF at
  <2> QED
    BY <1>1, <1>6
<1>8. at = f
  <2>1. \A n \in 0 .. k : f[n] = at[n]
    <3>1. k \in Nat /\ f[0] = at[0]
      BY <1>1, <1>3, <1>7
    <3>2. \A n \in 1 .. k : f[n - 1] = at[n - 1] => f[n] = at[n]
      BY <1>4, <1>7
    <3> HIDE DEF at, k
    <3>3. Alike(f, at, k)
      BY ONLY <3>1, <3>2, StepsAgree
    <3> QED
      BY <3>3 DEF Alike
  <2>2. at = [n \in 0 .. k |-> at[n]]
    <3> HIDE DEF at
    <3> QED
      BY <1>6
  <2> HIDE DEF at
  <2> QED
    BY <1>3, <2>1, <2>2
<1>9. Scan(scan, line) = at[k]
  BY DEF Scan
<1> HIDE DEF at
<1> QED
  BY <1>3, <1>4, <1>8, <1>9

\* The scan of no characters changes nothing; that of a line ends with what
\* its last character does.
LEMMA ScanSteps ==
    ASSUME NEW scan \in Scans
    PROVE  /\ Scan(scan, <<>>) = scan
           /\ \A line \in Seq(Chars) :
                /\ Scan(scan, line) \in Scans
                /\ \A ch \in Chars : Scan(scan, Append(line, ch)) = ScanChar(Scan(scan, line), ch)
<1>1. Scan(scan, <<>>) = scan
  <2>1. PICK none : none = <<>>
    OBVIOUS
  <2>2. none \in Seq(Chars) /\ Len(none) = 0
    BY <2>1
  <2>3. PICK at \in [0 .. Len(none) -> Scans] : at[0] = scan /\ Scan(scan, none) = at[Len(none)]
    BY <2>2, ScanRuns
  <2>4. Scan(scan, none) = scan
    BY <2>2, <2>3
  <2> QED
    BY <2>1, <2>4, Zenon
<1>2. ASSUME NEW line \in Seq(Chars)
      PROVE  /\ Scan(scan, line) \in Scans
             /\ \A ch \in Chars : Scan(scan, Append(line, ch)) = ScanChar(Scan(scan, line), ch)
  <2> DEFINE k == Len(line)
  <2>1. k \in Nat
    OBVIOUS
  <2>2. PICK at \in [0 .. k -> Scans] :
           /\ at[0] = scan
           /\ \A n \in 1 .. k : at[n] = ScanChar(at[n - 1], line[n])
           /\ Scan(scan, line) = at[k]
    BY ScanRuns
  <2>3. Scan(scan, line) \in Scans
    BY <2>1, <2>2
  <2>4. ASSUME NEW ch \in Chars
        PROVE  Scan(scan, Append(line, ch)) = ScanChar(Scan(scan, line), ch)
    <3> DEFINE more == Append(line, ch)
    <3>1. /\ more \in Seq(Chars) /\ Len(more) = k + 1 /\ more[k + 1] = ch
          /\ \A n \in 1 .. k : more[n] = line[n]
      OBVIOUS
    <3> HIDE DEF more, k
    <3>2. PICK to \in [0 .. k + 1 -> Scans] :
             /\ to[0] = scan
             /\ \A n \in 1 .. k + 1 : to[n] = ScanChar(to[n - 1], more[n])
             /\ Scan(scan, more) = to[k + 1]
      BY <3>1, ScanRuns
    <3>3. \A n \in 1 .. k : at[n - 1] = to[n - 1] => at[n] = to[n]
      BY <2>1, <2>2, <3>1, <3>2
    <3>4. at[0] = to[0]
      BY <2>2, <3>2
    <3>5. at[k] = to[k]
      <4>1. \A n \in 0 .. k : at[n] = to[n]
        <5>1. Alike(at, to, k)
          BY <2>1, <3>3, <3>4, StepsAgree
        <5> QED
          BY <5>1 DEF Alike
      <4> QED
        BY <2>1, <4>1
    <3>6. to[k + 1] = ScanChar(to[k], ch)
      BY <2>1, <3>1, <3>2
    <3> QED
      BY <2>2, <3>2, <3>5, <3>6 DEF more, k
  <2> QED
    BY <2>3, <2>4
<1> QED
  BY <1>1, <1>2

\* To scan two lines is to scan one after the other.
LEMMA ScanConcat ==
    ASSUME NEW scan \in Scans, NEW a \in Seq(Chars), NEW b \in Seq(Chars)
    PROVE  Scan(scan, a \o b) = Scan(Scan(scan, a), b)
<1> DEFINE T == {c \in Seq(Chars) : Scan(scan, a \o c) = Scan(Scan(scan, a), c)}
<1>1. <<>> \in T
  <2>1. <<>> \in Seq(Chars) /\ a \o <<>> = a
    BY ConcatEmptySeq
  <2> QED
    BY <2>1, ScanSteps
<1>2. ASSUME NEW c \in Seq(Chars), NEW ch \in Chars, c \in T PROVE Append(c, ch) \in T
  <2>1. a \o Append(c, ch) = Append(a \o c, ch)
    <3> HIDE DEF T
    <3> QED
      BY ConcatAppend
  <2>2. a \o c \in Seq(Chars) /\ Append(c, ch) \in Seq(Chars)
    <3> HIDE DEF T
    <3> QED
      BY ConcatProperties, AppendProperties
  <2>5. Scan(scan, a) \in Scans
    BY ScanSteps
  <2>3. Scan(scan, Append(a \o c, ch)) = ScanChar(Scan(scan, a \o c), ch)
    BY <2>2, ScanSteps
  <2>4. Scan(Scan(scan, a), Append(c, ch)) = ScanChar(Scan(Scan(scan, a), c), ch)
    BY <2>2, ScanSteps
  <2> QED
    BY <1>2, <2>1, <2>2, <2>3, <2>4
<1> HIDE DEF T
<1>3. \A c \in Seq(Chars) : c \in T
  BY <1>1, <1>2, AppendInduction
<1> QED
  BY <1>3 DEF T

\* What a character adds to what is kept of a text.
Kept(text, ch) == IF ch \in {" ", ";"} THEN text ELSE Append(text, ch)

\* What is kept stays a text.
LEMMA KeptType == \A text \in Seq(Chars) : \A ch \in Chars : Kept(text, ch) \in Seq(Chars)
<1> SUFFICES ASSUME NEW text \in Seq(Chars), NEW ch \in Chars PROVE Kept(text, ch) \in Seq(Chars)
  OBVIOUS
<1> QED
  BY AppendProperties DEF Kept

\* What is kept of a text is the last state of a run through its characters.
LEMMA BareRuns ==
    ASSUME NEW text \in Seq(Chars)
    PROVE  \E at \in [0 .. Len(text) -> Seq(Chars)] :
              /\ at[0] = <<>>
              /\ \A n \in 1 .. Len(text) : at[n] = Kept(at[n - 1], text[n])
              /\ Bare(text) = at[Len(text)]
<1> DEFINE k == Len(text)
           step == [n \in 1 .. k |-> [s \in Seq(Chars) |-> Kept(s, text[n])]]
           Is(h) == h = [n \in 0 .. k |-> IF n = 0 THEN <<>> ELSE Kept(h[n - 1], text[n])]
           at == CHOOSE h : Is(h)
<1>1. k \in Nat /\ \A n \in 1 .. k : text[n] \in Chars
  BY LenProperties, ElementOfSeq
<1>2. step \in [1 .. k -> [Seq(Chars) -> Seq(Chars)]]
  BY <1>1, KeptType
<1>3. PICK f \in [0 .. k -> Seq(Chars)] : f[0] = <<>> /\ \A n \in 1 .. k : f[n] = step[n][f[n - 1]]
  <2>1. <<>> \in Seq(Chars) /\ k \in Nat
    BY <1>1
  <2> HIDE DEF step, k
  <2>2. Runs(Seq(Chars), <<>>, step, k) # {}
    BY <1>2, <2>1, RunExists
  <2> QED
    BY <2>2 DEF Runs
<1>4. \A n \in 1 .. k : f[n] = Kept(f[n - 1], text[n])
  <2> SUFFICES ASSUME NEW n \in 1 .. k PROVE f[n] = Kept(f[n - 1], text[n])
    OBVIOUS
  <2>1. n - 1 \in 0 .. k
    BY <1>1
  <2>2. f[n - 1] \in Seq(Chars)
    BY <1>3, <2>1
  <2>3. step[n][f[n - 1]] = Kept(f[n - 1], text[n])
    BY <2>2
  <2> HIDE DEF step
  <2> QED
    BY <1>3, <2>3
<1>5. Is(f)
  <2>1. \A n \in 0 .. k : f[n] = IF n = 0 THEN <<>> ELSE Kept(f[n - 1], text[n])
    BY <1>1, <1>3, <1>4
  <2>2. f = [n \in 0 .. k |-> f[n]]
    BY <1>3
  <2> QED
    BY <2>1, <2>2
<1>6. Is(at)
  <2> HIDE DEF Is
  <2> QED
    BY <1>5, Zenon
<1>7. at[0] = <<>> /\ \A n \in 1 .. k : at[n] = Kept(at[n - 1], text[n])
  <2> HIDE DEF at
  <2> QED
    BY <1>1, <1>6
<1>8. at = f
  <2>1. \A n \in 0 .. k : f[n] = at[n]
    <3>1. k \in Nat /\ f[0] = at[0]
      BY <1>1, <1>3, <1>7
    <3>2. \A n \in 1 .. k : f[n - 1] = at[n - 1] => f[n] = at[n]
      BY <1>4, <1>7
    <3> HIDE DEF at, k
    <3>3. Alike(f, at, k)
      BY ONLY <3>1, <3>2, StepsAgree
    <3> QED
      BY <3>3 DEF Alike
  <2>2. at = [n \in 0 .. k |-> at[n]]
    <3> HIDE DEF at
    <3> QED
      BY <1>6
  <2> HIDE DEF at
  <2> QED
    BY <1>3, <2>1, <2>2
<1>9. Bare(text) = at[k]
  BY DEF Bare, Kept
<1> HIDE DEF at
<1> QED
  BY <1>3, <1>4, <1>8, <1>9

\* Nothing is kept of no text; one more character is kept if it is to be.
LEMMA BareSteps ==
    /\ Bare(<<>>) = <<>>
           /\ \A s \in Seq(Chars) :
                /\ Bare(s) \in Seq(Chars)
                /\ \A e \in Chars : Bare(Append(s, e)) = Kept(Bare(s), e)
<1>1. Bare(<<>>) = <<>>
  <2>1. PICK none : none = <<>>
    OBVIOUS
  <2>2. none \in Seq(Chars) /\ Len(none) = 0
    BY <2>1
  <2>3. PICK at \in [0 .. Len(none) -> Seq(Chars)] : at[0] = <<>> /\ Bare(none) = at[Len(none)]
    BY <2>2, BareRuns
  <2>4. Bare(none) = <<>>
    BY <2>2, <2>3
  <2> QED
    BY <2>1, <2>4, Zenon
<1>2. ASSUME NEW s \in Seq(Chars)
      PROVE  /\ Bare(s) \in Seq(Chars)
             /\ \A e \in Chars : Bare(Append(s, e)) = Kept(Bare(s), e)
  <2> DEFINE k == Len(s)
  <2>1. k \in Nat
    OBVIOUS
  <2>2. PICK at \in [0 .. k -> Seq(Chars)] :
           /\ at[0] = <<>>
           /\ \A n \in 1 .. k : at[n] = Kept(at[n - 1], s[n])
           /\ Bare(s) = at[k]
    BY BareRuns
  <2>3. Bare(s) \in Seq(Chars)
    BY <2>1, <2>2
  <2>4. ASSUME NEW e \in Chars
        PROVE  Bare(Append(s, e)) = Kept(Bare(s), e)
    <3> DEFINE more == Append(s, e)
    <3>1. /\ more \in Seq(Chars) /\ Len(more) = k + 1 /\ more[k + 1] = e
          /\ \A n \in 1 .. k : more[n] = s[n]
      OBVIOUS
    <3> HIDE DEF more, k
    <3>2. PICK to \in [0 .. k + 1 -> Seq(Chars)] :
             /\ to[0] = <<>>
             /\ \A n \in 1 .. k + 1 : to[n] = Kept(to[n - 1], more[n])
             /\ Bare(more) = to[k + 1]
      BY <3>1, BareRuns
    <3>3. \A n \in 1 .. k : at[n - 1] = to[n - 1] => at[n] = to[n]
      BY <2>1, <2>2, <3>1, <3>2
    <3>4. at[0] = to[0]
      BY <2>2, <3>2
    <3>5. Alike(at, to, k)
      BY <2>1, <3>3, <3>4, StepsAgree
    <3>6. at[k] = to[k]
      BY <2>1, <3>5 DEF Alike
    <3>7. to[k + 1] = Kept(to[k], e)
      BY <2>1, <3>1, <3>2
    <3> QED
      BY <2>2, <3>2, <3>6, <3>7 DEF more, k
  <2> QED
    BY <2>3, <2>4
<1> QED
  BY <1>1, <1>2

\* What is kept of two texts is what is kept of one after the other.
LEMMA BareConcat ==
    ASSUME NEW a \in Seq(Chars), NEW b \in Seq(Chars) PROVE Bare(a \o b) = Bare(a) \o Bare(b)
<1> DEFINE T == {c \in Seq(Chars) : Bare(a \o c) = Bare(a) \o Bare(c)}
<1>1. Bare(a) \in Seq(Chars)
  BY BareSteps
<1>2. <<>> \in T
  <2>1. <<>> \in Seq(Chars) /\ a \o <<>> = a /\ Bare(a) \o <<>> = Bare(a)
    BY <1>1, ConcatEmptySeq
  <2> QED
    BY <2>1, BareSteps
<1>3. ASSUME NEW c \in Seq(Chars), NEW ch \in Chars, c \in T PROVE Append(c, ch) \in T
  <2>1. a \o Append(c, ch) = Append(a \o c, ch)
    <3> HIDE DEF T
    <3> QED
      BY ConcatAppend
  <2>2. a \o c \in Seq(Chars) /\ Append(c, ch) \in Seq(Chars)
    <3> HIDE DEF T
    <3> QED
      BY ConcatProperties, AppendProperties
  <2>3. Bare(Append(a \o c, ch)) = Kept(Bare(a \o c), ch)
    BY <2>2, BareSteps
  <2>4. Bare(Append(c, ch)) = Kept(Bare(c), ch) /\ Bare(c) \in Seq(Chars)
    BY BareSteps
  <2>5. Kept(Bare(a) \o Bare(c), ch) = Bare(a) \o Kept(Bare(c), ch)
    <3>1. Bare(a) \o Append(Bare(c), ch) = Append(Bare(a) \o Bare(c), ch)
      BY <1>1, <2>4, ConcatAppend
    <3> QED
      BY <3>1 DEF Kept
  <2> QED
    BY <1>3, <2>1, <2>2, <2>3, <2>4, <2>5
<1> HIDE DEF T
<1>4. \A c \in Seq(Chars) : c \in T
  BY <1>2, <1>3, AppendInduction
<1> QED
  BY <1>4 DEF T

\* The texts that do not begin with a blank.
Headed == {text \in Seq(Chars) : text # <<>> => text[1] # " "}

\* The empty line begins with no blank.
LEMMA HeadedNil == <<>> \in Headed
<1>1. PICK none : none = <<>>
  OBVIOUS
<1>2. none \in Headed
  BY <1>1 DEF Headed
<1> QED
  BY <1>1, <1>2, Zenon

\* What is kept of a text begins with no blank, and with what the text begins
\* with if that is neither a blank nor a semicolon.
LEMMA BareHeaded ==
    \A text \in Seq(Chars) :
        /\ Bare(text) \in Headed
        /\ text # <<>> /\ text[1] \notin {" ", ";"} => Bare(text) # <<>> /\ Bare(text)[1] = text[1]
<1> DEFINE Good(text) == /\ Bare(text) \in Headed
                         /\ text # <<>> /\ text[1] \notin {" ", ";"}
                              => Bare(text) # <<>> /\ Bare(text)[1] = text[1]
           T == {text \in Seq(Chars) : Good(text)}
<1>1. <<>> \in T
  <2>1. PICK none : none = <<>>
    OBVIOUS
  <2>2. none \in Headed
    BY <2>1 DEF Headed
  <2>3. Bare(<<>>) = <<>>
    BY BareSteps
  <2>4. none \in Seq(Chars) /\ Bare(none) = none
    BY <2>1, <2>3, Zenon, EmptySeq
  <2>5. none \in T
    BY <2>1, <2>2, <2>4
  <2> QED
    BY <2>1, <2>5, Zenon
<1>2. ASSUME NEW s \in Seq(Chars), NEW ch \in Chars, s \in T PROVE Append(s, ch) \in T
  <2>1. Bare(Append(s, ch)) = Kept(Bare(s), ch) /\ Bare(s) \in Seq(Chars)
    BY BareSteps
  <2>2. Append(s, ch) \in Seq(Chars) /\ Append(s, ch)[1] = IF s = <<>> THEN ch ELSE s[1]
    BY AppendProperties
  <2>3. Kept(Bare(s), ch) \in Headed
    <3>1. Append(Bare(s), ch) \in Seq(Chars)
      BY <2>1, AppendProperties
    <3>2. Append(Bare(s), ch)[1] = IF Bare(s) = <<>> THEN ch ELSE Bare(s)[1]
      BY <2>1, AppendProperties
    <3> QED
      BY <1>2, <3>1, <3>2 DEF Kept, Headed
  <2>4. ASSUME Append(s, ch)[1] \notin {" ", ";"}
        PROVE  Kept(Bare(s), ch) # <<>> /\ Kept(Bare(s), ch)[1] = Append(s, ch)[1]
    <3>1. CASE s = <<>>
      <4>1. Kept(Bare(s), ch) = Append(Bare(s), ch)
        BY <2>2, <2>4, <3>1, Zenon DEF Kept
      <4>2. PICK none : none = <<>>
        OBVIOUS
      <4>3. Bare(s) = none
        BY <3>1, <4>2, BareSteps, Zenon
      <4>4. Append(Bare(s), ch) # <<>> /\ Append(none, ch)[1] = ch
        BY <2>1, <4>2, <4>3, AppendProperties
      <4> QED
        BY <2>2, <3>1, <4>1, <4>3, <4>4, Zenon
    <3>2. CASE s # <<>>
      <4>1. Bare(s) # <<>> /\ Bare(s)[1] = s[1]
        BY <1>2, <2>2, <2>4, <3>2
      <4>2. Append(Bare(s), ch) # <<>> /\ Append(Bare(s), ch)[1] = Bare(s)[1]
        BY <2>1, <4>1, AppendProperties
      <4> QED
        BY <2>2, <3>2, <4>1, <4>2, Zenon DEF Kept
    <3> QED
      BY <3>1, <3>2
  <2> QED
    BY <2>1, <2>2, <2>3, <2>4
<1> HIDE DEF T
<1>3. \A s \in Seq(Chars) : s \in T
  BY <1>1, <1>2, AppendInduction
<1> QED
  BY <1>3 DEF T

\* The place of the first semicolon of a line, 0 when it has none.
LEMMA FirstSemicolon ==
    ASSUME NEW line \in Seq(Chars)
    PROVE  LET i == SelectInSeq(line, LAMBDA ch : ch = ";")
           IN  IF HasSemicolon(line)
               THEN /\ i \in 1 .. Len(line) /\ line[i] = ";"
                    /\ \A j \in 1 .. Len(line) : line[j] = ";" => i <= j
               ELSE i = 0
<1> DEFINE I == {i \in 1 .. Len(line) : line[i] = ";"}
<1>1. SelectInSeq(line, LAMBDA ch : ch = ";") = IF I # {} THEN Min(I) ELSE 0
  BY DEF SelectInSeq
<1>2. HasSemicolon(line) <=> I # {}
  BY DEF HasSemicolon, Contains
<1>3. ASSUME I # {} PROVE Min(I) \in I /\ \A j \in I : Min(I) <= j
  <2>1. I \subseteq Nat
    <3>1. \A j \in 1 .. Len(line) : j \in Nat
      BY LenProperties
    <3> QED
      BY <3>1, Zenon
  <2> HIDE DEF I
  <2>2. \E x \in I : \A y \in I : x <= y
    BY <1>3, <2>1, Least
  <2> QED
    BY <2>2, Zenon DEF Min
<1>4. CASE I = {}
  BY <1>1, <1>2, <1>4
<1>5. CASE I # {}
  <2>1. PICK m : m = Min(I)
    OBVIOUS
  <2>2. m \in 1 .. Len(line) /\ line[m] = ";" /\ \A j \in 1 .. Len(line) : line[j] = ";" => m <= j
    BY <1>3, <1>5, <2>1
  <2>3. SelectInSeq(line, LAMBDA ch : ch = ";") = m
    BY <1>1, <1>5, <2>1
  <2> QED
    BY <1>2, <1>5, <2>2, <2>3
<1> QED
  BY <1>4, <1>5

\* A line up to its first semicolon begins with no blank.  It is nothing when
\* the line begins with that semicolon, and begins as the line does otherwise.
LEMMA UpToHeaded ==
    ASSUME NEW line \in Seq(Chars)
    PROVE  /\ UpToSemicolon(line) \in Headed
           /\ line # <<>> /\ line[1] \notin {" ", ";"}
                => UpToSemicolon(line) # <<>> /\ UpToSemicolon(line)[1] = line[1]
           /\ line = <<>> \/ line[1] = ";" => UpToSemicolon(line) = <<>>
<1>1. PICK i : i = SelectInSeq(line, LAMBDA ch : ch = ";")
  OBVIOUS
<1>2. i = 0 \/ (i \in 1 .. Len(line) /\ line[i] = ";" /\ HasSemicolon(line))
  <2>1. CASE HasSemicolon(line)
    BY <1>1, <2>1, FirstSemicolon
  <2>2. CASE ~HasSemicolon(line)
    BY <1>1, <2>2, FirstSemicolon
  <2> QED
    BY <2>1, <2>2
<1>3. PICK part : part = IF i = 0 THEN line ELSE SubSeq(line, 1, i - 1)
  OBVIOUS
<1>4. UpToSemicolon(line) = Bare(part)
  BY <1>1, <1>3 DEF UpToSemicolon, Cut
<1>5. part \in Seq(Chars)
  <2>1. CASE i # 0
    <3>1. i \in 1 .. Len(line) /\ Len(line) \in Nat
      BY <1>2, <2>1, LenProperties
    <3>2. \A j \in 1 .. i - 1 : line[j] \in Chars
      BY <3>1, ElementOfSeq
    <3> QED
      BY <1>3, <2>1, <3>1, <3>2, SubSeqProperties
  <2> QED
    BY <1>3, <2>1
<1>6. ASSUME line # <<>>, line[1] \notin {" ", ";"} PROVE part # <<>> /\ part[1] = line[1]
  <2>1. CASE i = 0
    BY <1>3, <1>6, <2>1
  <2>2. CASE i # 0
    <3>0. line[i] = ";" /\ i # 1
      BY <1>2, <1>6, <2>2, Zenon
    <3>1. i \in 1 .. Len(line) /\ Len(line) \in Nat
      BY <1>2, <2>2, LenProperties
    <3>2. i - 1 >= 1
      <4>1. i # 1
        BY <3>0
      <4> QED
        BY ONLY <3>1, <4>1
    <3>3. \A j \in 1 .. i - 1 : line[j] \in Chars
      BY <3>1, ElementOfSeq
    <3>4. Len(part) = i - 1 /\ part[1] = line[1]
      BY <1>3, <2>2, <3>1, <3>2, <3>3, SubSeqProperties
    <3> QED
      BY <3>2, <3>4
  <2> QED
    BY <2>1, <2>2
<1>7. ASSUME line = <<>> \/ line[1] = ";" PROVE part = <<>>
  <2>1. CASE line = <<>>
    <3>1. i = 0
      <4>1. ~HasSemicolon(line)
        BY <2>1 DEF HasSemicolon, Contains
      <4> QED
        BY <1>2, <4>1
    <3> QED
      BY <1>3, <2>1, <3>1
  <2>2. CASE line # <<>> /\ line[1] = ";"
    <3>1. Len(line) \in Nat \ {0} /\ DOMAIN line = 1 .. Len(line)
      BY <2>2, LenProperties, EmptySeq, Zenon
    <3>2. 1 \in 1 .. Len(line)
      BY ONLY <3>1
    <3>3. HasSemicolon(line)
      BY <2>2, <3>1, <3>2, Zenon DEF HasSemicolon, Contains
    <3>4. i \in 1 .. Len(line) /\ i <= 1
      <4>1. /\ i \in 1 .. Len(line)
            /\ \A j \in 1 .. Len(line) : line[j] = ";" => i <= j
        BY <1>1, <3>3, FirstSemicolon
      <4> QED
        BY <2>2, <3>2, <4>1, Zenon
    <3>5. i = 1
      BY ONLY <3>1, <3>4
    <3>6. Len(SubSeq(line, 1, 0)) = 0 /\ SubSeq(line, 1, 0) \in Seq(Chars)
      BY SubSeqProperties
    <3>7. SubSeq(line, 1, 0) = <<>>
      BY <3>6, EmptySeq
    <3>8. i - 1 = 0 /\ i # 0
      BY ONLY <3>5
    <3> QED
      BY <1>3, <3>7, <3>8
  <2> QED
    BY <1>7, <2>1, <2>2
<1> QED
  BY <1>4, <1>5, <1>6, <1>7, BareHeaded, BareSteps

\* What a line adds to a text, which begins with no blank if that does not.
LEMMA MoreText ==
    ASSUME NEW buffer \in Seq(Chars), NEW line \in Seq(Chars)
    PROVE  /\ UpToSemicolon(line) \in Seq(Chars)
           /\ buffer \o UpToSemicolon(line) \in Seq(Chars)
           /\ buffer \in Headed => buffer \o UpToSemicolon(line) \in Headed
<1>2. PICK more : more = UpToSemicolon(line)
  OBVIOUS
<1>3. more \in Seq(Chars)
  BY <1>2, UpToHeaded DEF Headed
<1>6. more # <<>> => more[1] # " "
  BY <1>2, UpToHeaded DEF Headed
<1>4. buffer \o more \in Seq(Chars)
  BY <1>3, ConcatProperties
<1>5. ASSUME buffer \in Headed PROVE buffer \o more \in Headed
  <2>1. CASE buffer = <<>>
    BY <1>3, <1>6, <2>1, ConcatEmptySeq DEF Headed
  <2>2. CASE buffer # <<>>
    <3>2. (buffer \o more)[1] = buffer[1]
      BY <1>3, <2>2, ConcatStart
    <3>3. buffer[1] # " "
      BY <1>5, <2>2 DEF Headed
    <3> QED
      BY <1>4, <3>2, <3>3 DEF Headed
  <2> QED
    BY <2>1, <2>2
<1> QED
  BY <1>2, <1>3, <1>4, <1>5

\* The blanks of a line are after some number of what is kept of it.
LEMMA InsideType == \A line \in Seq(Chars) : BlanksOf(line) \subseteq Nat /\ Inside(line) \subseteq Nat
<1>1. ASSUME NEW line \in Seq(Chars) PROVE BlanksOf(line) \subseteq Nat
  <2>1. ASSUME NEW i \in DOMAIN line PROVE Len(Bare(SubSeq(line, 1, i))) \in Nat
    <3>1. i \in 1 .. Len(line) /\ Len(line) \in Nat
      BY <2>1, LenProperties
    <3>2. \A j \in 1 .. i : line[j] \in Chars
      BY <3>1, ElementOfSeq
    <3>3. SubSeq(line, 1, i) \in Seq(Chars)
      BY <3>1, <3>2, SubSeqProperties
    <3>4. Bare(SubSeq(line, 1, i)) \in Seq(Chars)
      BY <3>3, BareSteps
    <3> QED
      BY <3>4, LenProperties
  <2> QED
    BY <2>1, Zenon DEF BlanksOf
<1>2. ASSUME NEW line \in Seq(Chars) PROVE Cut(line) \in Seq(Chars)
  <2>1. PICK i : i = SelectInSeq(line, LAMBDA ch : ch = ";")
    OBVIOUS
  <2>2. i = 0 \/ i \in 1 .. Len(line)
    <3>1. CASE HasSemicolon(line)
      BY <2>1, <3>1, FirstSemicolon
    <3>2. CASE ~HasSemicolon(line)
      BY <2>1, <3>2, FirstSemicolon
    <3> QED
      BY <3>1, <3>2
  <2>3. CASE i = 0
    BY <2>1, <2>3 DEF Cut
  <2>4. CASE i # 0
    <3>1. i \in 1 .. Len(line) /\ Len(line) \in Nat
      BY <2>2, <2>4, LenProperties
    <3>2. \A j \in 1 .. i - 1 : line[j] \in Chars
      BY <3>1, ElementOfSeq
    <3>3. SubSeq(line, 1, i - 1) \in Seq(Chars)
      BY <3>1, <3>2, SubSeqProperties
    <3> QED
      BY <2>1, <2>4, <3>3 DEF Cut
  <2> QED
    BY <2>3, <2>4
<1> QED
  BY <1>1, <1>2 DEF Inside

\* White space is after numbers of elements, also where lines are joined ...
LEMMA JoinedType ==
    ASSUME NEW text \in Seq(Chars), NEW white \in Whites, NEW separator, NEW line \in Seq(Chars)
    PROVE  Joined(text, white, separator, line) \in Whites
<1>1. Len(text) \in Nat /\ Inside(line) \subseteq Nat
  BY InsideType, LenProperties
<1>2. \A k \in Inside(line) : Len(text) + k \in Nat
  BY <1>1
<1>3. white.blanks \subseteq Nat /\ white.newlines \subseteq Nat
  BY DEF Whites
<1>4. PICK newlines : newlines = white.newlines \cup {n \in {Len(text)} : separator = "newline"}
  OBVIOUS
<1>5. PICK blanks : blanks = white.blanks \cup {n \in {Len(text)} : separator = "blank"}
                                          \cup {Len(text) + k : k \in Inside(line)}
  OBVIOUS
<1>6. newlines \subseteq Nat
  BY <1>1, <1>3, <1>4
<1>7. blanks \subseteq Nat
  BY <1>1, <1>2, <1>3, <1>5
<1>8. Joined(text, white, separator, line) = [blanks |-> blanks \ newlines, newlines |-> newlines]
  BY <1>4, <1>5 DEF Joined
<1> QED
  BY <1>6, <1>7, <1>8 DEF Whites

\* ... and where some of it is taken out.
LEMMA WithoutType == \A white \in Whites : \A gaps : Without(white, gaps) \in Whites
BY DEF Without, Whites

\* A text that is trimmed or cleaned has white space.
LEMMA CleanedType ==
    \A text : \A white \in Whites : Trimmed(text, white) \in Whites /\ Cleaned(text, white) \in Whites
BY WithoutType DEF Trimmed, Cleaned

\* What a line adds to a statement is a text, its white space, and a state of
\* the scan: at the prompt ...
LEMMA CheckType ==
    ASSUME NEW buffer \in Seq(Chars), NEW white \in Whites, NEW scan \in Scans, NEW line \in Seq(Chars)
    PROVE  LET check == PromptCheck(buffer, white, scan, line)
           IN  /\ check.complete = (HasSemicolon(line) /\ Balanced(Scan(scan, line)))
               /\ check.scan = Scan(scan, line)
               /\ check.buffer = buffer \o UpToSemicolon(line)
               /\ check.scan \in Scans
               /\ check.buffer \in Seq(Chars)
               /\ check.white \in Whites
               /\ buffer \in Headed => check.buffer \in Headed
<1>1. Scan(scan, line) \in Scans
  BY ScanSteps
<1>2. PICK all : all = Joined(buffer, white, PromptSeparator(buffer, white, Scan(scan, line), line), line)
  OBVIOUS
<1>3. all \in Whites
  BY <1>2, JoinedType
<1>4. PICK text : text = buffer \o UpToSemicolon(line)
  OBVIOUS
<1>5. Trimmed(text, all) \in Whites /\ Cleaned(text, all) \in Whites
  BY <1>3, CleanedType
<1>6. PICK check : check = PromptCheck(buffer, white, scan, line)
  OBVIOUS
<1>7. /\ check.complete = (HasSemicolon(line) /\ Balanced(Scan(scan, line)))
      /\ check.scan = Scan(scan, line) /\ check.buffer = text
      /\ check.white \in {all, Trimmed(text, all), Cleaned(text, all)}
  BY <1>2, <1>4, <1>6 DEF PromptCheck
<1>8. check.white \in Whites
  BY <1>3, <1>5, <1>7
<1> QED
  BY <1>1, <1>4, <1>6, <1>7, <1>8, MoreText

\* ... and in a script.
LEMMA ScriptCheckType ==
    ASSUME NEW buffer \in Seq(Chars), NEW white \in Whites, NEW scan \in Scans, NEW line \in Seq(Chars)
    PROVE  LET check == ScriptCheck(buffer, white, scan, line)
           IN  /\ check.complete = (HasSemicolon(line) /\ Balanced(Scan(scan, line)))
               /\ check.scan = Scan(scan, line)
               /\ check.buffer = buffer \o UpToSemicolon(line)
               /\ check.scan \in Scans
               /\ check.buffer \in Seq(Chars)
               /\ check.white \in Whites
<1>1. Scan(scan, line) \in Scans
  BY ScanSteps
<1>2. PICK all : all = Joined(buffer, white, ScriptSeparator(buffer, white, Scan(scan, line), line), line)
  OBVIOUS
<1>3. all \in Whites
  BY <1>2, JoinedType
<1>4. PICK text : text = buffer \o UpToSemicolon(line)
  OBVIOUS
<1>5. Cleaned(text, all) \in Whites
  BY <1>3, CleanedType
<1>6. PICK check : check = ScriptCheck(buffer, white, scan, line)
  OBVIOUS
<1>7. /\ check.complete = (HasSemicolon(line) /\ Balanced(Scan(scan, line)))
      /\ check.scan = Scan(scan, line) /\ check.buffer = text
      /\ check.white \in {all, Cleaned(text, all)}
  BY <1>2, <1>4, <1>6 DEF ScriptCheck
<1>8. check.white \in Whites
  BY <1>3, <1>5, <1>7
<1> QED
  BY <1>1, <1>4, <1>6, <1>7, <1>8, MoreText

-----------------------------------------------------------------------------
(***************************************************************************)
(* Reading a script, line by line.                                         *)
(***************************************************************************)
Texts == [text : Seq(Chars), white : Whites]
ScriptStates ==
    [out : Seq(Texts), buffer : Seq(Chars), white : Whites, scan : Scans, error : BOOLEAN]

\* The scan at the beginning, and the parser after a statement, are of their types.
LEMMA FreshScanType == FreshScan \in Scans
BY DEF FreshScan, Scans, Kinds, Opening

LEMMA NoWhiteType == NoWhite \in Whites
BY DEF NoWhite, Whites

LEMMA StartType == ScriptStart \in ScriptStates
<1>1. <<>> \in Seq(Texts) /\ <<>> \in Seq(Chars)
  BY EmptySeq
<1> QED
  BY <1>1, FreshScanType, NoWhiteType DEF ScriptStart, ScriptStates

LEMMA EmitType ==
    ASSUME NEW st \in ScriptStates, NEW text \in Seq(Chars), NEW white \in Whites
    PROVE  Emit(st, text, white) \in ScriptStates
<1>1. Append(st.out, [text |-> text, white |-> white]) \in Seq(Texts)
  BY AppendProperties DEF ScriptStates, Texts
<1> QED
  BY <1>1, StartType DEF Emit, ScriptStates

\* The state of the script reader stays one.
LEMMA ScriptLineType ==
    \A m : \A st \in ScriptStates : \A line \in Seq(Chars) : ScriptLine(m, st, line) \in ScriptStates
<1> SUFFICES ASSUME NEW m, NEW st \in ScriptStates, NEW line \in Seq(Chars)
             PROVE  ScriptLine(m, st, line) \in ScriptStates
  OBVIOUS
<1>1. PICK check : check = ScriptCheck(st.buffer, st.white, st.scan, line)
  OBVIOUS
<1>2. check.scan \in Scans /\ check.buffer \in Seq(Chars) /\ check.white \in Whites
  <2>1. st.buffer \in Seq(Chars) /\ st.scan \in Scans /\ st.white \in Whites
    BY DEF ScriptStates
  <2> QED
    BY <1>1, <2>1, ScriptCheckType
<1>3. [st EXCEPT !.error = TRUE] \in ScriptStates
  BY DEF ScriptStates
<1>4. [st EXCEPT !.buffer = check.buffer, !.white = check.white, !.scan = check.scan] \in ScriptStates
  BY <1>2 DEF ScriptStates
<1>5. Emit(st, line, NoWhite) \in ScriptStates /\ Emit(st, check.buffer, check.white) \in ScriptStates
  BY <1>2, EmitType, NoWhiteType
<1> QED
  BY <1>1, <1>3, <1>4, <1>5 DEF ScriptLine

\* A script is read in a run through its lines.
LEMMA ReadRuns ==
    ASSUME NEW m, NEW lines \in Seq(Seq(Chars))
    PROVE  \E at \in [0 .. Len(lines) -> ScriptStates] :
              /\ at[0] = ScriptStart
              /\ \A n \in 1 .. Len(lines) : at[n] = ScriptLine(m, at[n - 1], lines[n])
              /\ ReadScript(m, lines) = at[Len(lines)]
<1> DEFINE k == Len(lines)
           step == [n \in 1 .. k |-> [s \in ScriptStates |-> ScriptLine(m, s, lines[n])]]
           Is(h) == h = [n \in 0 .. k |-> IF n = 0 THEN ScriptStart ELSE ScriptLine(m, h[n - 1], lines[n])]
           at == CHOOSE h : Is(h)
<1>1. k \in Nat /\ ScriptStart \in ScriptStates /\ \A n \in 1 .. k : lines[n] \in Seq(Chars)
  BY StartType, LenProperties, ElementOfSeq
<1>2. step \in [1 .. k -> [ScriptStates -> ScriptStates]]
  BY <1>1, ScriptLineType
<1>3. PICK f \in [0 .. k -> ScriptStates] : f[0] = ScriptStart /\ \A n \in 1 .. k : f[n] = step[n][f[n - 1]]
  <2>1. ScriptStart \in ScriptStates /\ k \in Nat
    BY <1>1
  <2> HIDE DEF step, k
  <2>2. Runs(ScriptStates, ScriptStart, step, k) # {}
    BY <1>2, <2>1, RunExists
  <2> QED
    BY <2>2 DEF Runs
<1>4. \A n \in 1 .. k : f[n] = ScriptLine(m, f[n - 1], lines[n])
  <2> SUFFICES ASSUME NEW n \in 1 .. k PROVE f[n] = ScriptLine(m, f[n - 1], lines[n])
    OBVIOUS
  <2>1. n - 1 \in 0 .. k
    BY <1>1
  <2>2. f[n - 1] \in ScriptStates
    BY <1>3, <2>1
  <2>3. step[n][f[n - 1]] = ScriptLine(m, f[n - 1], lines[n])
    BY <2>2
  <2> HIDE DEF step
  <2> QED
    BY <1>3, <2>3
<1>5. Is(f)
  <2>1. \A n \in 0 .. k : f[n] = IF n = 0 THEN ScriptStart ELSE ScriptLine(m, f[n - 1], lines[n])
    BY <1>1, <1>3, <1>4
  <2>2. f = [n \in 0 .. k |-> f[n]]
    BY <1>3
  <2> QED
    BY <2>1, <2>2
<1>6. Is(at)
  <2> HIDE DEF Is
  <2> QED
    BY <1>5, Zenon
<1>7. at[0] = ScriptStart /\ \A n \in 1 .. k : at[n] = ScriptLine(m, at[n - 1], lines[n])
  <2> HIDE DEF at
  <2> QED
    BY <1>1, <1>6
<1>8. at = f
  <2>1. \A n \in 0 .. k : f[n] = at[n]
    <3>1. k \in Nat /\ f[0] = at[0]
      BY <1>1, <1>3, <1>7
    <3>2. \A n \in 1 .. k : f[n - 1] = at[n - 1] => f[n] = at[n]
      BY <1>4, <1>7
    <3> HIDE DEF at, k
    <3>3. Alike(f, at, k)
      BY ONLY <3>1, <3>2, StepsAgree
    <3> QED
      BY <3>3 DEF Alike
  <2>2. at = [n \in 0 .. k |-> at[n]]
    <3> HIDE DEF at
    <3> QED
      BY <1>6
  <2> HIDE DEF at
  <2> QED
    BY <1>3, <2>1, <2>2
<1>9. ReadScript(m, lines) = at[k]
  BY DEF ReadScript
<1> HIDE DEF at
<1> QED
  BY <1>3, <1>4, <1>8, <1>9

\* A script of no lines leaves the reader as it starts; one more line is one more step.
LEMMA ReadSteps ==
    ASSUME NEW m
    PROVE  /\ ReadScript(m, <<>>) = ScriptStart
           /\ \A s \in Seq(Seq(Chars)) :
                /\ ReadScript(m, s) \in ScriptStates
                /\ \A e \in Seq(Chars) : ReadScript(m, Append(s, e)) = ScriptLine(m, ReadScript(m, s), e)
<1>1. ReadScript(m, <<>>) = ScriptStart
  <2>1. PICK none : none = <<>>
    OBVIOUS
  <2>2. none \in Seq(Seq(Chars)) /\ Len(none) = 0
    BY <2>1
  <2>3. PICK at \in [0 .. Len(none) -> ScriptStates] : at[0] = ScriptStart /\ ReadScript(m, none) = at[Len(none)]
    BY <2>2, ReadRuns
  <2>4. ReadScript(m, none) = ScriptStart
    BY <2>2, <2>3
  <2> QED
    BY <2>1, <2>4, Zenon
<1>2. ASSUME NEW s \in Seq(Seq(Chars))
      PROVE  /\ ReadScript(m, s) \in ScriptStates
             /\ \A e \in Seq(Chars) : ReadScript(m, Append(s, e)) = ScriptLine(m, ReadScript(m, s), e)
  <2> DEFINE k == Len(s)
  <2>1. k \in Nat
    OBVIOUS
  <2>2. PICK at \in [0 .. k -> ScriptStates] :
           /\ at[0] = ScriptStart
           /\ \A n \in 1 .. k : at[n] = ScriptLine(m, at[n - 1], s[n])
           /\ ReadScript(m, s) = at[k]
    BY ReadRuns
  <2>3. ReadScript(m, s) \in ScriptStates
    BY <2>1, <2>2
  <2>4. ASSUME NEW e \in Seq(Chars)
        PROVE  ReadScript(m, Append(s, e)) = ScriptLine(m, ReadScript(m, s), e)
    <3> DEFINE more == Append(s, e)
    <3>1. /\ more \in Seq(Seq(Chars)) /\ Len(more) = k + 1 /\ more[k + 1] = e
          /\ \A n \in 1 .. k : more[n] = s[n]
      OBVIOUS
    <3> HIDE DEF more, k
    <3>2. PICK to \in [0 .. k + 1 -> ScriptStates] :
             /\ to[0] = ScriptStart
             /\ \A n \in 1 .. k + 1 : to[n] = ScriptLine(m, to[n - 1], more[n])
             /\ ReadScript(m, more) = to[k + 1]
      BY <3>1, ReadRuns, ZenonT(40)
    <3>3. \A n \in 1 .. k : at[n - 1] = to[n - 1] => at[n] = to[n]
      BY <2>1, <2>2, <3>1, <3>2
    <3>4. at[0] = to[0]
      BY <2>2, <3>2
    <3>5. Alike(at, to, k)
      BY <2>1, <3>3, <3>4, StepsAgree
    <3>6. at[k] = to[k]
      BY <2>1, <3>5 DEF Alike
    <3>7. to[k + 1] = ScriptLine(m, to[k], e)
      BY <2>1, <3>1, <3>2
    <3> QED
      BY <2>2, <3>2, <3>6, <3>7 DEF more, k
  <2> QED
    BY <2>3, <2>4
<1> QED
  BY <1>1, <1>2

-----------------------------------------------------------------------------
(***************************************************************************)
(* The lines of a session, the text they make, and an entry of the history *)
(* on one line.                                                            *)
(***************************************************************************)
Stmts == [text : Seq(Chars), white : Whites, lines : Seq(Seq(Chars))]

\* The lines with those of one more statement.
WithLines(ls, stmt) == ls \o stmt.lines

\* A statement has lines.
LEMMA LinesStepType ==
    \A ls \in Seq(Seq(Chars)) : \A stmt \in Stmts : WithLines(ls, stmt) \in Seq(Seq(Chars))
BY ConcatProperties DEF Stmts, WithLines

\* The lines of the statements are gathered one statement after the other.
LEMMA LinesRuns ==
    ASSUME NEW stmts \in Seq(Stmts)
    PROVE  \E at \in [0 .. Len(stmts) -> Seq(Seq(Chars))] :
              /\ at[0] = <<>>
              /\ \A n \in 1 .. Len(stmts) : at[n] = WithLines(at[n - 1], stmts[n])
              /\ LinesOf(stmts) = at[Len(stmts)]
<1> DEFINE k == Len(stmts)
           step == [n \in 1 .. k |-> [s \in Seq(Seq(Chars)) |-> WithLines(s, stmts[n])]]
           Is(h) == h = [n \in 0 .. k |-> IF n = 0 THEN <<>> ELSE WithLines(h[n - 1], stmts[n])]
           at == CHOOSE h : Is(h)
<1>1. k \in Nat /\ \A n \in 1 .. k : stmts[n] \in Stmts
  BY LenProperties, ElementOfSeq
<1>2. step \in [1 .. k -> [Seq(Seq(Chars)) -> Seq(Seq(Chars))]]
  BY <1>1, LinesStepType
<1>3. PICK f \in [0 .. k -> Seq(Seq(Chars))] : f[0] = <<>> /\ \A n \in 1 .. k : f[n] = step[n][f[n - 1]]
  <2>1. <<>> \in Seq(Seq(Chars)) /\ k \in Nat
    BY <1>1
  <2> HIDE DEF step, k
  <2>2. Runs(Seq(Seq(Chars)), <<>>, step, k) # {}
    BY <1>2, <2>1, RunExists
  <2> QED
    BY <2>2 DEF Runs
<1>4. \A n \in 1 .. k : f[n] = WithLines(f[n - 1], stmts[n])
  <2> SUFFICES ASSUME NEW n \in 1 .. k PROVE f[n] = WithLines(f[n - 1], stmts[n])
    OBVIOUS
  <2>1. n - 1 \in 0 .. k
    BY <1>1
  <2>2. f[n - 1] \in Seq(Seq(Chars))
    BY <1>3, <2>1
  <2>3. step[n][f[n - 1]] = WithLines(f[n - 1], stmts[n])
    BY <2>2
  <2> HIDE DEF step
  <2> QED
    BY <1>3, <2>3
<1>5. Is(f)
  <2>1. \A n \in 0 .. k : f[n] = IF n = 0 THEN <<>> ELSE WithLines(f[n - 1], stmts[n])
    BY <1>1, <1>3, <1>4
  <2>2. f = [n \in 0 .. k |-> f[n]]
    BY <1>3
  <2> QED
    BY <2>1, <2>2
<1>6. Is(at)
  <2> HIDE DEF Is
  <2> QED
    BY <1>5, Zenon
<1>7. at[0] = <<>> /\ \A n \in 1 .. k : at[n] = WithLines(at[n - 1], stmts[n])
  <2> HIDE DEF at
  <2> QED
    BY <1>1, <1>6
<1>8. at = f
  <2>1. \A n \in 0 .. k : f[n] = at[n]
    <3>1. k \in Nat /\ f[0] = at[0]
      BY <1>1, <1>3, <1>7
    <3>2. \A n \in 1 .. k : f[n - 1] = at[n - 1] => f[n] = at[n]
      BY <1>4, <1>7
    <3> HIDE DEF at, k
    <3>3. Alike(f, at, k)
      BY ONLY <3>1, <3>2, StepsAgree
    <3> QED
      BY <3>3 DEF Alike
  <2>2. at = [n \in 0 .. k |-> at[n]]
    <3> HIDE DEF at
    <3> QED
      BY <1>6
  <2> HIDE DEF at
  <2> QED
    BY <1>3, <2>1, <2>2
<1>9. LinesOf(stmts) = at[k]
  BY DEF LinesOf, WithLines
<1> HIDE DEF at
<1> QED
  BY <1>3, <1>4, <1>8, <1>9

\* No statement has no line; one more statement adds its lines.
LEMMA LinesSteps ==
    /\ LinesOf(<<>>) = <<>>
           /\ \A s \in Seq(Stmts) :
                /\ LinesOf(s) \in Seq(Seq(Chars))
                /\ \A e \in Stmts : LinesOf(Append(s, e)) = WithLines(LinesOf(s), e)
<1>1. LinesOf(<<>>) = <<>>
  <2>1. PICK none : none = <<>>
    OBVIOUS
  <2>2. none \in Seq(Stmts) /\ Len(none) = 0
    BY <2>1
  <2>3. PICK at \in [0 .. Len(none) -> Seq(Seq(Chars))] : at[0] = <<>> /\ LinesOf(none) = at[Len(none)]
    BY <2>2, LinesRuns
  <2>4. LinesOf(none) = <<>>
    BY <2>2, <2>3
  <2> QED
    BY <2>1, <2>4, Zenon
<1>2. ASSUME NEW s \in Seq(Stmts)
      PROVE  /\ LinesOf(s) \in Seq(Seq(Chars))
             /\ \A e \in Stmts : LinesOf(Append(s, e)) = WithLines(LinesOf(s), e)
  <2> DEFINE k == Len(s)
  <2>1. k \in Nat
    OBVIOUS
  <2>2. PICK at \in [0 .. k -> Seq(Seq(Chars))] :
           /\ at[0] = <<>>
           /\ \A n \in 1 .. k : at[n] = WithLines(at[n - 1], s[n])
           /\ LinesOf(s) = at[k]
    BY LinesRuns
  <2>3. LinesOf(s) \in Seq(Seq(Chars))
    BY <2>1, <2>2
  <2>4. ASSUME NEW e \in Stmts
        PROVE  LinesOf(Append(s, e)) = WithLines(LinesOf(s), e)
    <3> DEFINE more == Append(s, e)
    <3>1. /\ more \in Seq(Stmts) /\ Len(more) = k + 1 /\ more[k + 1] = e
          /\ \A n \in 1 .. k : more[n] = s[n]
      OBVIOUS
    <3> HIDE DEF more, k
    <3>2. PICK to \in [0 .. k + 1 -> Seq(Seq(Chars))] :
             /\ to[0] = <<>>
             /\ \A n \in 1 .. k + 1 : to[n] = WithLines(to[n - 1], more[n])
             /\ LinesOf(more) = to[k + 1]
      BY <3>1, LinesRuns
    <3>3. \A n \in 1 .. k : at[n - 1] = to[n - 1] => at[n] = to[n]
      BY <2>1, <2>2, <3>1, <3>2
    <3>4. at[0] = to[0]
      BY <2>2, <3>2
    <3>5. Alike(at, to, k)
      BY <2>1, <3>3, <3>4, StepsAgree
    <3>6. at[k] = to[k]
      BY <2>1, <3>5 DEF Alike
    <3>7. to[k + 1] = WithLines(to[k], e)
      BY <2>1, <3>1, <3>2
    <3> QED
      BY <2>2, <3>2, <3>6, <3>7 DEF more, k
  <2> QED
    BY <2>3, <2>4
<1> QED
  BY <1>1, <1>2

\* The blank that stands for the end of a line is a character.
LEMMA BlankType == " " \in Chars /\ <<" ">> \in Seq(Chars)
<1>1. PICK ch : ch = " "
  OBVIOUS
<1>2. ch \in Chars
  BY <1>1, CharsAssumption, Zenon
<1>3. <<ch>> \in Seq(Chars)
  BY <1>2
<1> QED
  BY <1>1, <1>2, <1>3, Zenon

\* The text with one more line.
WithText(text, line) == text \o line \o <<" ">>

\* The text of one more line.
LEMMA TextStepType ==
    \A text, line \in Seq(Chars) : WithText(text, line) \in Seq(Chars)
BY BlankType, ConcatProperties DEF WithText

\* The text of some lines is put together one line after the other.
LEMMA TextRuns ==
    ASSUME NEW lines \in Seq(Seq(Chars))
    PROVE  \E at \in [0 .. Len(lines) -> Seq(Chars)] :
              /\ at[0] = <<>>
              /\ \A n \in 1 .. Len(lines) : at[n] = WithText(at[n - 1], lines[n])
              /\ Text(lines) = at[Len(lines)]
<1> DEFINE k == Len(lines)
           step == [n \in 1 .. k |-> [s \in Seq(Chars) |-> WithText(s, lines[n])]]
           Is(h) == h = [n \in 0 .. k |-> IF n = 0 THEN <<>> ELSE WithText(h[n - 1], lines[n])]
           at == CHOOSE h : Is(h)
<1>1. k \in Nat /\ \A n \in 1 .. k : lines[n] \in Seq(Chars)
  BY LenProperties, ElementOfSeq
<1>2. step \in [1 .. k -> [Seq(Chars) -> Seq(Chars)]]
  BY <1>1, TextStepType
<1>3. PICK f \in [0 .. k -> Seq(Chars)] : f[0] = <<>> /\ \A n \in 1 .. k : f[n] = step[n][f[n - 1]]
  <2>1. <<>> \in Seq(Chars) /\ k \in Nat
    BY <1>1
  <2> HIDE DEF step, k
  <2>2. Runs(Seq(Chars), <<>>, step, k) # {}
    BY <1>2, <2>1, RunExists
  <2> QED
    BY <2>2 DEF Runs
<1>4. \A n \in 1 .. k : f[n] = WithText(f[n - 1], lines[n])
  <2> SUFFICES ASSUME NEW n \in 1 .. k PROVE f[n] = WithText(f[n - 1], lines[n])
    OBVIOUS
  <2>1. n - 1 \in 0 .. k
    BY <1>1
  <2>2. f[n - 1] \in Seq(Chars)
    BY <1>3, <2>1
  <2>3. step[n][f[n - 1]] = WithText(f[n - 1], lines[n])
    BY <2>2
  <2> HIDE DEF step
  <2> QED
    BY <1>3, <2>3
<1>5. Is(f)
  <2>1. \A n \in 0 .. k : f[n] = IF n = 0 THEN <<>> ELSE WithText(f[n - 1], lines[n])
    BY <1>1, <1>3, <1>4
  <2>2. f = [n \in 0 .. k |-> f[n]]
    BY <1>3
  <2> QED
    BY <2>1, <2>2
<1>6. Is(at)
  <2> HIDE DEF Is
  <2> QED
    BY <1>5, Zenon
<1>7. at[0] = <<>> /\ \A n \in 1 .. k : at[n] = WithText(at[n - 1], lines[n])
  <2> HIDE DEF at
  <2> QED
    BY <1>1, <1>6
<1>8. at = f
  <2>1. \A n \in 0 .. k : f[n] = at[n]
    <3>1. k \in Nat /\ f[0] = at[0]
      BY <1>1, <1>3, <1>7
    <3>2. \A n \in 1 .. k : f[n - 1] = at[n - 1] => f[n] = at[n]
      BY <1>4, <1>7
    <3> HIDE DEF at, k
    <3>3. Alike(f, at, k)
      BY ONLY <3>1, <3>2, StepsAgree
    <3> QED
      BY <3>3 DEF Alike
  <2>2. at = [n \in 0 .. k |-> at[n]]
    <3> HIDE DEF at
    <3> QED
      BY <1>6
  <2> HIDE DEF at
  <2> QED
    BY <1>3, <2>1, <2>2
<1>9. Text(lines) = at[k]
  BY DEF Text, WithText
<1> HIDE DEF at
<1> QED
  BY <1>3, <1>4, <1>8, <1>9

\* No line has no text; one more line adds its own and a blank.
LEMMA TextSteps ==
    /\ Text(<<>>) = <<>>
           /\ \A s \in Seq(Seq(Chars)) :
                /\ Text(s) \in Seq(Chars)
                /\ \A e \in Seq(Chars) : Text(Append(s, e)) = WithText(Text(s), e)
<1>1. Text(<<>>) = <<>>
  <2>1. PICK none : none = <<>>
    OBVIOUS
  <2>2. none \in Seq(Seq(Chars)) /\ Len(none) = 0
    BY <2>1
  <2>3. PICK at \in [0 .. Len(none) -> Seq(Chars)] : at[0] = <<>> /\ Text(none) = at[Len(none)]
    BY <2>2, TextRuns
  <2>4. Text(none) = <<>>
    BY <2>2, <2>3
  <2> QED
    BY <2>1, <2>4, Zenon
<1>2. ASSUME NEW s \in Seq(Seq(Chars))
      PROVE  /\ Text(s) \in Seq(Chars)
             /\ \A e \in Seq(Chars) : Text(Append(s, e)) = WithText(Text(s), e)
  <2> DEFINE k == Len(s)
  <2>1. k \in Nat
    OBVIOUS
  <2>2. PICK at \in [0 .. k -> Seq(Chars)] :
           /\ at[0] = <<>>
           /\ \A n \in 1 .. k : at[n] = WithText(at[n - 1], s[n])
           /\ Text(s) = at[k]
    BY TextRuns
  <2>3. Text(s) \in Seq(Chars)
    BY <2>1, <2>2
  <2>4. ASSUME NEW e \in Seq(Chars)
        PROVE  Text(Append(s, e)) = WithText(Text(s), e)
    <3> DEFINE more == Append(s, e)
    <3>1. /\ more \in Seq(Seq(Chars)) /\ Len(more) = k + 1 /\ more[k + 1] = e
          /\ \A n \in 1 .. k : more[n] = s[n]
      OBVIOUS
    <3> HIDE DEF more, k
    <3>2. PICK to \in [0 .. k + 1 -> Seq(Chars)] :
             /\ to[0] = <<>>
             /\ \A n \in 1 .. k + 1 : to[n] = WithText(to[n - 1], more[n])
             /\ Text(more) = to[k + 1]
      BY <3>1, TextRuns
    <3>3. \A n \in 1 .. k : at[n - 1] = to[n - 1] => at[n] = to[n]
      BY <2>1, <2>2, <3>1, <3>2
    <3>4. at[0] = to[0]
      BY <2>2, <3>2
    <3>5. Alike(at, to, k)
      BY <2>1, <3>3, <3>4, StepsAgree
    <3>6. at[k] = to[k]
      BY <2>1, <3>5 DEF Alike
    <3>7. to[k + 1] = WithText(to[k], e)
      BY <2>1, <3>1, <3>2
    <3> QED
      BY <2>2, <3>2, <3>6, <3>7 DEF more, k
  <2> QED
    BY <2>3, <2>4
<1> QED
  BY <1>1, <1>2

\* What a line adds to the part of an entry that is shown, in the place of the n-th line.
Showing(text, n, line) == (IF n = 1 THEN <<>> ELSE text \o <<" ">>) \o line

\* What the arrow keys show of one more line.
LEMMA ShowingType ==
    \A text, line \in Seq(Chars) : \A n : Showing(text, n, line) \in Seq(Chars)
<1> SUFFICES ASSUME NEW text \in Seq(Chars), NEW line \in Seq(Chars), NEW n
             PROVE  Showing(text, n, line) \in Seq(Chars)
  OBVIOUS
<1>1. <<" ">> \in Seq(Chars) /\ <<>> \in Seq(Chars)
  BY BlankType, EmptySeq
<1>2. PICK before : before = IF n = 1 THEN <<>> ELSE text \o <<" ">>
  OBVIOUS
<1>3. before \in Seq(Chars)
  BY <1>1, <1>2, ConcatProperties
<1> QED
  BY <1>2, <1>3, ConcatProperties DEF Showing

\* An entry is shown one line after the other.
LEMMA ShownRuns ==
    ASSUME NEW entry \in Seq(Seq(Chars))
    PROVE  \E at \in [0 .. Len(entry) -> Seq(Chars)] :
              /\ at[0] = <<>>
              /\ \A n \in 1 .. Len(entry) : at[n] = Showing(at[n - 1], n, entry[n])
              /\ HistoryLine(entry) = at[Len(entry)]
<1> DEFINE k == Len(entry)
           step == [n \in 1 .. k |-> [s \in Seq(Chars) |-> Showing(s, n, entry[n])]]
           Is(h) == h = [n \in 0 .. k |-> IF n = 0 THEN <<>> ELSE Showing(h[n - 1], n, entry[n])]
           at == CHOOSE h : Is(h)
<1>1. k \in Nat /\ \A n \in 1 .. k : entry[n] \in Seq(Chars)
  BY LenProperties, ElementOfSeq
<1>2. step \in [1 .. k -> [Seq(Chars) -> Seq(Chars)]]
  BY <1>1, ShowingType
<1>3. PICK f \in [0 .. k -> Seq(Chars)] : f[0] = <<>> /\ \A n \in 1 .. k : f[n] = step[n][f[n - 1]]
  <2>1. <<>> \in Seq(Chars) /\ k \in Nat
    BY <1>1
  <2> HIDE DEF step, k
  <2>2. Runs(Seq(Chars), <<>>, step, k) # {}
    BY <1>2, <2>1, RunExists
  <2> QED
    BY <2>2 DEF Runs
<1>4. \A n \in 1 .. k : f[n] = Showing(f[n - 1], n, entry[n])
  <2> SUFFICES ASSUME NEW n \in 1 .. k PROVE f[n] = Showing(f[n - 1], n, entry[n])
    OBVIOUS
  <2>1. n - 1 \in 0 .. k
    BY <1>1
  <2>2. f[n - 1] \in Seq(Chars)
    BY <1>3, <2>1
  <2>3. step[n][f[n - 1]] = Showing(f[n - 1], n, entry[n])
    BY <2>2
  <2> HIDE DEF step
  <2> QED
    BY <1>3, <2>3
<1>5. Is(f)
  <2>1. \A n \in 0 .. k : f[n] = IF n = 0 THEN <<>> ELSE Showing(f[n - 1], n, entry[n])
    BY <1>1, <1>3, <1>4
  <2>2. f = [n \in 0 .. k |-> f[n]]
    BY <1>3
  <2> QED
    BY <2>1, <2>2
<1>6. Is(at)
  <2> HIDE DEF Is
  <2> QED
    BY <1>5, Zenon
<1>7. at[0] = <<>> /\ \A n \in 1 .. k : at[n] = Showing(at[n - 1], n, entry[n])
  <2> HIDE DEF at
  <2> QED
    BY <1>1, <1>6
<1>8. at = f
  <2>1. \A n \in 0 .. k : f[n] = at[n]
    <3>1. k \in Nat /\ f[0] = at[0]
      BY <1>1, <1>3, <1>7
    <3>2. \A n \in 1 .. k : f[n - 1] = at[n - 1] => f[n] = at[n]
      BY <1>4, <1>7
    <3> HIDE DEF at, k
    <3>3. Alike(f, at, k)
      BY ONLY <3>1, <3>2, StepsAgree
    <3> QED
      BY <3>3 DEF Alike
  <2>2. at = [n \in 0 .. k |-> at[n]]
    <3> HIDE DEF at
    <3> QED
      BY <1>6
  <2> HIDE DEF at
  <2> QED
    BY <1>3, <2>1, <2>2
<1>9. HistoryLine(entry) = at[k]
  BY DEF HistoryLine, Showing
<1> HIDE DEF at
<1> QED
  BY <1>3, <1>4, <1>8, <1>9

\* An entry on one line begins as its first line does.
LEMMA ShownHeaded ==
    ASSUME NEW entry \in Seq(Headed \ {<<>>}) PROVE HistoryLine(entry) \in Headed
<1> DEFINE k == Len(entry)
<1>1. k \in Nat /\ entry \in Seq(Seq(Chars)) /\ \A n \in 1 .. k : entry[n] \in Headed \ {<<>>}
  <2>1. Headed \ {<<>>} \subseteq Seq(Chars)
    BY DEF Headed
  <2> QED
    BY <2>1, SeqMonotonic, LenProperties, ElementOfSeq
<1>2. PICK at \in [0 .. k -> Seq(Chars)] :
         /\ at[0] = <<>>
         /\ \A n \in 1 .. k : at[n] = Showing(at[n - 1], n, entry[n])
         /\ HistoryLine(entry) = at[k]
  BY <1>1, ShownRuns
<1> DEFINE T == {n \in 0 .. k : n # 0 => at[n] \in Headed \ {<<>>}}
<1>3. 0 \in T
  BY <1>1
<1>4. ASSUME NEW n \in 1 .. k, n - 1 \in T PROVE n \in T
  <2>1. n \in 0 .. k /\ n - 1 \in 0 .. k /\ at[n] = Showing(at[n - 1], n, entry[n])
    BY <1>1, <1>2
  <2>2. entry[n] \in Headed \ {<<>>} /\ entry[n] \in Seq(Chars)
    BY <1>1 DEF Headed
  <2>3. CASE n = 1
    <3>1. at[n] = entry[n]
      BY <2>1, <2>2, <2>3, ConcatEmptySeq DEF Showing
    <3> QED
      BY <2>1, <2>2, <3>1
  <2>4. CASE n # 1
    <3>1. at[n - 1] \in Headed \ {<<>>}
      BY <1>1, <1>4, <2>4
    <3>2. at[n] = (at[n - 1] \o <<" ">>) \o entry[n]
      BY <2>1, <2>4 DEF Showing
    <3>3. PICK a, b : a = at[n - 1] /\ b = <<" ">>
      OBVIOUS
    <3>4. a \in Seq(Chars) /\ a # <<>> /\ b \in Seq(Chars)
      BY <3>1, <3>3, BlankType DEF Headed
    <3>5. a[1] # " "
      BY <3>1, <3>3 DEF Headed
    <3>6. (a \o b) \o entry[n] = a \o (b \o entry[n])
      <4>1. PICK d : d = entry[n]
        OBVIOUS
      <4>2. d \in Seq(Chars)
        BY <2>2, <4>1
      <4>3. (a \o b) \o d = a \o (b \o d)
        BY ONLY <3>4, <4>2, ConcatAssociative
      <4> QED
        BY <4>1, <4>3, Zenon
    <3>7. PICK c : c = b \o entry[n]
      OBVIOUS
    <3>8. c \in Seq(Chars)
      BY <2>2, <3>4, <3>7, ConcatProperties
    <3>9. a \o c \in Seq(Chars) /\ a \o c # <<>> /\ (a \o c)[1] = a[1]
      BY <3>4, <3>8, ConcatStart
    <3>10. at[n] = a \o c
      BY <3>2, <3>3, <3>6, <3>7, Zenon
    <3> QED
      BY <2>1, <3>5, <3>9, <3>10 DEF Headed
  <2> QED
    BY <2>3, <2>4
<1>5. k \in T
  <2>1. \A n \in 0 .. k : n \in T
    <3> HIDE DEF T, k
    <3> QED
      BY <1>1, <1>3, <1>4, NumbersUpTo
  <2> QED
    BY <1>1, <2>1
<1> QED
  <2>1. CASE k = 0
    <3>1. HistoryLine(entry) = <<>>
      BY <1>2, <2>1, Zenon
    <3> QED
      BY <3>1, HeadedNil, Zenon
  <2> QED
    BY <1>2, <1>5, <2>1

-----------------------------------------------------------------------------
(***************************************************************************)
(* The types, and the history with its file: the file is a prefix of the   *)
(* history, and what it lacks is at most what was added since the length   *)
(* was last a multiple of SavePeriod.                                      *)
(***************************************************************************)
SaidLines == Seq(Headed \ {<<>>})
\* What the history holds, and what is kept of an unfinished statement.
Entries == {entry \in SaidLines : entry # <<>>}
Inputs == [buffer : Headed, white : Whites, scan : Scans, multi : BOOLEAN, lines : SaidLines]

\* The types, which ReplTypeOK is made of.
TypeInv ==
    /\ multiline \in BOOLEAN /\ navigating \in BOOLEAN
    /\ input \in Inputs
    /\ history \in Seq(Entries) /\ Len(history) <= HistoryMax
    /\ historyIndex \in 0 .. Len(history)
    /\ rlLine \in Headed /\ currentInput \in Headed
    /\ navigating => history # <<>>
    /\ handed \in Seq(Stmts) /\ pending \in Seq(Seq(Chars))

\* The file is behind by what came since the last multiple of SavePeriod.
FileInv ==
    /\ file \in Seq(Entries)
    /\ IsPrefix(file, history)
    /\ Len(history) - Len(file) <= Len(history) % SavePeriod

\* The bounds are numbers, and a full history has a length at which it is saved.
LEMMA Bounds ==
    /\ HistoryMax \in Nat /\ 0 < HistoryMax
    /\ SavePeriod \in Nat /\ 0 < SavePeriod
    /\ HistoryMax % SavePeriod = 0
<1>1. /\ HistoryMax \in Nat \ {0} /\ SavePeriod \in Nat \ {0}
      /\ HistoryMax % SavePeriod = 0
  BY ReplAssumption, Zenon
<1> QED
  BY <1>1

\* A length that is not one at which the history is saved has one more to
\* save than the length before.
LEMMA NextRemainder ==
    ASSUME NEW n \in Nat, NEW p \in Nat, 0 < p, (n + 1) % p # 0
    PROVE  (n + 1) % p = (n % p) + 1
<1>1. PICK q, r : q = n \div p /\ r = n % p
  OBVIOUS
<1>2. q \in Int /\ r \in 0 .. p - 1 /\ n = p * q + r
  BY <1>1
<1>3. PICK s, t : s = (n + 1) \div p /\ t = (n + 1) % p
  OBVIOUS
<1>4. s \in Int /\ t \in 0 .. p - 1 /\ n + 1 = p * s + t
  BY <1>3
<1> QED
  BY <1>1, <1>2, <1>3, <1>4

\* A prefix of a sequence is one of the sequence with one more element.
LEMMA PrefixGrows ==
    ASSUME NEW S, NEW a \in Seq(S), NEW b \in Seq(S), NEW e \in S, IsPrefix(a, b)
    PROVE  IsPrefix(a, Append(b, e))
<1>1. Len(a) \in Nat /\ Len(b) \in Nat /\ Len(a) <= Len(b) /\ SubSeq(a, 1, Len(a)) = SubSeq(b, 1, Len(a))
  BY LenProperties DEF IsPrefix
<1>2. Append(b, e) \in Seq(S) /\ Len(Append(b, e)) = Len(b) + 1
      /\ \A i \in 1 .. Len(b) : Append(b, e)[i] = b[i]
  BY AppendProperties
<1>3. SubSeq(b, 1, Len(a)) = SubSeq(Append(b, e), 1, Len(a))
  <2> DEFINE n == Len(a)
             s == SubSeq(b, 1, n)
             t == SubSeq(Append(b, e), 1, n)
  <2>1. \A i \in 1 .. n : b[i] \in S /\ Append(b, e)[i] = b[i]
    BY <1>1, <1>2, ElementOfSeq
  <2>2. s \in Seq(S) /\ t \in Seq(S)
    BY <1>1, <2>1, SubSeqProperties
  <2>3. Len(s) = n /\ Len(t) = n /\ \A i \in 1 .. n : s[i] = b[i] /\ t[i] = b[i]
    BY <1>1, <2>1, SubSeqProperties
  <2>4. s = t
    <3> HIDE DEF s, t, n
    <3> QED
      BY <2>2, <2>3, SeqEqual
  <2> QED
    BY <2>4
<1> QED
  BY <1>1, <1>2, <1>3 DEF IsPrefix

\* An input that has just been reset is of its type.
LEMMA FreshInputType == FreshInput \in Inputs
<1>1. <<>> \in Headed /\ <<>> \in SaidLines
  BY HeadedNil, EmptySeq DEF SaidLines
<1> QED
  BY <1>1, FreshScanType, NoWhiteType DEF FreshInput, Inputs

\* A line that is entered does not begin with a blank.
LEMMA LineHeaded ==
    ASSUME rlLine \in Headed PROVE \A line \in Lines \cup Drafts \cup {rlLine} : line \in Headed
<1>1. ASSUME NEW line \in Lines \cup Drafts PROVE line \in Headed
  <2>1. line \in Seq(Chars) /\ (line # <<>> => Head(line) # " ")
    BY ReplAssumption, Zenon
  <2>2. line \in Seq(Chars)
    BY <2>1
  <2>3. line # <<>> => Head(line) = line[1]
    BY <2>2
  <2> QED
    BY <2>1, <2>3 DEF Headed
<1> QED
  BY <1>1

\* An entry that is added leaves the history as it was, or makes it longer,
\* and is saved when the length says so.
LEMMA AddKept ==
    ASSUME history \in Seq(Entries), Len(history) <= HistoryMax, FileInv,
           NEW entry \in Entries, AddToHistory(entry)
    PROVE  /\ history' \in Seq(Entries) /\ Len(history') <= HistoryMax
           /\ historyIndex' = Len(history')
           /\ FileInv'
<1> DEFINE added == history = <<>> \/ Last(history) # entry
<1>1. PICK all : all = IF added THEN Append(history, entry) ELSE history
  OBVIOUS
<1>2. PICK kept : kept = IF Len(all) > HistoryMax THEN Tail(all) ELSE all
  OBVIOUS
<1>3. /\ history' = kept
      /\ historyIndex' = Len(kept)
      /\ file' = IF added /\ Len(kept) % SavePeriod = 0 THEN kept ELSE file
  BY <1>1, <1>2 DEF AddToHistory
<1>4. Len(history) \in Nat /\ file \in Seq(Entries) /\ Len(file) \in Nat
  BY LenProperties DEF FileInv
<1>5. CASE ~added
  <2>1. all = history /\ kept = history
    <3>1. all = history
      BY <1>1, <1>5
    <3>2. ~(Len(all) > HistoryMax)
      BY <1>4, <3>1, Bounds
    <3> QED
      BY <1>2, <3>1, <3>2
  <2>2. history' = history /\ historyIndex' = Len(history) /\ file' = file
    BY <1>3, <1>5, <2>1
  <2> QED
    BY <2>2 DEF FileInv
<1>6. CASE added
  <2>1. /\ all = Append(history, entry) /\ all \in Seq(Entries) /\ Len(all) = Len(history) + 1
        /\ \A i \in 1 .. Len(history) : all[i] = history[i]
    BY <1>1, <1>6, AppendProperties
  <2> HIDE DEF added
  <2>2. CASE Len(history) + 1 > HistoryMax
    <3>1. kept = Tail(all) /\ all # <<>>
      BY <1>2, <1>4, <2>1, <2>2
    <3>2. kept \in Seq(Entries) /\ Len(kept) = HistoryMax
      <4>1. kept \in Seq(Entries) /\ Len(kept) = Len(all) - 1
        BY <2>1, <3>1, HeadTailProperties
      <4> QED
        BY <1>4, <2>1, <2>2, <4>1, Bounds
    <3>3. file' = kept
      BY <1>3, <1>6, <3>2, Bounds
    <3> QED
      BY <1>3, <3>2, <3>3, Bounds DEF FileInv, IsPrefix
  <2>3. CASE ~(Len(history) + 1 > HistoryMax)
    <3>1. kept = all /\ kept \in Seq(Entries) /\ Len(kept) = Len(history) + 1 /\ Len(kept) <= HistoryMax
      BY <1>2, <1>4, <2>1, <2>3, Bounds
    <3>2. CASE Len(kept) % SavePeriod = 0
      <4>1. file' = kept
        BY <1>3, <1>6, <3>2
      <4>2. history' = kept /\ file' = kept
        BY <1>3, <4>1
      <4>3. Len(kept) \in Nat /\ Len(kept) - Len(kept) <= Len(kept) % SavePeriod
        BY <1>4, <3>1, <3>2
      <4>4. IsPrefix(kept, kept)
        BY <4>3 DEF IsPrefix
      <4>5. FileInv'
        BY <3>1, <4>2, <4>3, <4>4 DEF FileInv
      <4> QED
        BY <1>3, <3>1, <4>2, <4>5
    <3>3. CASE Len(kept) % SavePeriod # 0
      <4>1. file' = file
        BY <1>3, <3>3
      <4>2. Len(kept) % SavePeriod = (Len(history) % SavePeriod) + 1
        BY <1>4, <3>1, <3>3, Bounds, NextRemainder
      <4>3. Len(kept) - Len(file) <= Len(kept) % SavePeriod
        <5>1. Len(history) - Len(file) <= Len(history) % SavePeriod
          BY DEF FileInv
        <5>2. Len(history) % SavePeriod \in Nat
          BY <1>4, Bounds
        <5> QED
          BY <1>4, <3>1, <4>2, <5>1, <5>2
      <4>4. IsPrefix(file, kept)
        BY <1>4, <2>1, <3>1, PrefixGrows DEF FileInv
      <4> QED
        BY <1>3, <1>4, <3>1, <4>1, <4>3, <4>4 DEF FileInv
    <3> QED
      BY <3>2, <3>3
  <2> QED
    BY <2>2, <2>3
<1> QED
  BY <1>5, <1>6

\* An entry of one line is a text with a semicolon.
LEMMA OneLineType == \A text \in Headed : <<Append(text, ";")>> \in Entries
<1> SUFFICES ASSUME NEW text \in Headed PROVE <<Append(text, ";")>> \in Entries
  OBVIOUS
<1>1. PICK e : e = Append(text, ";")
  OBVIOUS
<1>2. e \in Seq(Chars) /\ e # <<>> /\ (text = <<>> => e[1] = ";") /\ (text # <<>> => e[1] = text[1])
  <2>1. PICK ch : ch = ";"
    OBVIOUS
  <2>2. ch \in Chars
    BY <2>1, CharsAssumption, Zenon
  <2>3. text \in Seq(Chars) /\ e = Append(text, ch)
    BY <1>1, <2>1 DEF Headed
  <2>4. /\ e \in Seq(Chars) /\ e # <<>> /\ Len(e) = Len(text) + 1 /\ Len(text) \in Nat
        /\ (\A i \in 1 .. Len(text) : e[i] = text[i]) /\ e[Len(text) + 1] = ch
    BY <2>2, <2>3, AppendProperties, LenProperties
  <2>5. text = <<>> => e[1] = ch
    BY <2>4
  <2>6. text # <<>> => e[1] = text[1]
    BY <2>3, <2>4
  <2> QED
    BY <2>1, <2>4, <2>5, <2>6, Zenon
<1>3. e[1] # " "
  BY <1>2 DEF Headed
<1>4. e \in Headed \ {<<>>}
  BY <1>2, <1>3 DEF Headed
<1>5. <<e>> \in SaidLines /\ <<e>> # <<>>
  <2> DEFINE S == Headed \ {<<>>}
  <2> HIDE DEF S
  <2>1. e \in S
    BY <1>4 DEF S
  <2>2. <<e>> \in Seq(S) /\ <<e>> # <<>>
    BY <2>1
  <2> QED
    BY <2>2 DEF S, SaidLines
<1> QED
  BY <1>1, <1>5, Zenon DEF Entries

\* A text with a blank after it or not.
WithGap(text, gap) == text \o (IF gap THEN <<" ">> ELSE <<>>)

\* What an element adds to what is written of a text.
Written(text, ch, gap) == WithGap(text \o <<ch>>, gap)

\* What is written of a text with one more element is a text.
LEMMA WrittenType ==
    \A text \in Seq(Chars) : \A ch \in Chars : \A gap : Written(text, ch, gap) \in Seq(Chars)
<1> SUFFICES ASSUME NEW text \in Seq(Chars), NEW ch \in Chars, NEW gap
             PROVE  Written(text, ch, gap) \in Seq(Chars)
  OBVIOUS
<1>1. text \o <<ch>> \in Seq(Chars)
  OBVIOUS
<1>2. PICK blank : blank = IF gap THEN <<" ">> ELSE <<>>
  OBVIOUS
<1>3. blank \in Seq(Chars)
  BY <1>2, BlankType, EmptySeq
<1> QED
  BY <1>1, <1>2, <1>3, ConcatProperties DEF Written, WithGap

\* A text is written one element after the other.
LEMMA SpelledRuns ==
    ASSUME NEW text \in Seq(Chars), NEW white
    PROVE  \E at \in [0 .. Len(text) -> Seq(Chars)] :
              /\ at[0] = <<>>
              /\ \A n \in 1 .. Len(text) : at[n] = Written(at[n - 1], text[n], n \in Gaps(white))
              /\ Spelled(text, white) = at[Len(text)]
<1> DEFINE k == Len(text)
           step == [n \in 1 .. k |-> [s \in Seq(Chars) |-> Written(s, text[n], n \in Gaps(white))]]
           Is(h) == h = [n \in 0 .. k |-> IF n = 0 THEN <<>> ELSE Written(h[n - 1], text[n], n \in Gaps(white))]
           at == CHOOSE h : Is(h)
<1>1. k \in Nat /\ \A n \in 1 .. k : text[n] \in Chars
  BY LenProperties, ElementOfSeq
<1>2. step \in [1 .. k -> [Seq(Chars) -> Seq(Chars)]]
  BY <1>1, WrittenType
<1>3. PICK f \in [0 .. k -> Seq(Chars)] : f[0] = <<>> /\ \A n \in 1 .. k : f[n] = step[n][f[n - 1]]
  <2>1. <<>> \in Seq(Chars) /\ k \in Nat
    BY <1>1
  <2> HIDE DEF step, k
  <2>2. Runs(Seq(Chars), <<>>, step, k) # {}
    BY <1>2, <2>1, RunExists
  <2> QED
    BY <2>2 DEF Runs
<1>4. \A n \in 1 .. k : f[n] = Written(f[n - 1], text[n], n \in Gaps(white))
  <2> SUFFICES ASSUME NEW n \in 1 .. k PROVE f[n] = Written(f[n - 1], text[n], n \in Gaps(white))
    OBVIOUS
  <2>1. n - 1 \in 0 .. k
    BY <1>1
  <2>2. f[n - 1] \in Seq(Chars)
    BY <1>3, <2>1
  <2>3. step[n][f[n - 1]] = Written(f[n - 1], text[n], n \in Gaps(white))
    BY <2>2
  <2> HIDE DEF step
  <2> QED
    BY <1>3, <2>3
<1>5. Is(f)
  <2>1. \A n \in 0 .. k : f[n] = IF n = 0 THEN <<>> ELSE Written(f[n - 1], text[n], n \in Gaps(white))
    BY <1>1, <1>3, <1>4
  <2>2. f = [n \in 0 .. k |-> f[n]]
    BY <1>3
  <2> QED
    BY <2>1, <2>2
<1>6. Is(at)
  <2> HIDE DEF Is
  <2> QED
    BY <1>5, Zenon
<1>7. at[0] = <<>> /\ \A n \in 1 .. k : at[n] = Written(at[n - 1], text[n], n \in Gaps(white))
  <2> HIDE DEF at
  <2> QED
    BY <1>1, <1>6
<1>8. at = f
  <2>1. \A n \in 0 .. k : f[n] = at[n]
    <3>1. k \in Nat /\ f[0] = at[0]
      BY <1>1, <1>3, <1>7
    <3>2. \A n \in 1 .. k : f[n - 1] = at[n - 1] => f[n] = at[n]
      BY <1>4, <1>7
    <3> HIDE DEF at, k
    <3>3. Alike(f, at, k)
      BY ONLY <3>1, <3>2, StepsAgree
    <3> QED
      BY <3>3 DEF Alike
  <2>2. at = [n \in 0 .. k |-> at[n]]
    <3> HIDE DEF at
    <3> QED
      BY <1>6
  <2> HIDE DEF at
  <2> QED
    BY <1>3, <2>1, <2>2
<1>9. Spelled(text, white) = at[k]
  BY DEF Spelled, Written, WithGap
<1> HIDE DEF at
<1> QED
  BY <1>3, <1>4, <1>8, <1>9

\* What is written begins as the text does.
LEMMA SpelledHeaded ==
    ASSUME NEW text \in Headed, NEW white PROVE Spelled(text, white) \in Headed
<1>1. text \in Seq(Chars) /\ Len(text) \in Nat /\ \A n \in 1 .. Len(text) : text[n] \in Chars
  BY LenProperties, ElementOfSeq DEF Headed
<1>2. PICK at \in [0 .. Len(text) -> Seq(Chars)] :
         /\ at[0] = <<>>
         /\ \A n \in 1 .. Len(text) : at[n] = Written(at[n - 1], text[n], n \in Gaps(white))
         /\ Spelled(text, white) = at[Len(text)]
  BY <1>1, SpelledRuns
<1>3. PICK k : k = Len(text)
  OBVIOUS
<1> DEFINE T == {n \in 0 .. k : n # 0 => at[n] # <<>> /\ at[n][1] = text[1]}
<1>4. 0 \in T
  BY <1>1, <1>3
<1>5. ASSUME NEW n \in 1 .. k, n - 1 \in T PROVE n \in T
  <2>0. PICK c : c = IF n \in Gaps(white) THEN <<" ">> ELSE <<>>
    OBVIOUS
  <2>1. PICK a, b : a = at[n - 1] /\ b = <<text[n]>>
    OBVIOUS
  <2>2. n - 1 \in 0 .. k /\ n \in 0 .. k
    BY <1>1, <1>3
  <2>3. a \in Seq(Chars) /\ b \in Seq(Chars) /\ b # <<>> /\ b[1] = text[n]
    <3> HIDE DEF T
    <3>1. a \in Seq(Chars)
      BY <1>2, <1>3, <2>1, <2>2
    <3>2. text[n] \in Chars
      BY <1>1, <1>3
    <3> QED
      BY <2>1, <3>1, <3>2
  <2>4. c \in Seq(Chars)
    BY <2>0, BlankType, EmptySeq
  <2>5. at[n] = (a \o b) \o c
    BY <1>2, <1>3, <2>0, <2>1 DEF Written, WithGap
  <2>6. a \o b \in Seq(Chars) /\ a \o b # <<>> /\ (a \o b)[1] = text[1]
    <3>1. CASE n = 1
      <4>1. a = <<>>
        <5>1. n - 1 = 0
          BY <3>1
        <5> QED
          BY <1>2, <2>1, <5>1, Zenon
      <4>2. a \o b = b
        BY <2>3, <4>1, ConcatEmptySeq
      <4> QED
        BY <2>3, <3>1, <4>2
    <3>2. CASE n # 1
      <4>1. n - 1 # 0
        BY <3>2
      <4>2. a # <<>> /\ a[1] = text[1]
        BY <1>5, <2>1, <4>1
      <4> HIDE DEF T
      <4> QED
        BY <2>3, <4>2, ConcatStart
    <3> QED
      BY <3>1, <3>2
  <2>7. (a \o b) \o c # <<>> /\ ((a \o b) \o c)[1] = (a \o b)[1]
    <3> HIDE DEF T
    <3> QED
      BY <2>4, <2>6, ConcatStart
  <2> QED
    BY <2>2, <2>5, <2>6, <2>7
<1>6. k \in T
  <2>1. \A n \in 0 .. k : n \in T
    <3> HIDE DEF T
    <3> QED
      BY <1>1, <1>3, <1>4, <1>5, NumbersUpTo
  <2> QED
    BY <1>1, <1>3, <2>1
<1>7. at[k] \in Seq(Chars)
  BY <1>1, <1>2, <1>3
<1>8. CASE k = 0
  <2>1. Spelled(text, white) = <<>>
    BY <1>2, <1>3, <1>8
  <2> QED
    BY <2>1, HeadedNil, Zenon
<1>9. CASE k # 0
  <2>1. text # <<>>
    <3>1. Len(<<>>) = 0
      OBVIOUS
    <3> QED
      BY <1>3, <1>9, <3>1
  <2>2. text[1] # " "
    BY <2>1 DEF Headed
  <2> QED
    BY <1>2, <1>3, <1>6, <1>7, <1>9, <2>2 DEF Headed
<1> QED
  BY <1>8, <1>9

\* An entry for a statement of one line is that line with its semicolon.
LEMMA EntryType ==
    ASSUME NEW text \in Headed, NEW white \in Whites, NEW lines \in SaidLines
    PROVE  EntryOf(text, white, lines) \in Entries
<1>1. Len(lines) > 1 => lines \in Entries
  BY DEF Entries
<1>2. Spelled(text, white) \in Headed
  BY SpelledHeaded
<1> QED
  BY <1>1, <1>2, OneLineType DEF EntryOf

\* What a line that is checked makes of the input.
LEMMA CheckedType ==
    ASSUME input \in Inputs, NEW line \in Headed
    PROVE  /\ Checked(line).buffer \in Headed /\ Checked(line).scan \in Scans
           /\ Checked(line).white \in Whites
           /\ MoreLines(line) \in Inputs
           /\ MoreLines(line).lines \in SaidLines
<1>1. /\ input.buffer \in Headed /\ input.scan \in Scans /\ input.multi \in BOOLEAN
      /\ input.lines \in SaidLines /\ input.white \in Whites
  BY DEF Inputs
<1>2. input.buffer \in Seq(Chars) /\ line \in Seq(Chars)
  BY <1>1 DEF Headed
<1>3. Checked(line).buffer \in Headed /\ Checked(line).scan \in Scans /\ Checked(line).white \in Whites
  BY <1>1, <1>2, CheckType DEF Checked
<1>4. PICK multi : multi = (\/ input.multi
                            \/ ~HasSemicolon(line)
                            \/ \E k \in Kinds : Checked(line).scan.depth[k] > 0)
  OBVIOUS
<1>5. multi \in BOOLEAN
  BY <1>4
<1>6. PICK lines : lines = IF multi /\ line # <<>> THEN Append(input.lines, line) ELSE input.lines
  OBVIOUS
<1>7. lines \in SaidLines
  <2> DEFINE S == Headed \ {<<>>}
  <2>1. input.lines \in Seq(S) /\ (line # <<>> => line \in S)
    BY <1>1 DEF SaidLines
  <2> HIDE DEF S
  <2>2. line # <<>> => Append(input.lines, line) \in Seq(S)
    BY <2>1, AppendProperties
  <2>3. lines \in Seq(S)
    BY <1>6, <2>1, <2>2, Zenon
  <2> QED
    BY <2>3 DEF S, SaidLines
<1>8. MoreLines(line) = [buffer |-> Checked(line).buffer, white |-> Checked(line).white,
                         scan |-> Checked(line).scan, multi |-> multi, lines |-> lines]
  BY <1>4, <1>6 DEF MoreLines, InputAfter
<1> QED
  BY <1>3, <1>5, <1>7, <1>8 DEF Inputs

\* To hand a statement over keeps the types and the file.
LEMMA HandKept ==
    ASSUME TypeInv, FileInv, NEW line \in Headed, NEW text \in Headed, NEW white \in Whites,
           NEW entry \in Entries, Hand(line, text, white, entry)
    PROVE  /\ input' \in Inputs /\ handed' \in Seq(Stmts) /\ pending' \in Seq(Seq(Chars))
           /\ history' \in Seq(Entries) /\ Len(history') <= HistoryMax
           /\ historyIndex' \in 0 .. Len(history')
           /\ FileInv'
<1>1. input' \in Inputs
  BY FreshInputType DEF Hand
<1>2. pending \in Seq(Seq(Chars)) /\ line \in Seq(Chars) /\ text \in Seq(Chars) /\ handed \in Seq(Stmts)
  BY DEF TypeInv, Headed
<1>3. PICK stmt : stmt = [text |-> text, white |-> white, lines |-> Append(pending, line)]
  OBVIOUS
<1>4. stmt \in Stmts
  <2>1. Append(pending, line) \in Seq(Seq(Chars))
    BY <1>2, AppendProperties
  <2> QED
    BY <1>2, <1>3, <2>1 DEF Stmts
<1>5. handed' \in Seq(Stmts)
  <2>1. handed' = Append(handed, stmt)
    BY <1>3 DEF Hand
  <2> QED
    BY <1>2, <1>4, <2>1, AppendProperties
<1>6. pending' \in Seq(Seq(Chars))
  BY EmptySeq DEF Hand
<1>7. history' \in Seq(Entries) /\ Len(history') <= HistoryMax /\ historyIndex' = Len(history') /\ FileInv'
  <2>1. history \in Seq(Entries) /\ Len(history) <= HistoryMax /\ AddToHistory(entry)
    BY DEF TypeInv, Hand
  <2> QED
    BY <2>1, AddKept
<1>8. historyIndex' \in 0 .. Len(history')
  <2>1. Len(history') \in Nat
    BY <1>7, LenProperties
  <2> QED
    BY <1>7, <2>1
<1> QED
  BY <1>1, <1>5, <1>6, <1>7, <1>8

\* What the screen is left with by a line that is entered.
LEMMA EnterKept ==
    ASSUME TypeInv, Enter
    PROVE  /\ multiline' \in BOOLEAN /\ navigating' \in BOOLEAN /\ ~navigating'
           /\ rlLine' \in Headed /\ currentInput' \in Headed
<1>1. multiline' = multiline /\ navigating' = FALSE /\ rlLine' = <<>>
      /\ currentInput' = IF navigating THEN <<>> ELSE currentInput
  BY DEF Enter
<1>2. <<>> \in Headed
  BY HeadedNil
<1>3. multiline \in BOOLEAN /\ currentInput \in Headed
  BY DEF TypeInv
<1> QED
  BY <1>1, <1>2, <1>3, Zenon

\* A line that hands a statement over, or adds to the unfinished one, keeps
\* the types and the file.
LEMMA LineKept ==
    ASSUME TypeInv, FileInv, NEW line \in Headed,
           SkipBlank(line) \/ Statement(line) \/ OneLine(line) \/ Command(line)
    PROVE  TypeInv' /\ FileInv'
<1> DEFINE Waits == /\ input' \in Inputs
                    /\ pending' = Append(pending, line)
                    /\ UNCHANGED <<historyVars, handed>>
           Hands == \E text \in Headed : \E white \in Whites : \E entry \in Entries :
                       Hand(line, text, white, entry)
<1>1. Enter
  BY DEF SkipBlank, Statement, OneLine, Command
<1>2. line \in Seq(Chars)
  BY DEF Headed
<1>3. Waits \/ Hands
  <2>1. CASE SkipBlank(line)
    BY <2>1 DEF SkipBlank, TypeInv
  <2>2. CASE Statement(line)
    <3>1. /\ Checked(line).buffer \in Headed /\ Checked(line).white \in Whites
          /\ MoreLines(line) \in Inputs /\ MoreLines(line).lines \in SaidLines
      BY CheckedType DEF TypeInv
    <3>2. CASE ~Checked(line).complete
      BY <2>2, <3>1, <3>2 DEF Statement, MultilineStep
    <3>3. CASE Checked(line).complete
      <4>1. EntryOf(Checked(line).buffer, Checked(line).white, MoreLines(line).lines) \in Entries
        BY <3>1, EntryType
      <4>2. Hand(line, Checked(line).buffer, Checked(line).white,
                 EntryOf(Checked(line).buffer, Checked(line).white, MoreLines(line).lines))
        BY <2>2, <3>3 DEF Statement, MultilineStep
      <4> QED
        BY <3>1, <4>1, <4>2
    <3> QED
      BY <3>2, <3>3
  <2>3. CASE OneLine(line)
    <3>1. CASE MultilineCommand(line)
      <4>1. PICK text, white : text = UpToSemicolon(line) /\ white = [blanks |-> Inside(line), newlines |-> {}]
        OBVIOUS
      <4>2. text \in Headed /\ white \in Whites
        BY <1>2, <4>1, UpToHeaded, InsideType DEF Whites
      <4>3. EntryOf(text, white, <<>>) \in Entries
        <5>1. <<>> \in SaidLines
          BY EmptySeq DEF SaidLines
        <5> QED
          BY <4>2, <5>1, EntryType
      <4>4. Hand(line, text, white, EntryOf(text, white, <<>>))
        BY <2>3, <3>1, <4>1 DEF OneLine
      <4> QED
        BY <4>2, <4>3, <4>4
    <3>2. CASE ~MultilineCommand(line)
      <4>1. Hand(line, line, NoWhite, <<Append(line, ";")>>)
        BY <2>3, <3>2 DEF OneLine
      <4>2. <<Append(line, ";")>> \in Entries
        BY OneLineType
      <4> QED
        BY <4>1, <4>2, NoWhiteType
    <3> QED
      BY <3>1, <3>2
  <2>4. CASE Command(line)
    <3>1. line # <<>> /\ Hand(line, line, NoWhite, <<line>>)
      BY <2>4 DEF Command
    <3>2. <<line>> \in Entries
      <4> DEFINE S == Headed \ {<<>>}
      <4>1. line \in S
        BY <3>1
      <4> HIDE DEF S
      <4>2. <<line>> \in Seq(S) /\ <<line>> # <<>>
        BY <4>1
      <4> QED
        BY <4>2 DEF S, SaidLines, Entries
    <3> QED
      BY <3>1, <3>2, NoWhiteType
  <2> QED
    BY <2>1, <2>2, <2>3, <2>4
<1>4. CASE Waits
  <2>1. pending' \in Seq(Seq(Chars))
    BY <1>2, <1>4, AppendProperties DEF TypeInv
  <2>2. /\ history' = history /\ historyIndex' = historyIndex /\ file' = file /\ handed' = handed
        /\ input' \in Inputs
    BY <1>4 DEF historyVars
  <2> HIDE DEF Waits, Hands
  <2>3. TypeInv'
    BY <1>1, <2>1, <2>2, EnterKept DEF TypeInv
  <2>4. FileInv'
    BY <2>2 DEF FileInv
  <2> QED
    BY <2>3, <2>4
<1>5. CASE Hands
  <2>1. /\ input' \in Inputs /\ handed' \in Seq(Stmts) /\ pending' \in Seq(Seq(Chars))
        /\ history' \in Seq(Entries) /\ Len(history') <= HistoryMax
        /\ historyIndex' \in 0 .. Len(history')
        /\ FileInv'
    BY <1>5, HandKept
  <2> QED
    BY <1>1, <2>1, EnterKept DEF TypeInv
<1> QED
  BY <1>3, <1>4, <1>5

\* The arrow keys show entries of the history, or what they replaced.
LEMMA KeysKept ==
    ASSUME TypeInv, FileInv, (\E line \in Drafts : Type(line)) \/ Up \/ Down
    PROVE  TypeInv' /\ FileInv'
<1>1. FileInv'
  <2>1. history' = history /\ file' = file
    BY DEF Type, Up, Down, historyVars
  <2> QED
    BY <2>1 DEF FileInv
<1>2. \A i \in 1 .. Len(history) : HistoryLine(history[i]) \in Headed
  <2> SUFFICES ASSUME NEW i \in 1 .. Len(history) PROVE HistoryLine(history[i]) \in Headed
    OBVIOUS
  <2>1. history[i] \in Entries
    BY ElementOfSeq DEF TypeInv
  <2> QED
    BY <2>1, ShownHeaded DEF Entries, SaidLines
<1>3. /\ multiline' = multiline /\ input' = input /\ history' = history
      /\ handed' = handed /\ pending' = pending
  BY DEF Type, Up, Down, historyVars
<1>4. Len(history) \in Nat /\ (history # <<>> => 1 <= Len(history))
  BY LenProperties, EmptySeq DEF TypeInv
<1>5. <<>> \in Headed
  BY HeadedNil
<1>6. /\ historyIndex' \in 0 .. Len(history)
      /\ rlLine' \in Headed /\ currentInput' \in Headed
      /\ navigating' \in BOOLEAN /\ (navigating' => history # <<>>)
  <2>0. /\ historyIndex \in 0 .. Len(history) /\ rlLine \in Headed /\ currentInput \in Headed
        /\ navigating \in BOOLEAN /\ (navigating => history # <<>>)
    BY DEF TypeInv
  <2>1. CASE \E line \in Drafts : Type(line)
    <3>1. PICK line \in Drafts : Type(line)
      BY <2>1
    <3>2. line \in Headed
      BY <2>0, LineHeaded
    <3> QED
      BY <1>5, <2>0, <3>1, <3>2 DEF Type, historyVars
  <2>2. CASE Up
    <3>1. currentInput' \in Headed
      BY <2>0, <2>2 DEF Up
    <3>2. CASE history = <<>>
      BY <2>0, <2>2, <3>1, <3>2 DEF Up
    <3>3. CASE history # <<>>
      <4>1. PICK index : index = IF historyIndex > 0 THEN historyIndex - 1 ELSE 0
        OBVIOUS
      <4>2. index \in 0 .. Len(history) /\ index + 1 \in 1 .. Len(history)
        BY <1>4, <2>0, <3>3, <4>1
      <4>3. historyIndex' = index /\ rlLine' = HistoryLine(history[index + 1]) /\ navigating' = TRUE
        BY <2>2, <3>3, <4>1 DEF Up
      <4> QED
        BY <1>2, <3>1, <3>3, <4>2, <4>3
    <3> QED
      BY <3>2, <3>3
  <2>3. CASE Down
    <3>1. history # <<>> /\ navigating' = TRUE
      BY <2>3 DEF Down
    <3>2. CASE historyIndex < Len(history) - 1
      <4>1. historyIndex' = historyIndex + 1 /\ rlLine' = HistoryLine(history[historyIndex + 2])
            /\ currentInput' = currentInput
        BY <2>3, <3>2 DEF Down
      <4>2. historyIndex + 1 \in 0 .. Len(history) /\ historyIndex + 2 \in 1 .. Len(history)
        BY <1>4, <2>0, <3>2
      <4> QED
        BY <1>2, <2>0, <3>1, <4>1, <4>2
    <3>3. CASE ~(historyIndex < Len(history) - 1)
      <4>1. historyIndex' = Len(history) /\ rlLine' = currentInput /\ currentInput' = <<>>
        BY <2>3, <3>3 DEF Down
      <4> QED
        BY <1>4, <1>5, <2>0, <3>1, <4>1
    <3> QED
      BY <3>2, <3>3
  <2> QED
    BY <2>1, <2>2, <2>3
<1>7. TypeInv'
  BY <1>3, <1>6 DEF TypeInv
<1> QED
  BY <1>1, <1>7

\* A new process reads what the file has.
LEMMA SessionKept ==
    ASSUME TypeInv, NEW entries \in Seq(Entries), Len(entries) <= HistoryMax, NewSession(entries),
           UNCHANGED multiline
    PROVE  TypeInv'
<1>1. Len(entries) \in 0 .. Len(entries)
  BY LenProperties
<1>2. <<>> \in Seq(Stmts) /\ <<>> \in Seq(Seq(Chars)) /\ <<>> \in Headed
  BY HeadedNil, EmptySeq
<1> QED
  BY <1>1, <1>2, FreshInputType DEF NewSession, TypeInv

\* The types and the file are kept by every step.
LEMMA NextTyped == TypeInv /\ FileInv /\ [Next]_vars => TypeInv' /\ FileInv'
<1> SUFFICES ASSUME TypeInv, FileInv, [Next]_vars PROVE TypeInv' /\ FileInv'
  OBVIOUS
<1>0. Len(history) \in Nat /\ history \in Seq(Entries) /\ Len(history) <= HistoryMax
  BY LenProperties DEF TypeInv
<1>1. CASE (\E line \in Drafts : Type(line)) \/ Up \/ Down
  BY <1>1, KeysKept
<1>2. ASSUME NEW line \in Lines \cup {rlLine},
             SkipBlank(line) \/ Statement(line) \/ OneLine(line) \/ Command(line)
      PROVE  TypeInv' /\ FileInv'
  <2>1. line \in Headed
    BY LineHeaded DEF TypeInv
  <2> QED
    BY <1>2, <2>1, LineKept
<1>3. ASSUME NEW line, Exit(line) PROVE TypeInv' /\ FileInv'
  <2>1. file' = history /\ NewSession(history) /\ UNCHANGED multiline
    BY <1>3 DEF Exit
  <2>2. TypeInv'
    BY <1>0, <2>1, SessionKept
  <2>3. file' = history /\ history' = history
    BY <2>1 DEF NewSession
  <2>4. FileInv'
    <3>1. 0 <= Len(history) % SavePeriod
      BY <1>0, Bounds
    <3>2. IsPrefix(history, history)
      BY <1>0 DEF IsPrefix
    <3> QED
      BY <1>0, <2>3, <3>1, <3>2 DEF FileInv
  <2> QED
    BY <2>2, <2>4
<1>4. CASE Kill
  <2>1. NewSession(file) /\ UNCHANGED <<multiline, file>>
    BY <1>4 DEF Kill
  <2>2. file \in Seq(Entries) /\ Len(file) \in Nat /\ Len(file) <= Len(history)
    BY LenProperties DEF FileInv, IsPrefix
  <2>3. TypeInv'
    BY <1>0, <2>1, <2>2, Bounds, SessionKept
  <2>4. file' = file /\ history' = file
    BY <2>1 DEF NewSession
  <2>5. FileInv'
    <3>1. 0 <= Len(file) % SavePeriod
      BY <2>2, Bounds
    <3>2. IsPrefix(file, file)
      BY <2>2 DEF IsPrefix
    <3> QED
      BY <2>2, <2>4, <3>1, <3>2 DEF FileInv
  <2> QED
    BY <2>3, <2>5
<1>5. CASE UNCHANGED vars
  <2>1. TypeInv'
    BY <1>5 DEF TypeInv, vars, historyVars, screenVars
  <2>2. FileInv'
    BY <1>5 DEF FileInv, vars, historyVars, screenVars
  <2> QED
    BY <2>1, <2>2
<1> QED
  BY <1>1, <1>2, <1>3, <1>4, <1>5 DEF Next

\* The types and the file at the beginning.
LEMMA InitTyped == Init => TypeInv /\ FileInv
<1> SUFFICES ASSUME Init PROVE TypeInv /\ FileInv
  OBVIOUS
<1>1. PICK none : none = <<>>
  OBVIOUS
<1>2. /\ none \in Seq(Entries) /\ none \in Seq(Stmts) /\ none \in Seq(Seq(Chars)) /\ none \in Headed
      /\ Len(none) = 0
  BY <1>1, HeadedNil
<1>3. /\ history = none /\ historyIndex = 0 /\ file = none /\ rlLine = none /\ currentInput = none
      /\ navigating = FALSE /\ handed = none /\ pending = none /\ multiline \in BOOLEAN
      /\ input = FreshInput
  BY <1>1 DEF Init
<1>4. TypeInv
  <2>1. history \in Seq(Entries) /\ Len(history) <= HistoryMax /\ historyIndex \in 0 .. Len(history)
    BY <1>2, <1>3, Bounds
  <2>2. rlLine \in Headed /\ currentInput \in Headed /\ handed \in Seq(Stmts) /\ pending \in Seq(Seq(Chars))
    BY <1>2, <1>3
  <2>3. input \in Inputs /\ multiline \in BOOLEAN /\ navigating \in BOOLEAN /\ ~navigating
    BY <1>3, FreshInputType
  <2> QED
    BY <2>1, <2>2, <2>3 DEF TypeInv
<1>5. FileInv
  <2>1. 0 <= Len(none) % SavePeriod
    BY <1>2, Bounds
  <2>2. IsPrefix(none, none)
    BY <1>2 DEF IsPrefix
  <2> QED
    BY <1>2, <1>3, <2>1, <2>2 DEF FileInv
<1> QED
  BY <1>4, <1>5

\* The types and the file: what makes FileKeepsUp inductive.
IInv == TypeInv /\ FileInv

\* What is kept up is what FileKeepsUp promises.
LEMMA KeepsUp == IInv => FileKeepsUp
<1> SUFFICES ASSUME TypeInv, FileInv PROVE FileKeepsUp
  BY DEF IInv
<1>1. Headed \ {<<>>} \subseteq Seq(Chars) /\ Headed \subseteq Seq(Chars)
  BY DEF Headed
<1>2. SaidLines \subseteq Seq(Seq(Chars)) /\ Entries \subseteq Seq(Seq(Chars))
  BY <1>1, SeqMonotonic DEF SaidLines, Entries
<1>3. input.lines \in SaidLines /\ \A i \in DOMAIN input.lines : input.lines[i] # <<>>
  <2>1. input.lines \in SaidLines
    BY DEF TypeInv, Inputs
  <2>2. \A i \in 1 .. Len(input.lines) : input.lines[i] \in Headed \ {<<>>}
    BY <2>1, ElementOfSeq DEF SaidLines
  <2>3. DOMAIN input.lines = 1 .. Len(input.lines)
    BY <2>1, LenProperties DEF SaidLines
  <2> QED
    BY <2>1, <2>2, <2>3
<1>4. history \in Seq(Seq(Seq(Chars))) /\ \A i \in DOMAIN history : history[i] # <<>>
  <2>1. \A i \in 1 .. Len(history) : history[i] \in Entries
    BY ElementOfSeq DEF TypeInv
  <2>2. DOMAIN history = 1 .. Len(history)
    BY LenProperties DEF TypeInv
  <2>3. history \in Seq(Seq(Seq(Chars)))
    BY <1>2, SeqMonotonic DEF TypeInv
  <2> QED
    BY <2>1, <2>2, <2>3 DEF Entries
<1>5. ReplTypeOK
  <2>1. /\ input.scan \in Scans /\ input.multi \in BOOLEAN
        /\ input.buffer \in Seq(Chars) /\ input.white \in Whites
    BY <1>1 DEF TypeInv, Inputs
  <2>2. input.lines \in Seq(Seq(Chars))
    BY <1>2, <1>3
  <2>3. rlLine \in Seq(Chars) /\ currentInput \in Seq(Chars)
    BY <1>1 DEF TypeInv
  <2> QED
    BY <1>3, <1>4, <2>1, <2>2, <2>3 DEF ReplTypeOK, TypeInv
<1>6. Len(history) < Len(file) + SavePeriod
  <2>1. Len(history) \in Nat /\ Len(file) \in Nat
    BY LenProperties DEF TypeInv, FileInv
  <2>2. Len(history) % SavePeriod < SavePeriod /\ Len(history) % SavePeriod \in Nat
    BY <2>1, Bounds
  <2>3. Len(history) - Len(file) <= Len(history) % SavePeriod
    BY DEF FileInv
  <2> QED
    BY <2>1, <2>2, <2>3, Bounds
<1> QED
  BY <1>5, <1>6 DEF FileKeepsUp, FileInv

\* The types are kept, and so are the file and its history: a process that is
\* killed loses less than SavePeriod entries.
THEOREM HistoryIsKept == Spec => []FileKeepsUp
<1>1. Init => IInv
  BY InitTyped DEF IInv
<1>2. IInv /\ [Next]_vars => IInv'
  BY NextTyped DEF IInv
<1> QED
  BY <1>1, <1>2, KeepsUp, PTL DEF Spec

-----------------------------------------------------------------------------
(***************************************************************************)
(* The script reader keeps step with the prompt: what it has of the lines  *)
(* so far is what was handed over, the buffer and the scan.                *)
(***************************************************************************)
\* With multiline off nothing is kept of a line, and a statement is taken for
\* one of several lines as soon as a bracket is left open.
PromptInv ==
    /\ ~multiline => input = FreshInput
    /\ ~input.multi => \A k \in Kinds : input.scan.depth[k] <= 0

\* A text whose white space the two readers do not keep alike.
Apart(text, white) == Starts(text, "curl") \/ Calls(text, white, "catch")

\* White space that is the same but for blanks at the ends of the text.
SpacedAlike(text, a, b) ==
    /\ a.newlines = b.newlines
    /\ \A n \in Nat \ {0, Len(text)} : n \in a.blanks <=> n \in b.blanks

\* A statement of a script is the one that was handed over.
SameStatement(read, stmt) ==
    /\ read.text = stmt.text
    /\ ~Apart(stmt.text, stmt.white) => read.white = stmt.white

\* The parser of a script is where the prompt is.
InStep(script) ==
    /\ Len(script.out) = Len(handed)
    /\ \A i \in 1 .. Len(handed) : SameStatement(script.out[i], handed[i])
    /\ script.buffer = input.buffer /\ script.scan = input.scan
    /\ input.multi => input.buffer # <<>>
    /\ ~Starts(input.buffer, "event")
    /\ input.white.blanks \cap input.white.newlines = {}
    /\ ~Apart(input.buffer, input.white) => SpacedAlike(input.buffer, input.white, script.white)

ReaderInv == PromptInv /\ (InBoth(LinesSoFar) => InStep(ReadScript(multiline, LinesSoFar)))

\* A line is the last of the lines so far, whether it waits or is handed over.
LEMMA LinesGrow ==
    ASSUME NEW hs \in Seq(Stmts), NEW p \in Seq(Seq(Chars)), NEW line \in Seq(Chars),
           NEW text \in Seq(Chars), NEW white \in Whites
    PROVE  /\ LinesOf(hs) \o p \in Seq(Seq(Chars))
           /\ LinesOf(hs) \o Append(p, line) = Append(LinesOf(hs) \o p, line)
           /\ LinesOf(Append(hs, [text |-> text, white |-> white, lines |-> Append(p, line)])) \o <<>>
                 = Append(LinesOf(hs) \o p, line)
<1> DEFINE S == Seq(Chars)
<1>1. PICK before : before = LinesOf(hs)
  OBVIOUS
<1>2. before \in Seq(S)
  BY <1>1, LinesSteps
<1>3. PICK stmt : stmt = [text |-> text, white |-> white, lines |-> Append(p, line)]
  OBVIOUS
<1>4. Append(p, line) \in Seq(S)
  BY AppendProperties
<1>5. stmt \in Stmts /\ stmt.lines = Append(p, line)
  BY <1>3, <1>4 DEF Stmts
<1>6. LinesOf(Append(hs, stmt)) = before \o stmt.lines
  BY <1>1, <1>5, LinesSteps DEF WithLines
<1>7. before \o p \in Seq(S) /\ before \o Append(p, line) \in Seq(S)
  BY <1>2, <1>4, ConcatProperties
<1>8. before \o Append(p, line) = Append(before \o p, line)
  <2> HIDE DEF S
  <2>1. line \in S /\ p \in Seq(S)
    BY DEF S
  <2> QED
    BY <1>2, <2>1, ConcatAppend
<1>9. (before \o Append(p, line)) \o <<>> = before \o Append(p, line)
  <2>1. PICK all : all = before \o Append(p, line)
    OBVIOUS
  <2>2. all \o <<>> = all
    BY <1>7, <2>1, ConcatEmptySeq
  <2> QED
    BY <2>1, <2>2, Zenon
<1>10. LinesOf(Append(hs, stmt)) \o <<>> = Append(before \o p, line)
  BY <1>5, <1>6, <1>8, <1>9, Zenon
<1> QED
  BY <1>1, <1>3, <1>7, <1>8, <1>10, Zenon

\* What Tidy says of each of its lines.
TidyLine(line) ==
    \A j \in DOMAIN line :
        /\ line[j] = ";" => j = Len(line) /\ (j = 1 \/ line[j-1] # "\\")
        /\ line[j] = "\\" => j # Len(line)

\* Lines with one more are tidy when they are and it is.
LEMMA TidyGrows ==
    ASSUME NEW lines \in Seq(Seq(Chars)), NEW line \in Seq(Chars)
    PROVE  Tidy(Append(lines, line)) <=> Tidy(lines) /\ TidyLine(line)
<1>1. \A ls : Tidy(ls) <=> \A i \in DOMAIN ls : TidyLine(ls[i])
  BY Zenon DEF Tidy, TidyLine
<1>2. PICK more : more = Append(lines, line)
  OBVIOUS
<1>3. /\ DOMAIN lines = 1 .. Len(lines) /\ Len(lines) \in Nat
      /\ DOMAIN more = 1 .. Len(lines) + 1
      /\ (\A i \in 1 .. Len(lines) : more[i] = lines[i]) /\ more[Len(lines) + 1] = line
  BY <1>2, AppendProperties, LenProperties
<1>4. (\A i \in DOMAIN more : TidyLine(more[i]))
         <=> (\A i \in DOMAIN lines : TidyLine(lines[i])) /\ TidyLine(line)
  <2>1. \A i : i \in DOMAIN more <=> i \in DOMAIN lines \/ i = Len(lines) + 1
    BY <1>3
  <2>2. (\A i \in DOMAIN lines : more[i] = lines[i]) /\ more[Len(lines) + 1] = line
    BY <1>3
  <2> QED
    BY <2>1, <2>2, Zenon
<1> QED
  BY <1>1, <1>2, <1>4, Zenon

\* What both readers are meant to read alike is so without its last line.
LEMMA InBothPrefix ==
    ASSUME NEW lines \in Seq(Seq(Chars)), NEW line \in Seq(Chars), InBoth(Append(lines, line))
    PROVE  /\ InBoth(lines) /\ TidyLine(line)
           /\ line # <<>> => Head(line) \notin {"event", "#"}
           /\ ~multiline => ~Starts(line, "curl")
           /\ ~ReadScript(multiline, lines).error
           /\ ~ScriptLine(multiline, ReadScript(multiline, lines), line).error
           /\ ReadScript(multiline, Append(lines, line))
                = ScriptLine(multiline, ReadScript(multiline, lines), line)
<1>1. PICK more : more = Append(lines, line)
  OBVIOUS
<1>2. /\ DOMAIN lines = 1 .. Len(lines) /\ Len(lines) \in Nat
      /\ DOMAIN more = 1 .. Len(lines) + 1
      /\ (\A i \in 1 .. Len(lines) : more[i] = lines[i]) /\ more[Len(lines) + 1] = line
  BY <1>1, AppendProperties, LenProperties
<1>3. ReadScript(multiline, more) = ScriptLine(multiline, ReadScript(multiline, lines), line)
  BY <1>1, ReadSteps
<1>4. InBoth(more)
  BY <1>1
<1>5. Tidy(lines) /\ TidyLine(line)
  BY <1>1, <1>4, TidyGrows DEF InBoth
<1>6. (\A i \in DOMAIN lines : lines[i] # <<>> => Head(lines[i]) \notin {"event", "#"})
      /\ (line # <<>> => Head(line) \notin {"event", "#"})
  <2>1. \A i \in DOMAIN more : more[i] # <<>> => Head(more[i]) \notin {"event", "#"}
    BY <1>4 DEF InBoth
  <2> QED
    BY <1>2, <2>1
<1>7. ~multiline => (\A i \in DOMAIN lines : ~Starts(lines[i], "curl")) /\ ~Starts(line, "curl")
  <2>1. ~multiline => \A i \in DOMAIN more : ~Starts(more[i], "curl")
    BY <1>4 DEF InBoth
  <2> QED
    BY <1>2, <2>1
<1>8. ~ScriptLine(multiline, ReadScript(multiline, lines), line).error
  BY <1>3, <1>4 DEF InBoth
<1>9. ~ReadScript(multiline, lines).error
  BY <1>8 DEF ScriptLine
<1> QED
  BY <1>1, <1>3, <1>5, <1>6, <1>7, <1>8, <1>9 DEF InBoth

\* No bracket is a quote, the backslash, or a bracket of another kind's end.
LEMMA Brackets ==
    \A k \in Kinds :
        /\ Opening[k] \notin {"'", "\"", "\\"} /\ Closing[k] \notin {"'", "\"", "\\"}
        /\ Opening[k] # Closing[k]
        /\ Opening[k] \notin {" ", ";"} /\ Closing[k] \notin {" ", ";"}
<1>1. Kinds = {"paren", "bracket", "brace"}
  BY DEF Kinds, Opening
<1>2. /\ Opening["paren"] = "(" /\ Opening["bracket"] = "[" /\ Opening["brace"] = "{"
      /\ Closing["paren"] = ")" /\ Closing["bracket"] = "]" /\ Closing["brace"] = "}"
  BY DEF Opening, Closing
<1> QED
  BY <1>1, <1>2

\* A blank or a semicolon opens and closes no bracket.
LEMMA CountedNeutral ==
    ASSUME NEW scan \in Scans, NEW ch, ch \in {" ", ";"} PROVE Counted(scan.depth, ch) = scan.depth
<1>1. scan.depth \in [Kinds -> Int]
  BY DEF Scans
<1>2. \A k \in Kinds : Counted(scan.depth, ch)[k] = scan.depth[k]
  <2> SUFFICES ASSUME NEW k \in Kinds PROVE Counted(scan.depth, ch)[k] = scan.depth[k]
    OBVIOUS
  <2>1. ch # Opening[k] /\ ch # Closing[k]
    BY Brackets
  <2>2. PICK old, new : old = scan.depth[k] /\ new = Counted(scan.depth, ch)[k]
    OBVIOUS
  <2>3. new = old + 0
    BY <2>1, <2>2, Zenon DEF Counted
  <2>4. old \in Int
    BY <1>1, <2>2
  <2>5. new = old
    BY ONLY <2>3, <2>4
  <2> QED
    BY <2>2, <2>5, Zenon
<1>3. Counted(scan.depth, ch) = [k \in Kinds |-> Counted(scan.depth, ch)[k]]
  BY DEF Counted
<1> QED
  BY <1>1, <1>2, <1>3

\* A semicolon is no bracket.
LEMMA SemicolonDepth ==
    ASSUME NEW scan \in Scans PROVE ScanChar(scan, ";").depth = scan.depth
<1>1. PICK semi : semi = ";"
  OBVIOUS
<1>2. Counted(scan.depth, semi) = scan.depth
  BY <1>1, CountedNeutral
<1>3. ScanChar(scan, semi).depth = scan.depth
  BY <1>2 DEF ScanChar, Scans
<1> QED
  BY <1>1, <1>3

\* A tidy line that begins with a semicolon is that semicolon.
LEMMA OnlySemicolon ==
    ASSUME NEW scan \in Scans, NEW line \in Seq(Chars), line # <<>>, line[1] = ";", TidyLine(line)
    PROVE  HasSemicolon(line) /\ Scan(scan, line).depth = scan.depth
<1>1. Len(line) \in Nat /\ 1 \in 1 .. Len(line) /\ DOMAIN line = 1 .. Len(line)
  <2>1. Len(line) \in Nat \ {0} /\ DOMAIN line = 1 .. Len(line)
    BY LenProperties, EmptySeq, Zenon
  <2> QED
    BY ONLY <2>1
<1>2. HasSemicolon(line)
  BY <1>1, Zenon DEF HasSemicolon, Contains
<1>3. Len(line) = 1
  BY <1>1, Zenon DEF TidyLine
<1>4. PICK none, ch : none = <<>> /\ ch = ";"
  OBVIOUS
<1>5. ch \in Chars /\ none \in Seq(Chars)
  BY <1>4, CharsAssumption, EmptySeq, Zenon
<1>6. line = Append(none, ch)
  <2>1. Append(none, ch) \in Seq(Chars) /\ Len(Append(none, ch)) = 1 /\ Append(none, ch)[1] = ch
    <3>1. Len(none) = 0
      BY <1>4
    <3>2. /\ Append(none, ch) \in Seq(Chars) /\ Len(Append(none, ch)) = Len(none) + 1
          /\ Append(none, ch)[Len(none) + 1] = ch
      BY <1>5, AppendProperties
    <3> QED
      BY ONLY <3>1, <3>2
  <2>2. line[1] = ch
    BY <1>4
  <2>3. \A i \in 1 .. Len(line) : line[i] = Append(none, ch)[i]
    <3>1. \A i \in 1 .. Len(line) : i = 1
      BY ONLY <1>3
    <3> QED
      BY <2>1, <2>2, <3>1, Zenon
  <2> QED
    BY <1>3, <2>1, <2>3, SeqEqual
<1>7. Scan(scan, none) = scan
  BY <1>4, ScanSteps, Zenon
<1>8. Scan(scan, line) = ScanChar(scan, ch)
  <2>1. Scan(scan, Append(none, ch)) = ScanChar(Scan(scan, none), ch)
    BY <1>5, ScanSteps
  <2> QED
    BY <1>6, <1>7, <2>1, Zenon
<1> QED
  BY <1>2, <1>4, <1>8, SemicolonDepth, Zenon

\* An empty line changes neither the scan nor the buffer, and ends nothing.
LEMMA EmptyLine ==
    ASSUME NEW buffer \in Seq(Chars), NEW scan \in Scans
    PROVE  /\ Scan(scan, <<>>) = scan
           /\ buffer \o UpToSemicolon(<<>>) = buffer
           /\ ~HasSemicolon(<<>>)
<1>1. ~HasSemicolon(<<>>)
  BY DEF HasSemicolon, Contains
<1>2. UpToSemicolon(<<>>) = <<>>
  <2>1. PICK none : none = <<>>
    OBVIOUS
  <2>2. none \in Seq(Chars) /\ ~HasSemicolon(none)
    BY <1>1, <2>1, EmptySeq, Zenon
  <2>3. SelectInSeq(none, LAMBDA ch : ch = ";") = 0
    BY <2>2, FirstSemicolon
  <2>4. UpToSemicolon(none) = Bare(none)
    BY <2>3 DEF UpToSemicolon, Cut
  <2>5. Bare(<<>>) = <<>>
    BY BareSteps
  <2> QED
    BY <2>1, <2>4, <2>5, Zenon
<1>3. buffer \o <<>> = buffer
  BY ConcatEmptySeq
<1> QED
  BY <1>1, <1>2, <1>3, ScanSteps, Zenon

\* An unfinished statement of several lines has something in its buffer.
LEMMA MoreHasText ==
    ASSUME TypeInv, PromptInv, NEW line \in Headed, TidyLine(line),
           input.multi \/ line # <<>>, input.multi => input.buffer # <<>>, MoreLines(line).multi
    PROVE  MoreLines(line).buffer # <<>>
<1>1. input.buffer \in Seq(Chars) /\ input.scan \in Scans /\ input.multi \in BOOLEAN /\ line \in Seq(Chars)
  BY DEF TypeInv, Inputs, Headed
<1>2. PICK more : more = UpToSemicolon(line)
  OBVIOUS
<1>3. more \in Seq(Chars) /\ Checked(line).scan = Scan(input.scan, line)
      /\ MoreLines(line).buffer = input.buffer \o more
  <2>1. more \in Seq(Chars)
    BY <1>1, <1>2, MoreText
  <2>2. Checked(line).scan = Scan(input.scan, line) /\ Checked(line).buffer = input.buffer \o more
    BY <1>1, <1>2, CheckType DEF Checked, TypeInv, Inputs
  <2> QED
    BY <2>1, <2>2 DEF MoreLines, InputAfter
<1>4. CASE input.buffer # <<>>
  BY <1>1, <1>3, <1>4, ConcatStart
<1>5. CASE input.buffer = <<>>
  <2>1. ~input.multi /\ line # <<>>
    BY <1>1, <1>5
  <2>2. line[1] # " "
    BY <2>1 DEF Headed
  <2>3. line[1] # ";"
    <3>1. SUFFICES ASSUME line[1] = ";" PROVE FALSE
      OBVIOUS
    <3>2. HasSemicolon(line) /\ Scan(input.scan, line).depth = input.scan.depth
      BY <1>1, <2>1, <3>1, OnlySemicolon
    <3>3. PICK k \in Kinds : Checked(line).scan.depth[k] > 0
      BY <2>1, <3>2 DEF MoreLines, InputAfter
    <3>4. input.scan.depth[k] > 0 /\ input.scan.depth[k] <= 0
      BY <1>3, <2>1, <3>2, <3>3 DEF PromptInv
    <3>5. input.scan.depth[k] \in Int
      BY <1>1, <3>3 DEF Scans
    <3> QED
      BY <3>4, <3>5
  <2>4. more # <<>>
    BY <1>1, <1>2, <2>1, <2>2, <2>3, UpToHeaded
  <2>5. input.buffer \o more = more
    BY <1>3, <1>5, ConcatEmptySeq
  <2> QED
    BY <1>3, <2>4, <2>5
<1> QED
  BY <1>4, <1>5

\* A text calls what a part of it at its start calls, if there is no more
\* white space in that part.
LEMMA CallsStay ==
    ASSUME NEW short \in Seq(Chars), NEW text \in Seq(Chars), Len(short) <= Len(text),
           \A n \in 1 .. Len(short) : text[n] = short[n],
           NEW v, NEW w, \A n \in 1 .. Len(short) - 1 : n \in Gaps(w) => n \in Gaps(v),
           NEW name, Calls(short, v, name)
    PROVE  Calls(text, w, name)
<1>1. PICK dot, bracket : dot = "." /\ bracket = "("
  OBVIOUS
<1>2. PICK n \in 1 .. Len(short) - 2 :
         short[n] = dot /\ short[n+1] = name /\ short[n+2] = bracket /\ {n, n + 1} \cap Gaps(v) = {}
  BY <1>1 DEF Calls
<1>3. Len(short) \in Nat /\ Len(text) \in Nat
  BY LenProperties
<1>4. /\ n \in 1 .. Len(text) - 2
      /\ n \in 1 .. Len(short) /\ n + 1 \in 1 .. Len(short) /\ n + 2 \in 1 .. Len(short)
      /\ n \in 1 .. Len(short) - 1 /\ n + 1 \in 1 .. Len(short) - 1
  BY ONLY <1>3, n \in 1 .. Len(short) - 2, Len(short) <= Len(text)
<1>5. text[n] = dot /\ text[n+1] = name /\ text[n+2] = bracket
  BY <1>2, <1>4
<1>6. {n, n + 1} \cap Gaps(w) = {}
  BY <1>2, <1>4
<1> QED
  BY <1>1, <1>4, <1>5, <1>6 DEF Calls

\* A joined text has no white space more in the text that was there.
LEMMA JoinedBefore ==
    ASSUME NEW text \in Seq(Chars), NEW white \in Whites, NEW separator, NEW line \in Seq(Chars)
    PROVE  /\ \A n \in 1 .. Len(text) - 1 :
                 n \in Gaps(Joined(text, white, separator, line)) => n \in Gaps(white)
           /\ LET all == Joined(text, white, separator, line) IN all.blanks \cap all.newlines = {}
<1>1. PICK k, newline, blank, inside :
         k = Len(text) /\ newline = (separator = "newline") /\ blank = (separator = "blank") /\ inside = Inside(line)
  OBVIOUS
<1>2. k \in Nat /\ inside \subseteq Nat
  BY <1>1, InsideType, LenProperties
<1>3. PICK newlines : newlines = white.newlines \cup {n \in {k} : newline}
  OBVIOUS
<1>4. PICK blanks : blanks = white.blanks \cup {n \in {k} : blank} \cup {k + i : i \in inside}
  OBVIOUS
<1>5. PICK all : all = Joined(text, white, separator, line)
  OBVIOUS
<1>6. all = [blanks |-> blanks \ newlines, newlines |-> newlines]
  BY <1>1, <1>3, <1>4, <1>5, Zenon DEF Joined
<1>7. ASSUME NEW n \in 1 .. k - 1, n \in newlines \cup blanks PROVE n \in white.blanks \cup white.newlines
  <2>1. n # k /\ \A i \in inside : n # k + i
    BY <1>2, <1>7
  <2> QED
    BY <1>3, <1>4, <1>7, <2>1, Zenon
<1>8. all.blanks = blanks \ newlines /\ all.newlines = newlines
  BY <1>6
<1>9. \A n \in 1 .. k - 1 : n \in Gaps(all) => n \in Gaps(white)
  BY <1>7, <1>8, Zenon DEF Gaps
<1> QED
  BY <1>1, <1>5, <1>8, <1>9, Zenon

\* Texts that are spaced alike call alike.
LEMMA CallsAlike ==
    ASSUME NEW text \in Seq(Chars), NEW a \in Whites, NEW b \in Whites, SpacedAlike(text, a, b), NEW name
    PROVE  Calls(text, a, name) <=> Calls(text, b, name)
<1>1. Len(text) \in Nat /\ Len(text) <= Len(text)
  BY LenProperties
<1>2. \A n \in 1 .. Len(text) - 1 : n \in Nat \ {0, Len(text)}
  BY <1>1
<1>3. \A n \in 1 .. Len(text) - 1 : n \in Gaps(a) <=> n \in Gaps(b)
  BY <1>2, Zenon DEF SpacedAlike, Gaps
<1> QED
  BY <1>1, <1>3, CallsStay

\* Lines that are joined alike to texts that are spaced alike are spaced alike.
LEMMA JoinedAlike ==
    ASSUME NEW text \in Seq(Chars), NEW a \in Whites, NEW b \in Whites, SpacedAlike(text, a, b),
           NEW line \in Seq(Chars),
           NEW separator, separator \in {"newline", "blank"} \/ text = <<>>
    PROVE  SpacedAlike(text \o UpToSemicolon(line), Joined(text, a, separator, line), Joined(text, b, separator, line))
<1>1. PICK k, newline, blank, added :
         /\ k = Len(text) /\ newline = (separator = "newline") /\ blank = (separator = "blank")
         /\ added = {Len(text) + i : i \in Inside(line)}
  OBVIOUS
<1>2. newline \/ blank \/ k = 0
  <2>1. CASE separator \in {"newline", "blank"}
    BY <1>1, <2>1
  <2>2. CASE text = <<>>
    BY <1>1, <2>2
  <2> QED
    BY <2>1, <2>2
<1>3. PICK all : all = text \o UpToSemicolon(line)
  OBVIOUS
<1>4. PICK news : news = {n \in {k} : newline}
  OBVIOUS
<1>5. PICK ja, jb : ja = Joined(text, a, separator, line) /\ jb = Joined(text, b, separator, line)
  OBVIOUS
<1>6. /\ ja.newlines = a.newlines \cup news /\ jb.newlines = b.newlines \cup news
      /\ ja.blanks = (a.blanks \cup {n \in {k} : blank} \cup added) \ ja.newlines
      /\ jb.blanks = (b.blanks \cup {n \in {k} : blank} \cup added) \ jb.newlines
  BY <1>1, <1>4, <1>5 DEF Joined
<1>7. ja.newlines = jb.newlines
  BY <1>6 DEF SpacedAlike
<1>8. ASSUME NEW n \in Nat \ {0, Len(all)} PROVE n \in ja.blanks <=> n \in jb.blanks
  <2>1. CASE n # k
    <3>1. n \in a.blanks <=> n \in b.blanks
      BY <1>1, <2>1, <1>8 DEF SpacedAlike
    <3> QED
      BY <1>6, <1>7, <3>1, Zenon
  <2>2. CASE n = k /\ newline
    <3>1. n \in ja.newlines
      BY <1>4, <1>6, <2>2
    <3> QED
      BY <1>6, <1>7, <3>1, Zenon
  <2>3. CASE n = k /\ blank
    BY <1>6, <1>7, <2>3, Zenon
  <2> QED
    BY <1>2, <1>8, <2>1, <2>2, <2>3
<1> QED
  BY <1>3, <1>5, <1>7, <1>8, Zenon DEF SpacedAlike

\* The two readers separate the same lines alike.
LEMMA SeparatedAlike ==
    ASSUME NEW text \in Seq(Chars), NEW a \in Whites, NEW b \in Whites, SpacedAlike(text, a, b),
           ~Apart(text, a), ~Starts(text, "event"), NEW after, NEW line, line # <<>>
    PROVE  /\ PromptSeparator(text, a, after, line) = ScriptSeparator(text, b, after, line)
           /\ ScriptSeparator(text, b, after, line) \in {"newline", "blank"} \/ text = <<>>
<1>1. ~Starts(text, "curl") /\ ~Calls(text, a, "catch")
  BY DEF Apart
<1>2. ~Calls(text, b, "catch") /\ (Calls(text, a, "then") <=> Calls(text, b, "then"))
  BY <1>1, CallsAlike
<1>3. PICK keeps : keeps = (Calls(text, b, "then") \/ after.depth["brace"] > 0)
  OBVIOUS
<1>4. PromptSeparator(text, a, after, line) = Separator(text, line, keeps)
  BY <1>1, <1>2, <1>3, Zenon DEF PromptSeparator, Separator
<1>5. ScriptSeparator(text, b, after, line) = Separator(text, line, keeps)
  BY <1>1, <1>2, <1>3, Zenon DEF ScriptSeparator, Separator
<1>6. Separator(text, line, keeps) \in {"newline", "blank"} \/ text = <<>>
  BY <1>1, Zenon DEF Separator
<1> QED
  BY <1>4, <1>5, <1>6

\* Texts that are spaced alike are cleaned alike.
LEMMA CleanedAlike ==
    ASSUME NEW text \in Seq(Chars), NEW a \in Whites, NEW b \in Whites, SpacedAlike(text, a, b)
    PROVE  Cleaned(text, a) = Cleaned(text, b)
<1>1. PICK ends : ends = {0, Len(text)}
  OBVIOUS
<1>2. a.blanks \subseteq Nat /\ b.blanks \subseteq Nat
  BY DEF Whites
<1>3. \A n : n \in a.blanks \ ends <=> n \in b.blanks \ ends
  BY <1>1, <1>2 DEF SpacedAlike
<1>4. a.blanks \ ends = b.blanks \ ends
  BY <1>3
<1>5. Trimmed(text, a) = Trimmed(text, b)
  BY <1>1, <1>4 DEF Trimmed, Without, SpacedAlike
<1> QED
  BY <1>5 DEF Cleaned

\* What is cleaned has no white space more.
LEMMA CleanedLess ==
    ASSUME NEW text, NEW white PROVE \A n : n \in Gaps(Cleaned(text, white)) => n \in Gaps(white)
BY DEF Cleaned, Trimmed, Without, Gaps

\* A line that is not empty adds the same to the statement for both readers.
LEMMA CheckedAlike ==
    ASSUME NEW text \in Seq(Chars), NEW a \in Whites, NEW b \in Whites, NEW scan \in Scans,
           ~Apart(text, a) => SpacedAlike(text, a, b),
           NEW line \in Seq(Chars), line # <<>>,
           NEW prompt, prompt = PromptCheck(text, a, scan, line),
           NEW script, script = ScriptCheck(text, b, scan, line),
           ~Starts(text, "event"), ~Starts(prompt.buffer, "event")
    PROVE  /\ script.complete = prompt.complete /\ script.buffer = prompt.buffer /\ script.scan = prompt.scan
           /\ ~Apart(prompt.buffer, prompt.white) =>
                 IF prompt.complete THEN script.white = prompt.white
                 ELSE SpacedAlike(prompt.buffer, prompt.white, script.white)
           /\ ~prompt.complete => prompt.white.blanks \cap prompt.white.newlines = {}
<1>1. PICK after, whole : after = Scan(scan, line) /\ whole = text \o UpToSemicolon(line)
  OBVIOUS
<1>2. PICK pa : pa = Joined(text, a, PromptSeparator(text, a, after, line), line)
  OBVIOUS
<1>3. PICK sa : sa = Joined(text, b, ScriptSeparator(text, b, after, line), line)
  OBVIOUS
<1>4. /\ script.complete = prompt.complete /\ script.scan = prompt.scan
      /\ script.buffer = whole /\ prompt.buffer = whole
  BY <1>1, CheckType, ScriptCheckType
<1>5. /\ prompt.white = IF ~prompt.complete THEN pa
                        ELSE IF Starts(whole, "curl") \/ Starts(whole, "event") THEN Trimmed(whole, pa)
                        ELSE Cleaned(whole, pa)
      /\ script.white = IF prompt.complete THEN Cleaned(whole, sa) ELSE sa
  <2>1. script.complete = prompt.complete
    BY <1>4
  <2> QED
    BY <1>1, <1>2, <1>3, <2>1 DEF PromptCheck, ScriptCheck
<1>6. pa \in Whites /\ sa \in Whites
  BY <1>2, <1>3, JoinedType
<1>7. pa.blanks \cap pa.newlines = {} /\ \A n \in 1 .. Len(text) - 1 : n \in Gaps(pa) => n \in Gaps(a)
  BY <1>2, JoinedBefore
<1>8. UpToSemicolon(line) \in Seq(Chars) /\ whole \in Seq(Chars)
  BY <1>1, MoreText
<1>9. /\ Len(text) \in Nat /\ Len(text) <= Len(whole) /\ \A n \in 1 .. Len(text) : whole[n] = text[n]
  BY <1>1, <1>8, ConcatProperties, LenProperties
<1>10. ASSUME ~Apart(whole, prompt.white) PROVE ~Starts(whole, "curl") /\ ~Apart(whole, pa) /\ ~Apart(text, a)
  <2>1. ~Starts(whole, "curl") /\ ~Calls(whole, prompt.white, "catch")
    BY <1>10 DEF Apart
  <2>2. \A n : n \in Gaps(prompt.white) => n \in Gaps(pa)
    BY <1>4, <1>5, <2>1, CleanedLess
  <2>3. ~Calls(whole, pa, "catch")
    <3>1. Len(whole) <= Len(whole)
      BY <1>8, LenProperties
    <3> QED
      BY <1>8, <2>1, <2>2, <3>1, CallsStay
  <2>4. ~Calls(text, a, "catch")
    BY <1>7, <1>8, <1>9, <2>3, CallsStay
  <2>5. ~Starts(text, "curl")
    <3>1. SUFFICES ASSUME text # <<>> PROVE whole # <<>> /\ whole[1] = text[1]
      BY <2>1 DEF Starts
    <3> QED
      BY <1>1, <1>8, <3>1, ConcatStart
  <2> QED
    BY <2>1, <2>3, <2>4, <2>5 DEF Apart
<1>11. ASSUME ~Apart(whole, prompt.white) PROVE SpacedAlike(whole, pa, sa)
  <2>1. ~Apart(text, a) /\ SpacedAlike(text, a, b)
    BY <1>10, <1>11
  <2>2. /\ PromptSeparator(text, a, after, line) = ScriptSeparator(text, b, after, line)
        /\ ScriptSeparator(text, b, after, line) \in {"newline", "blank"} \/ text = <<>>
    BY <2>1, SeparatedAlike
  <2>3. PICK separator : separator = ScriptSeparator(text, b, after, line)
    OBVIOUS
  <2>4. SpacedAlike(text \o UpToSemicolon(line), Joined(text, a, separator, line), Joined(text, b, separator, line))
    BY <2>1, <2>2, <2>3, JoinedAlike
  <2> QED
    BY <1>1, <1>2, <1>3, <2>2, <2>3, <2>4
<1>12. ASSUME ~Apart(whole, prompt.white), prompt.complete PROVE script.white = prompt.white
  <2>1. ~Starts(whole, "curl") /\ ~Starts(whole, "event") /\ SpacedAlike(whole, pa, sa)
    BY <1>4, <1>10, <1>11, <1>12
  <2>2. Cleaned(whole, pa) = Cleaned(whole, sa)
    BY <1>6, <1>8, <2>1, CleanedAlike
  <2> QED
    BY <1>5, <1>12, <2>1, <2>2
<1> QED
  BY <1>4, <1>5, <1>7, <1>11, <1>12

\* A line at which the two readers are meant to do the same.
Readable(st, line) ==
    /\ TidyLine(line)
    /\ line # <<>> => Head(line) \notin {"event", "#"}
    /\ ~multiline => ~Starts(line, "curl")
    /\ ~st.error /\ ~ScriptLine(multiline, st, line).error

\* A statement does not become one of `event` by a line that is none.
LEMMA StaysNoEvent ==
    ASSUME NEW text \in Seq(Chars), ~Starts(text, "event"),
           NEW line \in Headed, line # <<>>, Head(line) \notin {"event", "#"}
    PROVE  ~Starts(text \o UpToSemicolon(line), "event")
<1>1. PICK more : more = UpToSemicolon(line)
  OBVIOUS
<1>2. line \in Seq(Chars) /\ more \in Seq(Chars) /\ Head(line) = line[1]
  <2>1. line \in Seq(Chars)
    BY DEF Headed
  <2> QED
    BY <1>1, <2>1, MoreText
<1>3. CASE text # <<>>
  <2>1. text \o more # <<>> /\ (text \o more)[1] = text[1] /\ text \o more \in Seq(Chars)
    BY <1>2, <1>3, ConcatStart, ConcatProperties
  <2> QED
    BY <1>1, <1>3, <2>1 DEF Starts
<1>4. CASE text = <<>>
  <2>1. text \o more = more
    BY <1>2, <1>4, ConcatEmptySeq
  <2>2. more = <<>> \/ more[1] = line[1]
    <3>1. line[1] # " "
      BY DEF Headed
    <3>2. CASE line[1] = ";"
      BY <1>1, <1>2, <3>2, UpToHeaded
    <3>3. CASE line[1] # ";"
      <4>1. line[1] \notin {" ", ";"}
        BY <3>1, <3>3
      <4> QED
        BY <1>1, <1>2, <4>1, UpToHeaded
    <3> QED
      BY <3>2, <3>3
  <2>3. Starts(more, "event") => more[1] = "event"
    BY <1>2 DEF Starts
  <2> QED
    BY <1>1, <1>2, <2>1, <2>2, <2>3 DEF Starts
<1> QED
  BY <1>3, <1>4

\* An empty line has no blanks inside.
LEMMA NothingInside == ASSUME NEW line, line = <<>> PROVE Inside(line) = {}
<1>1. ~HasSemicolon(line)
  BY DEF HasSemicolon, Contains
<1>2. PICK none : none = <<>>
  OBVIOUS
<1>3. none \in Seq(Chars) /\ ~HasSemicolon(none) /\ line = none
  BY <1>1, <1>2, EmptySeq, Zenon
<1>4. Cut(none) = none
  BY <1>3, FirstSemicolon DEF Cut
<1>5. DOMAIN none = {}
  BY <1>2
<1>6. BlanksOf(none) = {}
  BY <1>5, Zenon DEF BlanksOf
<1> QED
  BY <1>3, <1>4, <1>6, Zenon DEF Inside

\* An empty line leaves a text spaced as it was, but at its end.
LEMMA EmptyLineAdds ==
    ASSUME NEW text \in Seq(Chars), NEW white \in Whites, white.blanks \cap white.newlines = {},
           NEW separator, separator # "newline", NEW line, line = <<>>
    PROVE  SpacedAlike(text, Joined(text, white, separator, line), white)
<1>1. PICK k, all : k = Len(text) /\ all = Joined(text, white, separator, line)
  OBVIOUS
<1>2. Inside(line) = {}
  BY NothingInside
<1>3. PICK blank : blank = (separator = "blank")
  OBVIOUS
<1>4. all.newlines = white.newlines /\ all.blanks = (white.blanks \cup {n \in {k} : blank}) \ white.newlines
  <2>1. {Len(text) + i : i \in Inside(line)} = {} /\ {n \in {Len(text)} : separator = "newline"} = {}
    BY <1>2, Zenon
  <2>2. PICK none : none = {}
    OBVIOUS
  <2>3. all.newlines = white.newlines \cup none
        /\ all.blanks = (white.blanks \cup {n \in {k} : blank} \cup none) \ all.newlines
    BY <1>1, <1>3, <2>1, <2>2 DEF Joined
  <2> QED
    BY ONLY <2>2, <2>3
<1>5. \A n \in Nat \ {0, k} : n \in all.blanks <=> n \in white.blanks
  BY <1>4
<1> QED
  BY <1>1, <1>4, <1>5 DEF SpacedAlike

\* A statement that is handed over is one that the script reader emits.
LEMMA HandInStep ==
    ASSUME TypeInv, NEW st \in ScriptStates, InStep(st),
           NEW line \in Headed, NEW text \in Headed, NEW white \in Whites, NEW entry, Hand(line, text, white, entry),
           NEW read, ~Apart(text, white) => read = white
    PROVE  InStep(Emit(st, text, read))'
<1>1. PICK said, stmt : said = Append(pending, line) /\ stmt = [text |-> text, white |-> white, lines |-> said]
  OBVIOUS
<1>2. stmt \in Stmts /\ stmt.text = text /\ stmt.white = white
  BY <1>1, AppendProperties DEF TypeInv, Headed, Stmts
<1>3. handed' = Append(handed, stmt) /\ input' = FreshInput
  BY <1>1 DEF Hand
<1>4. PICK one, next : one = [text |-> text, white |-> read] /\ next = Emit(st, text, read)
  OBVIOUS
<1>5. /\ next.out = Append(st.out, one) /\ next.buffer = <<>> /\ next.scan = FreshScan
      /\ one.text = text /\ one.white = read
  BY <1>4 DEF Emit, ScriptStart
<1>6. PICK n, S : n = Len(handed) /\ S = {one} \cup {st.out[i] : i \in DOMAIN st.out}
  OBVIOUS
<1>7. handed \in Seq(Stmts) /\ n \in Nat /\ Len(st.out) = n /\ st.out \in Seq(Texts)
  BY <1>6, LenProperties DEF TypeInv, InStep, ScriptStates
<1>8. st.out \in Seq(S) /\ one \in S
  <2>1. \A i \in 1 .. Len(st.out) : st.out[i] \in S
    BY <1>6, <1>7, LenProperties
  <2>2. st.out = [i \in 1 .. Len(st.out) |-> st.out[i]]
    BY <1>7, LenProperties
  <2> QED
    BY <1>6, <1>7, <2>1, <2>2
<1>9. /\ Len(next.out) = n + 1 /\ next.out[n + 1] = one
      /\ \A i \in 1 .. n : next.out[i] = st.out[i]
  BY <1>5, <1>7, <1>8, AppendProperties
<1>10. /\ Len(handed') = n + 1 /\ handed'[n + 1] = stmt
       /\ \A i \in 1 .. n : handed'[i] = handed[i]
  BY <1>2, <1>3, <1>6, <1>7, AppendProperties
<1>11. \A i \in 1 .. n + 1 : SameStatement(next.out[i], handed'[i])
  <2>1. \A i \in 1 .. n + 1 : i \in 1 .. n \/ i = n + 1
    BY <1>7
  <2>2. SameStatement(one, stmt)
    BY <1>2, <1>5 DEF SameStatement
  <2>3. \A i \in 1 .. n : SameStatement(st.out[i], handed[i])
    BY <1>6 DEF InStep
  <2> QED
    BY <1>9, <1>10, <2>1, <2>2, <2>3, Zenon
<1>12. PICK to : to = input'
  OBVIOUS
<1>13. /\ to.buffer = <<>> /\ to.scan = FreshScan /\ to.multi = FALSE /\ to.white = NoWhite
       /\ ~Starts(to.buffer, "event") /\ to.white.blanks \cap to.white.newlines = {}
       /\ SpacedAlike(to.buffer, to.white, next.white)
  <2>1. to = FreshInput /\ next.white = NoWhite
    BY <1>3, <1>4, <1>12 DEF Emit, ScriptStart
  <2> QED
    BY <2>1, Zenon DEF FreshInput, Starts, NoWhite, SpacedAlike
<1>14. InStep(next)'
  BY <1>5, <1>9, <1>10, <1>11, <1>12, <1>13 DEF InStep
<1> QED
  BY <1>4, <1>14

\* A line of a statement is read alike.
LEMMA StatementInStep ==
    ASSUME TypeInv, PromptInv, NEW line \in Headed, NEW st \in ScriptStates, InStep(st), Readable(st, line),
           Statement(line)
    PROVE  InStep(ScriptLine(multiline, st, line))'
<1>1. /\ multiline /\ multiline' = multiline
      /\ input.multi \/ (line # <<>> /\ (MultilineCommand(line) \/ Head(line) \notin Commands))
      /\ MultilineStep(line)
  BY DEF Statement, Enter
<1>2. /\ input.buffer \in Headed /\ input.buffer \in Seq(Chars) /\ input.scan \in Scans
      /\ input.multi \in BOOLEAN /\ line \in Seq(Chars) /\ input \in Inputs /\ input.white \in Whites
      /\ st.white \in Whites
  BY DEF TypeInv, Inputs, Headed, ScriptStates
<1>3. PICK check : check = PromptCheck(input.buffer, input.white, input.scan, line)
  OBVIOUS
<1>4. Checked(line) = check
  BY <1>3 DEF Checked
<1>5. /\ st.buffer = input.buffer /\ st.scan = input.scan /\ (input.multi => st.buffer # <<>>)
      /\ ~Starts(input.buffer, "event")
      /\ ~Apart(input.buffer, input.white) => SpacedAlike(input.buffer, input.white, st.white)
      /\ input.white.blanks \cap input.white.newlines = {}
      /\ Len(st.out) = Len(handed) /\ \A i \in 1 .. Len(handed) : SameStatement(st.out[i], handed[i])
  BY DEF InStep
<1>6. check.buffer \in Headed /\ check.white \in Whites
  BY <1>2, <1>3, CheckType
<1>7. PICK next : next = ScriptLine(multiline, st, line)
  OBVIOUS
<1>8. CASE line = <<>>
  <2>1. next = st /\ input.multi
    BY <1>1, <1>7, <1>8 DEF ScriptLine
  <2>2. ~check.complete /\ check.buffer = input.buffer /\ check.scan = input.scan
    <3>1. Scan(input.scan, line) = input.scan /\ input.buffer \o UpToSemicolon(line) = input.buffer
          /\ ~HasSemicolon(line)
      BY <1>2, <1>8, EmptyLine
    <3> QED
      BY <1>2, <1>3, <3>1, CheckType
  <2>3. input' = MoreLines(line) /\ handed' = handed
    BY <1>1, <1>4, <2>2 DEF MultilineStep
  <2>4. input'.buffer = input.buffer /\ input'.scan = input.scan /\ input'.white = check.white
    BY <1>4, <2>2, <2>3 DEF MoreLines, InputAfter
  <2>5. input.buffer # <<>>
    BY <2>1 DEF InStep
  <2>6. PICK separator : separator = PromptSeparator(input.buffer, input.white, Scan(input.scan, line), line)
    OBVIOUS
  <2>7. check.white = Joined(input.buffer, input.white, separator, line)
    BY <1>3, <2>2, <2>6 DEF PromptCheck
  <2>8. separator # "newline"
    BY <1>8, <2>6 DEF PromptSeparator, Separator
  <2>9. /\ check.white.blanks \cap check.white.newlines = {}
        /\ \A n \in 1 .. Len(input.buffer) - 1 : n \in Gaps(check.white) => n \in Gaps(input.white)
    BY <1>2, <2>7, JoinedBefore
  <2>10. SpacedAlike(input.buffer, check.white, input.white)
    BY <1>2, <1>5, <1>8, <2>7, <2>8, EmptyLineAdds
  <2>11. ASSUME ~Apart(input.buffer, check.white) PROVE SpacedAlike(input.buffer, check.white, st.white)
    <3>1. ~Apart(input.buffer, input.white)
      BY <1>2, <1>6, <2>10, <2>11, CallsAlike DEF Apart
    <3> QED
      BY <1>5, <2>10, <3>1 DEF SpacedAlike
  <2>12. InStep(next)'
    BY <1>5, <2>1, <2>3, <2>4, <2>5, <2>9, <2>11 DEF InStep
  <2> QED
    BY <1>1, <1>7, <2>12
<1>9. CASE line # <<>>
  <2>1. Head(line) \notin {"event", "#"} /\ ~Starts(line, "#")
    BY <1>9 DEF Readable, Starts
  <2>2. Head(line) \notin Commands \ {"curl"}
    <3>1. SUFFICES ASSUME Head(line) \in Commands \ {"curl"} PROVE FALSE
      OBVIOUS
    <3>2. input.multi
      BY <1>1, <2>1, <3>1 DEF MultilineCommand
    <3>3. next.error = TRUE
      <4>1. next = [st EXCEPT !.error = TRUE]
        BY <1>5, <1>7, <1>9, <2>1, <3>1, <3>2 DEF ScriptLine, Readable
      <4> QED
        BY <4>1 DEF ScriptStates
    <3> QED
      BY <1>7, <3>3 DEF Readable
  <2>3. PICK script : script = ScriptCheck(input.buffer, st.white, input.scan, line)
    OBVIOUS
  <2>4. next = IF script.complete THEN Emit(st, script.buffer, script.white)
               ELSE [st EXCEPT !.buffer = script.buffer, !.white = script.white, !.scan = script.scan]
    BY <1>1, <1>5, <1>7, <1>9, <2>1, <2>2, <2>3 DEF ScriptLine, Readable
  <2>5. ~Starts(check.buffer, "event")
    BY <1>2, <1>3, <1>5, <1>9, <2>1, CheckType, StaysNoEvent, ZenonT(60) DEF Readable
  <2>6. /\ script.complete = check.complete /\ script.buffer = check.buffer /\ script.scan = check.scan
        /\ ~Apart(check.buffer, check.white) =>
              IF check.complete THEN script.white = check.white
              ELSE SpacedAlike(check.buffer, check.white, script.white)
        /\ ~check.complete => check.white.blanks \cap check.white.newlines = {}
    BY <1>2, <1>3, <1>5, <1>9, <2>3, <2>5, CheckedAlike
  <2>7. CASE check.complete
    <3>1. Hand(line, check.buffer, check.white, EntryOf(check.buffer, check.white, MoreLines(line).lines))
      BY <1>1, <1>4, <2>7 DEF MultilineStep
    <3>2. ~Apart(check.buffer, check.white) => script.white = check.white
      BY <2>6, <2>7
    <3>3. InStep(Emit(st, check.buffer, script.white))'
      BY <1>6, <3>1, <3>2, HandInStep
    <3>4. next = Emit(st, check.buffer, script.white)
      BY <2>4, <2>6, <2>7
    <3>5. PICK emitted : emitted = Emit(st, check.buffer, script.white)
      OBVIOUS
    <3> QED
      BY <1>1, <1>7, <3>3, <3>4
  <2>8. CASE ~check.complete
    <3>1. input' = MoreLines(line) /\ handed' = handed
      BY <1>1, <1>4, <2>8 DEF MultilineStep
    <3>2. input'.buffer = check.buffer /\ input'.scan = check.scan /\ input'.white = check.white
      BY <1>4, <3>1 DEF MoreLines, InputAfter
    <3>3. input'.multi => input'.buffer # <<>>
      <4>1. TidyLine(line) /\ (input.multi => input.buffer # <<>>)
        BY DEF Readable, InStep
      <4> QED
        BY <1>9, <3>1, <4>1, MoreHasText
    <3>4. next.out = st.out /\ next.buffer = check.buffer /\ next.scan = check.scan /\ next.white = script.white
      BY <2>4, <2>6, <2>8 DEF ScriptStates
    <3>5. InStep(next)'
      BY <1>5, <2>5, <2>6, <2>8, <3>1, <3>2, <3>3, <3>4 DEF InStep
    <3> QED
      BY <1>1, <1>7, <3>5
  <2> QED
    BY <2>7, <2>8
<1> QED
  BY <1>8, <1>9

\* Whatever the handler of a line does, the script reader does.
LEMMA LineInStep ==
    ASSUME TypeInv, PromptInv, NEW line \in Headed, NEW st \in ScriptStates, InStep(st), Readable(st, line),
           SkipBlank(line) \/ Statement(line) \/ OneLine(line) \/ Command(line)
    PROVE  InStep(ScriptLine(multiline, st, line))'
<1>1. PICK next : next = ScriptLine(multiline, st, line)
  OBVIOUS
<1>2. multiline' = multiline
  BY DEF SkipBlank, Statement, OneLine, Command, Enter
<1>3. CASE SkipBlank(line)
  <2>1. next = st /\ input' = input /\ handed' = handed
    BY <1>1, <1>3 DEF ScriptLine, SkipBlank
  <2>2. InStep(next)'
    BY <2>1 DEF InStep
  <2> QED
    BY <1>1, <1>2, <2>2
<1>4. CASE Statement(line)
  BY <1>4, StatementInStep
<1>5. CASE OneLine(line)
  <2>1. /\ ~multiline /\ line # <<>> /\ (MultilineCommand(line) \/ Head(line) \notin Commands)
        /\ Head(line) \notin {"event", "#"} /\ Head(line) # "curl"
    BY <1>5 DEF OneLine, Readable, Starts
  <2>2. ~MultilineCommand(line) /\ Head(line) \notin Commands /\ ~Starts(line, "#") /\ ~Starts(line, "curl")
    BY <2>1 DEF MultilineCommand, Starts
  <2>3. Hand(line, line, NoWhite, <<Append(line, ";")>>)
    BY <1>5, <2>2 DEF OneLine
  <2>4. st.buffer = <<>>
    BY <2>1 DEF PromptInv, InStep, FreshInput
  <2>5. next = Emit(st, line, NoWhite)
    BY <1>1, <2>1, <2>2, <2>4 DEF ScriptLine, Readable, Starts
  <2>6. InStep(Emit(st, line, NoWhite))'
    BY <2>3, NoWhiteType, HandInStep
  <2> QED
    BY <1>1, <1>2, <2>5, <2>6
<1>6. CASE Command(line)
  <2>1. line # <<>> /\ Head(line) \in Commands /\ ~MultilineCommand(line)
        /\ Hand(line, line, NoWhite, <<line>>)
    BY <1>6 DEF Command
  <2>2. Head(line) \in Commands \ {"curl"} /\ ~Starts(line, "#")
    BY <2>1 DEF MultilineCommand, Readable, Starts
  <2>3. next = IF st.buffer # <<>> THEN [st EXCEPT !.error = TRUE] ELSE Emit(st, line, NoWhite)
    BY <1>1, <2>1, <2>2 DEF ScriptLine, Readable
  <2>4. next = Emit(st, line, NoWhite)
    <3>1. [st EXCEPT !.error = TRUE].error = TRUE
      BY DEF ScriptStates
    <3> QED
      BY <1>1, <2>3, <3>1 DEF Readable
  <2>5. InStep(Emit(st, line, NoWhite))'
    BY <2>1, NoWhiteType, HandInStep
  <2> QED
    BY <1>1, <1>2, <2>4, <2>5
<1> QED
  BY <1>3, <1>4, <1>5, <1>6

\* Only a statement of several lines, with multiline on, leaves an open bracket.
LEMMA PromptKept ==
    ASSUME TypeInv, PromptInv, NEW line \in Headed,
           SkipBlank(line) \/ Statement(line) \/ OneLine(line) \/ Command(line)
    PROVE  PromptInv'
<1>1. multiline' = multiline
  BY DEF SkipBlank, Statement, OneLine, Command, Enter
<1>2. CASE input' = FreshInput
  <2>1. \A k \in Kinds : FreshInput.scan.depth[k] = 0
    BY DEF FreshInput, FreshScan
  <2> QED
    BY <1>2, <2>1 DEF PromptInv
<1>3. CASE input' = input
  BY <1>1, <1>3 DEF PromptInv
<1>4. CASE multiline /\ input' = MoreLines(line)
  <2>1. ASSUME ~input'.multi, NEW k \in Kinds PROVE input'.scan.depth[k] <= 0
    <3>1. MoreLines(line).scan = Checked(line).scan
      BY DEF MoreLines, InputAfter
    <3>2. ~(Checked(line).scan.depth[k] > 0)
      BY <1>4, <2>1 DEF MoreLines, InputAfter
    <3>3. Checked(line).scan \in Scans
      BY CheckedType DEF TypeInv
    <3>4. Checked(line).scan.depth[k] \in Int
      BY <3>3 DEF Scans
    <3>5. Checked(line).scan.depth[k] <= 0
      BY <3>2, <3>4
    <3> QED
      BY <1>4, <3>1, <3>5
  <2> QED
    BY <1>1, <1>4, <2>1 DEF PromptInv
<1> QED
  BY <1>2, <1>3, <1>4 DEF SkipBlank, Statement, MultilineStep, OneLine, Command, Hand

\* Each line is read in step.
LEMMA LineReads ==
    ASSUME TypeInv, ReaderInv, NEW line \in Headed,
           SkipBlank(line) \/ Statement(line) \/ OneLine(line) \/ Command(line)
    PROVE  ReaderInv'
<1>1. PromptInv /\ PromptInv'
  BY PromptKept DEF ReaderInv
<1>2. multiline' = multiline
  BY DEF SkipBlank, Statement, OneLine, Command, Enter
<1>3. PICK before, more : before = LinesSoFar /\ more = Append(before, line)
  OBVIOUS
<1>4. /\ line \in Seq(Chars) /\ handed \in Seq(Stmts) /\ pending \in Seq(Seq(Chars))
      /\ before \in Seq(Seq(Chars))
  <2>1. line \in Seq(Chars) /\ handed \in Seq(Stmts) /\ pending \in Seq(Seq(Chars))
    BY DEF TypeInv, Headed
  <2>2. LinesOf(handed) \o pending \in Seq(Seq(Chars))
    BY <2>1, NoWhiteType, LinesGrow DEF Headed
  <2> QED
    BY <1>3, <2>1, <2>2 DEF LinesSoFar
<1>5. LinesSoFar' = more
  <2>1. CASE pending' = Append(pending, line) /\ handed' = handed
    <3>1. LinesOf(handed) \o Append(pending, line) = Append(LinesOf(handed) \o pending, line)
      BY <1>4, LinesGrow
    <3> QED
      BY <1>3, <2>1, <3>1 DEF LinesSoFar
  <2>2. ASSUME NEW text \in Headed, NEW white \in Whites, NEW entry, Hand(line, text, white, entry)
        PROVE  LinesSoFar' = more
    <3>1. text \in Seq(Chars)
      BY DEF Headed
    <3>2. LinesOf(Append(handed, [text |-> text, white |-> white, lines |-> Append(pending, line)])) \o <<>>
            = Append(LinesOf(handed) \o pending, line)
      BY <1>4, <3>1, LinesGrow
    <3>3. /\ handed' = Append(handed, [text |-> text, white |-> white, lines |-> Append(pending, line)])
          /\ pending' = <<>>
      BY <2>2 DEF Hand
    <3> QED
      BY <1>3, <3>2, <3>3 DEF LinesSoFar
  <2>3. CASE SkipBlank(line)
    BY <2>1, <2>3 DEF SkipBlank
  <2>4. CASE Statement(line)
    <3>1. Checked(line).buffer \in Headed /\ Checked(line).white \in Whites
      BY CheckedType DEF TypeInv
    <3> QED
      BY <2>1, <2>2, <2>4, <3>1 DEF Statement, MultilineStep
  <2>5. CASE OneLine(line)
    <3>1. UpToSemicolon(line) \in Headed
      BY <1>4, UpToHeaded
    <3>2. [blanks |-> Inside(line), newlines |-> {}] \in Whites
      BY <1>4, InsideType DEF Whites
    <3> QED
      BY <2>2, <2>5, <3>1, <3>2, NoWhiteType DEF OneLine
  <2>6. CASE Command(line)
    BY <2>2, <2>6, NoWhiteType DEF Command
  <2> QED
    BY <2>3, <2>4, <2>5, <2>6
<1>6. InBoth(more) => InStep(ReadScript(multiline, more))'
  <2>1. SUFFICES ASSUME InBoth(more) PROVE InStep(ReadScript(multiline, more))'
    OBVIOUS
  <2>2. PICK st : st = ReadScript(multiline, before)
    OBVIOUS
  <2>3. st \in ScriptStates
    BY <1>4, <2>2, ReadSteps
  <2>4. InBoth(Append(before, line))
    BY <1>3, <2>1
  <2>5. InBoth(before) /\ ReadScript(multiline, more) = ScriptLine(multiline, st, line)
    BY <1>3, <1>4, <2>2, <2>4, InBothPrefix
  <2>6. Readable(st, line)
    BY <1>4, <2>2, <2>4, InBothPrefix DEF Readable
  <2>7. InStep(st)
    BY <1>3, <2>2, <2>5 DEF ReaderInv
  <2>8. InStep(ScriptLine(multiline, st, line))'
    BY <1>1, <2>3, <2>6, <2>7, LineInStep
  <2>9. PICK next : next = ScriptLine(multiline, st, line)
    OBVIOUS
  <2> QED
    BY <1>2, <2>5, <2>8
<1>7. InBoth(LinesSoFar)' => InBoth(more)
  BY <1>2, <1>5 DEF InBoth
<1>8. InBoth(LinesSoFar)' => InStep(ReadScript(multiline, LinesSoFar))'
  BY <1>5, <1>6, <1>7
<1> QED
  BY <1>1, <1>8 DEF ReaderInv

\* A session starts with the two in step.
LEMMA SessionReads ==
    ASSUME input = FreshInput, handed = <<>>, pending = <<>> PROVE ReaderInv
<1>1. PromptInv
  <2>1. \A k \in Kinds : FreshInput.scan.depth[k] = 0
    BY DEF FreshInput, FreshScan
  <2> QED
    BY <2>1 DEF PromptInv
<1>2. PICK none : none = <<>>
  OBVIOUS
<1>3. LinesSoFar = none
  <2>1. LinesOf(<<>>) = <<>>
    BY LinesSteps
  <2>2. none \in Seq(Seq(Chars)) /\ none \o <<>> = none
    BY <1>2, EmptySeq, ConcatEmptySeq
  <2> QED
    BY <1>2, <2>1, <2>2 DEF LinesSoFar
<1>4. ReadScript(multiline, none) = ScriptStart
  BY <1>2, ReadSteps
<1>5. Len(handed) = 0
  OBVIOUS
<1>6. /\ Len(ScriptStart.out) = 0 /\ ScriptStart.buffer = <<>> /\ ScriptStart.scan = FreshScan
      /\ ScriptStart.white = NoWhite
  BY DEF ScriptStart
<1>7. /\ input.buffer = <<>> /\ input.scan = FreshScan /\ input.multi = FALSE /\ input.white = NoWhite
      /\ ~Starts(input.buffer, "event") /\ input.white.blanks \cap input.white.newlines = {}
      /\ SpacedAlike(input.buffer, input.white, NoWhite)
  BY DEF FreshInput, Starts, NoWhite, SpacedAlike
<1>8. InStep(ScriptStart)
  BY <1>5, <1>6, <1>7 DEF InStep
<1> QED
  BY <1>1, <1>3, <1>4, <1>8 DEF ReaderInv

\* Prompt and script reader stay in step.
LEMMA NextReads == TypeInv /\ ReaderInv /\ [Next]_vars => ReaderInv'
<1> SUFFICES ASSUME TypeInv, ReaderInv, [Next]_vars PROVE ReaderInv'
  OBVIOUS
<1>1. \A line \in Lines \cup {rlLine} : line \in Headed
  <2>1. rlLine \in Headed
    BY DEF TypeInv
  <2> QED
    BY <2>1, LineHeaded
<1>2. ASSUME UNCHANGED <<multiline, input, handed, pending>> PROVE ReaderInv'
  <2>1. multiline' = multiline /\ input' = input /\ handed' = handed /\ pending' = pending
    BY <1>2
  <2> QED
    BY <2>1 DEF ReaderInv, PromptInv, LinesSoFar, InBoth, InStep
<1>3. ASSUME NEW line \in Lines \cup {rlLine},
             SkipBlank(line) \/ Statement(line) \/ OneLine(line) \/ Command(line)
      PROVE  ReaderInv'
  BY <1>1, <1>3, LineReads
<1>4. ASSUME NEW entries, NewSession(entries) PROVE ReaderInv'
  <2>1. input' = FreshInput /\ handed' = <<>> /\ pending' = <<>>
    BY <1>4 DEF NewSession
  <2>2. (input = FreshInput /\ handed = <<>> /\ pending = <<>> => ReaderInv)'
    BY SessionReads, PTL
  <2> QED
    BY <2>1, <2>2 DEF FreshInput
<1>5. CASE Next
  <2>1. CASE \E line \in Drafts : Type(line)
    BY <1>2, <2>1 DEF Type
  <2>2. CASE Up \/ Down
    BY <1>2, <2>2 DEF Up, Down
  <2>3. CASE Kill
    BY <1>4, <2>3 DEF Kill
  <2>4. CASE \E line \in Lines \cup {rlLine} :
                SkipBlank(line) \/ Statement(line) \/ OneLine(line) \/ Command(line) \/ Exit(line)
    BY <1>3, <1>4, <2>4 DEF Exit
  <2> QED
    BY <1>5, <2>1, <2>2, <2>3, <2>4 DEF Next
<1>6. CASE UNCHANGED vars
  BY <1>2, <1>6 DEF vars
<1> QED
  BY <1>5, <1>6

\* The same lines, typed or read from a script, are statements of the same
\* words and leave the same words unfinished; statements other than curl that
\* do not call .catch() are written the same, with the same line ends.
THEOREM ReadersAgree == Spec => []ScriptReadsTheSame
<1>1. Init => IInv /\ ReaderInv
  BY InitTyped, SessionReads DEF IInv, Init
<1>2. IInv /\ ReaderInv /\ [Next]_vars => IInv' /\ ReaderInv'
  BY NextTyped, NextReads DEF IInv
<1>3. ReaderInv => ScriptReadsTheSame
  BY DEF ReaderInv, InStep, SameStatement, Apart, ScriptReadsTheSame
<1> QED
  BY <1>1, <1>2, <1>3, PTL DEF Spec

-----------------------------------------------------------------------------
(***************************************************************************)
(* Backslashes.                                                            *)
(***************************************************************************)
\* An odd number of the numbers just before n are in B, and no more of them.
OddBefore(B, n) ==
    \E m \in 1 .. n - 1 :
        /\ (n - m) % 2 = 1
        /\ \A i \in m .. n - 1 : i \in B
        /\ m = 1 \/ m - 1 \notin B

\* Where the backslashes of a text are.
Backslashes(text) == {i \in Nat : text[i] = "\\"}

\* One more backslash turns odd to even, anything else ends the run.
LEMMA OddTurns ==
    ASSUME NEW B, NEW n \in Nat, 1 <= n
    PROVE  OddBefore(B, n + 1) <=> n \in B /\ ~OddBefore(B, n)
<1>1. ASSUME OddBefore(B, n + 1), OddBefore(B, n) PROVE FALSE
  <2>1. PICK m \in 1 .. n : /\ (n + 1 - m) % 2 = 1 /\ (\A i \in m .. n : i \in B)
                            /\ m = 1 \/ m - 1 \notin B
    BY <1>1 DEF OddBefore
  <2>2. PICK k \in 1 .. n - 1 : /\ (n - k) % 2 = 1 /\ (\A i \in k .. n - 1 : i \in B)
                                /\ k = 1 \/ k - 1 \notin B
    BY <1>1 DEF OddBefore
  <2>3. ~(k < m)
    <3>1. SUFFICES ASSUME k < m PROVE FALSE
      OBVIOUS
    <3>2. m - 1 \in k .. n - 1 /\ m # 1
      BY <3>1
    <3> QED
      BY <2>1, <2>2, <3>2
  <2>4. ~(m < k)
    <3>1. SUFFICES ASSUME m < k PROVE FALSE
      OBVIOUS
    <3>2. k - 1 \in m .. n /\ k # 1
      BY <3>1
    <3> QED
      BY <2>1, <2>2, <3>2
  <2>5. m = k
    BY <2>3, <2>4
  <2>6. (n - m) % 2 = 1 /\ (n + 1 - m) % 2 = 1
    BY <2>1, <2>2, <2>5
  <2> QED
    BY ONLY <2>6
<1>2. OddBefore(B, n + 1) => n \in B
  BY DEF OddBefore
<1>3. ASSUME n \in B, ~OddBefore(B, n) PROVE OddBefore(B, n + 1)
  <2> DEFINE Run == {m \in 1 .. n : \A i \in m .. n : i \in B}
  <2>1. Run \subseteq Nat /\ n \in Run
    BY <1>3
  <2>2. PICK m \in Run : \A j \in Run : m <= j
    <3> HIDE DEF Run
    <3> QED
      BY <2>1, Least
  <2>3. m \in 1 .. n /\ \A i \in m .. n : i \in B
    OBVIOUS
  <2>4. m = 1 \/ m - 1 \notin B
    <3>1. SUFFICES ASSUME m # 1, m - 1 \in B PROVE FALSE
      OBVIOUS
    <3>2. m - 1 \in 1 .. n /\ \A i \in m - 1 .. n : i = m - 1 \/ i \in m .. n
      BY <2>3, <3>1
    <3>3. m - 1 \in Run
      BY <2>3, <3>1, <3>2
    <3> HIDE DEF Run
    <3>4. m <= m - 1
      BY <2>2, <3>3
    <3> QED
      BY <2>3, <3>4
  <2>5. (n + 1 - m) % 2 = 1
    <3>1. SUFFICES ASSUME (n + 1 - m) % 2 # 1 PROVE FALSE
      OBVIOUS
    <3>2. (n - m) % 2 = 1 /\ m # n
      BY ONLY <2>3, <3>1
    <3>3. m \in 1 .. n - 1 /\ \A i \in m .. n - 1 : i \in m .. n
      BY ONLY <2>3, <3>2
    <3> QED
      BY <1>3, <2>3, <2>4, <3>2, <3>3 DEF OddBefore
  <2>6. m \in 1 .. (n + 1) - 1 /\ \A i \in m .. (n + 1) - 1 : i \in B
    <3>1. (n + 1) - 1 = n
      OBVIOUS
    <3> QED
      BY <2>3, <3>1
  <2> HIDE DEF Run
  <2> QED
    BY <2>4, <2>5, <2>6 DEF OddBefore
<1> QED
  BY <1>1, <1>2, <1>3

\* A character is escaped by the backslashes before it.
LEMMA EscapedBy ==
    ASSUME NEW text, NEW n \in Nat PROVE Escaped(text, n) <=> OddBefore(Backslashes(text), n)
<1>1. \A i \in Nat : i \in Backslashes(text) <=> text[i] = "\\"
  BY DEF Backslashes
<1>2. ASSUME NEW m \in 1 .. n - 1
      PROVE  /\ (\A i \in m .. n - 1 : text[i] = "\\") <=> (\A i \in m .. n - 1 : i \in Backslashes(text))
             /\ text[m - 1] # "\\" <=> m - 1 \notin Backslashes(text)
  <2>1. m - 1 \in Nat /\ \A i \in m .. n - 1 : i \in Nat
    OBVIOUS
  <2> QED
    BY <1>1, <2>1
<1> QED
  BY <1>2 DEF Escaped, OddBefore

\* A backslash escapes what follows it, unless it is escaped itself.
LEMMA EscapeTurns ==
    ASSUME NEW text, NEW n \in Nat, 1 <= n
    PROVE  Escaped(text, n + 1) <=> text[n] = "\\" /\ ~Escaped(text, n)
<1>1. n \in Backslashes(text) <=> text[n] = "\\"
  BY DEF Backslashes
<1> QED
  BY <1>1, EscapedBy, OddTurns

\* What comes later escapes nothing.
LEMMA EscapedBefore ==
    ASSUME NEW s, NEW t, NEW n \in Nat, \A i \in 1 .. n - 1 : s[i] = t[i]
    PROVE  Escaped(s, n) <=> Escaped(t, n)
<1>1. ASSUME NEW m \in 1 .. n - 1
      PROVE  /\ (\A i \in m .. n - 1 : s[i] = "\\") <=> (\A i \in m .. n - 1 : t[i] = "\\")
             /\ (m = 1 \/ s[m - 1] # "\\") <=> (m = 1 \/ t[m - 1] # "\\")
  <2>1. \A i \in m .. n - 1 : i \in 1 .. n - 1
    OBVIOUS
  <2>2. m # 1 => m - 1 \in 1 .. n - 1
    OBVIOUS
  <2> QED
    BY <2>1, <2>2
<1> QED
  BY <1>1 DEF Escaped

-----------------------------------------------------------------------------
(***************************************************************************)
(* Quotes.                                                                 *)
(***************************************************************************)
Quotes == {"", "'", "\""}
\* Outside strings.
NoQuote == ""

\* The quote that is open after a character of a text.
Quoted(text, n, open) ==
    IF Escaped(text, n) THEN open
    ELSE IF open = "" /\ text[n] \in {"'", "\""} THEN text[n]
    ELSE IF text[n] = open THEN "" ELSE open

\* The open quote is one of the quotes.
LEMMA QuotedType == \A open \in Quotes : \A text, n : Quoted(text, n, open) \in Quotes
BY DEF Quoted, Quotes

\* The quotes of a text are those of a run through its characters.
LEMMA QuoteRuns ==
    ASSUME NEW text \in Seq(Chars)
    PROVE  /\ QuoteAfter(text) \in [0 .. Len(text) -> Quotes]
           /\ QuoteAfter(text)[0] = NoQuote
           /\ \A n \in 1 .. Len(text) :
                 QuoteAfter(text)[n] = Quoted(text, n, QuoteAfter(text)[n - 1])
<1> DEFINE k == Len(text)
           step == [n \in 1 .. k |-> [open \in Quotes |-> Quoted(text, n, open)]]
           Is(h) == h = [n \in 0 .. k |-> IF n = 0 THEN NoQuote ELSE Quoted(text, n, h[n - 1])]
           at == CHOOSE h : Is(h)
<1>1. k \in Nat
  BY LenProperties
<1>2. step \in [1 .. k -> [Quotes -> Quotes]]
  BY QuotedType
<1>3. PICK f \in [0 .. k -> Quotes] : f[0] = NoQuote /\ \A n \in 1 .. k : f[n] = step[n][f[n - 1]]
  <2>1. NoQuote \in Quotes /\ k \in Nat
    BY <1>1 DEF Quotes, NoQuote
  <2> HIDE DEF step, k
  <2>2. Runs(Quotes, NoQuote, step, k) # {}
    BY <1>2, <2>1, RunExists
  <2> QED
    BY <2>2 DEF Runs
<1>4. \A n \in 1 .. k : f[n] = Quoted(text, n, f[n - 1])
  <2> SUFFICES ASSUME NEW n \in 1 .. k PROVE f[n] = Quoted(text, n, f[n - 1])
    OBVIOUS
  <2>1. n - 1 \in 0 .. k
    BY <1>1
  <2>2. f[n - 1] \in Quotes
    BY <1>3, <2>1
  <2> QED
    BY <1>3, <2>2
<1>5. Is(f)
  <2>1. \A n \in 0 .. k : f[n] = IF n = 0 THEN NoQuote ELSE Quoted(text, n, f[n - 1])
    BY <1>1, <1>3, <1>4
  <2>2. f = [n \in 0 .. k |-> f[n]]
    BY <1>3
  <2> QED
    BY <2>1, <2>2
<1>6. Is(at)
  <2> HIDE DEF Is
  <2> QED
    BY <1>5, Zenon
<1>7. at[0] = NoQuote /\ \A n \in 1 .. k : at[n] = Quoted(text, n, at[n - 1])
  <2> HIDE DEF at
  <2> QED
    BY <1>1, <1>6
<1>8. at = f
  <2>1. \A n \in 0 .. k : f[n] = at[n]
    <3>1. k \in Nat /\ f[0] = at[0]
      BY <1>1, <1>3, <1>7
    <3>2. \A n \in 1 .. k : f[n - 1] = at[n - 1] => f[n] = at[n]
      BY <1>4, <1>7
    <3> HIDE DEF at, k
    <3>3. Alike(f, at, k)
      BY ONLY <3>1, <3>2, StepsAgree
    <3> QED
      BY <3>3 DEF Alike
  <2>2. at = [n \in 0 .. k |-> at[n]]
    <3> HIDE DEF at
    <3> QED
      BY <1>6
  <2> HIDE DEF at
  <2> QED
    BY <1>3, <2>1, <2>2
<1>9. QuoteAfter(text) = at
  BY DEF QuoteAfter, Quoted, NoQuote
<1> HIDE DEF at
<1> QED
  BY <1>3, <1>4, <1>8, <1>9

\* With one character more the quotes before it are the same, and after it
\* there is the one that this character leaves.
LEMMA QuoteGrows ==
    ASSUME NEW text \in Seq(Chars), NEW ch \in Chars
    PROVE  /\ Alike(QuoteAfter(text), QuoteAfter(Append(text, ch)), Len(text))
           /\ QuoteAfter(Append(text, ch))[Len(text) + 1]
                 = Quoted(Append(text, ch), Len(text) + 1, QuoteAfter(text)[Len(text)])
<1>1. PICK more, k : more = Append(text, ch) /\ k = Len(text)
  OBVIOUS
<1>2. /\ k \in Nat /\ more \in Seq(Chars) /\ Len(more) = k + 1 /\ more[k + 1] = ch
      /\ \A n \in 1 .. k : more[n] = text[n]
  BY <1>1, AppendProperties, LenProperties
<1>3. \A n \in 1 .. k + 1 : Escaped(more, n) <=> Escaped(text, n)
  <2> SUFFICES ASSUME NEW n \in 1 .. k + 1 PROVE Escaped(more, n) <=> Escaped(text, n)
    OBVIOUS
  <2>1. \A i \in 1 .. n - 1 : i \in 1 .. k
    BY <1>2
  <2>2. \A i \in 1 .. n - 1 : more[i] = text[i]
    BY <1>2, <2>1
  <2>3. n \in Nat
    BY <1>2
  <2> QED
    BY <2>2, <2>3, EscapedBefore
<1>4. PICK old, new : old = QuoteAfter(text) /\ new = QuoteAfter(more)
  OBVIOUS
<1>5. old[0] = NoQuote /\ \A n \in 1 .. k : old[n] = Quoted(text, n, old[n - 1])
  BY <1>1, <1>4, QuoteRuns
<1>6. new[0] = NoQuote /\ \A n \in 1 .. k + 1 : new[n] = Quoted(more, n, new[n - 1])
  BY <1>2, <1>4, QuoteRuns
<1>7. \A n \in 1 .. k : old[n - 1] = new[n - 1] => old[n] = new[n]
  <2> SUFFICES ASSUME NEW n \in 1 .. k, old[n - 1] = new[n - 1] PROVE old[n] = new[n]
    OBVIOUS
  <2>1. n \in 1 .. k + 1
    BY <1>2
  <2>2. (Escaped(more, n) <=> Escaped(text, n)) /\ more[n] = text[n]
    BY <1>2, <1>3, <2>1
  <2> QED
    BY <1>5, <1>6, <2>1, <2>2 DEF Quoted
<1>8. Alike(old, new, k)
  BY <1>2, <1>5, <1>6, <1>7, StepsAgree
<1>9. new[k + 1] = Quoted(more, k + 1, old[k])
  <2>1. k + 1 \in 1 .. k + 1 /\ (k + 1) - 1 = k /\ k \in 0 .. k
    BY <1>2
  <2>2. old[k] = new[k]
    BY <1>8, <2>1 DEF Alike
  <2> QED
    BY <1>6, <2>1, <2>2
<1> QED
  BY <1>1, <1>4, <1>8, <1>9

-----------------------------------------------------------------------------
(***************************************************************************)
(* The characters that are read, and how many of each.                     *)
(***************************************************************************)
ReadIn(text) == {i \in DOMAIN text : QuoteAfter(text)[i - 1] = "" /\ ~Escaped(text, i)}

\* The characters c before place n that are read, and how many they are.
Seen(text, c, n) == {i \in ReadIn(text) : i < n /\ text[i] = c}

Count(text, c, n) == Cardinality(Seen(text, c, n))

\* The ends of statements by these counts.
LEMMA EndsBy ==
    ASSUME NEW text
    PROVE  StatementEnds(text)
             = {n \in ReadIn(text) :
                   /\ text[n] = ";"
                   /\ \A k \in Kinds : Count(text, Opening[k], n) = Count(text, Closing[k], n)}
BY DEF StatementEnds, ReadIn, Seen, Count

\* A character of a text is read when none of what comes before it forbids it.
LEMMA ReadGrows ==
    ASSUME NEW text \in Seq(Chars), NEW ch \in Chars
    PROVE  /\ ReadIn(text) \subseteq 1 .. Len(text)
           /\ ReadIn(Append(text, ch)) \subseteq 1 .. Len(text) + 1
           /\ \A i \in 1 .. Len(text) : i \in ReadIn(Append(text, ch)) <=> i \in ReadIn(text)
           /\ Len(text) + 1 \in ReadIn(Append(text, ch))
                <=> QuoteAfter(text)[Len(text)] = "" /\ ~Escaped(text, Len(text) + 1)
<1>1. PICK more, k : more = Append(text, ch) /\ k = Len(text)
  OBVIOUS
<1>2. /\ k \in Nat /\ more \in Seq(Chars) /\ Len(more) = k + 1 /\ more[k + 1] = ch
      /\ DOMAIN text = 1 .. k /\ DOMAIN more = 1 .. k + 1
      /\ \A n \in 1 .. k : more[n] = text[n]
  BY <1>1, AppendProperties, LenProperties
<1>3. \A n \in 1 .. k + 1 : (Escaped(more, n) <=> Escaped(text, n)) /\ QuoteAfter(more)[n - 1] = QuoteAfter(text)[n - 1]
  <2> SUFFICES ASSUME NEW n \in 1 .. k + 1
               PROVE  (Escaped(more, n) <=> Escaped(text, n)) /\ QuoteAfter(more)[n - 1] = QuoteAfter(text)[n - 1]
    OBVIOUS
  <2>1. (\A i \in 1 .. n - 1 : i \in 1 .. k) /\ n \in Nat /\ n - 1 \in 0 .. k
    BY <1>2
  <2>2. \A i \in 1 .. n - 1 : more[i] = text[i]
    BY <1>2, <2>1
  <2>3. Alike(QuoteAfter(text), QuoteAfter(more), k)
    BY <1>1, QuoteGrows
  <2>4. QuoteAfter(more)[n - 1] = QuoteAfter(text)[n - 1]
    BY <2>1, <2>3 DEF Alike
  <2> QED
    BY <2>1, <2>2, <2>4, EscapedBefore
<1>4. ReadIn(text) \subseteq 1 .. k /\ ReadIn(more) \subseteq 1 .. k + 1
  BY <1>2 DEF ReadIn
<1>5. \A i \in 1 .. k : i \in ReadIn(more) <=> i \in ReadIn(text)
  <2> SUFFICES ASSUME NEW i \in 1 .. k PROVE i \in ReadIn(more) <=> i \in ReadIn(text)
    OBVIOUS
  <2>1. i \in 1 .. k + 1
    BY <1>2
  <2>2. (Escaped(more, i) <=> Escaped(text, i)) /\ QuoteAfter(more)[i - 1] = QuoteAfter(text)[i - 1]
    BY <1>3, <2>1
  <2> QED
    BY <1>2, <2>1, <2>2 DEF ReadIn
<1>6. k + 1 \in ReadIn(more) <=> QuoteAfter(text)[k] = "" /\ ~Escaped(text, k + 1)
  <2>1. k + 1 \in 1 .. k + 1 /\ (k + 1) - 1 = k
    BY <1>2
  <2>2. (Escaped(more, k + 1) <=> Escaped(text, k + 1)) /\ QuoteAfter(more)[k] = QuoteAfter(text)[k]
    BY <1>3, <2>1
  <2> QED
    BY <1>2, <2>1, <2>2 DEF ReadIn
<1> QED
  BY <1>1, <1>4, <1>5, <1>6

\* Before the last character as many are seen as without it; after it one
\* more, when it is read and is that character.
LEMMA CountGrows ==
    ASSUME NEW text \in Seq(Chars), NEW ch \in Chars, NEW c
    PROVE  /\ \A n \in 1 .. Len(text) + 1 : Count(Append(text, ch), c, n) = Count(text, c, n)
           /\ Count(text, c, Len(text) + 1) \in Nat
           /\ Count(Append(text, ch), c, Len(text) + 2)
                = IF Len(text) + 1 \in ReadIn(Append(text, ch)) /\ ch = c
                  THEN Count(text, c, Len(text) + 1) + 1 ELSE Count(text, c, Len(text) + 1)
<1>1. PICK more, k : more = Append(text, ch) /\ k = Len(text)
  OBVIOUS
<1>2. /\ k \in Nat /\ more \in Seq(Chars) /\ Len(more) = k + 1 /\ more[k + 1] = ch
      /\ \A n \in 1 .. k : more[n] = text[n]
  BY <1>1, AppendProperties, LenProperties
<1>3. PICK old, new : old = ReadIn(text) /\ new = ReadIn(more)
  OBVIOUS
<1>4. /\ old \subseteq 1 .. k /\ new \subseteq 1 .. k + 1
      /\ \A i \in 1 .. k : i \in new <=> i \in old
  BY <1>1, <1>3, ReadGrows
<1>5. \A n \in 1 .. k + 1 : Seen(more, c, n) = Seen(text, c, n)
  <2> SUFFICES ASSUME NEW n \in 1 .. k + 1 PROVE Seen(more, c, n) = Seen(text, c, n)
    OBVIOUS
  <2>1. \A i \in new : i < n => i \in 1 .. k
    BY <1>2, <1>4
  <2>2. \A i : i \in new /\ i < n /\ more[i] = c <=> i \in old /\ i < n /\ text[i] = c
    BY <1>2, <1>4, <2>1
  <2> QED
    BY <1>3, <2>2 DEF Seen
<1>6. Seen(text, c, k + 1) \subseteq 1 .. k /\ IsFiniteSet(Seen(text, c, k + 1))
  <2>1. Seen(text, c, k + 1) \subseteq 1 .. k
    BY <1>3, <1>4 DEF Seen
  <2>2. IsFiniteSet(1 .. k)
    BY <1>2, FS_Interval
  <2> QED
    BY <2>1, <2>2, FS_Subset
<1>7. Count(text, c, k + 1) \in Nat
  BY <1>6, FS_CardinalityType DEF Count
<1>8. Seen(more, c, k + 2) = IF k + 1 \in new /\ ch = c THEN Seen(text, c, k + 1) \cup {k + 1}
                             ELSE Seen(text, c, k + 1)
  <2>1. \A i : i \in new /\ i < k + 2 /\ more[i] = c
                 <=> (i \in old /\ i < k + 1 /\ text[i] = c) \/ (i = k + 1 /\ i \in new /\ ch = c)
    <3>1. \A i \in new : i < k + 2 /\ (i \in 1 .. k \/ i = k + 1)
      BY <1>2, <1>4
    <3>2. \A i \in old : i < k + 1 /\ i \in 1 .. k
      BY <1>2, <1>4
    <3> QED
      BY <1>2, <1>4, <3>1, <3>2
  <2> QED
    BY <1>3, <2>1 DEF Seen
<1>9. Cardinality(Seen(text, c, k + 1) \cup {k + 1}) = Cardinality(Seen(text, c, k + 1)) + 1
  <2>1. k + 1 \notin Seen(text, c, k + 1)
    BY <1>2, <1>6
  <2> QED
    BY <1>6, <2>1, FS_AddElement
<1>10. Count(more, c, k + 2) = IF k + 1 \in new /\ ch = c THEN Count(text, c, k + 1) + 1 ELSE Count(text, c, k + 1)
  BY <1>8, <1>9 DEF Count
<1>11. \A n \in 1 .. k + 1 : Count(more, c, n) = Count(text, c, n)
  BY <1>5 DEF Count
<1> QED
  BY <1>1, <1>3, <1>7, <1>10, <1>11

-----------------------------------------------------------------------------
(***************************************************************************)
(* What the scan keeps of a text is what is read off the whole of it.      *)
(***************************************************************************)
Follows(text, s) ==
    /\ s.escape <=> Escaped(text, Len(text) + 1)
    /\ s.quote = QuoteAfter(text)[Len(text)]
    /\ \A k \in Kinds :
          s.depth[k] = Count(text, Opening[k], Len(text) + 1) - Count(text, Closing[k], Len(text) + 1)

\* Nothing is read of no text.
LEMMA FollowsNone == Follows(<<>>, FreshScan)
<1>1. PICK none : none = <<>>
  OBVIOUS
<1>2. none \in Seq(Chars) /\ Len(none) = 0 /\ DOMAIN none = {}
  BY <1>1
<1>3. ~Escaped(none, Len(none) + 1)
  BY <1>2 DEF Escaped
<1>4. QuoteAfter(none)[Len(none)] = ""
  BY <1>2, QuoteRuns DEF NoQuote
<1>5. \A c : Count(none, c, Len(none) + 1) = 0
  <2>1. ReadIn(none) = {}
    BY <1>2 DEF ReadIn
  <2>2. \A c, n : Seen(none, c, n) = {}
    BY <2>1 DEF Seen
  <2>3. Cardinality({}) = 0
    BY FS_EmptySet
  <2> QED
    BY <2>2, <2>3 DEF Count
<1>6. FreshScan.escape = FALSE /\ FreshScan.quote = "" /\ \A k \in Kinds : FreshScan.depth[k] = 0
  BY DEF FreshScan
<1>7. Follows(none, FreshScan)
  <2>1. ASSUME NEW k \in Kinds
        PROVE  FreshScan.depth[k]
                 = Count(none, Opening[k], Len(none) + 1) - Count(none, Closing[k], Len(none) + 1)
    <3>1. 0 = 0 - 0
      OBVIOUS
    <3> QED
      BY <1>5, <1>6, <3>1
  <2>2. (FreshScan.escape <=> Escaped(none, Len(none) + 1)) /\ FreshScan.quote = QuoteAfter(none)[Len(none)]
    BY <1>3, <1>4, <1>6
  <2> QED
    BY <2>1, <2>2, Zenon DEF Follows
<1> QED
  BY <1>1, <1>7, Zenon

\* The scan of one more character follows what it adds.
LEMMA FollowsMore ==
    ASSUME NEW text \in Seq(Chars), NEW ch \in Chars, NEW s \in Scans, Follows(text, s)
    PROVE  Follows(Append(text, ch), ScanChar(s, ch))
<1>1. PICK more, k, to : more = Append(text, ch) /\ k = Len(text) /\ to = ScanChar(s, ch)
  OBVIOUS
<1>2. /\ k \in Nat /\ more \in Seq(Chars) /\ Len(more) = k + 1 /\ more[k + 1] = ch
      /\ \A n \in 1 .. k : more[n] = text[n]
  BY <1>1, AppendProperties, LenProperties
<1>3. Escaped(more, k + 1) <=> Escaped(text, k + 1)
  <2>1. \A i \in 1 .. (k + 1) - 1 : more[i] = text[i]
    BY <1>2
  <2>2. k + 1 \in Nat
    BY <1>2
  <2> QED
    BY <2>1, <2>2, EscapedBefore
<1>4. (s.escape <=> Escaped(text, k + 1)) /\ s.quote = QuoteAfter(text)[k]
  BY <1>1 DEF Follows
<1>5. s.escape \in BOOLEAN /\ s.quote \in Quotes /\ s.depth \in [Kinds -> Int]
  BY DEF Scans, Quotes
<1>6. to.escape <=> Escaped(more, k + 2)
  <2>1. Escaped(more, (k + 1) + 1) <=> ch = "\\" /\ ~Escaped(more, k + 1)
    <3>1. k + 1 \in Nat /\ 1 <= k + 1
      BY <1>2
    <3> QED
      BY <1>2, <3>1, EscapeTurns
  <2>2. to.escape <=> ch = "\\" /\ ~s.escape
    BY <1>1, <1>5 DEF ScanChar, Scans
  <2>3. (k + 1) + 1 = k + 2
    BY <1>2
  <2> QED
    BY <1>3, <1>4, <2>1, <2>2, <2>3
<1>7. to.quote = QuoteAfter(more)[k + 1]
  <2>1. QuoteAfter(more)[k + 1] = Quoted(more, k + 1, s.quote)
    BY <1>1, <1>4, QuoteGrows
  <2>2. to.quote = IF s.escape \/ ch = "\\" THEN s.quote
                   ELSE IF s.quote # "" THEN IF ch = s.quote THEN "" ELSE s.quote
                   ELSE IF ch \in {"'", "\""} THEN ch ELSE s.quote
    BY <1>1 DEF ScanChar, Scans
  <2>3. Quoted(more, k + 1, s.quote)
          = IF s.escape THEN s.quote
            ELSE IF s.quote = "" /\ ch \in {"'", "\""} THEN ch
            ELSE IF ch = s.quote THEN "" ELSE s.quote
    BY <1>2, <1>3, <1>4 DEF Quoted
  <2> QED
    BY <1>5, <2>1, <2>2, <2>3 DEF Quotes
<1>8. ASSUME NEW kind \in Kinds
      PROVE  to.depth[kind] = Count(more, Opening[kind], k + 2) - Count(more, Closing[kind], k + 2)
  <2>1. PICK o, c, opened, closed :
           /\ o = Opening[kind] /\ c = Closing[kind]
           /\ opened = Count(text, o, k + 1) /\ closed = Count(text, c, k + 1)
    OBVIOUS
  <2>2. PICK read \in BOOLEAN : read <=> k + 1 \in ReadIn(more)
    OBVIOUS
  <2>3. /\ opened \in Nat /\ closed \in Nat
        /\ Count(more, o, k + 2) = IF read /\ ch = o THEN opened + 1 ELSE opened
        /\ Count(more, c, k + 2) = IF read /\ ch = c THEN closed + 1 ELSE closed
    BY <1>1, <2>1, <2>2, CountGrows
  <2>4. s.depth[kind] = opened - closed
    BY <1>1, <2>1 DEF Follows
  <2>5. read <=> s.quote = "" /\ ~s.escape
    BY <1>1, <1>4, <2>2, ReadGrows
  <2>6. o \notin {"'", "\"", "\\"} /\ c \notin {"'", "\"", "\\"} /\ o # c
    BY <2>1, Brackets
  <2>7. PICK old, new : old = s.depth[kind] /\ new = to.depth[kind]
    OBVIOUS
  <2>8. old \in Int
    BY <1>5, <2>7
  <2>9. Counted(s.depth, ch)[kind] = old + (IF ch = o THEN 1 ELSE IF ch = c THEN -1 ELSE 0)
    BY <2>1, <2>7 DEF Counted
  <2>10. read /\ ch \notin {"'", "\"", "\\"} => new = Counted(s.depth, ch)[kind]
    BY <1>1, <2>5, <2>7 DEF ScanChar, Scans
  <2>11. ~read \/ ch \in {"'", "\"", "\\"} => new = old
    BY <1>1, <2>5, <2>7 DEF ScanChar, Scans
  <2>12. \/ read /\ ch = o /\ new = old + 1
         \/ read /\ ch = c /\ new = old - 1
         \/ (~read \/ (ch # o /\ ch # c)) /\ new = old
    <3>1. CASE read /\ ch = o
      <4>1. new = old + 1
        BY <2>6, <2>9, <2>10, <3>1
      <4> QED
        BY <3>1, <4>1
    <3>2. CASE read /\ ch = c
      <4>1. new = old + (-1)
        BY <2>6, <2>9, <2>10, <3>2
      <4>2. new = old - 1
        BY ONLY <2>8, <4>1
      <4> QED
        BY <3>2, <4>2
    <3>3. CASE ~read
      BY <2>11, <3>3
    <3>4. CASE read /\ ch # o /\ ch # c
      <4>1. Counted(s.depth, ch)[kind] = old + 0
        BY <2>9, <3>4
      <4>2. old + 0 = old
        BY ONLY <2>8
      <4> QED
        BY <2>10, <2>11, <3>4, <4>1, <4>2
    <3> QED
      BY <3>1, <3>2, <3>3, <3>4
  <2>13. PICK moreOpened, moreClosed :
            moreOpened = Count(more, o, k + 2) /\ moreClosed = Count(more, c, k + 2)
    OBVIOUS
  <2>14. new = moreOpened - moreClosed
    <3>1. /\ opened \in Nat /\ closed \in Nat /\ old = opened - closed /\ o # c
          /\ moreOpened = IF read /\ ch = o THEN opened + 1 ELSE opened
          /\ moreClosed = IF read /\ ch = c THEN closed + 1 ELSE closed
      BY <2>3, <2>4, <2>6, <2>7, <2>13
    <3> QED
      BY ONLY <2>12, <3>1
  <2> QED
    BY <2>1, <2>7, <2>13, <2>14
<1>9. Len(more) + 1 = k + 2 /\ Len(more) = k + 1
  BY <1>2
<1>10. Follows(more, to)
  BY <1>6, <1>7, <1>8, <1>9 DEF Follows
<1> QED
  BY <1>1, <1>10

\* By induction over a text: the state of the scan is what is read off the text.
LEMMA ScanFollows == \A text \in Seq(Chars) : Follows(text, Scan(FreshScan, text))
<1> DEFINE T == {text \in Seq(Chars) : Follows(text, Scan(FreshScan, text))}
<1>1. <<>> \in T
  <2>1. PICK none : none = <<>>
    OBVIOUS
  <2>2. none \in Seq(Chars) /\ Scan(FreshScan, none) = FreshScan
    BY <2>1, EmptySeq, ScanSteps, FreshScanType
  <2>3. Follows(none, FreshScan)
    BY <2>1, FollowsNone
  <2> QED
    BY <2>1, <2>2, <2>3
<1>2. ASSUME NEW text \in Seq(Chars), NEW ch \in Chars, text \in T PROVE Append(text, ch) \in T
  <2>1. Append(text, ch) \in Seq(Chars)
    BY AppendProperties
  <2>2. PICK s \in Scans : s = Scan(FreshScan, text)
    BY ScanSteps, FreshScanType
  <2>3. Scan(FreshScan, Append(text, ch)) = ScanChar(s, ch)
    BY <2>2, ScanSteps, FreshScanType
  <2>4. Follows(text, s)
    BY <1>2, <2>2
  <2>5. Follows(Append(text, ch), ScanChar(s, ch))
    BY <2>4, FollowsMore
  <2> QED
    BY <2>1, <2>3, <2>5
<1> HIDE DEF T
<1>3. \A text \in Seq(Chars) : text \in T
  BY <1>1, <1>2, AppendInduction
<1> QED
  BY <1>3 DEF T

\* A statement ends where the scan says so.
Ending(s, ch) == ch = ";" /\ ~s.escape /\ Balanced(s)

\* A character adds at most itself to the ends of statements.
LEMMA EndsGrow ==
    ASSUME NEW text \in Seq(Chars), NEW ch \in Chars
    PROVE  StatementEnds(Append(text, ch))
             = StatementEnds(text) \cup (IF Ending(Scan(FreshScan, text), ch) THEN {Len(text) + 1} ELSE {})
<1>1. PICK more, k, s : more = Append(text, ch) /\ k = Len(text) /\ s = Scan(FreshScan, text)
  OBVIOUS
<1>2. /\ k \in Nat /\ more \in Seq(Chars) /\ Len(more) = k + 1 /\ more[k + 1] = ch
      /\ \A n \in 1 .. k : more[n] = text[n]
  BY <1>1, AppendProperties, LenProperties
<1>3. PICK old, new : old = ReadIn(text) /\ new = ReadIn(more)
  OBVIOUS
<1>4. /\ old \subseteq 1 .. k /\ new \subseteq 1 .. k + 1
      /\ \A i \in 1 .. k : i \in new <=> i \in old
  BY <1>1, <1>3, ReadGrows
<1>5. Follows(text, s) /\ s \in Scans
  BY <1>1, ScanFollows, ScanSteps, FreshScanType
<1>6. k + 1 \in new <=> s.quote = "" /\ ~s.escape
  BY <1>1, <1>3, <1>5, ReadGrows DEF Follows
<1>7. \A c : \A n \in 1 .. k + 1 : Count(more, c, n) = Count(text, c, n)
  BY <1>1, CountGrows
<1>8. (\A kind \in Kinds : Count(more, Opening[kind], k + 1) = Count(more, Closing[kind], k + 1))
        <=> (\A kind \in Kinds : s.depth[kind] = 0)
  <2> SUFFICES ASSUME NEW kind \in Kinds
               PROVE  Count(more, Opening[kind], k + 1) = Count(more, Closing[kind], k + 1) <=> s.depth[kind] = 0
    OBVIOUS
  <2>1. PICK opened, closed : opened = Count(text, Opening[kind], k + 1) /\ closed = Count(text, Closing[kind], k + 1)
    OBVIOUS
  <2>2. opened \in Nat /\ closed \in Nat
    BY <1>1, <2>1, CountGrows
  <2>3. k + 1 \in 1 .. k + 1
    BY <1>2
  <2>4. Count(more, Opening[kind], k + 1) = opened /\ Count(more, Closing[kind], k + 1) = closed
    BY <1>7, <2>1, <2>3
  <2>5. s.depth[kind] = opened - closed
    BY <1>1, <1>5, <2>1 DEF Follows
  <2>6. opened = closed <=> opened - closed = 0
    BY ONLY <2>2
  <2> QED
    BY <2>4, <2>5, <2>6
<1>9. ASSUME NEW n \in 1 .. k PROVE n \in StatementEnds(more) <=> n \in StatementEnds(text)
  <2>1. n \in 1 .. k + 1
    BY <1>2
  <2>2. \A c : Count(more, c, n) = Count(text, c, n)
    BY <1>7, <2>1
  <2>3. (n \in new <=> n \in old) /\ more[n] = text[n]
    BY <1>2, <1>4
  <2> QED
    BY <1>3, <2>2, <2>3, EndsBy
<1>10. k + 1 \in StatementEnds(more) <=> Ending(s, ch)
  BY <1>2, <1>3, <1>6, <1>8, EndsBy DEF Ending, Balanced
<1>11. StatementEnds(text) \subseteq 1 .. k /\ StatementEnds(more) \subseteq 1 .. k + 1
  BY <1>3, <1>4, EndsBy
<1>12. \A n : n \in StatementEnds(more) <=> n \in StatementEnds(text) \/ (n = k + 1 /\ Ending(s, ch))
  <2>1. \A n \in 1 .. k + 1 : n \in 1 .. k \/ n = k + 1
    BY <1>2
  <2>2. \A n \in 1 .. k : n \in 1 .. k + 1 /\ n # k + 1
    BY <1>2
  <2> QED
    BY <1>9, <1>10, <1>11, <2>1, <2>2
<1>13. StatementEnds(more) = StatementEnds(text) \cup (IF Ending(s, ch) THEN {k + 1} ELSE {})
  BY <1>12
<1> QED
  BY <1>1, <1>13

\* An empty text ends no statement.
LEMMA EndsNone == StatementEnds(<<>>) = {}
<1>1. ReadIn(<<>>) = {}
  BY DEF ReadIn
<1> QED
  BY <1>1, EndsBy

-----------------------------------------------------------------------------
(***************************************************************************)
(* A line added to the lines before it.                                    *)
(***************************************************************************)
\* A blank or a semicolon changes nothing in a scan, unless it is escaped.
LEMMA NeutralChar ==
    ASSUME NEW scan \in Scans, ~scan.escape, NEW ch, ch \in {" ", ";"} PROVE ScanChar(scan, ch) = scan
<1>1. Counted(scan.depth, ch) = scan.depth
  BY CountedNeutral
<1>2. [scan EXCEPT !.depth = Counted(@, ch)] = scan
  BY <1>1 DEF Scans
<1>3. ch # "\\" /\ ch \notin {"'", "\""}
  OBVIOUS
<1>4. scan.quote # "" => ch # scan.quote
  BY <1>3 DEF Scans
<1> QED
  BY <1>2, <1>3, <1>4 DEF ScanChar

\* A sequence with something in it has a last element.
LEMMA LastElement ==
    ASSUME NEW S, NEW s \in Seq(S), s # <<>>
    PROVE  \E front \in Seq(S) : \E e \in S :
              s = Append(front, e) /\ Len(s) = Len(front) + 1 /\ s[Len(s)] = e
<1> DEFINE T == {q \in Seq(S) : q = <<>> \/ \E front \in Seq(S) : \E e \in S : q = Append(front, e)}
<1>1. <<>> \in T
  BY EmptySeq
<1>2. ASSUME NEW q \in Seq(S), NEW e \in S PROVE Append(q, e) \in T
  BY AppendProperties
<1>3. s \in T
  <2> HIDE DEF T
  <2> QED
    BY <1>1, <1>2, AppendInduction
<1>4. PICK front \in Seq(S), e \in S : s = Append(front, e)
  BY <1>3
<1> QED
  BY <1>4, AppendProperties

\* A line with one more character has a semicolon if it had one or this is one.
LEMMA HasGrows ==
    ASSUME NEW line \in Seq(Chars), NEW ch \in Chars
    PROVE  HasSemicolon(Append(line, ch)) <=> HasSemicolon(line) \/ ch = ";"
<1>1. PICK more, k : more = Append(line, ch) /\ k = Len(line)
  OBVIOUS
<1>2. /\ k \in Nat /\ Len(more) = k + 1 /\ more[k + 1] = ch
      /\ \A n \in 1 .. k : more[n] = line[n]
  BY <1>1, AppendProperties, LenProperties
<1>2a. PICK semi : semi = ";"
  OBVIOUS
<1>3. (\E n \in 1 .. k + 1 : more[n] = semi) <=> (\E n \in 1 .. k : line[n] = semi) \/ ch = semi
  BY <1>2
<1>4. (HasSemicolon(more) <=> \E n \in 1 .. k + 1 : more[n] = semi)
      /\ (HasSemicolon(line) <=> \E n \in 1 .. k : line[n] = semi)
  BY <1>1, <1>2, <1>2a DEF HasSemicolon, Contains
<1> QED
  BY <1>1, <1>3, <1>4, <1>2a

\* A text has a semicolon when one of its parts has.
LEMMA HasConcat ==
    ASSUME NEW a \in Seq(Chars), NEW b \in Seq(Chars)
    PROVE  HasSemicolon(a \o b) <=> HasSemicolon(a) \/ HasSemicolon(b)
<1> DEFINE T == {c \in Seq(Chars) : HasSemicolon(a \o c) <=> HasSemicolon(a) \/ HasSemicolon(c)}
<1>1. <<>> \in T
  <2>1. ~HasSemicolon(<<>>)
    BY DEF HasSemicolon, Contains
  <2>2. <<>> \in Seq(Chars) /\ a \o <<>> = a
    BY EmptySeq, ConcatEmptySeq
  <2> QED
    BY <2>1, <2>2
<1>2. ASSUME NEW c \in Seq(Chars), NEW ch \in Chars, c \in T PROVE Append(c, ch) \in T
  <2>1. Append(c, ch) \in Seq(Chars) /\ a \o c \in Seq(Chars)
    BY AppendProperties, ConcatProperties
  <2>2. a \o Append(c, ch) = Append(a \o c, ch)
    BY ConcatAppend
  <2>3. HasSemicolon(Append(a \o c, ch)) <=> HasSemicolon(a \o c) \/ ch = ";"
    BY <2>1, HasGrows
  <2>4. HasSemicolon(Append(c, ch)) <=> HasSemicolon(c) \/ ch = ";"
    BY HasGrows
  <2> QED
    BY <1>2, <2>1, <2>2, <2>3, <2>4
<1>3. b \in T
  <2> HIDE DEF T
  <2> QED
    BY <1>1, <1>2, AppendInduction
<1> QED
  BY <1>3

\* Text without semicolons ends nothing.
LEMMA EndsNothing ==
    ASSUME NEW a \in Seq(Chars), NEW b \in Seq(Chars), ~HasSemicolon(b)
    PROVE  StatementEnds(a \o b) = StatementEnds(a)
<1> DEFINE T == {c \in Seq(Chars) : ~HasSemicolon(c) => StatementEnds(a \o c) = StatementEnds(a)}
<1>1. <<>> \in T
  BY EmptySeq, ConcatEmptySeq
<1>2. ASSUME NEW c \in Seq(Chars), NEW ch \in Chars, c \in T PROVE Append(c, ch) \in T
  <2>1. Append(c, ch) \in Seq(Chars) /\ a \o c \in Seq(Chars)
    BY AppendProperties, ConcatProperties
  <2>2. ASSUME ~HasSemicolon(Append(c, ch)) PROVE StatementEnds(a \o Append(c, ch)) = StatementEnds(a)
    <3>1. ~HasSemicolon(c) /\ ch # ";"
      BY <2>2, HasGrows
    <3>2. StatementEnds(a \o c) = StatementEnds(a)
      BY <1>2, <3>1
    <3>3. a \o Append(c, ch) = Append(a \o c, ch)
      BY ConcatAppend
    <3>4. PICK ac : ac = a \o c
      OBVIOUS
    <3>5. ~Ending(Scan(FreshScan, ac), ch)
      BY <3>1 DEF Ending
    <3>6. StatementEnds(Append(ac, ch)) = StatementEnds(ac) \cup {}
      BY <2>1, <3>4, <3>5, EndsGrow
    <3> QED
      BY <3>2, <3>3, <3>4, <3>6
  <2> QED
    BY <2>1, <2>2
<1>3. b \in T
  <2> HIDE DEF T
  <2> QED
    BY <1>1, <1>2, AppendInduction
<1> QED
  BY <1>3

\* What a sequence starts with.
LEMMA StartOf ==
    ASSUME NEW S, NEW s, NEW w \in Seq(S), \A n \in 1 .. Len(w) : s[n] = w[n]
    PROVE  SubSeq(s, 1, Len(w)) = w
<1>1. PICK k : k = Len(w)
  OBVIOUS
<1>2. k \in Nat /\ \A n \in 1 .. k : s[n] = w[n] /\ s[n] \in S
  BY <1>1, LenProperties, ElementOfSeq
<1>3. SubSeq(s, 1, k) \in Seq(S) /\ Len(SubSeq(s, 1, k)) = k /\ \A n \in 1 .. k : SubSeq(s, 1, k)[n] = s[n]
  <2>1. 1 \in Int /\ k \in Int /\ (1 <= k => k - 1 + 1 = k) /\ (~(1 <= k) => k = 0) /\ k - 1 + 1 = k
        /\ \A n \in 1 .. k : 1 + n - 1 = n
    BY <1>2
  <2> QED
    BY <1>2, <2>1, SubSeqProperties
<1> QED
  BY <1>1, <1>2, <1>3, SeqEqual

\* A line that does not end in a backslash escapes nothing after it.
LEMMA EndsUnescaped ==
    ASSUME NEW scan \in Scans, ~scan.escape, NEW line \in Seq(Chars),
           line # <<>> => line[Len(line)] # "\\"
    PROVE  Scan(scan, line) \in Scans /\ ~Scan(scan, line).escape
<1>1. Scan(scan, line) \in Scans
  BY ScanSteps
<1>2. CASE line = <<>>
  BY <1>1, <1>2, ScanSteps
<1>3. CASE line # <<>>
  <2>1. PICK front \in Seq(Chars), ch \in Chars : line = Append(front, ch) /\ line[Len(line)] = ch
    BY <1>3, LastElement
  <2>2. PICK s \in Scans : s = Scan(scan, front)
    BY ScanSteps
  <2>3. Scan(scan, line) = ScanChar(s, ch)
    BY <2>1, <2>2, ScanSteps
  <2>4. ch # "\\"
    BY <1>3, <2>1
  <2>5. ~ScanChar(s, ch).escape
    BY <2>4 DEF ScanChar, Scans
  <2> QED
    BY <1>1, <2>3, <2>5
<1> QED
  BY <1>2, <1>3

\* Up to a semicolon that is the first there is all that comes before it.
LEMMA UpToLast ==
    ASSUME NEW front \in Seq(Chars), ~HasSemicolon(front)
    PROVE  Cut(Append(front, ";")) = front /\ UpToSemicolon(Append(front, ";")) = Bare(front)
<1>1. PICK line, semi : semi = ";" /\ line = Append(front, semi)
  OBVIOUS
<1>2. semi \in Chars
  BY <1>1, CharsAssumption
<1>3. PICK k : k = Len(front)
  OBVIOUS
<1>4. /\ k \in Nat /\ line \in Seq(Chars) /\ Len(line) = k + 1 /\ line[k + 1] = semi
      /\ \A n \in 1 .. k : line[n] = front[n]
  <2>1. line = Append(front, semi)
    BY <1>1
  <2> QED
    BY <1>2, <1>3, <2>1, AppendProperties, LenProperties
<1>5. \A n \in 1 .. k : front[n] # semi
  BY <1>1, <1>3, Zenon DEF HasSemicolon, Contains
<1>6. PICK i : i = SelectInSeq(line, LAMBDA ch : ch = ";")
  OBVIOUS
<1>7. i \in 1 .. Len(line) /\ line[i] = semi
  <2>1. HasSemicolon(line)
    BY <1>1, <1>2, HasGrows
  <2> QED
    BY <1>1, <1>4, <1>6, <2>1, FirstSemicolon
<1>8. i = k + 1
  <2>1. ~(i \in 1 .. k)
    BY <1>4, <1>5, <1>7
  <2>2. i \in 1 .. k + 1 /\ k \in Nat
    BY <1>4, <1>7
  <2> QED
    BY ONLY <2>1, <2>2
<1>9. i # 0 /\ i - 1 = k
  BY ONLY <1>4, <1>8
<1>10. Cut(line) = SubSeq(line, 1, k)
  BY <1>6, <1>9, Zenon DEF Cut
<1>11. SubSeq(line, 1, k) = front
  BY <1>3, <1>4, StartOf
<1>12. Cut(line) = front /\ UpToSemicolon(line) = Bare(front)
  BY <1>10, <1>11 DEF UpToSemicolon
<1> QED
  BY <1>1, <1>12

\* A tidy line with a semicolon is what comes before it and that semicolon.
LEMMA TidyCut ==
    ASSUME NEW line \in Seq(Chars), TidyLine(line), HasSemicolon(line)
    PROVE  \E front \in Seq(Chars) :
              /\ line = Append(front, ";") /\ ~HasSemicolon(front)
              /\ front # <<>> => front[Len(front)] # "\\"
              /\ Cut(line) = front /\ UpToSemicolon(line) = Bare(front)
<1>1. PICK i, semi, slash : i = SelectInSeq(line, LAMBDA ch : ch = ";") /\ semi = ";" /\ slash = "\\"
  OBVIOUS
<1>2. i \in 1 .. Len(line) /\ line[i] = semi /\ \A j \in 1 .. Len(line) : line[j] = semi => i <= j
  BY <1>1, FirstSemicolon
<1>3. Len(line) \in Nat /\ DOMAIN line = 1 .. Len(line)
  BY LenProperties
<1>4. i = Len(line) /\ (i = 1 \/ line[i - 1] # slash)
  BY <1>1, <1>2, <1>3, Zenon DEF TidyLine
<1>5. line # <<>>
  <2>1. SUFFICES ASSUME line = <<>> PROVE FALSE
    OBVIOUS
  <2>2. Len(line) = 0
    BY <2>1, EmptySeq
  <2> QED
    BY <1>2, <2>2
<1>6. PICK front \in Seq(Chars), ch \in Chars :
         line = Append(front, ch) /\ Len(line) = Len(front) + 1 /\ line[Len(line)] = ch
  BY <1>5, LastElement
<1>7. PICK k : k = Len(front)
  OBVIOUS
<1>8. k \in Nat /\ Len(line) = k + 1 /\ \A n \in 1 .. k : line[n] = front[n]
  <2>1. k \in Nat /\ Len(line) = k + 1
    BY <1>6, <1>7, LenProperties
  <2>2. \A n \in 1 .. Len(front) : Append(front, ch)[n] = front[n]
    BY AppendProperties
  <2> QED
    BY <1>6, <1>7, <2>1, <2>2
<1>9. i = k + 1 /\ ch = semi
  BY <1>2, <1>4, <1>6, <1>8
<1>10. ~HasSemicolon(front)
  <2>1. ASSUME NEW n \in 1 .. k, front[n] = semi PROVE FALSE
    <3>1. n \in 1 .. Len(line) /\ ~(k + 1 <= n)
      BY ONLY <1>8, n \in 1 .. k
    <3>2. line[n] = semi
      BY <1>8, <2>1
    <3> QED
      BY <1>2, <1>9, <3>1, <3>2
  <2> QED
    BY <1>1, <1>7, <2>1 DEF HasSemicolon, Contains
<1>11. front # <<>> => front[Len(front)] # slash
  <2>1. SUFFICES ASSUME front # <<>> PROVE front[k] # slash
    BY <1>7
  <2>2. k # 0
    BY <1>7, <2>1, EmptySeq
  <2>3. k \in 1 .. k /\ i # 1 /\ i - 1 = k
    BY ONLY <1>8, <1>9, <2>2
  <2> QED
    BY <1>4, <1>8, <2>3
<1>12. Cut(line) = front /\ UpToSemicolon(line) = Bare(front)
  BY <1>1, <1>6, <1>9, <1>10, UpToLast
<1> QED
  BY <1>1, <1>6, <1>9, <1>10, <1>11, <1>12

\* The unfinished statement is the whole of some lines, none of which ends it.
WholeSoFar(lines, buffer, scan) ==
    /\ scan = Scan(FreshScan, Text(lines)) /\ ~scan.escape
    /\ buffer = Bare(Text(lines))
    /\ StatementEnds(Text(lines)) = {}

\* With a tidy line more it is the whole of them still, or that line ends it.
LEMMA WholeWithLine ==
    ASSUME NEW lines \in Seq(Seq(Chars)), NEW line \in Seq(Chars), TidyLine(line),
           NEW buffer, NEW white \in Whites, NEW scan, WholeSoFar(lines, buffer, scan),
           NEW check, check = PromptCheck(buffer, white, scan, line)
    PROVE  /\ ~check.complete => WholeSoFar(Append(lines, line), check.buffer, check.scan)
           /\ check.complete =>
                 /\ StatementEnds(Text(Append(lines, line))) # {}
                 /\ check.buffer = Bare(StatementOf(Text(Append(lines, line))))
<1>1. PICK t \in Seq(Chars) : t = Text(lines)
  BY TextSteps
<1>2. PICK blank, semi : blank = " " /\ semi = ";"
  OBVIOUS
<1>3. blank \in Chars /\ semi \in Chars
  BY <1>2, CharsAssumption
<1>3a. blank # semi /\ {blank, semi} = {" ", ";"}
  BY <1>2
<1>4. PICK u, v : u = t \o line /\ v = Append(u, blank)
  OBVIOUS
<1>5. u \in Seq(Chars) /\ v \in Seq(Chars)
  BY <1>3, <1>4, ConcatProperties, AppendProperties
<1>6. Text(Append(lines, line)) = v
  <2>1. Text(Append(lines, line)) = WithText(t, line)
    BY <1>1, TextSteps
  <2>2. WithText(t, line) = u \o <<blank>>
    BY <1>2, <1>4 DEF WithText
  <2>3. u \o <<blank>> = Append(u, blank)
    BY <1>3, <1>5, AppendIsConcat
  <2> QED
    BY <1>4, <2>1, <2>2, <2>3
<1>7. /\ scan = Scan(FreshScan, t) /\ ~scan.escape /\ scan \in Scans
      /\ buffer = Bare(t) /\ StatementEnds(t) = {}
  BY <1>1, FreshScanType, ScanSteps DEF WholeSoFar
<1>8. PICK after : after = Scan(scan, line)
  OBVIOUS
<1>9. /\ check.complete <=> HasSemicolon(line) /\ Balanced(after)
      /\ check.scan = after /\ check.buffer = Bare(t) \o UpToSemicolon(line)
  <2>1. Bare(t) \in Seq(Chars)
    BY BareSteps
  <2> QED
    BY <1>7, <1>8, <2>1, CheckType
<1>10. after \in Scans /\ ~after.escape
  <2>1. line # <<>> => line[Len(line)] # "\\"
    <3>1. SUFFICES ASSUME line # <<>> PROVE line[Len(line)] # "\\"
      OBVIOUS
    <3>2. Len(line) \in DOMAIN line
      BY <3>1, LenProperties, EmptySeq
    <3> QED
      BY <3>2 DEF TidyLine
  <2> QED
    BY <1>7, <1>8, <2>1, EndsUnescaped
<1>11. Scan(FreshScan, u) = after
  BY <1>1, <1>4, <1>7, <1>8, FreshScanType, ScanConcat
<1>12. Scan(FreshScan, v) = after
  <2>1. Scan(FreshScan, v) = ScanChar(after, blank)
    BY <1>3, <1>4, <1>5, <1>11, FreshScanType, ScanSteps
  <2>2. ScanChar(after, blank) = after
    BY <1>10, <1>3a, NeutralChar
  <2> QED
    BY <2>1, <2>2
<1>13. Bare(v) = Bare(t) \o Bare(line)
  <2>1. Bare(v) = Kept(Bare(u), blank)
    BY <1>3, <1>4, <1>5, BareSteps
  <2>2. Kept(Bare(u), blank) = Bare(u)
    BY <1>3a DEF Kept
  <2>3. Bare(u) = Bare(t) \o Bare(line)
    BY <1>4, BareConcat
  <2> QED
    BY <2>1, <2>2, <2>3
<1>14. StatementEnds(v) = StatementEnds(u)
  <2>1. ~Ending(after, blank)
    BY <1>2, <1>3a DEF Ending
  <2>2. StatementEnds(v) = StatementEnds(u) \cup {}
    BY <1>3, <1>4, <1>5, <1>11, <2>1, EndsGrow
  <2> QED
    BY <2>2
<1>15. CASE ~HasSemicolon(line)
  <2>1. UpToSemicolon(line) = Bare(line)
    BY <1>15, FirstSemicolon DEF UpToSemicolon, Cut
  <2>2. StatementEnds(u) = {}
    BY <1>4, <1>7, <1>15, EndsNothing
  <2>3. WholeSoFar(Append(lines, line), check.buffer, check.scan)
    BY <1>6, <1>9, <1>10, <1>12, <1>13, <1>14, <2>1, <2>2 DEF WholeSoFar
  <2> QED
    BY <1>9, <1>15, <2>3
<1>16. CASE HasSemicolon(line)
  <2>1. PICK front \in Seq(Chars) :
           /\ line = Append(front, semi) /\ ~HasSemicolon(front)
           /\ front # <<>> => front[Len(front)] # "\\"
           /\ UpToSemicolon(line) = Bare(front)
    BY <1>2, <1>16, TidyCut
  <2>2. PICK w, s : w = t \o front /\ s = Scan(scan, front)
    OBVIOUS
  <2>3. w \in Seq(Chars) /\ u = Append(w, semi)
    <3>1. t \o front \in Seq(Chars)
      BY ConcatProperties
    <3>2. t \o Append(front, semi) = Append(t \o front, semi)
      BY <1>3, ConcatAppend
    <3> QED
      BY <1>4, <2>1, <2>2, <3>1, <3>2
  <2>4. s \in Scans /\ ~s.escape
    BY <1>7, <2>1, <2>2, EndsUnescaped
  <2>5. after = s
    <3>1. after = ScanChar(s, semi)
      BY <1>3, <1>7, <1>8, <2>1, <2>2, ScanSteps
    <3>2. ScanChar(s, semi) = s
      BY <1>3a, <2>4, NeutralChar
    <3> QED
      BY <3>1, <3>2
  <2>6. Scan(FreshScan, w) = s
    BY <1>1, <1>7, <2>2, FreshScanType, ScanConcat
  <2>7. StatementEnds(w) = {}
    BY <1>7, <2>1, <2>2, EndsNothing
  <2>8. Ending(s, semi) <=> Balanced(s)
    BY <1>2, <2>4 DEF Ending
  <2>9. StatementEnds(u) = {} \cup (IF Balanced(s) THEN {Len(w) + 1} ELSE {})
    BY <1>3, <2>3, <2>6, <2>7, <2>8, EndsGrow
  <2>10. Bare(line) = Bare(front)
    <3>1. Bare(line) = Kept(Bare(front), semi)
      BY <1>3, <2>1, BareSteps
    <3> QED
      BY <1>3a, <3>1 DEF Kept
  <2>11. check.buffer = Bare(t) \o Bare(front) /\ Bare(w) = Bare(t) \o Bare(front)
    BY <1>9, <2>1, <2>2, BareConcat
  <2>12. CASE ~Balanced(s)
    <3>1. ~check.complete /\ StatementEnds(v) = {} /\ check.buffer = Bare(v)
      BY <1>9, <1>13, <1>14, <2>5, <2>9, <2>10, <2>11, <2>12
    <3> QED
      BY <1>6, <1>9, <1>10, <1>12, <3>1 DEF WholeSoFar
  <2>13. CASE Balanced(s)
    <3>1. check.complete
      BY <1>9, <1>16, <2>5, <2>13
    <3>2. PICK k : k = Len(w)
      OBVIOUS
    <3>3. StatementEnds(v) = {k + 1} /\ k \in Nat
      BY <1>14, <2>3, <2>9, <2>13, <3>2, LenProperties
    <3>4. (CHOOSE n \in StatementEnds(v) : \A m \in StatementEnds(v) : n <= m) = k + 1
      <4>1. k + 1 \in StatementEnds(v) /\ \A m \in StatementEnds(v) : k + 1 <= m
        BY <3>3
      <4> QED
        BY <3>3, <4>1
    <3>5. StatementOf(v) = SubSeq(v, 1, k)
      <4>1. (k + 1) - 1 = k
        BY <3>3
      <4> QED
        BY <3>4, <4>1 DEF StatementOf
    <3>6. SubSeq(v, 1, k) = w
      <4>1. Len(u) = k + 1 /\ \A n \in 1 .. k : u[n] = w[n]
        <5>1. Len(Append(w, semi)) = Len(w) + 1 /\ \A n \in 1 .. Len(w) : Append(w, semi)[n] = w[n]
          BY <1>3, <2>3, AppendProperties
        <5> QED
          BY <2>3, <3>2, <5>1
      <4>2. \A n \in 1 .. k + 1 : v[n] = u[n]
        <5>1. \A n \in 1 .. Len(u) : Append(u, blank)[n] = u[n]
          BY <1>3, <1>5, AppendProperties
        <5> QED
          BY <1>4, <4>1, <5>1
      <4>3. \A n \in 1 .. k : n \in 1 .. k + 1
        BY <3>3
      <4> QED
        BY <2>3, <3>2, <4>1, <4>2, <4>3, StartOf
    <3> QED
      BY <1>6, <2>11, <3>1, <3>3, <3>5, <3>6
  <2> QED
    BY <2>12, <2>13
<1> QED
  BY <1>15, <1>16

-----------------------------------------------------------------------------
(***************************************************************************)
(* The prompt keeps the whole of what was typed, and nothing more.         *)
(***************************************************************************)
HandedInv ==
    handed # <<>> /\ ~IsCommand(Last(handed).text) /\ Tidy(Last(handed).lines)
        => HandedIsWhole(Last(handed))

\* The invariant of StatementsAreWhole: what is unfinished is the whole text so far.
WholeInv ==
    multiline =>
        /\ Tidy(pending) => WholeSoFar(pending, input.buffer, input.scan)
        /\ HandedInv

\* No lines leave nothing.
LEMMA WholeOfNothing == WholeSoFar(<<>>, FreshInput.buffer, FreshInput.scan)
<1>1. Text(<<>>) = <<>> /\ Bare(<<>>) = <<>> /\ Scan(FreshScan, <<>>) = FreshScan
  BY TextSteps, BareSteps, ScanSteps, FreshScanType
<1>2. FreshInput.buffer = <<>> /\ FreshInput.scan = FreshScan /\ FreshScan.escape = FALSE
  BY DEF FreshInput, FreshScan
<1> QED
  BY <1>1, <1>2, EndsNone, Zenon DEF WholeSoFar

\* A line that ends a statement is handed over with the whole of it.
LEMMA HandWhole ==
    ASSUME TypeInv, NEW line \in Headed, NEW text \in Headed, NEW white \in Whites, NEW entry,
           Hand(line, text, white, entry), NEW said, said = Append(pending, line),
           \/ IsCommand(text)
           \/ Tidy(said) => StatementEnds(Text(said)) # {} /\ text = Bare(StatementOf(Text(said)))
    PROVE  WholeInv'
<1>1. PICK stmt : stmt = [text |-> text, white |-> white, lines |-> said]
  OBVIOUS
<1>2. stmt \in Stmts /\ stmt.text = text /\ stmt.lines = said
  BY <1>1, AppendProperties DEF TypeInv, Headed, Stmts
<1>3. handed' = Append(handed, stmt) /\ pending' = <<>> /\ input' = FreshInput
  BY <1>1 DEF Hand
<1>4. Last(handed') = stmt
  <2>1. handed \in Seq(Stmts)
    BY DEF TypeInv
  <2>2. Append(handed, stmt)[Len(handed) + 1] = stmt /\ Len(Append(handed, stmt)) = Len(handed) + 1
    BY <1>2, <2>1, AppendProperties
  <2> QED
    BY <1>3, <2>2 DEF Last
<1>5. IsCommand(stmt.text) \/ (Tidy(stmt.lines) => HandedIsWhole(stmt))
  BY <1>2 DEF HandedIsWhole
<1>6. HandedInv'
  BY <1>4, <1>5, Zenon DEF HandedInv
<1>7. WholeSoFar(pending', input'.buffer, input'.scan)
  BY <1>3, WholeOfNothing
<1> QED
  BY <1>6, <1>7 DEF WholeInv

\* A line keeps what is read whole.
LEMMA LineWhole ==
    ASSUME TypeInv, WholeInv, NEW line \in Headed,
           SkipBlank(line) \/ Statement(line) \/ OneLine(line) \/ Command(line)
    PROVE  WholeInv'
<1>1. multiline' = multiline
  BY DEF SkipBlank, Statement, OneLine, Command, Enter
<1>2. SUFFICES ASSUME multiline PROVE WholeInv'
  BY <1>1 DEF WholeInv
<1>3. /\ line \in Seq(Chars) /\ pending \in Seq(Seq(Chars)) /\ input.buffer \in Seq(Chars) /\ input.scan \in Scans
      /\ input.white \in Whites /\ input \in Inputs
  BY DEF TypeInv, Inputs, Headed
<1>4. PICK check, said : /\ check = PromptCheck(input.buffer, input.white, input.scan, line)
                         /\ said = Append(pending, line)
  OBVIOUS
<1>5. check.scan = Scan(input.scan, line) /\ check.buffer = input.buffer \o UpToSemicolon(line)
      /\ (check.complete => HasSemicolon(line)) /\ check.white \in Whites
  BY <1>3, <1>4, CheckType
<1>6. ASSUME Tidy(said)
      PROVE  /\ ~check.complete => WholeSoFar(said, check.buffer, check.scan)
             /\ check.complete => StatementEnds(Text(said)) # {} /\ check.buffer = Bare(StatementOf(Text(said)))
  <2>1. Tidy(pending) /\ TidyLine(line)
    BY <1>3, <1>4, <1>6, TidyGrows
  <2>2. WholeSoFar(pending, input.buffer, input.scan)
    BY <1>2, <2>1 DEF WholeInv
  <2> QED
    BY <1>3, <1>4, <2>1, <2>2, WholeWithLine
<1>7. ASSUME pending' = said, handed' = handed, input'.buffer = check.buffer, input'.scan = check.scan, ~check.complete
      PROVE  WholeInv'
  <2>1. Tidy(pending') => WholeSoFar(pending', input'.buffer, input'.scan)
    BY <1>6, <1>7
  <2>2. HandedInv'
    BY <1>2, <1>7 DEF WholeInv, HandedInv
  <2> QED
    BY <2>1, <2>2 DEF WholeInv
<1>8. CASE SkipBlank(line)
  <2>1. line = <<>> /\ pending' = said /\ handed' = handed /\ input' = input
    BY <1>4, <1>8 DEF SkipBlank
  <2>2. check.scan = input.scan /\ check.buffer = input.buffer /\ ~check.complete
    BY <1>3, <1>5, <2>1, EmptyLine
  <2> QED
    BY <1>7, <2>1, <2>2
<1>9. CASE Statement(line)
  <2>1. MultilineStep(line) /\ Checked(line) = check
    BY <1>4, <1>9 DEF Statement, Checked
  <2>2. CASE ~check.complete
    <3>1. input' = MoreLines(line) /\ pending' = said /\ handed' = handed
      BY <1>4, <2>1, <2>2 DEF MultilineStep
    <3>2. input'.buffer = check.buffer /\ input'.scan = check.scan
      BY <2>1, <3>1 DEF MoreLines, InputAfter
    <3> QED
      BY <1>7, <2>2, <3>1, <3>2
  <2>3. CASE check.complete
    <3>1. Hand(line, check.buffer, check.white, EntryOf(check.buffer, check.white, MoreLines(line).lines))
      BY <2>1, <2>3 DEF MultilineStep
    <3>2. check.buffer \in Headed
      BY <1>3, <2>1, CheckedType
    <3>3. Tidy(said) => StatementEnds(Text(said)) # {} /\ check.buffer = Bare(StatementOf(Text(said)))
      BY <1>6, <2>3
    <3> QED
      BY <1>4, <1>5, <3>1, <3>2, <3>3, HandWhole
  <2> QED
    BY <2>2, <2>3
<1>10. CASE OneLine(line)
  BY <1>2, <1>10 DEF OneLine
<1>11. CASE Command(line)
  <2>1. Hand(line, line, NoWhite, <<line>>)
    BY <1>11 DEF Command
  <2>2. IsCommand(line)
    BY <1>11 DEF Command, MultilineCommand, IsCommand
  <2> QED
    BY <1>4, <2>1, <2>2, NoWhiteType, HandWhole
<1> QED
  BY <1>8, <1>9, <1>10, <1>11

\* A session begins with nothing unfinished.
LEMMA SessionWhole ==
    ASSUME input = FreshInput, handed = <<>>, pending = <<>> PROVE WholeInv
BY WholeOfNothing DEF WholeInv, HandedInv

\* Every step keeps statements whole.
LEMMA NextWhole == TypeInv /\ WholeInv /\ [Next]_vars => WholeInv'
<1> SUFFICES ASSUME TypeInv, WholeInv, [Next]_vars PROVE WholeInv'
  OBVIOUS
<1>1. \A line \in Lines \cup {rlLine} : line \in Headed
  <2>1. rlLine \in Headed
    BY DEF TypeInv
  <2> QED
    BY <2>1, LineHeaded
<1>2. ASSUME UNCHANGED <<multiline, input, handed, pending>> PROVE WholeInv'
  <2>1. multiline' = multiline /\ input' = input /\ handed' = handed /\ pending' = pending
    BY <1>2
  <2> QED
    BY <2>1 DEF WholeInv, HandedInv
<1>3. ASSUME NEW line \in Lines \cup {rlLine},
             SkipBlank(line) \/ Statement(line) \/ OneLine(line) \/ Command(line)
      PROVE  WholeInv'
  BY <1>1, <1>3, LineWhole
<1>4. ASSUME NEW entries, NewSession(entries) PROVE WholeInv'
  <2>1. input' = FreshInput /\ handed' = <<>> /\ pending' = <<>>
    BY <1>4 DEF NewSession
  <2>2. (input = FreshInput /\ handed = <<>> /\ pending = <<>> => WholeInv)'
    BY SessionWhole, PTL
  <2> QED
    BY <2>1, <2>2 DEF FreshInput
<1>5. CASE Next
  <2>1. CASE \E line \in Drafts : Type(line)
    BY <1>2, <2>1 DEF Type
  <2>2. CASE Up \/ Down
    BY <1>2, <2>2 DEF Up, Down
  <2>3. CASE Kill
    BY <1>4, <2>3 DEF Kill
  <2>4. CASE \E line \in Lines \cup {rlLine} :
                SkipBlank(line) \/ Statement(line) \/ OneLine(line) \/ Command(line) \/ Exit(line)
    BY <1>3, <1>4, <2>4 DEF Exit
  <2> QED
    BY <1>5, <2>1, <2>2, <2>3, <2>4 DEF Next
<1>6. CASE UNCHANGED vars
  BY <1>2, <1>6 DEF vars
<1> QED
  BY <1>5, <1>6

\* A statement is handed over when the semicolon outside strings and brackets
\* has been typed, and it is everything typed up to there.
THEOREM NothingIsCut == Spec => []StatementsAreWhole
<1>1. Init => IInv /\ WholeInv
  BY InitTyped, SessionWhole DEF IInv, Init
<1>2. IInv /\ WholeInv /\ [Next]_vars => IInv' /\ WholeInv'
  BY NextTyped, NextWhole DEF IInv
<1>3. WholeInv => StatementsAreWhole
  BY DEF WholeInv, HandedInv, WholeSoFar, StatementsAreWhole
<1> QED
  BY <1>1, <1>2, <1>3, PTL DEF Spec

-----------------------------------------------------------------------------
(***************************************************************************)
(* What is called back from the history.                                   *)
(***************************************************************************)
\* Nothing is shown of no lines, and one more line is shown after the others.
LEMMA ShownSteps ==
    /\ HistoryLine(<<>>) = <<>>
    /\ \A entry \in Seq(Seq(Chars)) :
          /\ HistoryLine(entry) \in Seq(Chars)
          /\ \A line \in Seq(Chars) :
                HistoryLine(Append(entry, line)) = Showing(HistoryLine(entry), Len(entry) + 1, line)
<1>1. HistoryLine(<<>>) = <<>>
  <2>1. PICK none : none = <<>>
    OBVIOUS
  <2>2. none \in Seq(Seq(Chars)) /\ Len(none) = 0
    BY <2>1
  <2>3. PICK at \in [0 .. Len(none) -> Seq(Chars)] : at[0] = <<>> /\ HistoryLine(none) = at[Len(none)]
    BY <2>2, ShownRuns
  <2>4. HistoryLine(none) = <<>>
    BY <2>2, <2>3
  <2> QED
    BY <2>1, <2>4, Zenon
<1>2. ASSUME NEW entry \in Seq(Seq(Chars))
      PROVE  /\ HistoryLine(entry) \in Seq(Chars)
             /\ \A line \in Seq(Chars) :
                   HistoryLine(Append(entry, line)) = Showing(HistoryLine(entry), Len(entry) + 1, line)
  <2> DEFINE k == Len(entry)
  <2>1. k \in Nat
    BY LenProperties
  <2>2. PICK at \in [0 .. k -> Seq(Chars)] :
           /\ at[0] = <<>>
           /\ \A n \in 1 .. k : at[n] = Showing(at[n - 1], n, entry[n])
           /\ HistoryLine(entry) = at[k]
    BY ShownRuns
  <2>3. HistoryLine(entry) \in Seq(Chars)
    BY <2>1, <2>2
  <2>4. ASSUME NEW line \in Seq(Chars)
        PROVE  HistoryLine(Append(entry, line)) = Showing(HistoryLine(entry), k + 1, line)
    <3> DEFINE more == Append(entry, line)
    <3>1. /\ more \in Seq(Seq(Chars)) /\ Len(more) = k + 1 /\ more[k + 1] = line
          /\ \A n \in 1 .. k : more[n] = entry[n]
      BY AppendProperties
    <3> HIDE DEF more, k
    <3>2. PICK to \in [0 .. k + 1 -> Seq(Chars)] :
             /\ to[0] = <<>>
             /\ \A n \in 1 .. k + 1 : to[n] = Showing(to[n - 1], n, more[n])
             /\ HistoryLine(more) = to[k + 1]
      BY <3>1, ShownRuns
    <3>3. \A n \in 1 .. k : at[n - 1] = to[n - 1] => at[n] = to[n]
      BY <2>1, <2>2, <3>1, <3>2
    <3>4. at[0] = to[0]
      BY <2>2, <3>2
    <3>5. Alike(at, to, k)
      BY <2>1, <3>3, <3>4, StepsAgree
    <3>6. at[k] = to[k]
      BY <2>1, <3>5 DEF Alike
    <3>7. to[k + 1] = Showing(to[k], k + 1, line)
      BY <2>1, <3>1, <3>2
    <3> QED
      BY <2>2, <3>2, <3>6, <3>7 DEF more
  <2> QED
    BY <2>3, <2>4
<1> QED
  BY <1>1, <1>2

\* A line more is scanned, kept and searched after the others.
LEMMA ShownGrows ==
    ASSUME NEW entry \in Seq(Seq(Chars)), NEW line \in Seq(Chars),
           NEW scan, scan = Scan(FreshScan, HistoryLine(entry)), ~scan.escape,
           ~HasSemicolon(HistoryLine(entry))
    PROVE  /\ Scan(FreshScan, HistoryLine(Append(entry, line))) = Scan(scan, line)
           /\ Bare(HistoryLine(Append(entry, line))) = Bare(HistoryLine(entry)) \o Bare(line)
           /\ HasSemicolon(HistoryLine(Append(entry, line))) <=> HasSemicolon(line)
           /\ \A ch \in Chars : HistoryLine(Append(entry, Append(line, ch)))
                                  = Append(HistoryLine(Append(entry, line)), ch)
<1>1. PICK shown, blank : shown = HistoryLine(entry) /\ blank = " "
  OBVIOUS
<1>2. shown \in Seq(Chars) /\ blank \in Chars /\ scan \in Scans
  BY <1>1, ShownSteps, BlankType, FreshScanType, ScanSteps
<1>3. PICK front : front = IF Len(entry) + 1 = 1 THEN <<>> ELSE shown \o <<blank>>
  OBVIOUS
<1>4. \A l \in Seq(Chars) : HistoryLine(Append(entry, l)) = front \o l
  <2> SUFFICES ASSUME NEW l \in Seq(Chars) PROVE HistoryLine(Append(entry, l)) = front \o l
    OBVIOUS
  <2>1. HistoryLine(Append(entry, l)) = Showing(shown, Len(entry) + 1, l)
    BY <1>1, ShownSteps
  <2> QED
    BY <1>1, <1>3, <2>1 DEF Showing
<1>5. front \in Seq(Chars) /\ Scan(FreshScan, front) = scan /\ Bare(front) = Bare(shown) /\ ~HasSemicolon(front)
  <2>1. CASE entry = <<>>
    <3>1. front = <<>>
      <4>1. Len(entry) + 1 = 1
        BY <2>1, EmptySeq
      <4> QED
        BY <1>3, <4>1
    <3>2. shown = <<>>
      BY <1>1, <2>1, ShownSteps
    <3>3. front = shown
      BY <3>1, <3>2
    <3> QED
      BY <1>1, <1>2, <3>3
  <2>2. CASE entry # <<>>
    <3>1. front = Append(shown, blank)
      <4>1. Len(entry) + 1 # 1
        <5>1. Len(entry) \in Nat /\ Len(entry) # 0
          BY <2>2, LenProperties, EmptySeq
        <5> QED
          BY ONLY <5>1
      <4>2. shown \o <<blank>> = Append(shown, blank)
        BY <1>2, AppendIsConcat
      <4> QED
        BY <1>3, <4>1, <4>2
    <3>2. front \in Seq(Chars)
      BY <1>2, <3>1, AppendProperties
    <3>3. blank \in {" ", ";"} /\ blank # ";"
      BY <1>1
    <3>4. Scan(FreshScan, front) = scan
      <4>1. Scan(FreshScan, front) = ScanChar(scan, blank)
        BY <1>1, <1>2, <3>1, FreshScanType, ScanSteps
      <4>2. ScanChar(scan, blank) = scan
        BY <1>2, <3>3, NeutralChar
      <4> QED
        BY <4>1, <4>2
    <3>5. Bare(front) = Bare(shown)
      <4>1. Bare(front) = Kept(Bare(shown), blank)
        BY <1>2, <3>1, BareSteps
      <4> QED
        BY <3>3, <4>1 DEF Kept
    <3>6. ~HasSemicolon(front)
      BY <1>1, <1>2, <3>1, <3>3, HasGrows
    <3> QED
      BY <3>2, <3>4, <3>5, <3>6
  <2> QED
    BY <2>1, <2>2
<1>6. Scan(FreshScan, front \o line) = Scan(scan, line)
  BY <1>5, FreshScanType, ScanConcat
<1>7. Bare(front \o line) = Bare(shown) \o Bare(line)
  BY <1>5, BareConcat
<1>8. HasSemicolon(front \o line) <=> HasSemicolon(line)
  BY <1>5, HasConcat
<1>9. \A ch \in Chars : HistoryLine(Append(entry, Append(line, ch))) = Append(front \o line, ch)
  <2> SUFFICES ASSUME NEW ch \in Chars
               PROVE  HistoryLine(Append(entry, Append(line, ch))) = Append(front \o line, ch)
    OBVIOUS
  <2>1. Append(line, ch) \in Seq(Chars)
    BY AppendProperties
  <2>2. HistoryLine(Append(entry, Append(line, ch))) = front \o Append(line, ch)
    BY <1>4, <2>1
  <2>3. front \o Append(line, ch) = Append(front \o line, ch)
    BY <1>5, ConcatAppend
  <2> QED
    BY <2>2, <2>3
<1> QED
  BY <1>1, <1>4, <1>6, <1>7, <1>8, <1>9

\* No semicolon is kept, and what is kept of it is the same.
LEMMA BareTwice ==
    \A text \in Seq(Chars) : Bare(Bare(text)) = Bare(text) /\ ~HasSemicolon(Bare(text))
<1> DEFINE T == {text \in Seq(Chars) : Bare(Bare(text)) = Bare(text) /\ ~HasSemicolon(Bare(text))}
<1>1. <<>> \in T
  <2>1. Bare(<<>>) = <<>> /\ <<>> \in Seq(Chars)
    BY BareSteps, EmptySeq
  <2>2. ~HasSemicolon(<<>>)
    BY DEF HasSemicolon, Contains
  <2> QED
    BY <2>1, <2>2
<1>2. ASSUME NEW text \in Seq(Chars), NEW ch \in Chars, text \in T PROVE Append(text, ch) \in T
  <2>1. PICK bare \in Seq(Chars) : bare = Bare(text)
    BY BareSteps
  <2>2. Bare(Append(text, ch)) = Kept(bare, ch) /\ Bare(bare) = bare /\ ~HasSemicolon(bare)
    BY <1>2, <2>1, BareSteps
  <2>3. Bare(Kept(bare, ch)) = Kept(bare, ch) /\ ~HasSemicolon(Kept(bare, ch))
    <3>1. CASE ch \in {" ", ";"}
      BY <2>2, <3>1 DEF Kept
    <3>2. CASE ch \notin {" ", ";"}
      <4>1. Kept(bare, ch) = Append(bare, ch) /\ ch # ";"
        BY <3>2 DEF Kept
      <4>2. Bare(Append(bare, ch)) = Kept(bare, ch)
        BY <2>2, BareSteps
      <4>3. ~HasSemicolon(Append(bare, ch))
        BY <2>2, <4>1, HasGrows
      <4> QED
        BY <4>1, <4>2, <4>3
    <3> QED
      BY <3>1, <3>2
  <2>4. Append(text, ch) \in Seq(Chars)
    BY AppendProperties
  <2> QED
    BY <2>2, <2>3, <2>4
<1> HIDE DEF T
<1>3. \A text \in Seq(Chars) : text \in T
  BY <1>1, <1>2, AppendInduction
<1> QED
  BY <1>3 DEF T

\* A line whose blanks are after no backslash.
BlankFree(line) == \A j \in DOMAIN line : line[j] = " " => j = 1 \/ line[j-1] # "\\"

\* What such a line starts with is one, and a blank at its end is after no
\* backslash.
LEMMA BlankFreeStart ==
    ASSUME NEW c \in Seq(Chars), NEW ch \in Chars, BlankFree(Append(c, ch))
    PROVE  BlankFree(c) /\ (ch = " " /\ c # <<>> => c[Len(c)] # "\\")
<1>1. PICK k, more, slash, blank : k = Len(c) /\ more = Append(c, ch) /\ slash = "\\" /\ blank = " "
  OBVIOUS
<1>2. /\ k \in Nat /\ DOMAIN c = 1 .. k /\ DOMAIN more = 1 .. k + 1
      /\ (\A n \in 1 .. k : more[n] = c[n]) /\ more[k + 1] = ch
  <2>1. /\ Len(c) \in Nat /\ DOMAIN c = 1 .. Len(c)
        /\ Append(c, ch) \in Seq(Chars) /\ Len(Append(c, ch)) = Len(c) + 1
        /\ \A n \in 1 .. Len(c) : Append(c, ch)[n] = c[n]
        /\ Append(c, ch)[Len(c) + 1] = ch
    BY AppendProperties, LenProperties
  <2>2. DOMAIN Append(c, ch) = 1 .. Len(c) + 1
    BY <2>1, LenProperties
  <2> QED
    BY <1>1, <2>1, <2>2, Zenon
<1>3. \A j \in 1 .. k + 1 : more[j] = blank => j = 1 \/ more[j - 1] # slash
  BY <1>1, <1>2, Zenon DEF BlankFree
<1>4. \A j \in 1 .. k : c[j] = blank => j = 1 \/ c[j - 1] # slash
  <2> SUFFICES ASSUME NEW j \in 1 .. k, c[j] = blank, j # 1 PROVE c[j - 1] # slash
    OBVIOUS
  <2>1. j \in 1 .. k + 1 /\ j - 1 \in 1 .. k
    BY ONLY <1>2, j \in 1 .. k, j # 1
  <2> QED
    BY <1>2, <1>3, <2>1
<1>5. ch = blank /\ k # 0 => c[k] # slash
  <2> SUFFICES ASSUME ch = blank, k # 0 PROVE c[k] # slash
    OBVIOUS
  <2>1. k + 1 \in 1 .. k + 1 /\ k + 1 # 1 /\ (k + 1) - 1 = k /\ k \in 1 .. k
    BY ONLY <1>2, k # 0
  <2> QED
    BY <1>2, <1>3, <2>1
<1>6. BlankFree(c)
  BY <1>1, <1>2, <1>4, Zenon DEF BlankFree
<1>7. c # <<>> => k # 0
  BY <1>1, EmptySeq
<1> QED
  BY <1>1, <1>5, <1>6, <1>7, Zenon

\* An entry of one line.
LEMMA OneEntry == ASSUME NEW line, line \in Headed \ {<<>>} PROVE <<line>> \in Entries
<1>1. PICK entry : entry = <<line>>
  OBVIOUS
<1>2. entry \in SaidLines /\ entry # <<>>
  BY <1>1 DEF SaidLines
<1> QED
  BY <1>1, <1>2 DEF Entries

\* What is kept of it is scanned as it is.
LEMMA BareScans ==
    ASSUME NEW scan \in Scans, ~scan.escape, NEW line \in Seq(Chars), ~HasSemicolon(line), BlankFree(line)
    PROVE  Scan(scan, Bare(line)) = Scan(scan, line)
<1> DEFINE T == {c \in Seq(Chars) :
                   ~HasSemicolon(c) /\ BlankFree(c) => Scan(scan, Bare(c)) = Scan(scan, c)}
<1>1. <<>> \in T
  BY BareSteps, EmptySeq
<1>2. ASSUME NEW c \in Seq(Chars), NEW ch \in Chars, c \in T PROVE Append(c, ch) \in T
  <2>1. Append(c, ch) \in Seq(Chars)
    BY AppendProperties
  <2>2. ASSUME ~HasSemicolon(Append(c, ch)), BlankFree(Append(c, ch))
        PROVE  Scan(scan, Bare(Append(c, ch))) = Scan(scan, Append(c, ch))
    <3>1. BlankFree(c) /\ (ch = " " /\ c # <<>> => c[Len(c)] # "\\")
      <4> HIDE DEF T
      <4> QED
        BY <2>2, BlankFreeStart
    <3>2. ~HasSemicolon(c) /\ ch # ";"
      <4> HIDE DEF T
      <4> QED
        BY <2>2, HasGrows
    <3>3. PICK s \in Scans : s = Scan(scan, c)
      BY ScanSteps
    <3>4. Scan(scan, Bare(c)) = s
      BY <1>2, <3>1, <3>2, <3>3
    <3>5. Scan(scan, Append(c, ch)) = ScanChar(s, ch)
      BY <3>3, ScanSteps
    <3>6. PICK bare \in Seq(Chars) : bare = Bare(c)
      BY BareSteps
    <3>7. Bare(Append(c, ch)) = Kept(bare, ch)
      BY <3>6, BareSteps
    <3>8. CASE ch = " "
      <4>1. c # <<>> => c[Len(c)] # "\\"
        BY <3>1, <3>8
      <4>2. ~s.escape
        BY <3>3, <4>1, EndsUnescaped
      <4>3. ScanChar(s, ch) = s
        BY <3>8, <4>2, NeutralChar
      <4>4. Kept(bare, ch) = bare
        BY <3>8 DEF Kept
      <4> QED
        BY <3>4, <3>5, <3>6, <3>7, <4>3, <4>4
    <3>9. CASE ch # " "
      <4>1. Kept(bare, ch) = Append(bare, ch)
        BY <3>2, <3>9 DEF Kept
      <4>2. Scan(scan, Append(bare, ch)) = ScanChar(Scan(scan, bare), ch)
        BY ScanSteps
      <4> QED
        BY <3>4, <3>5, <3>6, <3>7, <4>1, <4>2
    <3> QED
      BY <3>8, <3>9
  <2> QED
    BY <2>1, <2>2
<1>3. line \in T
  <2> HIDE DEF T
  <2> QED
    BY <1>1, <1>2, AppendInduction
<1> QED
  BY <1>3

-----------------------------------------------------------------------------
(***************************************************************************)
(* The blanks of a line, and those of a text that is written with them.    *)
(***************************************************************************)
\* A line of nothing has no blanks, and one more blank comes after what is
\* kept of the line.
LEMMA BlanksGrow ==
    /\ BlanksOf(<<>>) = {}
    /\ \A c \in Seq(Chars) : \A ch \in Chars :
          \A n : n \in BlanksOf(Append(c, ch)) <=> n \in BlanksOf(c) \/ (ch = " " /\ n = Len(Bare(c)))
<1>1. BlanksOf(<<>>) = {}
  <2>1. PICK none : none = <<>>
    OBVIOUS
  <2>2. DOMAIN none = {}
    BY <2>1
  <2>3. BlanksOf(none) = {}
    BY <2>2, Zenon DEF BlanksOf
  <2> QED
    BY <2>1, <2>3, Zenon
<1>2. ASSUME NEW c \in Seq(Chars), NEW ch \in Chars, NEW n
      PROVE  n \in BlanksOf(Append(c, ch)) <=> n \in BlanksOf(c) \/ (ch = " " /\ n = Len(Bare(c)))
  <2>1. PICK k, more, blank : k = Len(c) /\ more = Append(c, ch) /\ blank = " "
    OBVIOUS
  <2>2. /\ k \in Nat /\ DOMAIN c = 1 .. k /\ DOMAIN more = 1 .. k + 1 /\ more \in Seq(Chars) /\ Len(more) = k + 1
        /\ (\A i \in 1 .. k : more[i] = c[i]) /\ more[k + 1] = ch
    <3>1. /\ Len(c) \in Nat /\ DOMAIN c = 1 .. Len(c)
          /\ Append(c, ch) \in Seq(Chars) /\ Len(Append(c, ch)) = Len(c) + 1
          /\ \A i \in 1 .. Len(c) : Append(c, ch)[i] = c[i]
          /\ Append(c, ch)[Len(c) + 1] = ch
      BY AppendProperties, LenProperties
    <3>2. DOMAIN Append(c, ch) = 1 .. Len(c) + 1
      BY <3>1, LenProperties
    <3> QED
      BY <2>1, <3>1, <3>2, Zenon
  <2>3. /\ n \in BlanksOf(more) <=> \E i \in 1 .. k + 1 : more[i] = blank /\ n = Len(Bare(SubSeq(more, 1, i)))
        /\ n \in BlanksOf(c) <=> \E i \in 1 .. k : c[i] = blank /\ n = Len(Bare(SubSeq(c, 1, i)))
    <3>1. \A l : n \in BlanksOf(l) <=> \E i \in DOMAIN l : l[i] = blank /\ n = Len(Bare(SubSeq(l, 1, i)))
      BY <2>1, Zenon DEF BlanksOf
    <3> QED
      BY <2>2, <3>1, Zenon
  <2>4. \A i \in 1 .. k : SubSeq(more, 1, i) = SubSeq(c, 1, i)
    <3> SUFFICES ASSUME NEW i \in 1 .. k PROVE SubSeq(more, 1, i) = SubSeq(c, 1, i)
      OBVIOUS
    <3>1. \A j \in 1 .. i : j \in 1 .. k /\ c[j] \in Chars /\ more[j] = c[j]
      <4>1. \A j \in 1 .. i : j \in 1 .. k
        BY <2>2
      <4>2. \A j \in 1 .. k : c[j] \in Chars
        BY <2>1, ElementOfSeq
      <4> QED
        BY <2>2, <4>1, <4>2
    <3>2. SubSeq(c, 1, i) \in Seq(Chars) /\ Len(SubSeq(c, 1, i)) = i
          /\ \A j \in 1 .. i : SubSeq(c, 1, i)[j] = c[j]
      BY <2>2, <3>1, SubSeqProperties
    <3>3. SubSeq(more, 1, i) \in Seq(Chars) /\ Len(SubSeq(more, 1, i)) = i
          /\ \A j \in 1 .. i : SubSeq(more, 1, i)[j] = more[j]
      BY <2>2, <3>1, SubSeqProperties
    <3> QED
      BY <3>1, <3>2, <3>3, SeqEqual
  <2>5. SubSeq(more, 1, k + 1) = more
    BY <2>2, SubSeqFull
  <2>6. ch = blank => Bare(more) = Bare(c)
    <3>1. Bare(more) = Kept(Bare(c), ch)
      BY <2>1, BareSteps
    <3> QED
      BY <2>1, <3>1 DEF Kept
  <2>7. (\E i \in 1 .. k + 1 : more[i] = blank /\ n = Len(Bare(SubSeq(more, 1, i))))
          <=> (\E i \in 1 .. k : c[i] = blank /\ n = Len(Bare(SubSeq(c, 1, i)))) \/ (ch = blank /\ n = Len(Bare(c)))
    <3>1. \A i : i \in 1 .. k + 1 <=> i \in 1 .. k \/ i = k + 1
      BY <2>2
    <3> QED
      BY <2>2, <2>4, <2>5, <2>6, <3>1, Zenon
  <2> QED
    BY <2>1, <2>3, <2>7, Zenon
<1> QED
  BY <1>1, <1>2

\* Blanks are after at most as many elements as are kept.
LEMMA BlanksRange == \A c \in Seq(Chars) : BlanksOf(c) \subseteq 0 .. Len(Bare(c))
<1> DEFINE T == {c \in Seq(Chars) : BlanksOf(c) \subseteq 0 .. Len(Bare(c))}
<1>1. <<>> \in T
  <2>1. BlanksOf(<<>>) = {} /\ <<>> \in Seq(Chars)
    BY BlanksGrow, EmptySeq
  <2> QED
    BY <2>1
<1>2. ASSUME NEW c \in Seq(Chars), NEW ch \in Chars, c \in T PROVE Append(c, ch) \in T
  <2>1. PICK more : more = Append(c, ch)
    OBVIOUS
  <2>2. PICK bare \in Seq(Chars) : bare = Bare(c)
    BY BareSteps
  <2>3. Bare(more) = Kept(bare, ch) /\ more \in Seq(Chars)
    BY <2>1, <2>2, BareSteps, AppendProperties
  <2>4. Len(bare) \in Nat /\ Len(Bare(more)) \in {Len(bare), Len(bare) + 1}
    BY <2>3, AppendProperties, LenProperties DEF Kept
  <2>5. \A n : n \in BlanksOf(more) => n \in BlanksOf(c) \/ n = Len(bare)
    BY <2>1, <2>2, BlanksGrow, Zenon
  <2>6. BlanksOf(c) \subseteq 0 .. Len(bare)
    BY <1>2, <2>2
  <2>7. \A n \in BlanksOf(more) : n \in 0 .. Len(Bare(more))
    <3> HIDE DEF T
    <3> QED
      BY <2>4, <2>5, <2>6
  <2> QED
    BY <2>1, <2>3, <2>7
<1> HIDE DEF T
<1>3. \A c \in Seq(Chars) : c \in T
  BY <1>1, <1>2, AppendInduction
<1> QED
  BY <1>3 DEF T

\* The blanks of two lines in one.
LEMMA BlanksConcat ==
    ASSUME NEW a \in Seq(Chars), NEW b \in Seq(Chars)
    PROVE  \A n : n \in BlanksOf(a \o b)
                     <=> n \in BlanksOf(a) \/ \E k \in BlanksOf(b) : n = Len(Bare(a)) + k
<1> DEFINE Good(c) == \A n : n \in BlanksOf(a \o c)
                                <=> n \in BlanksOf(a) \/ \E k \in BlanksOf(c) : n = Len(Bare(a)) + k
           T == {c \in Seq(Chars) : Good(c)}
<1>1. <<>> \in T
  <2>1. BlanksOf(<<>>) = {} /\ <<>> \in Seq(Chars) /\ a \o <<>> = a
    BY BlanksGrow, EmptySeq, ConcatEmptySeq
  <2> QED
    BY <2>1
<1>2. ASSUME NEW c \in Seq(Chars), NEW ch \in Chars, c \in T PROVE Append(c, ch) \in T
  <2>1. Good(c)
    BY <1>2
  <2>2. PICK ac \in Seq(Chars) : ac = a \o c
    BY ConcatProperties
  <2>3. a \o Append(c, ch) = Append(ac, ch) /\ Append(c, ch) \in Seq(Chars)
    BY <2>2, ConcatAppend, AppendProperties
  <2>4. Len(Bare(ac)) = Len(Bare(a)) + Len(Bare(c))
    BY <2>2, BareConcat, BareSteps, ConcatProperties
  <2>5. PICK p, q, blank : p = Len(Bare(a)) /\ q = Len(Bare(c)) /\ blank = (ch = " ")
    OBVIOUS
  <2>6. ASSUME NEW n
        PROVE  n \in BlanksOf(Append(ac, ch)) <=> n \in BlanksOf(a) \/ \E k \in BlanksOf(Append(c, ch)) : n = p + k
    <3>1. n \in BlanksOf(Append(ac, ch)) <=> n \in BlanksOf(ac) \/ (blank /\ n = p + q)
      BY <2>4, <2>5, BlanksGrow
    <3>2. \A k : k \in BlanksOf(Append(c, ch)) <=> k \in BlanksOf(c) \/ (blank /\ k = q)
      BY <2>5, BlanksGrow
    <3>3. n \in BlanksOf(ac) <=> n \in BlanksOf(a) \/ \E k \in BlanksOf(c) : n = p + k
      BY <2>1, <2>2, <2>5
    <3> QED
      BY ONLY <3>1, <3>2, <3>3, Zenon
  <2>7. Good(Append(c, ch))
    BY <2>3, <2>5, <2>6
  <2> QED
    BY <2>3, <2>7
<1>3. b \in T
  <2> HIDE DEF T
  <2> QED
    BY <1>1, <1>2, AppendInduction
<1> QED
  BY <1>3


\* What is kept of a line that ends in a word or bracket ends in it.
LEMMA BareLast ==
    ASSUME NEW c \in Seq(Chars), NEW ch \in Chars, ch \notin {" ", ";"}
    PROVE  /\ Bare(Append(c, ch)) = Append(Bare(c), ch)
           /\ Len(Bare(Append(c, ch))) = Len(Bare(c)) + 1
           /\ Bare(Append(c, ch))[Len(Bare(c)) + 1] = ch
           /\ \A n \in 1 .. Len(Bare(c)) : Bare(Append(c, ch))[n] = Bare(c)[n]
<1>1. PICK bare \in Seq(Chars) : bare = Bare(c)
  BY BareSteps
<1>2. Bare(Append(c, ch)) = Append(bare, ch)
  BY <1>1, BareSteps DEF Kept
<1>3. /\ Len(Append(bare, ch)) = Len(bare) + 1 /\ Append(bare, ch)[Len(bare) + 1] = ch
      /\ \A n \in 1 .. Len(bare) : Append(bare, ch)[n] = bare[n]
  BY ONLY bare \in Seq(Chars), ch \in Chars, AppendProperties
<1> QED
  BY <1>1, <1>2, <1>3

\* Elements that are kept and have a blank behind them are no backslashes in
\* a line whose blanks are after none.
LEMMA BlanksUnescaped ==
    ASSUME NEW line \in Seq(Chars), ~HasSemicolon(line), BlankFree(line)
    PROVE  \A n \in BlanksOf(line) \ {0} : Bare(line)[n] # "\\"
<1> DEFINE Good(c) == \A n \in BlanksOf(c) \ {0} : Bare(c)[n] # "\\"
           T == {c \in Seq(Chars) : ~HasSemicolon(c) /\ BlankFree(c) => Good(c)}
<1>1. <<>> \in T
  <2>1. BlanksOf(<<>>) = {} /\ <<>> \in Seq(Chars)
    BY BlanksGrow, EmptySeq
  <2> QED
    BY <2>1
<1>2. ASSUME NEW c \in Seq(Chars), NEW ch \in Chars, c \in T PROVE Append(c, ch) \in T
  <2>1. Append(c, ch) \in Seq(Chars)
    BY AppendProperties
  <2>2. ASSUME ~HasSemicolon(Append(c, ch)), BlankFree(Append(c, ch)) PROVE Good(Append(c, ch))
    <3>1. BlankFree(c) /\ (ch = " " /\ c # <<>> => c[Len(c)] # "\\")
      <4> HIDE DEF T
      <4> QED
        BY <2>2, BlankFreeStart
    <3>2. ~HasSemicolon(c) /\ ch # ";"
      <4> HIDE DEF T
      <4> QED
        BY <2>2, HasGrows
    <3>3. Good(c)
      BY <1>2, <3>1, <3>2
    <3>4. CASE ch # " "
      <4>1. \A n : n \in BlanksOf(Append(c, ch)) <=> n \in BlanksOf(c)
        BY <3>4, BlanksGrow
      <4>2. PICK k : k = Len(Bare(c))
        OBVIOUS
      <4>3. ch \notin {" ", ";"}
        BY <3>2, <3>4
      <4>4. \A n \in 1 .. k : Bare(Append(c, ch))[n] = Bare(c)[n]
        <5> HIDE DEF T
        <5> QED
          BY <4>2, <4>3, BareLast
      <4>5. BlanksOf(c) \subseteq 0 .. k /\ k \in Nat
        BY <4>2, BlanksRange, BareSteps, LenProperties
      <4>6. \A n \in BlanksOf(c) \ {0} : n \in 1 .. k
        BY ONLY <4>5
      <4> QED
        BY <3>3, <4>1, <4>4, <4>6, Zenon
    <3>5. CASE ch = " "
      <4>1. Bare(Append(c, ch)) = Bare(c)
        <5>1. Bare(Append(c, ch)) = Kept(Bare(c), ch)
          BY BareSteps
        <5> QED
          BY <3>5, <5>1 DEF Kept
      <4>2. \A n : n \in BlanksOf(Append(c, ch)) <=> n \in BlanksOf(c) \/ n = Len(Bare(c))
        BY <3>5, BlanksGrow
      <4>3. Len(Bare(c)) \in BlanksOf(c) \/ Len(Bare(c)) = 0 \/ Bare(c)[Len(Bare(c))] # "\\"
        <5>1. CASE c = <<>>
          <6>1. Bare(c) = <<>>
            BY <5>1, BareSteps
          <6> QED
            BY <6>1
        <5>2. CASE c # <<>>
          <6>1. PICK d \in Seq(Chars), e \in Chars : c = Append(d, e) /\ c[Len(c)] = e
            BY <5>2, LastElement
          <6>2. e # "\\" /\ e # ";"
            <7>1. e # "\\"
              BY <3>1, <3>5, <5>2, <6>1
            <7>2. e # ";"
              BY <3>2, <6>1, HasGrows
            <7> QED
              BY <7>1, <7>2
          <6>3. CASE e = " "
            <7>1. Bare(c) = Bare(d)
              <8>1. Bare(c) = Kept(Bare(d), e)
                BY <6>1, BareSteps
              <8> QED
                BY <6>3, <8>1 DEF Kept
            <7>2. Len(Bare(d)) \in BlanksOf(c)
              BY <6>1, <6>3, BlanksGrow
            <7> QED
              BY <7>1, <7>2
          <6>4. CASE e # " "
            <7>1. e \notin {" ", ";"}
              BY <6>2, <6>4
            <7>2. Len(Bare(c)) = Len(Bare(d)) + 1 /\ Bare(c)[Len(Bare(d)) + 1] = e
              BY <6>1, <7>1, BareLast
            <7> QED
              BY <6>2, <7>2
          <6> QED
            BY <6>3, <6>4
        <5> QED
          BY <5>1, <5>2
      <4> QED
        BY <3>3, <4>1, <4>2, <4>3, Zenon
    <3> QED
      BY <3>4, <3>5
  <2> QED
    BY <2>1, <2>2
<1>3. line \in T
  <2> HIDE DEF T
  <2> QED
    BY <1>1, <1>2, AppendInduction
<1> QED
  BY <1>3

\* Nothing is written of no text, and an element more is written after the others.
LEMMA SpelledSteps ==
    ASSUME NEW white
    PROVE  /\ Spelled(<<>>, white) = <<>>
           /\ \A c \in Seq(Chars) :
                 /\ Spelled(c, white) \in Seq(Chars)
                 /\ \A ch \in Chars : Spelled(Append(c, ch), white)
                                        = Written(Spelled(c, white), ch, Len(c) + 1 \in Gaps(white))
<1>1. Spelled(<<>>, white) = <<>>
  <2>1. PICK none : none = <<>>
    OBVIOUS
  <2>2. none \in Seq(Chars) /\ Len(none) = 0
    BY <2>1
  <2>3. PICK at \in [0 .. Len(none) -> Seq(Chars)] : at[0] = <<>> /\ Spelled(none, white) = at[Len(none)]
    BY <2>2, SpelledRuns
  <2>4. Spelled(none, white) = <<>>
    BY <2>2, <2>3
  <2> QED
    BY <2>1, <2>4, Zenon
<1>2. ASSUME NEW c \in Seq(Chars)
      PROVE  /\ Spelled(c, white) \in Seq(Chars)
             /\ \A ch \in Chars : Spelled(Append(c, ch), white)
                                    = Written(Spelled(c, white), ch, Len(c) + 1 \in Gaps(white))
  <2> DEFINE k == Len(c)
  <2>1. k \in Nat
    BY LenProperties
  <2>2. PICK at \in [0 .. k -> Seq(Chars)] :
           /\ at[0] = <<>>
           /\ \A n \in 1 .. k : at[n] = Written(at[n - 1], c[n], n \in Gaps(white))
           /\ Spelled(c, white) = at[k]
    BY SpelledRuns
  <2>3. Spelled(c, white) \in Seq(Chars)
    BY <2>1, <2>2
  <2>4. ASSUME NEW ch \in Chars
        PROVE  Spelled(Append(c, ch), white) = Written(Spelled(c, white), ch, k + 1 \in Gaps(white))
    <3> DEFINE more == Append(c, ch)
    <3>1. /\ more \in Seq(Chars) /\ Len(more) = k + 1 /\ more[k + 1] = ch
          /\ \A n \in 1 .. k : more[n] = c[n]
      BY AppendProperties
    <3> HIDE DEF more, k
    <3>2. PICK to \in [0 .. k + 1 -> Seq(Chars)] :
             /\ to[0] = <<>>
             /\ \A n \in 1 .. k + 1 : to[n] = Written(to[n - 1], more[n], n \in Gaps(white))
             /\ Spelled(more, white) = to[k + 1]
      <4>1. \E to \in [0 .. Len(more) -> Seq(Chars)] :
               /\ to[0] = <<>>
               /\ \A n \in 1 .. Len(more) : to[n] = Written(to[n - 1], more[n], n \in Gaps(white))
               /\ Spelled(more, white) = to[Len(more)]
        BY <3>1, SpelledRuns, Zenon
      <4> QED
        BY <3>1, <4>1, Zenon
    <3>3. \A n \in 1 .. k : at[n - 1] = to[n - 1] => at[n] = to[n]
      BY <2>1, <2>2, <3>1, <3>2
    <3>4. at[0] = to[0]
      BY <2>2, <3>2
    <3>5. Alike(at, to, k)
      BY <2>1, <3>3, <3>4, StepsAgree
    <3>6. at[k] = to[k]
      BY <2>1, <3>5 DEF Alike
    <3>7. to[k + 1] = Written(to[k], ch, k + 1 \in Gaps(white))
      BY <2>1, <3>1, <3>2
    <3> QED
      BY <2>2, <3>2, <3>6, <3>7 DEF more
  <2> QED
    BY <2>3, <2>4
<1> QED
  BY <1>1, <1>2

\* An element is written with a blank after it or without.
LEMMA WrittenIs ==
    ASSUME NEW text \in Seq(Chars), NEW ch \in Chars, NEW gap
    PROVE  Written(text, ch, gap) = IF gap THEN Append(Append(text, ch), " ") ELSE Append(text, ch)
<1>1. PICK blank, more : blank = " " /\ more = Append(text, ch)
  OBVIOUS
<1>2. blank \in Chars /\ more \in Seq(Chars)
  BY <1>1, BlankType, AppendProperties
<1>3. text \o <<ch>> = more
  BY <1>1, AppendIsConcat
<1>4. more \o <<blank>> = Append(more, blank)
  BY <1>2, AppendIsConcat
<1>5. more \o <<>> = more
  BY <1>2, ConcatEmptySeq
<1>6. Written(text, ch, gap) = WithGap(more, gap)
  BY <1>3 DEF Written
<1>7. CASE gap
  BY <1>1, <1>4, <1>6, <1>7 DEF WithGap
<1>8. CASE ~gap
  BY <1>1, <1>5, <1>6, <1>8 DEF WithGap
<1> QED
  BY <1>7, <1>8

\* A text with neither blanks nor semicolons.
Plain(c) == \A n \in 1 .. Len(c) : c[n] \notin {" ", ";"}

\* What such a text starts with is one.
LEMMA PlainGrows ==
    ASSUME NEW c \in Seq(Chars), NEW ch \in Chars
    PROVE  Plain(Append(c, ch)) <=> Plain(c) /\ ch \notin {" ", ";"}
<1>1. PICK k, more : k = Len(c) /\ more = Append(c, ch)
  OBVIOUS
<1>1a. PICK Not : Not = {" ", ";"}
  OBVIOUS
<1>2. k \in Nat /\ Len(more) = k + 1 /\ (\A n \in 1 .. k : more[n] = c[n]) /\ more[k + 1] = ch
  BY ONLY <1>1, c \in Seq(Chars), ch \in Chars, AppendProperties, LenProperties
<1>3. \A n : n \in 1 .. k + 1 <=> n \in 1 .. k \/ n = k + 1
  BY <1>2
<1>4. (\A n \in 1 .. k + 1 : more[n] \notin Not) <=> (\A n \in 1 .. k : c[n] \notin Not) /\ ch \notin Not
  BY <1>2, <1>3, Zenon
<1>5. /\ Plain(more) <=> \A n \in 1 .. k + 1 : more[n] \notin Not
      /\ Plain(c) <=> \A n \in 1 .. k : c[n] \notin Not
  BY <1>1, <1>1a, <1>2, Zenon DEF Plain
<1> QED
  BY <1>1, <1>1a, <1>4, <1>5, Zenon

\* What is kept of a text is one.
LEMMA BarePlain == \A text \in Seq(Chars) : Plain(Bare(text))
<1> DEFINE T == {text \in Seq(Chars) : Plain(Bare(text))}
<1>1. <<>> \in T
  <2>1. Bare(<<>>) = <<>> /\ <<>> \in Seq(Chars)
    BY BareSteps, EmptySeq
  <2>2. PICK none : none = <<>>
    OBVIOUS
  <2>3. \A n : n \notin 1 .. Len(none)
    BY <2>2
  <2>4. Plain(none)
    BY <2>3, Zenon DEF Plain
  <2> QED
    BY <2>1, <2>2, <2>4
<1>2. ASSUME NEW text \in Seq(Chars), NEW ch \in Chars, text \in T PROVE Append(text, ch) \in T
  <2>1. PICK bare \in Seq(Chars) : bare = Bare(text)
    BY BareSteps
  <2>2. Bare(Append(text, ch)) = Kept(bare, ch) /\ Plain(bare) /\ Append(text, ch) \in Seq(Chars)
    BY <1>2, <2>1, BareSteps, AppendProperties
  <2>3. Plain(Kept(bare, ch))
    <3> HIDE DEF T
    <3> QED
      BY <2>2, PlainGrows DEF Kept
  <2> QED
    BY <2>2, <2>3
<1> HIDE DEF T
<1>3. \A text \in Seq(Chars) : text \in T
  BY <1>1, <1>2, AppendInduction
<1> QED
  BY <1>3 DEF T

\* White space that is after no backslash.
Safe(c, white) == \A n \in 1 .. Len(c) : n \in Gaps(white) => c[n] # "\\"

\* What is after none in a text is after none in its beginning.
LEMMA SafeStart ==
    ASSUME NEW white, NEW c \in Seq(Chars), NEW ch \in Chars, Safe(Append(c, ch), white)
    PROVE  Safe(c, white) /\ (Len(c) + 1 \in Gaps(white) => ch # "\\")
<1>1. PICK k, more : k = Len(c) /\ more = Append(c, ch)
  OBVIOUS
<1>1a. PICK slash, gaps : slash = "\\" /\ gaps = Gaps(white)
  OBVIOUS
<1>2. k \in Nat /\ Len(more) = k + 1 /\ (\A n \in 1 .. k : more[n] = c[n]) /\ more[k + 1] = ch
  BY ONLY <1>1, c \in Seq(Chars), ch \in Chars, AppendProperties, LenProperties
<1>3. \A n : n \in 1 .. k \/ n = k + 1 => n \in 1 .. k + 1
  BY <1>2
<1>4. \A n \in 1 .. k + 1 : n \in gaps => more[n] # slash
  BY <1>1, <1>1a, <1>2, Zenon DEF Safe
<1>5. (\A n \in 1 .. k : n \in gaps => c[n] # slash) /\ (k + 1 \in gaps => ch # slash)
  BY <1>2, <1>3, <1>4, Zenon
<1> QED
  BY <1>1, <1>1a, <1>5, Zenon DEF Safe

\* What is written of a text has its elements, and blanks where it has gaps;
\* it is scanned as the text is.
LEMMA SpelledPlain ==
    ASSUME NEW white, NEW text \in Seq(Chars), Plain(text), Safe(text, white)
    PROVE  /\ Spelled(text, white) \in Seq(Chars)
           /\ Bare(Spelled(text, white)) = text
           /\ ~HasSemicolon(Spelled(text, white))
           /\ Scan(FreshScan, Spelled(text, white)) = Scan(FreshScan, text)
           /\ \A n : n \in BlanksOf(Spelled(text, white)) <=> n \in 1 .. Len(text) /\ n \in Gaps(white)
<1> DEFINE Good(c) ==
               /\ Bare(Spelled(c, white)) = c
               /\ ~HasSemicolon(Spelled(c, white))
               /\ Scan(FreshScan, Spelled(c, white)) = Scan(FreshScan, c)
               /\ \A n : n \in BlanksOf(Spelled(c, white)) <=> n \in 1 .. Len(c) /\ n \in Gaps(white)
           T == {c \in Seq(Chars) : Plain(c) /\ Safe(c, white) => Good(c)}
<1>1. <<>> \in T
  <2>1. Spelled(<<>>, white) = <<>> /\ Bare(<<>>) = <<>> /\ BlanksOf(<<>>) = {}
    BY SpelledSteps, BareSteps, BlanksGrow
  <2>2. ~HasSemicolon(<<>>)
    BY DEF HasSemicolon, Contains
  <2>3. <<>> \in Seq(Chars) /\ 1 .. Len(<<>>) = {}
    BY EmptySeq
  <2>4. Good(<<>>)
    BY <2>1, <2>2, <2>3
  <2> QED
    BY <2>3, <2>4
<1>2. ASSUME NEW c \in Seq(Chars), NEW ch \in Chars, c \in T PROVE Append(c, ch) \in T
  <2>1. PICK more, k, gaps : more = Append(c, ch) /\ k = Len(c) /\ gaps = Gaps(white)
    OBVIOUS
  <2>2. more \in Seq(Chars) /\ k \in Nat /\ Len(more) = k + 1
    BY ONLY <2>1, c \in Seq(Chars), ch \in Chars, AppendProperties, LenProperties
  <2>3. ASSUME Plain(more), Safe(more, white) PROVE Good(more)
    <3>1. Plain(c) /\ ch \notin {" ", ";"}
      <4> HIDE DEF T
      <4> QED
        BY <2>1, <2>3, PlainGrows
    <3>2. Safe(c, white) /\ (k + 1 \in gaps => ch # "\\")
      <4> HIDE DEF T
      <4> QED
        BY <2>1, <2>3, SafeStart
    <3>3. Good(c)
      BY <1>2, <3>1, <3>2
    <3>4. PICK s \in Seq(Chars) : s = Spelled(c, white)
      BY SpelledSteps
    <3>5. PICK t \in Seq(Chars) : t = Append(s, ch)
      BY <3>4, AppendProperties
    <3>6. /\ Bare(t) = more /\ ~HasSemicolon(t) /\ Scan(FreshScan, t) = Scan(FreshScan, more)
          /\ \A n : n \in BlanksOf(t) <=> n \in 1 .. k /\ n \in gaps
      <4> HIDE DEF T
      <4>1. Bare(t) = more
        <5>1. Bare(t) = Append(Bare(s), ch)
          BY <3>1, <3>5, BareLast
        <5>2. Bare(s) = c
          BY <3>3, <3>4
        <5> QED
          BY <2>1, <5>1, <5>2
      <4>2. ~HasSemicolon(t)
        BY <3>1, <3>3, <3>4, <3>5, HasGrows
      <4>3. Scan(FreshScan, t) = Scan(FreshScan, more)
        BY <2>1, <3>3, <3>4, <3>5, FreshScanType, ScanSteps
      <4>4. \A n : n \in BlanksOf(t) <=> n \in BlanksOf(s)
        BY <3>1, <3>5, BlanksGrow
      <4> QED
        BY <2>1, <3>3, <3>4, <4>1, <4>2, <4>3, <4>4, Zenon
    <3>7. Spelled(more, white) = IF k + 1 \in gaps THEN Append(t, " ") ELSE t
      <4>1. Spelled(more, white) = Written(s, ch, k + 1 \in gaps)
        BY <2>1, <3>4, SpelledSteps
      <4> QED
        BY <3>4, <3>5, <4>1, WrittenIs
    <3>8. CASE k + 1 \notin gaps
      <4>1. Spelled(more, white) = t
        BY <3>7, <3>8
      <4>2. \A n : n \in 1 .. k /\ n \in gaps <=> n \in 1 .. Len(more) /\ n \in gaps
        BY ONLY <2>2, <3>8
      <4> QED
        BY <2>1, <3>6, <4>1, <4>2, Zenon
    <3>9. CASE k + 1 \in gaps
      <4>1. PICK blank \in Chars : blank = " "
        BY BlankType
      <4>2. Spelled(more, white) = Append(t, blank)
        BY <3>7, <3>9, <4>1
      <4>3. Bare(Append(t, blank)) = more
        <5>1. Bare(Append(t, blank)) = Kept(Bare(t), blank)
          BY BareSteps
        <5> QED
          BY <3>6, <4>1, <5>1 DEF Kept
      <4>4. ~HasSemicolon(Append(t, blank))
        <5> HIDE DEF T
        <5> QED
          BY <3>6, <4>1, HasGrows
      <4>5. Scan(FreshScan, Append(t, blank)) = Scan(FreshScan, more)
        <5>1. PICK u \in Scans : u = Scan(FreshScan, t)
          BY FreshScanType, ScanSteps
        <5>2. t[Len(t)] = ch
          BY ONLY <3>5, s \in Seq(Chars), ch \in Chars, AppendProperties
        <5>3. ~u.escape
          <6>1. ~FreshScan.escape
            BY DEF FreshScan
          <6> QED
            BY <3>2, <3>9, <5>1, <5>2, <6>1, FreshScanType, EndsUnescaped
        <5>4. ScanChar(u, blank) = u
          BY <4>1, <5>3, NeutralChar
        <5>5. Scan(FreshScan, Append(t, blank)) = ScanChar(u, blank)
          BY <5>1, FreshScanType, ScanSteps
        <5> QED
          BY <3>6, <5>1, <5>4, <5>5
      <4>6. \A n : n \in BlanksOf(Append(t, blank)) <=> n \in 1 .. Len(more) /\ n \in gaps
        <5>1. \A n : n \in BlanksOf(Append(t, blank)) <=> n \in BlanksOf(t) \/ n = k + 1
          <6> HIDE DEF T
          <6> QED
            BY <2>2, <3>6, <4>1, BlanksGrow
        <5>2. \A n : (n \in 1 .. k /\ n \in gaps) \/ n = k + 1 <=> n \in 1 .. Len(more) /\ n \in gaps
          BY ONLY <2>2, <3>9
        <5> QED
          BY <3>6, <5>1, <5>2, Zenon
      <4> QED
        BY <2>1, <4>2, <4>3, <4>4, <4>5, <4>6, Zenon
    <3> QED
      BY <3>8, <3>9
  <2> QED
    BY <2>1, <2>2, <2>3
<1>3. text \in T
  <2> HIDE DEF T
  <2> QED
    BY <1>1, <1>2, AppendInduction
<1>4. Spelled(text, white) \in Seq(Chars)
  BY SpelledSteps
<1> QED
  BY <1>3, <1>4

-----------------------------------------------------------------------------
(***************************************************************************)
(* The white space of a statement that is complete, and of the one that    *)
(* is called back.                                                         *)
(***************************************************************************)
\* The white space of a statement that is complete.
Finished(text, white) ==
    IF Starts(text, "curl") \/ Starts(text, "event") THEN Trimmed(text, white) ELSE Cleaned(text, white)

\* Blanks that are the white space of a text but at its ends.
BlanksAlike(text, white, blanks) == \A n \in Nat \ {0, Len(text)} : n \in blanks <=> n \in Gaps(white)

\* The white space of a line that is a statement.
Flat(text, blanks) == [blanks |-> blanks \ {0, Len(text)}, newlines |-> {}]

\* What is left of it is what is left of the white space of several lines,
\* with blanks for the line ends.
LEMMA FlatFinished ==
    ASSUME NEW text, NEW white \in Whites, NEW blanks, blanks \subseteq Nat, BlanksAlike(text, white, blanks)
    PROVE  Finished(text, Flat(text, blanks)) = OnOneLine(Finished(text, white))
<1>1. PICK ends, gaps : ends = {0, Len(text)} /\ gaps = Gaps(white) \ ends
  OBVIOUS
<1>2. PICK b, l : b = white.blanks /\ l = white.newlines
  OBVIOUS
<1>3. b \subseteq Nat /\ l \subseteq Nat /\ gaps = (b \cup l) \ ends
  BY <1>1, <1>2 DEF Whites, Gaps
<1>4. blanks \ ends = gaps
  <2>1. \A n \in Nat \ ends : n \in blanks <=> n \in b \cup l
    BY <1>1, <1>2 DEF BlanksAlike, Gaps
  <2> QED
    BY <1>3, <2>1
<1>5. PICK none : none = {}
  OBVIOUS
<1>6. PICK flat : flat = [blanks |-> gaps, newlines |-> none]
  OBVIOUS
<1>7. Flat(text, blanks) = flat
  BY <1>1, <1>4, <1>5, <1>6, Zenon DEF Flat
<1>8. PICK trimmed : trimmed = [blanks |-> b \ ends, newlines |-> l \ ends]
  OBVIOUS
<1>9. Trimmed(text, flat) = flat /\ Trimmed(text, white) = trimmed
  <2>1. gaps \ ends = gaps /\ none \ ends = none
    BY <1>3, <1>5
  <2>2. Trimmed(text, flat) = [blanks |-> gaps \ ends, newlines |-> none \ ends]
    BY <1>1, <1>6 DEF Trimmed, Without
  <2>3. Trimmed(text, white) = trimmed
    BY <1>1, <1>2, <1>8 DEF Trimmed, Without
  <2> QED
    BY <1>6, <2>1, <2>2, <2>3
<1>10. Gaps(flat) = gaps /\ Gaps(trimmed) = gaps
  BY <1>3, <1>5, <1>6, <1>8 DEF Gaps
<1>11. PICK less : less = Superfluous(text, gaps)
  OBVIOUS
<1>12. Cleaned(text, flat) = [blanks |-> gaps \ less, newlines |-> none \ less]
  <2>1. Cleaned(text, flat) = Without(flat, less)
    BY <1>9, <1>10, <1>11, Zenon DEF Cleaned
  <2>2. flat.blanks = gaps /\ flat.newlines = none
    BY <1>6
  <2> QED
    BY <2>1, <2>2, Zenon DEF Without
<1>13. Cleaned(text, white) = [blanks |-> (b \ ends) \ less, newlines |-> (l \ ends) \ less]
  BY <1>8, <1>9, <1>10, <1>11, SMTT(30) DEF Cleaned, Without
<1>14. OnOneLine(Cleaned(text, white)) = Cleaned(text, flat)
  <2>1. OnOneLine(Cleaned(text, white)) = [blanks |-> ((b \ ends) \ less) \cup ((l \ ends) \ less), newlines |-> {}]
    BY <1>13 DEF OnOneLine, Gaps
  <2>2. ((b \ ends) \ less) \cup ((l \ ends) \ less) = gaps \ less /\ {} = none \ less
    BY <1>3, <1>5
  <2> QED
    BY <1>12, <2>1, <2>2
<1>15. OnOneLine(Trimmed(text, white)) = Trimmed(text, flat)
  BY <1>5, <1>6, <1>9, <1>10 DEF OnOneLine
<1> QED
  BY <1>7, <1>14, <1>15 DEF Finished

\* Nothing more is taken out of what is left.
LEMMA FinishedTwice ==
    ASSUME NEW text, NEW white \in Whites PROVE Finished(text, Finished(text, white)) = Finished(text, white)
<1>1. PICK trimmed : trimmed = Trimmed(text, white)
  OBVIOUS
<1>2. trimmed = [blanks |-> white.blanks \ {0, Len(text)}, newlines |-> white.newlines \ {0, Len(text)}]
  BY <1>1 DEF Trimmed, Without
<1>3. Trimmed(text, trimmed) = trimmed
  BY <1>2 DEF Trimmed, Without
<1>4. PICK less, cleaned : less = Superfluous(text, Gaps(trimmed)) /\ cleaned = Without(trimmed, less)
  OBVIOUS
<1>5. Cleaned(text, white) = cleaned
  BY <1>1, <1>4 DEF Cleaned
<1>6. cleaned = [blanks |-> trimmed.blanks \ less, newlines |-> trimmed.newlines \ less]
  BY <1>4 DEF Without
<1>7. Trimmed(text, cleaned) = cleaned
  BY <1>2, <1>6 DEF Trimmed, Without
<1>8. Gaps(cleaned) = Gaps(trimmed) \ less
  BY <1>6 DEF Gaps
<1>9. Superfluous(text, Gaps(cleaned)) = {}
  <2>1. PICK gaps, left : gaps = Gaps(trimmed) /\ left = Gaps(cleaned)
    OBVIOUS
  <2>2. left = gaps \ less /\ less = Superfluous(text, gaps)
    BY <1>4, <1>8, <2>1
  <2>3. \A n \in left : n - 1 \in left => n - 1 \in gaps
    BY <2>2
  <2>4. \A n \in Superfluous(text, left) : n \in left /\ n \in Superfluous(text, gaps)
    BY <2>2, <2>3, Zenon DEF Superfluous
  <2> QED
    BY <2>1, <2>2, <2>4
<1>10. Without(cleaned, {}) = cleaned
  BY <1>6 DEF Without
<1>11. Cleaned(text, cleaned) = cleaned
  BY <1>7, <1>9, <1>10 DEF Cleaned
<1> QED
  BY <1>1, <1>3, <1>5, <1>11 DEF Finished

\* A text and the semicolon after it is that statement, with its blanks.
LEMMA Recalled ==
    ASSUME NEW text \in Seq(Chars), ~HasSemicolon(text),
           ~Scan(FreshScan, text).escape, Balanced(Scan(FreshScan, text))
    PROVE  LET again == PromptCheck(<<>>, NoWhite, FreshScan, Append(text, ";"))
           IN  /\ again.complete /\ again.buffer = Bare(text)
               /\ again.white = Finished(Bare(text), Flat(Bare(text), BlanksOf(text)))
<1>1. PICK semi, s : semi = ";" /\ s = Scan(FreshScan, text)
  OBVIOUS
<1>2. semi \in Chars /\ s \in Scans
  BY <1>1, CharsAssumption, FreshScanType, ScanSteps
<1>3. PICK line : line = Append(text, semi)
  OBVIOUS
<1>4. line \in Seq(Chars) /\ HasSemicolon(line)
  BY <1>1, <1>2, <1>3, AppendProperties, HasGrows
<1>5. Scan(FreshScan, line) = s
  <2>1. Scan(FreshScan, line) = ScanChar(s, semi)
    BY <1>1, <1>2, <1>3, FreshScanType, ScanSteps
  <2>2. ScanChar(s, semi) = s
    BY <1>1, <1>2, NeutralChar
  <2> QED
    BY <2>1, <2>2
<1>6. Cut(line) = text /\ UpToSemicolon(line) = Bare(text)
  BY <1>1, <1>3, UpToLast
<1>7. <<>> \o Bare(text) = Bare(text)
  BY BareSteps, ConcatEmptySeq
<1>8. PICK again, none : again = PromptCheck(none, NoWhite, FreshScan, line) /\ none = <<>>
  OBVIOUS
<1>9. again.complete /\ again.buffer = Bare(text)
  BY <1>1, <1>4, <1>5, <1>6, <1>7, <1>8 DEF PromptCheck
<1>10. PICK all : all = Joined(none, NoWhite, PromptSeparator(none, NoWhite, s, line), line)
  OBVIOUS
<1>11. again.white = Finished(Bare(text), all)
  <2>1. HasSemicolon(line) /\ Balanced(s) /\ none \o UpToSemicolon(line) = Bare(text)
    BY <1>1, <1>4, <1>6, <1>7, <1>8
  <2> QED
    BY <1>5, <1>8, <1>10, <2>1 DEF PromptCheck, Finished
<1>12. all = Flat(Bare(text), BlanksOf(text))
  <2>1. PICK sep : sep = PromptSeparator(none, NoWhite, s, line)
    OBVIOUS
  <2>2. sep = "none"
    BY <1>8, <2>1 DEF PromptSeparator, Separator
  <2>3. ~(sep = "newline") /\ ~(sep = "blank")
    BY <2>2
  <2>4. PICK inside : inside = Inside(line)
    OBVIOUS
  <2>5. inside \subseteq Nat /\ inside = BlanksOf(text) \ {0, Len(Bare(text))}
    BY <1>4, <1>6, <2>4, InsideType DEF Inside
  <2>6. Len(none) = 0
    BY <1>8
  <2>7. {n \in {Len(none)} : sep = "newline"} = {} /\ {n \in {Len(none)} : sep = "blank"} = {}
    BY <2>3
  <2>8. {Len(none) + k : k \in inside} = inside
    <3>1. \A k \in inside : Len(none) + k = k
      BY <2>5, <2>6
    <3> QED
      BY <3>1
  <2>9. all = [blanks |-> ({} \cup {} \cup inside) \ ({} \cup {}), newlines |-> {} \cup {}]
    BY <1>10, <2>1, <2>4, <2>7, <2>8 DEF Joined, NoWhite
  <2>10. all = [blanks |-> inside, newlines |-> {}]
    BY <2>9
  <2> QED
    BY <2>5, <2>10 DEF Flat
<1> QED
  BY <1>1, <1>3, <1>8, <1>9, <1>11, <1>12

\* A line more is shown with its blanks, and one before it.
LEMMA ShownBlanks ==
    ASSUME NEW entry \in Seq(Seq(Chars)), NEW line \in Seq(Chars), NEW shown, shown = HistoryLine(entry)
    PROVE  \A n : n # 0 =>
              (n \in BlanksOf(HistoryLine(Append(entry, line)))
                 <=> \/ n \in BlanksOf(shown) \/ n = Len(Bare(shown))
                     \/ \E k \in BlanksOf(line) : n = Len(Bare(shown)) + k)
<1>1. PICK blank \in Chars : blank = " "
  BY BlankType
<1>2. shown \in Seq(Chars)
  BY ShownSteps
<1>3. PICK front : front = IF Len(entry) + 1 = 1 THEN <<>> ELSE shown \o <<blank>>
  OBVIOUS
<1>4. HistoryLine(Append(entry, line)) = front \o line
  <2>1. HistoryLine(Append(entry, line)) = Showing(shown, Len(entry) + 1, line)
    BY ShownSteps
  <2> QED
    BY <1>1, <1>3, <2>1 DEF Showing
<1>5. /\ front \in Seq(Chars) /\ Bare(front) = Bare(shown)
      /\ \A n : n # 0 => (n \in BlanksOf(front) <=> n \in BlanksOf(shown) \/ n = Len(Bare(shown)))
  <2>1. CASE entry = <<>>
    <3>1. Len(entry) + 1 = 1
      BY <2>1, EmptySeq
    <3>2. front = <<>> /\ shown = <<>>
      BY <1>3, <2>1, <3>1, ShownSteps
    <3>3. Len(Bare(shown)) = 0
      BY <3>2, BareSteps
    <3> QED
      BY <1>2, <3>2, <3>3
  <2>2. CASE entry # <<>>
    <3>1. Len(entry) + 1 # 1
      <4>1. Len(entry) \in Nat /\ Len(entry) # 0
        BY <2>2, LenProperties, EmptySeq
      <4> QED
        BY ONLY <4>1
    <3>2. front = Append(shown, blank)
      BY <1>2, <1>3, <3>1, AppendIsConcat
    <3>3. front \in Seq(Chars)
      BY <1>2, <3>2, AppendProperties
    <3>4. Bare(front) = Bare(shown)
      <4>1. Bare(front) = Kept(Bare(shown), blank)
        BY <1>2, <3>2, BareSteps
      <4> QED
        BY <1>1, <4>1 DEF Kept
    <3>5. \A n : n \in BlanksOf(front) <=> n \in BlanksOf(shown) \/ n = Len(Bare(shown))
      BY <1>1, <1>2, <3>2, BlanksGrow
    <3> QED
      BY <3>3, <3>4, <3>5
  <2> QED
    BY <2>1, <2>2
<1>6. PICK p : p = Len(Bare(shown))
  OBVIOUS
<1>7. \A n : n \in BlanksOf(front \o line) <=> n \in BlanksOf(front) \/ \E k \in BlanksOf(line) : n = p + k
  BY <1>5, <1>6, BlanksConcat
<1> QED
  BY <1>4, <1>5, <1>6, <1>7, Zenon

\* What white space there is where a line is joined.
LEMMA GapsJoined ==
    ASSUME NEW text, NEW white, NEW separator, NEW line
    PROVE  \A n : n \in Gaps(Joined(text, white, separator, line))
                     <=> \/ n \in Gaps(white) \/ (n = Len(text) /\ separator \in {"newline", "blank"})
                         \/ \E k \in Inside(line) : n = Len(text) + k
<1>1. PICK k, newline, blank, added :
         /\ k = Len(text) /\ newline = (separator = "newline") /\ blank = (separator = "blank")
         /\ added = {Len(text) + i : i \in Inside(line)}
  OBVIOUS
<1>2. PICK all : all = Joined(text, white, separator, line)
  OBVIOUS
<1>3. /\ all.newlines = white.newlines \cup {n \in {k} : newline}
      /\ all.blanks = (white.blanks \cup {n \in {k} : blank} \cup added) \ all.newlines
  BY <1>1, <1>2 DEF Joined
<1>4. \A n : n \in Gaps(all) <=> \/ n \in white.blanks \/ n \in white.newlines
                                 \/ (n = k /\ (newline \/ blank)) \/ n \in added
  BY <1>3 DEF Gaps
<1>5. \A n : n \in added <=> \E i \in Inside(line) : n = k + i
  BY <1>1
<1>6. separator \in {"newline", "blank"} <=> newline \/ blank
  BY <1>1
<1>7. \A n : n \in Gaps(white) <=> n \in white.blanks \/ n \in white.newlines
  BY DEF Gaps
<1> QED
  BY <1>1, <1>2, <1>4, <1>5, <1>6, <1>7, Zenon

\* Where the lines so far are shown with the white space of the statement
\* they are joined to, one more line is.
LEMMA JoinedShown ==
    ASSUME NEW lines \in Seq(Seq(Chars)), NEW shown, shown = HistoryLine(lines),
           NEW text \in Seq(Chars), text = Bare(shown),
           NEW white \in Whites, BlanksAlike(text, white, BlanksOf(shown)),
           NEW line \in Seq(Chars), NEW front \in Seq(Chars), front = Cut(line),
           NEW separator, separator \in {"newline", "blank"} \/ text = <<>>
    PROVE  BlanksAlike(text \o UpToSemicolon(line), Joined(text, white, separator, line),
                       BlanksOf(HistoryLine(Append(lines, front))))
<1>1. PICK p, q, all, more : /\ p = Len(text) /\ q = Len(Bare(front))
                             /\ all = Joined(text, white, separator, line)
                             /\ more = BlanksOf(HistoryLine(Append(lines, front)))
  OBVIOUS
<1>2. p \in Nat /\ q \in Nat
  BY <1>1, BareSteps, LenProperties
<1>3. Len(text \o UpToSemicolon(line)) = p + q
  BY <1>1, BareSteps, ConcatProperties DEF UpToSemicolon
<1>4. PICK apart : apart = (separator \in {"newline", "blank"})
  OBVIOUS
<1>5. apart \/ p = 0
  BY <1>1, <1>4
<1>6. PICK blanks, gaps, inner : blanks = BlanksOf(shown) /\ gaps = Gaps(white) /\ inner = BlanksOf(front)
  OBVIOUS
<1>7. inner \subseteq Nat
  BY <1>6, InsideType
<1>8. \A n : n # 0 => (n \in more <=> n \in blanks \/ n = p \/ \E k \in inner : n = p + k)
  BY <1>1, <1>6, ShownBlanks
<1>9. \A n : n \in Gaps(all) <=> n \in gaps \/ (n = p /\ apart) \/ \E k \in inner \ {0, q} : n = p + k
  <2>1. Inside(line) = inner \ {0, q}
    BY <1>1, <1>6 DEF Inside, UpToSemicolon
  <2>2. \A n : n \in Gaps(Joined(text, white, separator, line))
                   <=> \/ n \in Gaps(white) \/ (n = Len(text) /\ separator \in {"newline", "blank"})
                       \/ \E k \in Inside(line) : n = Len(text) + k
    BY ONLY GapsJoined
  <2> QED
    BY <1>1, <1>4, <1>6, <2>1, <2>2, Zenon
<1>10. \A n \in Nat \ {0, p} : n \in blanks <=> n \in gaps
  BY <1>1, <1>6 DEF BlanksAlike
<1>11. ASSUME NEW n \in Nat \ {0, p + q} PROVE n \in more <=> n \in Gaps(all)
  <2>1. CASE n = p
    BY <1>5, <1>8, <1>9, <1>11, <2>1
  <2>2. CASE n # p
    <3>1. n \in blanks <=> n \in gaps
      BY <1>10, <1>11, <2>2
    <3>2. (\E k \in inner : n = p + k) <=> \E k \in inner \ {0, q} : n = p + k
      BY <1>2, <1>7, <1>11, <2>2
    <3> QED
      BY <1>8, <1>9, <1>11, <2>2, <3>1, <3>2, Zenon
  <2> QED
    BY <2>1, <2>2
<1> QED
  BY <1>1, <1>3, <1>11 DEF BlanksAlike

\* A text that begins with a word still does with more behind it.
LEMMA StartsStays ==
    ASSUME NEW a \in Seq(Chars), NEW b \in Seq(Chars), NEW word, Starts(a, word) PROVE Starts(a \o b, word)
<1>1. a # <<>> /\ Head(a) = word
  BY DEF Starts
<1>2. a \o b # <<>>
  BY <1>1, ConcatStart
<1>3. Head(a \o b) = Head(a)
  <2>1. 1 \in 1 .. Len(a) /\ Len(a) # 0
    BY <1>1, LenProperties, EmptySeq
  <2>2. (a \o b)[1] = a[1]
    BY <2>1, ConcatProperties
  <2> QED
    BY <1>1, <1>2, <2>2, ConcatProperties, HeadTailProperties
<1> QED
  BY <1>1, <1>2, <1>3 DEF Starts

\* A line that is no path of curl is put after white space.
LEMMA LineApart ==
    ASSUME NEW text \in Seq(Chars), text # <<>>, NEW white, NEW after, NEW line \in Headed,
           Starts(text, "curl") => ~Starts(line, "/")
    PROVE  PromptSeparator(text, white, after, line) \in {"newline", "blank"}
<1>1. line \in Seq(Chars) /\ (line # <<>> => line[1] # " ")
  BY DEF Headed
<1>2. PICK path : path = "/"
  OBVIOUS
<1>3. Starts(UpToSemicolon(line), path) => Starts(line, path)
  <2>1. SUFFICES ASSUME Starts(UpToSemicolon(line), path) PROVE Starts(line, path)
    OBVIOUS
  <2>2. PICK kept \in Seq(Chars) : kept = UpToSemicolon(line)
    BY <1>1, MoreText, EmptySeq
  <2>3. kept # <<>> /\ Head(kept) = path
    BY <2>1, <2>2 DEF Starts
  <2>4. line # <<>> /\ line[1] # ";"
    BY <1>1, <2>2, <2>3, UpToHeaded
  <2>5. kept[1] = line[1]
    BY <1>1, <2>2, <2>4, UpToHeaded
  <2>6. Head(kept) = kept[1] /\ Head(line) = line[1]
    <3>1. \A s \in Seq(Chars) : s # <<>> => Head(s) = s[1]
      BY HeadTailProperties
    <3> QED
      BY ONLY <1>1, <2>2, <2>3, <2>4, <3>1
  <2> QED
    BY <2>3, <2>4, <2>5, <2>6 DEF Starts
<1>4. ~(Starts(text, "curl") /\ Starts(UpToSemicolon(line), "/"))
  BY <1>2, <1>3
<1>5. \A keeps : Separator(text, line, keeps) \in {"newline", "blank"}
  BY <1>4, Zenon DEF Separator
<1> QED
  BY <1>5, Zenon DEF PromptSeparator

\* What is left of white space was there.
LEMMA FinishedLess ==
    ASSUME NEW text, NEW white \in Whites
    PROVE  Finished(text, white) \in Whites /\ \A n : n \in Gaps(Finished(text, white)) => n \in Gaps(white)
<1>1. \A n : n \in Gaps(Trimmed(text, white)) => n \in Gaps(white)
  BY DEF Trimmed, Without, Gaps
<1> QED
  BY <1>1, CleanedType, CleanedLess DEF Finished

\* A text that was written with the white space of a statement is that
\* statement, with a blank for each of its line ends.
LEMMA CalledBack ==
    ASSUME NEW text \in Seq(Chars), ~HasSemicolon(text),
           ~Scan(FreshScan, text).escape, Balanced(Scan(FreshScan, text)),
           NEW bare, bare = Bare(text),
           NEW all \in Whites, BlanksAlike(bare, all, BlanksOf(text)),
           NEW white, white = Finished(bare, all)
    PROVE  LET again == PromptCheck(<<>>, NoWhite, FreshScan, Append(text, ";"))
           IN  again.complete /\ again.buffer = bare /\ again.white = OnOneLine(white)
<1>1. BlanksOf(text) \subseteq Nat
  BY InsideType
<1>2. Finished(bare, Flat(bare, BlanksOf(text))) = OnOneLine(white)
  BY <1>1, FlatFinished
<1> QED
  BY <1>2, Recalled

\* An entry of one line is written with the white space of the statement.
LEMMA LineSpelled ==
    ASSUME NEW front \in Seq(Chars), ~HasSemicolon(front), BlankFree(front),
           NEW line \in Seq(Chars), Cut(line) = front,
           NEW separator, NEW none, none = <<>>,
           NEW all, all = Joined(none, NoWhite, separator, line),
           NEW bare, bare = Bare(front), NEW white, white = Finished(bare, all)
    PROVE  /\ Spelled(bare, white) \in Seq(Chars) /\ ~HasSemicolon(Spelled(bare, white))
           /\ Bare(Spelled(bare, white)) = bare
           /\ Scan(FreshScan, Spelled(bare, white)) = Scan(FreshScan, front)
           /\ BlanksAlike(bare, white, BlanksOf(Spelled(bare, white)))
<1>1. none \in Seq(Chars) /\ Len(none) = 0 /\ Gaps(NoWhite) = {}
  BY EmptySeq DEF Gaps, NoWhite
<1>2. all \in Whites
  BY <1>1, NoWhiteType, JoinedType
<1>3. PICK k : k = Len(bare)
  OBVIOUS
<1>4. k \in Nat /\ bare \in Seq(Chars) /\ Plain(bare)
  BY <1>3, BareSteps, BarePlain, LenProperties
<1>5. PICK gaps, blanks : gaps = Gaps(white) /\ blanks = BlanksOf(front)
  OBVIOUS
<1>6. blanks \subseteq 0 .. k
  BY <1>3, <1>5, BlanksRange
<1>7. \A n \in Nat \ {0} : n \in gaps => n \in blanks
  <2>1. \A n : n \in Gaps(all) <=> \/ n \in Gaps(NoWhite) \/ (n = Len(none) /\ separator \in {"newline", "blank"})
                                   \/ \E i \in Inside(line) : n = Len(none) + i
    BY ONLY GapsJoined, all = Joined(none, NoWhite, separator, line)
  <2>2. Inside(line) \subseteq blanks
    BY <1>5 DEF Inside
  <2>3. \A n : n \in gaps => n \in Gaps(all)
    BY <1>2, <1>5, FinishedLess
  <2>4. \A i \in Inside(line) : 0 + i = i
    <3>1. Inside(line) \subseteq Nat
      BY InsideType
    <3> QED
      BY ONLY <3>1
  <2>5. \A n \in Nat \ {0} : n \in gaps => n \in Inside(line)
    BY <1>1, <2>1, <2>3, <2>4
  <2> QED
    BY <2>2, <2>5
<1>8. Safe(bare, white)
  <2>1. PICK slash : slash = "\\"
    OBVIOUS
  <2>2. \A n \in blanks \ {0} : bare[n] # slash
    BY <1>5, <2>1, BlanksUnescaped
  <2>3. \A n \in 1 .. k : n \in gaps => n \in blanks \ {0}
    BY ONLY <1>4, <1>7
  <2> QED
    BY <1>3, <1>5, <2>1, <2>2, <2>3, Zenon DEF Safe
<1>9. PICK s : s = Spelled(bare, white)
  OBVIOUS
<1>10. /\ s \in Seq(Chars) /\ Bare(s) = bare /\ ~HasSemicolon(s)
       /\ Scan(FreshScan, s) = Scan(FreshScan, bare)
       /\ \A n : n \in BlanksOf(s) <=> n \in 1 .. k /\ n \in gaps
  BY <1>3, <1>4, <1>5, <1>8, <1>9, SpelledPlain
<1>11. Scan(FreshScan, bare) = Scan(FreshScan, front)
  <2>1. ~FreshScan.escape
    BY DEF FreshScan
  <2> QED
    BY <2>1, FreshScanType, BareScans
<1>12. \A n \in Nat \ {0, k} : n \in BlanksOf(s) <=> n \in gaps
  <2>1. \A n \in Nat \ {0} : n \in gaps => n \in 1 .. k
    BY ONLY <1>4, <1>6, <1>7
  <2> QED
    BY <1>10, <2>1
<1> QED
  BY <1>3, <1>5, <1>9, <1>10, <1>11, <1>12 DEF BlanksAlike

\* No line is a path that is joined to curl.
NoPath(text, lines) == Starts(text, "curl") => \A i \in DOMAIN lines : ~Starts(lines[i], "/")

\* The lines kept for the history are those of the unfinished statement, as
\* long as no semicolon is among them, and they are shown with its white
\* space; and a line that leaves it unfinished makes it one of several lines.
RecallInv ==
    multiline /\ Tidy(pending) /\ (\A i \in DOMAIN pending : ~HasSemicolon(pending[i])) =>
        LET shown == HistoryLine(input.lines)
        IN  /\ Scan(FreshScan, shown) = input.scan /\ Bare(shown) = input.buffer
            /\ ~HasSemicolon(shown)
            /\ NoPath(input.buffer, pending) => BlanksAlike(input.buffer, input.white, BlanksOf(shown))
            /\ IF input.multi THEN input.lines # <<>> ELSE input = FreshInput

\* What an entry is called back as is the statement it was made for.
RunsAgain(stmt, entry) ==
    LET again == PromptCheck(<<>>, NoWhite, FreshScan, HistoryLine(entry))
        onlyLastEnds == \A i \in 1 .. Len(stmt.lines) - 1 : ~HasSemicolon(stmt.lines[i])
        noPath == Starts(stmt.text, "curl") => \A i \in DOMAIN stmt.lines : ~Starts(stmt.lines[i], "/")
    IN  ~IsCommand(stmt.text) /\ Tidy(stmt.lines) /\ BlanksStay(stmt.lines) /\ onlyLastEnds /\ noPath
            => again.complete /\ again.buffer = stmt.text /\ again.white = OnOneLine(stmt.white)

\* What is no path in the lines of a statement is none in the lines before the last.
LEMMA NoPathBefore ==
    ASSUME NEW lines \in Seq(Seq(Chars)), NEW line \in Seq(Chars), NEW text \in Seq(Chars), NEW more \in Seq(Chars),
           NoPath(text \o more, Append(lines, line))
    PROVE  NoPath(text, lines) /\ (Starts(text, "curl") => ~Starts(line, "/"))
<1>1. SUFFICES ASSUME Starts(text, "curl")
               PROVE  (\A i \in DOMAIN lines : ~Starts(lines[i], "/")) /\ ~Starts(line, "/")
  BY DEF NoPath
<1>2. PICK path, said : path = "/" /\ said = Append(lines, line)
  OBVIOUS
<1>3. \A i \in DOMAIN said : ~Starts(said[i], path)
  BY <1>1, <1>2, StartsStays DEF NoPath
<1>4. PICK k : k = Len(lines)
  OBVIOUS
<1>5. /\ k \in Nat /\ DOMAIN lines = 1 .. k /\ DOMAIN said = 1 .. k + 1 /\ said[k + 1] = line
      /\ \A i \in 1 .. k : said[i] = lines[i]
  <2>1. said \in Seq(Seq(Chars)) /\ Len(said) = k + 1 /\ said[k + 1] = line
        /\ \A i \in 1 .. k : said[i] = lines[i]
    BY ONLY <1>2, <1>4, lines \in Seq(Seq(Chars)), line \in Seq(Chars), AppendProperties
  <2> QED
    BY <1>4, <2>1, LenProperties
<1>6. (\A i \in DOMAIN lines : ~Starts(lines[i], path)) /\ ~Starts(line, path)
  <2>1. k + 1 \in 1 .. k + 1 /\ \A i \in 1 .. k : i \in 1 .. k + 1
    BY ONLY <1>5
  <2> QED
    BY <1>3, <1>5, <2>1, Zenon
<1> QED
  BY <1>2, <1>6

\* The entry that is added is the last one, whether or not it was there.
LEMMA LastAdded ==
    ASSUME history \in Seq(Entries), Len(history) <= HistoryMax, NEW entry \in Entries, AddToHistory(entry)
    PROVE  Last(history') = entry
<1>1. PICK added \in BOOLEAN : added <=> history = <<>> \/ Last(history) # entry
  OBVIOUS
<1>2. PICK all : all = IF added THEN Append(history, entry) ELSE history
  OBVIOUS
<1>3. history' = IF Len(all) > HistoryMax THEN Tail(all) ELSE all
  BY <1>1, <1>2 DEF AddToHistory
<1>4. CASE ~added
  <2>1. all = history /\ history # <<>> /\ Last(history) = entry
    BY <1>1, <1>2, <1>4
  <2>2. ~(Len(all) > HistoryMax)
    <3>1. Len(all) \in Nat /\ Len(all) <= HistoryMax
      BY <2>1, LenProperties
    <3> QED
      BY <3>1, Bounds
  <2> QED
    BY <1>3, <2>1, <2>2
<1>5. CASE added
  <2>1. PICK k : k = Len(history)
    OBVIOUS
  <2>2. k \in Nat /\ all \in Seq(Entries) /\ Len(all) = k + 1 /\ all[k + 1] = entry
    BY <1>2, <1>5, <2>1, AppendProperties, LenProperties
  <2>3. CASE Len(all) > HistoryMax
    <3>1. k # 0 /\ (k + 1) - 1 = k /\ k \in 1 .. k /\ k <= k
      BY <2>2, <2>3, Bounds
    <3>2. all # <<>>
      BY <2>2, EmptySeq
    <3>3. Len(Tail(all)) = k /\ \A i \in 1 .. k : Tail(all)[i] = all[i + 1]
      BY <2>2, <3>1, <3>2, HeadTailProperties
    <3>4. Last(Tail(all)) = entry
      BY <2>2, <3>1, <3>3 DEF Last
    <3> QED
      BY <1>3, <2>3, <3>4
  <2>4. CASE ~(Len(all) > HistoryMax)
    <3>1. Last(all) = entry
      BY <2>2 DEF Last
    <3> QED
      BY <1>3, <2>4, <3>1
  <2> QED
    BY <2>3, <2>4
<1> QED
  BY <1>4, <1>5

\* Nothing is shown of a statement that is not begun.
LEMMA RecallNothing == ASSUME input = FreshInput PROVE RecallInv
<1>1. HistoryLine(<<>>) = <<>> /\ Bare(<<>>) = <<>> /\ Scan(FreshScan, <<>>) = FreshScan /\ BlanksOf(<<>>) = {}
  BY ShownSteps, BareSteps, ScanSteps, FreshScanType, BlanksGrow
<1>2. ~HasSemicolon(<<>>)
  BY DEF HasSemicolon, Contains
<1>3. input.lines = <<>> /\ input.buffer = <<>> /\ input.scan = FreshScan /\ input.multi = FALSE /\ input.white = NoWhite
  BY DEF FreshInput
<1>4. BlanksAlike(<<>>, NoWhite, {})
  BY DEF BlanksAlike, Gaps, NoWhite
<1> QED
  BY <1>1, <1>2, <1>3, <1>4 DEF RecallInv

\* The statement that is handed over is the last of the history.
LEMMA HandRecalls ==
    ASSUME TypeInv, NEW line \in Headed, NEW text \in Headed, NEW white \in Whites, NEW entry \in Entries,
           Hand(line, text, white, entry),
           RunsAgain([text |-> text, white |-> white, lines |-> Append(pending, line)], entry)
    PROVE  RecallInv' /\ RecalledOnOneLine'
<1>1. PICK said, stmt : said = Append(pending, line) /\ stmt = [text |-> text, white |-> white, lines |-> said]
  OBVIOUS
<1>2. stmt \in Stmts
  BY <1>1, AppendProperties DEF TypeInv, Headed, Stmts
<1>3. handed' = Append(handed, stmt) /\ input' = FreshInput
  BY <1>1 DEF Hand
<1>4. Last(handed') = stmt
  <2>1. handed \in Seq(Stmts)
    BY DEF TypeInv
  <2>2. Append(handed, stmt)[Len(handed) + 1] = stmt /\ Len(Append(handed, stmt)) = Len(handed) + 1
    BY <1>2, <2>1, AppendProperties
  <2> QED
    BY <1>3, <2>2 DEF Last
<1>5. Last(history') = entry
  BY LastAdded DEF TypeInv, Hand
<1>6. RunsAgain(stmt, entry)
  BY <1>1
<1>7. RunsAgain(Last(handed'), Last(history'))
  BY <1>4, <1>5, <1>6
<1>8. RecalledOnOneLine'
  BY <1>7, Zenon DEF RecalledOnOneLine, RunsAgain
<1>9. (input = FreshInput => RecallInv)'
  BY RecallNothing, PTL
<1>10. RecallInv'
  BY <1>3, <1>9 DEF FreshInput
<1> QED
  BY <1>8, <1>10

\* A line that ends a statement of lines without semicolons can be called back.
LEMMA StatementRecalls ==
    ASSUME TypeInv, WholeInv, RecallInv, multiline, NEW line \in Headed,
           Checked(line).complete, NEW stmt,
           stmt = [text |-> Checked(line).buffer, white |-> Checked(line).white, lines |-> Append(pending, line)]
    PROVE  RunsAgain(stmt, EntryOf(stmt.text, stmt.white, MoreLines(line).lines))
<1>1. PICK check, said, entry :
         /\ check = Checked(line) /\ said = Append(pending, line)
         /\ entry = EntryOf(stmt.text, stmt.white, MoreLines(line).lines)
  OBVIOUS
<1>2. stmt.text = check.buffer /\ stmt.white = check.white /\ stmt.lines = said /\ check.complete
  BY <1>1
<1>2a. PICK again : again = PromptCheck(<<>>, NoWhite, FreshScan, HistoryLine(entry))
  OBVIOUS
<1>3. SUFFICES ASSUME Tidy(said), BlanksStay(said), \A i \in 1 .. Len(said) - 1 : ~HasSemicolon(said[i]),
                      NoPath(check.buffer, said)
               PROVE  again.complete /\ again.buffer = check.buffer /\ again.white = OnOneLine(check.white)
  BY <1>1, <1>2, <1>2a DEF RunsAgain, NoPath
<1>4. /\ line \in Seq(Chars) /\ pending \in Seq(Seq(Chars)) /\ input.buffer \in Seq(Chars)
      /\ input.scan \in Scans /\ input.lines \in Seq(Seq(Chars)) /\ input.multi \in BOOLEAN
      /\ input.white \in Whites
  <2>1. Headed \ {<<>>} \subseteq Seq(Chars)
    BY DEF Headed
  <2>2. SaidLines \subseteq Seq(Seq(Chars))
    BY <2>1, SeqMonotonic DEF SaidLines
  <2> QED
    BY <2>2 DEF TypeInv, Inputs, Headed
<1>5. PICK k : k = Len(pending)
  OBVIOUS
<1>6. /\ k \in Nat /\ DOMAIN pending = 1 .. k /\ Len(said) = k + 1 /\ DOMAIN said = 1 .. k + 1
      /\ said[k + 1] = line /\ \A i \in 1 .. k : said[i] = pending[i]
  <2>1. /\ Len(pending) \in Nat /\ DOMAIN pending = 1 .. Len(pending)
        /\ Append(pending, line) \in Seq(Seq(Chars)) /\ Len(Append(pending, line)) = Len(pending) + 1
        /\ Append(pending, line)[Len(pending) + 1] = line
        /\ \A i \in 1 .. Len(pending) : Append(pending, line)[i] = pending[i]
    BY <1>4, AppendProperties, LenProperties
  <2>2. DOMAIN Append(pending, line) = 1 .. Len(pending) + 1
    BY <2>1, LenProperties
  <2> QED
    BY <1>1, <1>5, <2>1, <2>2, Zenon
<1>7. Tidy(pending) /\ TidyLine(line)
  BY <1>1, <1>3, <1>4, TidyGrows
<1>8. \A i \in DOMAIN pending : ~HasSemicolon(pending[i])
  <2>1. Len(said) - 1 = k
    BY ONLY <1>6
  <2> QED
    BY <1>3, <1>6, <2>1
<1>9. PICK shown : shown = HistoryLine(input.lines)
  OBVIOUS
<1>10. /\ Scan(FreshScan, shown) = input.scan /\ Bare(shown) = input.buffer
       /\ ~HasSemicolon(shown)
       /\ NoPath(input.buffer, pending) => BlanksAlike(input.buffer, input.white, BlanksOf(shown))
       /\ IF input.multi THEN input.lines # <<>> ELSE input = FreshInput
  BY <1>7, <1>8, <1>9 DEF RecallInv
<1>11. ~input.scan.escape
  BY <1>7 DEF WholeInv, WholeSoFar
<1>12. PICK semi : semi = ";"
  OBVIOUS
<1>13. HasSemicolon(line) /\ Balanced(Scan(input.scan, line))
       /\ check.buffer = input.buffer \o UpToSemicolon(line) /\ check.scan = Scan(input.scan, line)
  BY <1>1, <1>2, <1>4, CheckType DEF Checked
<1>14. PICK front \in Seq(Chars) :
          /\ line = Append(front, semi) /\ ~HasSemicolon(front)
          /\ front # <<>> => front[Len(front)] # "\\"
          /\ Cut(line) = front /\ UpToSemicolon(line) = Bare(front)
  BY <1>4, <1>7, <1>12, <1>13, TidyCut
<1>15. PICK s : s = Scan(input.scan, front)
  OBVIOUS
<1>16. s \in Scans /\ ~s.escape
  BY <1>4, <1>11, <1>14, <1>15, EndsUnescaped
<1>17. Balanced(s)
  <2>1. semi \in Chars /\ semi \in {" ", ";"}
    BY <1>12, CharsAssumption
  <2>2. Scan(input.scan, line) = ScanChar(s, semi)
    BY <1>4, <1>14, <1>15, <2>1, ScanSteps
  <2>3. ScanChar(s, semi) = s
    BY <1>16, <2>1, NeutralChar
  <2> QED
    BY <1>13, <2>2, <2>3
<1>17a. PICK sep, all : /\ sep = PromptSeparator(input.buffer, input.white, Scan(input.scan, line), line)
                        /\ all = Joined(input.buffer, input.white, sep, line)
  OBVIOUS
<1>17b. all \in Whites /\ check.white = Finished(check.buffer, all)
  <2>1. all \in Whites
    BY <1>4, <1>17a, JoinedType
  <2>2. check = PromptCheck(input.buffer, input.white, input.scan, line)
    BY <1>1 DEF Checked
  <2>3. check.white = Finished(input.buffer \o UpToSemicolon(line), all)
    BY <1>13, <1>17a, <2>2 DEF PromptCheck, Finished
  <2> QED
    BY <1>13, <2>1, <2>3
<1>18. ASSUME NEW text \in Seq(Chars), HistoryLine(entry) = Append(text, semi), ~HasSemicolon(text),
              Scan(FreshScan, text) = s, Bare(text) = check.buffer,
              NEW white \in Whites, Finished(check.buffer, white) = check.white,
              BlanksAlike(check.buffer, white, BlanksOf(text))
       PROVE  again.complete /\ again.buffer = check.buffer /\ again.white = OnOneLine(check.white)
  BY <1>2a, <1>12, <1>16, <1>17, <1>18, CalledBack, ZenonT(60)
<1>19. CASE input.multi
  <2>1. line # <<>>
    <3>1. SUFFICES ASSUME line = <<>> PROVE FALSE
      OBVIOUS
    <3> QED
      BY <1>4, <1>13, <3>1, EmptyLine
  <2>2. MoreLines(line).lines = Append(input.lines, line)
    BY <1>19, <2>1 DEF MoreLines, InputAfter
  <2>3. entry = Append(input.lines, line)
    <3>1. Len(Append(input.lines, line)) > 1
      <4>1. Len(Append(input.lines, line)) = Len(input.lines) + 1 /\ Len(input.lines) \in Nat
        BY <1>4, AppendProperties, LenProperties
      <4>2. Len(input.lines) # 0
        BY <1>4, <1>10, <1>19, EmptySeq
      <4> QED
        BY ONLY <4>1, <4>2
    <3> QED
      BY <1>1, <2>2, <3>1 DEF EntryOf
  <2>4. PICK text : text = HistoryLine(Append(input.lines, front))
    OBVIOUS
  <2>5. Append(input.lines, front) \in Seq(Seq(Chars)) /\ text \in Seq(Chars)
    BY <1>4, <2>4, AppendProperties, ShownSteps
  <2>6. semi \in Chars
    BY <1>12, CharsAssumption
  <2>7. /\ Scan(FreshScan, text) = s
        /\ Bare(text) = Bare(shown) \o Bare(front)
        /\ ~HasSemicolon(text)
        /\ HistoryLine(Append(input.lines, line)) = Append(text, semi)
    <3>1. PICK lines \in Seq(Seq(Chars)), scan \in Scans : lines = input.lines /\ scan = input.scan
      BY <1>4
    <3>2. scan = Scan(FreshScan, HistoryLine(lines)) /\ ~scan.escape /\ ~HasSemicolon(HistoryLine(lines))
      BY <1>9, <1>10, <1>11, <3>1
    <3>3. /\ Scan(FreshScan, HistoryLine(Append(lines, front))) = Scan(scan, front)
          /\ Bare(HistoryLine(Append(lines, front))) = Bare(HistoryLine(lines)) \o Bare(front)
          /\ HasSemicolon(HistoryLine(Append(lines, front))) <=> HasSemicolon(front)
      BY <3>2, ShownGrows
    <3>4. HistoryLine(Append(lines, Append(front, semi))) = Append(HistoryLine(Append(lines, front)), semi)
      BY <2>6, <3>2, ShownGrows
    <3> QED
      BY <1>9, <1>14, <1>15, <2>4, <3>1, <3>3, <3>4
  <2>8. Bare(text) = check.buffer
    BY <1>10, <1>13, <1>14, <2>7
  <2>9. BlanksAlike(check.buffer, all, BlanksOf(text))
    <3>1. NoPath(input.buffer, pending) /\ (Starts(input.buffer, "curl") => ~Starts(line, "/"))
      <4>1. UpToSemicolon(line) \in Seq(Chars)
        BY <1>14, BareSteps
      <4> QED
        BY <1>1, <1>3, <1>4, <1>13, <4>1, NoPathBefore
    <3>2. sep \in {"newline", "blank"} \/ input.buffer = <<>>
      BY <1>4, <1>17a, <3>1, LineApart
    <3>3. BlanksAlike(input.buffer, input.white, BlanksOf(shown))
      BY <1>10, <3>1
    <3>4. PICK lines \in Seq(Seq(Chars)), buffer \in Seq(Chars), was \in Whites :
             lines = input.lines /\ buffer = input.buffer /\ was = input.white
      BY <1>4
    <3>5. /\ shown = HistoryLine(lines) /\ buffer = Bare(shown) /\ front = Cut(line)
          /\ BlanksAlike(buffer, was, BlanksOf(shown))
          /\ sep \in {"newline", "blank"} \/ buffer = <<>>
      BY <1>9, <1>10, <1>14, <3>2, <3>3, <3>4
    <3>6. BlanksAlike(buffer \o UpToSemicolon(line), Joined(buffer, was, sep, line),
                      BlanksOf(HistoryLine(Append(lines, front))))
      BY ONLY <1>4, <1>14, <3>4, <3>5, JoinedShown
    <3> QED
      BY <1>13, <1>17a, <2>4, <3>4, <3>6
  <2> QED
    BY <1>17b, <1>18, <2>3, <2>5, <2>7, <2>8, <2>9
<1>20. CASE ~input.multi
  <2>1. input = FreshInput
    BY <1>10, <1>20
  <2>2. input.lines = <<>> /\ input.buffer = <<>> /\ input.scan = FreshScan /\ input.white = NoWhite
    BY <2>1 DEF FreshInput
  <2>3. MoreLines(line).lines = <<>>
    <3>1. \A kind \in Kinds : ~(Checked(line).scan.depth[kind] > 0)
      <4> SUFFICES ASSUME NEW kind \in Kinds PROVE ~(Checked(line).scan.depth[kind] > 0)
        OBVIOUS
      <4>1. Checked(line).scan.depth[kind] = 0
        BY <1>1, <1>13 DEF Balanced
      <4> QED
        BY <4>1
    <3> QED
      BY <1>13, <1>20, <2>2, <3>1 DEF MoreLines, InputAfter
  <2>4. PICK bare : bare = Bare(front)
    OBVIOUS
  <2>5. bare \in Seq(Chars)
    BY <2>4, BareSteps
  <2>6. check.buffer = bare
    <3>1. <<>> \o bare = bare
      BY <2>5, ConcatEmptySeq
    <3> QED
      BY <1>13, <1>14, <2>2, <2>4, <3>1
  <2>7. PICK none, text : none = <<>> /\ text = Spelled(bare, check.white)
    OBVIOUS
  <2>8. BlankFree(front)
    <3>1. BlankFree(line)
      <4>1. k + 1 \in DOMAIN said
        BY <1>6
      <4>2. \A j \in DOMAIN said[k + 1] : said[k + 1][j] = " " => j = 1 \/ said[k + 1][j - 1] # "\\"
        BY <1>3, <4>1 DEF BlanksStay
      <4> QED
        BY <1>6, <4>2 DEF BlankFree
    <3>2. semi \in Chars
      BY <1>12, CharsAssumption
    <3> QED
      BY <1>14, <3>1, <3>2, BlankFreeStart
  <2>9. /\ text \in Seq(Chars) /\ ~HasSemicolon(text) /\ Bare(text) = bare
        /\ Scan(FreshScan, text) = Scan(FreshScan, front)
        /\ BlanksAlike(bare, check.white, BlanksOf(text))
    <3>1. all = Joined(none, NoWhite, sep, line)
      BY <1>17a, <2>2, <2>7
    <3>2. check.white = Finished(bare, all)
      BY <1>17b, <2>6
    <3>3. PICK white : white = check.white
      OBVIOUS
    <3>4. none = <<>> /\ white = Finished(bare, all) /\ text = Spelled(bare, white)
      BY <2>7, <3>2, <3>3
    <3>5. /\ Spelled(bare, white) \in Seq(Chars) /\ ~HasSemicolon(Spelled(bare, white))
          /\ Bare(Spelled(bare, white)) = bare
          /\ Scan(FreshScan, Spelled(bare, white)) = Scan(FreshScan, front)
          /\ BlanksAlike(bare, white, BlanksOf(Spelled(bare, white)))
      <4>1. /\ front \in Seq(Chars) /\ ~HasSemicolon(front) /\ BlankFree(front)
            /\ line \in Seq(Chars) /\ Cut(line) = front
            /\ all = Joined(none, NoWhite, sep, line) /\ none = <<>>
            /\ bare = Bare(front) /\ white = Finished(bare, all)
        BY <1>4, <1>14, <2>4, <2>8, <3>1, <3>4
      <4> QED
        BY ONLY <4>1, LineSpelled
    <3> QED
      BY <3>3, <3>4, <3>5
  <2>10. Finished(bare, check.white) = check.white /\ check.white \in Whites
    BY <1>17b, <2>6, FinishedTwice, FinishedLess
  <2>11. PICK shownLine : shownLine = Append(text, semi)
    OBVIOUS
  <2>12. shownLine \in Seq(Chars)
    BY <1>12, <2>9, <2>11, CharsAssumption, AppendProperties
  <2>13. entry = <<shownLine>>
    <3>1. ~(Len(MoreLines(line).lines) > 1)
      BY <2>3, EmptySeq
    <3> QED
      BY <1>1, <1>2, <1>12, <2>6, <2>7, <2>11, <3>1 DEF EntryOf
  <2>14. HistoryLine(entry) = shownLine
    <3>1. none \in Seq(Seq(Chars)) /\ Len(none) = 0 /\ Append(none, shownLine) = <<shownLine>>
      BY <2>7
    <3>2. HistoryLine(Append(none, shownLine)) = Showing(HistoryLine(none), Len(none) + 1, shownLine)
      BY <2>12, <3>1, ShownSteps
    <3>3. Len(none) + 1 = 1
      BY <3>1
    <3>4. Showing(HistoryLine(none), 1, shownLine) = <<>> \o shownLine
      BY DEF Showing
    <3>5. <<>> \o shownLine = shownLine
      BY <2>12, ConcatEmptySeq
    <3> QED
      BY <2>13, <3>1, <3>2, <3>3, <3>4, <3>5
  <2>15. Scan(FreshScan, text) = s
    BY <1>15, <2>2, <2>9
  <2> QED
    BY <1>18, <2>6, <2>9, <2>10, <2>11, <2>14, <2>15
<1> QED
  BY <1>4, <1>19, <1>20

\* A line keeps what can be called back.
LEMMA LineRecalls ==
    ASSUME TypeInv, WholeInv, RecallInv, RecalledOnOneLine, NEW line \in Headed,
           SkipBlank(line) \/ Statement(line) \/ OneLine(line) \/ Command(line)
    PROVE  RecallInv' /\ RecalledOnOneLine'
<1>1. multiline' = multiline
  BY DEF SkipBlank, Statement, OneLine, Command, Enter
<1>2. SUFFICES ASSUME multiline PROVE RecallInv' /\ RecalledOnOneLine'
  BY <1>1 DEF RecallInv, RecalledOnOneLine
<1>3. PICK said : said = Append(pending, line)
  OBVIOUS
<1>4. /\ line \in Seq(Chars) /\ pending \in Seq(Seq(Chars)) /\ input.lines \in Seq(Seq(Chars))
      /\ input \in Inputs /\ input.scan \in Scans /\ input.buffer \in Seq(Chars) /\ input.white \in Whites
  <2>1. Headed \ {<<>>} \subseteq Seq(Chars)
    BY DEF Headed
  <2>2. SaidLines \subseteq Seq(Seq(Chars))
    BY <2>1, SeqMonotonic DEF SaidLines
  <2> QED
    BY <2>2 DEF TypeInv, Inputs, Headed
<1>5. ASSUME Tidy(said), \A i \in DOMAIN said : ~HasSemicolon(said[i])
      PROVE  /\ Tidy(pending) /\ ~HasSemicolon(line) /\ ~input.scan.escape
             /\ Scan(FreshScan, HistoryLine(input.lines)) = input.scan
             /\ Bare(HistoryLine(input.lines)) = input.buffer
             /\ ~HasSemicolon(HistoryLine(input.lines))
             /\ NoPath(input.buffer, pending)
                   => BlanksAlike(input.buffer, input.white, BlanksOf(HistoryLine(input.lines)))
             /\ IF input.multi THEN input.lines # <<>> ELSE input = FreshInput
  <2>1. Tidy(pending) /\ TidyLine(line)
    BY <1>3, <1>4, <1>5, TidyGrows
  <2>2. /\ Len(pending) \in Nat /\ DOMAIN pending = 1 .. Len(pending)
        /\ said \in Seq(Seq(Chars)) /\ Len(said) = Len(pending) + 1
        /\ said[Len(pending) + 1] = line
        /\ \A i \in 1 .. Len(pending) : said[i] = pending[i]
    BY <1>3, <1>4, AppendProperties, LenProperties
  <2>3. DOMAIN said = 1 .. Len(pending) + 1
    BY <2>2, LenProperties
  <2>4. Len(pending) + 1 \in DOMAIN said /\ \A i \in DOMAIN pending : i \in DOMAIN said
    BY <2>2, <2>3
  <2>5. ~HasSemicolon(line) /\ \A i \in DOMAIN pending : ~HasSemicolon(pending[i])
    BY <1>5, <2>2, <2>4
  <2>6. ~input.scan.escape
    BY <1>2, <2>1 DEF WholeInv, WholeSoFar
  <2> QED
    BY <1>2, <2>1, <2>5, <2>6 DEF RecallInv
<1>6. CASE SkipBlank(line)
  <2>1. pending' = said /\ input' = input /\ handed' = handed /\ history' = history
    BY <1>3, <1>6 DEF SkipBlank, historyVars
  <2>2. NoPath(input.buffer, said) => NoPath(input.buffer, pending)
    <3>1. PICK buffer \in Seq(Chars), none \in Seq(Chars) : buffer = input.buffer /\ none = <<>>
      BY <1>4, EmptySeq
    <3>2. buffer \o none = buffer
      BY <3>1, ConcatEmptySeq
    <3>3. NoPath(buffer \o none, Append(pending, line)) => NoPath(buffer, pending)
      BY ONLY <1>4, <3>1, NoPathBefore
    <3> QED
      BY <1>3, <3>1, <3>2, <3>3
  <2>3. RecallInv'
    BY <1>5, <2>1, <2>2 DEF RecallInv
  <2>4. RecalledOnOneLine'
    BY <1>1, <2>1 DEF RecalledOnOneLine
  <2> QED
    BY <2>3, <2>4
<1>7. CASE Statement(line)
  <2>1. MultilineStep(line) /\ (input.multi \/ line # <<>>)
    BY <1>7 DEF Statement
  <2>2. CASE ~Checked(line).complete
    <3>1. input' = MoreLines(line) /\ pending' = said /\ handed' = handed /\ history' = history
      BY <1>3, <2>1, <2>2 DEF MultilineStep, historyVars
    <3>2. RecalledOnOneLine'
      BY <1>1, <3>1 DEF RecalledOnOneLine
    <3>2a. PICK sep, all : /\ sep = PromptSeparator(input.buffer, input.white, Scan(input.scan, line), line)
                          /\ all = Joined(input.buffer, input.white, sep, line)
      OBVIOUS
    <3>3. ASSUME Tidy(said), \A i \in DOMAIN said : ~HasSemicolon(said[i])
          PROVE  /\ Scan(FreshScan, HistoryLine(input'.lines)) = input'.scan
                 /\ Bare(HistoryLine(input'.lines)) = input'.buffer
                 /\ ~HasSemicolon(HistoryLine(input'.lines))
                 /\ NoPath(input'.buffer, said)
                       => BlanksAlike(input'.buffer, input'.white, BlanksOf(HistoryLine(input'.lines)))
                 /\ input'.multi /\ input'.lines # <<>>
      <4>1. /\ ~HasSemicolon(line) /\ ~input.scan.escape
            /\ Scan(FreshScan, HistoryLine(input.lines)) = input.scan
            /\ Bare(HistoryLine(input.lines)) = input.buffer
            /\ ~HasSemicolon(HistoryLine(input.lines))
            /\ NoPath(input.buffer, pending)
                  => BlanksAlike(input.buffer, input.white, BlanksOf(HistoryLine(input.lines)))
            /\ input.multi => input.lines # <<>>
        BY <1>5, <3>3
      <4>2. /\ input'.multi
            /\ input'.lines = IF line # <<>> THEN Append(input.lines, line) ELSE input.lines
            /\ input'.scan = Scan(input.scan, line)
            /\ input'.buffer = input.buffer \o UpToSemicolon(line)
            /\ input'.white = all
        <5>1. /\ Checked(line).scan = Scan(input.scan, line)
              /\ Checked(line).buffer = input.buffer \o UpToSemicolon(line)
          BY <1>4, CheckType DEF Checked
        <5>2. Checked(line).white = all
          BY <2>2, <3>2a DEF Checked, PromptCheck
        <5> QED
          BY <3>1, <4>1, <5>1, <5>2 DEF MoreLines, InputAfter
      <4>2a. UpToSemicolon(line) \in Seq(Chars)
        BY <1>4, MoreText
      <4>3. CASE line = <<>>
        <5>1. Scan(input.scan, line) = input.scan /\ input.buffer \o UpToSemicolon(line) = input.buffer
          BY <1>4, <4>3, EmptyLine
        <5>2. ASSUME NoPath(input'.buffer, said)
              PROVE  BlanksAlike(input'.buffer, all, BlanksOf(HistoryLine(input.lines)))
          <6>1. NoPath(input.buffer, pending)
            BY <1>3, <1>4, <4>2, <4>2a, <5>2, NoPathBefore
          <6>2. BlanksAlike(input.buffer, input.white, BlanksOf(HistoryLine(input.lines)))
            BY <4>1, <6>1
          <6>3. Inside(line) = {}
            BY <4>3, NothingInside
          <6>4. \A n : n \in Gaps(all)
                          <=> \/ n \in Gaps(input.white) \/ (n = Len(input.buffer) /\ sep \in {"newline", "blank"})
                              \/ \E i \in Inside(line) : n = Len(input.buffer) + i
            BY ONLY <3>2a, GapsJoined
          <6>5. \A n : n # Len(input.buffer) => (n \in Gaps(all) <=> n \in Gaps(input.white))
            BY <6>3, <6>4, Zenon
          <6> QED
            BY <4>2, <5>1, <4>3, <6>2, <6>5 DEF BlanksAlike
        <5> QED
          BY <2>1, <4>1, <4>2, <4>3, <5>1, <5>2
      <4>4. CASE line # <<>>
        <5>1. Cut(line) = line /\ UpToSemicolon(line) = Bare(line)
          BY <1>4, <4>1, FirstSemicolon DEF UpToSemicolon, Cut
        <5>2. PICK shown : shown = HistoryLine(Append(input.lines, line))
          OBVIOUS
        <5>3. /\ Scan(FreshScan, shown) = Scan(input.scan, line)
              /\ Bare(shown) = input.buffer \o Bare(line)
              /\ ~HasSemicolon(shown)
          <6>1. PICK lines \in Seq(Seq(Chars)), scan \in Scans : lines = input.lines /\ scan = input.scan
            BY <1>4
          <6>2. scan = Scan(FreshScan, HistoryLine(lines)) /\ ~scan.escape /\ ~HasSemicolon(HistoryLine(lines))
            BY <4>1, <6>1
          <6>3. /\ Scan(FreshScan, HistoryLine(Append(lines, line))) = Scan(scan, line)
                /\ Bare(HistoryLine(Append(lines, line))) = Bare(HistoryLine(lines)) \o Bare(line)
                /\ HasSemicolon(HistoryLine(Append(lines, line))) <=> HasSemicolon(line)
            BY <1>4, <6>2, ShownGrows
          <6> QED
            BY <4>1, <5>2, <6>1, <6>3
        <5>4. Append(input.lines, line) # <<>>
          <6>1. \A lines \in Seq(Seq(Chars)) : Append(lines, line) # <<>>
            BY <1>4, AppendProperties
          <6> QED
            BY <1>4, <6>1
        <5>5. ASSUME NoPath(input'.buffer, said) PROVE BlanksAlike(input'.buffer, all, BlanksOf(shown))
          <6>1. NoPath(input.buffer, pending) /\ (Starts(input.buffer, "curl") => ~Starts(line, "/"))
            BY <1>3, <1>4, <4>2, <4>2a, <5>5, NoPathBefore
          <6>2. sep \in {"newline", "blank"} \/ input.buffer = <<>>
            BY <1>4, <3>2a, <6>1, LineApart
          <6>3. BlanksAlike(input.buffer, input.white, BlanksOf(HistoryLine(input.lines)))
            BY <4>1, <6>1
          <6>4. PICK was : was = HistoryLine(input.lines)
            OBVIOUS
          <6> QED
            BY <1>4, <3>2a, <4>1, <4>2, <5>1, <5>2, <6>2, <6>3, <6>4, JoinedShown
        <5> QED
          BY <4>2, <4>4, <5>1, <5>2, <5>3, <5>4, <5>5
      <4> QED
        BY <4>3, <4>4
    <3>4. RecallInv'
      BY <3>1, <3>3 DEF RecallInv
    <3> QED
      BY <3>2, <3>4
  <2>3. CASE Checked(line).complete
    <3>1. PICK text, white, entry, stmt :
             /\ text = Checked(line).buffer /\ white = Checked(line).white
             /\ entry = EntryOf(text, white, MoreLines(line).lines)
             /\ stmt = [text |-> text, white |-> white, lines |-> Append(pending, line)]
      OBVIOUS
    <3>2. Hand(line, text, white, entry) /\ stmt.text = text /\ stmt.white = white
      BY <2>1, <2>3, <3>1 DEF MultilineStep
    <3>3. text \in Headed /\ white \in Whites /\ entry \in Entries
      BY <1>4, <3>1, CheckedType, EntryType
    <3>4. RunsAgain(stmt, entry)
      BY <1>2, <2>3, <3>1, <3>2, StatementRecalls
    <3> QED
      BY <3>1, <3>2, <3>3, <3>4, HandRecalls
  <2> QED
    BY <2>2, <2>3
<1>8. CASE OneLine(line)
  BY <1>2, <1>8 DEF OneLine
<1>9. CASE Command(line)
  <2>1. Hand(line, line, NoWhite, <<line>>) /\ line # <<>>
    BY <1>9 DEF Command
  <2>2. <<line>> \in Entries
    <3>1. line \in Headed \ {<<>>}
      BY <2>1
    <3> QED
      BY <3>1, OneEntry
  <2>3. IsCommand(line)
    BY <1>9 DEF Command, MultilineCommand, IsCommand
  <2>4. PICK stmt : stmt = [text |-> line, white |-> NoWhite, lines |-> Append(pending, line)]
    OBVIOUS
  <2>5. stmt.text = line
    BY <2>4
  <2>6. RunsAgain(stmt, <<line>>)
    BY <2>3, <2>5 DEF RunsAgain
  <2> QED
    BY <2>1, <2>2, <2>4, <2>6, NoWhiteType, HandRecalls
<1> QED
  BY <1>6, <1>7, <1>8, <1>9

\* Every step keeps what the history shows what ran, on one line.
LEMMA NextRecalls ==
    TypeInv /\ WholeInv /\ RecallInv /\ RecalledOnOneLine /\ [Next]_vars => RecallInv' /\ RecalledOnOneLine'
<1> SUFFICES ASSUME TypeInv, WholeInv, RecallInv, RecalledOnOneLine, [Next]_vars
             PROVE  RecallInv' /\ RecalledOnOneLine'
  OBVIOUS
<1>1. \A line \in Lines \cup {rlLine} : line \in Headed
  <2>1. rlLine \in Headed
    BY DEF TypeInv
  <2> QED
    BY <2>1, LineHeaded
<1>2. ASSUME UNCHANGED <<multiline, input, history, handed, pending>> PROVE RecallInv' /\ RecalledOnOneLine'
  <2>1. multiline' = multiline /\ input' = input /\ history' = history /\ handed' = handed /\ pending' = pending
    BY <1>2
  <2> QED
    BY <2>1 DEF RecallInv, RecalledOnOneLine
<1>3. ASSUME NEW line \in Lines \cup {rlLine},
             SkipBlank(line) \/ Statement(line) \/ OneLine(line) \/ Command(line)
      PROVE  RecallInv' /\ RecalledOnOneLine'
  BY <1>1, <1>3, LineRecalls
<1>4. ASSUME NEW entries, NewSession(entries) PROVE RecallInv' /\ RecalledOnOneLine'
  <2>1. input' = FreshInput /\ handed' = <<>>
    BY <1>4 DEF NewSession
  <2>2. (input = FreshInput => RecallInv)'
    BY RecallNothing, PTL
  <2>3. RecallInv'
    BY <2>1, <2>2 DEF FreshInput
  <2>4. RecalledOnOneLine'
    BY <2>1 DEF RecalledOnOneLine
  <2> QED
    BY <2>3, <2>4
<1>5. CASE Next
  <2>1. CASE \E line \in Drafts : Type(line)
    BY <1>2, <2>1 DEF Type, historyVars
  <2>2. CASE Up \/ Down
    BY <1>2, <2>2 DEF Up, Down
  <2>3. CASE Kill
    BY <1>4, <2>3 DEF Kill
  <2>4. CASE \E line \in Lines \cup {rlLine} :
                SkipBlank(line) \/ Statement(line) \/ OneLine(line) \/ Command(line) \/ Exit(line)
    BY <1>3, <1>4, <2>4 DEF Exit
  <2> QED
    BY <1>5, <2>1, <2>2, <2>3, <2>4 DEF Next
<1>6. CASE UNCHANGED vars
  BY <1>2, <1>6 DEF vars, historyVars
<1> QED
  BY <1>5, <1>6

\* A statement called back from the history is complete in the one line it is
\* shown on, and has the words of the statement that ran and white space where
\* that had some; what were line ends are blanks in it.
THEOREM RecalledWordForWord == Spec => []RecalledOnOneLine
<1>1. Init => IInv /\ WholeInv /\ RecallInv /\ RecalledOnOneLine
  <2>1. Init => RecalledOnOneLine
    BY DEF Init, RecalledOnOneLine
  <2> QED
    BY <2>1, InitTyped, SessionWhole, RecallNothing DEF IInv, Init
<1>2. IInv /\ WholeInv /\ RecallInv /\ RecalledOnOneLine /\ [Next]_vars
        => IInv' /\ WholeInv' /\ RecallInv' /\ RecalledOnOneLine'
  BY NextTyped, NextWhole, NextRecalls DEF IInv
<1> QED
  BY <1>1, <1>2, PTL DEF Spec
=============================================================================
