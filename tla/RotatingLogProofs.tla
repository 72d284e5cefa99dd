-------------------------- MODULE RotatingLogProofs --------------------------
(***************************************************************************)
(* The log files keep their order, and lose their oldest lines only, for   *)
(* every configuration, every number of writers and of restarts.           *)
(***************************************************************************)
EXTENDS RotatingLog, TLAPS

\* A call that has begun has its log, and one that rotates has files to rotate.
CallInv(w) ==
    /\ pc[w] # "idle" => target[w] \in LogName
    /\ pc[w] \in Working \ {"append"} => Cnt(target[w]) > 0
    /\ pc[w] = "shift" => i32 < Cnt(target[w])

TypeInv == RotatingLogTypeOK /\ \A w \in Writer : CallInv(w)

\* Lines are numbered as they are appended.
NumberInv == \A l \in LogName : \A n \in Files(l) : \A a \in file[l][n] : a.no \in 1 .. count[l]

\* Unless a removal or a rename was refused, the next file is moved to a place that is free.
FreeInv ==
    \A w \in Writer : target[w] \notin refused =>
        /\ pc[w] = "shift" => file[target[w]][i32 + 1] = {}
        /\ pc[w] = "first" => file[target[w]][1] = {}

\* No time is later than the one the holder of the lock has read.
TimeInv ==
    /\ 0 < now
    /\ \A l \in LogName : created[l] <= now /\ meta[l] <= now
    /\ \A w \in Writer : pc[w] \in Working =>
          /\ 0 < cur /\ cur <= now
          /\ created[target[w]] <= cur /\ meta[target[w]] <= cur

\* Of a log that rotates, when the holder of the lock is at this point with it: no line of name.txt
\* is of a period before the one that the .meta file or the memory has, and none is later than the
\* clock; so a call that does not rotate finds the lines of its own period there.
Stamped(l, point) ==
    /\ point # "fill" => meta[l] # Blank
    /\ meta[l] = NoFile \/ point = "fill" => file[l][0] = {}
    /\ point # "first" => \A a \in file[l][0] :
          /\ Period(l, meta[l]) <= Period(l, a.at)
          /\ created[l] # 0 => Period(l, created[l]) <= Period(l, a.at)
    /\ \A a \in file[l][0] : a.at <= IF point = "idle" THEN now ELSE cur
    /\ point \in {"fill", "due", "drop", "shift", "first"} => created[l] > 0
    /\ created[l] # 0 => meta[l] # NoFile
    /\ point = "first" => created[l] = cur
    /\ point = "append" => created[l] > 0 /\ Period(l, created[l]) = Period(l, cur)
    /\ \A n \in Files(l) : \A a, b \in file[l][n] : Period(l, a.at) = Period(l, b.at)

StampInv(l) ==
    /\ \A w \in Writer : target[w] = l /\ pc[w] \in Working => Stamped(l, pc[w])
    /\ (\A w \in Writer : target[w] = l => pc[w] \notin Working) => Stamped(l, "idle")

PeriodInv ==
    /\ TimeInv
    /\ \A l \in LogName \ mixed : Cnt(l) > 0 /\ Freq(l) > 0 => StampInv(l)

OrderInv == NumberInv /\ LinesInOrder
OldestInv == FreeInv /\ OnlyOldestDropped
-----------------------------------------------------------------------------
\* The lock has one holder.
LEMMA OneHolder ==
    ASSUME TypeInv, NEW w \in Writer, NEW v \in Writer,
           pc[w] \in Working, pc[v] \in Working
    PROVE  w = v
BY DEF TypeInv, RotatingLogTypeOK

\* Settings are natural numbers.
LEMMA Settle ==
    ASSUME NEW l \in LogName
    PROVE  Cnt(l) \in Nat /\ Freq(l) \in Nat /\ 0 \in Files(l) /\ Cnt(l) \in Files(l)
BY ConfigAssumption DEF Settings, Cnt, Freq, Files

\* What a rename does: file n takes the place of file n + 1.
LEMMA MovedFiles ==
    ASSUME NEW l \in LogName, NEW files \in [Files(l) -> SUBSET Line],
           NEW n \in Nat, n < Cnt(l)
    PROVE  /\ Moved(files, n) \in [Files(l) -> SUBSET Line]
           /\ n \in Files(l) /\ n + 1 \in Files(l)
           /\ Moved(files, n)[n] = {}
           /\ Moved(files, n)[n + 1] = IF files[n] = {} THEN files[n + 1] ELSE files[n]
           /\ \A k \in Files(l) \ {n, n + 1} : Moved(files, n)[k] = files[k]
<1>1. Cnt(l) \in Nat /\ n \in Files(l) /\ n + 1 \in Files(l)
  BY Settle DEF Files
<1>2. CASE files[n] = {}
  BY <1>1, <1>2 DEF Moved
<1>3. CASE files[n] # {}
  <2>1. Moved(files, n) = [files EXCEPT ![n + 1] = files[n], ![n] = {}]
    BY <1>3 DEF Moved
  <2>2. n # n + 1 /\ files[n] \in SUBSET Line
    BY <1>1
  <2> QED
    BY <1>1, <1>3, <2>1, <2>2
<1> QED
  BY <1>2, <1>3
FileType(f) ==
    f = [l \in LogName |-> f[l]] /\ \A l \in LogName : f[l] \in [Files(l) -> SUBSET Line]

\* One log's files may be replaced.
LEMMA OtherFiles ==
    ASSUME NEW f, FileType(f), NEW l \in LogName, NEW g \in [Files(l) -> SUBSET Line]
    PROVE  FileType([f EXCEPT ![l] = g])
BY DEF FileType
-----------------------------------------------------------------------------
\* The parts of the type that a step may disturb one by one.
LockType == \A w \in Writer : (lock = w) <=> (pc[w] \in Working)

VarType ==
    /\ now \in Nat /\ cur \in Nat /\ i32 \in Nat
    /\ booted \in BOOLEAN
    /\ logs \subseteq LogName
    /\ lock \in Writer \cup {None}
    /\ pc \in [Writer -> {"idle", "wait"} \cup Working]
    /\ target \in [Writer -> LogName \cup {None}]
    /\ created \in [LogName -> Nat]
    /\ meta \in [LogName -> Nat \cup {NoFile}]
    /\ count \in [LogName -> Nat]
    /\ mixed \subseteq LogName /\ refused \subseteq LogName
    /\ crashes \in Nat /\ refusals \in Nat

\* The type invariant is its parts: the variables, the files, the lock.
LEMMA TypeParts == RotatingLogTypeOK <=> VarType /\ FileType(file) /\ LockType
BY DEF RotatingLogTypeOK, VarType, FileType, LockType

\* It holds at the start.
LEMMA InitTypeInv == Init => TypeInv
<1> SUFFICES ASSUME Init PROVE TypeInv
  OBVIOUS
<1>1. RotatingLogTypeOK
  BY ClockAssumption, NoneAssumption DEF Init, RotatingLogTypeOK, Working, NoFile, Line
<1>2. ASSUME NEW w \in Writer PROVE CallInv(w)
  BY DEF Init, CallInv, Working
<1> QED
  BY <1>1, <1>2 DEF TypeInv

\* Every action keeps the types, the lock and what is known of calls.
LEMMA TypeNext == TypeInv /\ [Next]_vars => TypeInv'
<1> SUFFICES ASSUME TypeInv, [Next]_vars PROVE TypeInv'
  OBVIOUS
<1>t. VarType /\ FileType(file) /\ LockType
  BY TypeParts DEF TypeInv
<1>c. ASSUME NEW w \in Writer PROVE CallInv(w)
  BY DEF TypeInv
<1>g. VarType' /\ FileType(file)' /\ LockType' /\ (\A w \in Writer : CallInv(w)') => TypeInv'
  BY DEF RotatingLogTypeOK, VarType, FileType, LockType, TypeInv
<1>1. CASE UNCHANGED vars
  BY <1>1, <1>t, <1>c, <1>g DEF VarType, FileType, LockType, CallInv, vars
<1>2. CASE Initialize
  <2>1. VarType'
    BY <1>2, <1>t, NoneAssumption DEF Initialize, VarType, Working
  <2>2. FileType(file)'
    BY <1>2, <1>t DEF Initialize, FileType
  <2>3. LockType'
    BY <1>2, <1>t, NoneAssumption DEF Initialize, LockType, VarType, Working
  <2>4. ASSUME NEW v \in Writer PROVE CallInv(v)'
    BY <1>2, <1>t, <1>c, Settle, OneHolder DEF Initialize, VarType, LockType, CallInv, Working
  <2> QED
    BY <2>1, <2>2, <2>3, <2>4, <1>g
<1>3. CASE Tick
  <2>1. VarType'
    BY <1>3, <1>t, NoneAssumption DEF Tick, VarType, Working
  <2>2. FileType(file)'
    BY <1>3, <1>t DEF Tick, FileType
  <2>3. LockType'
    BY <1>3, <1>t, NoneAssumption DEF Tick, LockType, VarType, Working
  <2>4. ASSUME NEW v \in Writer PROVE CallInv(v)'
    BY <1>3, <1>t, <1>c, Settle, OneHolder DEF Tick, VarType, LockType, CallInv, Working
  <2> QED
    BY <2>1, <2>2, <2>3, <2>4, <1>g
<1>4. CASE Crash
  <2> DEFINE stopped == {target[w] : w \in {v \in Writer : pc[v] \in {"fill", "first"}}}
  <2>l. stopped \subseteq LogName
    BY <1>c DEF CallInv
  <2>m. mixed' = mixed \cup stopped
    BY <1>4 DEF Crash
  <2> HIDE DEF stopped
  <2>n. mixed' \subseteq LogName
    BY <1>t, <2>l, <2>m DEF VarType
  <2>1. VarType'
    <3>1. /\ pc' = [w \in Writer |-> "idle"] /\ target' = [w \in Writer |-> None]
          /\ created' = [l \in LogName |-> 0] /\ crashes' = crashes + 1
          /\ cur' = 0 /\ i32' = 0 /\ booted' = FALSE /\ logs' = {} /\ lock' = None
          /\ UNCHANGED <<now, meta, count, refused, refusals>>
      BY <1>4 DEF Crash
    <3> QED
      <4>1. /\ pc' \in [Writer -> {"idle", "wait"} \cup Working]
            /\ target' \in [Writer -> LogName \cup {None}]
            /\ created' \in [LogName -> Nat]
        BY <3>1
      <4>2. /\ now' \in Nat /\ cur' \in Nat /\ i32' \in Nat /\ booted' \in BOOLEAN
            /\ logs' \subseteq LogName /\ lock' \in Writer \cup {None}
        BY <1>t, <3>1 DEF VarType
      <4>3. /\ meta' \in [LogName -> Nat \cup {NoFile}]
            /\ count' \in [LogName -> Nat] /\ refused' \subseteq LogName
            /\ crashes' \in Nat /\ refusals' \in Nat
        BY <1>t, <3>1 DEF VarType
      <4> QED
        BY <2>n, <4>1, <4>2, <4>3 DEF VarType
  <2>2. FileType(file)'
    BY <1>4, <1>t DEF Crash, FileType
  <2>3. LockType'
    BY <1>4, <1>t, NoneAssumption DEF Crash, LockType, VarType, Working
  <2>4. ASSUME NEW v \in Writer PROVE CallInv(v)'
    BY <1>4 DEF Crash, VarType, LockType, CallInv, Working
  <2> QED
    BY <2>1, <2>2, <2>3, <2>4, <1>g
<1>5. ASSUME NEW w \in Writer, Write(w) PROVE TypeInv'
  <2>1. VarType'
    BY <1>5, <1>t, NoneAssumption DEF Write, VarType, Working
  <2>2. FileType(file)'
    BY <1>5, <1>t DEF Write, FileType
  <2>3. LockType'
    BY <1>5, <1>t, NoneAssumption DEF Write, LockType, VarType, Working
  <2>4. ASSUME NEW v \in Writer PROVE CallInv(v)'
    BY <1>5, <1>t, <1>c, Settle, OneHolder DEF Write, VarType, LockType, CallInv, Working
  <2> QED
    BY <2>1, <2>2, <2>3, <2>4, <1>g
<1>6. ASSUME NEW w \in Writer, Lock(w) PROVE TypeInv'
  <2>1. VarType'
    BY <1>6, <1>t, NoneAssumption DEF Lock, VarType, Working
  <2>2. FileType(file)'
    BY <1>6, <1>t DEF Lock, FileType
  <2>3. LockType'
    BY <1>6, <1>t, NoneAssumption DEF Lock, LockType, VarType, Working
  <2>4. ASSUME NEW v \in Writer PROVE CallInv(v)'
    BY <1>6, <1>t, <1>c, Settle, OneHolder DEF Lock, VarType, LockType, CallInv, Working
  <2> QED
    BY <2>1, <2>2, <2>3, <2>4, <1>g
<1>7. ASSUME NEW w \in Writer, LoadCreated(w) PROVE TypeInv'
  <2>l. target[w] \in LogName
    BY <1>7, <1>c DEF LoadCreated, CallInv
  <2>1. VarType'
    BY <1>7, <1>t, <2>l, NoneAssumption DEF LoadCreated, VarType, Working, NoFile, Blank
  <2>2. FileType(file)'
    BY <1>7, <1>t DEF LoadCreated, FileType
  <2>3. LockType'
    BY <1>7, <1>t, NoneAssumption DEF LoadCreated, LockType, VarType, Working
  <2>4. ASSUME NEW v \in Writer PROVE CallInv(v)'
    BY <1>7, <1>t, <1>c, <2>l, Settle, OneHolder DEF LoadCreated, VarType, LockType, CallInv, Working
  <2> QED
    BY <2>1, <2>2, <2>3, <2>4, <1>g
<1>8. ASSUME NEW w \in Writer, FillMeta(w) PROVE TypeInv'
  <2>l. target[w] \in LogName
    BY <1>8, <1>c DEF FillMeta, CallInv
  <2>1. VarType'
    BY <1>8, <1>t, <2>l, NoneAssumption DEF FillMeta, Refuse, VarType, Working, NoFile, Blank
  <2>2. FileType(file)'
    BY <1>8, <1>t DEF FillMeta, FileType
  <2>3. LockType'
    BY <1>8, <1>t, NoneAssumption DEF FillMeta, LockType, VarType, Working
  <2>4. ASSUME NEW v \in Writer PROVE CallInv(v)'
    BY <1>8, <1>t, <1>c, <2>l, Settle, OneHolder DEF FillMeta, VarType, LockType, CallInv, Working
  <2> QED
    BY <2>1, <2>2, <2>3, <2>4, <1>g
<1>9. ASSUME NEW w \in Writer, Decide(w) PROVE TypeInv'
  <2>1. VarType'
    BY <1>9, <1>t, NoneAssumption DEF Decide, VarType, Working
  <2>2. FileType(file)'
    BY <1>9, <1>t DEF Decide, FileType
  <2>3. LockType'
    BY <1>9, <1>t, NoneAssumption DEF Decide, LockType, VarType, Working
  <2>4. ASSUME NEW v \in Writer PROVE CallInv(v)'
    BY <1>9, <1>t, <1>c, Settle, OneHolder DEF Decide, VarType, LockType, CallInv, Working
  <2> QED
    BY <2>1, <2>2, <2>3, <2>4, <1>g
<1>10. ASSUME NEW w \in Writer, Panic(w) PROVE TypeInv'
  <2>1. VarType'
    BY <1>10, <1>t, NoneAssumption DEF Panic, Return, VarType, Working
  <2>2. FileType(file)'
    BY <1>10, <1>t DEF Panic, FileType
  <2>3. LockType'
    BY <1>10, <1>t, NoneAssumption DEF Panic, Return, LockType, VarType, Working
  <2>4. ASSUME NEW v \in Writer PROVE CallInv(v)'
    BY <1>10, <1>t, <1>c, Settle, OneHolder DEF Panic, Return, VarType, LockType, CallInv, Working
  <2> QED
    BY <2>1, <2>2, <2>3, <2>4, <1>g
<1>11. ASSUME NEW w \in Writer, DropLast(w) PROVE TypeInv'
  <2>l. target[w] \in LogName /\ Cnt(target[w]) \in Nat \ {0}
    BY <1>11, <1>c, Settle DEF DropLast, CallInv, Working
  <2>1. VarType'
    BY <1>11, <1>t, <2>l, NoneAssumption DEF DropLast, Refused, Refuse, VarType, Working
  <2>2. FileType(file)'
    <3>1. [file[target[w]] EXCEPT ![Cnt(target[w])] = {}] \in [Files(target[w]) -> SUBSET Line]
      BY <1>t, <2>l DEF FileType
    <3>2. \/ file' = [file EXCEPT ![target[w]] = [file[target[w]] EXCEPT ![Cnt(target[w])] = {}]]
          \/ file' = file
      BY <1>11 DEF DropLast, Refused
    <3> QED
      BY <1>t, <2>l, <3>1, <3>2, OtherFiles
  <2>3. LockType'
    BY <1>11, <1>t, NoneAssumption DEF DropLast, LockType, VarType, Working
  <2>4. ASSUME NEW v \in Writer PROVE CallInv(v)'
    BY <1>11, <1>t, <1>c, <2>l, Settle, OneHolder DEF DropLast, VarType, LockType, CallInv, Working
  <2> QED
    BY <2>1, <2>2, <2>3, <2>4, <1>g
<1>12. ASSUME NEW w \in Writer, Shift(w) PROVE TypeInv'
  <2>l. target[w] \in LogName /\ i32 < Cnt(target[w]) /\ i32 \in Nat
    BY <1>12, <1>c, <1>t, Settle DEF Shift, CallInv, VarType, Working
  <2>1. VarType'
    BY <1>12, <1>t, <2>l, NoneAssumption DEF Shift, Refused, Refuse, VarType, Working
  <2>2. FileType(file)'
    <3>1. Moved(file[target[w]], i32) \in [Files(target[w]) -> SUBSET Line]
      BY <1>t, <2>l, MovedFiles DEF FileType
    <3>2. file' = [file EXCEPT ![target[w]] = Moved(file[target[w]], i32)] \/ file' = file
      BY <1>12 DEF Shift, Refused
    <3> QED
      BY <1>t, <2>l, <3>1, <3>2, OtherFiles
  <2>3. LockType'
    BY <1>12, <1>t, NoneAssumption DEF Shift, Refused, LockType, VarType, Working
  <2>4. ASSUME NEW v \in Writer PROVE CallInv(v)'
    BY <1>12, <1>t, <1>c, <2>l, Settle, OneHolder DEF Shift, Refused, VarType, LockType, CallInv, Working
  <2> QED
    BY <2>1, <2>2, <2>3, <2>4, <1>g
<1>13. ASSUME NEW w \in Writer, StampMeta(w) PROVE TypeInv'
  <2>l. target[w] \in LogName
    BY <1>13, <1>c DEF StampMeta, CallInv
  <2>1. VarType'
    BY <1>13, <1>t, <2>l, NoneAssumption DEF StampMeta, Refuse, VarType, Working
  <2>2. FileType(file)'
    BY <1>13, <1>t DEF StampMeta, FileType
  <2>3. LockType'
    BY <1>13, <1>t, NoneAssumption DEF StampMeta, LockType, VarType, Working
  <2>4. ASSUME NEW v \in Writer PROVE CallInv(v)'
    BY <1>13, <1>t, <1>c, <2>l, Settle, OneHolder DEF StampMeta, VarType, LockType, CallInv, Working
  <2> QED
    BY <2>1, <2>2, <2>3, <2>4, <1>g
<1>14. ASSUME NEW w \in Writer, ShiftFirst(w) PROVE TypeInv'
  <2>l. target[w] \in LogName /\ 0 < Cnt(target[w]) /\ 0 \in Nat
    BY <1>14, <1>c, <1>t, Settle DEF ShiftFirst, CallInv, VarType, Working
  <2>1. VarType'
    BY <1>14, <1>t, <2>l, NoneAssumption DEF ShiftFirst, Refused, Refuse, VarType, Working
  <2>2. FileType(file)'
    <3>1. Moved(file[target[w]], 0) \in [Files(target[w]) -> SUBSET Line]
      BY <1>t, <2>l, MovedFiles DEF FileType
    <3>2. file' = [file EXCEPT ![target[w]] = Moved(file[target[w]], 0)] \/ file' = file
      BY <1>14 DEF ShiftFirst, Refused
    <3> QED
      BY <1>t, <2>l, <3>1, <3>2, OtherFiles
  <2>3. LockType'
    BY <1>14, <1>t, NoneAssumption DEF ShiftFirst, Refused, LockType, VarType, Working
  <2>4. ASSUME NEW v \in Writer PROVE CallInv(v)'
    BY <1>14, <1>t, <1>c, <2>l, Settle, OneHolder DEF ShiftFirst, Refused, VarType, LockType, CallInv, Working
  <2> QED
    BY <2>1, <2>2, <2>3, <2>4, <1>g
<1>15. ASSUME NEW w \in Writer, Append(w) PROVE TypeInv'
  <2>l. target[w] \in LogName /\ 0 \in Files(target[w])
    BY <1>15, <1>c, Settle DEF Append, CallInv
  <2>1. VarType'
    BY <1>15, <1>t, <2>l, NoneAssumption DEF Append, Return, Refuse, VarType, Working
  <2>2. FileType(file)'
    <3> DEFINE line == [no |-> count[target[w]] + 1, at |-> cur]
    <3> DEFINE appended == [file[target[w]] EXCEPT ![0] = @ \cup {line}]
    <3>1. line \in Line
      BY <1>t, <2>l DEF VarType, Line
    <3>2. appended \in [Files(target[w]) -> SUBSET Line]
      BY <1>t, <2>l, <3>1 DEF FileType
    <3>3. file' = [file EXCEPT ![target[w]] = appended] \/ file' = file
      BY <1>15 DEF Append
    <3> HIDE DEF appended
    <3> QED
      BY <1>t, <2>l, <3>2, <3>3, OtherFiles
  <2>3. LockType'
    BY <1>15, <1>t, NoneAssumption DEF Append, Return, LockType, VarType, Working
  <2>4. ASSUME NEW v \in Writer PROVE CallInv(v)'
    BY <1>15, <1>t, <1>c, <2>l, Settle, OneHolder DEF Append, Return, VarType, LockType, CallInv, Working
  <2> QED
    BY <2>1, <2>2, <2>3, <2>4, <1>g
<1>16. ASSUME NEW w \in Writer, LoadCreatedRefused(w) PROVE TypeInv'
  <2>l. target[w] \in LogName
    BY <1>16, <1>c DEF LoadCreatedRefused, CallInv
  <2>1. VarType'
    BY <1>16, <1>t, <2>l, NoneAssumption DEF LoadCreatedRefused, Refuse, VarType, Working
  <2>2. FileType(file)'
    BY <1>16, <1>t DEF LoadCreatedRefused, FileType
  <2>3. LockType'
    BY <1>16, <1>t, NoneAssumption DEF LoadCreatedRefused, LockType, VarType, Working
  <2>4. ASSUME NEW v \in Writer PROVE CallInv(v)'
    BY <1>16, <1>t, <1>c, <2>l, Settle, OneHolder
       DEF LoadCreatedRefused, VarType, LockType, CallInv, Working
  <2> QED
    BY <2>1, <2>2, <2>3, <2>4, <1>g
<1> QED
  BY <1>1, <1>2, <1>3, <1>4, <1>5, <1>6, <1>7, <1>8, <1>9, <1>10, <1>11, <1>12, <1>13, <1>14, <1>15,
     <1>16 DEF Next, Proceed
-----------------------------------------------------------------------------
\* What a step does to the files: nothing; the last one goes; one is moved up; a line is appended.
Stays == UNCHANGED <<file, count>>

Drops(w) ==
    /\ pc[w] = "drop"
    /\ count' = count /\ file' = [file EXCEPT ![target[w]][Cnt(target[w])] = {}]

Moves(w, n) ==
    /\ (pc[w] = "shift" /\ n = i32) \/ (pc[w] = "first" /\ n = 0)
    /\ count' = count /\ file' = [file EXCEPT ![target[w]] = Moved(file[target[w]], n)]

Appends(w) ==
    /\ pc[w] = "append"
    /\ count' = [count EXCEPT ![target[w]] = @ + 1]
    /\ file' = [file EXCEPT ![target[w]][0] =
                   @ \cup {[no |-> count[target[w]] + 1, at |-> cur]}]

\* A step appends a line to one file, drops a file, moves one, or leaves the files alone.
LEMMA FileSteps ==
    ASSUME [Next]_vars
    PROVE  \/ Stays
           \/ \E w \in Writer : Drops(w) \/ Appends(w) \/ Moves(w, i32) \/ Moves(w, 0)
<1>1. CASE UNCHANGED vars
  BY <1>1 DEF vars, Stays
<1>2. CASE Initialize \/ Crash \/ Tick
  BY <1>2 DEF Initialize, Crash, Tick, Stays
<1>3. ASSUME NEW w \in Writer,
             \/ Write(w) \/ Lock(w) \/ LoadCreated(w) \/ LoadCreatedRefused(w) \/ FillMeta(w)
             \/ Decide(w) \/ Panic(w) \/ StampMeta(w)
      PROVE  Stays
  BY <1>3 DEF Write, Lock, LoadCreated, LoadCreatedRefused, FillMeta, Decide, Panic, StampMeta, Stays
<1>4. ASSUME NEW w \in Writer, DropLast(w) PROVE Stays \/ Drops(w)
  BY <1>4 DEF DropLast, Refused, Stays, Drops
<1>5. ASSUME NEW w \in Writer, Shift(w) PROVE Stays \/ Moves(w, i32)
  BY <1>5 DEF Shift, Refused, Stays, Moves
<1>6. ASSUME NEW w \in Writer, ShiftFirst(w) PROVE Stays \/ Moves(w, 0)
  BY <1>6 DEF ShiftFirst, Refused, Stays, Moves
<1>7. ASSUME NEW w \in Writer, Append(w) PROVE Stays \/ Appends(w)
  BY <1>7 DEF Append, Stays, Appends
<1> QED
  BY <1>1, <1>2, <1>3, <1>4, <1>5, <1>6, <1>7 DEF Next, Proceed

\* The log that a step is at, with the file it moves: it rotates, and has the next file.
LEMMA AtFile ==
    ASSUME TypeInv, NEW w \in Writer
    PROVE  /\ pc[w] \in Working => target[w] \in LogName
           /\ pc[w] = "drop" => Cnt(target[w]) \in Nat \ {0}
           /\ pc[w] = "shift" => i32 \in Nat /\ i32 < Cnt(target[w])
           /\ pc[w] = "first" => 0 < Cnt(target[w])
BY Settle DEF TypeInv, CallInv, RotatingLogTypeOK, Working

\* The files of one log after each of the steps; those of the others stay.
LEMMA AfterDrop ==
    ASSUME TypeInv, NEW w \in Writer, Drops(w), NEW l \in LogName, NEW n \in Files(l)
    PROVE  file'[l][n] = IF l = target[w] /\ n = Cnt(l) THEN {} ELSE file[l][n]
BY AtFile DEF Drops, TypeInv, RotatingLogTypeOK, Working

\* A move empties the place of one file and fills that of the next one.
LEMMA AfterMove ==
    ASSUME TypeInv, NEW w \in Writer, NEW k, Moves(w, k), NEW l \in LogName, NEW n \in Files(l)
    PROVE  file'[l][n] =
             IF l # target[w] THEN file[l][n]
             ELSE IF n = k THEN {}
             ELSE IF n = k + 1 /\ file[l][k] # {} THEN file[l][k]
             ELSE file[l][n]
<1>1. target[w] \in LogName /\ k \in Nat /\ k < Cnt(target[w])
  BY AtFile DEF Moves, Working
<1>2. FileType(file)
  BY TypeParts DEF TypeInv
<1>3. file'[l] = IF l = target[w] THEN Moved(file[l], k) ELSE file[l]
  BY <1>1, <1>2 DEF Moves, FileType
<1>4. CASE l = target[w]
  <2>1. file[l] \in [Files(l) -> SUBSET Line]
    BY <1>2 DEF FileType
  <2>2. k + 1 # k
    BY <1>1
  <2>3. /\ Moved(file[l], k)[k] = {}
        /\ Moved(file[l], k)[k + 1] = IF file[l][k] = {} THEN file[l][k + 1] ELSE file[l][k]
        /\ \A i \in Files(l) \ {k, k + 1} : Moved(file[l], k)[i] = file[l][i]
    BY <1>1, <1>4, <2>1, MovedFiles
  <2> QED
    BY <1>3, <1>4, <2>2, <2>3
<1> QED
  BY <1>3, <1>4

\* An append puts one new line, younger than all, into name.txt.
LEMMA AfterAppend ==
    ASSUME TypeInv, NEW w \in Writer, Appends(w), NEW l \in LogName
    PROVE  /\ count'[l] = IF l = target[w] THEN count[l] + 1 ELSE count[l]
           /\ \A n \in Files(l) : file'[l][n] =
                 IF l = target[w] /\ n = 0
                 THEN file[l][n] \cup {[no |-> count[l] + 1, at |-> cur]} ELSE file[l][n]
<1>1. target[w] \in LogName
  BY AtFile DEF Appends, Working
<1>2. FileType(file) /\ count \in [LogName -> Nat]
  BY TypeParts DEF TypeInv, VarType
<1> QED
  BY <1>1, <1>2 DEF Appends, FileType
-----------------------------------------------------------------------------
\* The order survives a step: no step puts a line where a later one is in an older file.
LEMMA OrderNext == TypeInv /\ OrderInv /\ [Next]_vars => OrderInv'
<1> SUFFICES ASSUME TypeInv, OrderInv, [Next]_vars PROVE OrderInv'
  OBVIOUS
<1>t. \A l \in LogName : Cnt(l) \in Nat /\ count[l] \in Nat
  BY Settle, TypeParts DEF TypeInv, VarType
<1>n. \A l \in LogName : \A n \in Files(l) : \A a \in file[l][n] : a.no \in 1 .. count[l]
  BY DEF OrderInv, NumberInv
<1>o. ASSUME NEW l \in LogName, NEW m \in Files(l), NEW n \in Files(l), m < n,
             NEW a \in file[l][m], NEW b \in file[l][n]
      PROVE  b.no < a.no
  BY <1>o DEF OrderInv, LinesInOrder
<1>1. CASE Stays
  BY <1>1 DEF Stays, OrderInv, NumberInv, LinesInOrder
<1>2. ASSUME NEW w \in Writer, Drops(w) PROVE OrderInv'
  <2>1. \A l \in LogName : count'[l] = count[l] /\ \A n \in Files(l) : file'[l][n] \subseteq file[l][n]
    BY <1>2, AfterDrop DEF Drops
  <2> QED
    BY <1>n, <1>o, <2>1 DEF OrderInv, NumberInv, LinesInOrder
<1>3. ASSUME NEW w \in Writer, NEW k, Moves(w, k) PROVE OrderInv'
  <2>k. target[w] \in LogName /\ k \in Nat /\ k < Cnt(target[w])
    BY <1>3, AtFile DEF Moves, Working
  <2>1. ASSUME NEW l \in LogName, NEW n \in Files(l), NEW a \in file'[l][n]
        PROVE  \/ a \in file[l][n]
               \/ l = target[w] /\ n = k + 1 /\ a \in file[l][k]
    BY <1>3, <2>1, AfterMove
  <2>2. ASSUME NEW l \in LogName, NEW n \in Files(l), NEW a \in file'[l][n]
        PROVE  a.no \in 1 .. count'[l]
    <3>1. count' = count /\ (l = target[w] => k \in Files(l))
      BY <1>3, <1>t, <2>k DEF Moves, Files
    <3> QED
      BY <1>n, <2>1, <3>1
  <2>3. ASSUME NEW l \in LogName, NEW m \in Files(l), NEW n \in Files(l), m < n,
               NEW a \in file'[l][m], NEW b \in file'[l][n]
        PROVE  b.no < a.no
    <3>1. CASE l # target[w]
      BY <1>o, <2>1, <2>3, <3>1
    <3>2. CASE l = target[w] /\ m = k
      BY <1>3, <2>3, <3>2, AfterMove
    <3>3. CASE l = target[w] /\ m # k
      <4>1. PICK i \in Files(l) : a \in file[l][i] /\ (i = m \/ (i = k /\ m = k + 1))
        BY <1>t, <2>1, <2>k, <3>3 DEF Files
      <4>2. PICK j \in Files(l) : b \in file[l][j] /\ (j = n \/ (j = k /\ n = k + 1))
        BY <1>t, <2>1, <2>k, <3>3 DEF Files
      <4>3. i < j
        BY <1>t, <2>3, <2>k, <3>3, <4>1, <4>2 DEF Files
      <4> QED
        BY <1>o, <4>1, <4>2, <4>3
    <3> QED
      BY <3>1, <3>2, <3>3
  <2> QED
    BY <2>2, <2>3 DEF OrderInv, NumberInv, LinesInOrder
<1>4. ASSUME NEW w \in Writer, Appends(w) PROVE OrderInv'
  <2>1. ASSUME NEW l \in LogName, NEW n \in Files(l), NEW a \in file'[l][n]
        PROVE  \/ a \in file[l][n]
               \/ l = target[w] /\ n = 0 /\ a.no = count[l] + 1
    <3>1. CASE l = target[w] /\ n = 0
      <4>1. file'[l][n] = file[l][n] \cup {[no |-> count[l] + 1, at |-> cur]}
        BY <1>4, <3>1, AfterAppend
      <4> QED
        BY <2>1, <3>1, <4>1
    <3>2. CASE ~(l = target[w] /\ n = 0)
      BY <1>4, <2>1, <3>2, AfterAppend
    <3> QED
      BY <3>1, <3>2
  <2>2. \A l \in LogName : count'[l] = IF l = target[w] THEN count[l] + 1 ELSE count[l]
    BY <1>4, AfterAppend
  <2>3. ASSUME NEW l \in LogName, NEW n \in Files(l), NEW a \in file'[l][n]
        PROVE  a.no \in 1 .. count'[l]
    BY <1>t, <1>n, <2>1, <2>2
  <2>4. ASSUME NEW l \in LogName, NEW m \in Files(l), NEW n \in Files(l), m < n,
               NEW a \in file'[l][m], NEW b \in file'[l][n]
        PROVE  b.no < a.no
    <3>1. n # 0 /\ b \in file[l][n] /\ b.no \in 1 .. count[l]
      BY <1>t, <1>n, <2>1, <2>4 DEF Files
    <3>2. CASE a \in file[l][m]
      BY <1>o, <2>4, <3>1, <3>2
    <3>3. CASE a.no = count[l] + 1
      BY <1>t, <3>1, <3>3
    <3> QED
      BY <2>1, <3>2, <3>3
  <2> QED
    BY <2>3, <2>4 DEF OrderInv, NumberInv, LinesInOrder
<1> QED
  BY <1>1, <1>2, <1>3, <1>4, FileSteps

\* While a log rotates and no removal or rename was refused, the place of the next file stays free.
LEMMA FreeNext == TypeInv /\ FreeInv /\ [Next]_vars => FreeInv'
<1> SUFFICES ASSUME TypeInv, FreeInv, [Next]_vars, NEW v \in Writer, target'[v] \notin refused'
             PROVE  /\ pc'[v] = "shift" => file'[target'[v]][i32' + 1] = {}
                    /\ pc'[v] = "first" => file'[target'[v]][1] = {}
  BY DEF FreeInv
<1> DEFINE Free == /\ pc[v] = "shift" => file[target[v]][i32 + 1] = {}
                   /\ pc[v] = "first" => file[target[v]][1] = {}
<1> DEFINE FreeThen == /\ pc'[v] = "shift" => file'[target'[v]][i32' + 1] = {}
                       /\ pc'[v] = "first" => file'[target'[v]][1] = {}
<1>f. target[v] \notin refused => Free
  BY DEF FreeInv
<1>t. VarType /\ FileType(file)
  BY TypeParts DEF TypeInv
<1>1. CASE UNCHANGED vars
  BY <1>1, <1>f DEF vars
<1>2. CASE Initialize \/ Tick
  BY <1>2, <1>f DEF Initialize, Tick
<1>3. CASE Crash
  BY <1>3 DEF Crash
<1>4. ASSUME NEW w \in Writer, Write(w) \/ Lock(w) PROVE FreeThen
  BY <1>4, <1>f, <1>t DEF Write, Lock, VarType
<1>5. ASSUME NEW w \in Writer,
             LoadCreated(w) \/ LoadCreatedRefused(w) \/ FillMeta(w) \/ Decide(w)
      PROVE  FreeThen
  BY <1>5, <1>f, <1>t DEF LoadCreated, LoadCreatedRefused, FillMeta, Decide, VarType
<1>6. ASSUME NEW w \in Writer, Panic(w) \/ ShiftFirst(w) \/ Append(w) PROVE FreeThen
  <2>1. pc[w] \in Working /\ pc'[w] \notin {"shift", "first"}
    BY <1>6, <1>t DEF Panic, ShiftFirst, Append, Return, VarType, Working
  <2>2. v # w => pc'[v] = pc[v] /\ pc[v] \notin Working
    BY <1>6, <1>t, <2>1, OneHolder DEF Panic, ShiftFirst, Append, Return, VarType
  <2> QED
    BY <2>1, <2>2 DEF Working
<1>7. ASSUME NEW w \in Writer, DropLast(w) PROVE FreeThen
  <2>1. target[w] \in LogName /\ Cnt(target[w]) \in Nat \ {0}
    BY <1>7, AtFile DEF DropLast, Working
  <2>2. CASE v = w
    <3>1. pc'[v] = "shift" /\ target'[v] = target[w] /\ i32' + 1 = Cnt(target[w])
      BY <1>7, <1>t, <2>1, <2>2 DEF DropLast, VarType
    <3>2. Drops(w)
      BY <1>7, <2>2, <3>1 DEF DropLast, Refused, Drops
    <3>3. file'[target[w]][Cnt(target[w])] = {}
      BY <2>1, <3>2, AfterDrop, Settle
    <3> QED
      BY <3>1, <3>3
  <2>3. CASE v # w
    <3>1. pc[v] \notin Working
      BY <1>7, <2>3, OneHolder DEF DropLast, Working
    <3> QED
      BY <1>7, <1>t, <2>3, <3>1 DEF DropLast, VarType, Working
  <2> QED
    BY <2>2, <2>3
<1>8. ASSUME NEW w \in Writer, Shift(w) PROVE FreeThen
  <2>1. CASE v = w
    <3>1. Moves(w, i32)
      BY <1>8, <1>t, <2>1 DEF Shift, Refused, Moves, VarType
    <3>2. target[w] \in LogName /\ i32 \in Nat /\ i32 < Cnt(target[w]) /\ pc[w] = "shift"
      BY <1>8, AtFile DEF Shift, Working
    <3>3. i32 \in Files(target[w])
      BY <3>2, Settle DEF Files
    <3>4. file'[target[w]][i32] = {}
      BY <3>1, <3>2, <3>3, AfterMove
    <3> QED
      BY <1>8, <2>1, <3>2, <3>4 DEF Shift
  <2>2. CASE v # w
    <3>1. pc[v] \notin Working
      BY <1>8, <2>2, OneHolder DEF Shift, Working
    <3> QED
      BY <1>8, <3>1 DEF Shift, Working
  <2> QED
    BY <2>1, <2>2
<1>9. ASSUME NEW w \in Writer, StampMeta(w) PROVE FreeThen
  <2>1. CASE v = w
    BY <1>9, <1>f, <1>t, <2>1 DEF StampMeta, VarType
  <2>2. CASE v # w
    <3>1. pc[v] \notin Working
      BY <1>9, <2>2, OneHolder DEF StampMeta, Working
    <3> QED
      BY <1>9, <1>t, <2>2, <3>1 DEF StampMeta, VarType, Working
  <2> QED
    BY <2>1, <2>2
<1> QED
  BY <1>1, <1>2, <1>3, <1>4, <1>5, <1>6, <1>7, <1>8, <1>9 DEF Next, Proceed

\* A line that is there has all later ones beside it.
LEMMA OldestNext == TypeInv /\ OrderInv /\ OldestInv /\ [Next]_vars => OnlyOldestDropped'
<1> SUFFICES ASSUME TypeInv, OrderInv, OldestInv, [Next]_vars,
                    NEW l \in LogName, l \notin refused',
                    NEW m \in Files(l), NEW a \in file'[l][m], NEW k \in a.no .. count'[l]
             PROVE  \E n \in Files(l) : \E b \in file'[l][n] : b.no = k
  BY DEF OnlyOldestDropped, Kept
<1>r. l \notin refused
  <2>1. CASE \E w \in Writer : DropLast(w) \/ Shift(w) \/ ShiftFirst(w)
    BY <2>1 DEF DropLast, Shift, ShiftFirst, Refused
  <2>2. CASE ~ \E w \in Writer : DropLast(w) \/ Shift(w) \/ ShiftFirst(w)
    BY <2>2 DEF Next, Proceed, vars, Initialize, Crash, Tick, Write, Lock, LoadCreated,
                LoadCreatedRefused, FillMeta, Decide, Panic, StampMeta, Append
  <2> QED
    BY <2>1, <2>2
<1>t. Cnt(l) \in Nat /\ count[l] \in Nat
  BY Settle, TypeParts DEF TypeInv, VarType
<1>n. \A n \in Files(l) : \A b \in file[l][n] : b.no \in 1 .. count[l]
  BY DEF OrderInv, NumberInv
<1>k. ASSUME NEW n \in Files(l), NEW b \in file[l][n], NEW j \in b.no .. count[l]
      PROVE  \E i \in Files(l) : \E c \in file[l][i] : c.no = j
  BY <1>r, <1>k DEF OldestInv, OnlyOldestDropped, Kept
<1>1. CASE Stays
  BY <1>1, <1>k DEF Stays
<1>2. ASSUME NEW w \in Writer, Drops(w)
      PROVE  \E n \in Files(l) : \E b \in file'[l][n] : b.no = k
  <2>1. \A n \in Files(l) :
            file'[l][n] = IF l = target[w] /\ n = Cnt(l) THEN {} ELSE file[l][n]
    BY <1>2, AfterDrop
  <2>2. a \in file[l][m] /\ (l = target[w] => m # Cnt(l)) /\ count'[l] = count[l]
    BY <1>2, <2>1 DEF Drops
  <2>3. PICK i \in Files(l) : \E c \in file[l][i] : c.no = k
    BY <1>k, <2>2
  <2>4. PICK c \in file[l][i] : c.no = k
    BY <2>3
  <2>5. ~(l = target[w] /\ i = Cnt(l))
    <3> SUFFICES ASSUME l = target[w], i = Cnt(l) PROVE FALSE
      OBVIOUS
    <3>1. m < i
      BY <1>t, <2>2 DEF Files
    <3>2. c.no < a.no
      BY <2>2, <2>4, <3>1 DEF OrderInv, LinesInOrder
    <3> QED
      BY <1>n, <1>t, <2>2, <2>4, <3>2
  <2> QED
    BY <2>1, <2>4, <2>5
<1>3. ASSUME NEW w \in Writer, NEW j, Moves(w, j)
      PROVE  \E n \in Files(l) : \E b \in file'[l][n] : b.no = k
  <2>1. target[w] \in LogName /\ j \in Nat /\ j < Cnt(target[w]) /\ count' = count
    BY <1>3, AtFile DEF Moves, Working
  <2>2. l = target[w] => file[l][j + 1] = {} /\ j \in Files(l) /\ j + 1 \in Files(l)
    BY <1>3, <1>r, <1>t, <2>1 DEF Moves, OldestInv, FreeInv, Files
  <2>3. \A n \in Files(l) : file'[l][n] =
             IF l # target[w] THEN file[l][n]
             ELSE IF n = j THEN {}
             ELSE IF n = j + 1 /\ file[l][j] # {} THEN file[l][j]
             ELSE file[l][n]
    BY <1>3, AfterMove
  <2>4. \E n \in Files(l) : a \in file[l][n]
    BY <2>2, <2>3
  <2>5. PICK i \in Files(l) : \E c \in file[l][i] : c.no = k
    BY <1>k, <2>1, <2>4
  <2>6. PICK c \in file[l][i] : c.no = k
    BY <2>5
  <2>7. CASE l # target[w] \/ i # j
    BY <2>2, <2>3, <2>6, <2>7
  <2>8. CASE l = target[w] /\ i = j
    <3>1. file'[l][j + 1] = file[l][j] /\ j + 1 \in Files(l)
      BY <2>1, <2>2, <2>3, <2>6, <2>8
    <3> QED
      BY <2>6, <2>8, <3>1
  <2> QED
    BY <2>7, <2>8
<1>4. ASSUME NEW w \in Writer, Appends(w)
      PROVE  \E n \in Files(l) : \E b \in file'[l][n] : b.no = k
  <2>1. /\ count'[l] = IF l = target[w] THEN count[l] + 1 ELSE count[l]
        /\ \A n \in Files(l) : file'[l][n] =
              IF l = target[w] /\ n = 0
              THEN file[l][n] \cup {[no |-> count[l] + 1, at |-> cur]} ELSE file[l][n]
    BY <1>4, AfterAppend
  <2>2. \A n \in Files(l) : file[l][n] \subseteq file'[l][n]
    BY <2>1
  <2>3. CASE l = target[w] /\ k = count[l] + 1
    <3>1. [no |-> count[l] + 1, at |-> cur] \in file'[l][0] /\ 0 \in Files(l)
      BY <2>1, <2>3, Settle
    <3> QED
      BY <2>3, <3>1
  <2>4. CASE ~(l = target[w] /\ k = count[l] + 1)
    <3>1. a.no \in Nat
      <4>1. CASE a \in file[l][m]
        BY <1>n, <4>1
      <4>2. CASE a \notin file[l][m]
        <5>1. a = [no |-> count[l] + 1, at |-> cur]
          BY <2>1, <4>2
        <5> QED
          BY <1>t, <5>1
      <4> QED
        BY <4>1, <4>2
    <3>2. k \in a.no .. count[l]
      BY <1>t, <2>1, <2>4, <3>1
    <3>3. a \in file[l][m]
      <4> SUFFICES ASSUME a \notin file[l][m] PROVE FALSE
        OBVIOUS
      <4>1. a = [no |-> count[l] + 1, at |-> cur]
        BY <2>1
      <4> QED
        BY <1>t, <3>2, <4>1
    <3>4. PICK i \in Files(l) : \E c \in file[l][i] : c.no = k
      BY <1>k, <3>2, <3>3
    <3> QED
      BY <2>2, <3>4
  <2> QED
    BY <2>3, <2>4
<1> QED
  BY <1>1, <1>2, <1>3, <1>4, FileSteps

\* Periods follow the clock.
LEMMA PeriodMonotone ==
    ASSUME NEW l \in LogName, Freq(l) > 0, NEW s \in Nat, NEW t \in Nat, s <= t
    PROVE  Period(l, s) \in Int /\ Period(l, t) \in Int /\ Period(l, s) <= Period(l, t)
<1>1. Freq(l) \in Nat \ {0}
  BY Settle
<1> QED
  BY <1>1 DEF Period

\* Nothing is stamped with a time to come.
LEMMA TimeNext == TypeInv /\ TimeInv /\ [Next]_vars => TimeInv'
<1> SUFFICES ASSUME TypeInv, TimeInv, [Next]_vars PROVE TimeInv'
  OBVIOUS
<1>t. VarType /\ LockType
  BY TypeParts DEF TypeInv
<1>c. \A w \in Writer : pc[w] \in Working => target[w] \in LogName
  BY AtFile
<1>1. CASE UNCHANGED vars
  BY <1>1 DEF vars, TimeInv
<1>2. CASE Initialize
  BY <1>2 DEF Initialize, TimeInv
<1>3. CASE Tick
  BY <1>3, <1>t, <1>c DEF Tick, TimeInv, VarType, NoFile
<1>4. CASE Crash
  <2>1. /\ pc' = [w \in Writer |-> "idle"] /\ created' = [l \in LogName |-> 0]
        /\ now' = now /\ meta' = meta
    BY <1>4 DEF Crash
  <2> QED
    BY <1>t, <2>1 DEF TimeInv, VarType, Working
<1>5. ASSUME NEW w \in Writer, Write(w) PROVE TimeInv'
  BY <1>5, <1>t DEF Write, TimeInv, VarType, Working
<1>6. ASSUME NEW w \in Writer, Lock(w) PROVE TimeInv'
  <2>1. target[w] \in LogName
    BY <1>6 DEF Lock, TypeInv, CallInv
  <2>2. \A v \in Writer : pc[v] \notin Working
    BY <1>6, <1>t, NoneAssumption DEF Lock, LockType
  <2>3. \A v \in Writer \ {w} : pc'[v] \notin Working
    BY <1>6, <1>t, <2>2 DEF Lock, VarType
  <2> QED
    BY <1>6, <1>t, <2>1, <2>3 DEF Lock, TimeInv, VarType
<1>7. ASSUME NEW w \in Writer,
             LoadCreated(w) \/ LoadCreatedRefused(w) \/ FillMeta(w) \/ StampMeta(w)
      PROVE  TimeInv'
  <2>1. pc[w] \in Working /\ target[w] \in LogName
    BY <1>7, <1>c DEF LoadCreated, LoadCreatedRefused, FillMeta, StampMeta, Working
  <2>2. \A v \in Writer \ {w} : pc'[v] \notin Working
    BY <1>7, <1>t, <2>1, OneHolder DEF LoadCreated, LoadCreatedRefused, FillMeta, StampMeta, VarType
  <2> QED
    BY <1>7, <1>t, <2>1, <2>2
       DEF LoadCreated, LoadCreatedRefused, FillMeta, StampMeta, TimeInv, VarType, Blank
<1>8. ASSUME NEW w \in Writer, Decide(w) \/ DropLast(w) \/ Shift(w) \/ ShiftFirst(w) PROVE TimeInv'
  <2>1. /\ pc[w] \in Working /\ \A v \in Writer \ {w} : pc'[v] = pc[v]
        /\ UNCHANGED <<now, target, cur, created, meta>>
    BY <1>8, <1>t DEF Decide, DropLast, Shift, ShiftFirst, VarType, Working
  <2> QED
    BY <2>1 DEF TimeInv
<1>9. ASSUME NEW w \in Writer, Panic(w) \/ Append(w) PROVE TimeInv'
  <2>1. pc[w] \in Working /\ UNCHANGED <<now, created, meta>> /\ pc'[w] = "idle"
    BY <1>9, <1>t DEF Panic, Append, Return, VarType, Working
  <2>2. \A v \in Writer : pc'[v] \notin Working
    BY <1>9, <1>t, <2>1, OneHolder DEF Panic, Append, Return, VarType, Working
  <2> QED
    BY <2>1, <2>2 DEF TimeInv
<1> QED
  BY <1>1, <1>2, <1>3, <1>4, <1>5, <1>6, <1>7, <1>8, <1>9 DEF Next, Proceed

\* The holder of the lock works on one log; the others are as they were.
LEMMA OtherLog ==
    ASSUME TypeInv, NEW w \in Writer, pc[w] \in Working, NEW l \in LogName, l # target[w],
           StampInv(l), target'[w] \in {target[w], None},
           \A v \in Writer \ {w} : pc'[v] = pc[v] /\ target'[v] = target[v],
           created'[l] = created[l], meta'[l] = meta[l], file'[l] = file[l], now' = now
    PROVE  StampInv(l)'
<1>1. \A v \in Writer : target[v] = l => pc[v] \notin Working
  BY OneHolder
<1>2. Stamped(l, "idle")
  BY <1>1 DEF StampInv
<1>3. Stamped(l, "idle")'
  BY <1>2 DEF Stamped, Period, Freq
<1>4. \A v \in Writer : target'[v] = l => pc'[v] \notin Working
  BY <1>1, NoneAssumption
<1> QED
  BY <1>3, <1>4 DEF StampInv

\* A step of the holder that leaves its log as its new place asks.
LEMMA OwnLog ==
    ASSUME TypeInv, NEW w \in Writer, pc[w] \in Working, NEW l, l = target[w],
           target'[w] = l, pc'[w] \in Working,
           \A v \in Writer \ {w} : pc'[v] = pc[v],
           Stamped(l, pc[w])'
    PROVE  StampInv(l)'
<1>1. \A v \in Writer \ {w} : pc'[v] \notin Working
  BY OneHolder
<1> QED
  BY <1>1 DEF StampInv

\* The step with which it lets go of the log.
LEMMA LetGo ==
    ASSUME TypeInv, NEW w \in Writer, pc[w] \in Working, NEW l,
           target'[w] # l, pc'[w] = "idle",
           \A v \in Writer \ {w} : pc'[v] = pc[v],
           Stamped(l, "idle")'
    PROVE  StampInv(l)'
<1>1. \A v \in Writer : pc'[v] \notin Working
  BY OneHolder DEF Working
<1> QED
  BY <1>1 DEF StampInv

\* The lines of name.txt stay in one period.
LEMMA StampNext ==
    ASSUME TypeInv, PeriodInv, [Next]_vars,
           NEW l \in LogName, l \notin mixed', Cnt(l) > 0, Freq(l) > 0
    PROVE  StampInv(l)'
<1>t. VarType /\ FileType(file) /\ LockType /\ TimeInv
  BY TypeParts DEF TypeInv, PeriodInv
<1>f. Cnt(l) \in Nat \ {0} /\ Freq(l) \in Nat \ {0} /\ 0 \in Files(l) /\ Cnt(l) \in Files(l)
  BY Settle
<1>s. StampInv(l)
  <2>1. mixed \subseteq mixed'
    <3>1. CASE Crash
      BY <3>1 DEF Crash
    <3>2. CASE \E w \in Writer : ShiftFirst(w) \/ LoadCreatedRefused(w) \/ FillMeta(w)
      BY <3>2 DEF ShiftFirst, LoadCreatedRefused, FillMeta
    <3>3. CASE ~(Crash \/ \E w \in Writer : ShiftFirst(w) \/ LoadCreatedRefused(w) \/ FillMeta(w))
      BY <3>3 DEF Next, Proceed, vars, Initialize, Tick, Write, Lock, LoadCreated,
                  Decide, Panic, DropLast, Shift, StampMeta, Append
    <3> QED
      BY <3>1, <3>2, <3>3
  <2> QED
    BY <2>1 DEF PeriodInv
<1>1. CASE UNCHANGED vars
  BY <1>1, <1>s DEF vars, StampInv, Stamped
<1>a. \A a \in file[l][0] : a.at \in Nat
  BY <1>f, <1>t DEF FileType, Line
<1>2. CASE Initialize \/ Tick
  <2>1. ASSUME NEW point, Stamped(l, point) PROVE Stamped(l, point)'
    <3>1. UNCHANGED <<cur, created, meta, file>> /\ now <= now' /\ now \in Nat /\ now' \in Nat
      BY <1>2, <1>t DEF Initialize, Tick, VarType
    <3>2. \A a \in file[l][0] : a.at <= now => a.at <= now'
      BY <1>a, <3>1
    <3> QED
      BY <2>1, <3>1, <3>2, Zenon DEF Stamped, Period, Freq
  <2>2. UNCHANGED <<pc, target>>
    BY <1>2 DEF Initialize, Tick
  <2> QED
    BY <1>s, <2>1, <2>2 DEF StampInv
<1>3. CASE Crash
  <2>1. \A w \in Writer : target[w] = l => pc[w] \notin {"fill", "first"}
    BY <1>3 DEF Crash
  <2>2. /\ pc' = [w \in Writer |-> "idle"] /\ created' = [k \in LogName |-> 0]
        /\ file' = file /\ meta' = meta /\ now' = now
    BY <1>3 DEF Crash
  <2>3. /\ meta[l] # Blank
        /\ meta[l] = NoFile => file[l][0] = {}
        /\ \A a \in file[l][0] : Period(l, meta[l]) <= Period(l, a.at)
        /\ \A a \in file[l][0] : a.at <= now
        /\ \A n \in Files(l) : \A a, b \in file[l][n] : Period(l, a.at) = Period(l, b.at)
    <3>1. PICK point : /\ Stamped(l, point) /\ point \notin {"fill", "first"}
                       /\ point = "idle" \/ cur <= now
      BY <1>s, <1>t, <2>1 DEF StampInv, TimeInv
    <3>2. \A a \in file[l][0] : a.at <= now
      BY <1>a, <1>t, <3>1 DEF Stamped, VarType
    <3> QED
      BY <3>1, <3>2 DEF Stamped
  <2>4. created'[l] = 0
    BY <2>2
  <2>5. Stamped(l, "idle")'
    BY <2>2, <2>3, <2>4 DEF Stamped, Period, Freq
  <2> QED
    BY <2>2, <2>5 DEF StampInv, Working
<1>4. ASSUME NEW w \in Writer, Write(w) PROVE StampInv(l)'
  <2>1. /\ UNCHANGED <<now, cur, created, meta, file>>
        /\ pc[w] \notin Working /\ pc'[w] \notin Working
        /\ \A v \in Writer \ {w} : pc'[v] = pc[v] /\ target'[v] = target[v]
    BY <1>4, <1>t DEF Write, VarType, Working
  <2> QED
    BY <1>s, <2>1 DEF StampInv, Stamped, Period, Freq
<1>5. ASSUME NEW w \in Writer, Lock(w) PROVE StampInv(l)'
  <2>1. \A v \in Writer : pc[v] \notin Working
    BY <1>5, <1>t, NoneAssumption DEF Lock, LockType
  <2>2. Stamped(l, "idle")
    BY <1>s, <2>1 DEF StampInv
  <2>3. /\ UNCHANGED <<now, target, created, meta, file>> /\ cur' = now
        /\ \A v \in Writer \ {w} : pc'[v] = pc[v]
        /\ target[w] = l => pc'[w] = "created"
    BY <1>5, <1>f, <1>t DEF Lock, VarType
  <2>4. Stamped(l, "idle")' /\ Stamped(l, "created")'
    BY <2>2, <2>3 DEF Stamped, Period, Freq
  <2> QED
    BY <2>1, <2>3, <2>4 DEF StampInv
<1>6. ASSUME NEW w \in Writer, Proceed(w), ~Lock(w) PROVE StampInv(l)'
  <2>w. pc[w] \in Working
    BY <1>6 DEF Proceed, LoadCreated, LoadCreatedRefused, FillMeta, Decide, Panic, DropLast, Shift, StampMeta,
                ShiftFirst, Append, Working
  <2>l. target[w] \in LogName
    BY <2>w, AtFile
  <2>v. \A v \in Writer \ {w} : pc'[v] = pc[v] /\ target'[v] = target[v]
    BY <1>6, <1>t DEF Proceed, LoadCreated, LoadCreatedRefused, FillMeta, Decide, Panic, DropLast, Shift, StampMeta,
                      ShiftFirst, Append, Return, Refused, VarType
  <2>1. CASE l # target[w]
    <3>1. /\ target'[w] \in {target[w], None} /\ created'[l] = created[l] /\ meta'[l] = meta[l]
          /\ now' = now
      BY <1>6, <1>t, <2>1, <2>l DEF Proceed, LoadCreated, LoadCreatedRefused, FillMeta, Decide, Panic, DropLast, Shift,
           StampMeta, ShiftFirst, Append, Return, Refused, VarType
    <3>2. file'[l] = file[l]
      BY <1>6, <1>t, <2>1, <2>l DEF Proceed, LoadCreated, LoadCreatedRefused, FillMeta, Decide, Panic, DropLast, Shift,
           StampMeta, ShiftFirst, Append, Return, Refused, FileType
    <3> QED
      BY <1>s, <2>1, <2>v, <2>w, <3>1, <3>2, OtherLog
  <2>2. CASE l = target[w]
    <3>s. Stamped(l, pc[w])
      BY <1>s, <2>2, <2>w DEF StampInv
    <3>c. created[l] \in Nat /\ meta[l] \in Nat \cup {NoFile} /\ cur \in Nat
      BY <1>t DEF VarType
    <3>t. 0 < cur /\ created[l] <= cur /\ meta[l] <= cur
      BY <1>t, <2>2, <2>w DEF TimeInv
    <3>g. ASSUME target'[w] = l, pc'[w] \in Working, Stamped(l, pc[w])' PROVE StampInv(l)'
      BY <2>2, <2>v, <2>w, <3>g, OwnLog
    <3>p. \A time \in Nat : time <= cur => Period(l, time) <= Period(l, cur)
      BY <1>f, <3>c, PeriodMonotone
    <3>10. CASE LoadCreatedRefused(w)
      BY <2>2, <3>10 DEF LoadCreatedRefused
    <3>1. CASE LoadCreated(w)
      <4>1. /\ target' = target /\ file' = file /\ cur' = cur /\ pc[w] = "created"
            /\ pc'[w] \in {"due", "fill"}
        BY <1>t, <3>1 DEF LoadCreated, VarType
      <4>2. \/ /\ created[l] # 0 /\ created'[l] = created[l] /\ meta'[l] = meta[l] /\ pc'[w] = "due"
            \/ /\ meta[l] # NoFile /\ created'[l] = meta[l] /\ meta'[l] = meta[l] /\ pc'[w] = "due"
            \/ /\ meta[l] = NoFile /\ created'[l] = cur /\ meta'[l] = Blank /\ pc'[w] = "fill"
        BY <1>t, <2>2, <3>1 DEF LoadCreated, VarType
      <4>3. Stamped(l, pc[w])'
        BY <3>s, <3>c, <3>t, <4>1, <4>2 DEF Stamped, Period, Freq, NoFile, Blank
      <4>4. target'[w] = l /\ pc'[w] \in Working
        BY <2>2, <4>1 DEF Working
      <4> QED
        BY <3>g, <4>3, <4>4
    <3>2. CASE FillMeta(w)
      <4>1. /\ target' = target /\ file' = file /\ created' = created /\ pc[w] = "fill"
            /\ pc'[w] = "due" /\ meta'[l] = created[l] /\ cur' = cur
        BY <1>t, <2>2, <3>2 DEF FillMeta, VarType
      <4>2. Stamped(l, pc[w])'
        BY <3>s, <3>c, <4>1 DEF Stamped, Period, Freq, NoFile, Blank
      <4>3. target'[w] = l /\ pc'[w] \in Working
        BY <2>2, <4>1 DEF Working
      <4> QED
        BY <3>g, <4>2, <4>3
    <3>3. CASE Decide(w)
      <4>1. /\ target' = target /\ file' = file /\ created' = created /\ meta' = meta /\ cur' = cur
            /\ pc[w] = "due" /\ pc'[w] \in {"drop", "append"}
            /\ pc'[w] = "append" => created[l] = 0 \/ ~Due(l)
        BY <1>t, <2>2, <3>3 DEF Decide, VarType
      <4>2. created[l] > 0
        BY <3>s, <4>1 DEF Stamped
      <4>3. pc'[w] = "append" => Period(l, created[l]) = Period(l, cur)
        BY <1>f, <3>c, <3>t, <4>1, <4>2, PeriodMonotone DEF Due
      <4>4. Stamped(l, pc[w])'
        BY <3>s, <3>c, <4>1, <4>2, <4>3 DEF Stamped, NoFile, Blank, Period, Freq
      <4>5. target'[w] = l /\ pc'[w] \in Working
        BY <2>2, <4>1 DEF Working
      <4> QED
        BY <3>g, <4>4, <4>5
    <3>4. CASE Panic(w)
      BY <1>f, <2>2, <3>4 DEF Panic
    <3>5. CASE DropLast(w)
      <4>1. /\ target' = target /\ created' = created /\ meta' = meta /\ cur' = cur
            /\ pc[w] = "drop" /\ pc'[w] = "shift" /\ (file' = file \/ Drops(w))
        BY <1>t, <3>5 DEF DropLast, Refused, Drops, VarType
      <4>2. file'[l][0] = file[l][0] /\ \A n \in Files(l) : file'[l][n] \subseteq file[l][n]
        BY <1>f, <4>1, AfterDrop
      <4>3. Stamped(l, pc[w])'
        BY <3>s, <4>1, <4>2 DEF Stamped, Period, Freq
      <4>4. target'[w] = l /\ pc'[w] \in Working
        BY <2>2, <4>1 DEF Working
      <4> QED
        BY <3>g, <4>3, <4>4
    <3>6. CASE Shift(w)
      <4>1. /\ target' = target /\ created' = created /\ meta' = meta /\ cur' = cur
            /\ pc[w] = "shift" /\ pc'[w] = "shift" /\ i32 \in Nat \ {0} /\ i32 < Cnt(l)
            /\ file' = file \/ Moves(w, i32)
        BY <1>t, <2>2, <3>6, AtFile DEF Shift, Refused, Moves, VarType
      <4>2. i32 \in Files(l)
        BY <1>f, <4>1 DEF Files
      <4>3. CASE file' = file
        <5>1. Stamped(l, pc[w])'
          BY <3>s, <4>1, <4>3 DEF Stamped, Period, Freq
        <5>2. target'[w] = l /\ pc'[w] \in Working
          BY <2>2, <4>1 DEF Working
        <5> QED
          BY <3>g, <5>1, <5>2
      <4>4. CASE Moves(w, i32)
        <5>1. /\ file'[l][0] = file[l][0]
              /\ \A n \in Files(l) : \E k \in Files(l) : file'[l][n] \subseteq file[l][k]
          BY <1>f, <2>2, <4>1, <4>2, <4>4, AfterMove
        <5>2. Stamped(l, pc[w])'
          BY <3>s, <4>1, <5>1 DEF Stamped, Period, Freq
        <5>3. target'[w] = l /\ pc'[w] \in Working
          BY <2>2, <4>1 DEF Working
        <5> QED
          BY <3>g, <5>2, <5>3
      <4> QED
        BY <4>1, <4>3, <4>4
    <3>7. CASE StampMeta(w)
      <4>1. /\ target' = target /\ file' = file /\ cur' = cur /\ created'[l] = cur
            /\ meta'[l] \in {meta[l], cur} /\ pc'[w] = "first" /\ pc[w] = "shift"
        BY <1>t, <2>2, <3>7 DEF StampMeta, VarType
      <4>2. Stamped(l, pc[w])'
        BY <3>s, <3>c, <3>t, <4>1 DEF Stamped, NoFile, Blank, Period, Freq
      <4>3. target'[w] = l /\ pc'[w] \in Working
        BY <2>2, <4>1 DEF Working
      <4> QED
        BY <3>g, <4>2, <4>3
    <3>8. CASE ShiftFirst(w)
      <4>1. /\ target' = target /\ created' = created /\ meta' = meta /\ cur' = cur
            /\ pc[w] = "first" /\ pc'[w] = "append" /\ Moves(w, 0) /\ created[l] = cur
        BY <1>t, <2>2, <3>s, <3>8 DEF ShiftFirst, Refused, Moves, VarType, Stamped
      <4>2. /\ file'[l][0] = {}
            /\ \A n \in Files(l) : \E k \in Files(l) : file'[l][n] \subseteq file[l][k]
        BY <1>f, <2>2, <4>1, AfterMove
      <4>3. Stamped(l, pc[w])'
        BY <3>s, <3>c, <3>t, <4>1, <4>2 DEF Stamped, NoFile, Blank, Period, Freq
      <4>4. target'[w] = l /\ pc'[w] \in Working
        BY <2>2, <4>1 DEF Working
      <4> QED
        BY <3>g, <4>3, <4>4
    <3>9. CASE Append(w)
      <4>1. /\ target'[w] # l /\ created' = created /\ meta' = meta /\ now' = now
            /\ pc[w] = "append" /\ pc'[w] = "idle" /\ (file' = file \/ Appends(w))
        BY <1>t, <2>2, <3>9, NoneAssumption DEF Append, Return, Appends, VarType
      <4> DEFINE line == [no |-> count[l] + 1, at |-> cur]
      <4>2. /\ file'[l][0] = file[l][0] \/ file'[l][0] = file[l][0] \cup {line}
            /\ \A n \in Files(l) \ {0} : file'[l][n] = file[l][n]
        BY <1>f, <2>2, <4>1, AfterAppend
      <4>3. /\ Period(l, created[l]) = Period(l, cur) /\ cur <= now /\ now \in Nat
            /\ Period(l, meta[l]) <= Period(l, cur) /\ Period(l, created[l]) <= Period(l, cur)
            /\ Period(l, cur) \in Int
        <5>1. Period(l, created[l]) = Period(l, cur) /\ meta[l] \in Nat
          BY <3>s, <3>c, <4>1 DEF Stamped
        <5>2. cur <= now /\ now \in Nat
          BY <1>t, <2>2, <2>w DEF TimeInv, VarType
        <5>3. Period(l, cur) \in Int
          BY <1>f, <3>c, PeriodMonotone
        <5> QED
          BY <3>c, <3>t, <3>p, <5>1, <5>2, <5>3
      <4>4. ASSUME NEW a \in file'[l][0]
            PROVE  Period(l, a.at) = Period(l, cur) /\ a.at <= now
        <5>1. CASE a \in file[l][0]
          <6>1. a.at \in Nat /\ a.at <= cur /\ Period(l, created[l]) <= Period(l, a.at)
            BY <1>a, <3>s, <4>1, <5>1 DEF Stamped
          <6>2. Period(l, a.at) \in Int /\ Period(l, a.at) <= Period(l, cur)
            BY <1>f, <3>c, <6>1, PeriodMonotone
          <6> QED
            BY <3>c, <4>3, <6>1, <6>2
        <5>2. CASE a = line
          BY <4>3, <5>2
        <5> QED
          BY <4>2, <5>1, <5>2
      <4>5. \A n \in Files(l) : \A a, b \in file'[l][n] : Period(l, a.at) = Period(l, b.at)
        BY <3>s, <4>2, <4>4 DEF Stamped
      <4>6. Stamped(l, "idle")'
        <5>1. meta[l] # NoFile /\ meta[l] # Blank
          BY <3>s, <4>1 DEF Stamped
        <5> HIDE DEF line
        <5> QED
          BY <4>1, <4>3, <4>4, <4>5, <5>1 DEF Stamped, Period, Freq
      <4> QED
        BY <2>v, <2>w, <4>1, <4>6, LetGo
    <3> QED
      BY <1>6, <3>1, <3>2, <3>3, <3>4, <3>5, <3>6, <3>7, <3>8, <3>9, <3>10 DEF Proceed
  <2> QED
    BY <2>1, <2>2
<1> QED
  BY <1>1, <1>2, <1>3, <1>4, <1>5, <1>6 DEF Next

\* No lines, no disorder.
LEMMA InitOrder == Init => OrderInv
BY DEF Init, OrderInv, NumberInv, LinesInOrder

\* Types, and who holds the lock.
THEOREM TypeCorrect == Spec => []RotatingLogTypeOK
<1>1. Spec => []TypeInv
  BY InitTypeInv, TypeNext, PTL DEF Spec
<1>2. TypeInv => RotatingLogTypeOK
  BY DEF TypeInv
<1> QED
  BY <1>1, <1>2, PTL

\* The files of a log hold its lines in the order of the file numbers, through restarts in the
\* middle of a rotation and file operations that are refused (log/private.go:43-64).
THEOREM InOrder == Spec => []LinesInOrder
<1>1. Spec => [](TypeInv /\ OrderInv)
  BY InitTypeInv, TypeNext, InitOrder, OrderNext, PTL DEF Spec
<1>2. OrderInv => LinesInOrder
  BY DEF OrderInv
<1> QED
  BY <1>1, <1>2, PTL

\* Only the oldest lines are lost (log/private.go:36-41), as long as no removal or rename is
\* refused.
THEOREM LosesOldest == Spec => []OnlyOldestDropped
<1>1. Init => OldestInv
  BY DEF Init, OldestInv, FreeInv, OnlyOldestDropped, Kept
<1>2. TypeInv /\ OrderInv /\ OldestInv /\ [Next]_vars => OldestInv'
  BY FreeNext, OldestNext DEF OldestInv
<1>3. Spec => [](TypeInv /\ OrderInv /\ OldestInv)
  BY <1>1, <1>2, InitTypeInv, TypeNext, InitOrder, OrderNext, PTL DEF Spec
<1>4. OldestInv => OnlyOldestDropped
  BY DEF OldestInv
<1> QED
  BY <1>3, <1>4, PTL

\* A file of a log that rotates holds the lines of one period (log/private.go:29-64), but for the
\* stops and refusals that are counted in mixed.
THEOREM OnePeriod == Spec => []OnePeriodPerFile
<1>1. Init => PeriodInv
  <2> SUFFICES ASSUME Init PROVE PeriodInv
    OBVIOUS
  <2>1. TimeInv
    BY ClockAssumption DEF Init, TimeInv, NoFile, Working
  <2>2. ASSUME NEW l \in LogName, Cnt(l) > 0 PROVE StampInv(l)
    BY <2>2, Settle DEF Init, StampInv, Stamped, NoFile, Blank, Working
  <2> QED
    BY <2>1, <2>2 DEF PeriodInv
<1>2. TypeInv /\ PeriodInv /\ [Next]_vars => PeriodInv'
  <2> SUFFICES ASSUME TypeInv, PeriodInv, [Next]_vars PROVE PeriodInv'
    OBVIOUS
  <2>1. TimeInv'
    BY TimeNext DEF PeriodInv
  <2>2. \A l \in LogName \ mixed' : Cnt(l) > 0 /\ Freq(l) > 0 => StampInv(l)'
    BY StampNext
  <2> QED
    BY <2>1, <2>2 DEF PeriodInv, Cnt, Freq
<1>3. Spec => [](TypeInv /\ PeriodInv)
  BY <1>1, <1>2, InitTypeInv, TypeNext, PTL DEF Spec
<1>4. PeriodInv => OnePeriodPerFile
  <2> SUFFICES ASSUME PeriodInv, NEW l \in LogName \ mixed, Cnt(l) > 0, Freq(l) > 0
               PROVE  \A n \in Files(l) : \A a, b \in file[l][n] : Period(l, a.at) = Period(l, b.at)
    BY DEF OnePeriodPerFile
  <2>1. \E point : Stamped(l, point)
    BY DEF PeriodInv, StampInv
  <2> QED
    BY <2>1 DEF Stamped
<1> QED
  BY <1>3, <1>4, PTL
=============================================================================
