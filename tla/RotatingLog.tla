---------------------------- MODULE RotatingLog ----------------------------
(***************************************************************************)
(* The log files of the backend (api/logHandler/handler.go and             *)
(* common/log/log.go, private.go).  Every goroutine of a process writes    *)
(* through one list of log objects under one process-wide lock.  A log     *)
(* with a rotation count keeps the period it was begun in, in memory and   *)
(* in a .meta file; the first write of a later period moves the files      *)
(* name.txt, name.txt.1, ... up by one before it appends.                  *)
(*                                                                         *)
(* Every file operation is a step, so that the process may stop between    *)
(* any two of them.  A line is its place in the order in which the lines   *)
(* of its log were appended, and the time read under the lock: as a file   *)
(* is only ever appended to, a set of lines says what it holds.  A path    *)
(* that does not exist is an empty set, since no empty file is created.    *)
(***************************************************************************)
EXTENDS Integers, FiniteSets

CONSTANTS
    LogName,        \* the names the callers write to
    Config,         \* log.yaml: the settings of every log
    Writer,         \* the goroutines that write
    Levels,         \* the levels they write at
    None,
    StartTime,      \* clock readings are StartTime .. MaxTime
    MaxTime,
    MaxLines,       \* calls begin while a log has fewer lines than this
    MaxCrashes,     \* restarts of the process
    MaxRefusals     \* file operations the system refuses

\* One entry of TMyLog: a section missing from the file leaves its fields zero.
Settings == [level : Int, rotacnt : Nat, rotafreq : Nat]

ASSUME ConfigAssumption == Config \in [LogName -> Settings]
ASSUME ClockAssumption == StartTime \in Nat \ {0} /\ MaxTime \in Nat
ASSUME NoneAssumption == None \notin Writer /\ None \notin LogName
ASSUME BoundsAssumption == MaxLines \in Nat /\ MaxCrashes \in Nat /\ MaxRefusals \in Nat

VARIABLES
    now,        \* the clock
    booted,     \* logHandler.Initialize has been called
    logs,       \* sliceLogObj: the logs it created
    lock,       \* the writer holding lockMutex
    pc, target, \* per writer: the point it has reached, the log it writes to
    cur, i32,   \* of the holder: i64TmCurrent and the loop variable of the rotation
    created,    \* per log object: i64Created
    meta,       \* per log: the content of the .meta file
    file,       \* per log: file[l][0] is name.txt, file[l][n] is name.txt.n
    count,      \* per log: lines appended so far
    mixed,      \* logs for which a stop or a refused rename fell between the two last steps of a
                \* rotation, or a stop or a refusal left no .meta file, an empty one or an unread one
    refused,    \* logs of which a removal or a rename was refused
    crashes, refusals

vars == <<now, booted, logs, lock, pc, target, cur, i32, created, meta, file, count, mixed,
          refused, crashes, refusals>>

NoFile == -1    \* there is no .meta file
Blank == 0      \* it is empty: what it holds converts to 0

Cnt(l) == Config[l].rotacnt
Freq(l) == Config[l].rotafreq
Files(l) == 0 .. Cnt(l)
Line == [no : Nat, at : Nat]

Working == {"created", "fill", "due", "drop", "shift", "first", "append"}

Init ==
    /\ now = StartTime
    /\ booted = FALSE
    /\ logs = {}
    /\ lock = None
    /\ pc = [w \in Writer |-> "idle"]
    /\ target = [w \in Writer |-> None]
    /\ cur = 0 /\ i32 = 0
    /\ created = [l \in LogName |-> 0]
    /\ meta = [l \in LogName |-> NoFile]
    /\ file = [l \in LogName |-> [n \in Files(l) |-> {}]]
    /\ count = [l \in LogName |-> 0]
    /\ mixed = {} /\ refused = {}
    /\ crashes = 0 /\ refusals = 0

------------------------------------------------------------------------------
\* Initialize: a configuration that cannot be read or parsed leaves the list empty, and main goes
\* on without looking at the error.
Initialize ==
    /\ ~booted
    /\ booted' = TRUE
    /\ logs' \in {LogName, {}}
    /\ UNCHANGED <<now, lock, pc, target, cur, i32, created, meta, file, count, mixed, refused,
                   crashes, refusals>>

\* Write of the handler and of the log object up to the lock: a name that _getLog does not find
\* and a level above the log's return at once.
Write(w) ==
    /\ booted
    /\ pc[w] = "idle"
    /\ \E l \in logs, level \in Levels :
         /\ Config[l].level >= level
         /\ count[l] < MaxLines
         /\ target' = [target EXCEPT ![w] = l]
    /\ pc' = [pc EXCEPT ![w] = "wait"]
    /\ UNCHANGED <<now, booted, logs, lock, cur, i32, created, meta, file, count, mixed,
                   refused, crashes, refusals>>

\* The lock is taken, then the clock is read; without a rotation count _tryRotate returns.
Lock(w) ==
    /\ pc[w] = "wait"
    /\ lock = None
    /\ lock' = w
    /\ cur' = now
    /\ pc' = [pc EXCEPT ![w] = IF Cnt(target[w]) = 0 THEN "append" ELSE "created"]
    /\ UNCHANGED <<now, booted, logs, target, i32, created, meta, file, count, mixed, refused,
                   crashes, refusals>>

\* What the system refuses to do with a file is an error, and the code drops every one.
Refuse ==
    /\ refusals < MaxRefusals
    /\ refusals' = refusals + 1

\* i64Created: kept, read from the .meta file, or begun now.  The file is created before it is
\* written; when it cannot be read, the time stays unknown, and is asked for by the next call.
LoadCreatedAnew(w) ==
    /\ pc[w] = "created"
    /\ created' = [created EXCEPT ![target[w]] = IF @ = 0 THEN cur ELSE @]
    /\ pc' = [pc EXCEPT ![w] = "due"]
    /\ UNCHANGED <<now, booted, logs, lock, target, cur, i32, meta, file, count, mixed, refused,
                   crashes, refusals>>

LoadCreated(w) ==
    LET l == target[w]
    IN  /\ pc[w] = "created"
        /\ \/ /\ created[l] # 0
              /\ pc' = [pc EXCEPT ![w] = "due"]
              /\ UNCHANGED <<created, meta>>
           \/ /\ created[l] = 0
              /\ meta[l] # NoFile
              /\ created' = [created EXCEPT ![l] = meta[l]]
              /\ pc' = [pc EXCEPT ![w] = "due"]
              /\ UNCHANGED meta
           \/ /\ created[l] = 0
              /\ meta[l] = NoFile
              /\ created' = [created EXCEPT ![l] = cur]
              /\ meta' = [meta EXCEPT ![l] = Blank]
              /\ pc' = [pc EXCEPT ![w] = "fill"]
        /\ UNCHANGED <<now, booted, logs, lock, target, cur, i32, file, count, mixed, refused,
                       crashes, refusals>>

LoadCreatedRefused(w) ==
    LET l == target[w]
    IN  /\ pc[w] = "created"
        /\ created[l] = 0
        /\ Refuse
        /\ created' = [created EXCEPT ![l] = IF meta[l] = NoFile THEN cur ELSE 0]
        /\ mixed' = mixed \cup {l}
        /\ pc' = [pc EXCEPT ![w] = "due"]
        /\ UNCHANGED <<now, booted, logs, lock, target, cur, i32, meta, file, count, refused,
                       crashes>>

FillMeta(w) ==
    LET l == target[w]
    IN  /\ pc[w] = "fill"
        /\ \/ /\ meta' = [meta EXCEPT ![l] = created[l]]
              /\ UNCHANGED <<mixed, refusals>>
           \/ /\ Refuse
              /\ mixed' = mixed \cup {l}
              /\ UNCHANGED meta
        /\ pc' = [pc EXCEPT ![w] = "due"]
        /\ UNCHANGED <<now, booted, logs, lock, target, cur, i32, created, file, count, refused,
                       crashes>>

\* A period of the log: the times with the same quotient.
Period(l, time) == time \div Freq(l)

\* The log was begun in an earlier period.
Due(l) == Period(l, created[l]) < Period(l, cur)

\* The decision of _tryRotate: 0 means that no creation time is known.
Decide(w) ==
    LET l == target[w]
    IN  /\ pc[w] = "due"
        /\ created[l] = 0 \/ Freq(l) # 0
        /\ pc' = [pc EXCEPT ![w] = IF created[l] # 0 /\ Due(l) THEN "drop" ELSE "append"]
        /\ UNCHANGED <<now, booted, logs, lock, target, cur, i32, created, meta, file, count,
                       mixed, refused, crashes, refusals>>

\* The end of a call: its variables are gone and the deferred Unlock runs.
Return(w) ==
    /\ pc' = [pc EXCEPT ![w] = "idle"]
    /\ target' = [target EXCEPT ![w] = None]
    /\ cur' = 0 /\ i32' = 0
    /\ lock' = None

\* A rotation count without a frequency: the division panics, the deferred Unlock runs, the line
\* is not written and the caller recovers.
Panic(w) ==
    /\ pc[w] = "due"
    /\ created[target[w]] # 0
    /\ Freq(target[w]) = 0
    /\ Return(w)
    /\ UNCHANGED <<now, booted, logs, created, meta, file, count, mixed, refused, crashes,
                   refusals>>

\* File n stays where it is (Rename's error is a TODO in the source) and the rotation goes on.
Refused(l, n) ==
    /\ file[l][n] # {}
    /\ Refuse
    /\ refused' = refused \cup {l}
    /\ UNCHANGED file

\* The rotation: the last file goes first.
DropLast(w) ==
    LET l == target[w]
    IN  /\ pc[w] = "drop"
        /\ \/ /\ file' = [file EXCEPT ![l][Cnt(l)] = {}]
              /\ UNCHANGED <<refused, refusals>>
           \/ Refused(l, Cnt(l))
        /\ i32' = Cnt(l) - 1
        /\ pc' = [pc EXCEPT ![w] = "shift"]
        /\ UNCHANGED <<now, booted, logs, lock, target, cur, created, meta, count, mixed, crashes>>

\* ExistPath and Rename of file n to n + 1: the target is replaced.
MovedByCopy(files, n) ==
    IF files[n] = {} THEN files ELSE [files EXCEPT ![n + 1] = files[n]]

Moved(files, n) ==
    IF files[n] = {} THEN files ELSE [files EXCEPT ![n + 1] = files[n], ![n] = {}]

\* The loop from the top down.
Shift(w) ==
    LET l == target[w]
    IN  /\ pc[w] = "shift"
        /\ i32 > 0
        /\ \/ /\ file' = [file EXCEPT ![l] = Moved(file[l], i32)]
              /\ UNCHANGED <<refused, refusals>>
           \/ Refused(l, i32)
        /\ i32' = i32 - 1
        /\ UNCHANGED <<now, booted, logs, lock, pc, target, cur, created, meta, count, mixed,
                       crashes>>

\* At i32 = 0 the new creation time is stored before the last file is moved; when the system
\* refuses, in memory only.
StampMeta(w) ==
    LET l == target[w]
    IN  /\ pc[w] = "shift"
        /\ i32 = 0
        /\ created' = [created EXCEPT ![l] = cur]
        /\ \/ /\ meta' = [meta EXCEPT ![l] = cur]
              /\ UNCHANGED refusals
           \/ /\ Refuse
              /\ UNCHANGED meta
        /\ pc' = [pc EXCEPT ![w] = "first"]
        /\ UNCHANGED <<now, booted, logs, lock, target, cur, i32, file, count, mixed, refused,
                       crashes>>

ShiftFirst(w) ==
    LET l == target[w]
    IN  /\ pc[w] = "first"
        /\ \/ /\ file' = [file EXCEPT ![l] = Moved(file[l], 0)]
              /\ UNCHANGED <<mixed, refused, refusals>>
           \/ /\ Refused(l, 0)
              /\ mixed' = mixed \cup {l}
        /\ pc' = [pc EXCEPT ![w] = "append"]
        /\ UNCHANGED <<now, booted, logs, lock, target, cur, i32, created, meta, count, crashes>>

AppendTruncates(w) ==
    LET l == target[w]
    IN  /\ pc[w] = "append"
        /\ file' = [file EXCEPT ![l][0] = {[no |-> count[l] + 1, at |-> cur]}]
        /\ count' = [count EXCEPT ![l] = @ + 1]
        /\ Return(w)
        /\ UNCHANGED <<now, booted, logs, created, meta, mixed, refused, crashes, refusals>>

\* A line that the system refuses is lost, and nobody hears of it.
Append(w) ==
    LET l == target[w]
    IN  /\ pc[w] = "append"
        /\ \/ /\ file' = [file EXCEPT ![l][0] = @ \cup {[no |-> count[l] + 1, at |-> cur]}]
              /\ count' = [count EXCEPT ![l] = @ + 1]
              /\ UNCHANGED refusals
           \/ /\ Refuse
              /\ UNCHANGED <<file, count>>
        /\ Return(w)
        /\ UNCHANGED <<now, booted, logs, created, meta, mixed, refused, crashes>>

\* The process stops and is started again: the files are what is left.
Crash ==
    /\ crashes < MaxCrashes
    /\ crashes' = crashes + 1
    /\ mixed' = mixed \cup {target[w] : w \in {v \in Writer : pc[v] \in {"fill", "first"}}}
    /\ booted' = FALSE
    /\ logs' = {}
    /\ lock' = None
    /\ pc' = [w \in Writer |-> "idle"]
    /\ target' = [w \in Writer |-> None]
    /\ cur' = 0 /\ i32' = 0
    /\ created' = [l \in LogName |-> 0]
    /\ UNCHANGED <<now, meta, file, count, refused, refusals>>

Tick ==
    /\ now < MaxTime
    /\ now' = now + 1
    /\ UNCHANGED <<booted, logs, lock, pc, target, cur, i32, created, meta, file, count, mixed,
                   refused, crashes, refusals>>

\* The steps of a call that has begun.
Proceed(w) ==
    \/ Lock(w) \/ LoadCreated(w) \/ LoadCreatedRefused(w) \/ FillMeta(w) \/ Decide(w) \/ Panic(w)
    \/ DropLast(w) \/ Shift(w) \/ StampMeta(w) \/ ShiftFirst(w) \/ Append(w)

Next ==
    \/ Initialize \/ Crash \/ Tick
    \/ \E w \in Writer : Write(w) \/ Proceed(w)

Spec == Init /\ [][Next]_vars

------------------------------------------------------------------------------
\* The types; and lockMutex is held by the one writer that is at work and by nobody else: no way
\* out of Write, the panic of a division by zero included, keeps it.
RotatingLogTypeOK ==
    /\ now \in Nat /\ cur \in Nat /\ i32 \in Nat
    /\ booted \in BOOLEAN
    /\ logs \subseteq LogName
    /\ lock \in Writer \cup {None}
    /\ pc \in [Writer -> {"idle", "wait"} \cup Working]
    /\ target \in [Writer -> LogName \cup {None}]
    /\ created \in [LogName -> Nat]
    /\ meta \in [LogName -> Nat \cup {NoFile}]
    /\ file = [l \in LogName |-> file[l]]
    /\ \A l \in LogName : file[l] \in [Files(l) -> SUBSET Line]
    /\ count \in [LogName -> Nat]
    /\ mixed \subseteq LogName /\ refused \subseteq LogName
    /\ crashes \in Nat /\ refusals \in Nat
    /\ \A w \in Writer : (lock = w) <=> (pc[w] \in Working)

Kept(l) == UNION {file[l][n] : n \in Files(l)}

\* Read from the highest file number down to name.txt, the lines of a log are in the order in which
\* they were appended, wherever the process stopped and whatever the system refused.
LinesInOrder ==
    \A l \in LogName : \A m, n \in Files(l) :
        m < n => \A a \in file[l][m], b \in file[l][n] : b.no < a.no

\* Only the oldest lines of a log are ever dropped: when a line is still there, so is every later
\* one, through rotations cut short and begun anew - as long as no removal or rename was refused,
\* for then the file next to it is replaced.  A line that could not be appended never was one.
OnlyOldestDropped ==
    \A l \in LogName \ refused :
        \A a \in Kept(l) : \A k \in a.no .. count[l] : \E b \in Kept(l) : b.no = k

\* A file of a rotating log holds the lines of one period, so that a file dropped is a period
\* dropped.  It does not when the process stops, or a rename is refused, after the new time is
\* stored and before name.txt is moved; nor when the .meta file is missing, cannot be read, or is
\* left empty: a log with an empty one is never rotated again.  A new time that is stored in memory
\* only does no harm: after a restart the log is rotated once more.
OnePeriodPerFile ==
    \A l \in LogName \ mixed : Cnt(l) > 0 /\ Freq(l) > 0 =>
        \A n \in Files(l) : \A a, b \in file[l][n] : Period(l, a.at) = Period(l, b.at)
=============================================================================
