--------------------------- MODULE FileReplacement --------------------------
(***************************************************************************)
(* Replacing several files so that either all of them change or none       *)
(* (replaceFilesAtomically in src/file-transaction.ts).  New contents are  *)
(* staged beside the targets; then each original is moved aside and the    *)
(* new contents are moved into its place; a failure moves everything back. *)
(*                                                                         *)
(* One action is one operation on the disk.  An operation may fail with or *)
(* without having had its effect, and a look at a file may fail, which the *)
(* code reads as "it is there".  The process may end at any step.          *)
(***************************************************************************)
EXTENDS Naturals, FiniteSets

CONSTANTS
  N,           \* the number of files, replaced in the order 1..N
  MaxFaults

FileReplacementAssumption == N \in Nat \ {0} /\ MaxFaults \in Nat

VARIABLES
  target, temp, backup,   \* per file: what is on the disk
  original,               \* per file: what its target was at first
  had, moved, mayExist,   \* per file: hadOriginal, originalMoved, replacementMayExist
  pc, at,                 \* the step and the file it is about
  entries,                \* the files that were turned to
  failures,               \* the files named in the report
  report, faults

disk == <<target, temp, backup>>
notes == <<had, moved, mayExist>>
vars == <<disk, original, notes, pc, at, entries, failures, report, faults>>

Files == 1..N
Ends == {"reported", "crashed"}
Reports == {"none", "success", "complete", "incomplete", "committed"}

\* What a step costs in faults.
Costs(n) == faults + n <= MaxFaults /\ faults' = faults + n

\* The answers of a look at a file, each with the faults it takes.
Looks(there) == {<<there, 0>>, <<TRUE, 1>>}

Goes(step, i) == pc' = step /\ at' = i
\* The loop goes on with the next file, or with another step after the last one.
Loops(step, last, after) == IF at = last THEN Goes(after, 1) ELSE Goes(step, at + 1)

MovesBack == Goes("restore", 1)

-----------------------------------------------------------------------------
(* Staging *)

Stat ==
  /\ pc = "stat" /\ entries' = at
  /\ \/ /\ had' = [had EXCEPT ![at] = target[at] # "none"] /\ Goes("write", at) /\ Costs(0)
     \/ MovesBack /\ Costs(1) /\ UNCHANGED had
  /\ UNCHANGED <<disk, original, moved, mayExist, failures, report>>

Write ==
  /\ pc = "write"
  /\ \/ temp' = [temp EXCEPT ![at] = "new"] /\ Loops("stat", N, "backup") /\ Costs(0)
     \/ temp' \in {temp, [temp EXCEPT ![at] = "new"]} /\ MovesBack /\ Costs(1)
  /\ UNCHANGED <<target, backup, original, notes, entries, failures, report>>

-----------------------------------------------------------------------------
(* Committing *)

MoveAside == target' = [target EXCEPT ![at] = "none"] /\ backup' = [backup EXCEPT ![at] = target[at]]

Backup ==
  /\ pc = "backup"
  /\ \/ ~had[at] /\ Goes("replace", at) /\ Costs(0) /\ UNCHANGED <<target, backup, moved>>
     \/ /\ had[at] /\ MoveAside /\ moved' = [moved EXCEPT ![at] = TRUE]
        /\ Goes("replace", at) /\ Costs(0)
     \/ /\ had[at] /\ (MoveAside \/ UNCHANGED <<target, backup>>) /\ MovesBack /\ Costs(1)
        /\ UNCHANGED moved
  /\ UNCHANGED <<temp, original, had, mayExist, entries, failures, report>>

MoveIn == target' = [target EXCEPT ![at] = "new"] /\ temp' = [temp EXCEPT ![at] = "none"]

Replace ==
  /\ pc = "replace" /\ mayExist' = [mayExist EXCEPT ![at] = TRUE]
  /\ \/ MoveIn /\ Loops("backup", N, "untemp") /\ Costs(0)
     \/ (MoveIn \/ UNCHANGED <<target, temp>>) /\ MovesBack /\ Costs(1)
  /\ UNCHANGED <<backup, original, had, moved, entries, failures, report>>

-----------------------------------------------------------------------------
(* Moving everything back *)

Names(p, bad) == failures' = IF bad THEN failures \union {p} ELSE failures

NextBack == Loops("restore", entries, "retemp")

PutBack == target' = [target EXCEPT ![at] = backup[at]] /\ backup' = [backup EXCEPT ![at] = "none"]

\* Mutant: a backup is looked for only if its move was seen to succeed.
RestoreMoved ==
  /\ pc = "restore" /\ had[at]
  /\ \/ /\ ~moved[at] /\ Costs(0) /\ UNCHANGED <<target, backup, moved, failures>>
     \/ /\ moved[at] /\ PutBack /\ moved' = [moved EXCEPT ![at] = FALSE] /\ Costs(0)
        /\ UNCHANGED failures
  /\ NextBack
  /\ UNCHANGED <<temp, original, had, mayExist, entries, report>>

\* The backup is moved back if there is one; after an error the code looks what became of it.
Restore ==
  /\ pc = "restore" /\ had[at]
  /\ \E exists \in Looks(backup[at] # "none") :
       \/ /\ ~exists[1] /\ Costs(exists[2])
          /\ Names(at, moved[at]) /\ UNCHANGED <<target, backup, moved>>
       \/ /\ exists[1] /\ backup[at] # "none" /\ Costs(exists[2])
          /\ PutBack /\ moved' = [moved EXCEPT ![at] = FALSE] /\ UNCHANGED failures
       \/ /\ exists[1] /\ ((backup[at] # "none" /\ PutBack) \/ UNCHANGED <<target, backup>>)
          /\ \E remains \in Looks(backup'[at] # "none"), present \in Looks(target'[at] # "none") :
               LET back == ~remains[1] /\ present[1] IN
               /\ Costs(1 + remains[2] + present[2])
               /\ Names(at, ~back) /\ moved' = [moved EXCEPT ![at] = @ /\ ~back]
  /\ NextBack
  /\ UNCHANGED <<temp, original, had, mayExist, entries, report>>

TakeOut == target' = [target EXCEPT ![at] = "none"]

\* A file that was not there before is removed if it may have been put there.
RemoveNew ==
  /\ pc = "restore" /\ ~had[at]
  /\ \/ ~mayExist[at] /\ Costs(0) /\ UNCHANGED <<target, mayExist, failures>>
     \/ /\ mayExist[at] /\ TakeOut /\ mayExist' = [mayExist EXCEPT ![at] = FALSE] /\ Costs(0)
        /\ UNCHANGED failures
     \/ /\ mayExist[at] /\ (TakeOut \/ UNCHANGED target)
        /\ \E there \in Looks(target'[at] # "none") :
             /\ Costs(1 + there[2]) /\ Names(at, there[1])
             /\ mayExist' = [mayExist EXCEPT ![at] = there[1]]
  /\ NextBack
  /\ UNCHANGED <<temp, backup, original, had, moved, entries, report>>

\* An artifact is removed; after an error the code looks whether it is still there.
Removes(f, now) ==
  \/ now = [f EXCEPT ![at] = "none"] /\ Costs(0) /\ UNCHANGED failures
  \/ /\ now \in {f, [f EXCEPT ![at] = "none"]}
     /\ \E there \in Looks(now[at] # "none") : Costs(1 + there[2]) /\ Names(at, there[1])

RemoveTemp ==
  /\ pc = "retemp" /\ Removes(temp, temp') /\ Loops("retemp", entries, "report")
  /\ UNCHANGED <<target, backup, original, notes, entries, report>>

-----------------------------------------------------------------------------
(* Cleaning up after the commit, and the answer *)

CleanTemp ==
  /\ pc = "untemp" /\ Removes(temp, temp') /\ Goes("unbackup", at)
  /\ UNCHANGED <<target, backup, original, notes, entries, report>>

CleanBackup ==
  /\ pc = "unbackup" /\ Removes(backup, backup') /\ Loops("untemp", N, "answer")
  /\ UNCHANGED <<target, temp, original, notes, entries, report>>

Answer ==
  /\ pc \in {"report", "answer"} /\ Goes("reported", 1)
  /\ report' = CASE pc = "answer" /\ failures = {} -> "success"
                 [] pc = "answer" /\ failures # {} -> "committed"
                 [] pc = "report" /\ failures = {} -> "complete"
                 [] OTHER -> "incomplete"
  /\ UNCHANGED <<disk, original, notes, entries, failures, faults>>

Crash ==
  /\ pc \notin Ends /\ Goes("crashed", at)
  /\ UNCHANGED <<disk, original, notes, entries, failures, report, faults>>

-----------------------------------------------------------------------------
Init ==
  /\ original \in [Files -> {"none", "old"}]
  /\ target = original /\ temp = [p \in Files |-> "none"] /\ backup = temp
  /\ had = [p \in Files |-> FALSE] /\ moved = had /\ mayExist = had
  /\ pc = "stat" /\ at = 1 /\ entries = 0 /\ failures = {} /\ report = "none" /\ faults = 0

Next ==
  \/ Stat \/ Write \/ Backup \/ Replace \/ Restore \/ RemoveNew \/ RemoveTemp
  \/ CleanTemp \/ CleanBackup \/ Answer \/ Crash

Spec == Init /\ [][Next]_vars

-----------------------------------------------------------------------------
TypeOK ==
  /\ target \in [Files -> {"none", "old", "new"}]
  /\ temp \in [Files -> {"none", "new"}] /\ backup \in [Files -> {"none", "old"}]
  /\ {had, moved, mayExist} \subseteq [Files -> BOOLEAN]
  /\ at \in Files /\ entries \in 0..N /\ failures \subseteq Files
  /\ report \in Reports /\ faults \in 0..MaxFaults

Clean(p) == temp[p] = "none" /\ backup[p] = "none"
AllNew == \A p \in Files : target[p] = "new"
Restored == target = original

\* At every step, so after a crash as well, either all files are new or every original can
\* still be found: in its place or in its backup.
Recoverable ==
  AllNew \/ \A p \in Files : original[p] = "old" => "old" \in {target[p], backup[p]}

\* The report is true: files and artifacts are in the state that it says, whatever operations
\* failed, with or without their effect.
ReportIsTrue ==
  /\ report = "success" => AllNew /\ \A p \in Files : Clean(p)
  /\ report = "committed" => AllNew
  /\ report = "complete" => Restored /\ \A p \in Files : Clean(p)

\* Every file that is not as it was, or has artifacts left, is named.
LeftoversAreNamed ==
  report \in {"incomplete", "committed"} =>
    \A p \in Files \ failures : Clean(p) /\ target[p] = IF report = "committed" THEN "new" ELSE original[p]
=============================================================================
