------------------------------ MODULE AuditLog ------------------------------
(***************************************************************************)
(* The hash-chained audit log of ultranix-mcp (security/audit.rs): one     *)
(* JSONL file per UTC day, chained line by line, rotated when the day      *)
(* changes and pruned by age.                                              *)
(*                                                                         *)
(* record() holds the log's mutex from the day check to the newline, and   *)
(* each system call in it is a step.  An open file follows its inode: a    *)
(* process goes on writing to a file another one has renamed.              *)
(***************************************************************************)
EXTENDS Integers, Sequences, FiniteSets, Functions

CONSTANTS
  Servers,      \* server processes that share the log directory
  Retention,    \* days an archive is kept
  AuditWorlds,  \* for every behaviour, which things may go wrong in it
  MaxDay,       \* bound: the last day of a behaviour
  MaxLines,     \* bound: records attempted
  MaxShifts,    \* bound: times the clock moves to another day
  Absent        \* Option::None

\* A rename, chmod, open, unlink or write fails; "cut": of the two writes
\* writeln! makes, the line and its newline, only the first one happens; "back":
\* the clock is set back over midnight.
AuditFaultKinds == {"rename", "chmod", "open", "prune", "write", "cut", "back"}

\* What the constants are assumed to be.
ConstantsOK ==
  /\ Retention \in Nat /\ MaxDay \in Nat /\ MaxLines \in Nat /\ MaxShifts \in Nat
  /\ AuditWorlds \subseteq SUBSET AuditFaultKinds
  /\ Absent \notin Nat \union {"ok", "fault", "refused"}

ASSUME AuditAssumption == ConstantsOK

VARIABLES
  failing,  \* what may go wrong in this behaviour
  day,      \* the UTC day the clock shows
  shifts,   \* bound: clock moves so far
  disk,     \* inode -> its lines and whether the last one lacks its newline
  live,     \* the inode at audit.jsonl, or Absent
  archives, \* the archives: date and suffix of the name, inode
  log,      \* process -> its Inner (inode, prev_hash, date), and the day and
            \* the number of the record being made
  at,       \* process -> step of the operation that holds the mutex
  answer,   \* process -> how its last record() ended
  made,     \* records attempted so far
  appended, \* history variable: records reported as appended
  latest    \* history variable: the latest day seen

auditVars ==
  <<failing, day, shifts, disk, live, archives, log, at, answer, made, appended, latest>>
worldVars == <<failing, day, shifts, latest>>

-----------------------------------------------------------------------------
(* Lines *)

\* A line is named by what was written on it: one record if all went well,
\* two if the first never got its newline.  Its name is also its hash.
Genesis == <<>>

Empty == [lines |-> <<>>, cut |-> FALSE]

\* verify_chain_at: every line parses and names the one before it.
Verifies(f) ==
  \A k \in DOMAIN f.lines :
    /\ Len(f.lines[k].raw) = 1
    /\ f.lines[k].prev = IF k = 1 THEN Genesis ELSE f.lines[k-1].raw

\* A record lands at the end of the file, after a newline or in the middle of
\* a line that has none.
Written(f, rec) ==
  LET n == Len(f.lines) IN
  [cut |-> TRUE,
   lines |-> IF f.cut
             THEN [f.lines EXCEPT ![n].raw = @ \o rec.raw]
             ELSE Append(f.lines, rec)]

\* last_line_hash: where the chain is resumed.
LastHash(f) == IF f.lines = <<>> THEN Genesis ELSE f.lines[Len(f.lines)].raw

\* first_record_date: the day of the first line, if that line parses.
HeadDate ==
  IF live = Absent \/ disk[live].lines = <<>> THEN Absent
  ELSE LET head == disk[live].lines[1] IN
       IF Len(head.raw) = 1 THEN head.date ELSE Absent

-----------------------------------------------------------------------------
(* Rotation and retention *)

\* MUTANT of Rotated: an archive of the same date is overwritten.
RotatedOver(date) ==
  {a \in archives : a.date # date} \cup {[date |-> date, n |-> 1, ino |-> live]}

\* rotate_file: a name that is taken gets the next free suffix.
Rotated(date) ==
  LET n == CHOOSE k \in 1..(Cardinality(archives) + 1) :
             /\ ~\E a \in archives : a.date = date /\ a.n = k
             /\ \A j \in 1..(k-1) : \E a \in archives : a.date = date /\ a.n = j
  IN archives \cup {[date |-> date, n |-> n, ino |-> live]}

\* prune_archives: what is more than Retention days old goes.
Unexpired(today) == {a \in archives : today - a.date <= Retention}

\* open_append: the file at the path, or a new one.
Opened(p, prev, date) ==
  LET ino == IF live # Absent THEN live ELSE Cardinality(DOMAIN disk) + 1 IN
  /\ live' = ino
  /\ disk' = IF live # Absent THEN disk
             ELSE [i \in DOMAIN disk \cup {ino} |->
                     IF i = ino THEN Empty ELSE disk[i]]
  /\ log' = [log EXCEPT ![p] = [ino |-> ino, prev |-> prev, date |-> date,
                                today |-> date, rec |-> log[p].rec]]

-----------------------------------------------------------------------------
(* Opening *)

MoveTo(p, step) == at' = [at EXCEPT ![p] = step]

\* open: a live file an earlier day left behind is archived first.
OpenRotate(p) ==
  /\ at[p] = "closed"
  /\ HeadDate # Absent /\ HeadDate # day
  /\ archives' = Rotated(HeadDate) /\ live' = Absent
  /\ UNCHANGED <<worldVars, disk, log, at, answer, made, appended>>

ReadyToOpen == HeadDate = Absent \/ HeadDate = day

\* Then old archives go and the chain is resumed where the file ends.
OpenLive(p) ==
  /\ at[p] = "closed" /\ ReadyToOpen
  /\ archives' = Unexpired(day)
  /\ Opened(p, IF live = Absent THEN Genesis ELSE LastHash(disk[live]), day)
  /\ MoveTo(p, "idle")
  /\ UNCHANGED <<worldVars, answer, made, appended>>

-----------------------------------------------------------------------------
(* record *)

EndRecord(p, outcome) ==
  /\ at' = [at EXCEPT ![p] = "idle"]
  /\ answer' = [answer EXCEPT ![p] = outcome]

\* The day is read once per call, under the mutex.
BeginRecord(p) ==
  /\ at[p] = "idle" /\ made < MaxLines
  /\ made' = made + 1
  /\ log' = [log EXCEPT ![p].today = day, ![p].rec = made']
  /\ MoveTo(p, IF day # log[p].date THEN "rotate" ELSE "write")
  /\ UNCHANGED <<worldVars, disk, live, archives, answer, appended>>

\* The finished day is renamed; the rename fails when there is no live file.
Rotate(p) ==
  /\ at[p] = "rotate"
  /\ \/ /\ live = Absent
        /\ EndRecord(p, "refused") /\ UNCHANGED <<live, archives>>
     \/ /\ live # Absent /\ "rename" \in failing
        /\ EndRecord(p, "fault") /\ UNCHANGED <<live, archives>>
     \/ /\ live # Absent
        /\ archives' = Rotated(log[p].date) /\ live' = Absent
        /\ \/ MoveTo(p, "reopen") /\ UNCHANGED answer
           \/ "chmod" \in failing /\ EndRecord(p, "fault")
  /\ UNCHANGED <<worldVars, disk, log, made, appended>>

\* A fresh file and a fresh chain; if the open fails, the log still has the
\* archived file and its day.
Reopen(p) ==
  /\ at[p] = "reopen"
  /\ \/ /\ Opened(p, Genesis, log[p].today)
        /\ MoveTo(p, "prune") /\ UNCHANGED answer
     \/ /\ "open" \in failing
        /\ EndRecord(p, "fault") /\ UNCHANGED <<disk, live, log>>
  /\ UNCHANGED <<worldVars, archives, made, appended>>

\* A failed unlink fails the record that caused the rotation.
Prune(p) ==
  /\ at[p] = "prune"
  /\ \/ /\ archives' = Unexpired(log[p].today)
        /\ MoveTo(p, "write") /\ UNCHANGED answer
     \/ "prune" \in failing /\ EndRecord(p, "fault") /\ UNCHANGED archives
  /\ UNCHANGED <<worldVars, disk, live, log, made, appended>>

\* The line, without its newline.
WriteLine(p) ==
  /\ at[p] = "write"
  /\ \/ /\ disk' = [disk EXCEPT ![log[p].ino] =
                      Written(@, [raw |-> <<log[p].rec>>, prev |-> log[p].prev,
                                 date |-> log[p].today])]
        /\ MoveTo(p, "newline") /\ UNCHANGED answer
     \/ /\ "write" \in failing
        /\ EndRecord(p, "fault") /\ UNCHANGED disk
  /\ UNCHANGED <<worldVars, live, archives, log, made, appended>>

\* The chain moves on only once the newline is out.
WriteNewline(p) ==
  /\ at[p] = "newline"
  /\ \/ /\ disk' = [disk EXCEPT ![log[p].ino].cut = FALSE]
        /\ log' = [log EXCEPT ![p].prev = <<log[p].rec>>]
        /\ appended' = appended \cup {[id |-> log[p].rec, date |-> log[p].today]}
        /\ EndRecord(p, "ok")
     \/ /\ "cut" \in failing
        /\ EndRecord(p, "fault") /\ UNCHANGED <<disk, log, appended>>
  /\ UNCHANGED <<worldVars, live, archives, made>>

-----------------------------------------------------------------------------
(* The world outside *)

NoLog == [ino |-> Absent, prev |-> Genesis, date |-> 0, today |-> 0, rec |-> 0]

\* The process dies and is started again.
Die(p) ==
  /\ at[p] # "closed"
  /\ at[p] = "newline" => "cut" \in failing
  /\ MoveTo(p, "closed")
  /\ log' = [log EXCEPT ![p] = NoLog]
  /\ answer' = [answer EXCEPT ![p] = Absent]
  /\ UNCHANGED <<worldVars, disk, live, archives, made, appended>>

\* The wall clock: midnight passes, or the clock is set back over it.
Shift ==
  /\ shifts < MaxShifts
  /\ \/ day < MaxDay /\ day' = day + 1
     \/ "back" \in failing /\ day > 0 /\ day' = day - 1
  /\ latest' = IF day' > latest THEN day' ELSE latest
  /\ shifts' = shifts + 1
  /\ UNCHANGED <<failing, disk, live, archives, log, at, answer, made, appended>>

AuditInit ==
  /\ failing \in AuditWorlds
  /\ day = 0 /\ latest = 0 /\ shifts = 0
  /\ disk = <<>> /\ live = Absent /\ archives = {}
  /\ log = [p \in Servers |-> NoLog]
  /\ at = [p \in Servers |-> "closed"]
  /\ answer = [p \in Servers |-> Absent]
  /\ made = 0 /\ appended = {}

AuditStep(p) ==
  \/ OpenRotate(p) \/ OpenLive(p)
  \/ BeginRecord(p) \/ Rotate(p) \/ Reopen(p) \/ Prune(p)
  \/ WriteLine(p) \/ WriteNewline(p) \/ Die(p)

AuditNext == (\E p \in Servers : AuditStep(p)) \/ Shift

AuditSpec == AuditInit /\ [][AuditNext]_auditVars

-----------------------------------------------------------------------------
(* Properties *)

Named == {a.ino : a \in archives} \cup ({live} \ {Absent})

\* "Every file is self-verifying" (audit.rs 19-21): the chain of the live file
\* and of every archive checks out, across rotations, failures and restarts.
FilesVerify == \A i \in Named : Verifies(disk[i])

\* The same where no line is cut short of its newline; and "each file holds
\* exactly one UTC day" (audit.rs 183-184), the day an archive is named after,
\* even when the clock is set back over midnight.
WholeFilesVerify == "cut" \notin failing =>
  /\ FilesVerify
  /\ \A i \in Named, j, k \in 1..MaxLines :
       {j, k} \subseteq DOMAIN disk[i].lines =>
         disk[i].lines[j].date = disk[i].lines[k].date
  /\ \A a \in archives, k \in 1..MaxLines :
       k \in DOMAIN disk[a.ino].lines => disk[a.ino].lines[k].date = a.date

\* A record reported as appended is in the live file or an archive until it is
\* more than Retention days old, whatever is renamed or pruned ("the archive is
\* never overwritten", audit.rs 500-502), and no archive outlives the window
\* once a record of the day is in, unless one could not be deleted.  A file
\* whose first line is cut has no date, and one more move of a clock that runs
\* backwards can misfile it.
AckedKept ==
  /\ ~({"cut", "back"} \subseteq failing) =>
       \A r \in appended : latest - r.date <= Retention =>
         \E i \in Named : \E k \in DOMAIN disk[i].lines :
           r.id \in Range(disk[i].lines[k].raw)
  /\ "prune" \notin failing =>
       \A p \in Servers, a \in archives :
         at[p] = "idle" => log[p].date - a.date <= Retention

\* "Every tool invocation, accepted or rejected, is appended" (audit.rs 4-5):
\* no record is refused for the state an earlier call left behind.
NeverRefused == \A p \in Servers : answer[p] # "refused"

\* The same where every rotation that renames the log goes on to open a new one.
RotationRecovers == failing \cap {"chmod", "open"} = {} => NeverRefused

\* The three together: what the log names verifies and is of its day, what was
\* reported as appended stays there for the time it is to be kept, and a rotation
\* that failed half-way stops none of it.
AuditKept == WholeFilesVerify /\ AckedKept /\ RotationRecovers
=============================================================================
