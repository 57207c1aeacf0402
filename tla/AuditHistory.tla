---------------------------- MODULE AuditHistory ----------------------------
(***************************************************************************)
(* scripts/audit-history.sh: the JSON audit history and the lock file that *)
(* is meant to protect it.  Every command is one operating-system process  *)
(* run as `bash scripts/audit-history.sh <sub-command>`, so `set -e` is in *)
(* force.  A shell test, a jq call, an rm or an mv is one step; a redirect *)
(* that truncates and then writes is two.  Every jq call may fail, and     *)
(* then the script does what stands behind its `||`, or what `set -e` does.*)
(*                                                                         *)
(* Data kept: which audits the file holds, per program and in order, each  *)
(* with its version and its finding ids.  Dropped: timestamps, commit      *)
(* hashes, severity counts, log lines.                                     *)
(***************************************************************************)
EXTENDS Naturals, Sequences

CONSTANTS Proc,         \* processes that run commands
          Program,      \* program ids
          Version,      \* version strings
          IdSets,       \* the finding-id sets an audit may carry
          Forms,        \* what the findings argument may look like
          MvMayFail,    \* TRUE iff the mv of a new history may fail
          LockTimeout,  \* AUDIT_LOCK_TIMEOUT, in one-second sleeps
          MaxCommands,  \* bound: commands started in a behaviour
          MaxCrashes    \* bound: processes killed in a behaviour

ASSUME TimeoutAssumption == LockTimeout \in Nat
ASSUME InputAssumption == /\ {} \in IdSets
                          /\ Forms \subseteq {"value", "invalid", "stream"}
                          /\ MvMayFail \in BOOLEAN
ASSUME BoundsAssumption == MaxCommands \in Nat /\ MaxCrashes \in Nat

VARIABLES
    file,      \* the history file: its state on disk and its audits
    lock,      \* TRUE iff the lock file exists (its text is never read)
    pc,        \* where each process is
    cmd,       \* the command line of each process
    elapsed,   \* _acquire_lock's counter
    tmp,       \* each process's mktemp file
    stale,     \* processes whose open init redirect refers to a replaced file
    rc,        \* the exit status to return, once known
    blind,     \* each process's test of the file that a fallback answered wrongly
    started, crashes    \* counters behind the two bounds

\* History variables, which only the properties read.
VARIABLES
    acked,     \* adds that exited with status 0
    overlap,   \* two processes were between lock and rename
    repeated   \* recorded versions whose test a fallback answered wrongly

locals == <<pc, cmd, elapsed, tmp, rc, blind>>
ghosts == <<started, crashes, acked, overlap, repeated>>
vars == <<file, lock, locals, stale, ghosts>>

-----------------------------------------------------------------------------
Audit == [version : Version, ids : IdSets]

Content == [st : {"absent", "empty", "json"}, audits : [Program -> Seq(Audit)]]

NoAudits == [g \in Program |-> <<>>]
Absent == [st |-> "absent", audits |-> NoAudits]
Empty  == [st |-> "empty",  audits |-> NoAudits]
Fresh  == [st |-> "json",   audits |-> NoAudits]

\* The error codes of the script; `Running` while no status is known.
ERR_NO_HISTORY == 2
ERR_VERSION_NOT_FOUND == 4
ERR_LOCK_TIMEOUT == 6
ERR_JSON_OP == 7
ERR_DIFF_SAME_VERSION == 8
Running == 99
Codes == {0, 1, ERR_NO_HISTORY, ERR_VERSION_NOT_FOUND, ERR_LOCK_TIMEOUT,
          ERR_JSON_OP, ERR_DIFF_SAME_VERSION, Running}

\* What jq exits with, and `set -e` with it, when a call without a fallback
\* fails; its other statuses are treated alike by every caller.
JQ_STATUS == 2

\* form: the findings argument is one JSON value, or does not parse, or is a
\* stream jq accepts but --argjson does not (no value, or more than one);
\* other: diff's second version.
Command == [op : {"add", "init", "get", "diff"}, prog : Program,
            audit : Audit, other : Version, form : Forms]
NoCommand == [op |-> "none"]

\* The command lines there are: an argument a sub-command does not take is fixed.
Unused == [prog |-> CHOOSE g \in Program : TRUE, version |-> CHOOSE v \in Version : TRUE]
CommandLine ==
    {c \in Command : /\ c.op # "diff" => c.other = c.audit.version
                     /\ c.op # "add" => c.form = "value" /\ c.audit.ids = {}
                     /\ c.op = "init" => /\ c.prog = Unused.prog
                                        /\ c.audit.version = Unused.version}

\* Between creating the lock file and renaming the new history into place.
Critical == {"validate", "has_program", "has_version", "append", "insert",
             "rename"}
Labels == Critical \cup {"idle", "add_exists", "init_exists", "init_open",
             "init_write", "lock_test", "lock_create", "release_test",
             "release_rm", "read_exists", "read_first", "read_second"}

HasProgram(c, g) == c.audits[g] # <<>>
HasVersion(c, g, v) ==
    \E i \in DOMAIN c.audits[g] : c.audits[g][i].version = v
Recorded(c) == {x \in Program \X Version : HasVersion(c, x[1], x[2])}

Goto(p, l) == pc' = [pc EXCEPT ![p] = l]

\* The process exits with status k.
Exit(p, k) ==
    /\ Goto(p, "idle")
    /\ rc' = [rc EXCEPT ![p] = k]
    /\ cmd' = [cmd EXCEPT ![p] = NoCommand]
    /\ elapsed' = [elapsed EXCEPT ![p] = 0]
    /\ tmp' = [tmp EXCEPT ![p] = Absent]
    /\ blind' = [blind EXCEPT ![p] = "none"]

Init ==
    /\ file = Absent
    /\ lock = FALSE
    /\ pc = [p \in Proc |-> "idle"]
    /\ cmd = [p \in Proc |-> NoCommand]
    /\ elapsed = [p \in Proc |-> 0]
    /\ tmp = [p \in Proc |-> Absent]
    /\ stale = {}
    /\ rc = [p \in Proc |-> Running]
    /\ blind = [p \in Proc |-> "none"]
    /\ started = 0 /\ crashes = 0
    /\ acked = {} /\ overlap = FALSE /\ repeated = {}

-----------------------------------------------------------------------------
(* Starting a command: argument checks that need no file.                  *)

EntryPoint(op) == CASE op = "add" -> "add_exists"
                    [] op = "init" -> "init_exists"
                    [] OTHER -> "read_exists"

Start(p, c) ==
    /\ pc[p] = "idle" /\ started < MaxCommands
    /\ started' = started + 1
    /\ UNCHANGED <<file, lock, elapsed, tmp, stale, blind, crashes, acked, overlap,
                   repeated>>
    /\ IF c.op = "diff" /\ c.audit.version = c.other
       THEN /\ rc' = [rc EXCEPT ![p] = ERR_DIFF_SAME_VERSION]
            /\ UNCHANGED <<pc, cmd>>
       ELSE /\ Goto(p, EntryPoint(c.op))
            /\ cmd' = [cmd EXCEPT ![p] = c]
            /\ rc' = [rc EXCEPT ![p] = Running]

-----------------------------------------------------------------------------
(* audit_history_init, on its own or from audit_history_add; never locked. *)

AddExists(p) ==
    /\ pc[p] = "add_exists"
    /\ Goto(p, IF file.st = "absent" THEN "init_exists" ELSE "lock_test")
    /\ UNCHANGED <<file, lock, cmd, elapsed, tmp, rc, blind, stale, ghosts>>

\* init returns 0: the command ends, or add goes on to take the lock.
InitReturns(p) ==
    IF cmd[p].op = "init"
    THEN Exit(p, 0)
    ELSE Goto(p, "lock_test") /\ UNCHANGED <<cmd, elapsed, tmp, rc, blind>>

\* Faulty variant: init does not test whether the file exists.
InitExistsUntested(p) ==
    /\ pc[p] = "init_exists"
    /\ Goto(p, "init_open")
    /\ UNCHANGED <<file, lock, cmd, elapsed, tmp, rc, blind, stale, ghosts>>

InitExists(p) ==
    /\ pc[p] = "init_exists"
    /\ IF file.st # "absent"
       THEN InitReturns(p)
       ELSE Goto(p, "init_open") /\ UNCHANGED <<cmd, elapsed, tmp, rc, blind>>
    /\ UNCHANGED <<file, lock, stale, ghosts>>

\* `echo ... > file`: opening the redirect truncates or creates the file ...
InitOpen(p) ==
    /\ pc[p] = "init_open"
    /\ file' = Empty
    /\ Goto(p, "init_write")
    /\ UNCHANGED <<lock, cmd, elapsed, tmp, rc, blind, stale, ghosts>>

\* ... or mkdir or the redirect fails: status 1, and `set -e` ends add too.
InitFails(p) ==
    /\ pc[p] = "init_open"
    /\ Exit(p, 1)
    /\ UNCHANGED <<file, lock, stale, ghosts>>

\* ... then the text is written, to the file that was opened.
InitWrite(p) ==
    /\ pc[p] = "init_write"
    /\ file' = IF p \in stale THEN file ELSE Fresh
    /\ stale' = stale \ {p}
    /\ InitReturns(p)
    /\ UNCHANGED <<lock, ghosts>>

-----------------------------------------------------------------------------
(* _acquire_lock: wait while the file exists, then create it.              *)

\* Faulty variant: the waiting loop has no timeout.
LockTestForever(p) ==
    /\ pc[p] = "lock_test" /\ ~lock
    /\ Goto(p, "lock_create")
    /\ UNCHANGED <<file, lock, cmd, elapsed, tmp, rc, blind, stale, ghosts>>

LockTest(p) ==
    /\ pc[p] = "lock_test"
    /\ \/ /\ ~lock
          /\ Goto(p, "lock_create")
          /\ UNCHANGED <<cmd, elapsed, tmp, rc, blind>>
       \/ /\ lock /\ elapsed[p] < LockTimeout
          /\ elapsed' = [elapsed EXCEPT ![p] = @ + 1]
          /\ UNCHANGED <<pc, cmd, tmp, rc, blind>>
       \/ /\ lock /\ elapsed[p] >= LockTimeout
          /\ Exit(p, ERR_LOCK_TIMEOUT)
    /\ UNCHANGED <<file, lock, stale, ghosts>>

\* The redirect creates the lock file, or truncates one that is there.
LockCreate(p) ==
    /\ pc[p] = "lock_create"
    /\ lock' = TRUE
    /\ Goto(p, "validate")
    /\ overlap' = (overlap \/ \E q \in Proc \ {p} : pc[q] \in Critical)
    /\ UNCHANGED <<file, cmd, elapsed, tmp, rc, blind, stale, started, crashes, acked,
                   repeated>>

\* The lock file cannot be created; audit_history_add reports a timeout.
LockFails(p) ==
    /\ pc[p] = "lock_create"
    /\ Exit(p, ERR_LOCK_TIMEOUT)
    /\ UNCHANGED <<file, lock, stale, ghosts>>

-----------------------------------------------------------------------------
(* audit_history_add's locked part, with _jq_append_audit.                 *)

\* The status is decided; what is left is _release_lock.
ToRelease(p, k) ==
    /\ Goto(p, "release_test")
    /\ rc' = [rc EXCEPT ![p] = k]
    /\ tmp' = [tmp EXCEPT ![p] = Absent]
    /\ blind' = [blind EXCEPT ![p] = "none"]
    /\ UNCHANGED <<cmd, elapsed>>

WithoutIds(c) == [c EXCEPT !.audit = [version |-> c.audit.version, ids |-> {}]]

\* The entry is built, with the finding ids jq finds in the argument; when that
\* jq fails `|| echo '[]'` stands in, and nothing says that the ids are lost.
\* A stream is only usable when all five extractions fail.
Build(p) ==
    /\ Goto(p, "has_program")
    /\ \/ cmd[p].form = "value" /\ UNCHANGED cmd
       \/ cmd' = [cmd EXCEPT ![p] = WithoutIds(@)]
    /\ UNCHANGED <<elapsed, tmp, rc, blind>>

\* Faulty variant: the error return forgets the lock.
ValidateLeaks(p) ==
    /\ pc[p] = "validate"
    /\ (cmd[p].form # "invalid" /\ Build(p)) \/ Exit(p, ERR_JSON_OP)
    /\ UNCHANGED <<file, lock, stale, ghosts>>

\* `jq .` takes the argument, or refuses it, or fails on one it would take.
Validate(p) ==
    /\ pc[p] = "validate"
    /\ (cmd[p].form # "invalid" /\ Build(p)) \/ ToRelease(p, ERR_JSON_OP)
    /\ UNCHANGED <<file, lock, stale, ghosts>>

\* A call without a fallback fails: the date of the timestamp, or the jq -n of
\* the entry, which does not take what was extracted from a stream.  `set -e`
\* ends the process there, the lock file still in place.
BuildFails(p) ==
    /\ pc[p] = "validate"
    /\ Exit(p, JQ_STATUS)
    /\ UNCHANGED <<file, lock, stale, ghosts>>

\* Faulty variant: the program is always taken for a new one.
HasProgramStepNever(p) ==
    /\ pc[p] = "has_program"
    /\ Goto(p, "insert")
    /\ UNCHANGED <<file, lock, cmd, elapsed, tmp, rc, blind, stale, ghosts>>

\* First read of the file.  jq on an empty file prints nothing, which is not
\* "true", so an empty file takes the new-program branch.  When jq fails,
\* `|| echo 'false'` answers: a program that is there is taken for a new one.
HasProgramStep(p) ==
    /\ pc[p] = "has_program"
    /\ \/ /\ Goto(p, IF HasProgram(file, cmd[p].prog) THEN "has_version"
                                                     ELSE "insert")
          /\ UNCHANGED blind
       \/ /\ HasProgram(file, cmd[p].prog)
          /\ Goto(p, "insert")
          /\ blind' = [blind EXCEPT ![p] = "program"]
    /\ UNCHANGED <<file, lock, cmd, elapsed, tmp, rc, stale, ghosts>>

\* Faulty variant: the idempotent guard is missing.
HasVersionStepUnguarded(p) ==
    /\ pc[p] = "has_version"
    /\ Goto(p, "append")
    /\ UNCHANGED <<file, lock, cmd, elapsed, tmp, rc, blind, stale, ghosts>>

\* Second read: the idempotent guard.  When jq fails, `|| echo ''` answers: a
\* version that is there is taken for a new one.
HasVersionStep(p) ==
    /\ pc[p] = "has_version"
    /\ \/ /\ HasVersion(file, cmd[p].prog, cmd[p].audit.version)
          /\ ToRelease(p, 0)
          /\ UNCHANGED repeated
       \/ /\ ~HasVersion(file, cmd[p].prog, cmd[p].audit.version)
          /\ Goto(p, "append")
          /\ UNCHANGED <<cmd, elapsed, tmp, rc, blind, repeated>>
       \/ /\ HasVersion(file, cmd[p].prog, cmd[p].audit.version)
          /\ Goto(p, "append")
          /\ blind' = [blind EXCEPT ![p] = "version"]
          /\ repeated' = repeated \cup {<<cmd[p].prog, cmd[p].audit.version>>}
          /\ UNCHANGED <<cmd, elapsed, tmp, rc>>
    /\ UNCHANGED <<file, lock, stale, started, crashes, acked, overlap>>

\* What the jq filters write to the temporary file.  Without input there is no
\* output: an empty history file stays empty.
Appended(c, g, a) == [c EXCEPT !.audits[g] = Append(@, a)]
Inserted(c, g, a) ==
    IF c.st = "empty" THEN c
    ELSE [st |-> "json", audits |-> [c.audits EXCEPT ![g] = <<a>>]]

\* Third read, program known: `.audits += [$audit]`.
AppendStep(p) ==
    /\ pc[p] = "append"
    /\ tmp' = [tmp EXCEPT ![p] =
                 IF file.st = "empty" THEN file
                 ELSE Appended(file, cmd[p].prog, cmd[p].audit)]
    /\ Goto(p, "rename")
    /\ UNCHANGED <<file, lock, cmd, elapsed, rc, blind, stale, ghosts>>

\* Second read, program unknown: `$p + {(pid): {audits: [$audit]}}`.
InsertStep(p) ==
    /\ pc[p] = "insert"
    /\ tmp' = [tmp EXCEPT ![p] = Inserted(file, cmd[p].prog, cmd[p].audit)]
    /\ Goto(p, "rename")
    /\ UNCHANGED <<file, lock, cmd, elapsed, rc, blind, stale, ghosts>>

\* Faulty variant: a failed jq is reported as success.
AppendFailsSilently(p) ==
    /\ pc[p] \in {"has_program", "append", "insert"}
    /\ ToRelease(p, 0)
    /\ UNCHANGED <<file, lock, stale, ghosts>>

\* mktemp fails, or jq cannot write its output: no temporary file is left and
\* add ends with ERR_JSON_OP.
AppendFails(p) ==
    /\ pc[p] \in {"has_program", "append", "insert"}
    /\ ToRelease(p, ERR_JSON_OP)
    /\ UNCHANGED <<file, lock, stale, ghosts>>

\* What p's rename takes out of the history: every audit of a program that it
\* took for a new one because its jq failed.
Overwritten(p) ==
    IF blind[p] = "program" THEN {cmd[p].prog} \X Version ELSE {}

\* mv: the new file replaces the old one under its name; a redirect that was
\* open on the old one keeps writing to the old one.
Rename(p) ==
    /\ pc[p] = "rename"
    /\ file' = tmp[p]
    /\ stale' = stale \cup {q \in Proc : pc[q] = "init_write"}
    /\ acked' = acked \ Overwritten(p)
    /\ ToRelease(p, 0)
    /\ UNCHANGED <<lock, started, crashes, overlap, repeated>>

\* mv's status is not looked at: `set -e` is off inside `if ! ...`, and the
\* function returns 0.
RenameFails(p) ==
    /\ pc[p] = "rename" /\ MvMayFail
    /\ ToRelease(p, 0)
    /\ UNCHANGED <<file, lock, stale, ghosts>>

-----------------------------------------------------------------------------
(* _release_lock: `[[ -f lock ]] && rm -f lock`.  When another process has *)
(* removed the file the test makes the function fail, and `set -e` ends    *)
(* the command with status 1 whatever it did before.                       *)

ReleaseTest(p) ==
    /\ pc[p] = "release_test"
    /\ IF lock THEN Goto(p, "release_rm") /\ UNCHANGED <<cmd, elapsed, tmp, rc, blind>>
               ELSE Exit(p, 1)
    /\ UNCHANGED <<file, lock, stale, ghosts>>

ReleaseRm(p) ==
    /\ pc[p] = "release_rm"
    /\ lock' = FALSE
    /\ acked' = IF rc[p] = 0 THEN acked \cup {<<cmd[p].prog, cmd[p].audit.version>>}
                             ELSE acked
    /\ Exit(p, rc[p])
    /\ UNCHANGED <<file, stale, started, crashes, overlap, repeated>>

-----------------------------------------------------------------------------
(* audit_history_get and audit_history_diff: no lock, one jq per version.  *)

ReadExists(p) ==
    /\ pc[p] = "read_exists"
    /\ IF file.st = "absent"
       THEN Exit(p, ERR_NO_HISTORY)
       ELSE Goto(p, "read_first") /\ UNCHANGED <<cmd, elapsed, tmp, rc, blind>>
    /\ UNCHANGED <<file, lock, stale, ghosts>>

\* What a reader finds of a version: when jq fails, `|| printf 'null'` answers
\* and the version is reported as not there.
Found(g, v) == {ERR_VERSION_NOT_FOUND} \cup (IF HasVersion(file, g, v) THEN {0} ELSE {})

\* diff reads both versions before it tests either answer; rc keeps the first.
ReadFirst(p) ==
    /\ pc[p] = "read_first"
    /\ \E found \in Found(cmd[p].prog, cmd[p].audit.version) :
          \/ cmd[p].op = "get" /\ Exit(p, found)
          \/ /\ cmd[p].op # "get"
             /\ Goto(p, "read_second")
             /\ rc' = [rc EXCEPT ![p] = found]
             /\ UNCHANGED <<cmd, elapsed, tmp, blind>>
    /\ UNCHANGED <<file, lock, stale, ghosts>>

\* With both audits at hand a jq that extracts a severity count may still fail,
\* which has no fallback.
ReadSecond(p) ==
    /\ pc[p] = "read_second"
    /\ \E found \in Found(cmd[p].prog, cmd[p].other) :
          \/ Exit(p, IF found = 0 THEN rc[p] ELSE found)
          \/ found = 0 /\ rc[p] = 0 /\ Exit(p, JQ_STATUS)
    /\ UNCHANGED <<file, lock, stale, ghosts>>

-----------------------------------------------------------------------------
\* The process is killed: nothing is trapped, so the lock file stays behind.
Crash(p) ==
    /\ pc[p] # "idle" /\ crashes < MaxCrashes
    /\ crashes' = crashes + 1
    /\ stale' = stale \ {p}
    /\ Exit(p, 1)
    /\ UNCHANGED <<file, lock, started, acked, overlap, repeated>>

Step(p) ==
    \/ AddExists(p) \/ InitExists(p) \/ InitOpen(p) \/ InitFails(p) \/ InitWrite(p)
    \/ LockTest(p) \/ LockCreate(p) \/ LockFails(p)
    \/ Validate(p) \/ BuildFails(p) \/ HasProgramStep(p) \/ HasVersionStep(p)
    \/ AppendStep(p) \/ InsertStep(p) \/ AppendFails(p)
    \/ Rename(p) \/ RenameFails(p)
    \/ ReleaseTest(p) \/ ReleaseRm(p)
    \/ ReadExists(p) \/ ReadFirst(p) \/ ReadSecond(p)

ProcNext(p) == Step(p) \/ Crash(p) \/ \E c \in CommandLine : Start(p, c)

Next == \E p \in Proc : ProcNext(p)

\* Commands overlap freely.
Spec == Init /\ [][Next]_vars

\* A process that runs keeps running: the operating system schedules it, and
\* every wait in the script is a bounded sleep.
FairSpec == Spec /\ \A p \in Proc : WF_vars(Step(p))

\* One command at a time, as when a single auditor works through a project.
SeqNext == \E p \in Proc : /\ \A q \in Proc \ {p} : pc[q] = "idle"
                           /\ ProcNext(p)
SeqSpec == Init /\ [][SeqNext]_vars

-----------------------------------------------------------------------------
(* Properties                                                              *)

TypeOK ==
    /\ file \in Content
    /\ lock \in BOOLEAN
    /\ pc \in [Proc -> Labels]
    /\ cmd \in [Proc -> Command \cup {NoCommand}]
    /\ \A p \in Proc : pc[p] # "idle" => cmd[p] \in Command
    /\ elapsed \in [Proc -> 0..LockTimeout]
    /\ tmp \in [Proc -> Content]
    /\ stale \subseteq Proc
    /\ rc \in [Proc -> Codes]
    /\ blind \in [Proc -> {"none", "program", "version"}]
    /\ started \in 0..MaxCommands /\ crashes \in 0..MaxCrashes
    /\ acked \subseteq Program \X Version
    /\ overlap \in BOOLEAN
    /\ repeated \subseteq Program \X Version

\* A version that c records twice is one of R.
Unique(c, R) ==
    \A g \in Program : \A i, j \in DOMAIN c.audits[g] :
        c.audits[g][i].version = c.audits[g][j].version =>
            i = j \/ <<g, c.audits[g][i].version>> \in R
UniqueVersions == Unique(file, repeated)

InCritical(p) == pc[p] \in Critical

\* _acquire_lock calls its redirect "Atomic lock creation": at most one
\* process is between taking the lock and installing the new history.
MutualExclusion == \A p, q \in Proc : InCritical(p) /\ InCritical(q) => p = q

\* _jq_append_audit's "idempotent guard": whatever is killed and however
\* commands overlap outside the locked part, a version of a program is recorded
\* twice only if two processes were in the locked part together, or if the jq
\* that looked for this very version failed while it was there (repeated).
UniqueUnlessOverlap == overlap \/ UniqueVersions

\* mktemp + mv never lose a recorded audit: a step after which an audited
\* version is gone either follows an overlap of two locked parts, or is the
\* truncation in the unlocked audit_history_init, or is the rename of an add
\* whose jq failed to find the program and which replaces its audits only.
LossNeedsRace ==
    [][\/ Recorded(file) \subseteq Recorded(file') \/ overlap
       \/ \E p \in Proc : InitOpen(p)
       \/ \E p \in Proc : /\ Rename(p)
                          /\ Recorded(file) \subseteq Recorded(file') \cup Overwritten(p)]_vars

\* What the decisions of the locked part rest on: as long as two processes
\* were never in it together, what a process read from the file before it
\* chose its jq filter is still true of the file (or was a fallback's answer),
\* and the file it is about to install holds everything the present one does,
\* but what a failed jq makes it overwrite.
ReadsStillHold ==
    \A p \in Proc :
        /\ pc[p] = "insert" =>
              blind[p] = "program" \/ ~HasProgram(file, cmd[p].prog)
        /\ pc[p] = "append" =>
              \/ <<cmd[p].prog, cmd[p].audit.version>> \in repeated
              \/ ~HasVersion(file, cmd[p].prog, cmd[p].audit.version)
        /\ pc[p] = "rename" =>
              /\ Unique(tmp[p], repeated)
              /\ Recorded(file) \subseteq Recorded(tmp[p]) \cup Overwritten(p)

\* The unlocked half of the same argument: a redirect opened by
\* audit_history_init overwrites nothing but an empty file.
InitWritesEmpty ==
    \A p \in Proc : pc[p] = "init_write" /\ p \notin stale => file.audits = NoAudits

LockedInv ==
    /\ ~overlap => MutualExclusion /\ UniqueVersions /\ ReadsStillHold
    /\ InitWritesEmpty

\* "Returns: 0 on success": an add that exited 0 has its version in the file,
\* unless a later add of its program replaced the list (Overwritten).
AckedRecorded == acked \subseteq Recorded(file)

\* With one command at a time, and as long as mv works, an add that exited 0
\* stays recorded, kills and failing jq calls included, until an add of the
\* same program is misled by a failing program test (Rename takes what that
\* replaces out of acked), and except in a file that a killed init left empty.
AckedUnlessEmpty == file.st = "empty" \/ AckedRecorded

\* "Lock timeout in seconds (prevents indefinite blocking)": every command
\* ends, also when a killed process left its lock file behind.
CommandReturns == \A p \in Proc : pc[p] # "idle" ~> pc[p] = "idle"

\* A process in the locked part of audit_history_add removes the lock file, on
\* its error paths too, whatever other processes leave behind meanwhile.  The
\* exceptions are a kill and the calls on whose failure `set -e` ends the
\* process with their own status (BuildFails).
LockFreed ==
    \A p \in Proc :
        (InCritical(p) /\ crashes = 0) ~> (~lock \/ crashes # 0 \/ rc[p] = JQ_STATUS)

\* The tests of the file that went wrong for an add under way.
Failed == {<<blind[p], cmd[p].prog>> : p \in {q \in Proc : blind[q] # "none"}}

\* The abstract history this component promises.
Log == INSTANCE AuditLog WITH log <- file.audits, failed <- Failed

\* One command at a time, the file is a log per program to which audits are
\* appended, every version once but for the faults AuditLog names: SeqSpec
\* implements AuditLog's specification.
ImplementsLog == Log!Spec
=============================================================================
