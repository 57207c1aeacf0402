------------------------- MODULE AuditHistoryProofs -------------------------
(***************************************************************************)
(* Proofs about AuditHistory: for any number of processes, programs and    *)
(* versions and any number of kills and failing jq calls, the typing       *)
(* invariant, the idempotent guard and the absence of silent loss outside  *)
(* overlapping locked parts and misread files, and, with one command at a  *)
(* time, the implementation of AuditLog and the fate of acknowledged adds. *)
(***************************************************************************)
EXTENDS AuditHistory, TLAPS

USE TimeoutAssumption, InputAssumption, BoundsAssumption

-----------------------------------------------------------------------------
(* Facts about the contents of the history file.                           *)

\* The three contents the script writes without reading are histories.
LEMMA ContentTypes == /\ Absent \in Content
                      /\ Empty \in Content
                      /\ Fresh \in Content
BY DEF Absent, Empty, Fresh, Content, NoAudits

\* The jq filters of _jq_append_audit turn a history into a history.
LEMMA FilterTypes ==
    ASSUME NEW c \in Content, NEW g \in Program, NEW a \in Audit
    PROVE  /\ Appended(c, g, a) \in Content
           /\ Inserted(c, g, a) \in Content
<1>1. Append(c.audits[g], a) \in Seq(Audit)
  BY DEF Content
<1>2. <<a>> \in Seq(Audit)
  OBVIOUS
<1> QED
  BY <1>1, <1>2 DEF Appended, Inserted, Content

\* Leaving a command (normally or not) keeps the process-local typing.
LEMMA ExitTypes ==
    ASSUME TypeOK, NEW p \in Proc, NEW k \in Codes, Exit(p, k)
    PROVE  /\ pc' \in [Proc -> Labels]
           /\ cmd' \in [Proc -> Command \cup {NoCommand}]
           /\ \A q \in Proc : pc'[q] # "idle" => cmd'[q] \in Command
           /\ elapsed' \in [Proc -> 0..LockTimeout]
           /\ tmp' \in [Proc -> Content]
           /\ rc' \in [Proc -> Codes]
           /\ blind' \in [Proc -> {"none", "program", "version"}]
BY ContentTypes DEF TypeOK, Exit, Goto, Labels

\* So does turning to _release_lock.
LEMMA ReleaseTypes ==
    ASSUME TypeOK, NEW p \in Proc, NEW k \in Codes, ToRelease(p, k),
           pc[p] # "idle"
    PROVE  /\ pc' \in [Proc -> Labels]
           /\ cmd' \in [Proc -> Command \cup {NoCommand}]
           /\ \A q \in Proc : pc'[q] # "idle" => cmd'[q] \in Command
           /\ elapsed' \in [Proc -> 0..LockTimeout]
           /\ tmp' \in [Proc -> Content]
           /\ rc' \in [Proc -> Codes]
           /\ blind' \in [Proc -> {"none", "program", "version"}]
BY ContentTypes DEF TypeOK, ToRelease, Goto, Labels

\* Moving on inside a command only changes the label.
LEMMA GotoTypes ==
    ASSUME TypeOK, NEW p \in Proc, NEW l \in Labels, Goto(p, l), pc[p] # "idle",
           UNCHANGED cmd
    PROVE  /\ pc' \in [Proc -> Labels]
           /\ cmd' \in [Proc -> Command \cup {NoCommand}]
           /\ \A q \in Proc : pc'[q] # "idle" => cmd'[q] \in Command
BY DEF TypeOK, Goto

LEMMA CodesNumeric == /\ 0 \in Codes /\ 1 \in Codes /\ JQ_STATUS \in Codes
                      /\ ERR_NO_HISTORY \in Codes
                      /\ ERR_VERSION_NOT_FOUND \in Codes
                      /\ ERR_LOCK_TIMEOUT \in Codes
                      /\ ERR_JSON_OP \in Codes
                      /\ ERR_DIFF_SAME_VERSION \in Codes
                      /\ Running \in Codes
BY DEF Codes, ERR_NO_HISTORY, ERR_VERSION_NOT_FOUND, ERR_LOCK_TIMEOUT,
       ERR_JSON_OP, ERR_DIFF_SAME_VERSION, Running, JQ_STATUS

\* Building the entry keeps the types: at worst the finding ids are lost.
LEMMA BuildTypes ==
    ASSUME TypeOK, NEW p \in Proc, pc[p] = "validate", Build(p)
    PROVE  /\ pc' \in [Proc -> Labels]
           /\ cmd' \in [Proc -> Command \cup {NoCommand}]
           /\ \A q \in Proc : pc'[q] # "idle" => cmd'[q] \in Command
<1>1. cmd[p] \in Command
  BY DEF TypeOK
<1>2. WithoutIds(cmd[p]) \in Command
  BY <1>1 DEF Command, Audit, WithoutIds
<1>3. cmd' \in [Proc -> Command \cup {NoCommand}] /\ cmd'[p] \in Command
  BY <1>1, <1>2 DEF Build, TypeOK
<1>4. \A q \in Proc : q # p => cmd'[q] = cmd[q] /\ pc'[q] = pc[q]
  BY DEF Build, Goto, TypeOK
<1>5. pc' \in [Proc -> Labels]
  BY DEF Build, Goto, TypeOK, Labels, Critical
<1> QED
  BY <1>3, <1>4, <1>5 DEF TypeOK

-----------------------------------------------------------------------------
(* Typing                                                                  *)

LEMMA StartTyping ==
    ASSUME TypeOK, NEW p \in Proc, NEW c \in Command, Start(p, c)
    PROVE  TypeOK'
<1>1. EntryPoint(c.op) \in Labels
  BY DEF EntryPoint, Labels, Critical
<1>2. started' \in 0..MaxCommands
  BY DEF TypeOK, Start
<1>3. CASE c.op = "diff" /\ c.audit.version = c.other
  BY <1>2, <1>3, CodesNumeric DEF TypeOK, Start
<1>4. CASE ~(c.op = "diff" /\ c.audit.version = c.other)
  <2>1. pc' \in [Proc -> Labels] /\ rc' \in [Proc -> Codes]
    BY <1>1, <1>4, CodesNumeric DEF TypeOK, Start, Goto
  <2>2. /\ cmd' \in [Proc -> Command \cup {NoCommand}]
        /\ \A q \in Proc : pc'[q] # "idle" => cmd'[q] \in Command
    BY <1>4 DEF TypeOK, Start, Goto
  <2> QED
    BY <1>2, <2>1, <2>2, <1>4 DEF TypeOK, Start
<1> QED
  BY <1>3, <1>4

\* Every step of a running command keeps the types.
LEMMA StepTyping ==
    ASSUME TypeOK, NEW p \in Proc, Step(p)
    PROVE  TypeOK'
<1> USE CodesNumeric
<1>a. pc[p] # "idle"
  BY DEF TypeOK, Step, AddExists, InitExists, InitOpen, InitFails, InitWrite,
         LockTest, LockCreate, LockFails, Validate, BuildFails, HasProgramStep,
         HasVersionStep, AppendStep, InsertStep, AppendFails, Rename, RenameFails,
         ReleaseTest, ReleaseRm, ReadExists, ReadFirst, ReadSecond
<1>b. cmd[p] \in Command
  BY <1>a DEF TypeOK
<1>c. /\ cmd[p].prog \in Program
      /\ cmd[p].audit \in Audit
      /\ cmd[p].audit.version \in Version
  BY <1>b DEF Command, Audit
<1>1. CASE AddExists(p)
  BY <1>1, <1>a, GotoTypes DEF AddExists, TypeOK, Labels, ghosts
<1>2. CASE InitExists(p)
  BY <1>2, <1>a, GotoTypes, ExitTypes DEF InitExists, InitReturns, TypeOK, Labels, ghosts
<1>3. CASE InitOpen(p)
  BY <1>3, <1>a, GotoTypes, ContentTypes DEF InitOpen, TypeOK, Labels, ghosts
<1>4. CASE InitFails(p)
  BY <1>4, ExitTypes DEF InitFails, TypeOK, ghosts
<1>5. CASE InitWrite(p)
  BY <1>5, <1>a, GotoTypes, ExitTypes, ContentTypes
     DEF InitWrite, InitReturns, TypeOK, Labels, ghosts
<1>6. CASE LockTest(p)
  <2>1. CASE ~lock
    BY <1>6, <2>1, <1>a, GotoTypes DEF LockTest, TypeOK, Labels, ghosts
  <2>2. CASE lock /\ elapsed[p] < LockTimeout
    BY <1>6, <2>2, <1>a DEF LockTest, TypeOK, ghosts
  <2>3. CASE lock /\ elapsed[p] >= LockTimeout
    BY <1>6, <2>3, ExitTypes DEF LockTest, TypeOK, ghosts
  <2> QED
    BY <2>1, <2>2, <2>3 DEF TypeOK
<1>7. CASE LockCreate(p)
  BY <1>7, <1>a, GotoTypes DEF LockCreate, TypeOK, Labels, Critical
<1>8. CASE LockFails(p)
  BY <1>8, ExitTypes DEF LockFails, TypeOK, ghosts
<1>9. CASE Validate(p)
  <2>1. CASE Build(p)
    BY <1>9, <2>1, BuildTypes DEF Validate, Build, TypeOK, ghosts
  <2>2. CASE ToRelease(p, ERR_JSON_OP)
    BY <1>9, <2>2, <1>a, ReleaseTypes DEF Validate, TypeOK, ghosts
  <2> QED
    BY <1>9, <2>1, <2>2 DEF Validate
<1>10. CASE BuildFails(p)
  BY <1>10, ExitTypes DEF BuildFails, TypeOK, ghosts
<1>11. CASE HasProgramStep(p)
  BY <1>11, <1>a, GotoTypes DEF HasProgramStep, TypeOK, Labels, Critical, ghosts
<1>12. CASE HasVersionStep(p)
  <2>1. repeated' \subseteq Program \X Version
    BY <1>12, <1>c DEF HasVersionStep, TypeOK
  <2>2. CASE ToRelease(p, 0)
    BY <1>12, <1>a, <2>1, <2>2, ReleaseTypes DEF HasVersionStep, TypeOK
  <2>3. CASE Goto(p, "append")
    <3>1. "append" \in Labels /\ UNCHANGED <<cmd, elapsed, tmp, rc>>
      BY <1>12, <2>3 DEF HasVersionStep, Labels, Critical, ToRelease, Goto, TypeOK
    <3>2. blind' \in [Proc -> {"none", "program", "version"}]
      BY <1>12, <2>3 DEF HasVersionStep, ToRelease, TypeOK
    <3> QED
      BY <1>12, <1>a, <2>1, <2>3, <3>1, <3>2, GotoTypes DEF HasVersionStep, TypeOK
  <2> QED
    BY <1>12, <2>2, <2>3 DEF HasVersionStep
<1>13. CASE AppendStep(p)
  <2>1. tmp' \in [Proc -> Content]
    BY <1>13, <1>c, FilterTypes DEF AppendStep, TypeOK
  <2> QED
    BY <1>13, <1>a, <2>1, GotoTypes DEF AppendStep, TypeOK, Labels, Critical, ghosts
<1>14. CASE InsertStep(p)
  <2>1. tmp' \in [Proc -> Content]
    BY <1>14, <1>c, FilterTypes DEF InsertStep, TypeOK
  <2> QED
    BY <1>14, <1>a, <2>1, GotoTypes DEF InsertStep, TypeOK, Labels, Critical, ghosts
<1>15. CASE AppendFails(p)
  BY <1>15, <1>a, ReleaseTypes DEF AppendFails, TypeOK, ghosts
<1>16. CASE Rename(p)
  <2>1. /\ file' \in Content /\ stale' \subseteq Proc
        /\ acked' \subseteq Program \X Version
    BY <1>16 DEF Rename, TypeOK
  <2> QED
    BY <1>16, <1>a, <2>1, ReleaseTypes DEF Rename, TypeOK
<1>17. CASE RenameFails(p)
  BY <1>17, <1>a, ReleaseTypes DEF RenameFails, TypeOK, ghosts
<1>18. CASE ReleaseTest(p)
  BY <1>18, <1>a, GotoTypes, ExitTypes DEF ReleaseTest, TypeOK, Labels, ghosts
<1>19. CASE ReleaseRm(p)
  <2>1. rc[p] \in Codes
    BY DEF TypeOK
  <2>2. acked' \subseteq Program \X Version
    BY <1>19, <1>c DEF ReleaseRm, TypeOK
  <2> QED
    BY <1>19, <2>1, <2>2, ExitTypes DEF ReleaseRm, TypeOK
<1>20. CASE ReadExists(p)
  BY <1>20, <1>a, GotoTypes, ExitTypes DEF ReadExists, TypeOK, Labels, ghosts
<1>21. CASE ReadFirst(p)
  <2>1. PICK found \in Found(cmd[p].prog, cmd[p].audit.version) :
          \/ cmd[p].op = "get" /\ Exit(p, found)
          \/ /\ cmd[p].op # "get"
             /\ Goto(p, "read_second")
             /\ rc' = [rc EXCEPT ![p] = found]
             /\ UNCHANGED <<cmd, elapsed, tmp, blind>>
    BY <1>21 DEF ReadFirst
  <2>2. found \in Codes
    BY DEF Found
  <2>3. CASE cmd[p].op = "get"
    BY <1>21, <2>1, <2>2, <2>3, ExitTypes DEF ReadFirst, TypeOK, ghosts
  <2>4. CASE cmd[p].op # "get"
    BY <1>21, <1>a, <2>1, <2>2, <2>4, GotoTypes DEF ReadFirst, TypeOK, Labels, ghosts
  <2> QED
    BY <2>3, <2>4
<1>22. CASE ReadSecond(p)
  <2>1. PICK k \in Codes : Exit(p, k)
    <3>1. rc[p] \in Codes
      BY DEF TypeOK
    <3> QED
      BY <1>22, <3>1 DEF ReadSecond, Found
  <2> QED
    BY <1>22, <2>1, ExitTypes DEF ReadSecond, TypeOK, ghosts
<1> QED
  BY <1>1, <1>2, <1>3, <1>4, <1>5, <1>6, <1>7, <1>8, <1>9, <1>10, <1>11, <1>12,
     <1>13, <1>14, <1>15, <1>16, <1>17, <1>18, <1>19, <1>20, <1>21, <1>22 DEF Step

LEMMA CrashTyping ==
    ASSUME TypeOK, NEW p \in Proc, Crash(p)
    PROVE  TypeOK'
BY CodesNumeric, ExitTypes DEF Crash, TypeOK

LEMMA NextTyping ==
    ASSUME TypeOK, [Next]_vars
    PROVE  TypeOK'
<1>1. CASE Next
  <2>1. PICK p \in Proc : ProcNext(p)
    BY <1>1 DEF Next
  <2> QED
    BY <2>1, StepTyping, CrashTyping, StartTyping DEF ProcNext, CommandLine
<1>2. CASE UNCHANGED vars
  BY <1>2 DEF TypeOK, vars, locals, ghosts
<1> QED
  BY <1>1, <1>2

LEMMA InitTyping == Init => TypeOK
<1> SUFFICES ASSUME Init PROVE TypeOK
  OBVIOUS
<1>1. /\ pc \in [Proc -> Labels] /\ tmp \in [Proc -> Content]
      /\ rc \in [Proc -> Codes] /\ elapsed \in [Proc -> 0..LockTimeout]
  BY ContentTypes, CodesNumeric DEF Init, Labels
<1>2. /\ cmd \in [Proc -> Command \cup {NoCommand}]
      /\ \A p \in Proc : pc[p] # "idle" => cmd[p] \in Command
  BY DEF Init
<1>3. started \in 0..MaxCommands /\ crashes \in 0..MaxCrashes
  BY DEF Init
<1>4. /\ file \in Content /\ stale \subseteq Proc
      /\ acked \subseteq Program \X Version /\ repeated \subseteq Program \X Version
      /\ blind \in [Proc -> {"none", "program", "version"}]
  BY ContentTypes DEF Init
<1>5. lock \in BOOLEAN /\ overlap \in BOOLEAN
  BY DEF Init
<1> QED
  BY <1>1, <1>2, <1>3, <1>4, <1>5 DEF TypeOK

\* Typing: whatever commands run and whichever processes are killed, every
\* variable keeps its type; in particular the lock wait never exceeds
\* AUDIT_LOCK_TIMEOUT seconds and a running process always has a command.
THEOREM Typing == Spec => []TypeOK
<1>1. Init => TypeOK
  BY InitTyping
<1>2. TypeOK /\ [Next]_vars => TypeOK'
  BY NextTyping
<1> QED
  BY <1>1, <1>2, PTL DEF Spec

-----------------------------------------------------------------------------
(* The idempotent guard and the absence of silent loss.                    *)

\* A history without audits satisfies whatever is asked of recorded audits.
LEMMA NoAuditsFacts ==
    ASSUME NEW c, NEW R, c.audits = NoAudits
    PROVE  /\ Unique(c, R)
           /\ Recorded(c) = {}
           /\ \A g \in Program : ~HasProgram(c, g)
           /\ \A g \in Program, v \in Version : ~HasVersion(c, g, v)
<1>1. \A g \in Program : c.audits[g] = <<>>
  BY DEF NoAudits
<1>2. \A g \in Program : DOMAIN c.audits[g] = {}
  BY <1>1
<1>3. Unique(c, R)
  BY <1>2 DEF Unique
<1>4. \A g \in Program, v \in Version : ~HasVersion(c, g, v)
  BY <1>2 DEF HasVersion
<1>5. Recorded(c) = {}
  BY <1>4 DEF Recorded
<1> QED
  BY <1>1, <1>3, <1>4, <1>5 DEF HasProgram

\* Appending a version that is not there, or that may be repeated, keeps
\* versions unique and keeps every recorded audit.
LEMMA AppendedFacts ==
    ASSUME NEW c \in Content, NEW g \in Program, NEW a \in Audit, NEW R,
           Unique(c, R), <<g, a.version>> \in R \/ ~HasVersion(c, g, a.version)
    PROVE  /\ Unique(Appended(c, g, a), R)
           /\ Recorded(c) \subseteq Recorded(Appended(c, g, a))
<1> DEFINE d == Appended(c, g, a)
<1>1. /\ c.audits \in [Program -> Seq(Audit)]
      /\ d.audits = [c.audits EXCEPT ![g] = Append(c.audits[g], a)]
  BY DEF Content, Appended
<1>2. \A h \in Program : h # g => d.audits[h] = c.audits[h]
  BY <1>1
<1>3. d.audits[g] = Append(c.audits[g], a)
  BY <1>1
<1> DEFINE s == c.audits[g]
<1>4. s \in Seq(Audit) /\ Len(s) \in Nat /\ DOMAIN s = 1..Len(s)
  BY <1>1
<1>5. /\ DOMAIN Append(s, a) = 1..(Len(s) + 1)
      /\ \A i \in 1..Len(s) : Append(s, a)[i] = s[i]
      /\ Append(s, a)[Len(s) + 1] = a
  BY <1>4
<1>6. \A i \in DOMAIN s : s[i].version = a.version => <<g, a.version>> \in R
  BY DEF HasVersion
<1>7. \A i, j \in DOMAIN s :
        s[i].version = s[j].version => i = j \/ <<g, s[i].version>> \in R
  BY DEF Unique
<1>8. \A i, j \in DOMAIN d.audits[g] :
        d.audits[g][i].version = d.audits[g][j].version =>
            i = j \/ <<g, d.audits[g][i].version>> \in R
  <2> DEFINE t == d.audits[g]
             n == Len(s)
  <2>1. DOMAIN t = 1..(n + 1) /\ (\A i \in 1..n : t[i] = s[i]) /\ t[n + 1] = a
    BY <1>3, <1>5
  <2>2. n \in Nat /\ DOMAIN s = 1..n
    BY <1>4
  <2> HIDE DEF t, s, n
  <2> SUFFICES ASSUME NEW i \in DOMAIN t, NEW j \in DOMAIN t,
                      t[i].version = t[j].version, i # j
               PROVE  <<g, t[i].version>> \in R
    BY DEF t
  <2>3. i \in 1..n \/ i = n + 1
    BY <2>1, <2>2
  <2>4. j \in 1..n \/ j = n + 1
    BY <2>1, <2>2
  <2>5. CASE i \in 1..n /\ j \in 1..n
    BY <1>7, <2>1, <2>2, <2>5
  <2>6. CASE i \in 1..n /\ j = n + 1
    BY <1>6, <2>1, <2>2, <2>6
  <2>7. CASE i = n + 1 /\ j \in 1..n
    BY <1>6, <2>1, <2>2, <2>7
  <2> QED
    BY <2>3, <2>4, <2>5, <2>6, <2>7
<1>9. Unique(d, R)
  BY <1>2, <1>8 DEF Unique
<1>10. \A h \in Program, v \in Version : HasVersion(c, h, v) => HasVersion(d, h, v)
  <2> SUFFICES ASSUME NEW h \in Program, NEW v \in Version, HasVersion(c, h, v)
               PROVE  HasVersion(d, h, v)
    OBVIOUS
  <2>1. CASE h # g
    BY <2>1, <1>2 DEF HasVersion
  <2>2. CASE h = g
    <3>1. PICK i \in DOMAIN s : s[i].version = v
      BY <2>2 DEF HasVersion
    <3>2. i \in DOMAIN d.audits[g] /\ d.audits[g][i].version = v
      BY <3>1, <1>3, <1>4, <1>5
    <3> QED
      BY <3>2, <2>2 DEF HasVersion
  <2> QED
    BY <2>1, <2>2
<1> HIDE DEF d
<1>11. Recorded(c) \subseteq Recorded(d)
  BY <1>10 DEF Recorded
<1> QED
  BY <1>9, <1>11 DEF d

\* Inserting a program keeps versions unique and keeps every recorded audit, of
\* the program itself only when it was not there.
LEMMA InsertedFacts ==
    ASSUME NEW c \in Content, NEW g \in Program, NEW a \in Audit, NEW R,
           Unique(c, R)
    PROVE  /\ Unique(Inserted(c, g, a), R)
           /\ Recorded(c) \subseteq Recorded(Inserted(c, g, a)) \cup ({g} \X Version)
           /\ ~HasProgram(c, g) => Recorded(c) \subseteq Recorded(Inserted(c, g, a))
<1> DEFINE d == Inserted(c, g, a)
<1>1. CASE c.st = "empty"
  BY <1>1 DEF Inserted
<1>2. CASE c.st # "empty"
  <2>1. /\ c.audits \in [Program -> Seq(Audit)]
        /\ d.audits = [c.audits EXCEPT ![g] = <<a>>]
    BY <1>2 DEF Content, Inserted
  <2>2. \A h \in Program : h # g => d.audits[h] = c.audits[h]
    BY <2>1
  <2>3. d.audits[g] = <<a>> /\ DOMAIN <<a>> = {1}
    BY <2>1
  <2>4. ~HasProgram(c, g) => DOMAIN c.audits[g] = {}
    BY DEF HasProgram
  <2> HIDE DEF d
  <2>5. Unique(d, R)
    BY <2>2, <2>3 DEF Unique
  <2>6. \A h \in Program, v \in Version :
          HasVersion(c, h, v) => h = g \/ HasVersion(d, h, v)
    BY <2>2 DEF HasVersion
  <2>7. ~HasProgram(c, g) => \A v \in Version : ~HasVersion(c, g, v)
    BY <2>4 DEF HasVersion
  <2>8. ~HasProgram(c, g) => Recorded(c) \subseteq Recorded(d)
    BY <2>6, <2>7 DEF Recorded
  <2>9. Recorded(c) \subseteq Recorded(d) \cup ({g} \X Version)
    BY <2>6 DEF Recorded
  <2> QED
    BY <2>5, <2>8, <2>9 DEF d
<1> QED
  BY <1>1, <1>2

\* A step that only moves p to a label at which nothing is remembered about
\* the file, and that does not enter the locked part, keeps the invariant.
LEMMA QuietMove ==
    ASSUME TypeOK, LockedInv, NEW p \in Proc,
           file' = file, overlap' = overlap, repeated' = repeated,
           \A q \in Proc : q # p => /\ pc'[q] = pc[q]
                                    /\ cmd'[q] = cmd[q]
                                    /\ tmp'[q] = tmp[q]
                                    /\ blind'[q] = blind[q]
                                    /\ q \in stale => q \in stale',
           pc'[p] \notin {"insert", "append", "rename", "init_write"},
           pc'[p] \in Critical => pc[p] \in Critical
    PROVE  LockedInv'
<1>1. ~overlap' => MutualExclusion'
  BY DEF LockedInv, MutualExclusion, InCritical
<1>2. ~overlap' => UniqueVersions'
  BY DEF LockedInv, UniqueVersions
<1>3. ~overlap' => ReadsStillHold'
  BY DEF LockedInv, ReadsStillHold, Overwritten
<1>4. InitWritesEmpty'
  BY DEF LockedInv, InitWritesEmpty
<1> QED
  BY <1>1, <1>2, <1>3, <1>4 DEF LockedInv

\* Exit and ToRelease are such moves.
LEMMA ExitQuiet ==
    ASSUME TypeOK, LockedInv, NEW p \in Proc, NEW k, Exit(p, k),
           file' = file, overlap' = overlap, repeated' = repeated,
           \A q \in Proc : q # p => (q \in stale => q \in stale')
    PROVE  LockedInv'
<1>1. pc'[p] = "idle"
  BY DEF Exit, Goto, TypeOK
<1>2. \A q \in Proc : q # p => /\ pc'[q] = pc[q]
                               /\ cmd'[q] = cmd[q]
                               /\ tmp'[q] = tmp[q]
                               /\ blind'[q] = blind[q]
  BY DEF Exit, Goto, TypeOK
<1> QED
  BY <1>1, <1>2, QuietMove DEF Critical

LEMMA ReleaseQuiet ==
    ASSUME TypeOK, LockedInv, NEW p \in Proc, NEW k, ToRelease(p, k),
           file' = file, overlap' = overlap, repeated' = repeated, stale' = stale
    PROVE  LockedInv'
<1>1. pc'[p] = "release_test"
  BY DEF ToRelease, Goto, TypeOK
<1>2. \A q \in Proc : q # p => /\ pc'[q] = pc[q]
                               /\ cmd'[q] = cmd[q]
                               /\ tmp'[q] = tmp[q]
                               /\ blind'[q] = blind[q]
  BY DEF ToRelease, Goto, TypeOK
<1> QED
  BY <1>1, <1>2, QuietMove DEF Critical

LEMMA GotoQuiet ==
    ASSUME TypeOK, LockedInv, NEW p \in Proc, NEW l, Goto(p, l),
           UNCHANGED <<file, cmd, tmp, blind, stale, overlap, repeated>>,
           l \notin {"insert", "append", "rename", "init_write"},
           l \in Critical => pc[p] \in Critical
    PROVE  LockedInv'
<1>1. pc'[p] = l /\ \A q \in Proc : q # p => pc'[q] = pc[q]
  BY DEF Goto, TypeOK
<1> QED
  BY <1>1, QuietMove

\* The unlocked init: whatever it makes of the file holds no audits.
LEMMA InitKeeps ==
    ASSUME TypeOK, LockedInv, NEW p \in Proc, NEW l,
           pc' = [pc EXCEPT ![p] = l],
           l \notin Critical,
           file'.audits = NoAudits,
           overlap' = overlap, repeated' = repeated,
           \A q \in Proc : q # p => cmd'[q] = cmd[q] /\ tmp'[q] = tmp[q],
           TypeOK'
    PROVE  LockedInv'
<1>1. /\ UniqueVersions'
      /\ Recorded(file') = {}
      /\ \A g \in Program : ~HasProgram(file', g)
      /\ \A g \in Program, v \in Version : ~HasVersion(file', g, v)
  BY NoAuditsFacts DEF UniqueVersions, Unique
<1>2. pc'[p] = l /\ \A q \in Proc : q # p => pc'[q] = pc[q]
  BY DEF TypeOK
<1>3. ~overlap' => MutualExclusion'
  BY <1>2 DEF LockedInv, MutualExclusion, InCritical
<1>4. ~overlap' => ReadsStillHold'
  <2> SUFFICES ASSUME ~overlap', NEW q \in Proc
               PROVE  /\ pc'[q] = "insert" => ~HasProgram(file', cmd'[q].prog)
                      /\ pc'[q] = "append" =>
                           ~HasVersion(file', cmd'[q].prog, cmd'[q].audit.version)
                      /\ pc'[q] = "rename" =>
                           /\ Unique(tmp'[q], repeated')
                           /\ Recorded(file') = {}
    BY DEF ReadsStillHold, Unique, Recorded, HasProgram, HasVersion
  <2>1. pc'[q] \in {"insert", "append", "rename"} => q # p
    BY <1>2 DEF Critical
  <2>2. pc'[q] # "idle" => cmd'[q].prog \in Program /\ cmd'[q].audit.version \in Version
    BY DEF TypeOK, Command, Audit
  <2>3. pc'[q] = "rename" => Unique(tmp'[q], repeated')
    BY <2>1, <1>2 DEF LockedInv, ReadsStillHold, Unique
  <2> QED
    BY <1>1, <2>2, <2>3
<1>5. InitWritesEmpty'
  BY DEF InitWritesEmpty
<1> QED
  BY <1>1, <1>3, <1>4, <1>5 DEF LockedInv

LEMMA InitWriteKeeps ==
    ASSUME TypeOK, LockedInv, TypeOK', NEW p \in Proc, InitWrite(p)
    PROVE  LockedInv'
<1>1. PICK l \in {"idle", "lock_test"} : pc' = [pc EXCEPT ![p] = l]
  BY DEF InitWrite, InitReturns, Exit, Goto
<1>2. \A q \in Proc : q # p => cmd'[q] = cmd[q] /\ tmp'[q] = tmp[q]
  BY DEF InitWrite, InitReturns, Exit, TypeOK
<1>3. overlap' = overlap /\ repeated' = repeated
  BY DEF InitWrite, ghosts
<1>4. CASE p \in stale
  <2>1. pc'[p] = l /\ \A q \in Proc : q # p => pc'[q] = pc[q]
    BY <1>1 DEF TypeOK
  <2>2. file' = file /\ \A q \in Proc : q # p => (q \in stale => q \in stale')
    BY <1>4 DEF InitWrite
  <2>3. \A q \in Proc : q # p => blind'[q] = blind[q]
    BY DEF InitWrite, InitReturns, Exit, TypeOK
  <2> QED
    BY <1>2, <1>3, <2>1, <2>2, <2>3, QuietMove DEF Critical
<1>5. CASE p \notin stale
  <2>1. file'.audits = NoAudits
    BY <1>5 DEF InitWrite, Fresh
  <2>2. l \notin Critical
    BY DEF Critical
  <2> QED
    BY <1>1, <1>2, <1>3, <2>1, <2>2, InitKeeps
<1> QED
  BY <1>4, <1>5

LEMMA LockCreateKeeps ==
    ASSUME TypeOK, LockedInv, NEW p \in Proc, LockCreate(p)
    PROVE  LockedInv'
<1>1. pc'[p] = "validate" /\ \A q \in Proc : q # p => pc'[q] = pc[q]
  BY DEF LockCreate, Goto, TypeOK
<1>2. UNCHANGED <<file, cmd, tmp, blind, stale, repeated>>
  BY DEF LockCreate
<1>3. ~overlap' => ~overlap /\ \A q \in Proc : q # p => pc[q] \notin Critical
  BY DEF LockCreate
<1>4. ~overlap' => MutualExclusion'
  BY <1>1, <1>3 DEF MutualExclusion, InCritical
<1>5. ~overlap' => UniqueVersions' /\ ReadsStillHold'
  BY <1>1, <1>2, <1>3 DEF LockedInv, UniqueVersions, ReadsStillHold, Overwritten
<1>6. InitWritesEmpty'
  BY <1>1, <1>2 DEF LockedInv, InitWritesEmpty
<1> QED
  BY <1>4, <1>5, <1>6 DEF LockedInv

\* A step inside the locked part by which p remembers something about the
\* file: the fact it remembers is the only thing to show.
LEMMA LockedMove ==
    ASSUME TypeOK, LockedInv, NEW p \in Proc, NEW l \in Critical, Goto(p, l),
           pc[p] \in Critical, repeated \subseteq repeated',
           UNCHANGED <<file, cmd, stale, overlap>>,
           \A q \in Proc : q # p => tmp'[q] = tmp[q],
           ~overlap =>
             /\ l = "insert" => blind'[p] = "program" \/ ~HasProgram(file, cmd[p].prog)
             /\ l = "append" =>
                   \/ <<cmd[p].prog, cmd[p].audit.version>> \in repeated'
                   \/ ~HasVersion(file, cmd[p].prog, cmd[p].audit.version)
             /\ l = "rename" => /\ Unique(tmp'[p], repeated')
                                /\ Recorded(file) \subseteq Recorded(tmp'[p])
                                                      \cup Overwritten(p)'
    PROVE  LockedInv'
<1>1. pc'[p] = l /\ \A q \in Proc : q # p => pc'[q] = pc[q]
  BY DEF Goto, TypeOK
<1>2. ~overlap' => MutualExclusion'
  BY <1>1 DEF LockedInv, MutualExclusion, InCritical
<1>3. ~overlap' => UniqueVersions'
  BY DEF LockedInv, UniqueVersions, Unique
<1>4. ~overlap' => ReadsStillHold'
  <2> SUFFICES ASSUME ~overlap PROVE ReadsStillHold'
    OBVIOUS
  <2>1. \A q \in Proc : q # p => pc'[q] \notin Critical
    BY <1>1 DEF LockedInv, MutualExclusion, InCritical
  <2> QED
    BY <1>1, <2>1 DEF ReadsStillHold, Critical
<1>5. InitWritesEmpty'
  BY <1>1 DEF LockedInv, InitWritesEmpty, Critical
<1> QED
  BY <1>2, <1>3, <1>4, <1>5 DEF LockedInv

LEMMA AppendStepKeeps ==
    ASSUME TypeOK, LockedInv, NEW p \in Proc, AppendStep(p)
    PROVE  LockedInv'
<1>1. cmd[p].prog \in Program /\ cmd[p].audit \in Audit /\ file \in Content
  BY DEF AppendStep, TypeOK, Command
<1>2. tmp'[p] = IF file.st = "empty" THEN file
                ELSE Appended(file, cmd[p].prog, cmd[p].audit)
  BY DEF AppendStep, TypeOK
<1>3. ~overlap => /\ Unique(file, repeated)
                  /\ \/ <<cmd[p].prog, cmd[p].audit.version>> \in repeated
                     \/ ~HasVersion(file, cmd[p].prog, cmd[p].audit.version)
  BY DEF LockedInv, UniqueVersions, ReadsStillHold, AppendStep
<1>4. ~overlap => /\ Unique(tmp'[p], repeated)
                  /\ Recorded(file) \subseteq Recorded(tmp'[p])
  BY <1>1, <1>2, <1>3, AppendedFacts
<1>5. \A q \in Proc : q # p => tmp'[q] = tmp[q]
  BY DEF AppendStep, TypeOK
<1>6. /\ Goto(p, "rename") /\ "rename" \in Critical /\ pc[p] \in Critical
      /\ UNCHANGED <<file, cmd, stale, overlap, repeated>>
  BY DEF AppendStep, Critical, ghosts
<1> QED
  BY <1>4, <1>5, <1>6, LockedMove

LEMMA InsertStepKeeps ==
    ASSUME TypeOK, LockedInv, NEW p \in Proc, InsertStep(p)
    PROVE  LockedInv'
<1>1. cmd[p].prog \in Program /\ cmd[p].audit \in Audit /\ file \in Content
  BY DEF InsertStep, TypeOK, Command
<1>2. tmp'[p] = Inserted(file, cmd[p].prog, cmd[p].audit)
  BY DEF InsertStep, TypeOK
<1>3. ~overlap => /\ Unique(file, repeated)
                  /\ blind[p] = "program" \/ ~HasProgram(file, cmd[p].prog)
  BY DEF LockedInv, UniqueVersions, ReadsStillHold, InsertStep
<1>a. Overwritten(p)' = Overwritten(p)
  BY DEF InsertStep, Overwritten
<1>4. ~overlap => /\ Unique(tmp'[p], repeated)
                  /\ Recorded(file) \subseteq Recorded(tmp'[p]) \cup Overwritten(p)'
  <2> SUFFICES ASSUME ~overlap
               PROVE  /\ Unique(tmp'[p], repeated)
                      /\ Recorded(file) \subseteq Recorded(tmp'[p]) \cup Overwritten(p)
    BY <1>a
  <2>1. CASE blind[p] = "program"
    BY <1>1, <1>2, <1>3, <2>1, InsertedFacts DEF Overwritten
  <2>2. CASE ~HasProgram(file, cmd[p].prog)
    BY <1>1, <1>2, <1>3, <2>2, InsertedFacts
  <2> QED
    BY <1>3, <2>1, <2>2
<1>5. \A q \in Proc : q # p => tmp'[q] = tmp[q]
  BY DEF InsertStep, TypeOK
<1>6. /\ Goto(p, "rename") /\ "rename" \in Critical /\ pc[p] \in Critical
      /\ UNCHANGED <<file, cmd, stale, overlap, repeated>>
  BY DEF InsertStep, Critical, ghosts
<1> QED
  BY <1>4, <1>5, <1>6, LockedMove

\* mv: alone in the locked part, so nobody remembers anything about the old
\* file, and open redirects no longer reach the new one.
LEMMA RenameKeeps ==
    ASSUME TypeOK, LockedInv, NEW p \in Proc, Rename(p)
    PROVE  LockedInv'
<1>1. pc'[p] = "release_test" /\ \A q \in Proc : q # p => pc'[q] = pc[q]
  BY DEF Rename, ToRelease, Goto, TypeOK
<1>2. file' = tmp[p] /\ overlap' = overlap /\ repeated' = repeated
  BY DEF Rename
<1>3. ~overlap => /\ Unique(tmp[p], repeated)
                  /\ \A q \in Proc : q # p => pc[q] \notin Critical
  BY DEF Rename, LockedInv, ReadsStillHold, MutualExclusion, InCritical, Critical
<1>4. ~overlap' => MutualExclusion'
  BY <1>1, <1>2, <1>3 DEF MutualExclusion, InCritical, Critical
<1>5. ~overlap' => UniqueVersions'
  BY <1>2, <1>3 DEF UniqueVersions, Unique
<1>6. ~overlap' => ReadsStillHold'
  BY <1>1, <1>2, <1>3 DEF ReadsStillHold, Critical
<1>7. InitWritesEmpty'
  BY <1>1 DEF InitWritesEmpty, Rename
<1> QED
  BY <1>4, <1>5, <1>6, <1>7 DEF LockedInv

LEMMA StartKeeps ==
    ASSUME TypeOK, LockedInv, NEW p \in Proc, NEW c, Start(p, c)
    PROVE  LockedInv'
<1>1. pc'[p] \in {"idle", "add_exists", "init_exists", "read_exists"}
  BY DEF Start, Goto, EntryPoint, TypeOK
<1>2. \A q \in Proc : q # p => pc'[q] = pc[q] /\ cmd'[q] = cmd[q]
  BY DEF Start, Goto, TypeOK
<1>3. UNCHANGED <<file, overlap, tmp, blind, stale, repeated>>
  BY DEF Start
<1> QED
  BY <1>1, <1>2, <1>3, QuietMove DEF Critical

LEMMA StepKeeps ==
    ASSUME TypeOK, LockedInv, TypeOK', NEW p \in Proc, Step(p)
    PROVE  LockedInv'
<1>1. CASE AddExists(p)
  BY <1>1, GotoQuiet DEF AddExists, Critical, ghosts
<1>2. CASE InitExists(p)
  BY <1>2, GotoQuiet, ExitQuiet DEF InitExists, InitReturns, Critical, ghosts
<1>3. CASE InitOpen(p)
  BY <1>3, InitKeeps DEF InitOpen, Goto, Empty, Critical, ghosts
<1>4. CASE InitFails(p)
  BY <1>4, ExitQuiet DEF InitFails, ghosts
<1>5. CASE InitWrite(p)
  BY <1>5, InitWriteKeeps
<1>6. CASE LockTest(p)
  <2>1. CASE ~lock
    BY <1>6, <2>1, GotoQuiet DEF LockTest, Critical, ghosts
  <2>2. CASE lock /\ elapsed[p] < LockTimeout
    BY <1>6, <2>2, QuietMove DEF LockTest, TypeOK, Critical, ghosts
  <2>3. CASE lock /\ elapsed[p] >= LockTimeout
    BY <1>6, <2>3, ExitQuiet DEF LockTest, TypeOK, ghosts
  <2> QED
    BY <2>1, <2>2, <2>3 DEF TypeOK
<1>7. CASE LockCreate(p)
  BY <1>7, LockCreateKeeps
<1>8. CASE LockFails(p)
  BY <1>8, ExitQuiet DEF LockFails, ghosts
<1>9. CASE Validate(p)
  <2>1. CASE Build(p)
    <3>1. pc'[p] = "has_program" /\ pc[p] \in Critical
      BY <1>9, <2>1 DEF Validate, Build, Goto, TypeOK, Critical
    <3>2. \A q \in Proc : q # p => pc'[q] = pc[q] /\ cmd'[q] = cmd[q]
      BY <2>1 DEF Build, Goto, TypeOK
    <3> QED
      BY <1>9, <2>1, <3>1, <3>2, QuietMove DEF Validate, Build, ghosts
  <2>2. CASE ToRelease(p, ERR_JSON_OP)
    BY <1>9, <2>2, ReleaseQuiet DEF Validate, ghosts
  <2> QED
    BY <1>9, <2>1, <2>2 DEF Validate
<1>10. CASE BuildFails(p)
  BY <1>10, ExitQuiet DEF BuildFails, ghosts
<1>11. CASE HasProgramStep(p)
  <2>1. CASE /\ Goto(p, IF HasProgram(file, cmd[p].prog) THEN "has_version"
                                                       ELSE "insert")
             /\ UNCHANGED blind
    <3>1. CASE HasProgram(file, cmd[p].prog)
      <4>1. Goto(p, "has_version")
        BY <2>1, <3>1
      <4> QED
        BY <1>11, <2>1, <4>1, GotoQuiet DEF HasProgramStep, Critical, ghosts
    <3>2. CASE ~HasProgram(file, cmd[p].prog)
      <4>1. Goto(p, "insert")
        BY <2>1, <3>2
      <4> QED
        BY <1>11, <3>2, <4>1, LockedMove DEF HasProgramStep, Critical, ghosts
    <3> QED
      BY <3>1, <3>2
  <2>2. CASE Goto(p, "insert") /\ blind' = [blind EXCEPT ![p] = "program"]
    <3>1. blind'[p] = "program"
      BY <2>2 DEF TypeOK
    <3> QED
      BY <1>11, <2>2, <3>1, LockedMove DEF HasProgramStep, Critical, ghosts
  <2> QED
    BY <1>11, <2>1, <2>2 DEF HasProgramStep
<1>12. CASE HasVersionStep(p)
  <2>1. CASE ToRelease(p, 0) /\ UNCHANGED repeated
    BY <1>12, <2>1, ReleaseQuiet DEF HasVersionStep
  <2>2. CASE ~HasVersion(file, cmd[p].prog, cmd[p].audit.version)
    BY <1>12, <2>2, LockedMove DEF HasVersionStep, Critical
  <2>3. CASE /\ Goto(p, "append") /\ UNCHANGED <<cmd, tmp>>
             /\ repeated' = repeated \cup {<<cmd[p].prog, cmd[p].audit.version>>}
    BY <1>12, <2>3, LockedMove DEF HasVersionStep, Critical
  <2> QED
    BY <1>12, <2>1, <2>2, <2>3 DEF HasVersionStep
<1>13. CASE AppendStep(p)
  BY <1>13, AppendStepKeeps
<1>14. CASE InsertStep(p)
  BY <1>14, InsertStepKeeps
<1>15. CASE AppendFails(p)
  BY <1>15, ReleaseQuiet DEF AppendFails, ghosts
<1>16. CASE Rename(p)
  BY <1>16, RenameKeeps
<1>17. CASE RenameFails(p)
  BY <1>17, ReleaseQuiet DEF RenameFails, ghosts
<1>18. CASE ReleaseTest(p)
  BY <1>18, GotoQuiet, ExitQuiet DEF ReleaseTest, Critical, ghosts
<1>19. CASE ReleaseRm(p)
  BY <1>19, ExitQuiet DEF ReleaseRm
<1>20. CASE ReadExists(p)
  BY <1>20, GotoQuiet, ExitQuiet DEF ReadExists, Critical, ghosts
<1>21. CASE ReadFirst(p)
  BY <1>21, GotoQuiet, ExitQuiet DEF ReadFirst, Critical, ghosts
<1>22. CASE ReadSecond(p)
  BY <1>22, ExitQuiet DEF ReadSecond, ghosts
<1> QED
  BY <1>1, <1>2, <1>3, <1>4, <1>5, <1>6, <1>7, <1>8, <1>9, <1>10, <1>11, <1>12,
     <1>13, <1>14, <1>15, <1>16, <1>17, <1>18, <1>19, <1>20, <1>21, <1>22 DEF Step

LEMMA NextKeeps ==
    ASSUME TypeOK, LockedInv, [Next]_vars
    PROVE  LockedInv'
<1>1. TypeOK'
  BY NextTyping
<1>2. CASE Next
  <2>1. PICK p \in Proc : ProcNext(p)
    BY <1>2 DEF Next
  <2>2. CASE Step(p)
    BY <1>1, <2>2, StepKeeps
  <2>3. CASE Crash(p)
    BY <2>3, ExitQuiet DEF Crash
  <2>4. CASE \E c \in CommandLine : Start(p, c)
    BY <2>4, StartKeeps
  <2> QED
    BY <2>1, <2>2, <2>3, <2>4 DEF ProcNext
<1>3. CASE UNCHANGED vars
  BY <1>3 DEF vars, locals, ghosts, LockedInv, MutualExclusion, InCritical,
     UniqueVersions, ReadsStillHold, InitWritesEmpty, Overwritten
<1> QED
  BY <1>2, <1>3

LEMMA InitLocked == Init => LockedInv
<1> SUFFICES ASSUME Init PROVE LockedInv
  OBVIOUS
<1>1. \A p \in Proc : pc[p] = "idle"
  BY DEF Init
<1>2. file.audits = NoAudits
  BY DEF Init, Absent
<1>3. UniqueVersions
  BY <1>2, NoAuditsFacts DEF UniqueVersions
<1> QED
  BY <1>1, <1>3 DEF LockedInv, MutualExclusion, InCritical, Critical,
     ReadsStillHold, InitWritesEmpty

\* The inductive invariant holds of every behaviour: what the locked part read
\* stays true until it renames, as long as two locked parts never overlapped.
THEOREM LockedInvariant == Spec => []LockedInv
<1>1. Init => TypeOK /\ LockedInv
  BY InitTyping, InitLocked
<1>2. TypeOK /\ LockedInv /\ [Next]_vars => TypeOK' /\ LockedInv'
  BY NextTyping, NextKeeps
<1> QED
  BY <1>1, <1>2, PTL DEF Spec

\* The idempotent guard: for any number of processes, kills, commands and
\* failing jq calls no version of a program is recorded twice, unless two
\* processes were between _acquire_lock and mv at the same time or the very
\* test for this version failed.
THEOREM GuardUnlessOverlap == Spec => []UniqueUnlessOverlap
<1>1. LockedInv => UniqueUnlessOverlap
  BY DEF LockedInv, UniqueUnlessOverlap
<1> QED
  BY <1>1, LockedInvariant, PTL

\* No step of any process loses a recorded audit except the truncation in the
\* unlocked audit_history_init, steps after an overlap, and the rename of an
\* add whose program test failed, which loses that program's audits only.
THEOREM NoSilentLoss == Spec => LossNeedsRace
<1> DEFINE Safe == \/ Recorded(file) \subseteq Recorded(file')
                   \/ overlap
                   \/ \E p \in Proc : InitOpen(p)
                   \/ \E p \in Proc :
                        /\ Rename(p)
                        /\ Recorded(file) \subseteq Recorded(file') \cup Overwritten(p)
<1>1. TypeOK /\ LockedInv /\ [Next]_vars => [Safe]_vars
  <2> SUFFICES ASSUME TypeOK, LockedInv, Next, ~overlap,
                      ~ \E p \in Proc : InitOpen(p), file' # file
               PROVE  Safe
    BY DEF Recorded, HasVersion
  <2>1. PICK p \in Proc : ProcNext(p)
    BY DEF Next
  <2>2. InitWrite(p) \/ Rename(p)
    BY <2>1 DEF ProcNext, Step, Crash, Start, AddExists, InitExists, InitFails,
         LockTest, LockCreate, LockFails, Validate, BuildFails, HasProgramStep,
         HasVersionStep, AppendStep, InsertStep, AppendFails, RenameFails,
         ReleaseTest, ReleaseRm, ReadExists, ReadFirst, ReadSecond
  <2>3. CASE InitWrite(p)
    <3>1. file.audits = NoAudits
      BY <2>3 DEF InitWrite, LockedInv, InitWritesEmpty
    <3> QED
      BY <3>1, NoAuditsFacts
  <2>4. CASE Rename(p)
    BY <2>4 DEF Rename, LockedInv, ReadsStillHold
  <2> QED
    BY <2>2, <2>3, <2>4
<1>2. Init => TypeOK /\ LockedInv
  BY InitTyping, InitLocked
<1>3. TypeOK /\ LockedInv /\ [Next]_vars => TypeOK' /\ LockedInv'
  BY NextTyping, NextKeeps
<1> QED
  BY <1>1, <1>2, <1>3, PTL DEF Spec, LossNeedsRace
-----------------------------------------------------------------------------
(* One command at a time: the file implements the append-only log.         *)

\* No other process runs a command.
Lonely(p) == \A q \in Proc \ {p} : pc[q] = "idle"

\* The others do not test the file.
Aside(p) == \A q \in Proc : q # p => blind'[q] = blind[q]

\* The file p is about to install is the present one with its audit recorded
\* once more, or, after a failed test, with its audit repeated or in place of
\* the program's list; or it is the present one when that is empty.
Prepared(p) ==
    LET g == cmd[p].prog
        a == cmd[p].audit
    IN  \/ file.st = "empty" /\ tmp[p] = file
        \/ /\ file.st # "empty"
           /\ blind[p] = "program" \/ ~HasProgram(file, g)
           /\ tmp[p] = Inserted(file, g, a)
        \/ /\ file.st # "empty" /\ HasProgram(file, g)
           /\ blind[p] = "version" \/ ~HasVersion(file, g, a.version)
           /\ tmp[p] = Appended(file, g, a)

\* What p has learnt about the file, label by label, is still so, unless the
\* test failed.
Learnt(p) ==
    /\ pc[p] = "init_open" => file.st = "absent"
    /\ pc[p] = "init_write" => file.audits = NoAudits
    /\ pc[p] \in {"has_version", "append"} => HasProgram(file, cmd[p].prog)
    /\ pc[p] = "append" =>
          \/ blind[p] = "version"
          \/ ~HasVersion(file, cmd[p].prog, cmd[p].audit.version)
    /\ pc[p] = "insert" => blind[p] = "program" \/ ~HasProgram(file, cmd[p].prog)
    /\ pc[p] = "rename" => Prepared(p)
    /\ blind[p] # "none" => pc[p] \in {"append", "insert", "rename"}

\* Only a file that holds JSON holds audits.
Plain(c) == c.st # "json" => c.audits = NoAudits

\* The inductive invariant of behaviours without overlapping commands.
SeqInv ==
    /\ \A p, q \in Proc : p # q => pc[p] = "idle" \/ pc[q] = "idle"
    /\ Plain(file)
    /\ \A p \in Proc : Learnt(p)

Learning == {"init_open", "init_write", "has_version", "append", "insert",
             "rename"}

\* The invariant of the others is trivial: they are idle.
LEMMA SeqMove ==
    ASSUME TypeOK, SeqInv, NEW p \in Proc, NEW l \in Labels, Lonely(p), Goto(p, l),
           Aside(p), Plain(file'), Learnt(p)'
    PROVE  SeqInv'
<1>1. pc'[p] = l /\ \A q \in Proc : q # p => pc'[q] = "idle"
  BY DEF Goto, TypeOK, Lonely
<1>2. \A q \in Proc : q # p => blind'[q] = "none"
  BY DEF Aside, Lonely, SeqInv, Learnt
<1>3. \A q \in Proc : q # p => Learnt(q)'
  BY <1>1, <1>2 DEF Learnt
<1> QED
  BY <1>1, <1>3 DEF SeqInv, Plain

\* A step that leaves the file and learns nothing about it keeps the invariant.
LEMMA SeqQuiet ==
    ASSUME TypeOK, SeqInv, NEW p \in Proc, NEW l \in Labels, Lonely(p),
           Goto(p, l), l \notin Learning, file' = file, Aside(p), blind'[p] = "none"
    PROVE  SeqInv'
<1>1. pc'[p] = l
  BY DEF Goto, TypeOK
<1>2. Learnt(p)'
  BY <1>1 DEF Learnt, Learning
<1> QED
  BY <1>2, SeqMove DEF SeqInv, Plain

\* What a step does to the abstract log when it does nothing to it.
Keeps(p) == /\ file'.audits = file.audits /\ Aside(p)
            /\ blind'[p] = "none" \/ UNCHANGED <<blind, cmd>>

\* Moving on before the file is tested, or after the rename.
LEMMA SeqGo ==
    ASSUME TypeOK, SeqInv, NEW p \in Proc, NEW l \in Labels, Lonely(p),
           Goto(p, l), l \notin Learning, UNCHANGED <<file, blind>>,
           pc[p] \notin {"append", "insert", "rename"}
    PROVE  SeqInv' /\ Keeps(p)
<1>1. blind'[p] = "none" /\ Aside(p)
  BY DEF SeqInv, Learnt, Aside
<1> QED
  BY <1>1, SeqQuiet DEF Keeps

\* A waiting step learns nothing either.
LEMMA SeqStill ==
    ASSUME TypeOK, SeqInv, NEW p \in Proc, UNCHANGED <<pc, file, blind>>,
           pc[p] \notin Learning, Lonely(p)
    PROVE  SeqInv' /\ Keeps(p)
<1>1. Goto(p, pc[p]) /\ pc[p] \in Labels
  BY DEF Goto, TypeOK
<1> QED
  BY <1>1, SeqGo DEF Learning

LEMMA QuietLabels ==
    /\ {"idle", "lock_test", "lock_create", "validate", "has_program",
        "release_test", "release_rm", "read_exists", "read_first",
        "read_second", "add_exists", "init_exists"} \subseteq Labels \ Learning
    /\ Learning \subseteq Labels
BY DEF Labels, Learning, Critical

\* Whoever prepared the new file records one audit or nothing, and replaces a
\* list or repeats a version only after a failed test.
LEMMA PreparedFacts ==
    ASSUME TypeOK, NEW p \in Proc, pc[p] # "idle", Plain(file), Prepared(p)
    PROVE  /\ Plain(tmp[p])
           /\ \/ tmp[p] = file /\ file.st = "empty"
              \/ /\ tmp[p].st = "json" /\ file.st # "empty"
                 /\ \/ blind[p] = "version"
                    \/ ~HasVersion(file, cmd[p].prog, cmd[p].audit.version)
                 /\ tmp[p].audits =
                      [file.audits EXCEPT ![cmd[p].prog] = Append(@, cmd[p].audit)]
              \/ /\ tmp[p].st = "json" /\ file.st # "empty"
                 /\ blind[p] = "program"
                 /\ tmp[p].audits = [file.audits EXCEPT ![cmd[p].prog] = <<cmd[p].audit>>]
<1> DEFINE g == cmd[p].prog
           a == cmd[p].audit
<1>1. g \in Program /\ a \in Audit /\ a.version \in Version
  BY DEF TypeOK, Command, Audit
<1>2. file \in Content /\ file.audits \in [Program -> Seq(Audit)]
  BY DEF TypeOK, Content
<1>3. CASE file.st = "empty" /\ tmp[p] = file
  BY <1>3
<1>4. CASE /\ file.st # "empty"
           /\ blind[p] = "program" \/ ~HasProgram(file, g)
           /\ tmp[p] = Inserted(file, g, a)
  <2>1. /\ tmp[p].st = "json"
        /\ tmp[p].audits = [file.audits EXCEPT ![g] = <<a>>]
    BY <1>4 DEF Inserted
  <2>2. CASE blind[p] = "program"
    BY <1>4, <2>1, <2>2 DEF Plain
  <2>3. CASE ~HasProgram(file, g)
    <3>1. file.audits[g] = <<>>
      BY <2>3 DEF HasProgram
    <3>2. Append(file.audits[g], a) = <<a>>
      BY <3>1, <1>1
    <3>3. ~HasVersion(file, g, a.version)
      BY <3>1 DEF HasVersion
    <3> QED
      BY <1>4, <2>1, <3>2, <3>3 DEF Plain
  <2> QED
    BY <1>4, <2>2, <2>3
<1>5. CASE /\ file.st # "empty" /\ HasProgram(file, g)
           /\ blind[p] = "version" \/ ~HasVersion(file, g, a.version)
           /\ tmp[p] = Appended(file, g, a)
  <2>1. file.st = "json"
    BY <1>1, <1>5 DEF Plain, NoAudits, HasProgram
  <2>2. /\ tmp[p].st = "json"
        /\ tmp[p].audits = [file.audits EXCEPT ![g] = Append(@, a)]
    BY <1>2, <1>5, <2>1 DEF Appended, Content
  <2> QED
    BY <1>5, <2>2 DEF Plain
<1> QED
  BY <1>3, <1>4, <1>5 DEF Prepared

LEMMA SeqExit ==
    ASSUME TypeOK, SeqInv, NEW p \in Proc, NEW k, Exit(p, k), Lonely(p),
           file' = file
    PROVE  SeqInv' /\ Keeps(p)
<1>1. Aside(p) /\ blind'[p] = "none"
  BY DEF Exit, Aside, TypeOK
<1> QED
  BY <1>1, QuietLabels, SeqQuiet DEF Exit, Keeps

LEMMA SeqRelease ==
    ASSUME TypeOK, SeqInv, NEW p \in Proc, NEW k, ToRelease(p, k), Lonely(p),
           file' = file
    PROVE  SeqInv' /\ Keeps(p)
<1>1. Aside(p) /\ blind'[p] = "none"
  BY DEF ToRelease, Aside, TypeOK
<1> QED
  BY <1>1, QuietLabels, SeqQuiet DEF ToRelease, Keeps

LEMMA SeqInitWrite ==
    ASSUME TypeOK, SeqInv, NEW p \in Proc, InitWrite(p), Lonely(p)
    PROVE  SeqInv' /\ Keeps(p)
<1>1. file.audits = NoAudits
  BY DEF InitWrite, SeqInv, Learnt
<1>2. file'.audits = NoAudits
  BY <1>1 DEF InitWrite, Fresh
<1>3. PICK l \in {"idle", "lock_test"} : Goto(p, l)
  BY DEF InitWrite, InitReturns, Exit
<1>4. l \in Labels \ Learning
  BY QuietLabels
<1>5. pc'[p] = l
  BY <1>3 DEF Goto, TypeOK
<1>6. Aside(p) /\ blind'[p] = "none"
  BY DEF InitWrite, InitReturns, Exit, Aside, SeqInv, Learnt, TypeOK
<1>7. Learnt(p)'
  BY <1>4, <1>5, <1>6 DEF Learnt, Learning
<1> QED
  BY <1>1, <1>2, <1>3, <1>4, <1>6, <1>7, SeqMove DEF Plain, Keeps

\* With nobody's test failed there is no failed test; with one process running
\* it is the only one whose test may have failed.
LEMMA NoneFailed ==
    ASSUME \A q \in Proc : blind[q] = "none"
    PROVE  Failed = {}
BY DEF Failed

LEMMA OneFailed ==
    ASSUME NEW p \in Proc, SeqInv, Lonely(p)
    PROVE  /\ blind[p] = "none" => Failed = {}
           /\ blind[p] # "none" => Failed = {<<blind[p], cmd[p].prog>>}
<1>1. \A q \in Proc : q # p => blind[q] = "none"
  BY DEF Lonely, SeqInv, Learnt
<1> QED
  BY <1>1 DEF Failed

\* mv: the only step that changes what the history holds, by one audit of a
\* version that is not in it, or by what a failed test makes of it.
LEMMA SeqRename ==
    ASSUME TypeOK, SeqInv, NEW p \in Proc, Rename(p), Lonely(p)
    PROVE  /\ SeqInv'
           /\ \/ Keeps(p)
              \/ Log!Record(cmd[p].prog, cmd[p].audit)
              \/ Log!Replace(cmd[p].prog, cmd[p].audit)
<1>1. pc[p] = "rename" /\ Prepared(p) /\ Plain(file) /\ file' = tmp[p]
  BY DEF Rename, SeqInv, Learnt
<1>2. Plain(file')
  BY <1>1, PreparedFacts
<1>3. Goto(p, "release_test") /\ Aside(p) /\ blind'[p] = "none"
  BY DEF Rename, ToRelease, Aside, TypeOK
<1>4. pc'[p] = "release_test"
  BY <1>3 DEF Goto, TypeOK
<1>5. Learnt(p)'
  BY <1>3, <1>4 DEF Learnt
<1>6. SeqInv'
  BY <1>2, <1>3, <1>5, QuietLabels, SeqMove
<1>7. Failed' = {}
  <2>1. \A q \in Proc : blind'[q] = "none"
    BY <1>3 DEF Aside, Lonely, SeqInv, Learnt
  <2> QED
    BY <2>1 DEF Failed
<1>8. CASE tmp[p] = file
  BY <1>1, <1>3, <1>6, <1>8 DEF Keeps
<1>9. CASE /\ \/ blind[p] = "version"
              \/ ~HasVersion(file, cmd[p].prog, cmd[p].audit.version)
           /\ tmp[p].audits =
                [file.audits EXCEPT ![cmd[p].prog] = Append(@, cmd[p].audit)]
  <2>1. blind[p] = "version" => <<"version", cmd[p].prog>> \in Failed
    BY OneFailed
  <2> QED
    BY <1>1, <1>6, <1>7, <1>9, <2>1 DEF Log!Record, HasVersion
<1>10. CASE /\ blind[p] = "program"
            /\ tmp[p].audits = [file.audits EXCEPT ![cmd[p].prog] = <<cmd[p].audit>>]
  <2>1. <<"program", cmd[p].prog>> \in Failed
    BY <1>10, OneFailed
  <2> QED
    BY <1>1, <1>6, <1>7, <1>10, <2>1 DEF Log!Replace
<1> QED
  BY <1>1, <1>6, <1>8, <1>9, <1>10, PreparedFacts

\* Reading the file: the process learns what it has just read, or goes on with
\* the wrong answer about a program that is in the log.
LEMMA SeqRead ==
    ASSUME TypeOK, SeqInv, NEW p \in Proc, Lonely(p),
           HasProgramStep(p) \/ HasVersionStep(p)
    PROVE  /\ SeqInv'
           /\ Keeps(p) \/ Log!Fail(cmd[p].prog)
<1>1. UNCHANGED <<file, cmd>> /\ Aside(p)
  BY DEF HasProgramStep, HasVersionStep, ToRelease, Aside, TypeOK
<1>2. blind[p] = "none"
  BY DEF HasProgramStep, HasVersionStep, SeqInv, Learnt
<1>3. ASSUME NEW k \in {"program", "version"}, blind' = [blind EXCEPT ![p] = k],
             HasProgram(file, cmd[p].prog)
      PROVE  Log!Fail(cmd[p].prog)
  <2>1. blind'[p] = k /\ \A q \in Proc : q # p => blind'[q] = "none"
    BY <1>3 DEF TypeOK, Lonely, SeqInv, Learnt
  <2>2. Failed' = {<<k, cmd[p].prog>>}
    BY <1>1, <2>1 DEF Failed
  <2>3. k = "program" \/ k = "version"
    OBVIOUS
  <2> QED
    BY <1>1, <1>3, <2>2, <2>3 DEF Log!Fail, HasProgram
<1>4. CASE HasProgramStep(p)
  <2>1. CASE /\ HasProgram(file, cmd[p].prog) /\ Goto(p, "has_version")
             /\ UNCHANGED blind
    <3>1. pc'[p] = "has_version"
      BY <2>1 DEF Goto, TypeOK
    <3>2. Learnt(p)'
      BY <1>1, <1>2, <2>1, <3>1 DEF Learnt, HasProgram
    <3> QED
      BY <1>1, <2>1, <3>2, QuietLabels, SeqMove DEF SeqInv, Plain, Learning, Keeps
  <2>2. CASE /\ ~HasProgram(file, cmd[p].prog) /\ Goto(p, "insert")
             /\ UNCHANGED blind
    <3>1. pc'[p] = "insert"
      BY <2>2 DEF Goto, TypeOK
    <3>2. Learnt(p)'
      BY <1>1, <1>2, <2>2, <3>1 DEF Learnt, HasProgram
    <3> QED
      BY <1>1, <2>2, <3>2, QuietLabels, SeqMove DEF SeqInv, Plain, Learning, Keeps
  <2>3. CASE /\ HasProgram(file, cmd[p].prog) /\ Goto(p, "insert")
             /\ blind' = [blind EXCEPT ![p] = "program"]
    <3>1. pc'[p] = "insert" /\ blind'[p] = "program"
      BY <2>3 DEF Goto, TypeOK
    <3>2. Learnt(p)'
      BY <3>1 DEF Learnt
    <3>3. SeqInv'
      BY <1>1, <2>3, <3>2, QuietLabels, SeqMove DEF SeqInv, Plain, Learning
    <3> QED
      BY <1>3, <2>3, <3>3
  <2> QED
    BY <1>4, <2>1, <2>2, <2>3 DEF HasProgramStep
<1>5. CASE HasVersionStep(p)
  <2>a. HasProgram(file, cmd[p].prog)
    BY <1>5 DEF HasVersionStep, SeqInv, Learnt
  <2>1. CASE ToRelease(p, 0)
    BY <1>1, <2>1, SeqRelease
  <2>2. CASE /\ ~HasVersion(file, cmd[p].prog, cmd[p].audit.version)
             /\ Goto(p, "append") /\ UNCHANGED blind
    <3>1. pc'[p] = "append"
      BY <2>2 DEF Goto, TypeOK
    <3>2. Learnt(p)'
      BY <1>1, <1>2, <2>a, <2>2, <3>1 DEF Learnt, HasProgram, HasVersion
    <3> QED
      BY <1>1, <2>2, <3>2, QuietLabels, SeqMove DEF SeqInv, Plain, Learning, Keeps
  <2>3. CASE Goto(p, "append") /\ blind' = [blind EXCEPT ![p] = "version"]
    <3>1. pc'[p] = "append" /\ blind'[p] = "version"
      BY <2>3 DEF Goto, TypeOK
    <3>2. Learnt(p)'
      BY <1>1, <2>a, <3>1 DEF Learnt, HasProgram
    <3>3. SeqInv'
      BY <1>1, <2>3, <3>2, QuietLabels, SeqMove DEF SeqInv, Plain, Learning
    <3> QED
      BY <1>3, <2>a, <2>3, <3>3
  <2> QED
    BY <1>5, <2>1, <2>2, <2>3 DEF HasVersionStep
<1> QED
  BY <1>4, <1>5

\* The jq filters prepare what the reads call for.
LEMMA SeqFilter ==
    ASSUME TypeOK, SeqInv, NEW p \in Proc, Lonely(p),
           AppendStep(p) \/ InsertStep(p)
    PROVE  SeqInv' /\ Keeps(p)
<1>1. UNCHANGED <<file, cmd, blind>> /\ Goto(p, "rename") /\ Aside(p)
  BY DEF AppendStep, InsertStep, Aside
<1>2. pc'[p] = "rename"
  BY <1>1 DEF Goto, TypeOK
<1>3. Prepared(p)'
  <2>1. CASE AppendStep(p)
    <3>1. /\ HasProgram(file, cmd[p].prog)
          /\ \/ blind[p] = "version"
             \/ ~HasVersion(file, cmd[p].prog, cmd[p].audit.version)
      BY <2>1 DEF AppendStep, SeqInv, Learnt
    <3>2. tmp'[p] = IF file.st = "empty" THEN file
                    ELSE Appended(file, cmd[p].prog, cmd[p].audit)
      BY <2>1 DEF AppendStep, TypeOK
    <3> QED
      BY <1>1, <3>1, <3>2 DEF Prepared, HasProgram, HasVersion, Appended
  <2>2. CASE InsertStep(p)
    <3>1. blind[p] = "program" \/ ~HasProgram(file, cmd[p].prog)
      BY <2>2 DEF InsertStep, SeqInv, Learnt
    <3>2. tmp'[p] = Inserted(file, cmd[p].prog, cmd[p].audit)
      BY <2>2 DEF InsertStep, TypeOK
    <3> QED
      BY <1>1, <3>1, <3>2 DEF Prepared, HasProgram, Inserted
  <2> QED
    BY <2>1, <2>2
<1>4. Learnt(p)'
  BY <1>2, <1>3 DEF Learnt
<1> QED
  BY <1>1, <1>4, QuietLabels, SeqMove DEF SeqInv, Plain, Learning, Keeps

\* One step of the only running command keeps the invariant, and changes the
\* abstract log, if at all, by a rename or by a failed test.
LEMMA SeqStep ==
    ASSUME TypeOK, SeqInv, NEW p \in Proc, Lonely(p), Step(p)
    PROVE  /\ SeqInv'
           /\ \/ Keeps(p)
              \/ Rename(p) \/ HasProgramStep(p) \/ HasVersionStep(p)
<1> USE QuietLabels
<1>1. CASE AddExists(p)
  BY <1>1, SeqGo DEF AddExists
<1>2. CASE InitExists(p)
  <2>1. CASE file.st # "absent"
    BY <1>2, <2>1, SeqGo, SeqExit DEF InitExists, InitReturns
  <2>2. CASE file.st = "absent"
    <3>1. /\ Goto(p, "init_open") /\ pc'[p] = "init_open"
          /\ UNCHANGED <<file, blind>> /\ Aside(p) /\ blind'[p] = "none"
      BY <1>2, <2>2 DEF InitExists, Goto, TypeOK, Aside, SeqInv, Learnt
    <3>2. Learnt(p)'
      BY <2>2, <3>1 DEF Learnt
    <3> QED
      BY <3>1, <3>2, SeqMove DEF SeqInv, Plain, Learning, Keeps
  <2> QED
    BY <2>1, <2>2
<1>3. CASE InitOpen(p)
  <2>1. file.audits = NoAudits
    BY <1>3 DEF InitOpen, SeqInv, Learnt, Plain
  <2>2. Goto(p, "init_write") /\ pc'[p] = "init_write" /\ file'.audits = NoAudits
    BY <1>3 DEF InitOpen, Goto, TypeOK, Empty
  <2>3. Aside(p) /\ blind'[p] = "none"
    BY <1>3 DEF InitOpen, Aside, SeqInv, Learnt
  <2>4. Learnt(p)'
    BY <2>2, <2>3 DEF Learnt
  <2> QED
    BY <2>1, <2>2, <2>3, <2>4, SeqMove DEF Plain, Learning, Keeps
<1>4. CASE InitFails(p)
  BY <1>4, SeqExit DEF InitFails
<1>5. CASE InitWrite(p)
  BY <1>5, SeqInitWrite
<1>6. CASE LockTest(p)
  <2>1. CASE ~lock
    BY <1>6, <2>1, SeqGo DEF LockTest
  <2>2. CASE lock /\ elapsed[p] < LockTimeout
    BY <1>6, <2>2, SeqStill DEF LockTest, Learning, TypeOK
  <2>3. CASE lock /\ elapsed[p] >= LockTimeout
    BY <1>6, <2>3, SeqExit DEF LockTest, TypeOK
  <2> QED
    BY <2>1, <2>2, <2>3 DEF TypeOK
<1>7. CASE LockCreate(p)
  BY <1>7, SeqGo DEF LockCreate
<1>8. CASE LockFails(p)
  BY <1>8, SeqExit DEF LockFails
<1>9. CASE Validate(p)
  BY <1>9, SeqRelease, SeqGo DEF Validate, Build
<1>10. CASE BuildFails(p)
  BY <1>10, SeqExit DEF BuildFails
<1>11. CASE HasProgramStep(p)
  BY <1>11, SeqRead
<1>12. CASE HasVersionStep(p)
  BY <1>12, SeqRead
<1>13. CASE AppendStep(p)
  BY <1>13, SeqFilter
<1>14. CASE InsertStep(p)
  BY <1>14, SeqFilter
<1>15. CASE AppendFails(p)
  BY <1>15, SeqRelease DEF AppendFails
<1>16. CASE Rename(p)
  BY <1>16, SeqRename
<1>17. CASE RenameFails(p)
  BY <1>17, SeqRelease DEF RenameFails
<1>18. CASE ReleaseTest(p)
  BY <1>18, SeqGo, SeqExit DEF ReleaseTest
<1>19. CASE ReleaseRm(p)
  BY <1>19, SeqExit DEF ReleaseRm
<1>20. CASE ReadExists(p)
  BY <1>20, SeqGo, SeqExit DEF ReadExists
<1>21. CASE ReadFirst(p)
  BY <1>21, SeqGo, SeqExit DEF ReadFirst
<1>22. CASE ReadSecond(p)
  BY <1>22, SeqExit DEF ReadSecond
<1> QED
  BY <1>1, <1>2, <1>3, <1>4, <1>5, <1>6, <1>7, <1>8, <1>9, <1>10, <1>11, <1>12,
     <1>13, <1>14, <1>15, <1>16, <1>17, <1>18, <1>19, <1>20, <1>21, <1>22 DEF Step

\* A step that leaves the audits gives up a failed test or stutters.
LEMMA LogKeeps ==
    ASSUME SeqInv, NEW p \in Proc, Lonely(p), Keeps(p)
    PROVE  [Log!Next]_(Log!logVars)
<1>1. \A q \in Proc : q # p => blind'[q] = "none" /\ blind[q] = "none"
  BY DEF Keeps, Aside, Lonely, SeqInv, Learnt
<1>2. CASE blind'[p] = "none"
  <2>1. Failed' = {}
    BY <1>1, <1>2 DEF Failed
  <2> QED
    BY <2>1 DEF Keeps, Log!Next, Log!GiveUp
<1>3. CASE UNCHANGED <<blind, cmd>>
  <2>1. Failed' = Failed
    BY <1>3 DEF Failed
  <2> QED
    BY <2>1 DEF Keeps, Log!logVars
<1> QED
  BY <1>2, <1>3 DEF Keeps

LEMMA SeqNextKeeps ==
    ASSUME TypeOK, SeqInv, [SeqNext]_vars
    PROVE  SeqInv' /\ [Log!Next]_(Log!logVars)
<1>1. CASE SeqNext
  <2>1. PICK p \in Proc : Lonely(p) /\ ProcNext(p)
    BY <1>1 DEF SeqNext, Lonely
  <2>2. CASE Step(p)
    <3>1. SeqInv'
      BY <2>1, <2>2, SeqStep
    <3>2. pc[p] # "idle" => /\ cmd[p].prog \in Program /\ cmd[p].audit \in Log!Entry
      BY DEF TypeOK, Command, Audit, Log!Entry
    <3>3. CASE Keeps(p)
      BY <2>1, <3>1, <3>3, LogKeeps
    <3>4. CASE Rename(p)
      <4>1. pc[p] # "idle"
        BY <3>4 DEF Rename
      <4> QED
        BY <2>1, <3>1, <3>2, <3>4, <4>1, SeqRename, LogKeeps DEF Log!Next
    <3>5. CASE HasProgramStep(p) \/ HasVersionStep(p)
      <4>1. pc[p] # "idle"
        BY <3>5 DEF HasProgramStep, HasVersionStep
      <4> QED
        BY <2>1, <3>1, <3>2, <3>5, <4>1, SeqRead, LogKeeps DEF Log!Next
    <3> QED
      BY <2>1, <2>2, <3>3, <3>4, <3>5, SeqStep
  <2>3. CASE Crash(p)
    BY <2>1, <2>3, SeqExit, LogKeeps DEF Crash
  <2>4. CASE \E c \in CommandLine : Start(p, c)
    <3>1. PICK c \in CommandLine : Start(p, c)
      BY <2>4
    <3>2. CASE c.op = "diff" /\ c.audit.version = c.other
      BY <2>1, <3>1, <3>2, SeqStill, LogKeeps DEF Start, Learning
    <3>3. CASE ~(c.op = "diff" /\ c.audit.version = c.other)
      BY <2>1, <3>1, <3>3, SeqGo, QuietLabels, LogKeeps DEF Start, EntryPoint
    <3> QED
      BY <3>2, <3>3
  <2> QED
    BY <2>1, <2>2, <2>3, <2>4 DEF ProcNext
<1>2. CASE UNCHANGED vars
  <2>1. SeqInv'
    BY <1>2 DEF vars, locals, ghosts, SeqInv, Plain, Learnt, Prepared,
       HasProgram, HasVersion, Inserted, Appended
  <2>2. Failed' = Failed
    BY <1>2 DEF vars, locals, Failed
  <2> QED
    BY <1>2, <2>1, <2>2 DEF vars, Log!logVars
<1> QED
  BY <1>1, <1>2

LEMMA SeqNextIsNext == [SeqNext]_vars => [Next]_vars
BY DEF SeqNext, Next

LEMMA InitSeq == Init => SeqInv /\ Log!Init
<1> SUFFICES ASSUME Init PROVE SeqInv /\ Log!Init
  OBVIOUS
<1>1. SeqInv
  BY DEF Init, SeqInv, Plain, Learnt, Absent
<1>2. Failed = {}
  BY NoneFailed DEF Init
<1> QED
  BY <1>1, <1>2 DEF Init, Absent, NoAudits, Log!Init

\* With one command at a time, whatever is killed or fails and wherever, the
\* history file implements AuditLog: a command changes what the file holds by
\* recording one audit of a version that is not in it, or not at all, and
\* repeats a version or replaces a program's list only when jq failed on the
\* very test that should have prevented it, once for each such failure.
THEOREM SequentialLog == SeqSpec => ImplementsLog
<1>1. Init => TypeOK /\ SeqInv /\ Log!Init
  BY InitTyping, InitSeq
<1>2. TypeOK /\ SeqInv /\ [SeqNext]_vars
        => TypeOK' /\ SeqInv' /\ [Log!Next]_(Log!logVars)
  BY SeqNextIsNext, NextTyping, SeqNextKeeps
<1> QED
  BY <1>1, <1>2, PTL DEF SeqSpec, ImplementsLog, Log!Spec

-----------------------------------------------------------------------------
(* One command at a time: what an add that exited 0 reported is recorded.  *)

\* What an add that is about to return 0 promises.
Stands(p) == \/ file.st = "empty"
             \/ <<cmd[p].prog, cmd[p].audit.version>> \in Recorded(file)

\* The strengthening: the file is created before anything is acknowledged, and
\* status 0 is decided only when the version is in the file, or the file empty.
AckInv ==
    /\ AckedUnlessEmpty
    /\ file.st = "absent" => acked = {}
    /\ \A p \in Proc :
         /\ pc[p] = "init_write" => acked = {}
         /\ pc[p] \in {"release_test", "release_rm"} /\ rc[p] = 0 => Stands(p)

LEMMA RecordedGrows ==
    ASSUME NEW c \in Content, NEW d, NEW g \in Program, NEW a \in Audit,
           d.audits = [c.audits EXCEPT ![g] = Append(@, a)]
    PROVE  /\ Recorded(c) \subseteq Recorded(d)
           /\ <<g, a.version>> \in Recorded(d)
<1> DEFINE s == c.audits[g]
<1>1. c.audits \in [Program -> Seq(Audit)] /\ a.version \in Version
  BY DEF Content, Audit
<1>2. d.audits[g] = Append(s, a)
  BY <1>1
<1>3. \A h \in Program : h # g => d.audits[h] = c.audits[h]
  BY <1>1
<1>4. s \in Seq(Audit) /\ DOMAIN s = 1..Len(s) /\ Len(s) \in Nat
  BY <1>1
<1>5. /\ DOMAIN Append(s, a) = 1..(Len(s) + 1)
      /\ \A i \in 1..Len(s) : Append(s, a)[i] = s[i]
      /\ Append(s, a)[Len(s) + 1] = a
  BY <1>4
<1> HIDE DEF s
<1>6. HasVersion(d, g, a.version)
  <2>1. Len(s) + 1 \in DOMAIN d.audits[g]
    BY <1>2, <1>4, <1>5
  <2> QED
    BY <1>2, <1>5, <2>1 DEF HasVersion
<1>7. \A h \in Program, v \in Version : HasVersion(c, h, v) => HasVersion(d, h, v)
  <2> SUFFICES ASSUME NEW h \in Program, NEW v \in Version, HasVersion(c, h, v)
               PROVE  HasVersion(d, h, v)
    OBVIOUS
  <2>1. CASE h # g
    BY <2>1, <1>3 DEF HasVersion
  <2>2. CASE h = g
    <3>1. PICK i \in DOMAIN s : s[i].version = v
      BY <2>2 DEF HasVersion, s
    <3>2. i \in DOMAIN d.audits[g] /\ d.audits[g][i].version = v
      BY <3>1, <1>2, <1>4, <1>5
    <3> QED
      BY <3>2, <2>2 DEF HasVersion
  <2> QED
    BY <2>1, <2>2
<1>8. Recorded(c) \subseteq Recorded(d)
  BY <1>7 DEF Recorded
<1>9. <<g, a.version>> \in Recorded(d)
  BY <1>1, <1>6 DEF Recorded
<1> QED
  BY <1>8, <1>9

LEMMA RecordedReplaced ==
    ASSUME NEW c \in Content, NEW d, NEW g \in Program, NEW a \in Audit,
           d.audits = [c.audits EXCEPT ![g] = <<a>>]
    PROVE  /\ Recorded(c) \subseteq Recorded(d) \cup ({g} \X Version)
           /\ <<g, a.version>> \in Recorded(d)
<1>1. c.audits \in [Program -> Seq(Audit)] /\ a.version \in Version
  BY DEF Content, Audit
<1>2. d.audits[g] = <<a>>
  BY <1>1
<1>3. \A h \in Program : h # g => d.audits[h] = c.audits[h]
  BY <1>1
<1>4. HasVersion(d, g, a.version)
  BY <1>2 DEF HasVersion
<1>5. \A h \in Program, v \in Version :
        HasVersion(c, h, v) => h = g \/ HasVersion(d, h, v)
  BY <1>3 DEF HasVersion
<1> QED
  BY <1>1, <1>4, <1>5 DEF Recorded

\* A step that leaves the file, acknowledges nothing and decides no status 0
\* keeps the invariant: the other processes are idle.
LEMMA AckQuiet ==
    ASSUME TypeOK, AckInv, NEW p \in Proc, NEW l, Lonely(p), Goto(p, l),
           l \notin {"init_write", "release_test", "release_rm"},
           UNCHANGED <<file, acked>>
    PROVE  AckInv'
<1>1. pc'[p] = l /\ \A q \in Proc : q # p => pc'[q] = "idle"
  BY DEF Goto, TypeOK, Lonely
<1>2. \A q \in Proc : pc'[q] \notin {"init_write", "release_test", "release_rm"}
  BY <1>1
<1>3. Recorded(file') = Recorded(file)
  OBVIOUS
<1> QED
  BY <1>2, <1>3 DEF AckInv, AckedUnlessEmpty, AckedRecorded

LEMMA AckExit ==
    ASSUME TypeOK, AckInv, NEW p \in Proc, NEW k, Lonely(p), Exit(p, k),
           UNCHANGED <<file, acked>>
    PROVE  AckInv'
BY AckQuiet DEF Exit

\* Turning to _release_lock with a status that is not 0, or with the version
\* in the file.
LEMMA AckRelease ==
    ASSUME TypeOK, AckInv, NEW p \in Proc, NEW k, Lonely(p), ToRelease(p, k),
           UNCHANGED <<file, acked>>, k = 0 => Stands(p)
    PROVE  AckInv'
<1>1. pc'[p] = "release_test" /\ \A q \in Proc : q # p => pc'[q] = "idle"
  BY DEF ToRelease, Goto, TypeOK, Lonely
<1>2. rc'[p] = k /\ cmd' = cmd
  BY DEF ToRelease, TypeOK
<1>3. k = 0 => Stands(p)'
  BY <1>2 DEF Stands
<1> QED
  BY <1>1, <1>2, <1>3 DEF AckInv, AckedUnlessEmpty, AckedRecorded

LEMMA AckRename ==
    ASSUME TypeOK, SeqInv, AckInv, NEW p \in Proc, Lonely(p), Rename(p)
    PROVE  AckInv'
<1>1. /\ pc[p] = "rename" /\ Prepared(p) /\ Plain(file)
      /\ file' = tmp[p] /\ acked' = acked \ Overwritten(p) /\ cmd' = cmd
  BY DEF Rename, SeqInv, Learnt, ToRelease
<1>2. pc'[p] = "release_test" /\ \A q \in Proc : q # p => pc'[q] = "idle"
  BY DEF Rename, ToRelease, Goto, TypeOK, Lonely
<1>3. cmd[p].prog \in Program /\ cmd[p].audit \in Audit /\ file \in Content
  BY <1>1 DEF TypeOK, Command
<1>4. CASE tmp[p] = file /\ file.st = "empty"
  <2>1. file'.st = "empty"
    BY <1>1, <1>4
  <2> QED
    BY <1>2, <2>1 DEF AckInv, AckedUnlessEmpty, Stands
<1>5. CASE /\ tmp[p].st = "json" /\ file.st # "empty"
           /\ tmp[p].audits =
                [file.audits EXCEPT ![cmd[p].prog] = Append(@, cmd[p].audit)]
  <2> DEFINE g == cmd[p].prog
             a == cmd[p].audit
             d == tmp[p]
  <2>a. d.audits = [file.audits EXCEPT ![g] = Append(@, a)]
    BY <1>5
  <2>b. g \in Program /\ a \in Audit
    BY <1>3
  <2> HIDE DEF g, a, d
  <2>c. Recorded(file) \subseteq Recorded(d) /\ <<g, a.version>> \in Recorded(d)
    BY <1>3, <2>a, <2>b, RecordedGrows
  <2>1. /\ Recorded(file) \subseteq Recorded(file')
        /\ <<cmd[p].prog, cmd[p].audit.version>> \in Recorded(file')
    BY <1>1, <2>c DEF g, a, d
  <2>3. AckedUnlessEmpty' /\ Stands(p)'
    BY <1>1, <1>5, <2>1 DEF AckInv, AckedUnlessEmpty, AckedRecorded, Stands
  <2>4. file'.st = "json"
    BY <1>1, <1>5
  <2> QED
    BY <1>2, <2>3, <2>4 DEF AckInv
<1>6. CASE /\ tmp[p].st = "json" /\ file.st # "empty" /\ blind[p] = "program"
           /\ tmp[p].audits = [file.audits EXCEPT ![cmd[p].prog] = <<cmd[p].audit>>]
  <2> DEFINE g == cmd[p].prog
             a == cmd[p].audit
             d == tmp[p]
  <2>a. d.audits = [file.audits EXCEPT ![g] = <<a>>]
    BY <1>6
  <2>b. g \in Program /\ a \in Audit
    BY <1>3
  <2> HIDE DEF g, a, d
  <2>c. Recorded(file) \subseteq Recorded(d) \cup ({g} \X Version)
        /\ <<g, a.version>> \in Recorded(d)
    BY <1>3, <2>a, <2>b, RecordedReplaced
  <2>1. /\ Recorded(file) \ Overwritten(p) \subseteq Recorded(file')
        /\ <<cmd[p].prog, cmd[p].audit.version>> \in Recorded(file')
    BY <1>1, <1>6, <2>c DEF g, a, d, Overwritten
  <2>2. AckedUnlessEmpty' /\ Stands(p)'
    BY <1>1, <1>6, <2>1 DEF AckInv, AckedUnlessEmpty, AckedRecorded, Stands
  <2>3. file'.st = "json"
    BY <1>1, <1>6
  <2> QED
    BY <1>2, <2>2, <2>3 DEF AckInv
<1> QED
  BY <1>1, <1>4, <1>5, <1>6, PreparedFacts

LEMMA AckReleaseRm ==
    ASSUME TypeOK, SeqInv, AckInv, NEW p \in Proc, Lonely(p), ReleaseRm(p)
    PROVE  AckInv'
<1>1. file' = file
  BY DEF ReleaseRm
<1>2. \A q \in Proc : pc'[q] = "idle"
  BY DEF ReleaseRm, Exit, Goto, TypeOK, Lonely
<1>3. rc[p] = 0 => Stands(p)
  BY DEF ReleaseRm, AckInv
<1>4. CASE rc[p] = 0
  <2>1. acked' = acked \cup {<<cmd[p].prog, cmd[p].audit.version>>}
    BY <1>4 DEF ReleaseRm
  <2>2. AckedUnlessEmpty'
    BY <1>1, <1>3, <1>4, <2>1 DEF Stands, AckInv, AckedUnlessEmpty, AckedRecorded
  <2>3. file.st # "absent"
    BY <1>3, <1>4, NoAuditsFacts DEF Stands, SeqInv, Plain
  <2> QED
    BY <1>1, <1>2, <2>2, <2>3 DEF AckInv
<1>5. CASE rc[p] # 0
  BY <1>1, <1>2, <1>5 DEF ReleaseRm, AckInv, AckedUnlessEmpty, AckedRecorded
<1> QED
  BY <1>4, <1>5

LEMMA AckStep ==
    ASSUME TypeOK, SeqInv, AckInv, ~MvMayFail, NEW p \in Proc, Lonely(p), Step(p)
    PROVE  AckInv'
<1>1. CASE AddExists(p)
  BY <1>1, AckQuiet DEF AddExists, ghosts
<1>2. CASE InitExists(p)
  BY <1>2, AckQuiet, AckExit DEF InitExists, InitReturns, ghosts
<1>3. CASE InitOpen(p)
  <2>1. acked = {} /\ acked' = {}
    BY <1>3 DEF InitOpen, SeqInv, Learnt, AckInv, ghosts
  <2>2. pc'[p] = "init_write" /\ \A q \in Proc : q # p => pc'[q] = "idle"
    BY <1>3 DEF InitOpen, Goto, TypeOK, Lonely
  <2> QED
    BY <2>1, <2>2 DEF AckInv, AckedUnlessEmpty, AckedRecorded
<1>4. CASE InitFails(p)
  BY <1>4, AckExit DEF InitFails, ghosts
<1>5. CASE InitWrite(p)
  <2>1. acked = {} /\ acked' = {}
    BY <1>5 DEF InitWrite, AckInv, ghosts
  <2>2. /\ pc'[p] \in {"idle", "lock_test"}
        /\ \A q \in Proc : q # p => pc'[q] = "idle"
    BY <1>5 DEF InitWrite, InitReturns, Exit, Goto, TypeOK, Lonely
  <2>3. \A q \in Proc : pc'[q] \notin {"init_write", "release_test", "release_rm"}
    BY <2>2
  <2> QED
    BY <2>1, <2>3 DEF AckInv, AckedUnlessEmpty, AckedRecorded
<1>6. CASE LockTest(p)
  <2>1. CASE ~lock
    BY <1>6, <2>1, AckQuiet DEF LockTest, ghosts
  <2>2. CASE lock /\ elapsed[p] < LockTimeout
    <3>1. Goto(p, "lock_test") /\ UNCHANGED <<file, acked>>
      BY <1>6, <2>2 DEF LockTest, TypeOK, Goto, ghosts
    <3> QED
      BY <3>1, AckQuiet
  <2>3. CASE lock /\ elapsed[p] >= LockTimeout
    BY <1>6, <2>3, AckExit DEF LockTest, TypeOK, ghosts
  <2> QED
    BY <2>1, <2>2, <2>3 DEF TypeOK
<1>7. CASE LockCreate(p)
  BY <1>7, AckQuiet DEF LockCreate
<1>8. CASE LockFails(p)
  BY <1>8, AckExit DEF LockFails, ghosts
<1>9. CASE Validate(p)
  BY <1>9, AckQuiet, AckRelease DEF Validate, Build, ERR_JSON_OP, ghosts
<1>10. CASE BuildFails(p)
  BY <1>10, AckExit DEF BuildFails, ghosts
<1>11. CASE HasProgramStep(p)
  BY <1>11, AckQuiet DEF HasProgramStep, ghosts
<1>12. CASE HasVersionStep(p)
  <2>1. CASE /\ HasVersion(file, cmd[p].prog, cmd[p].audit.version)
             /\ ToRelease(p, 0)
    <3>1. cmd[p].prog \in Program /\ cmd[p].audit.version \in Version
      BY <1>12 DEF HasVersionStep, TypeOK, Command, Audit
    <3>2. Stands(p)
      BY <2>1, <3>1 DEF Stands, Recorded
    <3> QED
      BY <1>12, <2>1, <3>2, AckRelease DEF HasVersionStep
  <2>2. CASE Goto(p, "append")
    BY <1>12, <2>2, AckQuiet DEF HasVersionStep
  <2> QED
    BY <1>12, <2>1, <2>2 DEF HasVersionStep
<1>13. CASE AppendStep(p)
  BY <1>13, AckQuiet DEF AppendStep, ghosts
<1>14. CASE InsertStep(p)
  BY <1>14, AckQuiet DEF InsertStep, ghosts
<1>15. CASE AppendFails(p)
  BY <1>15, AckRelease DEF AppendFails, ERR_JSON_OP, ghosts
<1>16. CASE Rename(p)
  BY <1>16, AckRename
<1>17. CASE RenameFails(p)
  BY <1>17 DEF RenameFails
<1>18. CASE ReleaseTest(p)
  <2>1. CASE lock
    <3>1. /\ pc'[p] = "release_rm" /\ UNCHANGED <<file, cmd, rc, acked>>
          /\ \A q \in Proc : q # p => pc'[q] = "idle"
      BY <1>18, <2>1 DEF ReleaseTest, Goto, TypeOK, Lonely, ghosts
    <3>2. rc[p] = 0 => Stands(p)
      BY <1>18 DEF ReleaseTest, AckInv
    <3> QED
      BY <3>1, <3>2 DEF AckInv, AckedUnlessEmpty, AckedRecorded, Stands
  <2>2. CASE ~lock
    BY <1>18, <2>2, AckExit DEF ReleaseTest, ghosts
  <2> QED
    BY <2>1, <2>2
<1>19. CASE ReleaseRm(p)
  BY <1>19, AckReleaseRm
<1>20. CASE ReadExists(p)
  BY <1>20, AckQuiet, AckExit DEF ReadExists, ghosts
<1>21. CASE ReadFirst(p)
  BY <1>21, AckQuiet, AckExit DEF ReadFirst, ghosts
<1>22. CASE ReadSecond(p)
  BY <1>22, AckExit DEF ReadSecond, ghosts
<1> QED
  BY <1>1, <1>2, <1>3, <1>4, <1>5, <1>6, <1>7, <1>8, <1>9, <1>10, <1>11, <1>12,
     <1>13, <1>14, <1>15, <1>16, <1>17, <1>18, <1>19, <1>20, <1>21, <1>22 DEF Step

LEMMA AckNextKeeps ==
    ASSUME TypeOK, SeqInv, AckInv, ~MvMayFail, [SeqNext]_vars
    PROVE  AckInv'
<1>1. CASE SeqNext
  <2>1. PICK p \in Proc : Lonely(p) /\ ProcNext(p)
    BY <1>1 DEF SeqNext, Lonely
  <2>2. CASE Step(p)
    BY <2>1, <2>2, AckStep
  <2>3. CASE Crash(p)
    BY <2>1, <2>3, AckExit DEF Crash
  <2>4. CASE \E c \in CommandLine : Start(p, c)
    <3>1. PICK c \in CommandLine : Start(p, c)
      BY <2>4
    <3>2. CASE c.op = "diff" /\ c.audit.version = c.other
      <4>1. Goto(p, "idle") /\ UNCHANGED <<file, acked>>
        BY <3>1, <3>2 DEF Start, Goto, TypeOK
      <4> QED
        BY <2>1, <4>1, AckQuiet
    <3>3. CASE ~(c.op = "diff" /\ c.audit.version = c.other)
      BY <2>1, <3>1, <3>3, AckQuiet DEF Start, EntryPoint
    <3> QED
      BY <3>2, <3>3
  <2> QED
    BY <2>1, <2>2, <2>3, <2>4 DEF ProcNext
<1>2. CASE UNCHANGED vars
  BY <1>2 DEF vars, locals, ghosts, AckInv, AckedUnlessEmpty, AckedRecorded,
     Stands, Recorded, HasVersion
<1> QED
  BY <1>1, <1>2

\* With one command at a time and a file system on which mv works, an add that
\* exited with status 0 has its version in the history, whatever was killed
\* since, until an add of the same program replaces its list because its test
\* for the program failed, and unless a killed init left the file empty.
THEOREM AcknowledgedKept ==
    ASSUME ~MvMayFail
    PROVE  SeqSpec => []AckedUnlessEmpty
<1>1. Init => TypeOK /\ SeqInv /\ AckInv
  <2>1. Init => AckInv
    BY DEF Init, AckInv, AckedUnlessEmpty, AckedRecorded
  <2> QED
    BY <2>1, InitTyping, InitSeq
<1>2. TypeOK /\ SeqInv /\ AckInv /\ [SeqNext]_vars
        => TypeOK' /\ SeqInv' /\ AckInv'
  BY SeqNextIsNext, NextTyping, SeqNextKeeps, AckNextKeeps
<1>3. AckInv => AckedUnlessEmpty
  BY DEF AckInv
<1> QED
  BY <1>1, <1>2, <1>3, PTL DEF SeqSpec
=============================================================================
