------------------------------ MODULE AuditLog ------------------------------
(***************************************************************************)
(* What the audit history promises its users: for every program a log of   *)
(* audits to which one audit of a new version is appended at a time and    *)
(* from which nothing is removed.  The two faults it admits are named: an  *)
(* add whose look at the log failed repeats a version, or replaces the     *)
(* list of its program, once per failure and for that program only.        *)
(***************************************************************************)
EXTENDS Naturals, Sequences

CONSTANTS Program, Version, IdSets

VARIABLES log,      \* the audits of every program
          failed    \* looks at the log that failed, of an add under way

logVars == <<log, failed>>

Entry == [version : Version, ids : IdSets]

Init == log = [g \in Program |-> <<>>] /\ failed = {}

\* The version is new, or the look at the versions of the program failed.
Record(g, a) ==
    /\ \/ \A i \in DOMAIN log[g] : log[g][i].version # a.version
       \/ <<"version", g>> \in failed
    /\ log' = [log EXCEPT ![g] = Append(@, a)]
    /\ failed' = {}

\* The look for the program failed: its list is replaced.
Replace(g, a) ==
    /\ <<"program", g>> \in failed
    /\ log' = [log EXCEPT ![g] = <<a>>]
    /\ failed' = {}

\* A look at a program that is in the log fails.
Fail(g) ==
    /\ log[g] # <<>>
    /\ failed' \in {{<<"program", g>>}, {<<"version", g>>}}
    /\ UNCHANGED log

\* The add is given up, or ends without a change.
GiveUp == failed' = {} /\ UNCHANGED log

Next == \/ \E g \in Program, a \in Entry : Record(g, a) \/ Replace(g, a)
        \/ \E g \in Program : Fail(g)
        \/ GiveUp

Spec == Init /\ [][Next]_logVars
=============================================================================
