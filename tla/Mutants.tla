------------------------------ MODULE Mutants ------------------------------
(***************************************************************************)
(* jcrpc-mutants: for each selected mutant a fresh copy of the repository, *)
(* the named test on the unmodified copy (the control), the plant at its   *)
(* only anchor, the test again, and a row of the table that says whether   *)
(* the named assertion killed it.  The table is written when the loop has  *)
(* ended; an invocation that stops early, or is killed, leaves the table,  *)
(* the logs and the fixtures that are there.                               *)
(*                                                                         *)
(* What go test -json prints is an exit code and a set of events, each an  *)
(* action, a test and its output; a line that is no JSON is the event      *)
(* Garbage.                                                                *)
(***************************************************************************)
EXTENDS Naturals, Sequences

CONSTANTS
    Catalog,     \* the mutants, in order: name, test and assertion
    Outcomes,    \* what go test may print
    NoLog,
    MaxHarness, MaxHarnessKills   \* bounds

ASSUME CatalogAssumption ==
    /\ Len(Catalog) \in Nat \ {0} /\ DOMAIN Catalog = 1..Len(Catalog)
    /\ \A j, k \in DOMAIN Catalog : Catalog[j].name = Catalog[k].name => j = k

MutantNames == {Catalog[k].name : k \in DOMAIN Catalog}

VARIABLES
    fixture,    \* fixture[m]: who copied into it, whether the text to replace
                \*   occurs exactly once in it, and whether it is planted
    control,    \* control[m], log[m]: what the logs on disk show, and on
    log,        \*   which fixture the test ran
    table,      \* the rows of mutants.md
    selected,   \* the mutants of this invocation
    turn,       \* position in them
    rows,       \* the rows of the report so far
    stage,      \* "idle" or the next step
    code,       \* exit code of the last invocation; 3 while it runs
    harness, harnessKills

disk == <<fixture, control, log, table>>
mutantsVars == <<disk, selected, turn, rows, stage, code, harness, harnessKills>>

NoFixture == [copies |-> {}, unique |-> FALSE, planted |-> FALSE]

MutantsInit ==
    /\ fixture = [m \in MutantNames |-> NoFixture]
    /\ control = [m \in MutantNames |-> NoLog]
    /\ log = [m \in MutantNames |-> NoLog]
    /\ table = <<>> /\ selected = <<>> /\ turn = 1 /\ rows = <<>>
    /\ stage = "idle" /\ code = 1
    /\ harness = 0 /\ harnessKills = 0

Mutant == selected[turn]
Name == Mutant.name

Stops(c) == stage' = "idle" /\ code' = c

\* -only picks one mutant of the catalog; an unknown name exits 2 at once.
HarnessStart ==
    /\ stage = "idle" /\ harness < MaxHarness
    /\ harness' = harness + 1 /\ turn' = 1 /\ rows' = <<>>
    /\ \/ /\ selected' \in {Catalog} \cup {<<Catalog[k]>> : k \in DOMAIN Catalog}
          /\ stage' = "mkdir" /\ code' = 3
       \/ selected' = <<>> /\ Stops(2)
    /\ UNCHANGED <<disk, harnessKills>>

\* A faulty variant: an existing fixture is used again.
MkdirExisting ==
    /\ stage = "mkdir"
    /\ fixture' = [fixture EXCEPT ![Name].copies = @ \cup {harness}]
    /\ stage' = "copy"
    /\ UNCHANGED <<control, log, table, selected, turn, rows, code, harness, harnessKills>>

\* os.Mkdir refuses an existing fixture.
Mkdir ==
    /\ stage = "mkdir"
    /\ IF fixture[Name].copies # {} THEN Stops(1) /\ UNCHANGED fixture
       ELSE /\ fixture' = [fixture EXCEPT ![Name].copies = {harness}]
            /\ stage' = "copy" /\ UNCHANGED code
    /\ UNCHANGED <<control, log, table, selected, turn, rows, harness, harnessKills>>

\* copyTree of the modules, and for the mutants that test generated code the
\* backends, copied and put in their place by go mod edit -replace.  The
\* copies are the repository's files as they are now: a plant left there is
\* overwritten, and the text to replace occurs in them once or not.
CopyTrees ==
    /\ stage = "copy"
    /\ \/ Stops(1) /\ UNCHANGED fixture
       \/ /\ \E once \in BOOLEAN :
                fixture' = [fixture EXCEPT ![Name].unique = once, ![Name].planted = FALSE]
          /\ stage' = "control" /\ UNCHANGED code
    /\ UNCHANGED <<control, log, table, selected, turn, rows, harness, harnessKills>>

----------------------------------------------------------------------------
(* Evidence.                                                               *)

Event(action, test, output) == [action |-> action, test |-> test, output |-> output]
Garbage == Event("garbage", "", "")

\* The fixtures a test runs in: one invocation has copied into them.
Copied == [copies : {{h} : h \in 1..MaxHarness}, unique : BOOLEAN, planted : BOOLEAN]

\* Only "output" events carry output.
ASSUME OutcomesAssumption ==
    /\ \A o \in Outcomes : \A e \in o.events :
          /\ e = Event(e.action, e.test, e.output)
          /\ e.action # "output" => e.output = ""
    /\ NoLog \notin [out : Outcomes,
                     on : Copied]
    /\ MaxHarness \in Nat

NamedPass(m, o) ==
    /\ o.code = 0 /\ Garbage \notin o.events
    /\ \A e \in o.events : e.action \notin {"fail", "skip"}
    /\ \E e \in o.events : e.action = "pass" /\ e.test = m.test

\* strings.Contains: every output contains the empty assertion.
Contains(output, assertion) == assertion \in {"", output}

\* A mutant without an assertion is never killed.
NamedFailure(m, o) ==
    /\ o.code = 1 /\ m.assertion # "" /\ Garbage \notin o.events
    /\ \A e \in o.events : e.action # "skip"
    /\ \E e \in o.events : /\ e.action = "output" /\ e.test = m.test
                           /\ Contains(e.output, m.assertion)
    /\ \E e \in o.events : e.action = "fail" /\ e.test = m.test

\* executeTest and its log; on is the fixture the test ran in.
Evidence(o) == [out |-> o, on |-> fixture[Name]]

\* A log whose writing fails or is cut short shows nothing.
TornLog(logs) == {logs, [logs EXCEPT ![Name] = NoLog]}

RunControl ==
    /\ stage = "control"
    /\ \/ Stops(1) /\ control' \in TornLog(control)
       \/ \E o \in Outcomes :
             /\ control' = [control EXCEPT ![Name] = Evidence(o)]
             /\ IF NamedPass(Mutant, o) THEN stage' = "plant" /\ UNCHANGED code
                ELSE Stops(1)
    /\ UNCHANGED <<fixture, log, table, selected, turn, rows, harness, harnessKills>>

\* The anchor must occur exactly once in the copied file.
Plant ==
    /\ stage = "plant"
    /\ \/ Stops(1) /\ UNCHANGED fixture
       \/ /\ fixture[Name].unique
          /\ fixture' = [fixture EXCEPT ![Name].planted = TRUE]
          /\ stage' = "test" /\ UNCHANGED code
    /\ UNCHANGED <<control, log, table, selected, turn, rows, harness, harnessKills>>

\* The test on the planted copy, its log, and the mutant's row.
RunTest ==
    /\ stage = "test"
    /\ \/ Stops(1) /\ log' \in TornLog(log) /\ UNCHANGED <<turn, rows>>
       \/ \E o \in Outcomes :
             /\ log' = [log EXCEPT ![Name] = Evidence(o)]
             /\ rows' = Append(rows, [name |-> Name, exit |-> o.code,
                                      killed |-> NamedFailure(Mutant, o)])
             /\ turn' = turn + 1
             /\ stage' = IF turn < Len(selected) THEN "mkdir" ELSE "table"
             /\ UNCHANGED code
    /\ UNCHANGED <<fixture, control, table, selected, harness, harnessKills>>

\* A faulty variant: the flag forgets a survivor that a kill follows.
WriteTableLast ==
    /\ stage = "table"
    /\ \/ Stops(1) /\ table' \in {table, <<>>}
       \/ table' = rows /\ Stops(IF rows[Len(rows)].killed THEN 0 ELSE 1)
    /\ UNCHANGED <<fixture, control, log, selected, turn, rows, harness, harnessKills>>

\* The end of run(): os.WriteFile may fail before or after it emptied the
\* old table; survivors make the exit code 1.
WriteTable ==
    /\ stage = "table"
    /\ \/ Stops(1) /\ table' \in {table, <<>>}
       \/ /\ table' = rows
          /\ Stops(IF \A k \in DOMAIN rows : rows[k].killed THEN 0 ELSE 1)
    /\ UNCHANGED <<fixture, control, log, selected, turn, rows, harness, harnessKills>>

HarnessKill ==
    /\ stage # "idle" /\ harnessKills < MaxHarnessKills
    /\ harnessKills' = harnessKills + 1
    /\ Stops(1)
    /\ table' \in {table} \cup (IF stage = "table" THEN {<<>>} ELSE {})
    /\ control' \in IF stage = "control" THEN TornLog(control) ELSE {control}
    /\ log' \in IF stage = "test" THEN TornLog(log) ELSE {log}
    /\ UNCHANGED <<fixture, selected, turn, rows, harness>>

MutantsNext ==
    \/ HarnessStart \/ Mkdir \/ CopyTrees \/ RunControl \/ Plant \/ RunTest
    \/ WriteTable \/ HarnessKill

MutantsSpec == MutantsInit /\ [][MutantsNext]_mutantsVars

----------------------------------------------------------------------------
(* Properties.                                                             *)

Entry(m) == Catalog[CHOOSE k \in DOMAIN Catalog : Catalog[k].name = m]

\* A kill in the table is backed by the logs beside it: the control ran the
\* named test to its pass on the unmodified copy, the same copy, planted at
\* its only anchor, failed that test and printed the mutant's assertion, and
\* no other invocation wrote into that copy.  So it stays through later
\* invocations on the same directory, failed and killed ones too.
KillsBacked ==
    \A k \in DOMAIN table : table[k].killed =>
        LET m == Entry(table[k].name)
            before == control[m.name]
            after == log[m.name]
        IN  /\ before # NoLog /\ after # NoLog
            /\ Event("pass", m.test, "") \in before.out.events
            /\ {Event("fail", m.test, ""), Event("output", m.test, m.assertion)}
                 \subseteq after.out.events
            /\ ~before.on.planted /\ after.on.planted
            /\ before.on.unique /\ after.on.unique
            /\ before.on.copies = after.on.copies
            /\ \E h \in 1..harness : before.on.copies = {h}

\* Exit code 0 attests every selected mutant, and no other, as killed: one
\* survivor at any place of the catalog makes it 1, whatever came after it.
SuccessAttestsAll ==
    code = 0 =>
        /\ Len(table) = Len(selected) /\ selected # <<>>
        /\ \A k \in DOMAIN selected :
              table[k].name = selected[k].name /\ table[k].killed
=============================================================================
