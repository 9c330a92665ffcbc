------------------------------- MODULE GenCLI -------------------------------
(***************************************************************************)
(* jcrpc-gen: one run checks its flags, parses and validates the schema,   *)
(* and then takes the selected targets in the order java, swift, kotlin.   *)
(* For each it asks the plugin for a package, checks the whole package     *)
(* (validatePackageFiles), makes the directories, last file first, and     *)
(* writes the files in order.                                              *)
(*                                                                         *)
(* Every system call may fail, the process may be killed between any two   *)
(* of them, and a later run finds what an earlier one left.  os.WriteFile  *)
(* truncates the file before it writes it.  A file name is a sequence of   *)
(* components, a path a target's root directory followed by a name.        *)
(***************************************************************************)
EXTENDS Integers, Sequences, SequencesExt

CONSTANTS
    Invocations,   \* the command lines of the model
    Names,         \* what a directory or a file can be called
    Packages,      \* what the plugin of a target may return, by target
    Disks,         \* what a first run may find on disk
    MaxRuns,       \* bound on the number of runs
    GenError,      \* a plugin's error instead of a package
    NilData,       \* a file entry without data
    Torn           \* the content of a file truncated and not yet written

Order == <<"java", "swift", "kotlin">>
Targets == Range(Order)

ASSUME RunsAssumption == MaxRuns \in Nat \ {0}

\* A path, or a name that is local: at least one component.
Paths == Seq(Names) \ {<<>>}

\* A target's root directory is known by the target's name.
ASSUME NamesAssumption == Targets \subseteq Names

\* The command line has an output flag for each target and for nothing else.
ASSUME InvocationsAssumption ==
    \A v \in Invocations : v.named \subseteq Targets

\* What a plugin returns is an error or a slice of files; a local name has a
\* component (validatePackageFiles refuses the others, the empty one too).
ASSUME PackagesAssumption ==
    \A x \in Targets : \A out \in Packages[x] :
        out # GenError =>
            /\ Len(out) \in Nat
            /\ DOMAIN out = 1..Len(out)
            /\ \A a \in DOMAIN out :
                  /\ out[a].name \in Seq(Names)
                  /\ out[a].local => out[a].name \in Paths

\* On disk no path is a file and a directory.
ASSUME DisksAssumption ==
    \A d \in Disks :
        /\ d.files = [p \in DOMAIN d.files |-> d.files[p]]
        /\ DOMAIN d.files \subseteq Paths
        /\ d.dirs \subseteq Paths
        /\ DOMAIN d.files \cap d.dirs = {}

VARIABLES
    inv,      \* the invocation of the current run
    runs,     \* runs begun
    stage,    \* where the run is
    t,        \* index of the current target
    pkg,      \* the package of each target asked in this run
    k,        \* loop variable over the package's files
    files,    \* from paths of files on disk to their content
    dirs,     \* paths of directories on disk
    links,    \* paths of symbolic links on disk
    before,   \* the files and directories when the run began
    code      \* exit code of the last run, -1 while it runs or if it was killed

vars == <<inv, runs, stage, t, pkg, k, files, dirs, links, before, code>>
disk == <<files, dirs, links>>
run == <<inv, runs, pkg, before>>

exitCodeSuccess == 0
exitCodeValidation == 1
exitCodeGeneration == 2
exitCodeIO == 3

Target == Order[t]
Path(f) == <<Target>> \o f.name
Package == pkg[Target]

\* A path with the directories above it, and those directories alone.
OnPath(p) == Prefixes(p) \ {<<>>}
Above(p) == OnPath(p) \ {p}

NoPackages == [x \in Targets |-> <<>>]

Init ==
    /\ inv \in Invocations
    /\ \E d \in Disks :
          files = d.files /\ dirs = d.dirs /\ links = d.links
    /\ runs = 1
    /\ stage = "flags"
    /\ t = 1
    /\ pkg = NoPackages
    /\ k = 0
    /\ before = [files |-> files, dirs |-> dirs]
    /\ code = -1

Exit(c) ==
    /\ code' = c
    /\ stage' = "exited"
    /\ UNCHANGED <<run, t, k, disk>>

Goto(s) ==
    /\ stage' = s
    /\ UNCHANGED <<run, t, k, disk, code>>

----------------------------------------------------------------------------
(* Flags, schema and selection.                                            *)

ParseFlags ==
    /\ stage = "flags"
    /\ \/ inv.flags = "help" /\ Exit(exitCodeSuccess)
       \/ inv.flags = "wrong" /\ Exit(exitCodeGeneration)
       \/ inv.flags = "fine" /\ Goto("schema")

ParseAndValidate ==
    /\ stage = "schema"
    /\ \/ inv.schema = "unreadable" /\ Exit(exitCodeIO)
       \/ inv.schema = "invalid" /\ Exit(exitCodeValidation)
       \/ /\ inv.schema \in {"plain", "streams"}
          /\ IF inv.validateOnly THEN Exit(exitCodeSuccess) ELSE Goto("select")

\* --all names the targets the command line leaves out.
Selected == IF inv.all THEN Targets ELSE inv.named

SelectOutputs ==
    /\ stage = "select"
    /\ IF \/ ~inv.simulatorOK
          \/ Selected = {}
          \/ "swift" \in Selected /\ inv.schema = "streams"
       THEN Exit(exitCodeGeneration)
       ELSE Goto("generate")

----------------------------------------------------------------------------
(* The loop over the targets.                                              *)

NextTarget ==
    /\ stage = "generate"
    /\ t <= Len(Order)
    /\ Target \notin Selected
    /\ t' = t + 1
    /\ UNCHANGED <<run, stage, k, disk, code>>

Done ==
    /\ stage = "generate"
    /\ t > Len(Order)
    /\ Exit(exitCodeSuccess)

\* target.plugin.Generate
Generate ==
    /\ stage = "generate"
    /\ t <= Len(Order)
    /\ Target \in Selected
    /\ \E out \in Packages[Target] :
          IF out = GenError
          THEN Exit(exitCodeGeneration)
          ELSE /\ pkg' = [pkg EXCEPT ![Target] = out]
               /\ stage' = "check"
               /\ UNCHANGED <<inv, runs, before, t, k, disk, code>>

\* A faulty variant: duplicate names not looked for.
NamesAllowed(p) ==
    /\ p # <<>>
    /\ \A a \in DOMAIN p : p[a].local /\ p[a].data # NilData

\* The first loop of validatePackageFiles: not empty, local slash-separated
\* names, no name twice, data present.
NamesValid(p) ==
    /\ p # <<>>
    /\ \A a \in DOMAIN p : p[a].local /\ p[a].data # NilData
    /\ \A a, b \in DOMAIN p : a # b => p[a].name # p[b].name

\* A faulty variant: the package directory itself not looked at.
NoLinkBelowRoot(p, b) == (OnPath(Path(p[b])) \ {<<Target>>}) \cap links = {}

\* The second loop, file by file: no file of the package is a directory on
\* the way to this one, and no component on its way, from the package
\* directory itself on, is an existing symbolic link.
NoConflict(p, b) == \A a \in DOMAIN p : p[a].name \notin Above(p[b].name)
NoLink(p, b) == OnPath(Path(p[b])) \cap links = {}

\* A faulty variant: the package directory made before the package is checked.
CheckInsideRoot ==
    /\ stage = "check"
    /\ dirs' = dirs \cup {<<Target>>}
    /\ IF /\ NamesValid(Package)
          /\ \A b \in DOMAIN Package : NoConflict(Package, b) /\ NoLink(Package, b)
       THEN stage' = "mkdir" /\ k' = Len(Package) /\ code' = code
       ELSE stage' = "exited" /\ k' = k /\ code' = exitCodeGeneration
    /\ UNCHANGED <<run, t, files, links>>

CheckPackage ==
    /\ stage = "check"
    /\ IF /\ NamesValid(Package)
          /\ \A b \in DOMAIN Package : NoConflict(Package, b) /\ NoLink(Package, b)
       THEN /\ stage' = "mkdir"
            /\ k' = Len(Package)
            /\ UNCHANGED <<run, t, disk, code>>
       ELSE Exit(exitCodeGeneration)

\* os.Lstat fails, with something other than absence, on the way to a file the
\* second loop reaches.
LstatFails ==
    /\ stage = "check"
    /\ NamesValid(Package)
    /\ \E b \in DOMAIN Package :
          /\ \A a \in 1..b : NoConflict(Package, a)
          /\ \A a \in 1..(b - 1) : NoLink(Package, a)
    /\ Exit(exitCodeIO)

\* os.MkdirAll of the directory of file k, last file first.
Mkdir ==
    /\ stage = "mkdir"
    /\ k >= 1
    /\ Above(Path(Package[k])) \cap DOMAIN files = {}
    /\ dirs' = dirs \cup Above(Path(Package[k]))
    /\ k' = k - 1
    /\ UNCHANGED <<run, stage, t, files, links, code>>

\* MkdirAll stops with the outer n directories made: always where a file is
\* in the way, and wherever the system refuses.
MkdirFails ==
    /\ stage = "mkdir"
    /\ k >= 1
    /\ \E n \in 0..(Len(Path(Package[k])) - 2) :
          LET made == {d \in Above(Path(Package[k])) : Len(d) <= n}
          IN  /\ made \cap DOMAIN files = {}
              /\ dirs' = dirs \cup made
    /\ code' = exitCodeIO
    /\ stage' = "exited"
    /\ UNCHANGED <<run, t, k, files, links>>

MkdirDone ==
    /\ stage = "mkdir"
    /\ k = 0
    /\ stage' = "open"
    /\ k' = 1
    /\ UNCHANGED <<run, t, disk, code>>

\* os.WriteFile: open with O_TRUNC, then write.
Open ==
    /\ stage = "open"
    /\ k <= Len(Package)
    /\ Path(Package[k]) \notin dirs
    /\ files' = [p \in DOMAIN files \cup {Path(Package[k])} |->
                   IF p = Path(Package[k]) THEN Torn ELSE files[p]]
    /\ stage' = "write"
    /\ UNCHANGED <<run, t, k, dirs, links, code>>

Write ==
    /\ stage = "write"
    /\ files' = [files EXCEPT ![Path(Package[k])] = Package[k].data]
    /\ stage' = "open"
    /\ k' = k + 1
    /\ UNCHANGED <<run, t, dirs, links, code>>

\* The open fails, always where a directory is in the way, or the write does.
WriteFails ==
    /\ \/ stage = "open" /\ k <= Len(Package)
       \/ stage = "write"
    /\ Exit(exitCodeIO)

TargetDone ==
    /\ stage = "open"
    /\ k > Len(Package)
    /\ stage' = "generate"
    /\ t' = t + 1
    /\ UNCHANGED <<run, k, disk, code>>

----------------------------------------------------------------------------
(* The process is killed; jcrpc-gen is run again.                          *)

Kill ==
    /\ stage \notin {"exited", "killed"}
    /\ Goto("killed")

Rerun ==
    /\ stage \in {"exited", "killed"}
    /\ runs < MaxRuns
    /\ inv' \in Invocations
    /\ runs' = runs + 1
    /\ stage' = "flags"
    /\ t' = 1
    /\ pkg' = NoPackages
    /\ k' = 0
    /\ before' = [files |-> files, dirs |-> dirs]
    /\ code' = -1
    /\ UNCHANGED disk

Next ==
    \/ ParseFlags
    \/ ParseAndValidate
    \/ SelectOutputs
    \/ NextTarget
    \/ Done
    \/ Generate
    \/ CheckPackage
    \/ LstatFails
    \/ Mkdir
    \/ MkdirFails
    \/ MkdirDone
    \/ Open
    \/ Write
    \/ WriteFails
    \/ TargetDone
    \/ Kill
    \/ Rerun

Spec == Init /\ [][Next]_vars

----------------------------------------------------------------------------
(* Properties.                                                             *)

\* The variables of runWithPlugins have their types, and MkdirAll and WriteFile
\* never make a path a file and a directory at once.
TypeOK ==
    /\ inv \in Invocations
    /\ runs \in 1..MaxRuns
    /\ stage \in {"flags", "schema", "select", "generate", "check", "mkdir",
                  "open", "write", "exited", "killed"}
    /\ t \in 1..(Len(Order) + 1)
    /\ code \in -1..3
    /\ DOMAIN files \cap dirs = {}

\* Success means complete output: when a run that generates ends with exit
\* code 0, every file of every selected target's package is on disk with the
\* plugin's data, whatever earlier runs that failed or were killed left.
\* (TypeOK is checked with it.)
SuccessIsComplete ==
    /\ TypeOK
    /\ (code = exitCodeSuccess /\ inv.flags = "fine" /\ ~inv.validateOnly) =>
          \A x \in Selected : \A a \in DOMAIN pkg[x] :
              LET p == <<x>> \o pkg[x][a].name
              IN  p \in DOMAIN files /\ files[p] = pkg[x][a].data

\* "Validate the entire returned target package before any directory or file
\* is created": a run refused for its flags, its schema or a plugin's output
\* has left every target it did not complete as it found it.
RefusalLeavesTarget ==
    code \in {exitCodeValidation, exitCodeGeneration} =>
        \A x \in {Order[n] : n \in t..Len(Order)} :
            /\ \A p \in DOMAIN files \cup DOMAIN before.files :
                  p[1] = x => /\ p \in DOMAIN files \cap DOMAIN before.files
                              /\ files[p] = before.files[p]
            /\ \A d \in dirs : d[1] = x => d \in before.dirs

\* "Existing symlinks inside the selected root (including root itself) cannot
\* redirect a returned path outside it": no step creates or changes anything
\* below a symbolic link.
NeverThroughLink ==
    [][ \A p \in (DOMAIN files' \cup dirs') :
          (p \notin DOMAIN files \cup dirs
             \/ (p \in DOMAIN files /\ files'[p] # files[p]))
            => OnPath(p) \cap links = {} ]_vars

=============================================================================
