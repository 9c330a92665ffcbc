------------------------------- MODULE Compat -------------------------------
(***************************************************************************)
(* jcrpc-compat on one consumer root: Check binds the manifest to release  *)
(* receipts and to the resolved Go modules, bootstrap clones the runtimes  *)
(* it does not find, VerifyCheckout compares each with its receipt before  *)
(* anything is attested or started, prepare generates the consumers, jvm   *)
(* and swift run the native builds.  An invocation can fail or be killed   *)
(* at every step; between invocations the operator edits and removes       *)
(* checkouts and adds examples.                                            *)
(*                                                                         *)
(* A pin is what a receipt records of a release: its tag, the backend's    *)
(* version, the tag object and the commit.  A checkout is what git says of *)
(* a directory: HEAD, the tag object, whether the tracked files are those  *)
(* of HEAD, whether an index hint hides them from git status, and whether  *)
(* there are untracked files that are not ignored.                         *)
(***************************************************************************)
EXTENDS Integers, Sequences, FiniteSets

CONSTANTS
    Known,       \* the targets Check knows
    Repos,       \* facade repositories: manifest, receipts, modules, rest
    Remote,      \* Remote[t][tag]: the tag object a clone fetches, or None
    Peel,        \* Peel[o]: the commit of tag object o
    Signed,      \* tag objects verify-tag accepts under allowed_signers
    PlainTags,   \* tags that are plain semantic versions
    FirstInputs, \* the schemas prepare finds, in its order
    LaterInputs, \* the same after the operator adds an example
    Streamed,    \* schemas with streams, which have no Swift client
    None,
    MaxRuns, MaxKills, MaxEdits   \* bounds

ASSUME CompatAssumption ==
    /\ IsFiniteSet(Known) /\ Known # {}
    /\ None \notin Signed /\ None \notin {0, 1, 2, 137}
    /\ \A r \in Repos : /\ Len(r.manifest) \in Nat
                        /\ DOMAIN r.manifest = 1..Len(r.manifest)
    /\ \A s \in {FirstInputs, LaterInputs} :   \* the sample store at least
          Len(s) \in Nat \ {0} /\ DOMAIN s = 1..Len(s)
    /\ MaxRuns \in Nat /\ MaxKills \in Nat /\ MaxEdits \in Nat

Modes == {"check", "bootstrap", "prepare", "jvm", "swift", "unknown"}

VARIABLES
    repo,      \* the facade repository
    dir,       \* dir[t]: the checkout under runtimes/, None if there is none
    found,     \* package directories under generated/
    whole,     \* the ones generated to the end
    settings,  \* the package directories jvm/settings.gradle includes
    build,     \* the base names jvm/build.gradle depends on
    inputs,    \* the schemas found now
    mode, pc, i,   \* the invocation: its mode, next step and position
    guarded,   \* it runs under the offline guard
    exit,      \* exit code of the last one, if nothing changed since
    runs, kills, edits

repoVars == <<repo, inputs>>
consumer == <<found, whole, settings, build>>
counts == <<runs, kills, edits>>
vars == <<repo, dir, consumer, inputs, mode, pc, i, guarded, exit, counts>>

Checkout(head, object, files) ==
    [head |-> head, object |-> object, files |-> files,
     hint |-> FALSE, untracked |-> FALSE]

Clone(object) == Checkout(Peel[object], object, "release")

Init ==
    /\ repo \in Repos
    /\ dir = [t \in Known |-> None]
    /\ found = {} /\ whole = {} /\ settings = {} /\ build = {}
    /\ inputs = FirstInputs
    /\ mode = "check" /\ pc = "idle" /\ i = 1 /\ guarded = FALSE
    /\ exit = None
    /\ runs = 0 /\ kills = 0 /\ edits = 0

----------------------------------------------------------------------------
(* The two gates.                                                          *)

\* "rest" stands for what is compared with a constant: the schema number, the
\* facade's version, pluginapi's version, the sample input and its digest.
\* An unreadable receipt is None.
Check(r) ==
    /\ r.rest
    /\ Len(r.manifest) = Cardinality(Known)
    /\ \A k \in DOMAIN r.manifest :
          LET p == r.manifest[k] IN
          /\ \A l \in DOMAIN r.manifest : l # k => r.manifest[l].target # p.target
          /\ p.target \in Known
          /\ p.pin = r.receipts[p.target]
          /\ p.pin.tag = p.pin.version /\ p.pin.tag \in PlainTags
          /\ r.modules[p.target] = [version |-> p.pin.version, replaced |-> FALSE]

\* A faulty variant: git status is trusted with the tracked files.
VerifyByStatus(c, pin) ==
    /\ c # None
    /\ c.head = pin.commit /\ c.object = pin.object
    /\ Peel[c.object] = pin.commit
    /\ c.files = "release" \/ c.hint
    /\ ~c.untracked
    /\ c.object \in Signed

\* rev-parse of HEAD, tag and peeled tag; git status, which index hints make
\* blind; a fresh index of the release's tree, which they do not; verify-tag.
VerifyCheckout(c, pin) ==
    /\ c # None
    /\ c.head = pin.commit /\ c.object = pin.object
    /\ Peel[c.object] = pin.commit
    /\ c.files = "release" \/ c.hint
    /\ ~c.untracked
    /\ c.files = "release"
    /\ c.object \in Signed

----------------------------------------------------------------------------
(* An invocation.                                                          *)

Killed == -1

\* What the process returns, or the guard it runs under for it: the exit code,
\* or 128 and the signal (9) that ended the command.
OfflineExit(code) ==
    IF code # Killed THEN code ELSE IF guarded THEN 128 + 9 ELSE None

Ends(code) == pc' = "idle" /\ exit' = OfflineExit(code)
Goes(step) == pc' = step /\ exit' = None

\* Unknown flags, stray arguments, and offline on a system without a guard.
Refuse(code) ==
    /\ pc = "idle" /\ runs < MaxRuns
    /\ runs' = runs + 1
    /\ Ends(code)
    /\ UNCHANGED <<repoVars, dir, consumer, mode, i, guarded, kills, edits>>

\* run() up to the first target; guard: under jcrpc-compat --mode offline.
Start(m, hasRoot, guard) ==
    /\ pc = "idle" /\ runs < MaxRuns
    /\ runs' = runs + 1
    /\ mode' = m /\ i' = 1 /\ guarded' = guard
    /\ IF ~Check(repo) THEN Ends(1)
       ELSE IF m = "check" THEN Ends(0)
       ELSE IF ~hasRoot THEN Ends(1)
       ELSE Goes(IF m = "bootstrap" THEN "stat" ELSE "verify")
    /\ UNCHANGED <<repoVars, dir, consumer, kills, edits>>

Target == repo.manifest[i].target
Pin == repo.manifest[i].pin

Stat ==
    /\ pc = "stat"
    /\ \/ Ends(1)
       \/ Goes(IF dir[Target] = None THEN "clone" ELSE "verify")
    /\ UNCHANGED <<repoVars, dir, consumer, mode, i, guarded, counts>>

\* git clone --branch tag: the directory, then the refs, then the files.
CloneStep ==
    /\ LET object == Remote[Target][Pin.tag] IN
       \/ /\ pc = "clone" /\ Goes("refs")
          /\ dir' = [dir EXCEPT ![Target] = Checkout(None, None, "missing")]
       \/ /\ pc = "refs" /\ object # None /\ Goes("files")
          /\ dir' = [dir EXCEPT ![Target] = Checkout(Peel[object], object, "missing")]
       \/ /\ pc = "files" /\ Goes("verify")
          /\ dir' = [dir EXCEPT ![Target] = Clone(object)]
    /\ UNCHANGED <<repoVars, consumer, mode, i, guarded, counts>>

\* git removes the directory it made, unless only the checkout failed.
CloneFail ==
    /\ pc \in {"clone", "refs", "files"}
    /\ Ends(1)
    /\ dir' = IF pc = "files" THEN dir ELSE [dir EXCEPT ![Target] = None]
    /\ UNCHANGED <<repoVars, consumer, mode, i, guarded, counts>>

\* The loop over the targets, of bootstrap and of the modes after it; any git
\* command may fail for reasons of its own.
Verify ==
    /\ pc = "verify"
    /\ \/ Ends(1) /\ UNCHANGED i
       \/ /\ VerifyCheckout(dir[Target], Pin)
          /\ IF i < Len(repo.manifest)
             THEN Goes(IF mode = "bootstrap" THEN "stat" ELSE "verify") /\ i' = i + 1
             ELSE IF mode = "bootstrap" THEN Ends(0) /\ UNCHANGED i
             ELSE Goes("work") /\ i' = 1
    /\ UNCHANGED <<repoVars, dir, consumer, mode, guarded, counts>>

\* gradle in three directories, or swift test in two, one after the other.
Native ==
    /\ pc = "work" /\ mode \in {"jvm", "swift"}
    /\ LET last == IF mode = "jvm" THEN 3 ELSE 2 IN
       \/ Ends(1) /\ UNCHANGED i
       \/ IF i < last THEN Goes("work") /\ i' = i + 1 ELSE Ends(0) /\ UNCHANGED i
    /\ UNCHANGED <<repoVars, dir, consumer, mode, guarded, counts>>

UnknownMode ==
    /\ pc = "work" /\ mode = "unknown" /\ Ends(1)
    /\ UNCHANGED <<repoVars, dir, consumer, mode, i, guarded, counts>>

----------------------------------------------------------------------------
(* prepare.                                                                *)

Package(k, lang) == [at |-> k - 1, input |-> inputs[k], lang |-> lang]

\* The packages settings.gradle and build.gradle walk over: every server and
\* Kotlin package directory under generated/, whoever made it.
JvmBuilds == {p \in found : p.lang = "jvm"}

\* filepath.Base of a package directory: it has the schema's name, not the
\* number of the directory it is in.
Base(p) == [input |-> p.input, lang |-> p.lang]

BuildGenerator ==
    /\ pc = "work" /\ mode = "prepare"
    /\ Goes("jvm") \/ Ends(1)
    /\ UNCHANGED <<repoVars, dir, consumer, mode, i, guarded, counts>>

\* One run of jcrpc-gen begins: it rewrites a package directory in place.
Generate ==
    /\ pc \in {"jvm", "swift"}
    /\ found' = found \cup {Package(i, pc)}
    /\ whole' = whole \ {Package(i, pc)}
    /\ Goes(IF pc = "jvm" THEN "jvm-run" ELSE "swift-run")
    /\ UNCHANGED <<repoVars, dir, settings, build, mode, i, guarded, counts>>

\* A faulty variant: the last input is not waited for.
GeneratedEarly ==
    /\ pc \in {"jvm-run", "swift-run"}
    /\ LET lang == IF pc = "jvm-run" THEN "jvm" ELSE "swift" IN
       /\ whole' = whole \cup {Package(i, lang)}
       /\ IF lang = "jvm" /\ inputs[i] \notin Streamed
          THEN Goes("swift") /\ UNCHANGED i
          ELSE IF i < Len(inputs) - 1 THEN Goes("jvm") /\ i' = i + 1
          ELSE Goes("settings") /\ UNCHANGED i
    /\ UNCHANGED <<repoVars, dir, found, settings, build, mode, guarded, counts>>

\* It ends; then Swift for the same input unless it streams, or the next one.
Generated ==
    /\ pc \in {"jvm-run", "swift-run"}
    /\ LET lang == IF pc = "jvm-run" THEN "jvm" ELSE "swift" IN
       /\ whole' = whole \cup {Package(i, lang)}
       /\ IF lang = "jvm" /\ inputs[i] \notin Streamed
          THEN Goes("swift") /\ UNCHANGED i
          ELSE IF i < Len(inputs) THEN Goes("jvm") /\ i' = i + 1
          ELSE Goes("settings") /\ UNCHANGED i
    /\ UNCHANGED <<repoVars, dir, found, settings, build, mode, guarded, counts>>

\* jvm/settings.gradle, jvm/build.gradle, then the Kotlin fixture, the Swift
\* package that names generated/0, and the Swift fixture.
WriteConsumer ==
    /\ \/ /\ pc = "settings" /\ settings' = JvmBuilds
          /\ Goes("build") /\ UNCHANGED build
       \/ /\ pc = "build" /\ build' = {Base(p) : p \in JvmBuilds}
          /\ Goes("fixtures") /\ UNCHANGED settings
       \/ /\ pc = "fixtures" /\ Ends(0) /\ UNCHANGED <<settings, build>>
    /\ UNCHANGED <<repoVars, dir, found, whole, mode, i, guarded, counts>>

\* os.WriteFile truncates first: a write that fails or is cut short leaves the
\* old file or an empty one.
Torn ==
    /\ settings' \in {settings} \cup (IF pc = "settings" THEN {{}} ELSE {})
    /\ build' \in {build} \cup (IF pc = "build" THEN {{}} ELSE {})

PrepareFail ==
    /\ pc \in {"jvm-run", "swift-run", "settings", "build", "fixtures"}
    /\ Ends(1) /\ Torn
    /\ UNCHANGED <<repoVars, dir, found, whole, mode, i, guarded, counts>>

----------------------------------------------------------------------------
(* The surroundings.                                                       *)

\* SIGKILL: git and jcrpc-gen leave what they have.
Kill ==
    /\ pc # "idle" /\ kills < MaxKills
    /\ kills' = kills + 1
    /\ Ends(Killed) /\ Torn
    /\ UNCHANGED <<repoVars, dir, found, whole, mode, i, guarded, runs, edits>>

\* What an operator may have done to a checkout since it was verified.
Edited(c) ==
    {[c EXCEPT !.files = "edited"], [c EXCEPT !.files = "edited", !.hint = TRUE],
     [c EXCEPT !.hint = TRUE], [c EXCEPT !.untracked = TRUE], [c EXCEPT !.object = None],
     [c EXCEPT !.head = None], None}

Operator ==
    /\ pc = "idle" /\ edits < MaxEdits
    /\ edits' = edits + 1
    /\ exit' = None
    /\ \/ /\ inputs = FirstInputs /\ inputs' = LaterInputs /\ UNCHANGED dir
       \/ /\ \E t \in Known : /\ dir[t] # None
                              /\ \E c \in Edited(dir[t]) : dir' = [dir EXCEPT ![t] = c]
          /\ UNCHANGED inputs
    /\ UNCHANGED <<repo, consumer, mode, pc, i, guarded, runs, kills>>

Next ==
    \/ \E code \in {1, 2} : Refuse(code)
    \/ \E m \in Modes, hasRoot, guard \in BOOLEAN : Start(m, hasRoot, guard)
    \/ Stat \/ CloneStep \/ CloneFail \/ Verify \/ Native \/ UnknownMode
    \/ BuildGenerator \/ Generate \/ Generated \/ WriteConsumer \/ PrepareFail
    \/ Kill \/ Operator

Spec == Init /\ [][Next]_vars

----------------------------------------------------------------------------
(* Properties.                                                             *)

\* Steps, codes and counters of an invocation have their types.
TypeOK ==
    /\ mode \in Modes
    /\ pc \in {"idle", "stat", "clone", "refs", "files", "verify", "work", "jvm",
               "swift", "jvm-run", "swift-run", "settings", "build", "fixtures"}
    /\ i \in Nat \ {0}
    /\ exit \in {None, 0, 1, 2, 137}
    /\ whole \subseteq found
    /\ runs <= MaxRuns /\ kills <= MaxKills /\ edits <= MaxEdits

\* The checkout of t is the release its receipt records, signed, with the
\* release's files and nothing beside them, and the backend linked into
\* jcrpc-gen is of the same version.
Released(t) ==
    LET r == repo.receipts[t] IN
    /\ dir[t] # None
    /\ dir[t].head = r.commit /\ dir[t].object = r.object /\ r.object \in Signed
    /\ dir[t].files = "release" /\ ~dir[t].untracked
    /\ repo.modules[t] = [version |-> r.tag, replaced |-> FALSE]

Working == {"work", "jvm", "swift", "jvm-run", "swift-run", "settings", "build",
            "fixtures"}

\* Consumer work is only started, and exit code 0 of a mode that uses the
\* runtimes only returned, with all three runtimes released: not what a
\* killed or failed clone left in their place, not an edit that index hints
\* hide, not a runtime the manifest forgot.  (TypeOK, with the exit codes that
\* the offline guard may return, is checked with it.)
AdmittedIsReleased ==
    /\ TypeOK
    /\ (pc \in Working \/ (exit = 0 /\ mode # "check")) =>
          \A t \in Known : Released(t)

\* No schema is listed twice, and a base name is that of one build.
Distinct(s) == \A k, l \in DOMAIN s : s[k] = s[l] => k = l
Unambiguous(builds) == \A p, q \in builds : Base(p) = Base(q) => p = q

\* Exit code 0 of prepare leaves a consumer that composes: build.gradle names,
\* by their base names, the builds settings.gradle includes, all inputs
\* generated to the end.  Unless the inputs changed under the same root, there
\* is no build besides them, and a base name means one build.  The Swift
\* consumer's fixed path holds the first input's client.  What earlier failed
\* or killed invocations left does not show.
PreparedComposes ==
    (exit = 0 /\ mode = "prepare") =>
        LET current == {Package(k, "jvm") : k \in DOMAIN inputs} IN
        /\ build = {Base(p) : p \in settings}
        /\ current \subseteq settings \cap whole
        /\ inputs = FirstInputs =>
              settings = current /\ (Distinct(inputs) => Unambiguous(settings))
        /\ inputs[1] \notin Streamed => Package(1, "swift") \in whole
=============================================================================
