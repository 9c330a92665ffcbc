---------------------------- MODULE ReleaseProofs ----------------------------
(***************************************************************************)
(* What the release tools attest, for any repository, releases, schemas,   *)
(* catalog, matrix and number of failed, killed and repeated invocations:  *)
(* jcrpc-compat with its toolchain mode, jcrpc-mutants and jcrpc-parity.    *)
(***************************************************************************)
EXTENDS Compat, Toolchain, Mutants, Parity, FiniteSetTheorems, TLAPS

----------------------------------------------------------------------------
\* jcrpc-compat: the runtimes it admits.

\* Every runtime has a directory or none.
Shaped ==
    /\ repo \in Repos
    /\ dir = [t \in Known |-> dir[t]]
    /\ runs \in Nat /\ kills \in Nat /\ edits \in Nat
    /\ inputs \in {FirstInputs, LaterInputs}

Checking == {"stat", "clone", "refs", "files", "verify"}

\* A running invocation has passed Check, and so has one that returned 0.
PassedCheck == (pc # "idle" \/ exit = 0) => Check(repo)

\* The targets before the current one are verified, and stay so while later
\* ones are cloned.
VerifiedBefore ==
    pc \in Checking =>
        /\ i \in DOMAIN repo.manifest
        /\ \A k \in DOMAIN repo.manifest : k < i => Released(repo.manifest[k].target)

ExitIdle == exit = 0 => pc = "idle"

\* The package jcrpc-gen is writing is among the directories found.
Running ==
    /\ pc = "jvm-run" => Package(i, "jvm") \in found
    /\ pc = "swift-run" => Package(i, "swift") \in found

CompatInv == AdmittedIsReleased /\ Shaped /\ PassedCheck /\ VerifiedBefore /\ ExitIdle

\* Three distinct targets out of the three known are all of them: the manifest
\* forgets no runtime.
LEMMA ManifestNamesAll ==
    ASSUME repo \in Repos, Check(repo)
    PROVE  /\ \A t \in Known : \E k \in DOMAIN repo.manifest : repo.manifest[k].target = t
           /\ \A k \in DOMAIN repo.manifest : repo.manifest[k].target \in Known
           /\ Len(repo.manifest) \in Nat \ {0}
           /\ DOMAIN repo.manifest = 1..Len(repo.manifest)
<1> DEFINE n == Len(repo.manifest)
           f == [k \in 1..n |-> repo.manifest[k].target]
<1>1. n \in Nat /\ DOMAIN repo.manifest = 1..n
  BY CompatAssumption
<1>2. n = Cardinality(Known)
  BY DEF Check
<1>3. /\ \A k \in 1..n : repo.manifest[k].target \in Known
      /\ \A k, l \in 1..n : repo.manifest[k].target = repo.manifest[l].target => k = l
  BY <1>1 DEF Check
<1>4. f \in Injection(1..n, Known)
  BY <1>3 DEF Injection, IsInjective
<1>5. Cardinality(1..n) = n
  BY <1>1, FS_Interval
<1>6. f \in Surjection(1..n, Known)
  BY <1>2, <1>4, <1>5, CompatAssumption, FS_Injection
<1>7. \A t \in Known : \E k \in 1..n : f[k] = t
  BY <1>6 DEF Surjection
<1>8. n # 0
  <2>1. PICK t \in Known : TRUE
    BY CompatAssumption
  <2>2. PICK k \in 1..n : f[k] = t
    BY <1>7, <2>1
  <2> QED
    BY <1>1, <2>2
<1> QED
  BY <1>1, <1>3, <1>7, <1>8

\* A verified checkout is the release of the receipt.
LEMMA VerifiedIsReleased ==
    ASSUME Check(repo), i \in DOMAIN repo.manifest,
           VerifyCheckout(dir[Target], Pin)
    PROVE  Released(Target)
<1>1. Target \in Known /\ Pin = repo.receipts[Target]
  BY DEF Check, Target, Pin
<1>2. repo.modules[Target] = [version |-> Pin.tag, replaced |-> FALSE]
  BY DEF Check, Target, Pin
<1> QED
  BY <1>1, <1>2 DEF VerifyCheckout, Released

\* What Ends and Goes leave of an invocation.
LEMMA EndCodes ==
    /\ \A c \in {0, 1, 2} : Ends(c) => pc' = "idle" /\ exit' = c
    /\ Ends(Killed) => pc' = "idle" /\ exit' \in {None, 137} /\ exit' # 0
    /\ \A s : Goes(s) => pc' = s /\ exit' = None /\ exit' # 0
<1>1. None # 0
  BY CompatAssumption
<1>2. \A c \in {0, 1, 2} : c # Killed
  BY DEF Killed
<1>3. \A c \in {0, 1, 2} : OfflineExit(c) = c
  BY <1>2 DEF OfflineExit
<1>4. OfflineExit(Killed) \in {None, 137} /\ OfflineExit(Killed) # 0
  BY <1>1 DEF OfflineExit
<1> QED
  BY <1>1, <1>3, <1>4 DEF Ends, Goes

\* An invocation ends, with a code other than 0 or with everything released.
LEMMA Ending ==
    ASSUME CompatInv, UNCHANGED <<repo, dir>>, Shaped', TypeOK', pc' = "idle",
           exit' = 0 => Check(repo)
                        /\ (mode' = "check" \/ \A t \in Known : Released(t))
    PROVE  CompatInv'
  BY DEF CompatInv, AdmittedIsReleased, PassedCheck, VerifiedBefore, ExitIdle,
         Working, Checking, Released

\* An invocation goes on to consumer work.
LEMMA GoingOn ==
    ASSUME CompatInv, UNCHANGED <<repo, dir>>, Shaped', TypeOK', exit' # 0,
           pc \in Working, pc' \in Working
    PROVE  CompatInv'
<1>1. Check(repo) /\ \A t \in Known : Released(t)
  BY DEF CompatInv, AdmittedIsReleased, PassedCheck, Working
<1> QED
  BY <1>1
  DEF CompatInv, AdmittedIsReleased, PassedCheck, VerifiedBefore, ExitIdle, Working,
      Checking, Released

\* Check itself: the start of an invocation.
LEMMA StartStep ==
    ASSUME CompatInv, NEW m \in Modes, NEW hasRoot \in BOOLEAN, NEW guard \in BOOLEAN,
           Start(m, hasRoot, guard)
    PROVE  CompatInv'
<1>1. /\ pc = "idle" /\ runs < MaxRuns /\ runs' = runs + 1 /\ mode' = m /\ i' = 1
      /\ UNCHANGED <<repo, inputs, dir, found, whole, kills, edits>>
  BY DEF Start, repoVars, consumer
<1>2. Shaped' /\ MaxRuns \in Nat /\ runs' <= MaxRuns
  BY <1>1, CompatAssumption DEF CompatInv, Shaped
<1>3. CASE ~Check(repo) \/ (m # "check" /\ ~hasRoot)
  <2>1. pc' = "idle" /\ exit' = 1
    BY <1>3, EndCodes DEF Start
  <2>2. TypeOK'
    BY <1>1, <1>2, <2>1 DEF CompatInv, AdmittedIsReleased, TypeOK
  <2> QED
    BY <1>1, <1>2, <2>1, <2>2, Ending
<1>4. CASE Check(repo) /\ m = "check"
  <2>1. pc' = "idle" /\ exit' = 0
    BY <1>4, EndCodes DEF Start
  <2>2. TypeOK'
    BY <1>1, <1>2, <2>1 DEF CompatInv, AdmittedIsReleased, TypeOK
  <2> QED
    BY <1>1, <1>2, <1>4, <2>1, <2>2, Ending
<1>5. CASE Check(repo) /\ m # "check" /\ hasRoot
  <2>1. pc' \in {"stat", "verify"} /\ exit' = None /\ exit' # 0
    BY <1>5, EndCodes DEF Start
  <2>2. TypeOK'
    BY <1>1, <1>2, <2>1 DEF CompatInv, AdmittedIsReleased, TypeOK
  <2>3. VerifiedBefore'
    <3>1. DOMAIN repo.manifest = 1..Len(repo.manifest) /\ Len(repo.manifest) \in Nat \ {0}
      BY <1>5, ManifestNamesAll DEF CompatInv, Shaped
    <3>2. 1 \in DOMAIN repo.manifest /\ \A k \in DOMAIN repo.manifest : ~(k < 1)
      BY <3>1
    <3> QED
      BY <1>1, <3>2 DEF VerifiedBefore
  <2> QED
    BY <1>1, <1>2, <1>5, <2>1, <2>2, <2>3
    DEF CompatInv, AdmittedIsReleased, PassedCheck, ExitIdle, Working
<1> QED
  BY <1>3, <1>4, <1>5

\* A target is looked for, cloned, or a clone fails: only its own directory
\* changes, which is not among the verified ones.
LEMMA CloningStep ==
    ASSUME CompatInv, Stat \/ CloneStep \/ CloneFail
    PROVE  CompatInv'
<1>1. /\ pc \in {"stat", "clone", "refs", "files"} /\ i' = i
      /\ UNCHANGED <<repo, inputs, found, whole, mode, runs, kills, edits>>
  BY DEF Stat, CloneStep, CloneFail, repoVars, consumer, counts
<1>2. /\ Check(repo) /\ i \in DOMAIN repo.manifest /\ repo \in Repos
      /\ \A k \in DOMAIN repo.manifest : k < i => Released(repo.manifest[k].target)
  BY <1>1 DEF CompatInv, PassedCheck, VerifiedBefore, Checking, Shaped
<1>3. DOMAIN repo.manifest = 1..Len(repo.manifest) /\ Len(repo.manifest) \in Nat
      /\ Target \in Known
  BY <1>2, ManifestNamesAll DEF Target
<1>4. \/ pc' = "idle" /\ exit' = 1
      \/ pc' \in Checking /\ exit' = None /\ exit' # 0
  BY EndCodes DEF Stat, CloneStep, CloneFail, Checking
<1>5. \E c : dir' = [dir EXCEPT ![Target] = c]
  <2>1. dir = [dir EXCEPT ![Target] = dir[Target]]
    BY DEF CompatInv, Shaped
  <2>2. CASE dir' = dir
    BY <2>1, <2>2
  <2>3. CASE CloneStep
    BY <2>3, Zenon DEF CloneStep
  <2>4. CASE CloneFail
    BY <2>2, <2>4, Zenon DEF CloneFail
  <2>5. CASE Stat
    BY <2>2, <2>5, Zenon DEF Stat
  <2> QED
    BY <2>3, <2>4, <2>5
<1>6. PICK c : dir' = [dir EXCEPT ![Target] = c]
  BY <1>5
<1>7. dir' = [t \in Known |-> dir'[t]] /\ \A t \in Known : t # Target => dir'[t] = dir[t]
  BY <1>6 DEF CompatInv, Shaped
<1>8. Shaped'
  BY <1>1, <1>7 DEF CompatInv, Shaped
<1>9. TypeOK'
  BY <1>1, <1>4 DEF CompatInv, AdmittedIsReleased, TypeOK, Checking
<1>10. ASSUME NEW k \in DOMAIN repo.manifest, k < i
       PROVE  Released(repo.manifest[k].target)'
  <2>1. repo.manifest[k].target # Target /\ repo.manifest[k].target \in Known
    <3>1. k # i
      BY <1>2, <1>3, <1>10
    <3> QED
      BY <1>2, <3>1, Zenon DEF Check, Target
  <2> QED
    BY <1>1, <1>2, <1>7, <1>10, <2>1 DEF Released
<1>11. VerifiedBefore'
  BY <1>1, <1>2, <1>10 DEF VerifiedBefore
<1> QED
  BY <1>1, <1>2, <1>4, <1>8, <1>9, <1>11
  DEF CompatInv, AdmittedIsReleased, PassedCheck, ExitIdle, Working, Checking

\* The loop over the targets: the last one verified, all are.
LEMMA VerifyStep ==
    ASSUME CompatInv, Verify
    PROVE  CompatInv'
<1>1. /\ pc = "verify"
      /\ UNCHANGED <<repo, inputs, dir, found, whole, mode, runs, kills, edits>>
  BY DEF Verify, repoVars, consumer, counts
<1>2. /\ Check(repo) /\ i \in DOMAIN repo.manifest /\ repo \in Repos
      /\ \A k \in DOMAIN repo.manifest : k < i => Released(repo.manifest[k].target)
  BY <1>1 DEF CompatInv, PassedCheck, VerifiedBefore, Checking, Shaped
<1>3. /\ DOMAIN repo.manifest = 1..Len(repo.manifest)
      /\ Len(repo.manifest) \in Nat \ {0}
      /\ \A t \in Known : \E k \in DOMAIN repo.manifest : repo.manifest[k].target = t
  BY <1>2, ManifestNamesAll
<1>4. Shaped' /\ i \in Nat \ {0}
  BY <1>1, <1>2, <1>3 DEF CompatInv, Shaped
<1>5. CASE Ends(1) /\ UNCHANGED i
  <2>1. pc' = "idle" /\ exit' = 1
    BY <1>5, EndCodes
  <2>2. TypeOK'
    BY <1>1, <1>5, <2>1 DEF CompatInv, AdmittedIsReleased, TypeOK
  <2> QED
    BY <1>1, <1>4, <2>1, <2>2, Ending
<1>6. CASE ~(Ends(1) /\ UNCHANGED i)
  <2>1. Released(Target)
    BY <1>2, <1>6, VerifiedIsReleased DEF Verify
  <2>2. \A k \in DOMAIN repo.manifest : k <= i => Released(repo.manifest[k].target)
    <3>1. ASSUME NEW k \in DOMAIN repo.manifest, k <= i PROVE k < i \/ k = i
      BY <1>3, <1>4, <3>1
    <3> QED
      BY <1>2, <2>1, <3>1 DEF Target
  <2>3. CASE i < Len(repo.manifest)
    <3>1. pc' \in {"stat", "verify"} /\ exit' = None /\ exit' # 0 /\ i' = i + 1
      BY <1>6, <2>3, EndCodes DEF Verify
    <3>2. TypeOK'
      BY <1>1, <1>4, <3>1 DEF CompatInv, AdmittedIsReleased, TypeOK
    <3>3. /\ i' \in DOMAIN repo.manifest
          /\ \A k \in DOMAIN repo.manifest : k < i' => k <= i
      BY <1>3, <1>4, <2>3, <3>1
    <3>4. VerifiedBefore'
      BY <1>1, <2>2, <3>3 DEF VerifiedBefore, Released
    <3> QED
      BY <1>1, <1>2, <1>4, <3>1, <3>2, <3>4
      DEF CompatInv, AdmittedIsReleased, PassedCheck, ExitIdle, Working
  <2>4. CASE ~(i < Len(repo.manifest))
    <3>1. \A k \in DOMAIN repo.manifest : k <= i
      BY <1>3, <1>4, <2>4
    <3>2. \A t \in Known : Released(t)
      BY <1>3, <2>2, <3>1
    <3>3. CASE mode = "bootstrap"
      <4>1. pc' = "idle" /\ exit' = 0 /\ i' = i
        BY <1>6, <2>4, <3>3, EndCodes DEF Verify
      <4>2. TypeOK'
        BY <1>1, <4>1 DEF CompatInv, AdmittedIsReleased, TypeOK
      <4> QED
        BY <1>1, <1>2, <1>4, <3>2, <4>1, <4>2, Ending
    <3>4. CASE mode # "bootstrap"
      <4>1. pc' = "work" /\ exit' = None /\ exit' # 0 /\ i' = 1
        BY <1>6, <2>4, <3>4, EndCodes DEF Verify
      <4>2. TypeOK'
        BY <1>1, <4>1 DEF CompatInv, AdmittedIsReleased, TypeOK
      <4>3. \A t \in Known : Released(t)'
        BY <1>1, <3>2 DEF Released
      <4> QED
        BY <1>1, <1>2, <1>4, <4>1, <4>2, <4>3
        DEF CompatInv, AdmittedIsReleased, PassedCheck, ExitIdle, VerifiedBefore, Checking
    <3> QED
      BY <3>3, <3>4
  <2> QED
    BY <2>3, <2>4
<1> QED
  BY <1>5, <1>6

\* Only Generate starts jcrpc-gen.
LEMMA RunningStep == Running /\ [Next]_vars => Running'
<1> SUFFICES ASSUME Running, [Next]_vars PROVE Running'
  OBVIOUS
<1>1. CASE Generate
  <2>1. /\ found' = found \cup {Package(i, pc)} /\ i' = i /\ inputs' = inputs
        /\ pc \in {"jvm", "swift"}
        /\ pc' = IF pc = "jvm" THEN "jvm-run" ELSE "swift-run"
    BY <1>1 DEF Generate, Goes, repoVars
  <2> QED
    BY <2>1 DEF Running, Package
<1>2. CASE UNCHANGED vars
  BY <1>2 DEF vars, consumer, Running, Package
<1>3. ASSUME pc' \notin {"jvm-run", "swift-run"} PROVE Running'
  BY <1>3 DEF Running
<1>4. CASE Next /\ ~Generate
  <2>1. CASE Operator
    BY <1>3, <2>1 DEF Operator
  <2>2. CASE ~Operator
    BY <1>3, <1>4, <2>2
    DEF Next, Refuse, Start, Stat, CloneStep, CloneFail, Verify, Native, UnknownMode,
        BuildGenerator, Generated, WriteConsumer, PrepareFail, Kill, Ends, Goes
  <2> QED
    BY <2>1, <2>2
<1> QED
  BY <1>1, <1>2, <1>4

\* Consumer work and the surroundings.
LEMMA CompatStep == CompatInv /\ Running /\ [Next]_vars => CompatInv'
<1> SUFFICES ASSUME CompatInv, Running, [Next]_vars PROVE CompatInv'
  OBVIOUS
<1>0. TypeOK /\ Shaped /\ MaxRuns \in Nat /\ MaxKills \in Nat /\ MaxEdits \in Nat
  BY CompatAssumption DEF CompatInv, AdmittedIsReleased
<1>1. ASSUME NEW n \in {1, 2}, Refuse(n) PROVE CompatInv'
  <2>1. /\ runs < MaxRuns /\ runs' = runs + 1 /\ pc' = "idle" /\ exit' = n
        /\ exit' # 0
        /\ UNCHANGED <<repo, inputs, dir, found, whole, mode, i, kills, edits>>
    BY <1>1, EndCodes DEF Refuse, repoVars, consumer
  <2>2. Shaped' /\ TypeOK'
    BY <1>0, <2>1 DEF Shaped, TypeOK
  <2> QED
    BY <2>1, <2>2, Ending
<1>2. ASSUME NEW m \in Modes, NEW hasRoot \in BOOLEAN, NEW guard \in BOOLEAN,
             Start(m, hasRoot, guard)
      PROVE  CompatInv'
  BY <1>2, StartStep
<1>3. CASE Stat \/ CloneStep \/ CloneFail
  BY <1>3, CloningStep
<1>4. CASE Verify
  BY <1>4, VerifyStep
<1>5. ASSUME UNCHANGED <<repo, inputs, dir, mode, runs, kills, edits>>, whole' \subseteq found',
             i' \in Nat \ {0}, pc \in Working,
             \/ pc' = "idle" /\ exit' \in {0, 1}
             \/ pc' \in Working /\ exit' = None /\ exit' # 0
      PROVE  CompatInv'
  <2>1. Shaped' /\ TypeOK'
    BY <1>0, <1>5 DEF Shaped, TypeOK, Working
  <2>2. Check(repo) /\ \A t \in Known : Released(t)
    BY <1>5 DEF CompatInv, AdmittedIsReleased, PassedCheck, Working
  <2>3. CASE pc' = "idle"
    BY <1>5, <2>1, <2>2, <2>3, Ending
  <2>4. CASE pc' \in Working /\ exit' # 0
    BY <1>5, <2>1, <2>4, GoingOn
  <2> QED
    BY <1>5, <2>3, <2>4
<1>6. CASE Native
  <2>1. /\ UNCHANGED <<repo, inputs, dir, mode, found, whole, runs, kills, edits>>
        /\ pc \in Working
    BY <1>6 DEF Native, repoVars, consumer, counts, Working
  <2>2. i' \in {i, i + 1}
    BY <1>6 DEF Native
  <2>3. \/ pc' = "idle" /\ exit' \in {0, 1}
        \/ pc' \in Working /\ exit' = None /\ exit' # 0
    BY <1>6, EndCodes DEF Native, Working
  <2>4. i' \in Nat \ {0} /\ whole' \subseteq found'
    BY <1>0, <2>1, <2>2 DEF TypeOK
  <2> QED
    BY <1>5, <2>1, <2>3, <2>4
<1>7. CASE UnknownMode \/ BuildGenerator
  <2>1. /\ UNCHANGED <<repo, inputs, dir, mode, i, found, whole, runs, kills, edits>>
        /\ pc \in Working
    BY <1>7 DEF UnknownMode, BuildGenerator, repoVars, consumer, counts, Working
  <2>2. \/ pc' = "idle" /\ exit' \in {0, 1}
        \/ pc' \in Working /\ exit' = None /\ exit' # 0
    BY <1>7, EndCodes DEF UnknownMode, BuildGenerator, Working
  <2> QED
    BY <1>0, <1>5, <2>1, <2>2 DEF TypeOK
<1>8. CASE Generate
  <2>1. /\ UNCHANGED <<repo, inputs, dir, mode, i, runs, kills, edits>>
        /\ pc \in Working /\ whole' \subseteq whole /\ found \subseteq found'
    BY <1>8 DEF Generate, repoVars, counts, Working
  <2>2. pc' \in Working /\ exit' = None /\ exit' # 0
    BY <1>8, EndCodes DEF Generate, Working
  <2> QED
    BY <1>0, <1>5, <2>1, <2>2 DEF TypeOK
<1>9. CASE Generated
  <2> DEFINE lang == IF pc = "jvm-run" THEN "jvm" ELSE "swift"
  <2>1. /\ UNCHANGED <<repo, inputs, dir, mode, found, runs, kills, edits>>
        /\ pc \in Working /\ whole' = whole \cup {Package(i, lang)}
    BY <1>9 DEF Generated, repoVars, counts, Working
  <2>2. pc' \in Working /\ exit' = None /\ exit' # 0 /\ i' \in {i, i + 1}
    BY <1>9, EndCodes DEF Generated, Working
  <2>3. Package(i, lang) \in found
    BY <1>9 DEF Generated, Running
  <2> QED
    BY <1>0, <1>5, <2>1, <2>2, <2>3 DEF TypeOK
<1>10. CASE WriteConsumer \/ PrepareFail
  <2>1. /\ UNCHANGED <<repo, inputs, dir, mode, found, whole, i, runs, kills, edits>>
        /\ pc \in Working
    BY <1>10 DEF WriteConsumer, PrepareFail, repoVars, counts, Working
  <2>2. \/ pc' = "idle" /\ exit' \in {0, 1}
        \/ pc' \in Working /\ exit' = None /\ exit' # 0
    BY <1>10, EndCodes DEF WriteConsumer, PrepareFail, Working
  <2> QED
    BY <1>0, <1>5, <2>1, <2>2 DEF TypeOK
<1>11. CASE Kill
  <2>1. /\ kills < MaxKills /\ kills' = kills + 1 /\ pc' = "idle" /\ exit' # 0
        /\ exit' \in {None, 137}
        /\ UNCHANGED <<repo, inputs, dir, found, whole, mode, i, runs, edits>>
    BY <1>11, EndCodes DEF Kill, repoVars
  <2>2. Shaped' /\ TypeOK'
    BY <1>0, <2>1 DEF Shaped, TypeOK
  <2> QED
    BY <2>1, <2>2, Ending
<1>12. CASE Operator
  <2>1. /\ pc = "idle" /\ pc' = "idle" /\ exit' = None /\ exit' # 0 /\ edits < MaxEdits
        /\ edits' = edits + 1 /\ inputs' \in {inputs, LaterInputs}
        /\ UNCHANGED <<repo, found, whole, mode, i, runs, kills>>
    BY <1>12, CompatAssumption DEF Operator, consumer
  <2>2. dir' = [t \in Known |-> dir'[t]]
    BY <1>0, <1>12 DEF Operator, Shaped
  <2>3. Shaped' /\ TypeOK'
    BY <1>0, <2>1, <2>2 DEF Shaped, TypeOK
  <2> QED
    BY <2>1, <2>3
    DEF CompatInv, AdmittedIsReleased, PassedCheck, VerifiedBefore, ExitIdle, Working,
        Checking
<1>13. CASE UNCHANGED vars
  BY <1>13
  DEF vars, consumer, counts, CompatInv, AdmittedIsReleased, TypeOK, Shaped,
      PassedCheck, VerifiedBefore, ExitIdle, Released
<1> QED
  BY <1>1, <1>2, <1>3, <1>4, <1>6, <1>7, <1>8, <1>9, <1>10, <1>11, <1>12, <1>13
  DEF Next

\* It holds before the first invocation of jcrpc-compat.
LEMMA CompatInit == Init => CompatInv /\ Running
<1> SUFFICES ASSUME Init PROVE CompatInv /\ Running
  OBVIOUS
<1>1. None # 0 /\ MaxRuns \in Nat /\ MaxKills \in Nat /\ MaxEdits \in Nat
  BY CompatAssumption
<1>2. /\ repo \in Repos /\ dir = [t \in Known |-> None] /\ found = {} /\ whole = {}
      /\ inputs = FirstInputs /\ mode = "check" /\ pc = "idle" /\ i = 1 /\ exit = None
      /\ runs = 0 /\ kills = 0 /\ edits = 0
  BY DEF Init
<1>3. TypeOK /\ Shaped
  BY <1>1, <1>2 DEF TypeOK, Modes, Shaped
<1> QED
  BY <1>1, <1>2, <1>3
  DEF CompatInv, AdmittedIsReleased, PassedCheck, VerifiedBefore, ExitIdle, Running,
      Working, Checking

\* CompatInv is an invariant of jcrpc-compat.
LEMMA CompatAlways == Spec => [](CompatInv /\ Running)
<1>1. CompatInv /\ Running /\ [Next]_vars => (CompatInv /\ Running)'
  BY CompatStep, RunningStep
<1> QED
  BY CompatInit, <1>1, PTL DEF Spec

\* No invocation of jcrpc-compat starts consumer work or returns 0 on runtimes
\* that are not, all of them, the signed releases of the receipts, whatever
\* earlier invocations and the operator left under runtimes/.
THEOREM OnlyReleasedAdmitted == Spec => []AdmittedIsReleased
<1>1. CompatInv => AdmittedIsReleased
  BY DEF CompatInv
<1> QED
  BY CompatAlways, <1>1, PTL

----------------------------------------------------------------------------
\* jcrpc-compat --mode prepare: the consumer it leaves.

\* Input k is generated to the end, for Swift too unless it streams.
Done(k) ==
    /\ Package(k, "jvm") \in whole
    /\ inputs[k] \notin Streamed => Package(k, "swift") \in whole

\* The inputs before the current one are done, and of the current one what
\* comes before the step the invocation is at.
Progress ==
    /\ pc = "work" /\ mode = "prepare" => i = 1
    /\ pc \in {"jvm", "jvm-run", "swift", "swift-run"} =>
          /\ i \in DOMAIN inputs
          /\ \A k \in DOMAIN inputs : k < i => Done(k)
    /\ pc \in {"swift", "swift-run"} =>
          Package(i, "jvm") \in whole /\ inputs[i] \notin Streamed
    /\ pc \in {"settings", "build", "fixtures"} => \A k \in DOMAIN inputs : Done(k)

\* As long as no input was added, every package directory is of a current input.
NothingForeign ==
    inputs = FirstInputs =>
        \A p \in JvmBuilds : \E k \in DOMAIN inputs : p = Package(k, "jvm")

\* The Gradle files are written one after the other, from the same directories.
BaseNames == {Base(p) : p \in JvmBuilds}

FilesWritten ==
    /\ pc \in {"build", "fixtures"} => settings = JvmBuilds
    /\ pc = "fixtures" => build = BaseNames

Composed ==
    (exit = 0 /\ mode = "prepare") =>
        /\ \A k \in DOMAIN inputs : Done(k)
        /\ settings = JvmBuilds /\ build = BaseNames

PrepareInv == Progress /\ NothingForeign /\ FilesWritten /\ Composed

\* The invariant gives the property.
LEMMA PrepareInvGives == CompatInv /\ PrepareInv => PreparedComposes
<1> SUFFICES ASSUME CompatInv, PrepareInv, exit = 0, mode = "prepare"
             PROVE  LET current == {Package(k, "jvm") : k \in DOMAIN inputs} IN
                    /\ build = {Base(p) : p \in settings}
                    /\ current \subseteq settings \cap whole
                    /\ inputs = FirstInputs =>
                          settings = current /\ (Distinct(inputs) => Unambiguous(settings))
                    /\ inputs[1] \notin Streamed => Package(1, "swift") \in whole
  BY DEF PreparedComposes
<1>1. /\ \A k \in DOMAIN inputs : Done(k)
      /\ settings = JvmBuilds /\ build = BaseNames /\ whole \subseteq found
      /\ inputs \in {FirstInputs, LaterInputs}
  BY DEF PrepareInv, Composed, CompatInv, AdmittedIsReleased, TypeOK, Shaped
<1>2. \A k \in DOMAIN inputs : Package(k, "jvm") \in JvmBuilds /\ Package(k, "jvm") \in whole
  <2>1. \A k : Package(k, "jvm").lang = "jvm"
    BY DEF Package
  <2> QED
    BY <1>1, <2>1 DEF Done, JvmBuilds
<1>3. inputs = FirstInputs =>
        \A p \in JvmBuilds : \E k \in DOMAIN inputs : p = Package(k, "jvm")
  BY DEF PrepareInv, NothingForeign
<1>4. 1 \in DOMAIN inputs
  BY <1>1, CompatAssumption
<1>5. inputs[1] \notin Streamed => Package(1, "swift") \in whole
  BY <1>1, <1>4 DEF Done
<1>6. build = {Base(p) : p \in settings}
  BY <1>1 DEF BaseNames
<1>7. ASSUME inputs = FirstInputs, Distinct(inputs) PROVE Unambiguous(settings)
  <2> SUFFICES ASSUME NEW p \in settings, NEW q \in settings, Base(p) = Base(q)
               PROVE  p = q
    BY DEF Unambiguous
  <2>1. PICK k \in DOMAIN inputs : p = Package(k, "jvm")
    BY <1>1, <1>3, <1>7
  <2>2. PICK l \in DOMAIN inputs : q = Package(l, "jvm")
    BY <1>1, <1>3, <1>7
  <2>3. Base(p).input = inputs[k] /\ Base(q).input = inputs[l]
    BY <2>1, <2>2 DEF Package, Base
  <2>. QED  BY <1>7, <2>1, <2>2, <2>3 DEF Distinct
<1> QED
  BY <1>1, <1>2, <1>3, <1>5, <1>6, <1>7, Zenon

\* Steps outside the work of prepare leave nothing of it to be kept.
LEMMA OutsidePrepare ==
    ASSUME PrepareInv, UNCHANGED <<found, inputs>>, pc' \in Checking \cup {"idle", "work"},
           pc' = "work" /\ mode' = "prepare" => i' = 1,
           exit' # 0 \/ mode' # "prepare"
    PROVE  PrepareInv'
<1>1. Progress' /\ FilesWritten' /\ Composed'
  BY DEF Progress, FilesWritten, Composed, Checking
<1>2. NothingForeign'
  BY DEF PrepareInv, NothingForeign, JvmBuilds, Package
<1> QED
  BY <1>1, <1>2 DEF PrepareInv

\* Packages of different inputs, and of different languages, are different.
LEMMA PackagesDiffer ==
    ASSUME NEW k \in Nat, NEW l \in Nat, NEW a, NEW b
    PROVE  Package(k, a) = Package(l, b) => k = l /\ a = b
<1> SUFFICES ASSUME Package(k, a) = Package(l, b) PROVE k = l /\ a = b
  OBVIOUS
<1>1. Package(k, a).at = Package(l, b).at /\ Package(k, a).lang = Package(l, b).lang
  OBVIOUS
<1>2. k - 1 = l - 1 /\ a = b
  BY <1>1 DEF Package
<1> QED
  BY <1>2

\* jcrpc-gen rewrites the package of the current input and no other.
LEMMA GenerateStep ==
    ASSUME CompatInv, PrepareInv, Generate
    PROVE  PrepareInv'
<1>1. /\ pc \in {"jvm", "swift"} /\ whole' = whole \ {Package(i, pc)}
      /\ found' = found \cup {Package(i, pc)} /\ i' = i /\ mode' = mode
      /\ inputs' = inputs /\ exit' = None
      /\ pc' = IF pc = "jvm" THEN "jvm-run" ELSE "swift-run"
  BY DEF Generate, Goes, repoVars
<1>2. /\ i \in DOMAIN inputs /\ \A k \in DOMAIN inputs : k < i => Done(k)
      /\ (pc = "swift" => Package(i, "jvm") \in whole /\ inputs[i] \notin Streamed)
  BY <1>1 DEF PrepareInv, Progress
<1>3. DOMAIN inputs = 1..Len(inputs) /\ Len(inputs) \in Nat /\ exit' # 0
  BY <1>1, CompatAssumption DEF CompatInv, Shaped
<1>4. \A k, a : Package(k, a)' = Package(k, a)
  BY <1>1 DEF Package
<1>5. ASSUME NEW k \in DOMAIN inputs, k < i PROVE Done(k)'
  <2>1. k \in Nat /\ i \in Nat /\ k # i
    BY <1>2, <1>3, <1>5
  <2>2. Package(k, "jvm") # Package(i, pc) /\ Package(k, "swift") # Package(i, pc)
    BY <2>1, PackagesDiffer
  <2>3. Done(k)
    BY <1>2, <1>5
  <2> QED
    BY <1>1, <1>4, <2>2, <2>3 DEF Done
<1>6. pc = "swift" => Package(i, "jvm") \in whole'
  <2>1. i \in Nat
    BY <1>2, <1>3
  <2>2. pc = "swift" => Package(i, "jvm") # Package(i, pc)
    BY <2>1, PackagesDiffer
  <2> QED
    BY <1>1, <1>2, <2>2
<1>7. Progress'
  BY <1>1, <1>2, <1>4, <1>5, <1>6 DEF Progress
<1>8. NothingForeign'
  <2> SUFFICES ASSUME inputs = FirstInputs, NEW p \in JvmBuilds'
               PROVE  \E k \in DOMAIN inputs : p = Package(k, "jvm")
    BY <1>1, <1>4 DEF NothingForeign
  <2>1. CASE p \in JvmBuilds
    BY <2>1 DEF PrepareInv, NothingForeign
  <2>2. CASE p \notin JvmBuilds
    <3>1. p = Package(i, pc) /\ p.lang = "jvm"
      BY <1>1, <2>2 DEF JvmBuilds
    <3>2. pc = "jvm"
      BY <3>1 DEF Package
    <3> QED
      BY <1>2, <3>1, <3>2
  <2> QED
    BY <2>1, <2>2
<1> QED
  BY <1>1, <1>3, <1>7, <1>8 DEF PrepareInv, FilesWritten, Composed

\* An input is done when its last language is.
LEMMA GeneratedStep ==
    ASSUME CompatInv, PrepareInv, Generated
    PROVE  PrepareInv'
<1> DEFINE lang == IF pc = "jvm-run" THEN "jvm" ELSE "swift"
<1>1. /\ pc \in {"jvm-run", "swift-run"} /\ whole' = whole \cup {Package(i, lang)}
      /\ mode' = mode /\ inputs' = inputs /\ found' = found
  BY DEF Generated, repoVars
<1>2. exit' = None /\ exit' # 0
  BY CompatAssumption DEF Generated, Goes
<1>3. /\ i \in DOMAIN inputs /\ \A k \in DOMAIN inputs : k < i => Done(k)
      /\ (pc = "swift-run" => Package(i, "jvm") \in whole /\ inputs[i] \notin Streamed)
  BY <1>1 DEF PrepareInv, Progress
<1>4. DOMAIN inputs = 1..Len(inputs) /\ Len(inputs) \in Nat
  BY CompatAssumption DEF CompatInv, Shaped
<1>5. \A k, a : Package(k, a)' = Package(k, a)
  BY <1>1 DEF Package
<1>6. \A k \in DOMAIN inputs : k < i => Done(k)'
  BY <1>1, <1>3, <1>5 DEF Done
<1>7. NothingForeign'
  BY <1>1, <1>5 DEF PrepareInv, NothingForeign, JvmBuilds
<1>8. CASE lang = "jvm" /\ inputs[i] \notin Streamed
  <2>1. pc' = "swift" /\ i' = i
    BY <1>8 DEF Generated, Goes
  <2>2. Progress'
    BY <1>1, <1>3, <1>5, <1>6, <1>8, <2>1 DEF Progress
  <2> QED
    BY <1>2, <1>7, <2>1, <2>2 DEF PrepareInv, FilesWritten, Composed
<1>9. CASE ~(lang = "jvm" /\ inputs[i] \notin Streamed)
  <2>1. ASSUME NEW k, k = i PROVE Done(k)'
    BY <1>1, <1>3, <1>5, <1>9, <2>1 DEF Done
  <2>2. CASE i < Len(inputs)
    <3>1. pc' = "jvm" /\ i' = i + 1
      BY <1>9, <2>2 DEF Generated, Goes
    <3>2. i' \in DOMAIN inputs /\ \A k \in DOMAIN inputs : k < i' => k < i \/ k = i
      BY <1>3, <1>4, <2>2, <3>1
    <3>3. Progress'
      BY <1>1, <1>6, <2>1, <3>1, <3>2 DEF Progress
    <3> QED
      BY <1>2, <1>7, <3>1, <3>3 DEF PrepareInv, FilesWritten, Composed
  <2>3. CASE ~(i < Len(inputs))
    <3>1. pc' = "settings" /\ i' = i
      BY <1>9, <2>3 DEF Generated, Goes
    <3>2. \A k \in DOMAIN inputs : k < i \/ k = i
      BY <1>3, <1>4, <2>3
    <3>3. Progress'
      BY <1>1, <1>6, <2>1, <3>1, <3>2 DEF Progress
    <3> QED
      BY <1>2, <1>7, <3>1, <3>3 DEF PrepareInv, FilesWritten, Composed
  <2> QED
    BY <2>2, <2>3
<1> QED
  BY <1>8, <1>9

\* The Gradle files, and the end of prepare.
LEMMA WriteConsumerStep ==
    ASSUME CompatInv, PrepareInv, WriteConsumer
    PROVE  PrepareInv'
<1>1. /\ pc \in {"settings", "build", "fixtures"}
      /\ UNCHANGED <<inputs, found, whole, mode, i>>
  BY DEF WriteConsumer, repoVars
<1>2. /\ \A k \in DOMAIN inputs : Done(k)
      /\ \A k \in DOMAIN inputs : Done(k)'
  BY <1>1 DEF PrepareInv, Progress, Done, Package
<1>3. JvmBuilds' = JvmBuilds /\ BaseNames' = BaseNames /\ NothingForeign'
  BY <1>1 DEF PrepareInv, NothingForeign, JvmBuilds, Package, BaseNames, Base
<1>4. CASE pc = "settings"
  <2>1. pc' = "build" /\ exit' # 0 /\ settings' = JvmBuilds
    BY <1>4, EndCodes DEF WriteConsumer
  <2> QED
    BY <1>1, <1>2, <1>3, <2>1 DEF PrepareInv, Progress, FilesWritten, Composed
<1>5. CASE pc = "build"
  <2>1. pc' = "fixtures" /\ exit' # 0 /\ build' = BaseNames /\ settings' = settings
    BY <1>5, EndCodes DEF WriteConsumer, BaseNames
  <2> QED
    BY <1>1, <1>2, <1>3, <1>5, <2>1 DEF PrepareInv, Progress, FilesWritten, Composed
<1>6. CASE pc = "fixtures"
  <2>1. pc' = "idle" /\ build' = build /\ settings' = settings
    BY <1>6 DEF WriteConsumer, Ends
  <2> QED
    BY <1>1, <1>2, <1>3, <1>6, <2>1 DEF PrepareInv, Progress, FilesWritten, Composed
<1> QED
  BY <1>1, <1>4, <1>5, <1>6

\* Every step keeps what prepare knows of the packages and its two files.
LEMMA PrepareStep == CompatInv /\ PrepareInv /\ [Next]_vars => PrepareInv'
<1> SUFFICES ASSUME CompatInv, PrepareInv, [Next]_vars PROVE PrepareInv'
  OBVIOUS
<1>1. ASSUME NEW n \in {1, 2}, Refuse(n) PROVE PrepareInv'
  <2>1. pc' = "idle" /\ exit' # 0 /\ UNCHANGED <<found, inputs>>
    BY <1>1, EndCodes DEF Refuse, repoVars, consumer
  <2> QED
    BY <2>1, OutsidePrepare
<1>2. ASSUME NEW m \in Modes, NEW hasRoot \in BOOLEAN, NEW guard \in BOOLEAN,
             Start(m, hasRoot, guard)
      PROVE  PrepareInv'
  <2>1. /\ pc' \in {"idle", "stat", "verify"} /\ UNCHANGED <<found, inputs>>
        /\ exit' # 0 \/ mode' # "prepare"
    BY <1>2, EndCodes DEF Start, repoVars, consumer
  <2> QED
    BY <2>1, OutsidePrepare DEF Checking
<1>3. CASE Stat \/ CloneStep \/ CloneFail \/ UnknownMode
  <2>1. /\ pc' \in {"idle", "clone", "refs", "files", "verify"} /\ exit' # 0
        /\ UNCHANGED <<found, inputs>>
    BY <1>3, EndCodes
    DEF Stat, CloneStep, CloneFail, UnknownMode, repoVars, consumer
  <2> QED
    BY <2>1, OutsidePrepare DEF Checking
<1>4. CASE Verify
  <2>1. /\ pc' \in {"idle", "stat", "verify", "work"} /\ UNCHANGED <<found, inputs, mode>>
        /\ exit' # 0 \/ mode = "bootstrap"
        /\ pc' = "work" => i' = 1
    BY <1>4, EndCodes DEF Verify, repoVars, consumer
  <2> QED
    BY <2>1, OutsidePrepare DEF Checking
<1>5. CASE Native
  <2>1. /\ pc' \in {"idle", "work"} /\ UNCHANGED <<found, inputs, mode>>
        /\ mode # "prepare"
    BY <1>5, EndCodes DEF Native, repoVars, consumer
  <2> QED
    BY <2>1, OutsidePrepare DEF Checking
<1>6. CASE BuildGenerator
  <2>1. /\ pc = "work" /\ mode = "prepare" /\ exit' # 0
        /\ UNCHANGED <<inputs, found, mode, i>>
        /\ pc' \in {"jvm", "idle"}
    BY <1>6, EndCodes DEF BuildGenerator, repoVars, consumer
  <2>2. CASE pc' = "idle"
    BY <2>1, <2>2, OutsidePrepare
  <2>3. CASE pc' = "jvm"
    <3>1. i = 1 /\ DOMAIN inputs = 1..Len(inputs) /\ Len(inputs) \in Nat \ {0}
      BY <2>1, CompatAssumption DEF PrepareInv, Progress, CompatInv, Shaped
    <3>2. i' \in DOMAIN inputs /\ \A k \in DOMAIN inputs : ~(k < i')
      BY <2>1, <3>1
    <3>3. NothingForeign'
      BY <2>1 DEF PrepareInv, NothingForeign, JvmBuilds, Package
    <3> QED
      BY <2>1, <2>3, <3>2, <3>3 DEF PrepareInv, Progress, FilesWritten, Composed
  <2> QED
    BY <2>1, <2>2, <2>3
<1>7. CASE Generate
  BY <1>7, GenerateStep
<1>8. CASE Generated
  BY <1>8, GeneratedStep
<1>9. CASE WriteConsumer
  BY <1>9, WriteConsumerStep
<1>10. CASE PrepareFail \/ Kill
  <2>1. pc' = "idle" /\ exit' # 0 /\ UNCHANGED <<found, inputs>>
    BY <1>10, EndCodes DEF PrepareFail, Kill, repoVars
  <2> QED
    BY <2>1, OutsidePrepare
<1>11. CASE Operator
  <2>1. /\ pc' = "idle" /\ exit' # 0 /\ UNCHANGED <<found, whole>>
        /\ (inputs = FirstInputs /\ inputs' = LaterInputs) \/ inputs' = inputs
    BY <1>11, CompatAssumption DEF Operator, consumer
  <2>2. NothingForeign'
    BY <2>1 DEF PrepareInv, NothingForeign, JvmBuilds, Package
  <2> QED
    BY <2>1, <2>2 DEF PrepareInv, Progress, FilesWritten, Composed
<1>12. CASE UNCHANGED vars
  BY <1>12
  DEF vars, consumer, PrepareInv, Progress, FilesWritten, Composed, NothingForeign,
      JvmBuilds, Done, Package, BaseNames, Base
<1> QED
  BY <1>1, <1>2, <1>3, <1>4, <1>5, <1>6, <1>7, <1>8, <1>9, <1>10, <1>11, <1>12
  DEF Next

\* After exit code 0 of prepare the Gradle consumers compose: the two files name
\* the same builds, the second one by base name; every current input is among
\* them and generated to the end, whatever earlier invocations left half written
\* under generated/.
THEOREM PrepareComposes == Spec => []PreparedComposes
<1>1. Init => PrepareInv
  BY CompatAssumption
  DEF Init, PrepareInv, Progress, FilesWritten, Composed, NothingForeign, JvmBuilds
<1>2. Spec => []PrepareInv
  BY <1>1, PrepareStep, CompatAlways, PTL DEF Spec
<1> QED
  BY <1>2, CompatAlways, PrepareInvGives, PTL

----------------------------------------------------------------------------
\* jcrpc-mutants: the kills it attests.

Rows == [name : MutantNames, exit : {o.code : o \in Outcomes}, killed : BOOLEAN]
Copies == [copies : SUBSET Nat, unique : BOOLEAN, planted : BOOLEAN]

\* The invocation's mutants are the catalog or one of it.
Picked ==
    /\ DOMAIN selected = 1..Len(selected) /\ Len(selected) \in Nat
    /\ \A k \in DOMAIN selected : \E j \in DOMAIN Catalog : selected[k] = Catalog[j]
    /\ \A k, l \in DOMAIN selected : selected[k].name = selected[l].name => k = l

HarnessTyped ==
    /\ fixture \in [MutantNames -> Copies]
    /\ control = [m \in MutantNames |-> control[m]]
    /\ log = [m \in MutantNames |-> log[m]]
    /\ table \in Seq(Rows) /\ rows \in Seq(Rows)
    /\ harness \in Nat /\ harness <= MaxHarness
    /\ stage \in {"idle", "mkdir", "copy", "control", "plant", "test", "table"}
    /\ Picked

\* The logs show that m was killed: the body of KillsBacked.
Backed(m) ==
    /\ control[m.name] # NoLog /\ log[m.name] # NoLog
    /\ Event("pass", m.test, "") \in control[m.name].out.events
    /\ {Event("fail", m.test, ""), Event("output", m.test, m.assertion)}
         \subseteq log[m.name].out.events
    /\ ~control[m.name].on.planted /\ log[m.name].on.planted
    /\ control[m.name].on.unique /\ log[m.name].on.unique
    /\ control[m.name].on.copies = log[m.name].on.copies
    /\ \E h \in 1..harness : control[m.name].on.copies = {h}

\* A row is backed, and its mutant has a fixture, which no later invocation
\* enters.
Vouched(r) ==
    /\ fixture[r.name].copies # {}
    /\ r.killed => Backed(Entry(r.name))

RowsVouched ==
    /\ \A k \in DOMAIN table : Vouched(table[k])
    /\ \A k \in DOMAIN rows : Vouched(rows[k])

\* The mutant at hand has no row yet.
Fresh ==
    stage \in {"copy", "control", "plant", "test"} =>
        /\ fixture[Name].copies = {harness}
        /\ \A k \in DOMAIN table : table[k].name # Name
        /\ \A k \in DOMAIN rows : rows[k].name # Name

\* This invocation's copy of the mutant at hand.
OwnCopy(u, p) == [copies |-> {harness}, unique |-> u, planted |-> p]

\* What the control has shown once the plant is due.
Controlled ==
    /\ stage \in {"control", "plant"} => fixture[Name].planted = FALSE
    /\ stage = "test" => fixture[Name].planted = TRUE /\ fixture[Name].unique = TRUE
    /\ stage \in {"plant", "test"} =>
          \E o \in Outcomes :
             /\ NamedPass(Mutant, o)
             /\ control[Name] = [out |-> o, on |-> OwnCopy(fixture[Name].unique, FALSE)]

\* The rows are those of the selected mutants so far, in their order.
Reported ==
    /\ stage # "idle" => code = 3 /\ harness > 0
    /\ stage \in {"mkdir", "copy", "control", "plant", "test"} =>
          turn \in DOMAIN selected /\ Len(rows) = turn - 1
    /\ stage = "table" => Len(rows) = Len(selected) /\ selected # <<>>
    /\ stage # "idle" => \A k \in DOMAIN rows : rows[k].name = selected[k].name

MutantsInv ==
    /\ HarnessTyped
    /\ RowsVouched
    /\ Fresh
    /\ Controlled
    /\ Reported
    /\ SuccessAttestsAll

\* Names identify catalog entries.
LEMMA EntryOf ==
    ASSUME NEW j \in DOMAIN Catalog
    PROVE  Entry(Catalog[j].name) = Catalog[j] /\ Catalog[j].name \in MutantNames
<1> DEFINE c == CHOOSE k \in DOMAIN Catalog : Catalog[k].name = Catalog[j].name
<1>1. c \in DOMAIN Catalog /\ Catalog[c].name = Catalog[j].name
  OBVIOUS
<1>2. c = j
  BY <1>1, CatalogAssumption
<1> QED
  BY <1>2 DEF Entry, MutantNames

\* The invariant gives the first property.
LEMMA MutantsInvGives == MutantsInv => KillsBacked
<1> SUFFICES ASSUME MutantsInv, NEW k \in DOMAIN table, table[k].killed
             PROVE  LET m == Entry(table[k].name)
                        before == control[m.name]
                        after == log[m.name]
                    IN  /\ before # NoLog /\ after # NoLog
                        /\ Event("pass", m.test, "") \in before.out.events
                        /\ {Event("fail", m.test, ""), Event("output", m.test, m.assertion)}
                             \subseteq after.out.events
                        /\ ~before.on.planted /\ after.on.planted
                        /\ before.on.unique /\ after.on.unique
                        /\ before.on.copies = after.on.copies
                        /\ \E h \in 1..harness : before.on.copies = {h}
  BY DEF KillsBacked
<1>1. Backed(Entry(table[k].name))
  BY DEF MutantsInv, RowsVouched, Vouched
<1> QED
  BY <1>1, Zenon DEF Backed

\* A row stays vouched for as long as its logs and its fixture stay.
LEMMA VouchedKept ==
    ASSUME NEW r \in Rows, Vouched(r), HarnessTyped,
           control'[r.name] = control[r.name], log'[r.name] = log[r.name],
           fixture'[r.name].copies = fixture[r.name].copies,
           harness' \in Nat, harness' >= harness
    PROVE  Vouched(r)'
<1>1. r.name \in MutantNames
  BY DEF Rows
<1>2. PICK j \in DOMAIN Catalog : r.name = Catalog[j].name
  BY <1>1 DEF MutantNames
<1>3. Entry(r.name).name = r.name
  BY <1>2, EntryOf
<1>4. harness \in Nat
  BY DEF HarnessTyped
<1>5. \A h \in 1..harness : h \in 1..harness'
  BY <1>4
<1> DEFINE m == Entry(r.name)
<1>6. m' = m
  BY DEF Entry
<1>7. Backed(m) => Backed(m)'
  <2>1. m.name = r.name
    BY <1>3
  <2> HIDE DEF m
  <2>2. control'[m.name] = control[m.name] /\ log'[m.name] = log[m.name]
    BY <2>1
  <2> QED
    BY <1>5, <1>6, <2>2, Zenon DEF Backed
<1> QED
  BY <1>6, <1>7 DEF Vouched

AtMutant == {"mkdir", "copy", "control", "plant", "test"}

\* The mutant at hand is one of the catalog.
LEMMA AtHand ==
    ASSUME MutantsInv, stage \in AtMutant
    PROVE  /\ Name \in MutantNames /\ Entry(Name) = Mutant
           /\ turn \in 1..Len(selected) /\ Len(selected) \in Nat
<1>1. turn \in DOMAIN selected /\ DOMAIN selected = 1..Len(selected)
      /\ Len(selected) \in Nat
  BY DEF MutantsInv, Reported, AtMutant, HarnessTyped, Picked
<1>2. PICK j \in DOMAIN Catalog : selected[turn] = Catalog[j]
  BY <1>1 DEF MutantsInv, HarnessTyped, Picked
<1> QED
  BY <1>1, <1>2, EntryOf DEF Mutant, Name

\* Only the mutant at hand is written to, so the rows stay vouched for.
LEMMA OthersKept ==
    ASSUME MutantsInv, HarnessTyped', UNCHANGED <<rows, harness>>,
           table' \in {table, <<>>},
           \A m \in MutantNames : fixture'[m].copies = fixture[m].copies,
           \A m \in MutantNames :
              (stage \in {"control", "test"} /\ m = Name)
                \/ (control'[m] = control[m] /\ log'[m] = log[m])
    PROVE  RowsVouched'
<1>1. harness' \in Nat /\ harness' >= harness /\ HarnessTyped
  BY DEF MutantsInv, HarnessTyped
<1>2. ASSUME NEW r \in Rows, Vouched(r), stage \in {"control", "test"} => r.name # Name
      PROVE  Vouched(r)'
  <2>1. r.name \in MutantNames
    BY DEF Rows
  <2>2. control'[r.name] = control[r.name] /\ log'[r.name] = log[r.name]
        /\ fixture'[r.name].copies = fixture[r.name].copies
    BY <1>2, <2>1
  <2> QED
    BY <1>1, <1>2, <2>2, VouchedKept
<1>3. /\ \A k \in DOMAIN table : table[k] \in Rows /\ Vouched(table[k])
      /\ \A k \in DOMAIN rows : rows[k] \in Rows /\ Vouched(rows[k])
  BY <1>1 DEF HarnessTyped, MutantsInv, RowsVouched
<1>4. stage \in {"control", "test"} =>
         /\ \A k \in DOMAIN table : table[k].name # Name
         /\ \A k \in DOMAIN rows : rows[k].name # Name
  BY DEF MutantsInv, Fresh
<1>5. ASSUME NEW k \in DOMAIN rows, NEW r, r = rows[k] PROVE Vouched(r)'
  BY <1>2, <1>3, <1>4, <1>5
<1>6. ASSUME NEW k \in DOMAIN table, NEW r, r = table[k] PROVE Vouched(r)'
  BY <1>2, <1>3, <1>4, <1>6
<1>7. \A k \in DOMAIN rows' : Vouched(rows[k])'
  BY <1>5
<1>8. \A k \in DOMAIN table' : Vouched(table[k])'
  BY <1>6
<1> QED
  BY <1>7, <1>8 DEF RowsVouched

\* An invocation stops early, or is killed.
LEMMA HarnessStops ==
    ASSUME MutantsInv, HarnessTyped', UNCHANGED <<rows, harness>>,
           table' \in {table, <<>>}, stage' = "idle", code' # 0,
           \A m \in MutantNames : fixture'[m].copies = fixture[m].copies,
           \A m \in MutantNames :
              (stage \in {"control", "test"} /\ m = Name)
                \/ (control'[m] = control[m] /\ log'[m] = log[m])
    PROVE  MutantsInv'
<1>1. RowsVouched'
  BY OthersKept
<1> QED
  BY <1>1 DEF MutantsInv, Fresh, Controlled, Reported, SuccessAttestsAll

\* A new invocation: its selection, and an empty report.
LEMMA HarnessStartStep ==
    ASSUME MutantsInv, HarnessStart
    PROVE  MutantsInv'
<1>1. /\ stage = "idle" /\ harness < MaxHarness /\ harness' = harness + 1 /\ turn' = 1
      /\ rows' = <<>> /\ UNCHANGED <<fixture, control, log, table>>
      /\ \/ /\ selected' \in {Catalog} \cup {<<Catalog[k]>> : k \in DOMAIN Catalog}
            /\ stage' = "mkdir" /\ code' = 3
         \/ selected' = <<>> /\ stage' = "idle" /\ code' = 2
  BY DEF HarnessStart, Stops, disk
<1>2. harness \in Nat /\ harness' \in Nat /\ harness' > 0 /\ harness' <= MaxHarness
      /\ harness' >= harness
  <2>1. harness \in Nat /\ MaxHarness \in Nat
    BY OutcomesAssumption DEF MutantsInv, HarnessTyped
  <2> QED
    BY <1>1, <2>1
<1>3. Picked' /\ (selected' = <<>> \/ 1 \in DOMAIN selected')
  <2>1. CASE selected' = Catalog
    BY <2>1, CatalogAssumption DEF Picked
  <2>2. ASSUME NEW j \in DOMAIN Catalog, selected' = <<Catalog[j]>>
        PROVE  Picked' /\ 1 \in DOMAIN selected'
    <3>1. /\ DOMAIN selected' = 1..1 /\ Len(selected') = 1 /\ selected'[1] = Catalog[j]
      BY <2>2
    <3> QED
      BY <3>1 DEF Picked
  <2>3. CASE selected' = <<>>
    BY <2>3 DEF Picked
  <2> QED
    BY <1>1, <2>1, <2>2, <2>3, CatalogAssumption
<1>4. HarnessTyped'
  <2>1. rows' \in Seq(Rows)
    BY <1>1
  <2> QED
    BY <1>1, <1>2, <1>3, <2>1 DEF MutantsInv, HarnessTyped
<1>5. RowsVouched'
  <2>1. ASSUME NEW k \in DOMAIN table, NEW r, r = table[k] PROVE Vouched(r)'
    <3>1. r \in Rows /\ Vouched(r) /\ HarnessTyped
      BY <2>1 DEF MutantsInv, HarnessTyped, RowsVouched
    <3> QED
      BY <1>1, <1>2, <3>1, VouchedKept
  <2>2. \A k \in DOMAIN table' : Vouched(table[k])'
    BY <1>1, <2>1
  <2>3. \A k \in DOMAIN rows' : Vouched(rows[k])'
    BY <1>1
  <2> QED
    BY <2>2, <2>3 DEF RowsVouched
<1>6. Len(rows') = 0 /\ DOMAIN rows' = {}
  BY <1>1
<1>7. stage' = "mkdir" => 1 \in DOMAIN selected'
  <2>1. <<>> \notin {Catalog} \cup {<<Catalog[k]>> : k \in DOMAIN Catalog}
    <3>1. Catalog # <<>>
      BY CatalogAssumption
    <3> QED
      BY <3>1
  <2> QED
    BY <1>1, <1>3, <2>1
<1> QED
  BY <1>1, <1>2, <1>4, <1>5, <1>6, <1>7
  DEF MutantsInv, Fresh, Controlled, Reported, SuccessAttestsAll, OwnCopy

\* Mkdir enters no fixture that is there: no mutant with a row is run again.
LEMMA MkdirStep ==
    ASSUME MutantsInv, Mkdir
    PROVE  MutantsInv'
<1>1. /\ stage = "mkdir"
      /\ UNCHANGED <<control, log, table, selected, turn, rows, harness>>
  BY DEF Mkdir
<1>2. Name \in MutantNames /\ HarnessTyped /\ harness > 0 /\ code = 3
  BY <1>1, AtHand DEF AtMutant, MutantsInv, Reported
<1>3. CASE fixture[Name].copies # {}
  <2>1. stage' = "idle" /\ code' = 1 /\ fixture' = fixture
    BY <1>3 DEF Mkdir, Stops
  <2>2. HarnessTyped'
    BY <1>1, <1>2, <2>1 DEF HarnessTyped, Picked
  <2> QED
    BY <1>1, <2>1, <2>2, HarnessStops
<1>4. CASE fixture[Name].copies = {}
  <2>1. /\ fixture' = [fixture EXCEPT ![Name].copies = {harness}]
        /\ stage' = "copy" /\ code' = code
    BY <1>4 DEF Mkdir
  <2>2. /\ fixture' \in [MutantNames -> Copies] /\ fixture'[Name].copies = {harness}
        /\ \A m \in MutantNames : m # Name => fixture'[m] = fixture[m]
    BY <1>2, <2>1 DEF HarnessTyped, Copies
  <2>3. HarnessTyped'
    BY <1>1, <1>2, <2>1, <2>2 DEF HarnessTyped, Picked
  <2>4. ASSUME NEW r \in Rows, Vouched(r) PROVE Vouched(r)' /\ r.name # Name
    <3>1. r.name # Name /\ r.name \in MutantNames
      BY <1>4, <2>4 DEF Vouched, Rows
    <3>2. fixture'[r.name].copies = fixture[r.name].copies
      BY <2>2, <3>1
    <3>3. harness' \in Nat /\ harness' >= harness
      BY <1>1, <1>2 DEF HarnessTyped
    <3> QED
      BY <1>1, <1>2, <2>4, <3>1, <3>2, <3>3, VouchedKept
  <2>5. /\ \A k \in DOMAIN table : table[k] \in Rows /\ Vouched(table[k])
        /\ \A k \in DOMAIN rows : rows[k] \in Rows /\ Vouched(rows[k])
    BY <1>2 DEF HarnessTyped, MutantsInv, RowsVouched
  <2>6. RowsVouched'
    <3>1. ASSUME NEW k \in DOMAIN rows, NEW r, r = rows[k] PROVE Vouched(r)'
      BY <2>4, <2>5, <3>1
    <3>2. ASSUME NEW k \in DOMAIN table, NEW r, r = table[k] PROVE Vouched(r)'
      BY <2>4, <2>5, <3>2
    <3>3. \A k \in DOMAIN rows' : Vouched(rows[k])'
      BY <1>1, <3>1
    <3>4. \A k \in DOMAIN table' : Vouched(table[k])'
      BY <1>1, <3>2
    <3> QED
      BY <3>3, <3>4 DEF RowsVouched
  <2>7. Name' = Name
    BY <1>1 DEF Name, Mutant
  <2>8. Fresh'
    BY <1>1, <2>2, <2>4, <2>5, <2>7 DEF Fresh
  <2> QED
    BY <1>1, <1>2, <2>1, <2>3, <2>6, <2>8
    DEF MutantsInv, Controlled, Reported, SuccessAttestsAll
<1> QED
  BY <1>3, <1>4

\* The copies are put in place, or the plant on them.
LEMMA FixtureStep ==
    ASSUME MutantsInv, CopyTrees \/ Plant
    PROVE  MutantsInv'
<1>1. /\ stage \in {"copy", "plant"}
      /\ UNCHANGED <<control, log, table, selected, turn, rows, harness>>
  BY DEF CopyTrees, Plant
<1>2. Name \in MutantNames /\ HarnessTyped /\ harness > 0 /\ code = 3
  BY <1>1, AtHand DEF AtMutant, MutantsInv, Reported
<1>3. CASE stage' = "idle"
  <2>1. code' = 1 /\ fixture' = fixture
    BY <1>3 DEF CopyTrees, Plant, Stops
  <2>2. HarnessTyped'
    BY <1>1, <1>2, <1>3, <2>1 DEF HarnessTyped, Picked
  <2> QED
    BY <1>1, <1>3, <2>1, <2>2, HarnessStops
<1>4. CASE stage' # "idle"
  <2>1. \/ /\ stage = "copy" /\ stage' = "control" /\ code' = code
           /\ \E once \in BOOLEAN :
                fixture' = [fixture EXCEPT ![Name].unique = once, ![Name].planted = FALSE]
        \/ /\ stage = "plant" /\ stage' = "test" /\ code' = code
           /\ fixture[Name].unique
           /\ fixture' = [fixture EXCEPT ![Name].planted = TRUE]
    BY <1>1, <1>4, Zenon DEF CopyTrees, Plant, Stops
  <2>2. /\ fixture' \in [MutantNames -> Copies]
        /\ \A m \in MutantNames : fixture'[m].copies = fixture[m].copies
        /\ stage = "copy" => fixture'[Name].planted = FALSE
        /\ stage = "plant" => /\ fixture'[Name].planted = TRUE
                              /\ fixture'[Name].unique = TRUE
    <3>1. fixture \in [MutantNames -> Copies] /\ fixture[Name] \in Copies
      BY <1>2 DEF HarnessTyped
    <3>2. ASSUME NEW once \in BOOLEAN,
                 fixture' = [fixture EXCEPT ![Name].unique = once, ![Name].planted = FALSE]
          PROVE  /\ fixture' \in [MutantNames -> Copies]
                 /\ \A m \in MutantNames : fixture'[m].copies = fixture[m].copies
                 /\ fixture'[Name].planted = FALSE
      BY <1>2, <3>1, <3>2 DEF Copies
    <3>3. ASSUME fixture' = [fixture EXCEPT ![Name].planted = TRUE], fixture[Name].unique
          PROVE  /\ fixture' \in [MutantNames -> Copies]
                 /\ \A m \in MutantNames : fixture'[m].copies = fixture[m].copies
                 /\ fixture'[Name].planted = TRUE /\ fixture'[Name].unique = TRUE
      <4>1. fixture[Name].unique = TRUE
        BY <3>1, <3>3, Zenon DEF Copies
      <4>. QED  BY <1>2, <3>1, <3>3, <4>1 DEF Copies
    <3>. QED  BY <2>1, <3>2, <3>3
  <2>3. HarnessTyped' /\ stage' \in {"control", "test"}
    BY <1>1, <1>2, <2>1, <2>2 DEF HarnessTyped, Picked
  <2>4. RowsVouched'
    BY <1>1, <2>2, <2>3, OthersKept
  <2>5. Name' = Name /\ Mutant' = Mutant
    BY <1>1 DEF Name, Mutant
  <2>6. Fresh'
    BY <1>1, <1>2, <2>2, <2>5 DEF MutantsInv, Fresh
  <2>7. Controlled'
    <3>1. CASE stage = "copy"
      BY <2>1, <2>2, <2>5, <3>1 DEF Controlled
    <3>2. CASE stage = "plant"
      <4>1. PICK o \in Outcomes :
               /\ NamedPass(Mutant, o)
               /\ control[Name] = [out |-> o, on |-> OwnCopy(fixture[Name].unique, FALSE)]
        BY <3>2 DEF MutantsInv, Controlled
      <4>2. fixture[Name].unique = TRUE
        <5>1. fixture[Name].unique \in BOOLEAN
          BY <1>2 DEF HarnessTyped, Copies
        <5>. QED  BY <2>1, <3>2, <5>1, Zenon
      <4>3. control'[Name] = [out |-> o, on |-> OwnCopy(TRUE, FALSE)]
        BY <1>1, <4>1, <4>2
      <4>4. NamedPass(Mutant, o)'
        BY <4>1, <2>5 DEF NamedPass
      <4>5. OwnCopy(TRUE, FALSE)' = OwnCopy(TRUE, FALSE)
        BY <1>1 DEF OwnCopy
      <4>6. stage' = "test" /\ fixture'[Name].unique = TRUE /\ fixture'[Name].planted = TRUE
        BY <2>1, <2>2, <3>2
      <4> QED
        BY <2>5, <4>3, <4>4, <4>5, <4>6 DEF Controlled
    <3> QED
      BY <1>1, <3>1, <3>2
  <2>8. Reported'
    BY <1>1, <1>2, <2>1, <2>3 DEF MutantsInv, Reported
  <2> QED
    BY <1>2, <2>1, <2>3, <2>4, <2>6, <2>7, <2>8 DEF MutantsInv, SuccessAttestsAll
<1> QED
  BY <1>3, <1>4

\* The control: whatever it prints is logged, and only a pass of the named test
\* goes on.
LEMMA RunControlStep ==
    ASSUME MutantsInv, RunControl
    PROVE  MutantsInv'
<1>1. /\ stage = "control"
      /\ UNCHANGED <<fixture, log, table, selected, turn, rows, harness>>
  BY DEF RunControl
<1>2. /\ Name \in MutantNames /\ HarnessTyped /\ harness > 0 /\ code = 3
      /\ fixture[Name] \in Copies
  BY <1>1, AtHand DEF AtMutant, MutantsInv, Reported, HarnessTyped
<1>3. /\ control' = [m \in MutantNames |-> control'[m]]
      /\ \A m \in MutantNames : m # Name => control'[m] = control[m]
  <2>1. \E e : control' = [control EXCEPT ![Name] = e]
    <3>1. control = [control EXCEPT ![Name] = control[Name]]
      BY <1>2 DEF HarnessTyped
    <3> QED
      BY <3>1, Zenon DEF RunControl, TornLog
  <2>2. PICK e : control' = [control EXCEPT ![Name] = e]
    BY <2>1
  <2> QED
    BY <1>2, <2>2 DEF HarnessTyped
<1>4. stage' \in {"idle", "plant"}
  BY DEF RunControl, Stops
<1>5. HarnessTyped'
  BY <1>1, <1>2, <1>3, <1>4 DEF HarnessTyped, Picked
<1>6. CASE stage' = "idle"
  <2>1. code' = 1
    BY <1>6 DEF RunControl, Stops
  <2> QED
    BY <1>1, <1>3, <1>5, <1>6, <2>1, HarnessStops
<1>7. CASE stage' = "plant"
  <2>1. PICK o \in Outcomes :
           /\ control' = [control EXCEPT ![Name] = Evidence(o)]
           /\ NamedPass(Mutant, o) /\ code' = code
    BY <1>7 DEF RunControl, Stops
  <2>2. control'[Name] = [out |-> o, on |-> fixture[Name]]
    BY <1>2, <2>1 DEF HarnessTyped, Evidence
  <2>3. fixture[Name] = OwnCopy(fixture[Name].unique, FALSE)
    <3>1. fixture[Name].copies = {harness} /\ fixture[Name].planted = FALSE
      BY <1>1 DEF MutantsInv, Fresh, Controlled
    <3> QED
      BY <1>2, <3>1 DEF Copies, OwnCopy
  <2>4. RowsVouched'
    BY <1>1, <1>3, <1>5, OthersKept
  <2>5. Name' = Name /\ Mutant' = Mutant
    BY <1>1 DEF Name, Mutant
  <2>6. Fresh'
    BY <1>1, <2>5 DEF MutantsInv, Fresh
  <2>7. Controlled'
    <3>1. control'[Name] = [out |-> o, on |-> OwnCopy(fixture[Name].unique, FALSE)]
      BY <2>2, <2>3
    <3>2. fixture'[Name].planted = FALSE
      BY <1>1 DEF MutantsInv, Controlled
    <3>3. NamedPass(Mutant, o)'
      BY <2>1, <2>5 DEF NamedPass
    <3> QED
      BY <1>1, <1>7, <2>5, <3>1, <3>2, <3>3 DEF Controlled, OwnCopy
  <2>8. Reported'
    BY <1>1, <1>2, <1>7, <2>1 DEF MutantsInv, Reported
  <2> QED
    BY <1>2, <1>5, <2>1, <2>4, <2>6, <2>7, <2>8 DEF MutantsInv, SuccessAttestsAll
<1> QED
  BY <1>4, <1>6, <1>7

\* What a named pass or failure shows of the events.
LEMMA NamedEvents ==
    ASSUME NEW m, NEW o \in Outcomes
    PROVE  /\ NamedPass(m, o) => Event("pass", m.test, "") \in o.events
           /\ NamedFailure(m, o) =>
                 /\ Event("fail", m.test, "") \in o.events
                 /\ Event("output", m.test, m.assertion) \in o.events
<1>1. \A e \in o.events : /\ e = Event(e.action, e.test, e.output)
                          /\ e.action # "output" => e.output = ""
  BY OutcomesAssumption
<1>2. ASSUME NamedPass(m, o) PROVE Event("pass", m.test, "") \in o.events
  <2>1. PICK e \in o.events : e.action = "pass" /\ e.test = m.test
    BY <1>2 DEF NamedPass
  <2>2. e.output = ""
    BY <1>1, <2>1
  <2>3. e = Event("pass", m.test, "")
    BY <1>1, <2>1, <2>2, Zenon
  <2> QED
    BY <2>3
<1>3. ASSUME NamedFailure(m, o)
      PROVE  /\ Event("fail", m.test, "") \in o.events
             /\ Event("output", m.test, m.assertion) \in o.events
  <2>1. PICK e \in o.events : e.action = "fail" /\ e.test = m.test
    BY <1>3 DEF NamedFailure
  <2>2. PICK f \in o.events : f.action = "output" /\ f.test = m.test
                                /\ Contains(f.output, m.assertion)
    BY <1>3 DEF NamedFailure
  <2>3. e.output = "" /\ f.output = m.assertion
    BY <1>1, <1>3, <2>1, <2>2 DEF NamedFailure, Contains
  <2>4. e = Event("fail", m.test, "") /\ f = Event("output", m.test, m.assertion)
    BY <1>1, <2>1, <2>2, <2>3, Zenon
  <2> QED
    BY <2>4
<1> QED
  BY <1>2, <1>3

\* The test on the planted copy: a killed mutant's row has both logs behind it.
LEMMA RunTestStep ==
    ASSUME MutantsInv, RunTest
    PROVE  MutantsInv'
<1>1. /\ stage = "test" /\ UNCHANGED <<fixture, control, table, selected, harness>>
  BY DEF RunTest
<1>2. /\ Name \in MutantNames /\ HarnessTyped /\ harness > 0 /\ code = 3
      /\ fixture[Name] \in Copies /\ Entry(Name) = Mutant
      /\ turn \in 1..Len(selected) /\ Len(selected) \in Nat /\ Len(rows) = turn - 1
  BY <1>1, AtHand DEF AtMutant, MutantsInv, Reported, HarnessTyped
<1>3. CASE Stops(1) /\ log' \in TornLog(log) /\ UNCHANGED <<turn, rows>>
  <2>1. /\ log' = [m \in MutantNames |-> log'[m]]
        /\ \A m \in MutantNames : m # Name => log'[m] = log[m]
    BY <1>2, <1>3 DEF HarnessTyped, TornLog
  <2>2. stage' = "idle" /\ code' = 1
    BY <1>3 DEF Stops
  <2>3. HarnessTyped'
    BY <1>1, <1>2, <1>3, <2>1, <2>2 DEF HarnessTyped, Picked
  <2> QED
    BY <1>1, <1>3, <2>1, <2>2, <2>3, HarnessStops
<1>4. CASE ~(Stops(1) /\ log' \in TornLog(log) /\ UNCHANGED <<turn, rows>>)
  <2> DEFINE row(o) == [name |-> Name, exit |-> o.code, killed |-> NamedFailure(Mutant, o)]
  <2>1. PICK o \in Outcomes :
           /\ log' = [log EXCEPT ![Name] = Evidence(o)]
           /\ rows' = Append(rows, row(o))
           /\ turn' = turn + 1
           /\ stage' = IF turn < Len(selected) THEN "mkdir" ELSE "table"
           /\ code' = code
    BY <1>4 DEF RunTest
  <2>2. row(o) \in Rows
    <3>1. NamedFailure(Mutant, o) \in BOOLEAN
      BY DEF NamedFailure
    <3> HIDE DEF Name
    <3> QED
      BY <1>2, <3>1 DEF Rows
  <2>3. /\ log' = [m \in MutantNames |-> log'[m]]
        /\ \A m \in MutantNames : m # Name => log'[m] = log[m]
        /\ log'[Name] = [out |-> o, on |-> fixture[Name]]
    BY <1>2, <2>1 DEF HarnessTyped, Evidence
  <2> DEFINE r == row(o)
  <2>4. r.name = Name /\ r.killed = NamedFailure(Mutant, o)
    OBVIOUS
  <2> HIDE DEF r
  <2>5. /\ rows' \in Seq(Rows) /\ rows \in Seq(Rows) /\ Len(rows') = Len(rows) + 1
        /\ \A k \in DOMAIN rows : rows'[k] = rows[k]
        /\ \A k \in DOMAIN rows' : k \in DOMAIN rows \/ k = Len(rows) + 1
        /\ rows'[Len(rows) + 1] = r
    <3>1. rows \in Seq(Rows) /\ r \in Rows /\ rows' = Append(rows, r)
      BY <1>2, <2>1, <2>2 DEF HarnessTyped, r
    <3> QED
      BY <3>1
  <2>6. HarnessTyped'
    BY <1>1, <1>2, <2>1, <2>3, <2>5 DEF HarnessTyped, Picked
  <2>7. PICK c \in Outcomes :
           /\ NamedPass(Mutant, c)
           /\ control[Name] = [out |-> c, on |-> OwnCopy(TRUE, FALSE)]
    BY <1>1 DEF MutantsInv, Controlled
  <2>8. fixture[Name] = OwnCopy(TRUE, TRUE)
    <3>1. /\ fixture[Name].copies = {harness} /\ fixture[Name].planted = TRUE
          /\ fixture[Name].unique = TRUE
      BY <1>1 DEF MutantsInv, Fresh, Controlled
    <3> QED
      BY <1>2, <3>1 DEF Copies, OwnCopy
  <2>9. ASSUME NEW v, v = r PROVE Vouched(v)'
    <3>1. fixture'[v.name].copies # {}
      BY <1>1, <2>4, <2>8, <2>9 DEF OwnCopy
    <3>2. ASSUME NamedFailure(Mutant, o) PROVE Backed(Entry(v.name))'
      <4> DEFINE m == Entry(v.name)
      <4>1. m = Mutant /\ m.name = Name /\ m' = m
        BY <1>2, <2>4, <2>9 DEF Name, Entry
      <4>2. /\ control'[m.name] = [out |-> c, on |-> OwnCopy(TRUE, FALSE)]
            /\ log'[m.name] = [out |-> o, on |-> OwnCopy(TRUE, TRUE)]
        BY <1>1, <2>3, <2>7, <2>8, <4>1
      <4>3. control'[m.name] # NoLog /\ log'[m.name] # NoLog
        <5>1. harness \in 1..MaxHarness
          <6>1. harness \in Nat /\ harness <= MaxHarness /\ MaxHarness \in Nat
            BY <1>2, OutcomesAssumption DEF HarnessTyped
          <6> QED
            BY <1>2, <6>1
        <5>2. OwnCopy(TRUE, FALSE) \in Copied /\ OwnCopy(TRUE, TRUE) \in Copied
          BY <5>1 DEF OwnCopy, Copied
        <5>3. /\ control'[m.name] \in [out : Outcomes, on : Copied]
              /\ log'[m.name] \in [out : Outcomes, on : Copied]
          <6> HIDE DEF m
          <6>1. ASSUME NEW p \in Copied, NEW q \in Outcomes
                PROVE  [out |-> q, on |-> p] \in [out : Outcomes, on : Copied]
            OBVIOUS
          <6>. QED  BY <4>2, <5>2, <6>1, Zenon
        <5> HIDE DEF m
        <5> QED
          BY <5>3, OutcomesAssumption
      <4>4. /\ Event("pass", m.test, "") \in control'[m.name].out.events
            /\ {Event("fail", m.test, ""), Event("output", m.test, m.assertion)}
                 \subseteq log'[m.name].out.events
        <5>1. control'[m.name].out = c /\ log'[m.name].out = o
          BY <4>2
        <5>2. /\ Event("pass", Mutant.test, "") \in c.events
              /\ Event("fail", Mutant.test, "") \in o.events
              /\ Event("output", Mutant.test, Mutant.assertion) \in o.events
          BY <2>7, <3>2, NamedEvents
        <5> HIDE DEF m
        <5> QED
          BY <4>1, <5>1, <5>2
      <4>5. /\ control'[m.name].on.copies = {harness} /\ log'[m.name].on.copies = {harness}
            /\ control'[m.name].on.planted = FALSE /\ log'[m.name].on.planted = TRUE
            /\ control'[m.name].on.unique = TRUE /\ log'[m.name].on.unique = TRUE
        <5> HIDE DEF m
        <5>1. /\ control'[m.name].on = OwnCopy(TRUE, FALSE)
              /\ log'[m.name].on = OwnCopy(TRUE, TRUE)
          <6>1. \A p : [out |-> c, on |-> p].on = p /\ [out |-> o, on |-> p].on = p
            OBVIOUS
          <6>. QED  BY <4>2, <6>1, Zenon
        <5>2. /\ OwnCopy(TRUE, FALSE).copies = {harness}
              /\ OwnCopy(TRUE, TRUE).copies = {harness}
              /\ OwnCopy(TRUE, FALSE).planted = FALSE /\ OwnCopy(TRUE, TRUE).planted = TRUE
              /\ OwnCopy(TRUE, FALSE).unique = TRUE /\ OwnCopy(TRUE, TRUE).unique = TRUE
          BY DEF OwnCopy
        <5>. QED  BY <5>1, <5>2, Zenon
      <4>6. harness \in 1..harness'
        BY <1>1, <1>2 DEF HarnessTyped
      <4> HIDE DEF m
      <4>7. Backed(m)'
        BY <4>1, <4>3, <4>4, <4>5, <4>6 DEF Backed
      <4> QED
        BY <4>7 DEF m
    <3> QED
      BY <2>4, <2>9, <3>1, <3>2 DEF Vouched
  <2>10. /\ \A k \in DOMAIN table : table[k] \in Rows /\ Vouched(table[k]) /\ table[k].name # Name
         /\ \A k \in DOMAIN rows : rows[k] \in Rows /\ Vouched(rows[k]) /\ rows[k].name # Name
    BY <1>1, <1>2 DEF HarnessTyped, MutantsInv, RowsVouched, Fresh
  <2>11. ASSUME NEW v \in Rows, Vouched(v), v.name # Name PROVE Vouched(v)'
    <3>1. v.name \in MutantNames /\ harness' \in Nat /\ harness' >= harness
      BY <1>1, <1>2 DEF Rows, HarnessTyped
    <3> QED
      BY <1>1, <1>2, <2>3, <2>11, <3>1, VouchedKept
  <2>12. RowsVouched'
    <3>1. ASSUME NEW k \in DOMAIN table, NEW v, v = table[k] PROVE Vouched(v)'
      BY <2>10, <2>11, <3>1
    <3>2. ASSUME NEW k \in DOMAIN rows', NEW v, v = rows'[k] PROVE Vouched(v)'
      BY <2>5, <2>9, <2>10, <2>11, <3>2
    <3>3. \A k \in DOMAIN table' : Vouched(table[k])'
      BY <1>1, <3>1
    <3>4. \A k \in DOMAIN rows' : Vouched(rows[k])'
      BY <3>2
    <3> QED
      BY <3>3, <3>4 DEF RowsVouched
  <2>13. \A k \in DOMAIN rows' : rows'[k].name = selected'[k].name
    <3>1. \A k \in DOMAIN rows : rows[k].name = selected[k].name
      BY <1>1 DEF MutantsInv, Reported
    <3>2. Len(rows) + 1 = turn /\ r.name = selected[turn].name
      BY <1>2, <2>4 DEF Name, Mutant
    <3> QED
      BY <1>1, <2>5, <3>1, <3>2
  <2>14. Reported'
    <3>1. DOMAIN selected' = 1..Len(selected) /\ selected' = selected
      BY <1>1, <1>2 DEF HarnessTyped, Picked
    <3>2. CASE turn < Len(selected)
      <4>1. stage' = "mkdir" /\ turn' \in DOMAIN selected' /\ Len(rows') = turn' - 1
        BY <1>2, <2>1, <2>5, <3>1, <3>2
      <4> QED
        BY <1>1, <1>2, <2>1, <2>13, <4>1 DEF Reported
    <3>3. CASE ~(turn < Len(selected))
      <4>1. stage' = "table" /\ Len(rows') = Len(selected') /\ selected' # <<>>
        <5>1. turn = Len(selected) /\ Len(selected) > 0
          BY <1>2, <3>3
        <5>2. stage' = "table" /\ Len(rows') = Len(rows) + 1
          BY <2>1, <2>5, <3>3
        <5>3. selected # <<>>
          BY <5>1
        <5> QED
          BY <1>2, <3>1, <5>1, <5>2, <5>3
      <4> QED
        BY <1>1, <1>2, <2>1, <2>13, <4>1 DEF Reported
    <3> QED
      BY <3>2, <3>3
  <2> QED
    BY <1>2, <2>1, <2>6, <2>12, <2>14
    DEF MutantsInv, Fresh, Controlled, SuccessAttestsAll
<1> QED
  BY <1>3, <1>4

\* The table: the rows of this invocation, and 0 only if all are killed.
LEMMA WriteTableStep ==
    ASSUME MutantsInv, WriteTable
    PROVE  MutantsInv'
<1>1. /\ stage = "table" /\ stage' = "idle"
      /\ UNCHANGED <<fixture, control, log, selected, turn, rows, harness>>
  BY DEF WriteTable, Stops
<1>2. /\ HarnessTyped /\ Len(rows) = Len(selected) /\ selected # <<>>
      /\ rows \in Seq(Rows) /\ DOMAIN selected = 1..Len(selected)
      /\ \A k \in DOMAIN rows : rows[k].name = selected[k].name
  BY <1>1 DEF MutantsInv, Reported, HarnessTyped, Picked
<1>3. CASE table' = rows /\ code' \in {0, 1}
           /\ (code' = 0 => \A k \in DOMAIN rows : rows[k].killed)
  <2>1. HarnessTyped'
    BY <1>1, <1>2, <1>3 DEF HarnessTyped, Picked
  <2>2. RowsVouched'
    <3>1. ASSUME NEW k \in DOMAIN rows, NEW v, v = rows[k] PROVE Vouched(v)'
      <4>1. v \in Rows /\ Vouched(v) /\ harness' \in Nat /\ harness' >= harness
        BY <1>1, <1>2, <3>1 DEF MutantsInv, RowsVouched, HarnessTyped
      <4> QED
        BY <1>1, <1>2, <4>1, VouchedKept
    <3>2. \A k \in DOMAIN rows' : Vouched(rows[k])'
      BY <1>1, <3>1
    <3>3. \A k \in DOMAIN table' : Vouched(table[k])'
      BY <1>3, <3>1
    <3> QED
      BY <3>2, <3>3 DEF RowsVouched
  <2>3. SuccessAttestsAll'
    <3>1. DOMAIN rows = DOMAIN selected
      BY <1>2
    <3> QED
      BY <1>1, <1>2, <1>3, <3>1 DEF SuccessAttestsAll
  <2> QED
    BY <1>1, <2>1, <2>2, <2>3 DEF MutantsInv, Fresh, Controlled, Reported
<1>4. CASE table' \in {table, <<>>} /\ code' = 1
  <2>1. table' \in Seq(Rows)
    <3>1. <<>> \in Seq(Rows) /\ table \in Seq(Rows)
      BY <1>2 DEF HarnessTyped
    <3> QED
      BY <1>4, <3>1
  <2>2. HarnessTyped'
    BY <1>1, <1>2, <2>1 DEF HarnessTyped, Picked
  <2> QED
    BY <1>1, <1>4, <2>2, HarnessStops
<1> QED
  BY <1>3, <1>4 DEF WriteTable, Stops

\* A killed invocation tears at most the log of the mutant at hand, or the table.
LEMMA HarnessKillStep ==
    ASSUME MutantsInv, HarnessKill
    PROVE  MutantsInv'
<1>1. /\ stage # "idle" /\ stage' = "idle" /\ code' = 1 /\ table' \in {table, <<>>}
      /\ UNCHANGED <<fixture, selected, turn, rows, harness>>
  BY DEF HarnessKill, Stops
<1>2. HarnessTyped /\ (stage \in {"control", "test"} => Name \in MutantNames)
  BY AtHand DEF MutantsInv, AtMutant
<1>3. /\ control' = [m \in MutantNames |-> control'[m]]
      /\ \A m \in MutantNames : (stage = "control" /\ m = Name) \/ control'[m] = control[m]
  BY <1>2 DEF HarnessKill, TornLog, HarnessTyped
<1>4. /\ log' = [m \in MutantNames |-> log'[m]]
      /\ \A m \in MutantNames : (stage = "test" /\ m = Name) \/ log'[m] = log[m]
  BY <1>2 DEF HarnessKill, TornLog, HarnessTyped
<1>5. table' \in Seq(Rows)
  <2>1. <<>> \in Seq(Rows) /\ table \in Seq(Rows)
    BY <1>2 DEF HarnessTyped
  <2> QED
    BY <1>1, <2>1
<1>6. HarnessTyped'
  BY <1>1, <1>2, <1>3, <1>4, <1>5 DEF HarnessTyped, Picked
<1> QED
  BY <1>1, <1>3, <1>4, <1>6, HarnessStops

\* Every step of jcrpc-mutants keeps the invariant.
LEMMA MutantsStep == MutantsInv /\ [MutantsNext]_mutantsVars => MutantsInv'
<1> SUFFICES ASSUME MutantsInv, [MutantsNext]_mutantsVars PROVE MutantsInv'
  OBVIOUS
<1>1. CASE MutantsNext
  BY <1>1, HarnessStartStep, MkdirStep, FixtureStep, RunControlStep, RunTestStep,
     WriteTableStep, HarnessKillStep DEF MutantsNext
<1>2. CASE UNCHANGED mutantsVars
  <2>1. UNCHANGED <<fixture, control, log, table, selected, turn, rows, stage, code, harness>>
    BY <1>2 DEF mutantsVars, disk
  <2>2. HarnessTyped' /\ Fresh' /\ Controlled' /\ Reported' /\ SuccessAttestsAll'
    BY <2>1
    DEF MutantsInv, HarnessTyped, Picked, Fresh, Controlled, Reported, Name, Mutant,
        SuccessAttestsAll, NamedPass, OwnCopy
  <2>3. RowsVouched'
    BY <2>1, <2>2, OthersKept
  <2> QED
    BY <2>2, <2>3 DEF MutantsInv
<1> QED
  BY <1>1, <1>2

\* It holds before the first invocation of jcrpc-mutants.
LEMMA MutantsInitInv == MutantsInit => MutantsInv
<1> SUFFICES ASSUME MutantsInit PROVE MutantsInv
  OBVIOUS
<1>1. /\ table = <<>> /\ selected = <<>> /\ rows = <<>> /\ stage = "idle" /\ code = 1
      /\ harness = 0
  BY DEF MutantsInit
<1>2. fixture \in [MutantNames -> Copies]
  BY DEF MutantsInit, NoFixture, Copies
<1>3. control = [m \in MutantNames |-> control[m]] /\ log = [m \in MutantNames |-> log[m]]
  BY DEF MutantsInit
<1>4. table \in Seq(Rows) /\ rows \in Seq(Rows) /\ Picked
  BY <1>1 DEF Picked
<1>5. HarnessTyped
  <2>1. MaxHarness \in Nat
    BY OutcomesAssumption
  <2> QED
    BY <1>1, <1>2, <1>3, <1>4, <2>1 DEF HarnessTyped
<1> QED
  BY <1>1, <1>5
  DEF MutantsInv, RowsVouched, Fresh, Controlled, Reported, SuccessAttestsAll

\* So it always holds.
LEMMA MutantsAlways == MutantsSpec => []MutantsInv
BY MutantsInitInv, MutantsStep, PTL DEF MutantsSpec

\* Every kill in mutants.md is backed by the logs beside it, for any catalog and
\* test output, and stays so through later invocations on the same directory.
THEOREM KillsAreBacked == MutantsSpec => []KillsBacked
  BY MutantsAlways, MutantsInvGives, PTL

\* Exit code 0 of jcrpc-mutants attests every selected mutant as killed.
THEOREM AttestsAllSelected == MutantsSpec => []SuccessAttestsAll
<1>1. MutantsInv => SuccessAttestsAll
  BY DEF MutantsInv
<1> QED
  BY MutantsAlways, <1>1, PTL

----------------------------------------------------------------------------
(* jcrpc-compat --mode toolchain: what it leaves under its root.           *)

\* While it downloads, everything before the current artifact is in place.
Fetched ==
    step \in {"get", "copy", "install"} =>
        /\ item \in DOMAIN Artifacts
        /\ \A b \in DOMAIN Artifacts : b < item => file[Artifacts[b]] = "pinned"

AllFetched == \A a \in Names : file[a] = "pinned"

\* While it unpacks, everything is in place, and so is what tar is done with.
Extracted ==
    step \in {"open", "write"} =>
        /\ item \in DOMAIN Archives
        /\ AllFetched
        /\ \A b \in DOMAIN Archives : b < item =>
              \A p \in 1..Pieces : tree[Archives[b]][p] = "pinned"
        /\ \A p \in 1..Pieces : p < piece => tree[Archives[item]][p] = "pinned"

Settled == status = 0 => step = "idle"

ToolInv ==
    /\ ToolchainTypeOK
    /\ Fetched
    /\ Extracted
    /\ Settled
    /\ NothingUnverified
    /\ ToolchainComplete
    /\ StrayOnlyFromKills

\* Sequences are indexed from 1, and their elements are the names used.
LEMMA ToolchainIndices ==
    /\ Len(Artifacts) \in Nat \ {0} /\ DOMAIN Artifacts = 1..Len(Artifacts)
    /\ Len(Archives) \in Nat \ {0} /\ DOMAIN Archives = 1..Len(Archives)
    /\ \A a \in DOMAIN Artifacts : Artifacts[a] \in Names
    /\ \A a \in DOMAIN Archives : Archives[a] \in Unpacked /\ Archives[a] \in Names
    /\ \A a \in Names : \E b \in DOMAIN Artifacts : a = Artifacts[b]
    /\ \A a \in Unpacked : \E b \in DOMAIN Archives : a = Archives[b]
    /\ \A a, b \in DOMAIN Archives : Archives[a] = Archives[b] => a = b
    /\ Pieces \in Nat \ {0}
<1>1. /\ Len(Artifacts) \in Nat /\ DOMAIN Artifacts = 1..Len(Artifacts)
      /\ Len(Archives) \in Nat /\ DOMAIN Archives = 1..Len(Archives)
  BY ToolchainAssumption
<1>2. Len(Artifacts) # 0 /\ Len(Archives) # 0
  BY ToolchainAssumption
<1>3. /\ \A a \in DOMAIN Artifacts : Artifacts[a] \in Names
      /\ \A a \in DOMAIN Archives : Archives[a] \in Unpacked
      /\ \A a \in Names : \E b \in DOMAIN Artifacts : a = Artifacts[b]
      /\ \A a \in Unpacked : \E b \in DOMAIN Archives : a = Archives[b]
  BY Zenon DEF Names, Unpacked
<1>4. \A a \in DOMAIN Archives : Archives[a] \in Names
  BY ToolchainAssumption, <1>3
<1> QED
  BY <1>1, <1>2, <1>3, <1>4, ToolchainAssumption

\* The invariant holds on an empty root, and on one with an older toolchain.
LEMMA ToolchainInitInv == ToolchainInit => ToolInv
BY ToolchainIndices DEF ToolchainInit, ToolInv, ToolchainTypeOK, Fetched, Extracted, Settled,
   NothingUnverified, ToolchainComplete, StrayOnlyFromKills, Contents

\* An error ends an invocation without touching what is in place.
LEMMA ToolFailInv ==
    ASSUME ToolInv, ToolFail, step # "idle"
    PROVE  ToolInv'
<1>1. /\ step' = "idle" /\ status' = 1 /\ temp' = "absent"
      /\ item' = item /\ piece' = piece /\ stray' = stray /\ file' = file
      /\ tree' = tree /\ tools' = tools /\ toolKills' = toolKills
  BY DEF ToolFail
<1> QED
  BY <1>1 DEF ToolInv, ToolchainTypeOK, Fetched, Extracted, Settled,
     NothingUnverified, ToolchainComplete, StrayOnlyFromKills, Contents

\* The renamed file is the pinned one; the first archive is opened only when
\* every artifact is in place.
LEMMA InstallInv ==
    ASSUME ToolInv, Install
    PROVE  ToolInv'
<1>1. CASE ToolFail
  BY <1>1, ToolFailInv DEF Install
<1>2. CASE /\ temp = "pinned"
           /\ file' = [file EXCEPT ![Artifacts[item]] = temp]
           /\ temp' = "absent"
           /\ AfterInstall
           /\ UNCHANGED <<stray, tree, status, tools, toolKills>>
  <2>1. /\ step = "install" /\ item \in DOMAIN Artifacts
        /\ file \in [Names -> Contents]
        /\ \A b \in DOMAIN Artifacts : b < item => file[Artifacts[b]] = "pinned"
    BY DEF Install, ToolInv, Fetched, ToolchainTypeOK
  <2>2. file' \in [Names -> Contents] /\ \A a \in Names : file'[a] # "drift"
    BY <1>2, <2>1, ToolchainIndices DEF Contents, ToolInv, NothingUnverified
  <2>3. \A b \in DOMAIN Artifacts : b <= item => file'[Artifacts[b]] = "pinned"
    <3>1. /\ \A b \in DOMAIN Artifacts : Artifacts[b] \in Names /\ b \in Nat
          /\ item \in Nat
      BY <2>1, ToolchainIndices
    <3>2. \A a \in Names : file'[a] = IF a = Artifacts[item] THEN "pinned" ELSE file[a]
      BY <1>2, <2>1
    <3>3. \A b \in DOMAIN Artifacts : b <= item => b < item \/ b = item
      BY <3>1
    <3>. QED  BY <2>1, <3>1, <3>2, <3>3, Zenon
  <2>4. CASE item < Len(Artifacts)
    <3>1. step' = "get" /\ item' = item + 1 /\ piece' = piece
      BY <1>2, <2>4 DEF AfterInstall
    <3>2. Fetched'
      BY <2>1, <2>3, <3>1, <2>4, ToolchainIndices DEF Fetched
    <3>3. ToolchainTypeOK'
      BY <1>2, <2>1, <2>2, <3>1, ToolchainIndices DEF ToolInv, ToolchainTypeOK, Contents
    <3>4. Extracted' /\ Settled' /\ StrayOnlyFromKills' /\ ToolchainComplete'
      BY <1>2, <2>1, <3>1
      DEF ToolInv, Extracted, Settled, StrayOnlyFromKills, ToolchainComplete
    <3>5. NothingUnverified'
      BY <1>2, <2>2 DEF ToolInv, NothingUnverified
    <3> QED
      BY <3>2, <3>3, <3>4, <3>5 DEF ToolInv
  <2>5. CASE ~(item < Len(Artifacts))
    <3>1. step' = "open" /\ item' = 1 /\ piece' = 1
      BY <1>2, <2>5 DEF AfterInstall
    <3>2. \A a \in Names : file'[a] = "pinned"
      BY <2>1, <2>3, <2>5, ToolchainIndices
    <3>3. Extracted'
      BY <3>1, <3>2, ToolchainIndices DEF Extracted, AllFetched
    <3>4. ToolchainTypeOK'
      BY <1>2, <2>1, <2>2, <3>1, ToolchainIndices DEF ToolInv, ToolchainTypeOK, Contents
    <3>5. Fetched' /\ Settled' /\ StrayOnlyFromKills' /\ ToolchainComplete'
      BY <1>2, <2>1, <3>1
      DEF ToolInv, Fetched, Settled, StrayOnlyFromKills, ToolchainComplete
    <3>6. NothingUnverified'
      BY <1>2, <2>2 DEF ToolInv, NothingUnverified
    <3> QED
      BY <3>3, <3>4, <3>5, <3>6 DEF ToolInv
  <2> QED
    BY <2>4, <2>5
<1> QED
  BY <1>1, <1>2 DEF Install

\* tar takes a file away only where it is about to write it.
LEMMA TarOpenInv ==
    ASSUME ToolInv, TarOpen
    PROVE  ToolInv'
<1>1. CASE ToolFail
  BY <1>1, ToolFailInv DEF TarOpen
<1>2. CASE /\ tree' = [tree EXCEPT ![Archives[item]][piece] = "absent"]
           /\ step' = "write"
           /\ UNCHANGED <<item, piece, temp, stray, file, status, tools, toolKills>>
  <2>1. /\ step = "open" /\ item \in DOMAIN Archives /\ piece \in 1..Pieces
        /\ tree \in [Unpacked -> [1..Pieces -> Contents]]
    BY DEF TarOpen, ToolInv, Extracted, ToolchainTypeOK
  <2>2. /\ tree' \in [Unpacked -> [1..Pieces -> Contents]]
        /\ \A d \in Unpacked : \A p \in 1..Pieces :
              tree'[d][p] = IF d = Archives[item] /\ p = piece THEN "absent"
                            ELSE tree[d][p]
    BY <1>2, <2>1, ToolchainIndices DEF Contents
  <2>3. Extracted'
    <3>1. /\ item' = item /\ piece' = piece /\ item' \in DOMAIN Archives /\ AllFetched'
      BY <1>2, <2>1 DEF ToolInv, Extracted, AllFetched
    <3>2. ASSUME NEW b \in DOMAIN Archives, b < item, NEW p \in 1..Pieces
          PROVE  tree'[Archives[b]][p] = "pinned"
      <4>1. Archives[b] \in Unpacked /\ Archives[b] # Archives[item]
        BY <2>1, <3>2, ToolchainIndices
      <4>2. tree[Archives[b]][p] = "pinned"
        BY <2>1, <3>2 DEF ToolInv, Extracted
      <4> QED
        BY <2>2, <4>1, <4>2
    <3>3. ASSUME NEW p \in 1..Pieces, p < piece
          PROVE  tree'[Archives[item]][p] = "pinned"
      BY <2>1, <2>2, <3>3, ToolchainIndices DEF ToolInv, Extracted
    <3> QED
      BY <3>1, <3>2, <3>3 DEF Extracted
  <2> QED
    BY <1>2, <2>1, <2>2, <2>3, ToolchainIndices
    DEF ToolInv, ToolchainTypeOK, Fetched, Settled, NothingUnverified,
        ToolchainComplete, StrayOnlyFromKills
<1> QED
  BY <1>1, <1>2 DEF TarOpen

\* What is written comes from a pinned archive; exit code 0 needs the last
\* file of the last archive.
LEMMA TarWriteInv ==
    ASSUME ToolInv, TarWrite
    PROVE  ToolInv'
<1>1. /\ step = "write" /\ item \in DOMAIN Archives /\ piece \in 1..Pieces
      /\ tree \in [Unpacked -> [1..Pieces -> Contents]] /\ AllFetched
      /\ temp' = temp /\ stray' = stray /\ file' = file /\ tools' = tools
      /\ toolKills' = toolKills /\ AllFetched'
  BY DEF TarWrite, ToolInv, Extracted, ToolchainTypeOK, AllFetched
<1>2. /\ tree' \in [Unpacked -> [1..Pieces -> Contents]]
      /\ \A d \in Unpacked : \A p \in 1..Pieces :
            tree'[d][p] = IF d = Archives[item] /\ p = piece THEN "pinned"
                          ELSE tree[d][p]
  BY <1>1, ToolchainIndices DEF TarWrite, AllFetched, Contents
<1>3. \A d \in Unpacked : \A p \in 1..Pieces : tree'[d][p] # "drift"
  BY <1>2 DEF ToolInv, NothingUnverified
<1>4. \A b \in DOMAIN Archives : b < item =>
         \A p \in 1..Pieces : tree'[Archives[b]][p] = "pinned"
  BY <1>1, <1>2, ToolchainIndices DEF ToolInv, Extracted
<1>5. \A p \in 1..Pieces : p <= piece => tree'[Archives[item]][p] = "pinned"
  BY <1>1, <1>2, ToolchainIndices DEF ToolInv, Extracted
<1>6. NothingUnverified' /\ StrayOnlyFromKills'
  BY <1>1, <1>3 DEF ToolInv, NothingUnverified, StrayOnlyFromKills
<1>7. CASE piece < Pieces
  <2>1. step' = "open" /\ piece' = piece + 1 /\ item' = item /\ status' = status
    BY <1>7 DEF TarWrite
  <2>2. Extracted'
    BY <1>1, <1>4, <1>5, <2>1, ToolchainIndices DEF Extracted
  <2> QED
    BY <1>1, <1>2, <1>6, <1>7, <2>1, <2>2, ToolchainIndices
    DEF ToolInv, ToolchainTypeOK, Fetched, Settled, ToolchainComplete
<1>8. CASE ~(piece < Pieces)
  <2>1. piece' = 1 /\ piece = Pieces
    BY <1>1, <1>8, ToolchainIndices DEF TarWrite
  <2>2. \A p \in 1..Pieces : tree'[Archives[item]][p] = "pinned"
    BY <1>1, <1>5, <2>1, ToolchainIndices
  <2>3. CASE item < Len(Archives)
    <3>1. step' = "open" /\ item' = item + 1 /\ status' = status
      BY <1>8, <2>3 DEF TarWrite
    <3>2. Extracted'
      <4>1. item' \in DOMAIN Archives
        BY <1>1, <2>3, <3>1, ToolchainIndices
      <4>2. ASSUME NEW b \in DOMAIN Archives, b < item'
            PROVE  \A p \in 1..Pieces : tree'[Archives[b]][p] = "pinned"
        <5>1. b < item \/ b = item
          BY <1>1, <3>1, <4>2, ToolchainIndices
        <5> QED
          BY <1>4, <2>2, <5>1
      <4>3. \A p \in 1..Pieces : ~(p < piece')
        BY <2>1, ToolchainIndices
      <4> QED
        BY <1>1, <4>1, <4>2, <4>3 DEF Extracted
    <3> QED
      BY <1>1, <1>2, <1>6, <2>1, <3>1, <3>2, ToolchainIndices
      DEF ToolInv, ToolchainTypeOK, Fetched, Settled, ToolchainComplete
  <2>4. CASE ~(item < Len(Archives))
    <3>1. step' = "idle" /\ item' = item /\ status' = 0
      BY <1>8, <2>4 DEF TarWrite
    <3>2. ASSUME NEW d \in Unpacked, NEW p \in 1..Pieces
          PROVE  tree'[d][p] = "pinned"
      <4>1. PICK b \in DOMAIN Archives : d = Archives[b]
        BY ToolchainIndices
      <4>2. b < item \/ b = item
        BY <1>1, <2>4, <4>1, ToolchainIndices
      <4> QED
        BY <1>4, <2>2, <4>1, <4>2
    <3>3. ToolchainComplete'
      BY <1>1, <3>2 DEF ToolchainComplete, AllFetched
    <3> QED
      BY <1>1, <1>2, <1>6, <2>1, <3>1, <3>3, ToolchainIndices
      DEF ToolInv, ToolchainTypeOK, Fetched, Extracted, Settled
  <2> QED
    BY <2>3, <2>4
<1> QED
  BY <1>7, <1>8

\* Every step of the toolchain mode keeps the invariant.
LEMMA ToolchainStepInv == ToolInv /\ [ToolchainNext]_toolVars => ToolInv'
<1> SUFFICES ASSUME ToolInv, [ToolchainNext]_toolVars
             PROVE  ToolInv'
  OBVIOUS
<1>1. CASE ToolStart
  BY <1>1, ToolchainIndices
  DEF ToolStart, ToolInv, ToolchainTypeOK, Fetched, Extracted, Settled,
      NothingUnverified, ToolchainComplete, StrayOnlyFromKills, Contents
<1>2. CASE Get
  <2>1. CASE ToolFail
    BY <1>2, <2>1, ToolFailInv DEF Get
  <2>2. CASE ~ToolFail
    BY <1>2, <2>2
    DEF Get, ToolInv, ToolchainTypeOK, Fetched, Extracted, Settled,
        NothingUnverified, ToolchainComplete, StrayOnlyFromKills, Contents
  <2> QED
    BY <2>1, <2>2
<1>3. CASE Copy
  <2>1. CASE ToolFail
    BY <1>3, <2>1, ToolFailInv DEF Copy
  <2>2. CASE ~ToolFail
    BY <1>3, <2>2
    DEF Copy, ToolInv, ToolchainTypeOK, Fetched, Extracted, Settled,
        NothingUnverified, ToolchainComplete, StrayOnlyFromKills, Contents
  <2> QED
    BY <2>1, <2>2
<1>4. CASE Install
  BY <1>4, InstallInv
<1>5. CASE TarOpen
  BY <1>5, TarOpenInv
<1>6. CASE TarWrite
  BY <1>6, TarWriteInv
<1>7. CASE ToolKill
  BY <1>7
  DEF ToolKill, ToolInv, ToolchainTypeOK, Fetched, Extracted, Settled,
      NothingUnverified, ToolchainComplete, StrayOnlyFromKills, Contents
<1>8. CASE UNCHANGED toolVars
  BY <1>8
  DEF toolVars, ToolInv, ToolchainTypeOK, Fetched, Extracted, AllFetched, Settled,
      NothingUnverified, ToolchainComplete, StrayOnlyFromKills
<1> QED
  BY <1>1, <1>2, <1>3, <1>4, <1>5, <1>6, <1>7, <1>8 DEF ToolchainNext

\* So it always holds.
LEMMA ToolchainAlways == ToolchainSpec => []ToolInv
BY ToolchainInitInv, ToolchainStepInv, PTL DEF ToolchainSpec

\* Nothing that fetchArtifact put in place or tar unpacked comes from bytes
\* whose digest was not compared, for any artifacts, failures and kills.
THEOREM DigestsBeforeUse == ToolchainSpec => []NothingUnverified
<1>1. ToolInv => NothingUnverified
  BY DEF ToolInv
<1> QED
  BY ToolchainAlways, <1>1, PTL

\* An invocation of toolchain() that returns nil leaves all of it in place.
THEOREM SuccessComplete == ToolchainSpec => []ToolchainComplete
<1>1. ToolInv => ToolchainComplete
  BY DEF ToolInv
<1> QED
  BY ToolchainAlways, <1>1, PTL

\* Failed downloads leave no temporary files; at most one is left by each
\* killed invocation.
THEOREM StraysBounded == ToolchainSpec => []StrayOnlyFromKills
<1>1. ToolInv => StrayOnlyFromKills
  BY DEF ToolInv
<1> QED
  BY ToolchainAlways, <1>1, PTL

----------------------------------------------------------------------------
\* jcrpc-parity: the matrix and its order.

\* Quotient and remainder of a number given by both.
LEMMA DivMod ==
    ASSUME NEW a \in Nat, NEW b \in Nat \ {0}, NEW q \in Nat, NEW r \in Nat,
           a = q * b + r, r < b
    PROVE  a \div b = q /\ a % b = r
  OBVIOUS

\* A number with two places, of which the lower one has s values and the higher
\* one m.
LEMMA TwoPlaces ==
    ASSUME NEW y \in Nat, NEW z \in Nat, NEW m \in Nat \ {0}, NEW s \in Nat \ {0},
           y < m, z < s
    PROVE  y * s + z \in Nat /\ y * s + z < m * s
  OBVIOUS

\* With a place above the two.
LEMMA ThreePlaces ==
    ASSUME NEW x \in Nat, NEW y \in Nat, NEW z \in Nat, NEW m \in Nat,
           NEW s \in Nat
    PROVE  x * (m * s) + (y * s + z) = (x * m + y) * s + z
  OBVIOUS

Cells == Len(Memories) * Len(Sims)

\* The case at a place of the full list of a policy that generates.
FullCase(policy, j) ==
    Case(policy, Selectors[((j - 1) \div Cells) + 1],
         Memories[(((j - 1) \div Len(Sims)) % Len(Memories)) + 1],
         Sims[((j - 1) % Len(Sims)) + 1])

\* There are cells, and a full list has a case.
LEMMA SomeCells ==
    /\ Len(Selectors) \in Nat \ {0} /\ Len(Memories) \in Nat \ {0}
    /\ Len(Sims) \in Nat \ {0} /\ Len(Extra) \in Nat \ {0}
    /\ Len(Inputs) \in Nat \ {0}
    /\ Cells \in Nat \ {0} /\ Len(Selectors) * Cells \in Nat \ {0}
<1>1. /\ Len(Selectors) \in Nat \ {0} /\ Len(Memories) \in Nat \ {0}
      /\ Len(Sims) \in Nat \ {0} /\ Len(Extra) \in Nat \ {0}
      /\ Len(Inputs) \in Nat \ {0}
  BY ParityAssumption
<1>2. \A a, b \in Nat \ {0} : a * b \in Nat \ {0}
  OBVIOUS
<1>3. Cells \in Nat \ {0}
  BY <1>1, <1>2 DEF Cells
<1>. QED  BY <1>1, <1>2, <1>3

\* The cases of a policy, as verify() lists them.
LEMMA CasesListed ==
    /\ Len(Cases(Omitted)) = Len(Extra) + Len(Selectors) * Cells
    /\ \A j \in 1..Len(Extra) : Cases(Omitted)[j] = Case(Omitted, Extra[j], Omitted, Omitted)
    /\ \A j \in 1..(Len(Selectors) * Cells) :
          Cases(Omitted)[Len(Extra) + j] = FullCase(Omitted, j)
    /\ \A p \in Invalid :
          /\ Len(Cases(p)) = Len(Selectors)
          /\ \A j \in 1..Len(Selectors) : Cases(p)[j] = Case(p, Selectors[j], Omitted, Omitted)
    /\ \A p \in Range1(Policies) \ (Invalid \cup {Omitted}) :
          /\ Len(Cases(p)) = Len(Selectors) * Cells
          /\ \A j \in 1..(Len(Selectors) * Cells) : Cases(p)[j] = FullCase(p, j)
<1> DEFINE n == Len(Extra)
           m == Len(Selectors)
           k == Len(Selectors) * Cells
           extra == [j \in 1..n |-> Case(Omitted, Extra[j], Omitted, Omitted)]
           each(p) == [j \in 1..m |-> Case(p, Selectors[j], Omitted, Omitted)]
           full(p) == [j \in 1..k |-> FullCase(p, j)]
<1>1. ASSUME NEW p
      PROVE  Cases(p) = IF p = Omitted THEN extra \o full(p)
                        ELSE IF p \in Invalid THEN each(p) ELSE full(p)
  BY Zenon DEF Cases, CasesWith, FullCase, Cells
<1>2. Cases(Omitted) = extra \o full(Omitted)
  BY <1>1, Zenon
<1>3. n \in Nat /\ m \in Nat /\ k \in Nat
  BY SomeCells
<1> HIDE DEF n, m, k
<1>4. /\ Len(extra \o full(Omitted)) = n + k
      /\ \A j \in 1..n : (extra \o full(Omitted))[j] = Case(Omitted, Extra[j], Omitted, Omitted)
      /\ \A j \in 1..k : (extra \o full(Omitted))[n + j] = FullCase(Omitted, j)
  BY <1>3
<1>5. ASSUME NEW p \in Invalid
      PROVE  /\ Len(Cases(p)) = m
             /\ \A j \in 1..m : Cases(p)[j] = Case(p, Selectors[j], Omitted, Omitted)
  <2>1. p # Omitted
    BY DEF Invalid, Omitted
  <2>2. Cases(p) = each(p)
    BY <1>1, <2>1, Zenon
  <2>3. Len(each(p)) = m /\ \A j \in 1..m : each(p)[j] = Case(p, Selectors[j], Omitted, Omitted)
    BY <1>3
  <2>. QED  BY <2>2, <2>3, Zenon
<1>6. ASSUME NEW p \in Range1(Policies) \ (Invalid \cup {Omitted})
      PROVE  /\ Len(Cases(p)) = k
             /\ \A j \in 1..k : Cases(p)[j] = FullCase(p, j)
  <2>1. p # Omitted /\ p \notin Invalid
    BY Zenon
  <2>2. Cases(p) = full(p)
    BY <1>1, <2>1, Zenon
  <2>3. Len(full(p)) = k /\ \A j \in 1..k : full(p)[j] = FullCase(p, j)
    BY <1>3
  <2>. QED  BY <2>2, <2>3, Zenon
<1>. QED  BY <1>2, <1>4, <1>5, <1>6, Zenon DEF n, m, k

\* The policies, and how many cases each has.
LEMMA PolicyNames ==
    /\ Len(Policies) = 5 /\ DOMAIN Policies = 1..5
    /\ Policies[1] = Omitted /\ Omitted \notin Invalid
    /\ \A y \in 1..5 : Len(Cases(Policies[y])) \in Nat \ {0}
<1>1. Len(Policies) = 5 /\ DOMAIN Policies = 1..5 /\ Policies[1] = Omitted
  BY DEF Policies
<1>2. Omitted \notin Invalid
  BY DEF Invalid, Omitted
<1>3. \A y \in 1..5 : Policies[y] \in Range1(Policies)
  BY <1>1, Zenon DEF Range1
<1>4. ASSUME NEW p \in Range1(Policies)
      PROVE  Len(Cases(p)) \in Nat \ {0}
  <2>1. CASE p = Omitted
    <3>1. Len(Cases(p)) = Len(Extra) + Len(Selectors) * Cells
      BY <2>1, CasesListed, Zenon
    <3> DEFINE k == Len(Selectors) * Cells
    <3>2. Len(Extra) \in Nat \ {0} /\ k \in Nat \ {0}
      BY SomeCells, Zenon
    <3> HIDE DEF k
    <3>. QED  BY <3>1, <3>2 DEF k
  <2>2. CASE p \in Invalid
    BY <2>2, CasesListed, SomeCells, Zenon
  <2>3. CASE p \notin Invalid \cup {Omitted}
    BY <2>3, CasesListed, SomeCells, Zenon
  <2>. QED  BY <2>1, <2>2, <2>3
<1>. QED  BY <1>1, <1>2, <1>3, <1>4, Zenon

\* Every case of a policy that generates is in its full list.
LEMMA FullCovers ==
    ASSUME NEW policy, NEW s \in Range1(Selectors), NEW m \in Range1(Memories),
           NEW c \in Range1(Sims)
    PROVE  \E j \in 1..(Len(Selectors) * Cells) : FullCase(policy, j) = Case(policy, s, m, c)
<1>1. /\ DOMAIN Selectors = 1..Len(Selectors) /\ DOMAIN Memories = 1..Len(Memories)
      /\ DOMAIN Sims = 1..Len(Sims)
  BY ParityAssumption
<1>2. PICK x1 \in 1..Len(Selectors) : s = Selectors[x1]
  BY <1>1 DEF Range1
<1>3. PICK y1 \in 1..Len(Memories) : m = Memories[y1]
  BY <1>1 DEF Range1
<1>4. PICK z1 \in 1..Len(Sims) : c = Sims[z1]
  BY <1>1 DEF Range1
<1> DEFINE x == x1 - 1
           y == y1 - 1
           z == z1 - 1
           M == Len(Memories)
           S == Len(Sims)
           N == Len(Selectors)
<1>5. /\ x \in Nat /\ y \in Nat /\ z \in Nat /\ x < N /\ y < M /\ z < S
      /\ M \in Nat \ {0} /\ S \in Nat \ {0} /\ N \in Nat \ {0}
      /\ x + 1 = x1 /\ y + 1 = y1 /\ z + 1 = z1
  BY SomeCells
<1> HIDE DEF x, y, z, M, S, N
<1>6. M * S \in Nat \ {0}
  BY <1>5
<1>7. y * S + z \in Nat /\ y * S + z < M * S
  BY <1>5, TwoPlaces
<1> DEFINE low == y * S + z
           j == x * (M * S) + low
           cells == M * S
<1>8. low \in Nat /\ low < cells /\ cells \in Nat \ {0} /\ j = x * cells + low
  BY <1>6, <1>7
<1> HIDE DEF low, cells, j
<1>9. j \in Nat /\ j < N * cells /\ j \div cells = x
  <2>1. x * cells + low \in Nat /\ x * cells + low < N * cells
    BY <1>5, <1>8, TwoPlaces
  <2>2. j \in Nat /\ j < N * cells
    BY <2>1, <1>8, Zenon
  <2>. QED  BY <1>5, <1>8, <2>2, DivMod
<1>10. j = (x * M + y) * S + z
  <2>1. x * (M * S) + (y * S + z) = (x * M + y) * S + z
    BY <1>5, ThreePlaces
  <2>. QED  BY <2>1, Zenon DEF j, low
<1>11. x * M + y \in Nat /\ j \div S = x * M + y /\ j % S = z
  <2>1. x * M + y \in Nat
    BY <1>5
  <2>2. j \in Nat /\ j = (x * M + y) * S + z
    BY <1>9, <1>10
  <2>. QED  BY <1>5, <2>1, <2>2, DivMod
<1>12. (x * M + y) % M = y
  BY <1>5, <1>11, DivMod
<1>13. (j + 1) - 1 = j /\ j + 1 \in 1..(N * cells) /\ cells = Cells
  <2>1. cells = Cells
    BY Zenon DEF Cells, M, S, cells
  <2>2. N * cells \in Nat
    BY <1>5, <1>8
  <2>. QED  BY <1>9, <2>1, <2>2
<1>14. FullCase(policy, j + 1) = Case(policy, s, m, c)
  BY <1>2, <1>3, <1>4, <1>5, <1>9, <1>11, <1>12, <1>13 DEF FullCase, M, S, N
<1>. QED  BY <1>13, <1>14 DEF N

\* The places of the matrix.
Places == {p \in Nat \X Nat \X Nat :
             /\ p[1] \in 1..Len(Inputs) /\ p[2] \in 1..5
             /\ p[3] \in 1..Len(Cases(Policies[p[2]]))}

\* A place comes before another one.
Before(q, p) ==
    \/ q[1] < p[1]
    \/ q[1] = p[1] /\ q[2] < p[2]
    \/ q[1] = p[1] /\ q[2] = p[2] /\ q[3] < p[3]

\* Types, and a running invocation is at a place of the matrix or past it.
OnTheWay ==
    /\ candidate \in Candidates /\ planted \in BOOLEAN /\ plant \in BOOLEAN
    /\ plant => planted
    /\ at \in Nat \X Nat \X Nat
    /\ phase \in {"idle", "case", "end", "report"}
    /\ phase = "case" => at \in Places
    /\ phase = "end" => at[1] > Len(Inputs)
    /\ phase # "idle" => verdict = 3

\* The cases compared so far are none where the candidate differs.
Searched ==
    ~planted /\ candidate # Equal =>
        /\ phase \in {"case", "end"} =>
              \A q \in Places : Before(q, at) => CaseAt(q) # candidate.where
        /\ phase = "report" => error # "none"

\* Until the byte is planted only the first cases were run, those that write
\* nothing.
Planting ==
    planted /\ candidate = Equal =>
        /\ phase # "end"
        /\ phase = "case" => /\ plant /\ at[1] = 1 /\ at[2] = 1
                             /\ at[3] <= Len(Extra) + 1
        /\ phase = "report" => error \in {"output drift", "invoke"}

ParityInv == OnTheWay /\ Searched /\ Planting /\ ReportVouches /\ PlantNoticed

\* The place after one: what comes before it is the place and what came before
\* the place; it is a place again or past all of them.
LEMMA AfterPlace ==
    ASSUME NEW p \in Places
    PROVE  /\ After(p) \in Nat \X Nat \X Nat
           /\ After(p) \in Places \/ After(p)[1] > Len(Inputs)
           /\ \A q \in Places : Before(q, After(p)) => Before(q, p) \/ q = p
<1>1. /\ Len(Policies) = 5
      /\ \A y \in 1..5 : Len(Cases(Policies[y])) \in Nat \ {0}
      /\ Len(Inputs) \in Nat \ {0}
  BY PolicyNames, SomeCells, Zenon
<1> DEFINE size(y) == Len(Cases(Policies[y]))
<1>2. \A q \in Places : /\ q = <<q[1], q[2], q[3]>> /\ q[1] \in Nat /\ q[2] \in Nat
                        /\ q[3] \in Nat /\ q[1] \in 1..Len(Inputs) /\ q[2] \in 1..5
                        /\ q[3] \in 1..size(q[2])
  BY DEF Places
<1>3. \A x, y, z \in Nat : x \in 1..Len(Inputs) /\ y \in 1..5 /\ z \in 1..size(y) =>
         <<x, y, z>> \in Places
  BY DEF Places
<1>4. After(p) = IF p[3] < size(p[2]) THEN <<p[1], p[2], p[3] + 1>>
                 ELSE IF p[2] < 5 THEN <<p[1], p[2] + 1, 1>>
                 ELSE <<p[1] + 1, 1, 1>>
  BY <1>1, Zenon DEF After
<1>5. size(p[2]) \in Nat \ {0} /\ (p[2] < 5 => size(p[2] + 1) \in Nat \ {0})
      /\ size(1) \in Nat \ {0}
  BY <1>1, <1>2
<1> HIDE DEF size
<1>6. CASE p[3] < size(p[2])
  <2>1. After(p) = <<p[1], p[2], p[3] + 1>>
    BY <1>4, <1>6, Zenon
  <2>2. After(p) \in Places
    BY <2>1, <1>2, <1>3, <1>5, <1>6
  <2>3. ASSUME NEW q \in Places, Before(q, After(p)), ~Before(q, p) PROVE q = p
    <3>1. q[1] = p[1] /\ q[2] = p[2] /\ q[3] = p[3]
      BY <2>1, <2>3, <1>2 DEF Before
    <3>. QED  BY <3>1, <1>2
  <2>. QED  BY <2>1, <2>2, <2>3, <1>2
<1>7. CASE ~(p[3] < size(p[2])) /\ p[2] < 5
  <2>1. After(p) = <<p[1], p[2] + 1, 1>>
    BY <1>4, <1>7, Zenon
  <2>2. After(p) \in Places
    BY <2>1, <1>2, <1>3, <1>5, <1>7
  <2>3. ASSUME NEW q \in Places, Before(q, After(p)), ~Before(q, p) PROVE q = p
    <3>1. q[1] = p[1] /\ q[2] = p[2] /\ ~(q[3] < p[3])
      BY <2>1, <2>3, <1>2 DEF Before
    <3>2. q[3] \in 1..size(p[2])
      BY <3>1, <1>2
    <3>3. q[3] = p[3]
      BY <3>1, <3>2, <1>2, <1>5, <1>7
    <3>. QED  BY <3>1, <3>3, <1>2
  <2>. QED  BY <2>1, <2>2, <2>3, <1>2
<1>8. CASE ~(p[3] < size(p[2])) /\ ~(p[2] < 5)
  <2>1. After(p) = <<p[1] + 1, 1, 1>>
    BY <1>4, <1>8, Zenon
  <2>2. After(p) \in Places \/ After(p)[1] > Len(Inputs)
    <3>1. After(p)[1] = p[1] + 1 /\ p[1] + 1 \in Nat
      BY <2>1, <1>2
    <3>2. CASE p[1] < Len(Inputs)
      <4>1. p[1] + 1 \in 1..Len(Inputs) /\ 1 \in Nat /\ 1 \in 1..5 /\ 1 \in 1..size(1)
        BY <1>1, <1>2, <1>5, <3>2
      <4>. QED  BY <2>1, <4>1, <3>1, <1>3, Zenon
    <3>3. CASE ~(p[1] < Len(Inputs))
      BY <3>1, <3>3, <1>1, <1>2
    <3>. QED  BY <3>2, <3>3
  <2>3. ASSUME NEW q \in Places, Before(q, After(p)), ~Before(q, p) PROVE q = p
    <3>1. q[1] = p[1] /\ ~(q[2] < p[2]) /\ (q[2] = p[2] => ~(q[3] < p[3]))
      BY <2>1, <2>3, <1>2 DEF Before
    <3>2. q[2] = p[2]
      BY <3>1, <1>2, <1>8
    <3>3. q[3] \in 1..size(p[2])
      BY <3>2, <1>2
    <3>4. q[3] = p[3]
      BY <3>1, <3>2, <3>3, <1>2, <1>5, <1>8
    <3>. QED  BY <3>1, <3>2, <3>4, <1>2
  <2>. QED  BY <2>1, <2>2, <2>3, <1>2
<1>. QED  BY <1>6, <1>7, <1>8

\* The matrix is enumerated: each of its cases has a place.
LEMMA MatrixCovered ==
    ASSUME NEW w \in Matrix
    PROVE  \E q \in Places : CaseAt(q) = w
<1> DEFINE n == Len(Extra)
           m == Len(Selectors)
           k == m * Cells
<1>1. PICK v \in Range1(Inputs) :
        \/ \E e \in Range1(Extra) : w = <<v, Case(Omitted, e, Omitted, Omitted)>>
        \/ \E p \in Invalid, s \in Range1(Selectors) :
              w = <<v, Case(p, s, Omitted, Omitted)>>
        \/ \E p \in Range1(Policies) \ Invalid, s \in Range1(Selectors),
              e \in Range1(Memories), c \in Range1(Sims) : w = <<v, Case(p, s, e, c)>>
  BY DEF Matrix
<1>2. PICK x \in 1..Len(Inputs) : v = Inputs[x]
  BY ParityAssumption DEF Range1
<1>3. /\ Len(Inputs) \in Nat \ {0} /\ n \in Nat \ {0} /\ m \in Nat \ {0}
      /\ k \in Nat \ {0}
  BY SomeCells, Zenon
<1>4. \A p \in Range1(Policies) : \E y \in 1..5 : p = Policies[y]
  BY PolicyNames, Zenon DEF Range1
<1>5. Invalid \subseteq Range1(Policies) /\ Omitted \in Range1(Policies) \ Invalid
  <2>1. Policies[4] = "ram" /\ Policies[5] = "Persistent" /\ Policies[1] = Omitted
    BY DEF Policies
  <2>2. 1 \in 1..5 /\ 4 \in 1..5 /\ 5 \in 1..5
    OBVIOUS
  <2>. QED  BY <2>1, <2>2, PolicyNames, Zenon DEF Range1, Invalid
\* A case of the list of its policy has a place.
<1>6. ASSUME NEW p \in Range1(Policies), NEW z \in 1..Len(Cases(p)),
             w = <<v, Cases(p)[z]>>
      PROVE  \E q \in Places : CaseAt(q) = w
  <2>1. PICK y \in 1..5 : p = Policies[y]
    BY <1>4
  <2> DEFINE q == <<x, y, z>>
  <2>2. Len(Cases(p)) \in Nat
    BY <2>1, PolicyNames, Zenon
  <2>3. x \in Nat /\ y \in Nat /\ z \in Nat
    BY <1>3, <2>2
  <2>4. q[1] = x /\ q[2] = y /\ q[3] = z
    OBVIOUS
  <2>5. q \in Places
    <3>1. q \in Nat \X Nat \X Nat
      BY <2>3
    <3>. QED  BY <3>1, <2>1, <2>4, Zenon DEF Places
  <2>6. CaseAt(q) = w
    BY <2>1, <2>4, <1>2, <1>6, Zenon DEF CaseAt
  <2>. QED  BY <2>5, <2>6, Zenon
<1>7. ASSUME NEW e \in Range1(Extra), w = <<v, Case(Omitted, e, Omitted, Omitted)>>
      PROVE  \E q \in Places : CaseAt(q) = w
  <2>1. PICK j \in 1..n : e = Extra[j]
    BY ParityAssumption DEF Range1
  <2>2. Cases(Omitted)[j] = Case(Omitted, e, Omitted, Omitted)
    BY <2>1, CasesListed, Zenon
  <2>3. Len(Cases(Omitted)) = n + k
    BY CasesListed, Zenon
  <2> HIDE DEF k, n
  <2>4. j \in 1..Len(Cases(Omitted))
    BY <2>3, <1>3
  <2>. QED  BY <2>2, <2>4, <1>5, <1>6, <1>7, Zenon
<1>8. ASSUME NEW p \in Invalid, NEW s \in Range1(Selectors),
             w = <<v, Case(p, s, Omitted, Omitted)>>
      PROVE  \E q \in Places : CaseAt(q) = w
  <2>1. PICK j \in 1..m : s = Selectors[j]
    BY ParityAssumption DEF Range1
  <2>2. Cases(p)[j] = Case(p, s, Omitted, Omitted) /\ j \in 1..Len(Cases(p))
    BY <2>1, CasesListed, Zenon
  <2>. QED  BY <2>2, <1>5, <1>6, <1>8, Zenon
<1>9. ASSUME NEW p \in Range1(Policies) \ Invalid, NEW s \in Range1(Selectors),
             NEW e \in Range1(Memories), NEW c \in Range1(Sims),
             w = <<v, Case(p, s, e, c)>>
      PROVE  \E q \in Places : CaseAt(q) = w
  <2>1. PICK j \in 1..k : FullCase(p, j) = Case(p, s, e, c)
    BY FullCovers, Zenon
  <2>2. CASE p = Omitted
    <3>1. Cases(Omitted)[n + j] = Case(p, s, e, c) /\ Len(Cases(Omitted)) = n + k
      BY <2>1, <2>2, CasesListed, Zenon
    <3> HIDE DEF n, k
    <3>2. n + j \in 1..Len(Cases(Omitted))
      BY <3>1, <1>3
    <3>. QED  BY <3>1, <3>2, <2>2, <1>5, <1>6, <1>9, Zenon
  <2>3. CASE p # Omitted
    <3>1. Cases(p)[j] = Case(p, s, e, c) /\ j \in 1..Len(Cases(p))
      BY <2>1, <2>3, CasesListed, Zenon
    <3>. QED  BY <3>1, <1>6, <1>9, Zenon
  <2>. QED  BY <2>2, <2>3
<1>. QED  BY <1>1, <1>7, <1>8, <1>9, Zenon

\* A result is told by its exit code, its diagnostics and its files.
LEMMA BaselineResult ==
    ASSUME NEW d, NEW w
    PROVE  \E x, n : \E f \in {NoFiles, Wrote} : Baseline(d, w) = Result(x, n, f)
  BY Zenon DEF Baseline

\* A table of names and digests.
Listed(f) == f = [k \in DOMAIN f |-> f[k]]

\* The same of the candidate, whose files are listed by name as well.
LEMMA CandidateResult ==
    ASSUME NEW d, NEW w
    PROVE  \E x, n, f : Listed(f) /\ Candidate(d, w) = Result(x, n, f)
<1>1. PICK x, n : \E f \in {NoFiles, Wrote} : Baseline(d, w) = Result(x, n, f)
  BY BaselineResult, Zenon
<1>2. PICK f \in {NoFiles, Wrote} : Baseline(d, w) = Result(x, n, f)
  BY <1>1, Zenon
<1>3. Listed(f)
  BY DEF NoFiles, Wrote, Listed
<1> DEFINE r == Result(x, n, f)
           e == [f EXCEPT !["a"] = 1]
           g == [f EXCEPT !["b"] = 2]
           h == [k \in {"a"} |-> 0]
           u == [k \in DOMAIN f \cup {"c"} |-> 0]
<1>4. /\ [r EXCEPT !.exit = 1 - @] = Result(1 - x, n, f)
      /\ [r EXCEPT !.files = [k \in DOMAIN @ \cup {"c"} |-> 0]] = Result(x, n, u)
      /\ [r EXCEPT !.files["a"] = 1] = Result(x, n, e)
      /\ [r EXCEPT !.files["b"] = 2] = Result(x, n, g)
      /\ [r EXCEPT !.files = [k \in {"a"} |-> 0]] = Result(x, n, h)
  BY DEF Result
<1>5. Listed(e) /\ Listed(g) /\ Listed(h) /\ Listed(u)
  BY DEF Listed
<1> HIDE DEF e, g, h, u
<1>6. Candidate(d, w) \in {r, Result(1 - x, n, f), Result(x, n, u), Result(x, n, e),
                          Result(x, n, g), Result(x, n, h)}
  BY <1>2, <1>4, Zenon DEF Candidate
<1>7. \/ Candidate(d, w) = Result(x, n, f)
      \/ Candidate(d, w) = Result(1 - x, n, f)
      \/ Candidate(d, w) = Result(x, n, u)
      \/ Candidate(d, w) = Result(x, n, e)
      \/ Candidate(d, w) = Result(x, n, g)
      \/ Candidate(d, w) = Result(x, n, h)
  BY <1>6
<1>. QED  BY <1>3, <1>5, <1>7, Zenon

\* compareFiles accepts the same names with the same digests only.
LEMMA SameFiles ==
    ASSUME NEW f, NEW g, Listed(f), Listed(g), CompareFiles(f, g)
    PROVE  f = g
<1>1. DOMAIN f = DOMAIN g /\ \A k \in DOMAIN f : f[k] = g[k]
  BY Zenon DEF CompareFiles
<1>. QED  BY <1>1 DEF Listed

\* The case of its difference convicts a candidate, whatever the difference.
LEMMA DifferenceFound ==
    ASSUME NEW d \in Candidates, d # Equal
    PROVE  d.where \in Matrix /\ Finding(d, d.where, FALSE) # "none"
<1>1. d \in [where : Matrix, kind : Kinds] /\ Drifts(d)
  BY Zenon DEF Candidates
<1>2. d.where \in Matrix /\ d = [where |-> d.where, kind |-> d.kind]
  BY <1>1
<1> DEFINE w == d.where
           a == Baseline(d, w)
           b == Candidate(d, w)
<1>3. Finding(d, w, FALSE) =
        IF d = [where |-> w, kind |-> "link"] THEN "invoke"
        ELSE IF w[2].policy \in Invalid /\ ~(Refused(a) /\ Refused(b))
             THEN "policy admitted"
        ELSE IF a.exit # b.exit \/ a.names # b.names THEN "behavior drift"
        ELSE IF ~CompareFiles(a.files, b.files) THEN "output drift" ELSE "none"
  BY Zenon DEF Finding
<1>4. \/ a # b
      \/ d.kind = "link"
      \/ w[2].policy \in Invalid /\ ~Refused(a)
  BY <1>1, Zenon DEF Drifts
<1>5. PICK x, n : \E f \in {NoFiles, Wrote} : a = Result(x, n, f)
  BY BaselineResult, Zenon
<1>6. PICK f \in {NoFiles, Wrote} : a = Result(x, n, f)
  BY <1>5, Zenon
<1>7. PICK y, o, g : Listed(g) /\ b = Result(y, o, g)
  BY CandidateResult, Zenon
<1>8. Listed(f)
  BY DEF NoFiles, Wrote, Listed
<1> HIDE DEF a, b
<1>9. /\ a.exit = x /\ a.names = n /\ a.files = f
      /\ b.exit = y /\ b.names = o /\ b.files = g
  BY <1>6, <1>7 DEF Result
<1>10. a # b => a.exit # b.exit \/ a.names # b.names \/ ~CompareFiles(a.files, b.files)
  BY <1>6, <1>7, <1>8, <1>9, SameFiles, Zenon
<1>11. /\ "invoke" # "none" /\ "policy admitted" # "none" /\ "behavior drift" # "none"
       /\ "output drift" # "none"
  OBVIOUS
<1>. QED  BY <1>2, <1>3, <1>4, <1>10, <1>11, Zenon

\* A case without a policy: invocations that generate nothing, then the others.
LEMMA EqualAtStart ==
    ASSUME NEW p \in Places, p[1] = 1, p[2] = 1, p[3] <= Len(Extra) + 1
    PROVE  LET w == CaseAt(p)
           IN  /\ p[3] <= Len(Extra) =>
                     /\ Candidate(Equal, w).files = NoFiles
                     /\ Finding(Equal, w, FALSE) = "none"
                     /\ After(p)[1] = 1 /\ After(p)[2] = 1
                     /\ After(p)[3] <= Len(Extra) + 1
               /\ p[3] = Len(Extra) + 1 =>
                     /\ Candidate(Equal, w).files # NoFiles
                     /\ Finding(Equal, w, TRUE) = "output drift"
<1> DEFINE w == CaseAt(p)
           n == Len(Extra)
           k == Len(Selectors) * Cells
<1>1. \A u, kind : kind # "none" => Equal # [where |-> u, kind |-> kind]
  BY DEF Equal
<1>2. /\ "exit" # "none" /\ "extra" # "none" /\ "flip" # "none" /\ "content" # "none"
      /\ "missing" # "none" /\ "link" # "none" /\ "both admit" # "none"
  OBVIOUS
<1>3. Candidate(Equal, w) = Baseline(Equal, w)
  BY <1>1, <1>2, Zenon DEF Candidate
<1>4. /\ n \in Nat \ {0} /\ k \in Nat \ {0} /\ p[3] \in Nat /\ p[3] # 0
  BY SomeCells DEF Places
<1>5. w = <<Inputs[1], Cases(Omitted)[p[3]]>> /\ Policies[1] = Omitted
  BY PolicyNames, Zenon DEF CaseAt
<1>6. ASSUME p[3] <= n
      PROVE  /\ Candidate(Equal, w).files = NoFiles
             /\ Finding(Equal, w, FALSE) = "none"
             /\ After(p)[1] = 1 /\ After(p)[2] = 1 /\ After(p)[3] <= n + 1
  <2>1. p[3] \in 1..n
    BY <1>4, <1>6
  <2>2. w = <<Inputs[1], Case(Omitted, Extra[p[3]], Omitted, Omitted)>>
    BY <1>5, <2>1, CasesListed, Zenon
  <2>3. w[2].policy = Omitted /\ w[2].selector = Extra[p[3]]
    BY <2>2 DEF Case
  <2>4. w[2].policy \notin Invalid /\ w[2].selector \in Range1(Extra)
    BY <2>1, <2>3, PolicyNames, ParityAssumption, Zenon DEF Range1
  <2>5. Baseline(Equal, w) = Result(0, FALSE, NoFiles)
    BY <2>4, Zenon DEF Baseline
  <2>6. Result(0, FALSE, NoFiles).files = NoFiles
    BY DEF Result
  <2>7. CompareFiles(NoFiles, NoFiles)
    BY DEF CompareFiles, NoFiles
  <2>8. Finding(Equal, w, FALSE) = "none"
    BY <1>1, <1>2, <1>3, <2>4, <2>5, <2>6, <2>7, Zenon DEF Finding
  <2>9. Len(Cases(Policies[1])) = n + k
    BY <1>5, CasesListed, Zenon
  <2>10. p[3] < Len(Cases(Policies[p[2]]))
    <3> HIDE DEF n, k
    <3>1. p[3] < n + k
      BY <1>4, <1>6
    <3>. QED  BY <3>1, <2>9, Zenon
  <2>11. After(p) = <<p[1], p[2], p[3] + 1>>
    BY <2>10, Zenon DEF After
  <2> HIDE DEF n
  <2>12. After(p)[1] = 1 /\ After(p)[2] = 1 /\ After(p)[3] <= n + 1
    BY <2>11, <1>4, <1>6
  <2>. QED  BY <2>5, <2>6, <2>8, <2>12, <1>3, Zenon
<1>7. ASSUME p[3] = n + 1
      PROVE  /\ Candidate(Equal, w).files # NoFiles
             /\ Finding(Equal, w, TRUE) = "output drift"
  <2>1. 1 \in 1..Len(Selectors) /\ 1 \in 1..k
    BY <1>4, SomeCells
  <2>2. w = <<Inputs[1], FullCase(Omitted, 1)>>
    BY <1>5, <1>7, <2>1, CasesListed, Zenon
  <2>3. (1 - 1) \div Cells = 0 /\ 0 + 1 = 1
    BY SomeCells
  <2>4. w[2].policy = Omitted /\ w[2].selector = Selectors[1]
    BY <2>2, <2>3 DEF FullCase, Case
  <2>5. w[2].policy \notin Invalid /\ w[2].selector \notin Range1(Extra)
    <3>1. Selectors[1] \in Range1(Selectors)
      BY <2>1, ParityAssumption, Zenon DEF Range1
    <3>. QED  BY <3>1, <2>4, PolicyNames, ParityAssumption, Zenon
  <2>6. Baseline(Equal, w) = Result(0, FALSE, Wrote)
    BY <2>5, Zenon DEF Baseline
  <2>7. /\ Result(0, FALSE, Wrote).files = Wrote
        /\ Wrote # NoFiles /\ ~CompareFiles(Wrote, Flip(Wrote))
    <3>1. "a" \in DOMAIN Wrote /\ DOMAIN Wrote = {"a", "b"} /\ DOMAIN NoFiles = {}
          /\ Wrote["a"] = 0
      BY DEF Wrote, NoFiles
    <3>2. Flip(Wrote) = [Wrote EXCEPT !["a"] = IF @ % 2 = 0 THEN @ + 1 ELSE @ - 1]
      BY <3>1, Zenon DEF Flip
    <3>3. Flip(Wrote)["a"] = 1
      BY <3>1, <3>2
    <3>4. ~CompareFiles(Wrote, Flip(Wrote))
      BY <3>1, <3>3 DEF CompareFiles
    <3>5. Wrote # NoFiles
      BY <3>1, Zenon
    <3>6. Result(0, FALSE, Wrote).files = Wrote
      BY DEF Result
    <3>. QED  BY <3>4, <3>5, <3>6
  <2>8. Finding(Equal, w, TRUE) = "output drift"
    BY <1>1, <1>2, <1>3, <2>5, <2>6, <2>7, Zenon DEF Finding
  <2>. QED  BY <1>3, <2>6, <2>7, <2>8, Zenon
<1>. QED  BY <1>6, <1>7

\* The invariant holds before the first invocation.
LEMMA ParityInitInv == ParityInit => ParityInv
<1> SUFFICES ASSUME ParityInit PROVE ParityInv
  OBVIOUS
<1>1. OnTheWay
  BY DEF ParityInit, OnTheWay
<1>2. Searched /\ Planting
  BY DEF ParityInit, Searched, Planting
<1>3. ReportVouches /\ PlantNoticed
  BY DEF ParityInit, ReportVouches, PlantNoticed
<1>. QED  BY <1>1, <1>2, <1>3 DEF ParityInv

\* An invocation starts at the first place, before which there is none.
LEMMA ParityStartKeeps == ParityInv /\ ParityStart => ParityInv'
<1> SUFFICES ASSUME ParityInv, ParityStart PROVE ParityInv'
  OBVIOUS
<1>0. OnTheWay /\ Searched /\ Planting /\ ReportVouches /\ PlantNoticed
  BY DEF ParityInv
<1>1. CASE /\ planted' \in BOOLEAN /\ plant' = planted'
           /\ phase' = "case" /\ at' = <<1, 1, 1>>
           /\ error' = "none" /\ verdict' = 3
           /\ UNCHANGED <<candidate, report>>
  <2>1. <<1, 1, 1>> \in Places
    <3>1. 1 \in 1..Len(Inputs) /\ 1 \in 1..5 /\ 1 \in 1..Len(Cases(Policies[1]))
      <4>1. Len(Inputs) \in Nat \ {0} /\ 1 \in 1..5
        BY SomeCells
      <4>2. Len(Cases(Policies[1])) \in Nat \ {0}
        BY <4>1, PolicyNames, Zenon
      <4>. QED  BY <4>1, <4>2
    <3>. QED  BY <3>1 DEF Places
  <2>2. OnTheWay'
    BY <1>0, <1>1, <2>1 DEF OnTheWay
  <2>3. ASSUME NEW q \in Places PROVE ~Before(q, at')
    <3>1. /\ q[1] \in 1..Len(Inputs) /\ q[2] \in 1..5
          /\ q[3] \in 1..Len(Cases(Policies[q[2]]))
      BY Zenon DEF Places
    <3>2. Len(Inputs) \in Nat /\ Len(Cases(Policies[q[2]])) \in Nat
      BY <3>1, SomeCells, PolicyNames, Zenon
    <3>3. ~(q[1] < 1) /\ ~(q[2] < 1) /\ ~(q[3] < 1)
      BY <3>1, <3>2
    <3>. QED  BY <3>3, <1>1 DEF Before
  <2>4. Searched'
    <3>1. phase' # "report"
      BY <1>1
    <3>2. \A q \in Places : Before(q, at') => CaseAt(q) # candidate'.where
      BY <2>3, Zenon
    <3>. QED  BY <3>1, <3>2, Zenon DEF Searched
  <2>5. Planting'
    <3>1. 1 <= Len(Extra) + 1
      BY SomeCells
    <3>2. /\ at'[1] = 1 /\ at'[2] = 1 /\ at'[3] = 1
          /\ phase' # "end" /\ phase' # "report"
      BY <1>1
    <3>3. planted' => plant'
      BY <1>1, Zenon
    <3>. QED  BY <3>1, <3>2, <3>3, Zenon DEF Planting
  <2>6. verdict' # 0
    BY <1>1
  <2>7. ReportVouches'
    BY <1>0, <1>1, <2>6, Zenon DEF ReportVouches
  <2>8. PlantNoticed'
    BY <1>0, <1>1, <2>6, Zenon DEF PlantNoticed
  <2>. QED  BY <2>2, <2>4, <2>5, <2>7, <2>8 DEF ParityInv
<1>2. CASE /\ verdict' = 2
           /\ UNCHANGED <<phase, at, planted, plant, error, candidate, report>>
           /\ phase = "idle"
  <2>1. OnTheWay' /\ Searched' /\ Planting'
    BY <1>0, <1>2 DEF OnTheWay, Searched, Planting
  <2>2. verdict' # 0
    BY <1>2
  <2>3. ReportVouches'
    BY <1>0, <1>2, <2>2, Zenon DEF ReportVouches
  <2>4. PlantNoticed'
    BY <1>0, <1>2, <2>2, Zenon DEF PlantNoticed
  <2>. QED  BY <2>1, <2>3, <2>4 DEF ParityInv
<1>. QED  BY <1>1, <1>2, Zenon DEF ParityStart

\* A case compared: the place moves past it, and past no other.
LEMMA CompareKeeps == ParityInv /\ Compare => ParityInv'
<1> SUFFICES ASSUME ParityInv, Compare PROVE ParityInv'
  OBVIOUS
<1>0. OnTheWay /\ Searched /\ Planting /\ ReportVouches /\ PlantNoticed
  BY DEF ParityInv
<1> DEFINE w == CaseAt(at)
           flips == plant /\ Candidate(candidate, w).files # NoFiles
<1>1. /\ phase = "case" /\ at' = After(at)
      /\ error' = Finding(candidate, w, flips) /\ plant' = (plant /\ ~flips)
      /\ phase' = IF error' # "none" THEN "report"
                  ELSE IF at'[1] > Len(Inputs) THEN "end" ELSE "case"
      /\ UNCHANGED <<candidate, planted, verdict, report>>
  BY Zenon DEF Compare
<1> HIDE DEF w
<1>2. /\ at \in Places /\ candidate \in Candidates /\ verdict = 3
      /\ plant \in BOOLEAN /\ planted \in BOOLEAN /\ (plant => planted)
  BY <1>0, <1>1 DEF OnTheWay
<1>3. /\ at' \in Nat \X Nat \X Nat
      /\ at' \in Places \/ at'[1] > Len(Inputs)
      /\ \A q \in Places : Before(q, at') => Before(q, at) \/ q = at
  BY <1>1, <1>2, AfterPlace, Zenon
<1>4. OnTheWay'
  BY <1>1, <1>2, <1>3 DEF OnTheWay
<1>5. Searched'
  <2> SUFFICES ASSUME ~planted, candidate # Equal PROVE Searched'
    BY <1>1, Zenon DEF Searched
  <2>1. ~flips
    BY <1>2, Zenon
  <2>2. error' = Finding(candidate, w, FALSE)
    BY <1>1, <2>1, Zenon
  <2>3. error' = "none" => w # candidate.where
    BY <2>2, <1>2, DifferenceFound, Zenon
  <2>4. phase' \in {"case", "end"} => error' = "none"
    BY <1>1
  <2>5. \A q \in Places : Before(q, at) => CaseAt(q) # candidate.where
    BY <1>0, <1>1 DEF Searched
  <2>6. phase' \in {"case", "end"} =>
           \A q \in Places : Before(q, at') => CaseAt(q) # candidate.where
    BY <2>3, <2>4, <2>5, <1>3, Zenon DEF w
  <2>7. phase' = "report" => error' # "none"
    BY <1>1
  <2>. QED  BY <2>6, <2>7, <1>1 DEF Searched
<1>6. Planting'
  <2> SUFFICES ASSUME planted, candidate = Equal PROVE Planting'
    BY <1>1, Zenon DEF Planting
  <2>1. plant /\ at[1] = 1 /\ at[2] = 1 /\ at[3] <= Len(Extra) + 1
    BY <1>0, <1>1 DEF Planting
  <2>2. CASE at[3] <= Len(Extra)
    <3>1. /\ Candidate(Equal, w).files = NoFiles
          /\ Finding(Equal, w, FALSE) = "none"
          /\ After(at)[1] = 1 /\ After(at)[2] = 1 /\ After(at)[3] <= Len(Extra) + 1
      BY <2>1, <2>2, <1>2, EqualAtStart, Zenon DEF w
    <3>2. ~flips /\ error' = "none" /\ plant'
      BY <3>1, <2>1, <1>1, Zenon
    <3>3. ~(at'[1] > Len(Inputs))
      BY <3>1, <1>1, SomeCells
    <3>4. phase' = "case"
      BY <3>2, <3>3, <1>1, Zenon
    <3>. QED  BY <3>1, <3>2, <3>4, <1>1 DEF Planting
  <2>3. CASE at[3] = Len(Extra) + 1
    <3>1. Candidate(Equal, w).files # NoFiles /\ Finding(Equal, w, TRUE) = "output drift"
      BY <2>1, <2>3, <1>2, EqualAtStart, Zenon DEF w
    <3>2. flips /\ error' = "output drift"
      BY <3>1, <2>1, <1>1, Zenon
    <3>3. phase' = "report"
      BY <3>2, <1>1
    <3>. QED  BY <3>2, <3>3 DEF Planting
  <2>4. at[3] \in Nat /\ Len(Extra) \in Nat
    BY <1>2, SomeCells DEF Places
  <2>. QED  BY <2>1, <2>2, <2>3, <2>4
<1>7. ReportVouches' /\ PlantNoticed'
  BY <1>0, <1>1, <1>2 DEF ReportVouches, PlantNoticed
<1>. QED  BY <1>4, <1>5, <1>6, <1>7 DEF ParityInv

\* The end of the matrix: every case was compared.
LEMMA MatrixEndKeeps == ParityInv /\ MatrixEnd => ParityInv'
<1> SUFFICES ASSUME ParityInv, MatrixEnd PROVE ParityInv'
  OBVIOUS
<1>0. OnTheWay /\ Searched /\ Planting /\ ReportVouches /\ PlantNoticed
  BY DEF ParityInv
<1>1. /\ phase = "end" /\ phase' = "report"
      /\ UNCHANGED <<candidate, at, planted, plant, verdict, report>>
  BY DEF MatrixEnd
<1>2. OnTheWay'
  BY <1>0, <1>1 DEF OnTheWay
<1>3. candidate # Equal => planted
  <2> SUFFICES ASSUME candidate # Equal, ~planted PROVE FALSE
    OBVIOUS
  <2>1. candidate.where \in Matrix
    BY <1>0, DifferenceFound, Zenon DEF OnTheWay
  <2>2. PICK q \in Places : CaseAt(q) = candidate.where
    BY <2>1, MatrixCovered, Zenon
  <2>3. at[1] > Len(Inputs) /\ at \in Nat \X Nat \X Nat
    BY <1>0, <1>1 DEF OnTheWay
  <2>4. q[1] < at[1]
    BY <2>3, SomeCells DEF Places
  <2>. QED  BY <2>2, <2>4, <1>0, <1>1 DEF Searched, Before
<1>4. Searched'
  BY <1>1, <1>3 DEF Searched
<1>5. Planting'
  BY <1>0, <1>1 DEF Planting
<1>6. ReportVouches' /\ PlantNoticed'
  BY <1>0, <1>1 DEF ReportVouches, PlantNoticed
<1>. QED  BY <1>2, <1>4, <1>5, <1>6 DEF ParityInv

\* The report is written, or was not.
LEMMA WriteReportKeeps == ParityInv /\ WriteReport => ParityInv'
<1> SUFFICES ASSUME ParityInv, WriteReport PROVE ParityInv'
  OBVIOUS
<1>0. OnTheWay /\ Searched /\ Planting /\ ReportVouches /\ PlantNoticed
  BY DEF ParityInv
<1>1. /\ phase = "report" /\ phase' = "idle"
      /\ UNCHANGED <<candidate, at, planted, plant, error>>
  BY DEF WriteReport
<1>2. OnTheWay' /\ Searched' /\ Planting'
  BY <1>0, <1>1 DEF OnTheWay, Searched, Planting
<1>3. /\ ~planted /\ error = "none" => candidate = Equal
      /\ planted /\ candidate = Equal => error \in {"output drift", "invoke"}
  BY <1>0, <1>1 DEF Searched, Planting
<1>4. "output drift" # "none" /\ "invoke" # "none" /\ 1 # 0
  OBVIOUS
<1>5. CASE /\ report' = [of |-> candidate, planted |-> planted, error |-> error]
           /\ verdict' = IF error = "none" THEN 0 ELSE 1
  <2>1. report'.of = candidate /\ report'.planted = planted /\ report'.error = error
    BY <1>5, Zenon
  <2>2. verdict' = 0 => error = "none"
    BY <1>4, <1>5, Zenon
  <2>3. ReportVouches'
    BY <1>1, <1>3, <1>5, <2>1, <2>2, Zenon DEF ReportVouches
  <2>4. PlantNoticed'
    BY <1>1, <1>3, <1>4, <2>1, <2>2, Zenon DEF PlantNoticed
  <2>. QED  BY <1>2, <2>3, <2>4 DEF ParityInv
<1>6. CASE verdict' = 1 /\ report' \in {report, NoReport}
  <2>1. verdict' # 0
    BY <1>6
  <2>2. ReportVouches'
    BY <1>0, <1>6, <2>1, Zenon DEF ReportVouches
  <2>3. PlantNoticed'
    BY <1>0, <1>6, <2>1, Zenon DEF PlantNoticed
  <2>. QED  BY <1>2, <2>2, <2>3 DEF ParityInv
<1>. QED  BY <1>5, <1>6, Zenon DEF WriteReport

\* A kill loses the report of this invocation at most.
LEMMA ParityKillKeeps == ParityInv /\ ParityKill => ParityInv'
<1> SUFFICES ASSUME ParityInv, ParityKill PROVE ParityInv'
  OBVIOUS
<1>0. OnTheWay /\ Searched /\ Planting /\ ReportVouches /\ PlantNoticed
  BY DEF ParityInv
<1>1. /\ phase' = "idle" /\ verdict' = 1
      /\ report' \in {report} \cup (IF phase = "report" THEN {NoReport} ELSE {})
      /\ UNCHANGED <<candidate, at, planted, plant, error>>
  BY DEF ParityKill
<1>2. report' = report \/ report' = NoReport
  BY <1>1, Zenon
<1>3. OnTheWay' /\ Searched' /\ Planting'
  BY <1>0, <1>1 DEF OnTheWay, Searched, Planting
<1>4. verdict' # 0
  BY <1>1
<1>5. ReportVouches'
  BY <1>0, <1>2, <1>4, Zenon DEF ReportVouches
<1>6. PlantNoticed'
  BY <1>0, <1>2, <1>4, Zenon DEF PlantNoticed
<1>. QED  BY <1>3, <1>5, <1>6 DEF ParityInv

\* A failure of the surroundings, and the candidate built again.
LEMMA SurroundingsKeep == ParityInv /\ (InvokeFail \/ Rebuild) => ParityInv'
<1> SUFFICES ASSUME ParityInv, InvokeFail \/ Rebuild PROVE ParityInv'
  OBVIOUS
<1>0. OnTheWay /\ Searched /\ Planting /\ ReportVouches /\ PlantNoticed
  BY DEF ParityInv
<1>1. Equal \in Candidates /\ (phase = "case" => verdict = 3)
  BY <1>0, Zenon DEF Candidates, OnTheWay
<1>2. \/ /\ phase = "case" /\ phase' = "report" /\ error' = "invoke"
         /\ UNCHANGED <<candidate, at, planted, plant, verdict, report>>
      \/ /\ phase = "idle" /\ candidate' = Equal /\ verdict' = 1
         /\ UNCHANGED <<phase, at, planted, plant, error, report>>
  BY DEF InvokeFail, Rebuild
<1>3. OnTheWay' /\ Searched' /\ Planting'
  <2>1. OnTheWay'
    BY <1>0, <1>1, <1>2 DEF OnTheWay
  <2>2. Searched'
    BY <1>0, <1>2 DEF Searched
  <2>3. Planting'
    BY <1>0, <1>2 DEF Planting
  <2>. QED  BY <2>1, <2>2, <2>3
<1>4. verdict' # 0 /\ report' = report
  BY <1>1, <1>2
<1>5. ReportVouches'
  BY <1>0, <1>4, Zenon DEF ReportVouches
<1>6. PlantNoticed'
  BY <1>0, <1>4, Zenon DEF PlantNoticed
<1>. QED  BY <1>3, <1>5, <1>6 DEF ParityInv

\* Every behaviour of jcrpc-parity keeps the invariant.
LEMMA ParityAlways == ParitySpec => []ParityInv
<1>1. ParityInv /\ UNCHANGED parityVars => ParityInv'
  <2> SUFFICES ASSUME ParityInv, UNCHANGED parityVars PROVE ParityInv'
    OBVIOUS
  <2>0. OnTheWay /\ Searched /\ Planting /\ ReportVouches /\ PlantNoticed
    BY DEF ParityInv
  <2>1. UNCHANGED <<candidate, phase, at, planted, plant, error, verdict, report>>
    BY DEF parityVars
  <2>2. OnTheWay'
    BY <2>0, <2>1 DEF OnTheWay
  <2>3. Searched'
    BY <2>0, <2>1 DEF Searched
  <2>4. Planting'
    BY <2>0, <2>1 DEF Planting
  <2>5. ReportVouches'
    BY <2>0, <2>1, Zenon DEF ReportVouches
  <2>6. PlantNoticed'
    BY <2>0, <2>1, Zenon DEF PlantNoticed
  <2>. QED  BY <2>2, <2>3, <2>4, <2>5, <2>6 DEF ParityInv
<1>2. ParityInv /\ [ParityNext]_parityVars => ParityInv'
  BY <1>1, ParityStartKeeps, CompareKeeps, MatrixEndKeeps, WriteReportKeeps,
     ParityKillKeeps, SurroundingsKeep, Zenon DEF ParityNext
<1>. QED  BY <1>2, ParityInitInv, PTL DEF ParitySpec

\* Whatever kills, failures and rebuilds came before: a report without an error
\* from an invocation that planted nothing is about a candidate that differs
\* nowhere in the matrix, and exit code 0 comes with the report of this very
\* candidate and invocation.
THEOREM ReportsVouch == ParitySpec => []ReportVouches
<1>1. ParityInv => ReportVouches
  BY DEF ParityInv
<1>. QED  BY <1>1, ParityAlways, PTL

\* The byte planted in the output of an equal candidate never comes with exit
\* code 0, and a report about it says output drift or that an invocation failed.
THEOREM PlantsNoticed == ParitySpec => []PlantNoticed
<1>1. ParityInv => PlantNoticed
  BY DEF ParityInv
<1>. QED  BY <1>1, ParityAlways, PTL

=============================================================================
