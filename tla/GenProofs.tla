----------------------------- MODULE GenProofs -----------------------------
(***************************************************************************)
(* What jcrpc-gen guarantees about the disk, for any command lines,        *)
(* plugins, packages and disks and any number of failed, killed and        *)
(* repeated runs.                                                          *)
(***************************************************************************)
EXTENDS GenCLI, TLAPS

----------------------------------------------------------------------------
\* Paths.

\* The path of a file begins with its target, and its name follows.
LEMMA PathOfName ==
    ASSUME NEW x \in Names, NEW name \in Seq(Names)
    PROVE  /\ <<x>> \o name \in Paths
           /\ Len(<<x>> \o name) = Len(name) + 1
           /\ (<<x>> \o name)[1] = x
           /\ \A n \in 1..Len(name) : (<<x>> \o name)[n + 1] = name[n]
  BY DEF Paths

\* Files of one target with different names have different paths.
LEMMA PathsDiffer ==
    ASSUME NEW x \in Names, NEW m \in Seq(Names), NEW n \in Seq(Names),
           <<x>> \o m = <<x>> \o n
    PROVE  m = n
<1>1. Len(m) = Len(n)
  BY PathOfName
<1>2. ASSUME NEW c \in 1..Len(m) PROVE m[c] = n[c]
  BY <1>1, PathOfName
<1>. QED  BY <1>1, <1>2

\* What lies on the way to a path: paths that begin as it does, and what lies
\* on the way to them.
LEMMA OnTheWay ==
    ASSUME NEW p \in Paths, NEW q \in OnPath(p)
    PROVE  /\ q \in Paths
           /\ q[1] = p[1]
           /\ OnPath(q) \subseteq OnPath(p)
<1>1. PICK l \in 0..Len(p) : q = SubSeq(p, 1, l)
  BY DEF OnPath, Prefixes
<1>2. q # <<>> /\ Len(p) \in Nat /\ p \in Seq(Names)
  BY DEF OnPath, Paths
<1>3. l >= 1 /\ Len(q) = l /\ q \in Seq(Names)
  BY <1>1, <1>2
<1>4. q \in Paths /\ q[1] = p[1]
  BY <1>1, <1>2, <1>3 DEF Paths
<1>5. ASSUME NEW m \in 0..Len(q) PROVE SubSeq(q, 1, m) = SubSeq(p, 1, m)
  <2>1. ASSUME NEW c \in 1..m PROVE SubSeq(q, 1, m)[c] = SubSeq(p, 1, m)[c]
    BY <1>1, <1>2, <1>3
  <2>2. Len(SubSeq(q, 1, m)) = m /\ Len(SubSeq(p, 1, m)) = m
    BY <1>1, <1>2, <1>3
  <2>3. SubSeq(q, 1, m) \in Seq(Names) /\ SubSeq(p, 1, m) \in Seq(Names)
    BY <1>2, <1>3
  <2>. QED  BY <2>1, <2>2, <2>3
<1>6. OnPath(q) \subseteq OnPath(p)
  BY <1>2, <1>3, <1>5 DEF OnPath, Prefixes
<1>. QED  BY <1>4, <1>6

\* A path is on its own way.
LEMMA OnOwnWay ==
    ASSUME NEW p \in Paths
    PROVE  p \in OnPath(p)
<1>1. SubSeq(p, 1, Len(p)) = p /\ Len(p) \in 0..Len(p)
  BY DEF Paths
<1>. QED  BY <1>1 DEF OnPath, Prefixes, Paths

\* A path that begins with one target does not begin with another, and there
\* are three of them.
LEMMA OrderNames ==
    /\ Len(Order) = 3
    /\ \A n \in 1..3 : Order[n] \in Targets /\ Order[n] \in Names
    /\ \A m, n \in 1..3 : Order[m] = Order[n] => m = n
    /\ \A x \in Targets : \E n \in 1..3 : x = Order[n]
<1>1. Len(Order) = 3 /\ DOMAIN Order = 1..3
  BY DEF Order
<1>2. /\ Order[1] = "java" /\ Order[2] = "swift" /\ Order[3] = "kotlin"
      /\ \A n \in 1..3 : n = 1 \/ n = 2 \/ n = 3
  BY DEF Order
<1>3. \A n \in 1..3 : Order[n] \in Targets
  BY <1>1, Zenon DEF Targets, Range
<1>4. \A x \in Targets : \E n \in 1..3 : x = Order[n]
  BY <1>1, Zenon DEF Targets, Range
<1>5. \A n \in 1..3 : Order[n] \in Names
  BY <1>3, NamesAssumption
<1>6. \A m, n \in 1..3 : Order[m] = Order[n] => m = n
  BY <1>2
<1>. QED  BY <1>1, <1>3, <1>4, <1>5, <1>6

----------------------------------------------------------------------------
\* The inductive invariant.

Busy == {"flags", "schema", "select", "generate", "check", "mkdir", "open",
         "write"}
BeforeDisk == {"flags", "schema", "select", "generate", "check"}

\* A slice of files a plugin may have returned.
IsPackage(p) ==
    /\ Len(p) \in Nat
    /\ DOMAIN p = 1..Len(p)
    /\ \A a \in DOMAIN p :
          p[a].name \in Seq(Names) /\ (p[a].local => p[a].name \in Paths)

\* The variables have their types; a run that goes on has no exit code, and
\* works on a target while it checks or writes a package.
Shaped ==
    /\ inv \in Invocations /\ runs \in 1..MaxRuns
    /\ stage \in Busy \cup {"exited", "killed"}
    /\ t \in 1..4
    /\ code \in -1..3
    /\ k \in Nat
    /\ pkg = [x \in Targets |-> pkg[x]]
    /\ \A x \in Targets : IsPackage(pkg[x])
    /\ files = [p \in DOMAIN files |-> files[p]]
    /\ DOMAIN files \subseteq Paths /\ dirs \subseteq Paths
    /\ DOMAIN files \cap dirs = {}
    /\ stage \in Busy => code = -1
    /\ stage \in {"check", "mkdir", "open", "write"} => t <= 3

\* The package that is written has passed the checks, and the loop variable
\* runs over it.
LinkFree(x) ==
    \A b \in DOMAIN pkg[x] : OnPath(<<x>> \o pkg[x][b].name) \cap links = {}

Accepted ==
    \A n \in 1..3 :
        n = t /\ stage \in {"mkdir", "open", "write"} =>
            /\ NamesValid(pkg[Order[n]])
            /\ LinkFree(Order[n])
            /\ stage = "mkdir" => k \in 0..Len(pkg[Order[n]])
            /\ stage = "open" => k \in 1..(Len(pkg[Order[n]]) + 1)
            /\ stage = "write" =>
                  /\ k \in 1..Len(pkg[Order[n]])
                  /\ <<Order[n]>> \o pkg[Order[n]][k].name \in DOMAIN files

\* What the targets behind the current one, and the files behind the current
\* one, left on disk is complete.
OnDisk(x, a) ==
    LET p == <<x>> \o pkg[x][a].name
    IN  p \in DOMAIN files /\ files[p] = pkg[x][a].data

Written ==
    \A n \in 1..3 : \A a \in DOMAIN pkg[Order[n]] :
        \/ n < t /\ Order[n] \in Selected
        \/ n = t /\ stage \in {"open", "write"} /\ a < k
        => OnDisk(Order[n], a)

\* Exit code 0 without output only where the command line asks for none.
Finished ==
    code = exitCodeSuccess => inv.flags = "help" \/ inv.validateOnly \/ t = 4

\* A target is as the run found it until the run makes its directories.
AsFound(x) ==
    /\ \A p \in DOMAIN files \cup DOMAIN before.files :
          p[1] = x => /\ p \in DOMAIN files \cap DOMAIN before.files
                      /\ files[p] = before.files[p]
    /\ \A d \in dirs : d[1] = x => d \in before.dirs

Untouched ==
    \A n \in 1..3 :
        \/ n > t
        \/ n = t /\ (stage \in BeforeDisk \/ code \in {1, 2})
        => AsFound(Order[n])

GenInv == Shaped /\ Accepted /\ Written /\ Finished /\ Untouched

----------------------------------------------------------------------------
\* The steps.  First what files of different targets, or of one package, have
\* to do with each other.

\* The file at a place of a package lies below its target's directory.
LEMMA FilePath ==
    ASSUME NEW n \in 1..3, NEW p, IsPackage(p), NEW a \in DOMAIN p
    PROVE  /\ <<Order[n]>> \o p[a].name \in Paths
           /\ (<<Order[n]>> \o p[a].name)[1] = Order[n]
<1>1. Order[n] \in Names /\ p[a].name \in Seq(Names)
  BY OrderNames DEF IsPackage
<1>. QED  BY <1>1, PathOfName, Zenon

\* What OnDisk and AsFound say does not change while what they speak of does
\* not.
LEMMA DiskKept ==
    ASSUME NEW x, files' = files, pkg' = pkg, dirs' = dirs, before' = before
    PROVE  /\ \A a : OnDisk(x, a) => OnDisk(x, a)'
           /\ AsFound(x) => AsFound(x)'
  BY DEF OnDisk, AsFound

\* The system stops with an exit code: a success where the command line asks
\* for no output or every target is done, a refusal where nothing is written.
LEMMA ExitStep ==
    ASSUME GenInv, NEW c \in 0..3, Exit(c), stage \in Busy,
           c = 0 => inv.flags = "help" \/ inv.validateOnly \/ t = 4,
           c \in {1, 2} => stage \in BeforeDisk
    PROVE  GenInv'
<1> USE DEF Exit, run, disk, GenInv
<1>1. Shaped'
  BY DEF Shaped, Busy
<1>2. Accepted'
  BY DEF Accepted
<1>3. Written'
  <2> SUFFICES ASSUME NEW n \in 1..3, NEW a \in DOMAIN pkg[Order[n]],
                      n < t /\ Order[n] \in Selected
               PROVE  OnDisk(Order[n], a)'
    BY DEF Written, Selected
  <2>. QED  BY DiskKept DEF Written
<1>4. Finished'
  BY DEF Finished, exitCodeSuccess
<1>5. Untouched'
  BY DiskKept DEF Untouched, BeforeDisk
<1>. QED  BY <1>1, <1>2, <1>3, <1>4, <1>5

\* The run goes on to another part before it looks at a package, or is killed.
LEMMA GotoStep ==
    ASSUME GenInv, NEW s, Goto(s), stage \in Busy,
           \/ s = "killed"
           \/ s \in {"schema", "select", "generate"} /\ stage \in BeforeDisk
    PROVE  GenInv'
<1> USE DEF Goto, run, disk, GenInv
<1>1. Shaped'
  BY DEF Shaped, Busy
<1>2. Accepted'
  BY DEF Accepted
<1>3. Written'
  <2> SUFFICES ASSUME NEW n \in 1..3, NEW a \in DOMAIN pkg[Order[n]],
                      n < t /\ Order[n] \in Selected
               PROVE  OnDisk(Order[n], a)'
    BY DEF Written, Selected
  <2>. QED  BY DiskKept DEF Written
<1>4. Finished'
  BY DEF Finished
<1>5. Untouched'
  <2>1. code = -1
    BY DEF Shaped
  <2>. QED  BY <2>1, DiskKept DEF Untouched, BeforeDisk
<1>. QED  BY <1>1, <1>2, <1>3, <1>4, <1>5

\* The next target: the current one is not selected.
LEMMA NextTargetStep ==
    ASSUME GenInv, NextTarget
    PROVE  GenInv'
<1> USE DEF NextTarget, run, disk, GenInv
<1>1. t \in 1..3 /\ t' = t + 1 /\ stage = "generate" /\ code = -1
  BY OrderNames DEF Shaped, Busy
<1>2. Shaped'
  BY <1>1 DEF Shaped, Busy
<1>3. Accepted'
  BY <1>1 DEF Accepted
<1>4. Written'
  <2> SUFFICES ASSUME NEW n \in 1..3, NEW a \in DOMAIN pkg[Order[n]],
                      n < t + 1 /\ Order[n] \in Selected
               PROVE  OnDisk(Order[n], a)'
    BY <1>1 DEF Written, Selected
  <2>1. n # t
    BY DEF Target
  <2>2. n < t
    BY <1>1, <2>1
  <2>. QED  BY <2>2, DiskKept DEF Written
<1>5. Finished'
  BY <1>1 DEF Finished, exitCodeSuccess
<1>6. Untouched'
  BY <1>1, DiskKept DEF Untouched, BeforeDisk
<1>. QED  BY <1>2, <1>3, <1>4, <1>5, <1>6

\* target.plugin.Generate returns a package; it takes the place of nothing that
\* was on disk.
LEMMA GenerateStep ==
    ASSUME GenInv, Generate
    PROVE  GenInv'
<1> USE DEF GenInv
<1>1. /\ t \in 1..3 /\ stage = "generate" /\ code = -1
      /\ Target \in Targets /\ Target = Order[t]
  BY OrderNames DEF Generate, Shaped, Busy, Target
<1>2. PICK out \in Packages[Target] :
         IF out = GenError
         THEN Exit(exitCodeGeneration)
         ELSE /\ pkg' = [pkg EXCEPT ![Target] = out]
              /\ stage' = "check"
              /\ UNCHANGED <<inv, runs, before, t, k, disk, code>>
  BY DEF Generate
<1>3. CASE out = GenError
  <2>1. Exit(2)
    BY <1>2, <1>3 DEF exitCodeGeneration
  <2>. QED  BY <1>1, <2>1, ExitStep DEF Busy, BeforeDisk
<1>4. CASE out # GenError
  <2>1. /\ pkg' = [pkg EXCEPT ![Target] = out]
        /\ stage' = "check"
        /\ inv' = inv /\ runs' = runs /\ before' = before /\ t' = t /\ k' = k
        /\ code' = code /\ files' = files /\ dirs' = dirs /\ links' = links
    BY <1>2, <1>4 DEF disk
  <2>2. IsPackage(out)
    BY <1>1, <1>4, PackagesAssumption DEF IsPackage
  <2>3. /\ pkg' = [x \in Targets |-> pkg'[x]]
        /\ \A x \in Targets : pkg'[x] = IF x = Target THEN out ELSE pkg[x]
    BY <1>1, <2>1 DEF Shaped
  <2>4. Shaped'
    <3>1. \A x \in Targets : IsPackage(pkg'[x])
      BY <2>2, <2>3 DEF Shaped
    <3>. QED  BY <1>1, <2>1, <2>3, <3>1 DEF Shaped, Busy
  <2>5. Accepted'
    BY <2>1 DEF Accepted
  <2>6. Written'
    <3> SUFFICES ASSUME NEW n \in 1..3, NEW a \in DOMAIN pkg'[Order[n]],
                        n < t /\ Order[n] \in Selected
                 PROVE  OnDisk(Order[n], a)'
      BY <2>1 DEF Written, Selected
    <3>1. pkg'[Order[n]] = pkg[Order[n]]
      BY <1>1, <2>3, OrderNames
    <3>2. OnDisk(Order[n], a)
      BY <3>1 DEF Written
    <3>. QED  BY <2>1, <3>1, <3>2 DEF OnDisk
  <2>7. Finished'
    BY <1>1, <2>1 DEF Finished, exitCodeSuccess
  <2>8. Untouched'
    BY <1>1, <2>1 DEF Untouched, BeforeDisk, AsFound
  <2>. QED  BY <2>4, <2>5, <2>6, <2>7, <2>8
<1>. QED  BY <1>3, <1>4

\* validatePackageFiles accepts the whole package, or refuses it with nothing
\* made.
LEMMA CheckPackageStep ==
    ASSUME GenInv, CheckPackage
    PROVE  GenInv'
<1> USE DEF GenInv
<1> DEFINE fine == /\ NamesValid(Package)
                   /\ \A b \in DOMAIN Package :
                         NoConflict(Package, b) /\ NoLink(Package, b)
<1>1. /\ t \in 1..3 /\ stage = "check" /\ code = -1
      /\ Target \in Targets /\ Target = Order[t] /\ Package = pkg[Order[t]]
  BY OrderNames DEF CheckPackage, Shaped, Busy, Target, Package
<1>2. CASE ~fine
  <2>1. Exit(2)
    BY <1>2 DEF CheckPackage, exitCodeGeneration
  <2>. QED  BY <1>1, <2>1, ExitStep DEF Busy, BeforeDisk
<1>3. CASE fine
  <2>1. /\ stage' = "mkdir" /\ k' = Len(Package)
        /\ UNCHANGED <<inv, runs, pkg, before, t, files, dirs, links, code>>
    BY <1>3 DEF CheckPackage, run, disk
  <2>2. NamesValid(pkg[Order[t]]) /\ LinkFree(Order[t])
    BY <1>1, <1>3 DEF LinkFree, NoLink, Path
  <2>3. Len(Package) \in Nat
    BY <1>1 DEF Shaped, IsPackage
  <2>4. Shaped'
    BY <1>1, <2>1, <2>3 DEF Shaped, Busy
  <2>5. Accepted'
    BY <1>1, <2>1, <2>2, <2>3 DEF Accepted, LinkFree
  <2>6. Written'
    <3> SUFFICES ASSUME NEW n \in 1..3, NEW a \in DOMAIN pkg[Order[n]],
                        n < t /\ Order[n] \in Selected
                 PROVE  OnDisk(Order[n], a)'
      BY <2>1 DEF Written, Selected
    <3>. QED  BY <2>1, DiskKept DEF Written
  <2>7. Finished'
    BY <1>1, <2>1 DEF Finished, exitCodeSuccess
  <2>8. Untouched'
    BY <1>1, <2>1, DiskKept DEF Untouched, BeforeDisk
  <2>. QED  BY <2>4, <2>5, <2>6, <2>7, <2>8
<1>. QED  BY <1>2, <1>3

\* os.Lstat fails before anything is made.
LEMMA LstatFailsStep ==
    ASSUME GenInv, LstatFails
    PROVE  GenInv'
<1>1. stage = "check" /\ Exit(3)
  BY DEF LstatFails, exitCodeIO
<1>. QED  BY <1>1, ExitStep DEF Busy

\* What MkdirAll makes for a file of the accepted package of a target is a path
\* of that target's, without a link on its way.
LEMMA MadeDirs ==
    ASSUME GenInv, stage \in {"mkdir", "open", "write"},
           NEW a \in DOMAIN Package
    PROVE  /\ Path(Package[a]) \in Paths
           /\ \A d \in OnPath(Path(Package[a])) :
                 d \in Paths /\ d[1] = Target /\ OnPath(d) \cap links = {}
<1> USE DEF GenInv
<1>1. t \in 1..3 /\ Target = Order[t] /\ Target \in Targets /\ Package = pkg[Order[t]]
  BY OrderNames DEF Shaped, Target, Package
<1>2. IsPackage(pkg[Order[t]]) /\ LinkFree(Order[t])
  BY <1>1 DEF Shaped, Accepted
<1>3. Path(Package[a]) \in Paths /\ Path(Package[a])[1] = Target
  BY <1>1, <1>2, FilePath DEF Path
<1>4. OnPath(Path(Package[a])) \cap links = {}
  BY <1>1, <1>2 DEF LinkFree, Path
<1>5. ASSUME NEW d \in OnPath(Path(Package[a]))
      PROVE  d \in Paths /\ d[1] = Target /\ OnPath(d) \cap links = {}
  <2>1. d \in Paths /\ d[1] = Path(Package[a])[1]
        /\ OnPath(d) \subseteq OnPath(Path(Package[a]))
    BY <1>3, OnTheWay, Zenon
  <2>. QED  BY <1>3, <1>4, <2>1
<1>. QED  BY <1>3, <1>5

\* Directories made below the root of the current target: the others keep what
\* the run found, and no file is touched.
LEMMA DirsStep ==
    ASSUME GenInv, stage = "mkdir", NEW made,
           \A d \in made : d \in Paths /\ d[1] = Target,
           made \cap DOMAIN files = {},
           dirs' = dirs \cup made,
           UNCHANGED <<inv, runs, pkg, before, t, files, links>>,
           \/ stage' = "mkdir" /\ k >= 1 /\ k' = k - 1 /\ code' = code
           \/ stage' = "exited" /\ k' = k /\ code' = 3
    PROVE  GenInv'
<1> USE DEF GenInv
<1>1. t \in 1..3 /\ Target = Order[t] /\ code = -1 /\ k \in Nat
  BY OrderNames DEF Shaped, Target, Busy
<1>2. Shaped'
  BY <1>1 DEF Shaped, Busy
<1>3. Accepted'
  BY <1>1 DEF Accepted, LinkFree
<1>4. Written'
  <2> SUFFICES ASSUME NEW n \in 1..3, NEW a \in DOMAIN pkg[Order[n]],
                      n < t /\ Order[n] \in Selected
               PROVE  OnDisk(Order[n], a)'
    BY DEF Written, Selected
  <2>. QED  BY DEF Written, OnDisk
<1>5. Finished'
  BY <1>1 DEF Finished, exitCodeSuccess
<1>6. Untouched'
  <2> SUFFICES ASSUME NEW n \in 1..3, n > t PROVE AsFound(Order[n])'
    BY <1>1 DEF Untouched, BeforeDisk
  <2>1. AsFound(Order[n])
    BY DEF Untouched
  <2>2. Order[n] # Target
    BY <1>1, OrderNames
  <2>. QED  BY <2>1, <2>2 DEF AsFound
<1>. QED  BY <1>2, <1>3, <1>4, <1>5, <1>6

\* os.MkdirAll of the directory of one file.
LEMMA MkdirStep ==
    ASSUME GenInv, Mkdir \/ MkdirFails
    PROVE  GenInv'
<1>1. stage = "mkdir" /\ k >= 1 /\ k \in DOMAIN Package
  <2>1. t \in 1..3 /\ Package = pkg[Order[t]] /\ stage = "mkdir" /\ k >= 1
    BY OrderNames DEF GenInv, Shaped, Package, Target, Mkdir, MkdirFails
  <2>2. k \in 0..Len(Package) /\ Len(Package) \in Nat
        /\ DOMAIN Package = 1..Len(Package)
    BY <2>1, OrderNames DEF GenInv, Accepted, Shaped, IsPackage
  <2>. QED  BY <2>1, <2>2
<1> DEFINE above == Above(Path(Package[k]))
<1>2. \A d \in above : d \in Paths /\ d[1] = Target
  BY <1>1, MadeDirs DEF Above
<1>3. CASE Mkdir
  <2>1. /\ above \cap DOMAIN files = {} /\ dirs' = dirs \cup above /\ k' = k - 1
        /\ UNCHANGED <<inv, runs, pkg, before, stage, t, files, links, code>>
    BY <1>3 DEF Mkdir, run
  <2> HIDE DEF above
  <2>. QED  BY <1>1, <1>2, <2>1, DirsStep
<1>4. CASE MkdirFails
  <2>1. PICK n \in 0..(Len(Path(Package[k])) - 2) :
          LET made == {d \in above : Len(d) <= n}
          IN  made \cap DOMAIN files = {} /\ dirs' = dirs \cup made
    BY <1>4 DEF MkdirFails
  <2> DEFINE made == {d \in above : Len(d) <= n}
  <2>2. /\ made \cap DOMAIN files = {} /\ dirs' = dirs \cup made
        /\ \A d \in made : d \in Paths /\ d[1] = Target
    BY <1>2, <2>1
  <2>3. /\ stage' = "exited" /\ k' = k /\ code' = 3
        /\ UNCHANGED <<inv, runs, pkg, before, t, files, links>>
    BY <1>4 DEF MkdirFails, run, exitCodeIO
  <2> HIDE DEF made
  <2>. QED  BY <1>1, <2>2, <2>3, DirsStep
<1>. QED  BY <1>3, <1>4

\* All directories are there; the first file is next.
LEMMA MkdirDoneStep ==
    ASSUME GenInv, MkdirDone
    PROVE  GenInv'
<1> USE DEF GenInv
<1>1. /\ t \in 1..3 /\ stage = "mkdir" /\ stage' = "open" /\ k' = 1 /\ code = -1
      /\ UNCHANGED <<inv, runs, pkg, before, t, files, dirs, links, code>>
  BY DEF MkdirDone, Shaped, Busy, run, disk
<1>2. Shaped'
  BY <1>1 DEF Shaped, Busy
<1>3. Accepted'
  <2>1. \A n \in 1..3 : Len(pkg[Order[n]]) \in Nat
    BY OrderNames DEF Shaped, IsPackage
  <2>. QED  BY <1>1, <2>1 DEF Accepted, LinkFree
<1>4. Written'
  <2> SUFFICES ASSUME NEW n \in 1..3, NEW a \in DOMAIN pkg[Order[n]],
                      \/ n < t /\ Order[n] \in Selected
                      \/ n = t /\ a < 1
               PROVE  OnDisk(Order[n], a)'
    BY <1>1 DEF Written, Selected
  <2>1. DOMAIN pkg[Order[n]] = 1..Len(pkg[Order[n]])
    BY OrderNames DEF Shaped, IsPackage
  <2>2. n < t /\ Order[n] \in Selected
    BY <2>1
  <2>. QED  BY <1>1, <2>2, DiskKept DEF Written
<1>5. Finished'
  BY <1>1 DEF Finished, exitCodeSuccess
<1>6. Untouched'
  BY <1>1, DiskKept DEF Untouched, BeforeDisk
<1>. QED  BY <1>2, <1>3, <1>4, <1>5, <1>6

\* One file of the current package gets new content: the files before it, and
\* those of the other targets, have other paths.
LEMMA FileStep ==
    ASSUME GenInv, stage \in {"open", "write"}, k \in DOMAIN Package,
           NEW data, NEW p, p = Path(Package[k]), p \notin dirs,
           DOMAIN files' = DOMAIN files \cup {p}, files'[p] = data,
           \A q \in DOMAIN files : q # p => files'[q] = files[q],
           files' = [q \in DOMAIN files' |-> files'[q]],
           UNCHANGED <<inv, runs, pkg, before, t, dirs, links, code>>,
           \/ stage' = "write" /\ k' = k
           \/ stage' = "open" /\ k' = k + 1 /\ data = Package[k].data
    PROVE  GenInv'
<1>0. Shaped /\ Accepted /\ Written /\ Finished /\ Untouched
  BY DEF GenInv
<1>1. /\ t \in 1..3 /\ Target = Order[t] /\ code = -1 /\ k \in Nat
      /\ Package = pkg[Order[t]]
  BY <1>0, OrderNames DEF Shaped, Target, Package, Busy
<1>2. /\ NamesValid(pkg[Order[t]]) /\ LinkFree(Order[t])
      /\ k \in 1..Len(pkg[Order[t]]) /\ Len(pkg[Order[t]]) \in Nat
  BY <1>0, <1>1, OrderNames DEF Accepted, Shaped, IsPackage
<1>3. p \in Paths /\ p[1] = Order[t] /\ p = <<Order[t]>> \o pkg[Order[t]][k].name
  <2>1. p = <<Order[t]>> \o pkg[Order[t]][k].name
    BY <1>1 DEF Path
  <2>2. IsPackage(pkg[Order[t]]) /\ k \in DOMAIN pkg[Order[t]]
    BY <1>0, <1>1, OrderNames DEF Shaped
  <2>3. t \in 1..3
    BY <1>1
  <2> DEFINE u == pkg[Order[t]]
  <2> HIDE DEF u
  <2>4. IsPackage(u) /\ k \in DOMAIN u
    BY <2>2 DEF u
  <2>5. <<Order[t]>> \o u[k].name \in Paths /\ (<<Order[t]>> \o u[k].name)[1] = Order[t]
    BY <2>3, <2>4, FilePath, Zenon
  <2>. QED  BY <2>1, <2>5 DEF u
<1>4. /\ DOMAIN files' = DOMAIN files \cup {p}
      /\ files'[p] = data
      /\ \A q \in DOMAIN files : q # p => files'[q] = files[q]
      /\ files' = [q \in DOMAIN files' |-> files'[q]]
  OBVIOUS
<1>5. Shaped'
  <2>1. DOMAIN files' \subseteq Paths /\ DOMAIN files' \cap dirs = {}
    BY <1>0, <1>3, <1>4 DEF Shaped
  <2>2. k' \in Nat /\ stage' \in {"open", "write"}
    BY <1>1
  <2>. QED  BY <1>0, <1>1, <1>4, <2>1, <2>2 DEF Shaped, Busy
<1>6. Accepted'
  <2>1. p \in DOMAIN files' /\ p = <<Order[t]>> \o pkg[Order[t]][k].name
    BY <1>3, <1>4
  <2>2. NamesValid(pkg'[Order[t]])
    BY <1>2
  <2>3. LinkFree(Order[t])'
    BY <1>2 DEF LinkFree
  <2>4. /\ stage' \in {"open", "write"}
        /\ stage' = "open" => k' \in 1..(Len(pkg'[Order[t]]) + 1)
        /\ stage' = "write" => k' \in 1..Len(pkg'[Order[t]]) /\ k' = k
    BY <1>2
  <2>5. <<Order[t]>> \o pkg'[Order[t]][k].name \in DOMAIN files'
    BY <2>1
  <2>. QED  BY <2>2, <2>3, <2>4, <2>5 DEF Accepted
<1>7. Written'
  <2> SUFFICES ASSUME NEW n \in 1..3, NEW a \in DOMAIN pkg[Order[n]],
                      \/ n < t /\ Order[n] \in Selected
                      \/ n = t /\ a < k'
               PROVE  OnDisk(Order[n], a)'
    BY <1>1 DEF Written, Selected
  <2> DEFINE q == <<Order[n]>> \o pkg[Order[n]][a].name
  <2>1. q \in Paths /\ q[1] = Order[n] /\ IsPackage(pkg[Order[n]])
    BY <1>0, FilePath, OrderNames DEF Shaped
  <2>2. CASE n < t
    <3>1. OnDisk(Order[n], a)
      BY <1>0, <1>1, <2>2 DEF Written
    <3>2. q # p
      <4>1. t \in 1..3 /\ n # t
        BY <1>1, <2>2
      <4>2. Order[n] # Order[t]
        BY <4>1, OrderNames
      <4>3. q[1] = Order[n] /\ p[1] = Order[t]
        BY <1>3, <2>1, Zenon
      <4>. QED  BY <4>2, <4>3, Zenon
    <3>3. q \in DOMAIN files /\ files[q] = pkg[Order[n]][a].data
      BY <3>1 DEF OnDisk
    <3> HIDE DEF q
    <3>4. q \in DOMAIN files' /\ files'[q] = pkg[Order[n]][a].data
      BY <1>4, <3>2, <3>3
    <3>. QED  BY <3>4 DEF OnDisk, q
  <2>3. CASE n = t /\ a < k
    <3>1. OnDisk(Order[n], a)
      BY <1>0, <1>1, <2>3 DEF Written
    <3>2. q # p
      <4>1. pkg[Order[t]][a].name # pkg[Order[t]][k].name
        <5>1. a \in DOMAIN pkg[Order[t]] /\ k \in DOMAIN pkg[Order[t]] /\ a # k
          BY <1>1, <1>2, <2>1, <2>3 DEF IsPackage
        <5>2. \A c, d \in DOMAIN pkg[Order[t]] :
                 c # d => pkg[Order[t]][c].name # pkg[Order[t]][d].name
          BY <1>2 DEF NamesValid
        <5>. QED  BY <5>1, <5>2
      <4>2. /\ pkg[Order[t]][a].name \in Seq(Names)
            /\ pkg[Order[t]][k].name \in Seq(Names)
            /\ Order[t] \in Names
        BY <1>1, <2>1, <2>3, OrderNames DEF IsPackage
      <4>3. p = <<Order[t]>> \o pkg[Order[t]][k].name
        BY <1>1 DEF Path
      <4>. QED  BY <2>3, <4>1, <4>2, <4>3, PathsDiffer
    <3>3. q \in DOMAIN files /\ files[q] = pkg[Order[n]][a].data
      BY <3>1 DEF OnDisk
    <3> HIDE DEF q
    <3>4. q \in DOMAIN files' /\ files'[q] = pkg[Order[n]][a].data
      BY <1>4, <3>2, <3>3
    <3>. QED  BY <3>4 DEF OnDisk, q
  <2>4. CASE n = t /\ a >= k /\ a < k'
    <3>1. a = k /\ data = Package[k].data
      BY <1>1, <1>2, <2>1, <2>4 DEF IsPackage
    <3>2. q = p
      BY <1>1, <2>4, <3>1 DEF Path
    <3>3. files'[p] = pkg[Order[n]][a].data /\ p \in DOMAIN files'
      BY <1>1, <1>4, <2>4, <3>1
    <3>. QED  BY <3>2, <3>3 DEF OnDisk
  <2>5. a \in Nat
    BY <2>1 DEF IsPackage
  <2>. QED  BY <1>1, <2>2, <2>3, <2>4, <2>5
<1>8. Finished'
  BY <1>1 DEF Finished, exitCodeSuccess
<1>9. Untouched'
  <2> SUFFICES ASSUME NEW n \in 1..3, n > t PROVE AsFound(Order[n])'
    BY <1>1 DEF Untouched, BeforeDisk
  <2>1. AsFound(Order[n])
    BY <1>0 DEF Untouched
  <2>2. Order[n] # p[1]
    BY <1>1, <1>3, OrderNames
  <2>. QED  BY <1>4, <2>1, <2>2 DEF AsFound
<1>. QED  BY <1>5, <1>6, <1>7, <1>8, <1>9 DEF GenInv

\* os.WriteFile opens and truncates the file, then writes it.
LEMMA OpenStep ==
    ASSUME GenInv, Open
    PROVE  GenInv'
<1>1. t \in 1..3 /\ Package = pkg[Order[t]] /\ stage = "open"
  BY OrderNames DEF GenInv, Shaped, Package, Target, Open
<1>2. k \in DOMAIN Package
  BY <1>1, OrderNames DEF GenInv, Accepted, Shaped, IsPackage, Open
<1> DEFINE p == Path(Package[k])
           data == Torn
<1>3. /\ p \notin dirs /\ stage' = "write" /\ k' = k
      /\ files' = [q \in DOMAIN files \cup {p} |-> IF q = p THEN data ELSE files[q]]
      /\ UNCHANGED <<inv, runs, pkg, before, t, dirs, links, code>>
  BY DEF Open, run
<1> HIDE DEF p, data
<1>4. p = Path(Package[k])
  BY DEF p
<1>5. /\ DOMAIN files' = DOMAIN files \cup {p} /\ files'[p] = data
      /\ \A q \in DOMAIN files : q # p => files'[q] = files[q]
      /\ files' = [q \in DOMAIN files' |-> files'[q]]
  BY <1>3
<1>6. stage \in {"open", "write"}
  BY <1>1
<1>. QED  BY <1>2, <1>3, <1>4, <1>5, <1>6, FileStep

\* The write: the file is on disk since it was opened, and no directory.
LEMMA WriteStep ==
    ASSUME GenInv, Write
    PROVE  GenInv'
<1>1. /\ t \in 1..3 /\ Package = pkg[Order[t]] /\ stage = "write"
      /\ files = [q \in DOMAIN files |-> files[q]] /\ DOMAIN files \cap dirs = {}
  BY OrderNames DEF GenInv, Shaped, Package, Target, Write
<1>2. k \in DOMAIN Package /\ Path(Package[k]) \in DOMAIN files
  <2>1. Target = Order[t]
    BY DEF Target
  <2>. QED  BY <1>1, <2>1, OrderNames DEF GenInv, Accepted, Shaped, IsPackage, Path
<1> DEFINE p == Path(Package[k])
           data == Package[k].data
<1>3. /\ files' = [files EXCEPT ![p] = data] /\ stage' = "open" /\ k' = k + 1
      /\ UNCHANGED <<inv, runs, pkg, before, t, dirs, links, code>>
  BY DEF Write, run
<1>4. p = Path(Package[k]) /\ data = Package[k].data /\ p \in DOMAIN files
  BY <1>2
<1> HIDE DEF p, data
<1>5. /\ DOMAIN files' = DOMAIN files \cup {p} /\ files'[p] = data
      /\ \A q \in DOMAIN files : q # p => files'[q] = files[q]
      /\ files' = [q \in DOMAIN files' |-> files'[q]]
      /\ p \notin dirs
  BY <1>1, <1>3, <1>4
<1>6. stage \in {"open", "write"} /\ k \in DOMAIN Package
  BY <1>1, <1>2
<1>. QED  BY <1>3, <1>4, <1>5, <1>6, FileStep

\* An open or a write fails: the run stops, with the current target torn.
LEMMA WriteFailsStep ==
    ASSUME GenInv, WriteFails
    PROVE  GenInv'
<1>1. stage \in {"open", "write"} /\ Exit(3)
  BY DEF WriteFails, exitCodeIO
<1>. QED  BY <1>1, ExitStep DEF Busy

\* The last file of the target is written.
LEMMA TargetDoneStep ==
    ASSUME GenInv, TargetDone
    PROVE  GenInv'
<1> USE DEF GenInv
<1>1. /\ t \in 1..3 /\ Package = pkg[Order[t]] /\ code = -1 /\ stage = "open"
      /\ k > Len(Package) /\ stage' = "generate" /\ t' = t + 1 /\ k' = k
      /\ UNCHANGED <<inv, runs, pkg, before, files, dirs, links, code>>
  BY OrderNames DEF TargetDone, Shaped, Busy, Package, Target, run, disk
<1>2. Shaped'
  BY <1>1 DEF Shaped, Busy
<1>3. Accepted'
  BY <1>1 DEF Accepted
<1>4. Written'
  <2> SUFFICES ASSUME NEW n \in 1..3, NEW a \in DOMAIN pkg[Order[n]],
                      n < t + 1 /\ Order[n] \in Selected
               PROVE  OnDisk(Order[n], a)'
    BY <1>1 DEF Written, Selected
  <2>1. DOMAIN pkg[Order[n]] = 1..Len(pkg[Order[n]]) /\ Len(pkg[Order[n]]) \in Nat
    BY OrderNames DEF Shaped, IsPackage
  <2>2. n < t \/ (n = t /\ a < k)
    BY <1>1, <2>1 DEF Shaped
  <2>3. OnDisk(Order[n], a)
    BY <1>1, <2>2 DEF Written
  <2>. QED  BY <1>1, <2>3, DiskKept
<1>5. Finished'
  BY <1>1 DEF Finished, exitCodeSuccess
<1>6. Untouched'
  BY <1>1, DiskKept DEF Untouched, BeforeDisk
<1>. QED  BY <1>2, <1>3, <1>4, <1>5, <1>6

\* A run begins, on whatever the one before it left.
LEMMA BeginsFine ==
    ASSUME inv \in Invocations, runs \in 1..MaxRuns, stage = "flags", t = 1,
           pkg = NoPackages, k = 0, code = -1,
           before = [files |-> files, dirs |-> dirs],
           files = [p \in DOMAIN files |-> files[p]],
           DOMAIN files \subseteq Paths, dirs \subseteq Paths,
           DOMAIN files \cap dirs = {}
    PROVE  GenInv
<1>1. \A x \in Targets : pkg[x] = <<>> /\ IsPackage(<<>>)
  BY DEF NoPackages, IsPackage
<1>2. Shaped
  BY <1>1 DEF Shaped, Busy, NoPackages
<1>3. Accepted
  BY DEF Accepted
<1>4. Written
  BY <1>1, OrderNames DEF Written
<1>5. Finished
  BY DEF Finished, exitCodeSuccess
<1>6. before.files = files /\ before.dirs = dirs
  OBVIOUS
<1>7. Untouched
  BY <1>6 DEF Untouched, AsFound
<1>. QED  BY <1>2, <1>3, <1>4, <1>5, <1>7 DEF GenInv

\* jcrpc-gen is run again.
LEMMA RerunStep ==
    ASSUME GenInv, Rerun
    PROVE  GenInv'
<1>1. /\ inv' \in Invocations /\ runs' \in 1..MaxRuns /\ stage' = "flags"
      /\ t' = 1 /\ pkg' = NoPackages /\ k' = 0 /\ code' = -1
      /\ before' = [files |-> files', dirs |-> dirs']
      /\ files' = files /\ dirs' = dirs
  BY RunsAssumption DEF Rerun, disk, GenInv, Shaped
<1>2. /\ files' = [p \in DOMAIN files' |-> files'[p]]
      /\ DOMAIN files' \subseteq Paths /\ dirs' \subseteq Paths
      /\ DOMAIN files' \cap dirs' = {}
  BY <1>1 DEF GenInv, Shaped
<1>3. \A x \in Targets : pkg'[x] = <<>> /\ IsPackage(<<>>)
  BY <1>1 DEF NoPackages, IsPackage
<1>4. Shaped'
  BY <1>1, <1>2, <1>3 DEF Shaped, Busy, NoPackages
<1>5. Accepted'
  BY <1>1 DEF Accepted
<1>6. Written'
  BY <1>1, <1>3, OrderNames DEF Written
<1>7. Finished'
  BY <1>1 DEF Finished, exitCodeSuccess
<1>8. before'.files = files' /\ before'.dirs = dirs'
  BY <1>1
<1>9. Untouched'
  BY <1>1, <1>8 DEF Untouched, AsFound
<1>. QED  BY <1>4, <1>5, <1>6, <1>7, <1>9 DEF GenInv

\* Every step keeps the invariant.
LEMMA GenStep ==
    ASSUME GenInv, [Next]_vars
    PROVE  GenInv'
<1>1. CASE ParseFlags
  <2>1. stage = "flags"
    BY <1>1 DEF ParseFlags
  <2>2. CASE inv.flags = "help" /\ Exit(exitCodeSuccess)
    BY <2>1, <2>2, ExitStep DEF exitCodeSuccess, Busy, BeforeDisk
  <2>3. CASE Exit(exitCodeGeneration)
    BY <2>1, <2>3, ExitStep DEF exitCodeGeneration, Busy, BeforeDisk
  <2>4. CASE Goto("schema")
    BY <2>1, <2>4, GotoStep DEF Busy, BeforeDisk
  <2>. QED  BY <1>1, <2>2, <2>3, <2>4 DEF ParseFlags
<1>2. CASE ParseAndValidate
  <2>1. stage = "schema"
    BY <1>2 DEF ParseAndValidate
  <2>2. CASE Exit(exitCodeIO)
    BY <2>1, <2>2, ExitStep DEF exitCodeIO, Busy, BeforeDisk
  <2>3. CASE Exit(exitCodeValidation)
    BY <2>1, <2>3, ExitStep DEF exitCodeValidation, Busy, BeforeDisk
  <2>4. CASE inv.validateOnly /\ Exit(exitCodeSuccess)
    BY <2>1, <2>4, ExitStep DEF exitCodeSuccess, Busy, BeforeDisk
  <2>5. CASE Goto("select")
    BY <2>1, <2>5, GotoStep DEF Busy, BeforeDisk
  <2>. QED  BY <1>2, <2>2, <2>3, <2>4, <2>5 DEF ParseAndValidate
<1>3. CASE SelectOutputs
  <2>1. stage = "select"
    BY <1>3 DEF SelectOutputs
  <2>2. CASE Exit(exitCodeGeneration)
    BY <2>1, <2>2, ExitStep DEF exitCodeGeneration, Busy, BeforeDisk
  <2>3. CASE Goto("generate")
    BY <2>1, <2>3, GotoStep DEF Busy, BeforeDisk
  <2>. QED  BY <1>3, <2>2, <2>3 DEF SelectOutputs
<1>4. CASE Done
  <2>1. stage = "generate" /\ t = 4 /\ Exit(0)
    BY <1>4, OrderNames DEF Done, GenInv, Shaped, exitCodeSuccess
  <2>. QED  BY <2>1, ExitStep DEF Busy, BeforeDisk
<1>5. CASE Kill
  <2>1. stage \in Busy /\ Goto("killed")
    BY <1>5 DEF Kill, GenInv, Shaped
  <2>. QED  BY <2>1, GotoStep
<1>6. CASE UNCHANGED vars
  <2>1. Shaped'
    BY <1>6 DEF vars, GenInv, Shaped
  <2>2. Accepted'
    BY <1>6 DEF vars, GenInv, Accepted, LinkFree
  <2>3. Written'
    BY <1>6 DEF vars, GenInv, Written, OnDisk, Selected
  <2>4. Finished'
    BY <1>6 DEF vars, GenInv, Finished
  <2>5. Untouched'
    BY <1>6 DEF vars, GenInv, Untouched, AsFound
  <2>. QED  BY <2>1, <2>2, <2>3, <2>4, <2>5 DEF GenInv
<1>7. CASE NextTarget \/ Generate \/ CheckPackage \/ LstatFails
  BY <1>7, NextTargetStep, GenerateStep, CheckPackageStep, LstatFailsStep
<1>8. CASE Mkdir \/ MkdirFails \/ MkdirDone
  BY <1>8, MkdirStep, MkdirDoneStep
<1>9. CASE Open \/ Write \/ WriteFails \/ TargetDone \/ Rerun
  BY <1>9, OpenStep, WriteStep, WriteFailsStep, TargetDoneStep, RerunStep
<1>. QED  BY <1>1, <1>2, <1>3, <1>4, <1>5, <1>6, <1>7, <1>8, <1>9 DEF Next

\* The invariant holds in every state of every run.
LEMMA GenAlways == Spec => []GenInv
<1>1. Init => GenInv
  <2> SUFFICES ASSUME Init PROVE GenInv
    OBVIOUS
  <2>1. PICK d \in Disks : files = d.files /\ dirs = d.dirs
    BY DEF Init
  <2>2. /\ files = [p \in DOMAIN files |-> files[p]]
        /\ DOMAIN files \subseteq Paths /\ dirs \subseteq Paths
        /\ DOMAIN files \cap dirs = {}
    BY <2>1, DisksAssumption
  <2>3. 1 \in 1..MaxRuns
    BY RunsAssumption
  <2>. QED  BY <2>2, <2>3, BeginsFine DEF Init
<1>2. GenInv /\ [Next]_vars => GenInv'
  BY GenStep
<1>. QED  BY <1>1, <1>2, PTL DEF Spec

----------------------------------------------------------------------------
\* The results.

\* When a run that generates ends with exit code 0, every file of every
\* selected target is on disk with the plugin's data, whatever runs that failed
\* or were killed left.
THEOREM SuccessWritesAll == Spec => []SuccessIsComplete
<1>1. GenInv => SuccessIsComplete
  <2> SUFFICES ASSUME GenInv PROVE SuccessIsComplete
    OBVIOUS
  <2>1. TypeOK
    BY OrderNames DEF GenInv, Shaped, Busy, TypeOK
  <2>2. ASSUME code = exitCodeSuccess, inv.flags = "fine", ~inv.validateOnly,
               NEW x \in Selected, NEW a \in DOMAIN pkg[x]
        PROVE  OnDisk(x, a)
    <3>1. t = 4
      BY <2>2 DEF GenInv, Finished
    <3>2. x \in Targets
      BY InvocationsAssumption DEF GenInv, Shaped, Selected
    <3>3. PICK n \in 1..3 : x = Order[n]
      BY <3>2, OrderNames
    <3>. QED  BY <3>1, <3>3 DEF GenInv, Written
  <2>. QED  BY <2>1, <2>2 DEF SuccessIsComplete, OnDisk
<1>. QED  BY <1>1, GenAlways, PTL

\* A run refused for its flags, its schema or a plugin's output has left every
\* target it did not complete as it found it.
THEOREM RefusalTouchesNothing == Spec => []RefusalLeavesTarget
<1>1. GenInv => RefusalLeavesTarget
  <2> SUFFICES ASSUME GenInv, code \in {1, 2}, NEW n \in t..3
               PROVE  AsFound(Order[n])
    BY OrderNames DEF RefusalLeavesTarget, AsFound, exitCodeValidation,
                      exitCodeGeneration
  <2>1. n \in 1..3 /\ (n > t \/ n = t)
    BY DEF GenInv, Shaped
  <2>. QED  BY <2>1 DEF GenInv, Untouched
<1>. QED  BY <1>1, GenAlways, PTL

\* No step creates a file or a directory, or changes a file, below a symbolic
\* link.
THEOREM LinksNotFollowed == Spec => NeverThroughLink
<1> DEFINE Created == {p \in DOMAIN files' \cup dirs' :
              \/ p \notin DOMAIN files \cup dirs
              \/ p \in DOMAIN files /\ files'[p] # files[p]}
<1>1. ASSUME GenInv, Next, NEW p \in Created
      PROVE  OnPath(p) \cap links = {}
  <2>1. CASE Mkdir \/ MkdirFails
    <3>1. stage = "mkdir" /\ k >= 1 /\ files' = files
      BY <2>1 DEF Mkdir, MkdirFails
    <3>2. k \in DOMAIN Package
      <4>1. t \in 1..3 /\ Package = pkg[Order[t]]
        BY <1>1, <3>1 DEF GenInv, Shaped, Package, Target
      <4>. QED  BY <1>1, <3>1, <4>1, OrderNames
                DEF GenInv, Accepted, Shaped, IsPackage
    <3>3. dirs' \subseteq dirs \cup Above(Path(Package[k]))
      <4>1. CASE Mkdir
        BY <4>1 DEF Mkdir
      <4>2. CASE MkdirFails
        BY <4>2 DEF MkdirFails
      <4>. QED  BY <2>1, <4>1, <4>2
    <3>4. p \in OnPath(Path(Package[k]))
      BY <1>1, <3>1, <3>3 DEF Above
    <3>. QED  BY <1>1, <3>1, <3>2, <3>4, MadeDirs
  <2>2. CASE Open \/ Write
    <3>1. stage \in {"open", "write"} /\ dirs' = dirs
      BY <2>2 DEF Open, Write
    <3>2. k \in DOMAIN Package
      <4>1. t \in 1..3 /\ Package = pkg[Order[t]]
        BY <1>1, <3>1 DEF GenInv, Shaped, Package, Target
      <4>. QED  BY <1>1, <2>2, <3>1, <4>1, OrderNames
                DEF GenInv, Accepted, Shaped, IsPackage, Open, Write
    <3>3. p = Path(Package[k])
      <4>1. CASE Open
        BY <1>1, <3>1, <4>1 DEF Open
      <4>2. CASE Write
        BY <1>1, <3>1, <4>2 DEF Write
      <4>. QED  BY <2>2, <4>1, <4>2
    <3>4. Path(Package[k]) \in Paths /\ p \in OnPath(Path(Package[k]))
      BY <1>1, <3>1, <3>2, <3>3, MadeDirs, OnOwnWay
    <3>. QED  BY <1>1, <3>1, <3>2, <3>4, MadeDirs
  <2>3. CASE files' = files /\ dirs' = dirs
    BY <1>1, <2>3
  <2>4. CASE CheckPackage
    BY <2>3, <2>4 DEF CheckPackage, Exit, disk
  <2>5. CASE \/ ParseFlags \/ ParseAndValidate \/ SelectOutputs \/ NextTarget
             \/ Done \/ LstatFails \/ MkdirDone \/ WriteFails \/ TargetDone
             \/ Kill \/ Rerun
    BY <2>3, <2>5 DEF ParseFlags, ParseAndValidate, SelectOutputs, NextTarget,
         Done, LstatFails, MkdirDone, WriteFails, TargetDone, Kill, Rerun,
         Exit, Goto, disk
  <2>6. CASE Generate
    BY <2>3, <2>6 DEF Generate, Exit, disk
  <2>. QED  BY <1>1, <2>1, <2>2, <2>4, <2>5, <2>6 DEF Next
<1>2. GenInv /\ [Next]_vars =>
        [\A p \in (DOMAIN files' \cup dirs') :
           (p \notin DOMAIN files \cup dirs
              \/ (p \in DOMAIN files /\ files'[p] # files[p]))
             => OnPath(p) \cap links = {}]_vars
  BY <1>1
<1>. QED  BY <1>2, GenAlways, PTL DEF Spec, NeverThroughLink

=============================================================================
