------------------------------- MODULE Parity -------------------------------
(***************************************************************************)
(* jcrpc-parity: a baseline and a candidate CLI run on every case of       *)
(* a matrix (inputs, workspace policies, target selectors, stream memory,  *)
(* simulator coordinate), and exit codes, output and file digests are      *)
(* compared case by case until the first difference.  --plant-byte-change  *)
(* flips one byte of the candidate's output as a negative control.  The    *)
(* JSON report is written at the end, with the error if there is one;      *)
(* a killed invocation leaves the report of an earlier one.                *)
(*                                                                         *)
(* A CLI is a function from cases to results.  The candidate d is the      *)
(* baseline with one difference, at one case, or none; "both admit" is     *)
(* a fault of both: an invalid policy generates code.  Of file contents    *)
(* only sameness matters, and the lowest bit of the first byte.            *)
(***************************************************************************)
EXTENDS Naturals, Sequences

CONSTANTS
    Inputs,      \* the input schemas, sorted
    Selectors,   \* the target selections
    Memories,    \* stream-memory settings, the omitted one included
    Sims,        \* simulator coordinates, the omitted one included
    Extra,       \* the invocations without a policy that generate nothing
    NoReport,
    MaxParity, MaxParityKills   \* bounds

Range1(s) == {s[k] : k \in DOMAIN s}

\* Selections generate something, the other invocations nothing.
ASSUME ParityAssumption ==
    /\ \A s \in {Inputs, Selectors, Memories, Sims, Extra} :
          Len(s) \in Nat \ {0} /\ DOMAIN s = 1..Len(s)
    /\ Range1(Selectors) \cap Range1(Extra) = {}
    /\ MaxParity \in Nat /\ MaxParityKills \in Nat

Omitted == "omitted"
Policies == <<Omitted, "transient", "persistent", "ram", "Persistent">>
Invalid == {"ram", "Persistent"}
Kinds == {"exit", "flip", "content", "missing", "extra", "link", "both admit"}

\* The candidate that differs nowhere.
Equal == [where |-> <<>>, kind |-> "none"]

VARIABLES
    candidate,   \* Equal, or where and how the candidate differs
    phase,       \* "idle", "case", "end" or "report"
    at,          \* the position: <<input, policy, case>>
    planted,     \* this invocation was asked to plant a byte
    plant,       \* and has not done so yet
    error,       \* what verify() returns
    verdict,     \* exit code of the last invocation; 3 while it runs
    report,      \* the report on disk
    parityRuns, parityKills

parityVars == <<candidate, phase, at, planted, plant, error, verdict, report,
                parityRuns, parityKills>>

----------------------------------------------------------------------------
(* The matrix.                                                             *)

Case(policy, s, m, c) == [policy |-> policy, selector |-> s, memory |-> m, sim |-> c]

CasesWith(policy, memories) ==
    LET cells == Len(memories) * Len(Sims)
        extra == [k \in 1..Len(Extra) |-> Case(Omitted, Extra[k], Omitted, Omitted)]
        each == [k \in 1..Len(Selectors) |-> Case(policy, Selectors[k], Omitted, Omitted)]
        full == [k \in 1..(Len(Selectors) * cells) |->
                   Case(policy, Selectors[((k - 1) \div cells) + 1],
                        memories[(((k - 1) \div Len(Sims)) % Len(memories)) + 1],
                        Sims[((k - 1) % Len(Sims)) + 1])]
    IN  IF policy = Omitted THEN extra \o full
        ELSE IF policy \in Invalid THEN each ELSE full

\* A faulty variant: the last stream-memory setting is left out.
CasesShort(policy) == CasesWith(policy, SubSeq(Memories, 1, Len(Memories) - 1))

\* The cases of one input under one policy, in the order of verify().
Cases(policy) == CasesWith(policy, Memories)

\* Every case of every input, as the specification of parity lists them.
Matrix ==
    Range1(Inputs) \X
      ({Case(Omitted, e, Omitted, Omitted) : e \in Range1(Extra)}
        \cup {Case(p, s, Omitted, Omitted) : p \in Invalid, s \in Range1(Selectors)}
        \cup {Case(p, s, m, c) : p \in Range1(Policies) \ Invalid, s \in Range1(Selectors),
                                 m \in Range1(Memories), c \in Range1(Sims)})

----------------------------------------------------------------------------
(* The two programs.                                                       *)

\* An invocation: its exit code, whether its diagnostics name the field
\* applet.stream_workspace, and a digest for each file it wrote.
Result(code, names, files) == [exit |-> code, names |-> names, files |-> files]
NoFiles == [f \in {} |-> 0]
Wrote == [f \in {"a", "b"} |-> 0]

Baseline(d, w) ==
    IF w[2].policy \in Invalid /\ d # [where |-> w, kind |-> "both admit"]
    THEN Result(1, TRUE, NoFiles)
    ELSE Result(0, FALSE, IF w[2].selector \in Range1(Extra) THEN NoFiles ELSE Wrote)

\* Digest 1 is the one after the lowest bit of the first byte changed, 2 and 3
\* those of any other change.
Candidate(d, w) ==
    LET r == Baseline(d, w)
        has(kind) == d = [where |-> w, kind |-> kind]
    IN  IF has("exit") THEN [r EXCEPT !.exit = 1 - @]
        ELSE IF has("extra") THEN [r EXCEPT !.files = [f \in DOMAIN @ \cup {"c"} |-> 0]]
        ELSE IF r.files = NoFiles THEN r
        ELSE IF has("flip") THEN [r EXCEPT !.files["a"] = 1]
        ELSE IF has("content") THEN [r EXCEPT !.files["b"] = 2]
        ELSE IF has("missing") THEN [r EXCEPT !.files = [f \in {"a"} |-> 0]]
        ELSE r

\* A faulty variant: the inventory is not taken again after the plant.
FlipUnread(files) == files

\* The plant: the first byte of the first file, in the order of their names.
Flip(files) ==
    LET first == IF "a" \in DOMAIN files THEN "a" ELSE "c"
    IN  [files EXCEPT ![first] = IF @ % 2 = 0 THEN @ + 1 ELSE @ - 1]

\* compareFiles
CompareFiles(old, new) ==
    \A k \in DOMAIN old \cup DOMAIN new :
        k \in DOMAIN old /\ k \in DOMAIN new /\ old[k] = new[k]

Refused(r) == r.exit = 1 /\ r.files = NoFiles /\ r.names

----------------------------------------------------------------------------

\* Its case of the matrix shows the candidate's difference, or both admit an
\* invalid policy.
Drifts(d) ==
    \/ Baseline(d, d.where) # Candidate(d, d.where)
    \/ d.kind = "link"
    \/ d.where[2].policy \in Invalid /\ ~Refused(Baseline(d, d.where))

Candidates == {Equal} \cup {d \in [where : Matrix, kind : Kinds] : Drifts(d)}

ParityInit ==
    /\ candidate \in Candidates
    /\ phase = "idle" /\ at = <<1, 1, 1>> /\ planted = FALSE /\ plant = FALSE
    /\ error = "none" /\ verdict = 1 /\ report = NoReport
    /\ parityRuns = 0 /\ parityKills = 0

\* Without its four arguments the command exits 2 and touches nothing.
ParityStart ==
    /\ phase = "idle" /\ parityRuns < MaxParity
    /\ parityRuns' = parityRuns + 1
    /\ \/ /\ planted' \in BOOLEAN /\ plant' = planted'
          /\ phase' = "case" /\ at' = <<1, 1, 1>>
          /\ error' = "none" /\ verdict' = 3
       \/ verdict' = 2 /\ UNCHANGED <<phase, at, planted, plant, error>>
    /\ UNCHANGED <<candidate, report, parityKills>>

\* The case after p, if there is one.
After(p) ==
    IF p[3] < Len(Cases(Policies[p[2]])) THEN <<p[1], p[2], p[3] + 1>>
    ELSE IF p[2] < Len(Policies) THEN <<p[1], p[2] + 1, 1>>
    ELSE <<p[1] + 1, 1, 1>>

\* The case at a place of the matrix.
CaseAt(p) == <<Inputs[p[1]], Cases(Policies[p[2]])[p[3]]>>

\* What one case reveals of the candidate d, with a byte planted in its output
\* or not.  "link" is output inventory() does not accept.
Finding(d, w, flips) ==
    LET a == Baseline(d, w)
        b == Candidate(d, w)
        files == IF flips THEN Flip(b.files) ELSE b.files
    IN  IF d = [where |-> w, kind |-> "link"] THEN "invoke"
        ELSE IF w[2].policy \in Invalid /\ ~(Refused(a) /\ Refused(b))
             THEN "policy admitted"
        ELSE IF a.exit # b.exit \/ a.names # b.names THEN "behavior drift"
        ELSE IF ~CompareFiles(a.files, files) THEN "output drift" ELSE "none"

\* One case: both programs run into directories of their own, an invalid
\* policy must be refused by both, the byte is planted once there is one, and
\* the results are compared.
Compare ==
    /\ phase = "case"
    /\ LET w == CaseAt(at)
           flips == plant /\ Candidate(candidate, w).files # NoFiles
       IN  /\ error' = Finding(candidate, w, flips)
           /\ plant' = (plant /\ ~flips)
    /\ at' = After(at)
    /\ phase' = IF error' # "none" THEN "report"
                ELSE IF at'[1] > Len(Inputs) THEN "end" ELSE "case"
    /\ UNCHANGED <<candidate, planted, verdict, report, parityRuns, parityKills>>

\* A read, a write or a launch that fails, an input without exactly one
\* applet table, or an empty file to plant in.
InvokeFail ==
    /\ phase = "case"
    /\ error' = "invoke" /\ phase' = "report"
    /\ UNCHANGED <<candidate, at, planted, plant, verdict, report, parityRuns,
                   parityKills>>

\* A plant that met no file is an error.
MatrixEnd ==
    /\ phase = "end" /\ phase' = "report"
    /\ error' = IF plant THEN "not applied" ELSE "none"
    /\ UNCHANGED <<candidate, at, planted, plant, verdict, report, parityRuns,
                   parityKills>>

\* The end of run(): the report is written whatever verify() returned; a
\* failed write leaves the old report or one that cannot be read.
WriteReport ==
    /\ phase = "report" /\ phase' = "idle"
    /\ \/ /\ report' = [of |-> candidate, planted |-> planted, error |-> error]
          /\ verdict' = IF error = "none" THEN 0 ELSE 1
       \/ verdict' = 1 /\ report' \in {report, NoReport}
    /\ UNCHANGED <<candidate, at, planted, plant, error, parityRuns, parityKills>>

ParityKill ==
    /\ phase # "idle" /\ parityKills < MaxParityKills
    /\ parityKills' = parityKills + 1
    /\ phase' = "idle" /\ verdict' = 1
    /\ report' \in {report} \cup (IF phase = "report" THEN {NoReport} ELSE {})
    /\ UNCHANGED <<candidate, at, planted, plant, error, parityRuns>>

\* Between two invocations the candidate is built again, without its fault.
Rebuild ==
    /\ phase = "idle" /\ candidate # Equal
    /\ candidate' = Equal /\ verdict' = 1
    /\ UNCHANGED <<phase, at, planted, plant, error, report, parityRuns, parityKills>>

ParityNext ==
    \/ ParityStart \/ Compare \/ InvokeFail \/ MatrixEnd \/ WriteReport
    \/ ParityKill \/ Rebuild

ParitySpec == ParityInit /\ [][ParityNext]_parityVars

----------------------------------------------------------------------------
(* Properties.                                                             *)

\* A report without an error vouches for the candidate whose digest it
\* records, on every case of the matrix, whatever kills, failures and
\* rebuilds came before and after it was written.  Excepted is the report of
\* an invocation that planted its byte: the plant cancels a difference that is
\* this very byte (the report file does not record that there was a plant).
\* And exit code 0 comes with the report of this very candidate and invocation.
ReportVouches ==
    /\ (report # NoReport /\ report.error = "none" /\ ~report.planted)
          => report.of = Equal
    /\ verdict = 0 => report = [of |-> candidate, planted |-> planted, error |-> "none"]

\* "The intentional byte-change control must exit 1 with output drift": on an
\* equal candidate the plant never goes unnoticed, nor is it taken for
\* a difference in behaviour; only a failure of the surroundings can hide it.
PlantNoticed ==
    /\ planted /\ candidate = Equal => verdict # 0
    /\ report # NoReport /\ report.planted /\ report.of = Equal =>
          report.error \in {"output drift", "invoke"}

=============================================================================
