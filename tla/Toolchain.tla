------------------------------ MODULE Toolchain ------------------------------
(***************************************************************************)
(* jcrpc-compat --mode toolchain: four pinned artifacts are downloaded to  *)
(* a temporary file, compared with their SHA-256 and renamed into place;   *)
(* then two of them are unpacked by tar over whatever their directories    *)
(* hold.  An invocation may fail at each step, or be killed between any    *)
(* two, and is then simply run again on what it left behind.               *)
(*                                                                         *)
(* Contents are named by where they come from: "pinned" are the bytes of   *)
(* the digest, "older" those an earlier release of the tool verified and   *)
(* left in the same root, "drift" anything else a server may send.         *)
(***************************************************************************)
EXTENDS Integers, Sequences

CONSTANTS
    Artifacts,     \* publicToolchain, in its order
    Archives,      \* the artifacts to unpack, in order
    Pieces,        \* files an archive holds
    MaxTools,      \* bound on invocations
    MaxToolKills   \* bound on killed invocations

ASSUME ToolchainAssumption ==
    /\ Artifacts \in Seq(STRING) /\ Archives \in Seq(STRING)
    /\ Artifacts # <<>> /\ Archives # <<>>
    /\ \A a \in DOMAIN Archives : \E b \in DOMAIN Artifacts :
          Archives[a] = Artifacts[b]
    /\ \A a, b \in DOMAIN Archives : Archives[a] = Archives[b] => a = b
    /\ Pieces \in Nat \ {0}
    /\ MaxTools \in Nat /\ MaxToolKills \in Nat

Contents == {"absent", "older", "drift", "pinned"}
Names == {Artifacts[a] : a \in DOMAIN Artifacts}
Unpacked == {Archives[a] : a \in DOMAIN Archives}

VARIABLES
    step,       \* "idle", or what the running invocation does next
    item,       \* the artifact or archive it is at
    piece,      \* the file tar is at
    temp,       \* what the temporary file of the download holds
    stray,      \* temporary files left behind
    file,       \* what is under each final name
    tree,       \* what is unpacked of each archive
    status,     \* exit code of the last invocation; -1 while it runs
    tools,      \* invocations so far
    toolKills   \* invocations killed

toolVars == <<step, item, piece, temp, stray, file, tree, status, tools, toolKills>>

ToolchainInit ==
    /\ step = "idle" /\ item = 1 /\ piece = 1
    /\ temp = "absent" /\ stray = 0
    /\ \E c \in {"absent", "older"} :
          /\ file = [a \in Names |-> c]
          /\ tree = [d \in Unpacked |-> [p \in 1..Pieces |-> c]]
    /\ status = 1 /\ tools = 0 /\ toolKills = 0

ToolStart ==
    /\ step = "idle" /\ tools < MaxTools
    /\ step' = "get" /\ item' = 1 /\ status' = -1
    /\ tools' = tools + 1
    /\ UNCHANGED <<piece, temp, stray, file, tree, toolKills>>

\* An error ends the invocation; the deferred Remove takes the temporary file.
ToolFail ==
    /\ step' = "idle" /\ status' = 1 /\ temp' = "absent"
    /\ UNCHANGED <<item, piece, stray, file, tree, tools, toolKills>>

\* The request, its status, and CreateTemp.
Get ==
    /\ step = "get"
    /\ \/ ToolFail
       \/ /\ step' = "copy" /\ temp' = "drift"
          /\ UNCHANGED <<item, piece, stray, file, tree, status, tools, toolKills>>

\* io.Copy: complete or cut short, of the pinned bytes or of others.
Copy ==
    /\ step = "copy"
    /\ \/ ToolFail
       \/ /\ temp' \in {"drift", "pinned"}
          /\ step' = "install"
          /\ UNCHANGED <<item, piece, stray, file, tree, status, tools, toolKills>>

\* What follows an artifact in place: the next one, or the first archive.
AfterInstall ==
    IF item < Len(Artifacts)
    THEN step' = "get" /\ item' = item + 1 /\ UNCHANGED piece
    ELSE step' = "open" /\ item' = 1 /\ piece' = 1

\* A faulty variant: renamed into place, then compared with the digest.
InstallThenCheck ==
    /\ step = "install"
    /\ file' = [file EXCEPT ![Artifacts[item]] = temp]
    /\ temp' = "absent"
    /\ IF temp = "pinned" THEN AfterInstall /\ UNCHANGED status
       ELSE step' = "idle" /\ status' = 1 /\ UNCHANGED <<item, piece>>
    /\ UNCHANGED <<stray, tree, tools, toolKills>>

\* The digest comparison and the rename.
Install ==
    /\ step = "install"
    /\ \/ ToolFail
       \/ /\ temp = "pinned"
          /\ file' = [file EXCEPT ![Artifacts[item]] = temp]
          /\ temp' = "absent"
          /\ AfterInstall
          /\ UNCHANGED <<stray, tree, status, tools, toolKills>>

\* tar removes the file it is about to write; nothing is left of it if the
\* process dies before the file is written.
TarOpen ==
    /\ step = "open"
    /\ \/ ToolFail
       \/ /\ tree' = [tree EXCEPT ![Archives[item]][piece] = "absent"]
          /\ step' = "write"
          /\ UNCHANGED <<item, piece, temp, stray, file, status, tools, toolKills>>

\* A faulty variant: an archive counts as unpacked with its first file.
TarWriteFirst ==
    /\ step = "write"
    /\ tree' = [tree EXCEPT ![Archives[item]][piece] = file[Archives[item]]]
    /\ piece' = 1
    /\ IF item < Len(Archives)
       THEN step' = "open" /\ item' = item + 1 /\ UNCHANGED status
       ELSE step' = "idle" /\ status' = 0 /\ UNCHANGED item
    /\ UNCHANGED <<temp, stray, file, tools, toolKills>>

\* The file is written from the archive; after the last one of the last
\* archive toolchain() returns nil.
TarWrite ==
    /\ step = "write"
    /\ tree' = [tree EXCEPT ![Archives[item]][piece] = file[Archives[item]]]
    /\ IF piece < Pieces
       THEN step' = "open" /\ piece' = piece + 1 /\ UNCHANGED <<item, status>>
       ELSE /\ piece' = 1
            /\ IF item < Len(Archives)
               THEN step' = "open" /\ item' = item + 1 /\ UNCHANGED status
               ELSE step' = "idle" /\ status' = 0 /\ UNCHANGED item
    /\ UNCHANGED <<temp, stray, file, tools, toolKills>>

\* The process is killed: no deferred Remove runs.
ToolKill ==
    /\ step # "idle" /\ toolKills < MaxToolKills
    /\ step' = "idle" /\ status' = 1
    /\ stray' = IF temp = "absent" THEN stray ELSE stray + 1
    /\ temp' = "absent"
    /\ toolKills' = toolKills + 1
    /\ UNCHANGED <<item, piece, file, tree, tools>>

ToolchainNext ==
    \/ ToolStart \/ Get \/ Copy \/ Install \/ TarOpen \/ TarWrite \/ ToolKill

ToolchainSpec == ToolchainInit /\ [][ToolchainNext]_toolVars

----------------------------------------------------------------------------
(* Properties.                                                             *)

\* Steps and contents are the ones of toolchain() and fetchArtifact().
ToolchainTypeOK ==
    /\ step \in {"idle", "get", "copy", "install", "open", "write"}
    /\ item \in Nat /\ piece \in 1..Pieces
    /\ temp \in Contents /\ stray \in Nat
    /\ file \in [Names -> Contents]
    /\ tree \in [Unpacked -> [1..Pieces -> Contents]]
    /\ status \in {-1, 0, 1}
    /\ tools \in Nat /\ toolKills \in Nat

\* "Checks full SHA-256 digests before use": through every failure, kill and
\* rerun, nothing under a final name and nothing unpacked comes from bytes
\* whose digest was not compared.
NothingUnverified ==
    /\ \A a \in Names : file[a] # "drift"
    /\ \A d \in Unpacked : \A p \in 1..Pieces : tree[d][p] # "drift"

\* Exit code 0 means the whole pinned toolchain is there, also when earlier
\* invocations died in the middle of unpacking or left an older release.
ToolchainComplete ==
    status = 0 =>
        /\ \A a \in Names : file[a] = "pinned"
        /\ \A d \in Unpacked : \A p \in 1..Pieces : tree[d][p] = "pinned"

\* A failed download takes its temporary file away; only a killed invocation
\* leaves one, so they do not pile up over failed reruns.
StrayOnlyFromKills == stray <= toolKills
==============================================================================
