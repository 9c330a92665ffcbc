----------------------------- MODULE MCRelease -----------------------------
(* Repositories, releases, catalogs and matrices for the release tools.    *)
EXTENDS Compat, Toolchain, Mutants, Parity

Targets == {"javacard", "kotlin", "swift"}

\* Tag objects: each target's release, the release before it, the release's
\* commit tagged again, and the release of a key nobody trusts.
Commits == [old |-> 1, new |-> 2, retagged |-> 2, foreign |-> 3]
Trusted == {"old", "new"}
Plain == {"v1", "v2", "v3"}

ReleasePin == [tag |-> "v2", version |-> "v2", object |-> "new", commit |-> 2]
OldPin == [ReleasePin EXCEPT !.object = "old", !.commit = 1]
ForeignPin == [tag |-> "v3", version |-> "v3", object |-> "foreign", commit |-> 3]
SplitPin == [ReleasePin EXCEPT !.version = "v1"]
PseudoPin == [ReleasePin EXCEPT !.tag = "v2-rc", !.version = "v2-rc"]

Server == [t \in Targets |->
             [g \in {"v1", "v2", "v2-rc", "v3"} |->
                IF g = "v1" THEN "old"
                ELSE IF g = "v3" THEN "foreign"
                ELSE IF g = "v2" THEN "new" ELSE None]]

RepoOf(pin) ==
    [manifest |-> <<[target |-> "javacard", pin |-> ReleasePin],
                    [target |-> "kotlin", pin |-> pin],
                    [target |-> "swift", pin |-> ReleasePin]>>,
     receipts |-> [t \in Targets |-> IF t = "kotlin" THEN pin ELSE ReleasePin],
     modules |-> [t \in Targets |->
                    [version |-> IF t = "kotlin" THEN pin.version ELSE "v2",
                     replaced |-> FALSE]],
     rest |-> TRUE]

Released2 == RepoOf(ReleasePin)
Listed(t) == [target |-> t, pin |-> ReleasePin]

\* The release, and repositories that are wrong in one place each.
FacadeRepos ==
    {Released2,
     RepoOf(OldPin), RepoOf(ForeignPin), RepoOf(SplitPin), RepoOf(PseudoPin),
     [Released2 EXCEPT !.rest = FALSE],
     [Released2 EXCEPT !.manifest[3] = Listed("kotlin")],
     [Released2 EXCEPT !.manifest[3] = Listed("other")],
     [Released2 EXCEPT !.manifest = SubSeq(@, 1, 2)],
     [Released2 EXCEPT !.receipts["swift"] = None],
     [Released2 EXCEPT !.receipts["kotlin"] = OldPin],
     [Released2 EXCEPT !.modules["swift"].version = "v1"],
     [Released2 EXCEPT !.modules["javacard"].replaced = TRUE]}

Examples == <<"counter", "store">>
MoreExamples == <<"counter", "wallet", "store">>
WithStreams == {"store"}

PublicToolchain == <<"jcardsim", "ant-javacard", "sdk", "ant">>
Unpack == <<"sdk", "ant">>

----------------------------------------------------------------------------
(* A small matrix for jcrpc-parity, a small catalog for jcrpc-mutants.     *)

Schemas == <<"counter", "stream">>
TargetSelections == <<"java", "all">>
StreamMemory == <<Omitted, "clear_on_reset">>
Coordinates == <<Omitted>>
NoGeneration == <<"--validate-only", "--help">>

Plants ==
    <<[name |-> "byte", test |-> "TestA", assertion |-> "drift"],
      [name |-> "extra", test |-> "TestB", assertion |-> "drift"],
      [name |-> "missing", test |-> "TestA/sub", assertion |-> "drift"]>>

\* The named test, another one, the package only; with the assertion, without
\* it, skipped, cut short.
GoTest ==
    [code : {0}, events : {{Event("pass", "TestA", "")}, {Event("pass", "TestB", "")},
                           {Event("pass", "TestA/sub", "")}, {Event("pass", "", "")},
                           {Event("skip", "TestA", ""), Event("pass", "", "")}}]
    \cup {[code |-> 2, events |-> {Event("fail", "TestA", ""), Event("output", "TestA", "drift")}]}
    \cup
    [code : {1},
     events : {{Event("fail", "TestA", "")},
               {Event("fail", "TestA", ""), Event("output", "TestA", "drift")},
               {Event("fail", "TestB", ""), Event("output", "TestA", "drift")},
               {Event("fail", "TestB", ""), Event("output", "TestB", "drift")},
               {Event("fail", "TestA/sub", ""), Event("output", "TestA/sub", "drift")},
               {Event("fail", "TestA", ""), Event("output", "TestA", "drift"), Garbage}}]

----------------------------------------------------------------------------
(* The tools share nothing, and each has a directory of its own: what one  *)
(* does is invisible to the others, so a behaviour has invocations of one. *)

Invoked == [compat |-> runs + edits, toolchain |-> tools, mutants |-> harness,
            parity |-> parityRuns + (IF candidate = Equal THEN 0 ELSE 1)]
Alone(tool) == \A other \in DOMAIN Invoked \ {tool} : Invoked[other] = 0

ReleaseInit ==
    /\ Init /\ ToolchainInit /\ MutantsInit /\ ParityInit
    /\ candidate = Equal \/ (repo = Released2 /\ \A a \in Names : file[a] = "absent")

ReleaseNext ==
    \/ Alone("compat") /\ Next /\ UNCHANGED <<toolVars, mutantsVars, parityVars>>
    \/ /\ Alone("toolchain") /\ repo = Released2
       /\ ToolchainNext /\ UNCHANGED <<vars, mutantsVars, parityVars>>
    \/ /\ Alone("mutants") /\ repo = Released2
       /\ MutantsNext /\ UNCHANGED <<vars, toolVars, parityVars>>
    \/ /\ Alone("parity") /\ repo = Released2
       /\ ParityNext /\ UNCHANGED <<vars, toolVars, mutantsVars>>

ReleaseSpec ==
    ReleaseInit /\ [][ReleaseNext]_<<vars, toolVars, mutantsVars, parityVars>>
=============================================================================
