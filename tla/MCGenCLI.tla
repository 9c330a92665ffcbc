------------------------------ MODULE MCGenCLI ------------------------------
(* Invocations, packages and disks for jcrpc-gen.                          *)
EXTENDS GenCLI

SomeNames == Targets \cup {"build", "src", "Api", "up"}

File(name, data) == [name |-> name, data |-> data, local |-> TRUE]

Good == <<File(<<"build">>, "d1"), File(<<"src", "Api">>, "d2")>>
Duplicate == <<File(<<"build">>, "d1"), File(<<"build">>, "d2")>>
Conflict == <<File(<<"src", "Api">>, "d2"), File(<<"src">>, "d1")>>
Nil == <<File(<<"build">>, "d1"), File(<<"src", "Api">>, NilData)>>
Escaping == <<File(<<"build">>, "d1"),
              [name |-> <<"up">>, data |-> "d2", local |-> FALSE]>>

JavaThenKotlin ==
    [x \in Targets |->
       IF x = "java" THEN {Good, Conflict, GenError}
       ELSE IF x = "kotlin" THEN {Good, Duplicate, Escaping, Nil, <<>>}
       ELSE {Good}]

Generating(named, all, schema) ==
    [flags |-> "fine", schema |-> schema, validateOnly |-> FALSE,
     simulatorOK |-> TRUE, named |-> named, all |-> all]

SomeInvocations ==
    {Generating({"java", "kotlin"}, FALSE, "plain"),
     Generating({"kotlin"}, FALSE, "streams"),
     Generating({}, TRUE, "streams"),
     Generating({}, TRUE, "plain"),
     Generating({"java"}, FALSE, "invalid"),
     Generating({"java"}, FALSE, "unreadable"),
     Generating({}, FALSE, "plain"),
     [Generating({"java"}, FALSE, "plain") EXCEPT !.validateOnly = TRUE],
     [Generating({"java"}, FALSE, "plain") EXCEPT !.simulatorOK = FALSE],
     [Generating({"java"}, FALSE, "plain") EXCEPT !.flags = "help"],
     [Generating({"java"}, FALSE, "plain") EXCEPT !.flags = "wrong"]}

NoFiles == [p \in {} |-> Torn]
OldFile(p) == [q \in {p} |-> "old"]

\* Nothing, an older package, a file where a directory is needed, a directory
\* where a file is needed, and links at the root and below it.
SomeDisks ==
    {[files |-> NoFiles, dirs |-> {}, links |-> {}],
     [files |-> OldFile(<<"kotlin", "build">>), dirs |-> {<<"kotlin">>},
      links |-> {}],
     [files |-> OldFile(<<"java", "src">>), dirs |-> {<<"java">>}, links |-> {}],
     [files |-> NoFiles, dirs |-> {<<"java">>, <<"java", "build">>},
      links |-> {}],
     [files |-> NoFiles, dirs |-> {}, links |-> {<<"java">>}],
     [files |-> NoFiles, dirs |-> {<<"kotlin">>},
      links |-> {<<"kotlin", "src">>}]}

=============================================================================
