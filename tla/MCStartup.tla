----------------------------- MODULE MCStartup -----------------------------
(* Command lines, classes, registrations and files for the bridge's start. *)
EXTENDS Startup

ClassTable == [Missing |-> "absent", BadStaticInit |-> "unlinkable",
               NotAProvider |-> "foreign",
               NoNoArgCtor |-> "noctor", Abstract |-> "abstract",
               ThrowingCtor |-> "ctorthrows", Throwing |-> "createthrows",
               NullCard |-> "createsnull", Personalized |-> "good",
               Other |-> "good"]

FileTable == [counter |-> <<"installable">>,
              gapped |-> <<"installable", "gap", "noclass">>,
              unknownclass |-> <<"installable", "noclass">>,
              oddhex |-> <<"badhex">>]

NoServices == {<<>>}
Services == {<<>>, <<"Personalized">>, <<"Throwing">>,
             <<"Personalized", "Other">>, <<"Personalized", "Missing">>}

Pairs ==
    {<<"--host", "localhost">>, <<"--port", "9025">>, <<"--port", "nine">>}
      \cup {<<"--config", f>> : f \in DOMAIN FileTable \cup {"nofile"}}
      \cup {<<"--card-provider", c>> : c \in DOMAIN ClassTable}
      \cup {<<"--card-scope", w>> :
              w \in {"connection", "shared", "SHARED", "global"}}

\* Every command line of up to two flags with their values, and every one of
\* up to three arguments, words without a flag and flags without a value
\* among them.
AllLines ==
    {<<>>} \cup Pairs \cup {p \o q : p, q \in Pairs}
      \cup UNION {[1..n -> Flags \cup {"shared", "Personalized"}] : n \in 1..3}

ScopeLast == {<<"--card-scope">>, <<"--card-scope", "global">>}

=============================================================================
