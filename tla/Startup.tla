------------------------------ MODULE Startup ------------------------------
(***************************************************************************)
(* The bridge's start, from the command line to the listening socket:      *)
(* Main.configure() reads the arguments one by one and the applet entries  *)
(* of the --config file, CardScope.parse() and CardProviderLoader.resolve()*)
(* turn them into a scope and a provider, and TcpBridgeServer.start()      *)
(* creates the first card before it binds the port.                        *)
(*                                                                         *)
(* A CardProviderStartupException ends the process with exit code 2 and a  *)
(* reason, any other exception with exit code 1.  Classes and files are    *)
(* names; what Class.forName(), reflection, create() and the file system   *)
(* do with a name is given by Classes and Files.                           *)
(***************************************************************************)
EXTENDS Integers, Sequences, FiniteSets, FiniteSetsExt

CONSTANTS
    CommandLines,   \* the argument vectors to start with
    Registrations,  \* what META-INF/services may list: sequences of classes
    Classes,        \* from class names to ClassKinds
    Files,          \* from readable config files to their applet entries
    None            \* null

Flags == {"--host", "--port", "--config", "--card-provider", "--card-scope"}

\* What loading and using a class named on the command line leads to: not on
\* the classpath; found but failing to link or to initialise; not a
\* CardProvider; without public no-arg constructor; abstract; constructor
\* throws; create() throws; create() returns null; works.
ClassKinds == {"absent", "unlinkable", "foreign", "noctor", "abstract",
               "ctorthrows", "createthrows", "createsnull", "good"}

\* An entry applet.i of a config file: both keys present, and then whether
\* DefaultCardProvider can install it, or one of the keys missing.
EntryKinds == {"installable", "noclass", "badhex", "gap"}

Reasons == {"PROVIDER_NOT_FOUND", "PROVIDER_NOT_A_CARD_PROVIDER",
            "PROVIDER_NO_NOARG_CTOR", "PROVIDER_INSTANTIATION_FAILED",
            "PROVIDER_AMBIGUOUS", "CARD_CREATE_FAILED", "INVALID_SCOPE"}

Default == "DefaultCardProvider"

ASSUME InputsAssumption ==
    /\ \A a \in CommandLines : Len(a) \in Nat
    /\ \A c \in DOMAIN Classes : Classes[c] \in ClassKinds
    /\ Default \notin DOMAIN Classes
    /\ \A r \in Registrations : r \in Seq(DOMAIN Classes)
    /\ \A f \in DOMAIN Files : Files[f] \in Seq(EntryKinds)

VARIABLES
    args,        \* String[] args
    registered,  \* the ServiceLoader registrations on the classpath
    stage,       \* the next piece of main() to run
    i,           \* the loop variable of configure() and of loadConfig()
    opt,         \* the local variables configure() fills, by flag
    applets,     \* List<AppletConfig> applets
    cardScope,   \* the parsed scope
    provider,    \* the resolved provider's class
    bound,       \* the server socket is bound
    outcome      \* None, or how the start ended: exit code and reason

vars == <<args, registered, stage, i, opt, applets, cardScope, provider,
          bound, outcome>>

Serving == [code |-> 0, reason |-> None]
Crashed == [code |-> 1, reason |-> None]
Refused(reason) == [code |-> 2, reason |-> reason]

Init ==
    /\ args \in CommandLines
    /\ registered \in Registrations
    /\ stage = "args"
    /\ i = 1
    /\ opt = [f \in Flags |-> None]
    /\ applets = <<>>
    /\ cardScope = None
    /\ provider = None
    /\ bound = FALSE
    /\ outcome = None

\* The process ends: System.exit(2), or an exception out of main().
End(how) ==
    /\ outcome' = how
    /\ stage' = "ended"
    /\ UNCHANGED <<args, registered, i, opt, applets, cardScope, provider, bound>>

----------------------------------------------------------------------------
(* configure(): the arguments.                                             *)

\* A faulty variant: the first value of a repeated flag kept.
TakeFirstValue ==
    /\ stage = "args"
    /\ i < Len(args)
    /\ args[i] \in Flags
    /\ args[i] = "--port" => args[i + 1] = "9025"
    /\ opt' = [opt EXCEPT ![args[i]] = IF @ = None THEN args[i + 1] ELSE @]
    /\ i' = i + 2
    /\ UNCHANGED <<args, registered, stage, applets, cardScope, provider, bound,
                   outcome>>

\* args[++i] of a flag that has a value; a port has to be a number.
TakeValue ==
    /\ stage = "args"
    /\ i < Len(args)
    /\ args[i] \in Flags
    /\ args[i] = "--port" => args[i + 1] = "9025"
    /\ opt' = [opt EXCEPT ![args[i]] = args[i + 1]]
    /\ i' = i + 2
    /\ UNCHANGED <<args, registered, stage, applets, cardScope, provider, bound,
                   outcome>>

\* ArrayIndexOutOfBoundsException: a flag is the last argument.
ValueMissing ==
    /\ stage = "args"
    /\ i = Len(args)
    /\ args[i] \in Flags
    /\ End(Crashed)

\* NumberFormatException.
PortNotANumber ==
    /\ stage = "args"
    /\ i < Len(args)
    /\ args[i] = "--port"
    /\ args[i + 1] # "9025"
    /\ End(Crashed)

\* A faulty variant: the loop variable not advanced.
PassOverStuck ==
    /\ stage = "args"
    /\ i <= Len(args)
    /\ args[i] \notin Flags
    /\ UNCHANGED vars

\* The switch has no default: any other argument is passed over.
PassOver ==
    /\ stage = "args"
    /\ i <= Len(args)
    /\ args[i] \notin Flags
    /\ i' = i + 1
    /\ UNCHANGED <<args, registered, stage, opt, applets, cardScope, provider,
                   bound, outcome>>

ArgsDone ==
    /\ stage = "args"
    /\ i > Len(args)
    /\ stage' = IF opt["--config"] = None THEN "scope" ELSE "config"
    /\ i' = 1
    /\ UNCHANGED <<args, registered, opt, applets, cardScope, provider, bound,
                   outcome>>

----------------------------------------------------------------------------
(* loadConfig(): applet.1, applet.2, ... up to the first one missing.      *)

\* IOException: no such file.
ConfigUnreadable ==
    /\ stage = "config"
    /\ opt["--config"] \notin DOMAIN Files
    /\ End(Crashed)

\* Both keys of entry k are there.
Present(f, k) == k <= Len(Files[f]) /\ Files[f][k] # "gap"

AddApplet ==
    /\ stage = "config"
    /\ opt["--config"] \in DOMAIN Files
    /\ Present(opt["--config"], i)
    /\ applets' = Append(applets, Files[opt["--config"]][i])
    /\ i' = i + 1
    /\ UNCHANGED <<args, registered, stage, opt, cardScope, provider, bound,
                   outcome>>

ConfigDone ==
    /\ stage = "config"
    /\ opt["--config"] \in DOMAIN Files
    /\ ~Present(opt["--config"], i)
    /\ stage' = "scope"
    /\ UNCHANGED <<args, registered, i, opt, applets, cardScope, provider,
                   bound, outcome>>

----------------------------------------------------------------------------
(* CardScope.parse() and CardProviderLoader.resolve().                     *)

\* value.toLowerCase() on the scope words of the model.
LowerCase(w) == IF w = "SHARED" THEN "shared" ELSE w

ParseScope ==
    /\ stage = "scope"
    /\ LET word == IF opt["--card-scope"] = None THEN "connection"
                   ELSE LowerCase(opt["--card-scope"])
       IN  IF word \in {"connection", "shared"}
           THEN /\ cardScope' = word
                /\ stage' = "provider"
                /\ UNCHANGED <<args, registered, i, opt, applets, provider,
                               bound, outcome>>
           ELSE End(Refused("INVALID_SCOPE"))

Kind(c) == IF c \in DOMAIN Classes THEN Classes[c] ELSE "absent"

Use(p) ==
    /\ provider' = p
    /\ stage' = "card"
    /\ UNCHANGED <<args, registered, i, opt, applets, cardScope, bound, outcome>>

\* loadByName(): the checks in their order.
LoadByName ==
    /\ stage = "provider"
    /\ opt["--card-provider"] # None
    /\ LET kind == Kind(opt["--card-provider"])
       IN  \/ /\ kind \in {"absent", "unlinkable"}
              /\ End(Refused("PROVIDER_NOT_FOUND"))
           \/ /\ kind = "foreign"
              /\ End(Refused("PROVIDER_NOT_A_CARD_PROVIDER"))
           \/ /\ kind = "noctor"
              /\ End(Refused("PROVIDER_NO_NOARG_CTOR"))
           \/ /\ kind \in {"abstract", "ctorthrows"}
              /\ End(Refused("PROVIDER_INSTANTIATION_FAILED"))
           \/ /\ kind \in {"createthrows", "createsnull", "good"}
              /\ Use(opt["--card-provider"])

\* discover(): the ServiceLoader can make an instance of the class.
Instantiable(c) == Kind(c) \in {"createthrows", "createsnull", "good"}

\* Without --card-provider: a registration that cannot be instantiated, more
\* than one, exactly one, none.
Discover ==
    /\ stage = "provider"
    /\ opt["--card-provider"] = None
    /\ \/ /\ \E k \in DOMAIN registered : ~Instantiable(registered[k])
          /\ End(Refused("PROVIDER_INSTANTIATION_FAILED"))
       \/ /\ \A k \in DOMAIN registered : Instantiable(registered[k])
          /\ \/ Len(registered) > 1 /\ End(Refused("PROVIDER_AMBIGUOUS"))
             \/ Len(registered) = 1 /\ Use(registered[1])
             \/ Len(registered) = 0 /\ Use(Default)

----------------------------------------------------------------------------
(* TcpBridgeServer.start(): the first card, then the port.                 *)

\* create() of the resolved provider gives a card.  DefaultCardProvider
\* installs every applet: a class it cannot find, or an AID or parameter it
\* cannot decode, is a RuntimeException.
CreateWorks ==
    IF provider = Default
    THEN \A k \in DOMAIN applets : applets[k] = "installable"
    ELSE Kind(provider) = "good"

\* A faulty variant: the port bound before the card is made.
CreateCardBound ==
    /\ stage = "card"
    /\ bound' = TRUE
    /\ IF CreateWorks
       THEN stage' = "bind" /\ UNCHANGED outcome
       ELSE stage' = "ended" /\ outcome' = Refused("CARD_CREATE_FAILED")
    /\ UNCHANGED <<args, registered, i, opt, applets, cardScope, provider>>

CreateCard ==
    /\ stage = "card"
    /\ IF CreateWorks
       THEN /\ stage' = "bind"
            /\ UNCHANGED <<args, registered, i, opt, applets, cardScope,
                           provider, bound, outcome>>
       ELSE End(Refused("CARD_CREATE_FAILED"))

Bind ==
    /\ stage = "bind"
    /\ bound' = TRUE
    /\ outcome' = Serving
    /\ stage' = "ended"
    /\ UNCHANGED <<args, registered, i, opt, applets, cardScope, provider>>

\* IOException: the host does not resolve or the port is taken.
BindFail ==
    /\ stage = "bind"
    /\ End(Crashed)

Next ==
    \/ TakeValue
    \/ ValueMissing
    \/ PortNotANumber
    \/ PassOver
    \/ ArgsDone
    \/ ConfigUnreadable
    \/ AddApplet
    \/ ConfigDone
    \/ ParseScope
    \/ LoadByName
    \/ Discover
    \/ CreateCard
    \/ Bind
    \/ BindFail

Spec == Init /\ [][Next]_vars

\* main() is one thread; a provider's constructor and create() are taken to
\* return or throw.
FairSpec == Spec /\ WF_vars(Next)

----------------------------------------------------------------------------
(* Properties.                                                             *)

\* The variables of Main.configure have their types: the applet list holds no
\* gap, and every exit is one of the documented ones.
TypeOK ==
    /\ args \in CommandLines
    /\ registered \in Registrations
    /\ stage \in {"args", "config", "scope", "provider", "card", "bind", "ended"}
    /\ i \in 1..(Len(args) + 1) \/ stage # "args"
    /\ \A k \in DOMAIN applets : applets[k] \in EntryKinds \ {"gap"}
    /\ cardScope \in {None, "connection", "shared"}
    /\ provider \in DOMAIN Classes \cup {None, Default}
    /\ bound \in BOOLEAN
    /\ outcome \in {None, Serving, Crashed} \cup {Refused(r) : r \in Reasons}

\* The command line read as the usage text describes it: flag, value, flag,
\* value, ..., a repeated flag standing for its last value.
WellFormed ==
    /\ Len(args) % 2 = 0
    /\ \A k \in 1..Len(args) : k % 2 = 1 => args[k] \in Flags

Asked(f) ==
    LET places == {k \in 1..Len(args) : k % 2 = 1 /\ args[k] = f}
    IN  IF places = {} THEN None ELSE args[Max(places) + 1]

\* Nothing outside the provider and the scope is wrong with it.
Readable ==
    /\ Asked("--config") \in DOMAIN Files \cup {None}
    /\ \A k \in 1..Len(args) :
          k % 2 = 1 /\ args[k] = "--port" => args[k + 1] = "9025"

\* The README's resolution table.
Chosen ==
    IF Asked("--card-provider") # None THEN Asked("--card-provider")
    ELSE IF registered # <<>> THEN registered[1]
    ELSE Default

ScopeWords == [connection |-> "connection", shared |-> "shared",
               SHARED |-> "shared"]

\* The applet entries up to the first missing number.
ConfiguredApplets ==
    LET file == IF Asked("--config") = None THEN <<>> ELSE Files[Asked("--config")]
        gaps == {k \in DOMAIN file : file[k] = "gap"}
    IN  IF gaps = {} THEN file ELSE SubSeq(file, 1, Min(gaps) - 1)

\* The README's refusal table: the causes of a reason.  (A class that is there
\* but does not link counts as not found, as it does in loadByName().)
Cause(reason) ==
    LET named == Asked("--card-provider")
        kind == Kind(named)
    IN  \/ /\ reason = "PROVIDER_NOT_FOUND"
           /\ named # None /\ kind \in {"absent", "unlinkable"}
        \/ /\ reason = "PROVIDER_NOT_A_CARD_PROVIDER"
           /\ named # None /\ kind = "foreign"
        \/ reason = "PROVIDER_NO_NOARG_CTOR" /\ named # None /\ kind = "noctor"
        \/ /\ reason = "PROVIDER_INSTANTIATION_FAILED"
           /\ \/ named # None /\ kind \in {"abstract", "ctorthrows"}
              \/ /\ named = None
                 /\ \E k \in DOMAIN registered : ~Instantiable(registered[k])
        \/ /\ reason = "PROVIDER_AMBIGUOUS"
           /\ named = None /\ Len(registered) > 1
        \/ /\ reason = "CARD_CREATE_FAILED"
           /\ \/ Chosen # Default /\ Kind(Chosen) \in {"createthrows", "createsnull"}
              \/ /\ Chosen = Default
                 /\ \E k \in DOMAIN ConfiguredApplets :
                       ConfiguredApplets[k] # "installable"
        \/ /\ reason = "INVALID_SCOPE"
           /\ Asked("--card-scope") \notin DOMAIN ScopeWords \cup {None}

\* The start does what the README's tables say of the command line and the
\* classpath: it is refused with exit code 2 exactly when a refusal has a
\* cause, the reason given is one of those that have, and a bridge that serves
\* runs the provider, the scope and the applets that were asked for.
OutcomeAsDocumented ==
    (outcome # None /\ WellFormed /\ Readable) =>
        /\ outcome.code = 2 <=> \E r \in Reasons : Cause(r)
        /\ outcome.code = 2 => Cause(outcome.reason)
        /\ outcome.code = 0 =>
              /\ provider = Chosen
              /\ applets = ConfiguredApplets
              /\ cardScope = IF Asked("--card-scope") = None THEN "connection"
                             ELSE ScopeWords[Asked("--card-scope")]

\* A start that ends with an exit code leaves no port bound, at any moment
\* before the end: nothing is bound until the first card exists.  (TypeOK is
\* checked with it.)
RefusedUnbound ==
    /\ TypeOK
    /\ bound => (outcome = Serving /\ CreateWorks)

\* Every start is resolved: the bridge serves or the process ends, it never
\* hangs over its arguments, its config file or its provider.
EveryStartResolved == <>(outcome # None)

\* --card-scope without a value is refused as an invalid scope, as
\* StartupRefusalTest and CardScope.parse's message say.
MissingScopeRefused ==
    (outcome # None /\ args = <<"--card-scope">>) =>
        outcome = Refused("INVALID_SCOPE")

=============================================================================
