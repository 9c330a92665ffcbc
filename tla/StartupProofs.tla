--------------------------- MODULE StartupProofs ---------------------------
(***************************************************************************)
(* The start of the bridge, for any command lines, registrations, classes  *)
(* and config files: it ends as the README's tables say, and nothing is    *)
(* bound before the first card exists.                                     *)
(***************************************************************************)
EXTENDS Startup, Induction

\* v is what the arguments a before place n say of a flag, read in pairs: the
\* value of its last occurrence.
Places(a, f, n) == {k \in 1..Len(a) : k < n /\ k % 2 = 1 /\ a[k] = f}
Told(a, f, n, v) ==
    \/ Places(a, f, n) = {} /\ v = None
    \/ \E k \in Places(a, f, n) : (\A l \in Places(a, f, n) : l <= k) /\ v = a[k + 1]

\* configure() in the middle of the arguments, and behind them.
ArgsRead ==
    /\ stage = "args" => /\ applets = <<>>
                         /\ WellFormed => /\ i % 2 = 1
                                          /\ \A f \in Flags : Told(args, f, i, opt[f])
    /\ (WellFormed /\ stage \notin {"args", "ended"}) =>
          \A f \in Flags : opt[f] = Asked(f)
    /\ stage = "config" => opt["--config"] # None

\* loadConfig() has the entries before i, among which there is no gap.
ConfigRead ==
    (stage = "config" /\ opt["--config"] \in DOMAIN Files) =>
        LET entries == Files[opt["--config"]]
        IN  /\ i \in 1..(Len(entries) + 1)
            /\ applets \in Seq(EntryKinds) /\ Len(applets) = i - 1
            /\ \A k \in 1..(i - 1) : applets[k] = entries[k] /\ entries[k] # "gap"

\* What CardScope.parse() should make of the command line.
ScopeAsked == IF Asked("--card-scope") = None THEN "connection"
              ELSE ScopeWords[Asked("--card-scope")]

\* Behind each stage its part of the outcome is settled.
Settled ==
    (WellFormed /\ Readable) =>
        /\ stage \in {"scope", "provider", "card", "bind"} =>
              applets = ConfiguredApplets
        /\ stage \in {"provider", "card", "bind"} =>
              cardScope = ScopeAsked /\ ~Cause("INVALID_SCOPE")
        /\ stage \in {"card", "bind"} =>
              /\ provider = Chosen
              /\ \A r \in Reasons \ {"CARD_CREATE_FAILED"} : ~Cause(r)
        /\ stage = "bind" => ~Cause("CARD_CREATE_FAILED")

\* Every flag has an option; until the end there is no outcome and nothing is
\* bound; behind each stage the provider, and then the card, is there.
Open ==
    /\ DOMAIN opt = Flags
    /\ stage # "ended" => outcome = None /\ ~bound
    /\ stage \in {"card", "bind"} =>
          provider = Default \/ Kind(provider) \in {"createthrows", "createsnull", "good"}
    /\ stage = "bind" => CreateWorks

StartupInv ==
    /\ TypeOK
    /\ ArgsRead
    /\ ConfigRead
    /\ Settled
    /\ Open
    /\ OutcomeAsDocumented
    /\ RefusedUnbound

----------------------------------------------------------------------------
\* Words and places.

\* The largest element of a bounded set is its Max.
LEMMA MaxIs ==
    ASSUME NEW n \in Nat, NEW S \in SUBSET (1..n), NEW m \in S, \A l \in S : l <= m
    PROVE  Max(S) = m
<1>1. \A l \in S : m >= l
  OBVIOUS
<1>2. Max(S) \in S /\ \A l \in S : Max(S) >= l
  BY <1>1, Zenon DEF Max
<1>3. m \in Nat /\ \A l \in S : l \in Nat
  OBVIOUS
<1> DEFINE x == Max(S)
<1> HIDE DEF x
<1>4. x \in Nat /\ x >= m /\ x <= m
  BY <1>2, <1>3, Zenon DEF x
<1>5. x = m
  BY <1>3, <1>4
<1>. QED  BY <1>5 DEF x

\* The smallest one its Min.
LEMMA MinIs ==
    ASSUME NEW n \in Nat, NEW S \in SUBSET (1..n), NEW m \in S, \A l \in S : m <= l
    PROVE  Min(S) = m
<1>1. Min(S) \in S /\ \A l \in S : Min(S) <= l
  BY Zenon DEF Min
<1>2. m \in Nat /\ \A l \in S : l \in Nat
  OBVIOUS
<1> DEFINE x == Min(S)
<1> HIDE DEF x
<1>3. x \in Nat /\ x <= m /\ m <= x
  BY <1>1, <1>2, Zenon DEF x
<1>4. x = m
  BY <1>2, <1>3
<1>. QED  BY <1>4 DEF x

\* What the properties say of a start depends on its arguments and
\* registrations only, which never change.
LEMMA Rigid ==
    ASSUME UNCHANGED <<args, registered>>
    PROVE  /\ WellFormed' <=> WellFormed
           /\ Readable' <=> Readable
           /\ \A f \in Flags : Asked(f)' = Asked(f)
           /\ Chosen' = Chosen /\ ConfiguredApplets' = ConfiguredApplets
           /\ ScopeAsked' = ScopeAsked
           /\ \A r \in Reasons : Cause(r)' <=> Cause(r)
<1>0. args' = args /\ registered' = registered
  OBVIOUS
<1>1. WellFormed' <=> WellFormed
  BY <1>0, Zenon DEF WellFormed
<1>2. ASSUME NEW f PROVE Asked(f)' = Asked(f)
  BY <1>0, Zenon DEF Asked
<1>3. /\ Asked("--config")' = Asked("--config")
      /\ Asked("--card-provider")' = Asked("--card-provider")
      /\ Asked("--card-scope")' = Asked("--card-scope")
  BY <1>2, Zenon
<1>4. Readable' <=> Readable
  BY <1>0, <1>3, Zenon DEF Readable
<1>5. Chosen' = Chosen
  BY <1>0, <1>3, Zenon DEF Chosen
<1>6. ConfiguredApplets' = ConfiguredApplets
  BY <1>3, Zenon DEF ConfiguredApplets
<1>7. ScopeAsked' = ScopeAsked
  BY <1>3, Zenon DEF ScopeAsked
<1>8. ASSUME NEW r PROVE Cause(r)' <=> Cause(r)
  BY <1>0, <1>3, <1>5, <1>6, Zenon DEF Cause
<1>. QED  BY <1>1, <1>2, <1>4, <1>5, <1>6, <1>7, <1>8, Zenon

\* One more pair of arguments.
LEMMA ToldNext ==
    ASSUME NEW a, Len(a) \in Nat, NEW n \in 1..Len(a), n < Len(a), n % 2 = 1,
           NEW f, NEW v, Told(a, f, n, v)
    PROVE  Told(a, f, n + 2, IF f = a[n] THEN a[n + 1] ELSE v)
<1>1. n \in Nat /\ (n + 1) % 2 # 1
  OBVIOUS
<1>2. \A k \in 1..Len(a) : k < n + 2 /\ k % 2 = 1 <=> (k < n /\ k % 2 = 1) \/ k = n
  BY <1>1
<1>3. CASE f = a[n]
  <2>1. Places(a, f, n + 2) = Places(a, f, n) \cup {n}
    BY <1>2, <1>3 DEF Places
  <2>2. \A l \in Places(a, f, n + 2) : l <= n
    BY <2>1, <1>1 DEF Places
  <2>. QED  BY <2>1, <2>2, <1>3, Zenon DEF Told
<1>4. CASE f # a[n]
  <2>1. Places(a, f, n + 2) = Places(a, f, n)
    BY <1>2, <1>4 DEF Places
  <2>. QED  BY <2>1, <1>4, Zenon DEF Told
<1>. QED  BY <1>3, <1>4

\* Behind the arguments that is what was asked for.
LEMMA ToldAll ==
    ASSUME Len(args) \in Nat, NEW n \in Nat, n > Len(args), NEW f, NEW v,
           Told(args, f, n, v)
    PROVE  v = Asked(f)
<1> DEFINE P == {k \in 1..Len(args) : k % 2 = 1 /\ args[k] = f}
<1>1. Places(args, f, n) = P
  BY DEF Places
<1>2. Asked(f) = IF P = {} THEN None ELSE args[Max(P) + 1]
  BY Zenon DEF Asked
<1>3. P \in SUBSET (1..Len(args))
  OBVIOUS
<1> HIDE DEF P
<1>4. CASE P = {} /\ v = None
  BY <1>2, <1>4, Zenon
<1>5. ASSUME NEW k \in P, \A l \in P : l <= k, v = args[k + 1]
      PROVE  v = Asked(f)
  <2>1. Max(P) = k
    BY <1>3, <1>5, MaxIs, Zenon
  <2>. QED  BY <1>2, <1>5, <2>1, Zenon
<1>. QED  BY <1>1, <1>4, <1>5, Zenon DEF Told

----------------------------------------------------------------------------
\* The steps.

\* The start goes on: there is no outcome to be right about.
LEMMA GoingOn ==
    ASSUME TypeOK', ArgsRead', ConfigRead', Settled', Open', stage' # "ended"
    PROVE  StartupInv'
<1>1. outcome' = None /\ ~bound'
  BY Zenon DEF Open
<1>2. OutcomeAsDocumented'
  BY <1>1, Zenon DEF OutcomeAsDocumented
<1>3. RefusedUnbound'
  BY <1>1, Zenon DEF RefusedUnbound
<1>. QED  BY <1>2, <1>3, Zenon DEF StartupInv

\* The start ends without serving: a refusal has its cause, and a crash comes
\* where nothing has.
LEMMA Ending ==
    ASSUME StartupInv, stage # "ended", NEW h, End(h),
           \/ h = Crashed /\ (WellFormed /\ Readable => \A r \in Reasons : ~Cause(r))
           \/ \E r \in Reasons : h = Refused(r) /\ (WellFormed /\ Readable => Cause(r))
    PROVE  StartupInv'
<1>0. TypeOK /\ ArgsRead /\ ConfigRead /\ Settled /\ Open /\ RefusedUnbound
  BY DEF StartupInv
<1>1. /\ outcome' = h /\ stage' = "ended"
      /\ UNCHANGED <<args, registered, i, opt, applets, cardScope, provider, bound>>
  BY DEF End
<1>2. ~bound
  BY <1>0, Zenon DEF Open
<1>3. stage' \notin {"args", "config", "scope", "provider", "card", "bind"}
  BY <1>1
<1>4. ArgsRead' /\ ConfigRead' /\ Settled' /\ Open'
  <2>1. ArgsRead'
    BY <1>1, <1>3 DEF ArgsRead
  <2>2. ConfigRead'
    BY <1>3, Zenon DEF ConfigRead
  <2>3. Settled'
    BY <1>3, Zenon DEF Settled
  <2>4. Open'
    BY <1>0, <1>1, <1>3 DEF Open
  <2>. QED  BY <2>1, <2>2, <2>3, <2>4
<1>5. h \in {None, Serving, Crashed} \cup {Refused(r) : r \in Reasons}
  BY Zenon
<1>6. TypeOK'
  BY <1>0, <1>1, <1>5 DEF TypeOK
<1>7. RefusedUnbound'
  BY <1>1, <1>2, <1>6, Zenon DEF RefusedUnbound
<1>8. OutcomeAsDocumented'
  <2>0. (WellFormed' <=> WellFormed) /\ (Readable' <=> Readable)
        /\ \A r \in Reasons : Cause(r)' <=> Cause(r)
    BY <1>1, Rigid, Zenon
  <2>1. CASE h = Crashed /\ (WellFormed /\ Readable => \A r \in Reasons : ~Cause(r))
    <3>1. h.code # 2 /\ h.code # 0
      BY <2>1 DEF Crashed
    <3>. QED  BY <1>1, <2>0, <2>1, <3>1, Zenon DEF OutcomeAsDocumented
  <2>2. ASSUME NEW r \in Reasons, h = Refused(r), WellFormed /\ Readable => Cause(r)
        PROVE  OutcomeAsDocumented'
    <3>1. h.code = 2 /\ h.reason = r /\ h.code # 0
      BY <2>2 DEF Refused
    <3>2. Cause(r)' <=> Cause(r)
      BY <2>0
    <3>. QED  BY <1>1, <2>0, <2>2, <3>1, <3>2, Zenon DEF OutcomeAsDocumented
  <2>. QED  BY <2>1, <2>2
<1>. QED  BY <1>4, <1>6, <1>7, <1>8, Zenon DEF StartupInv

\* The arguments are a sequence, and the registrations and entries are.
LEMMA Inputs ==
    ASSUME TypeOK
    PROVE  /\ Len(args) \in Nat
           /\ registered \in Seq(DOMAIN Classes)
           /\ \A f \in DOMAIN Files : Files[f] \in Seq(EntryKinds)
           /\ \A c : Kind(c) \in ClassKinds
<1>1. \A c : Kind(c) \in ClassKinds
  BY InputsAssumption DEF Kind, ClassKinds
<1>. QED  BY <1>1, InputsAssumption, Zenon DEF TypeOK

\* configure(): a pair of arguments is read.
LEMMA TakeValueKeeps == StartupInv /\ TakeValue => StartupInv'
<1> SUFFICES ASSUME StartupInv, TakeValue PROVE StartupInv'
  OBVIOUS
<1>0. TypeOK /\ ArgsRead /\ ConfigRead /\ Settled /\ Open
  BY DEF StartupInv
<1>1. /\ stage = "args" /\ stage' = "args" /\ i < Len(args) /\ args[i] \in Flags
      /\ opt' = [opt EXCEPT ![args[i]] = args[i + 1]] /\ i' = i + 2
      /\ UNCHANGED <<args, registered, applets, cardScope, provider, bound, outcome>>
  BY DEF TakeValue
<1>2. Len(args) \in Nat /\ i \in 1..(Len(args) + 1)
  BY <1>0, <1>1, Inputs DEF TypeOK
<1>3. i' \in 1..(Len(args)' + 1)
  BY <1>1, <1>2
<1>4. TypeOK'
  BY <1>0, <1>1, <1>3 DEF TypeOK
<1>5. ArgsRead'
  <2>1. WellFormed' <=> WellFormed
    BY <1>1, Rigid, Zenon
  <2>2. applets' = <<>> /\ (WellFormed => i % 2 = 1 /\ \A f \in Flags : Told(args, f, i, opt[f]))
    BY <1>0, <1>1, Zenon DEF ArgsRead
  <2>3. DOMAIN opt = Flags
    BY <1>0 DEF Open
  <2>4. ASSUME WellFormed PROVE i' % 2 = 1
    <3>1. i \in Nat /\ i % 2 = 1
      BY <1>2, <2>2, <2>4
    <3>. QED  BY <3>1, <1>1
  <2>5. ASSUME WellFormed, NEW f \in Flags PROVE Told(args', f, i', opt'[f])
    <3>1. i \in 1..Len(args) /\ i % 2 = 1 /\ Told(args, f, i, opt[f])
      BY <1>1, <1>2, <2>2, <2>5
    <3>2. Told(args, f, i + 2, IF f = args[i] THEN args[i + 1] ELSE opt[f])
      BY <1>1, <1>2, <3>1, ToldNext, Zenon
    <3>3. opt'[f] = IF f = args[i] THEN args[i + 1] ELSE opt[f]
      BY <1>1, <2>3
    <3>. QED  BY <1>1, <3>2, <3>3, Zenon
  <2>6. stage' # "config" /\ ~(stage' \notin {"args", "ended"})
    BY <1>1
  <2>. QED  BY <2>1, <2>2, <2>4, <2>5, <2>6, Zenon DEF ArgsRead
<1>6. /\ stage' # "config" /\ stage' # "ended" /\ stage' # "bind"
      /\ stage' \notin {"scope", "provider", "card", "bind"}
      /\ stage' \notin {"provider", "card", "bind"} /\ stage' \notin {"card", "bind"}
  BY <1>1
<1>7. ConfigRead' /\ Settled'
  BY <1>6, Zenon DEF ConfigRead, Settled
<1>8. Open'
  BY <1>0, <1>1, <1>6 DEF Open
<1>. QED  BY <1>4, <1>5, <1>6, <1>7, <1>8, GoingOn, Zenon

\* A word that is no flag is passed over; then the line is not well formed.
LEMMA PassOverKeeps == StartupInv /\ PassOver => StartupInv'
<1> SUFFICES ASSUME StartupInv, PassOver PROVE StartupInv'
  OBVIOUS
<1>0. TypeOK /\ ArgsRead /\ ConfigRead /\ Settled /\ Open
  BY DEF StartupInv
<1>1. /\ stage = "args" /\ stage' = "args" /\ i <= Len(args) /\ args[i] \notin Flags
      /\ i' = i + 1
      /\ UNCHANGED <<args, registered, opt, applets, cardScope, provider, bound, outcome>>
  BY DEF PassOver
<1>2. Len(args) \in Nat /\ i \in 1..(Len(args) + 1)
  BY <1>0, <1>1, Inputs DEF TypeOK
<1>3. i' \in 1..(Len(args)' + 1) /\ i \in 1..Len(args)
  BY <1>1, <1>2
<1>4. TypeOK'
  BY <1>0, <1>1, <1>3 DEF TypeOK
<1>5. ArgsRead'
  <2>1. WellFormed' <=> WellFormed
    BY <1>1, Rigid, Zenon
  <2>2. ~WellFormed
    BY <1>0, <1>1, <1>3, Zenon DEF ArgsRead, WellFormed
  <2>3. stage' # "config" /\ ~(stage' \notin {"args", "ended"})
    BY <1>1
  <2>. QED  BY <1>0, <1>1, <2>1, <2>2, <2>3, Zenon DEF ArgsRead
<1>6. /\ stage' # "config" /\ stage' # "ended" /\ stage' # "bind"
      /\ stage' \notin {"scope", "provider", "card", "bind"}
      /\ stage' \notin {"provider", "card", "bind"} /\ stage' \notin {"card", "bind"}
  BY <1>1
<1>7. ConfigRead' /\ Settled'
  BY <1>6, Zenon DEF ConfigRead, Settled
<1>8. Open'
  BY <1>0, <1>1, <1>6 DEF Open
<1>. QED  BY <1>4, <1>5, <1>6, <1>7, <1>8, GoingOn, Zenon

\* The arguments that crash the start are not well formed, or not readable.
LEMMA ArgsCrash == StartupInv /\ (ValueMissing \/ PortNotANumber) => StartupInv'
<1> SUFFICES ASSUME StartupInv, ValueMissing \/ PortNotANumber PROVE StartupInv'
  OBVIOUS
<1>0. TypeOK /\ ArgsRead
  BY DEF StartupInv
<1>1. stage = "args" /\ End(Crashed)
  BY DEF ValueMissing, PortNotANumber
<1>2. Len(args) \in Nat /\ i \in 1..(Len(args) + 1)
  BY <1>0, <1>1, Inputs DEF TypeOK
<1>3. ~(WellFormed /\ Readable)
  <2> SUFFICES ASSUME WellFormed, Readable PROVE FALSE
    OBVIOUS
  <2>1. i % 2 = 1 /\ Len(args) % 2 = 0
    BY <1>0, <1>1, Zenon DEF ArgsRead, WellFormed
  <2>2. i # Len(args)
    BY <2>1
  <2>3. ~ValueMissing
    BY <2>2 DEF ValueMissing
  <2>4. PortNotANumber /\ i < Len(args) /\ args[i] = "--port" /\ args[i + 1] # "9025"
    BY <2>3, Zenon DEF PortNotANumber
  <2>5. i \in 1..Len(args)
    BY <1>2, <2>4
  <2>. QED  BY <2>1, <2>4, <2>5, Zenon DEF Readable
<1>4. stage # "ended"
  BY <1>1
<1>. QED  BY <1>1, <1>3, <1>4, Ending, Zenon

\* Behind the arguments the options are what was asked for.
LEMMA ArgsDoneKeeps == StartupInv /\ ArgsDone => StartupInv'
<1> SUFFICES ASSUME StartupInv, ArgsDone PROVE StartupInv'
  OBVIOUS
<1>0. TypeOK /\ ArgsRead /\ ConfigRead /\ Settled /\ Open
  BY DEF StartupInv
<1>1. /\ stage = "args" /\ i > Len(args) /\ i' = 1
      /\ stage' = IF opt["--config"] = None THEN "scope" ELSE "config"
      /\ UNCHANGED <<args, registered, opt, applets, cardScope, provider, bound, outcome>>
  BY DEF ArgsDone
<1>2. Len(args) \in Nat /\ i \in Nat
  BY <1>0, <1>1, Inputs DEF TypeOK
<1>3. /\ stage' \in {"scope", "config"} /\ stage' # "args" /\ stage' # "ended"
      /\ stage' # "bind" /\ stage' \notin {"provider", "card", "bind"}
      /\ stage' \notin {"card", "bind"}
      /\ (stage' = "config" <=> opt["--config"] # None)
      /\ (stage' = "scope" <=> opt["--config"] = None)
  BY <1>1
<1>4. TypeOK'
  BY <1>0, <1>1, <1>3 DEF TypeOK
<1>5. /\ WellFormed' <=> WellFormed
      /\ Readable' <=> Readable
      /\ \A f \in Flags : Asked(f)' = Asked(f)
      /\ ConfiguredApplets' = ConfiguredApplets
  BY <1>1, Rigid, Zenon
<1>6. ASSUME WellFormed, NEW f \in Flags PROVE opt[f] = Asked(f)
  <2>1. Told(args, f, i, opt[f])
    BY <1>0, <1>1, <1>6, Zenon DEF ArgsRead
  <2>. QED  BY <1>1, <1>2, <2>1, ToldAll, Zenon
<1>7. ArgsRead'
  BY <1>1, <1>3, <1>5, <1>6, Zenon DEF ArgsRead
<1>8. applets' = <<>> /\ opt' = opt
  BY <1>0, <1>1, Zenon DEF ArgsRead
<1>9. ConfigRead'
  <2> SUFFICES ASSUME opt["--config"] \in DOMAIN Files PROVE ConfigRead'
    BY <1>8, Zenon DEF ConfigRead
  <2> DEFINE entries == Files[opt["--config"]]
  <2>1. Len(entries) \in Nat
    BY <1>0, Inputs
  <2> HIDE DEF entries
  <2>2. 1 \in 1..(Len(entries) + 1) /\ <<>> \in Seq(EntryKinds) /\ Len(<<>>) = 1 - 1
        /\ 1..(1 - 1) = {}
    BY <2>1
  <2>. QED  BY <1>1, <1>8, <2>2, Zenon DEF ConfigRead, entries
<1>10. Settled'
  <2>1. "--config" \in Flags
    BY DEF Flags
  <2>2. ASSUME WellFormed, stage' = "scope" PROVE ConfiguredApplets = <<>>
    <3>1. Asked("--config") = None
      BY <1>3, <1>6, <2>1, <2>2, Zenon
    <3>2. {k \in DOMAIN <<>> : <<>>[k] = "gap"} = {}
      OBVIOUS
    <3>. QED  BY <3>1, <3>2, Zenon DEF ConfiguredApplets
  <2>3. stage' \in {"scope", "provider", "card", "bind"} => stage' = "scope"
    BY <1>3
  <2>. QED  BY <1>3, <1>5, <1>8, <2>2, <2>3, Zenon DEF Settled
<1>11. Open'
  BY <1>0, <1>1, <1>3 DEF Open
<1>. QED  BY <1>3, <1>4, <1>7, <1>9, <1>10, <1>11, GoingOn, Zenon

\* loadConfig(): one entry more.
LEMMA AddAppletKeeps == StartupInv /\ AddApplet => StartupInv'
<1> SUFFICES ASSUME StartupInv, AddApplet PROVE StartupInv'
  OBVIOUS
<1>0. TypeOK /\ ArgsRead /\ ConfigRead /\ Settled /\ Open
  BY DEF StartupInv
<1> DEFINE entries == Files[opt["--config"]]
<1>1. /\ stage = "config" /\ stage' = "config" /\ opt["--config"] \in DOMAIN Files
      /\ i <= Len(entries) /\ entries[i] # "gap"
      /\ applets' = Append(applets, entries[i]) /\ i' = i + 1
      /\ UNCHANGED <<args, registered, opt, cardScope, provider, bound, outcome>>
  BY DEF AddApplet, Present
<1>2. entries \in Seq(EntryKinds)
  BY <1>0, <1>1, Inputs
<1>3. /\ i \in 1..(Len(entries) + 1)
      /\ applets \in Seq(EntryKinds) /\ Len(applets) = i - 1
      /\ \A k \in 1..(i - 1) : applets[k] = entries[k] /\ entries[k] # "gap"
  BY <1>0, <1>1, Zenon DEF ConfigRead
<1> HIDE DEF entries
<1>4. /\ i' \in 1..(Len(entries) + 1) /\ entries[i] \in EntryKinds
      /\ applets' \in Seq(EntryKinds) /\ Len(applets') = i' - 1
      /\ \A k \in 1..(i' - 1) : applets'[k] = entries[k] /\ entries[k] # "gap"
      /\ \A k \in DOMAIN applets' : k \in 1..(i' - 1)
  <2>1. Len(entries) \in Nat /\ i \in Nat \ {0} /\ i \in 1..Len(entries) /\ i' = i + 1
    BY <1>1, <1>2, <1>3
  <2>2. entries[i] \in EntryKinds
    BY <1>2, <2>1
  <2>3. /\ applets' \in Seq(EntryKinds) /\ Len(applets') = Len(applets) + 1
        /\ \A k \in 1..Len(applets) : applets'[k] = applets[k]
        /\ applets'[Len(applets) + 1] = entries[i]
        /\ DOMAIN applets' = 1..(Len(applets) + 1)
    BY <1>1, <1>3, <2>2
  <2>4. Len(applets) = i - 1 /\ i' - 1 = i /\ Len(applets) + 1 = i
    BY <1>3, <2>1
  <2>5. \A k \in 1..i : k \in 1..(i - 1) \/ k = i
    BY <2>1
  <2>6. \A k \in 1..i : applets'[k] = entries[k] /\ entries[k] # "gap"
    BY <1>1, <1>3, <2>3, <2>4, <2>5, Zenon
  <2>7. i' \in 1..(Len(entries) + 1)
    BY <2>1
  <2>. QED  BY <2>2, <2>3, <2>4, <2>6, <2>7, Zenon
<1>5. \A k \in DOMAIN applets' : applets'[k] \in EntryKinds \ {"gap"}
  <2>1. \A k \in DOMAIN applets' : applets'[k] \in EntryKinds
    BY <1>4
  <2>2. \A k \in DOMAIN applets' : applets'[k] # "gap"
    BY <1>4, Zenon
  <2>. QED  BY <2>1, <2>2
<1>6. TypeOK'
  BY <1>0, <1>1, <1>5 DEF TypeOK
<1>7. WellFormed' <=> WellFormed
  BY <1>1, Rigid, Zenon
<1>8. \A f \in Flags : Asked(f)' = Asked(f)
  BY <1>1, Rigid, Zenon
<1>9. stage' # "args" /\ stage' # "ended" /\ stage \notin {"args", "ended"}
      /\ stage' \notin {"scope", "provider", "card", "bind"}
      /\ stage' \notin {"provider", "card", "bind"} /\ stage' \notin {"card", "bind"}
      /\ stage' # "bind"
  BY <1>1
<1>10. ArgsRead'
  BY <1>0, <1>1, <1>7, <1>8, <1>9, Zenon DEF ArgsRead
<1>11. ConfigRead'
  BY <1>1, <1>4, Zenon DEF ConfigRead, entries
<1>12. Settled'
  BY <1>9, Zenon DEF Settled
<1>13. Open'
  BY <1>0, <1>1, <1>9 DEF Open
<1>. QED  BY <1>6, <1>9, <1>10, <1>11, <1>12, <1>13, GoingOn, Zenon

\* The entries up to the first gap, when the loop stops there.
LEMMA UpToTheGap ==
    ASSUME NEW entries \in Seq(EntryKinds), NEW n \in 1..(Len(entries) + 1),
           NEW s \in Seq(EntryKinds), Len(s) = n - 1,
           \A k \in 1..(n - 1) : s[k] = entries[k] /\ entries[k] # "gap",
           n <= Len(entries) => entries[n] = "gap"
    PROVE  LET gaps == {k \in DOMAIN entries : entries[k] = "gap"}
           IN  s = IF gaps = {} THEN entries ELSE SubSeq(entries, 1, Min(gaps) - 1)
<1> DEFINE gaps == {k \in DOMAIN entries : entries[k] = "gap"}
<1>1. Len(entries) \in Nat /\ DOMAIN entries = 1..Len(entries) /\ n \in Nat \ {0}
  OBVIOUS
<1>2. \A k \in gaps : k \in 1..Len(entries) /\ ~(k \in 1..(n - 1))
  BY <1>1
<1>3. \A k \in gaps : n <= k
  BY <1>1, <1>2
<1>4. CASE n <= Len(entries)
  <2>1. n \in gaps /\ gaps \in SUBSET (1..Len(entries))
    BY <1>1, <1>4
  <2> HIDE DEF gaps
  <2>2. Min(gaps) = n
    BY <1>1, <1>3, <2>1, MinIs
  <2>3. s = SubSeq(entries, 1, n - 1)
    BY <1>1, <1>4
  <2>4. gaps # {}
    BY <2>1
  <2>. QED  BY <2>2, <2>3, <2>4, Zenon DEF gaps
<1>5. CASE n = Len(entries) + 1
  <2>1. gaps = {}
    BY <1>1, <1>3, <1>5
  <2>2. s = entries
    BY <1>1, <1>5
  <2>. QED  BY <2>1, <2>2, Zenon
<1>. QED  BY <1>1, <1>4, <1>5

\* loadConfig() ends with the applets that were asked for.
LEMMA ConfigDoneKeeps == StartupInv /\ ConfigDone => StartupInv'
<1> SUFFICES ASSUME StartupInv, ConfigDone PROVE StartupInv'
  OBVIOUS
<1>0. TypeOK /\ ArgsRead /\ ConfigRead /\ Settled /\ Open
  BY DEF StartupInv
<1> DEFINE entries == Files[opt["--config"]]
<1>1. /\ stage = "config" /\ stage' = "scope" /\ opt["--config"] \in DOMAIN Files
      /\ ~(i <= Len(entries) /\ entries[i] # "gap")
      /\ UNCHANGED <<args, registered, i, opt, applets, cardScope, provider, bound,
                     outcome>>
  BY DEF ConfigDone, Present
<1>2. entries \in Seq(EntryKinds)
  BY <1>0, <1>1, Inputs
<1>3. /\ i \in 1..(Len(entries) + 1)
      /\ applets \in Seq(EntryKinds) /\ Len(applets) = i - 1
      /\ \A k \in 1..(i - 1) : applets[k] = entries[k] /\ entries[k] # "gap"
  BY <1>0, <1>1, Zenon DEF ConfigRead
<1>4. i <= Len(entries) => entries[i] = "gap"
  BY <1>1, Zenon
<1>5. LET gaps == {k \in DOMAIN entries : entries[k] = "gap"}
      IN  applets = IF gaps = {} THEN entries ELSE SubSeq(entries, 1, Min(gaps) - 1)
  <2> HIDE DEF entries
  <2>. QED  BY <1>2, <1>3, <1>4, UpToTheGap
<1>6. /\ WellFormed' <=> WellFormed
      /\ Readable' <=> Readable
      /\ \A f \in Flags : Asked(f)' = Asked(f)
      /\ ConfiguredApplets' = ConfiguredApplets
  BY <1>1, Rigid, Zenon
<1>7. /\ stage' # "args" /\ stage' # "ended" /\ stage' # "config" /\ stage' # "bind"
      /\ stage \notin {"args", "ended"}
      /\ stage' \notin {"provider", "card", "bind"} /\ stage' \notin {"card", "bind"}
  BY <1>1
<1>8. TypeOK'
  BY <1>0, <1>1 DEF TypeOK
<1>9. ArgsRead'
  BY <1>0, <1>1, <1>6, <1>7, Zenon DEF ArgsRead
<1>10. ConfigRead'
  BY <1>7, Zenon DEF ConfigRead
<1>11. ASSUME WellFormed PROVE applets = ConfiguredApplets
  <2>1. "--config" \in Flags
    BY DEF Flags
  <2>2. opt["--config"] = Asked("--config") /\ opt["--config"] # None
    BY <1>0, <1>1, <1>7, <1>11, <2>1, Zenon DEF ArgsRead
  <2>. QED  BY <1>5, <2>2, Zenon DEF ConfiguredApplets
<1>12. Settled'
  BY <1>1, <1>6, <1>7, <1>11, Zenon DEF Settled
<1>13. Open'
  BY <1>0, <1>1, <1>7 DEF Open
<1>. QED  BY <1>7, <1>8, <1>9, <1>10, <1>12, <1>13, GoingOn, Zenon

\* A config file that cannot be read was not a readable command line.
LEMMA ConfigCrash == StartupInv /\ ConfigUnreadable => StartupInv'
<1> SUFFICES ASSUME StartupInv, ConfigUnreadable PROVE StartupInv'
  OBVIOUS
<1>1. /\ stage = "config" /\ opt["--config"] \notin DOMAIN Files /\ End(Crashed)
      /\ ArgsRead
  BY DEF ConfigUnreadable, StartupInv
<1>2. stage # "ended" /\ stage \notin {"args", "ended"} /\ "--config" \in Flags
  BY <1>1 DEF Flags
<1>3. ASSUME WellFormed PROVE ~Readable
  <2>1. opt["--config"] = Asked("--config") /\ opt["--config"] # None
    BY <1>1, <1>2, <1>3, Zenon DEF ArgsRead
  <2>2. Asked("--config") \notin DOMAIN Files \cup {None}
    BY <1>1, <2>1, Zenon
  <2>. QED  BY <2>2, Zenon DEF Readable
<1>. QED  BY <1>1, <1>2, <1>3, Ending, Zenon

\* The kinds that loadByName() and discover() let through to create().
Passing == {"createthrows", "createsnull", "good"}

\* CardScope.parse(): the scope asked for, or a refusal.
LEMMA ParseScopeKeeps == StartupInv /\ ParseScope => StartupInv'
<1> SUFFICES ASSUME StartupInv, ParseScope PROVE StartupInv'
  OBVIOUS
<1>0. TypeOK /\ ArgsRead /\ ConfigRead /\ Settled /\ Open
  BY DEF StartupInv
<1> DEFINE word == IF opt["--card-scope"] = None THEN "connection"
                   ELSE LowerCase(opt["--card-scope"])
<1>1. /\ stage = "scope"
      /\ IF word \in {"connection", "shared"}
         THEN /\ cardScope' = word
              /\ stage' = "provider"
              /\ UNCHANGED <<args, registered, i, opt, applets, provider, bound, outcome>>
         ELSE End(Refused("INVALID_SCOPE"))
  BY Zenon DEF ParseScope
<1>2. /\ stage # "ended" /\ stage \notin {"args", "ended"}
      /\ stage \in {"scope", "provider", "card", "bind"}
  BY <1>1
<1>3. "--card-scope" \in Flags /\ "INVALID_SCOPE" \in Reasons
  BY DEF Flags, Reasons
<1> DEFINE asked == Asked("--card-scope")
<1>4. WellFormed => opt["--card-scope"] = asked
  BY <1>0, <1>2, <1>3, Zenon DEF ArgsRead
<1>5. /\ DOMAIN ScopeWords = {"connection", "shared", "SHARED"}
      /\ ScopeWords["connection"] = "connection" /\ ScopeWords["shared"] = "shared"
      /\ ScopeWords["SHARED"] = "shared"
      /\ "connection" # "SHARED" /\ "shared" # "SHARED" /\ "connection" # "shared"
  BY DEF ScopeWords
<1> HIDE DEF asked
<1>6. WellFormed /\ word \in {"connection", "shared"} =>
         /\ asked \in DOMAIN ScopeWords \cup {None}
         /\ word = IF asked = None THEN "connection" ELSE ScopeWords[asked]
  BY <1>4, <1>5, Zenon DEF LowerCase
<1>7. WellFormed /\ word \notin {"connection", "shared"} =>
         asked \notin DOMAIN ScopeWords \cup {None}
  BY <1>4, <1>5, Zenon DEF LowerCase
<1> HIDE DEF word
<1>8. CASE /\ word \in {"connection", "shared"} /\ cardScope' = word
           /\ stage' = "provider"
           /\ UNCHANGED <<args, registered, i, opt, applets, provider, bound, outcome>>
  <2>1. /\ stage' # "args" /\ stage' # "ended" /\ stage' # "config" /\ stage' # "bind"
        /\ stage' \notin {"card", "bind"}
    BY <1>8
  <2>2. TypeOK'
    BY <1>0, <1>8 DEF TypeOK
  <2>3. /\ WellFormed' <=> WellFormed
        /\ Readable' <=> Readable
        /\ \A f \in Flags : Asked(f)' = Asked(f)
        /\ ConfiguredApplets' = ConfiguredApplets /\ ScopeAsked' = ScopeAsked
        /\ Cause("INVALID_SCOPE")' <=> Cause("INVALID_SCOPE")
    BY <1>3, <1>8, Rigid, Zenon
  <2>4. ArgsRead'
    BY <1>0, <1>2, <1>8, <2>1, <2>3, Zenon DEF ArgsRead
  <2>5. ConfigRead'
    BY <2>1, Zenon DEF ConfigRead
  <2>6. /\ "INVALID_SCOPE" # "PROVIDER_NOT_FOUND"
        /\ "INVALID_SCOPE" # "PROVIDER_NOT_A_CARD_PROVIDER"
        /\ "INVALID_SCOPE" # "PROVIDER_NO_NOARG_CTOR"
        /\ "INVALID_SCOPE" # "PROVIDER_INSTANTIATION_FAILED"
        /\ "INVALID_SCOPE" # "PROVIDER_AMBIGUOUS"
        /\ "INVALID_SCOPE" # "CARD_CREATE_FAILED"
    OBVIOUS
  <2>7. WellFormed => cardScope' = ScopeAsked /\ ~Cause("INVALID_SCOPE")
    <3>1. WellFormed => cardScope' = ScopeAsked
      BY <1>6, <1>8, Zenon DEF ScopeAsked, asked
    <3>2. WellFormed => ~Cause("INVALID_SCOPE")
      BY <1>6, <1>8, <2>6, Zenon DEF Cause, asked
    <3>. QED  BY <3>1, <3>2
  <2>8. Settled'
    BY <1>0, <1>2, <1>8, <2>1, <2>3, <2>7, Zenon DEF Settled
  <2>9. Open'
    BY <1>0, <1>2, <1>8, <2>1 DEF Open
  <2>. QED  BY <2>1, <2>2, <2>4, <2>5, <2>8, <2>9, GoingOn, Zenon
<1>9. CASE word \notin {"connection", "shared"} /\ End(Refused("INVALID_SCOPE"))
  <2>1. WellFormed /\ Readable => Cause("INVALID_SCOPE")
    BY <1>7, <1>9, Zenon DEF Cause, asked
  <2>. QED  BY <1>2, <1>3, <1>9, <2>1, Ending, Zenon
<1>. QED  BY <1>1, <1>8, <1>9, Zenon

\* A provider is chosen: none of the causes of a refusal before it holds.
LEMMA UseKeeps ==
    ASSUME StartupInv, stage = "provider", NEW p, Use(p),
           p \in DOMAIN Classes \cup {Default}, p = Default \/ Kind(p) \in Passing,
           WellFormed => /\ p = Chosen
                         /\ \A r \in Reasons \ {"CARD_CREATE_FAILED", "INVALID_SCOPE"} :
                               ~Cause(r)
    PROVE  StartupInv'
<1>0. TypeOK /\ ArgsRead /\ ConfigRead /\ Settled /\ Open
  BY DEF StartupInv
<1>1. /\ provider' = p /\ stage' = "card"
      /\ UNCHANGED <<args, registered, i, opt, applets, cardScope, bound, outcome>>
  BY DEF Use
<1>2. /\ stage' # "args" /\ stage' # "ended" /\ stage' # "config" /\ stage' # "bind"
      /\ stage \notin {"args", "ended"} /\ stage # "ended"
      /\ stage \in {"scope", "provider", "card", "bind"}
      /\ stage \in {"provider", "card", "bind"}
  BY <1>1
<1>3. TypeOK'
  BY <1>0, <1>1 DEF TypeOK
<1>4. /\ WellFormed' <=> WellFormed
      /\ Readable' <=> Readable
      /\ \A f \in Flags : Asked(f)' = Asked(f)
      /\ ConfiguredApplets' = ConfiguredApplets /\ ScopeAsked' = ScopeAsked
      /\ Chosen' = Chosen
      /\ \A r \in Reasons : Cause(r)' <=> Cause(r)
  BY <1>1, Rigid, Zenon
<1>5. ArgsRead'
  BY <1>0, <1>1, <1>2, <1>4, Zenon DEF ArgsRead
<1>6. ConfigRead'
  BY <1>2, Zenon DEF ConfigRead
<1>7. "INVALID_SCOPE" \in Reasons
  BY DEF Reasons
<1>8. WellFormed /\ Readable =>
         /\ applets = ConfiguredApplets
         /\ cardScope = ScopeAsked /\ ~Cause("INVALID_SCOPE")
  BY <1>0, <1>2, Zenon DEF Settled
<1>9. WellFormed /\ Readable => \A r \in Reasons \ {"CARD_CREATE_FAILED"} : ~Cause(r)
  BY <1>8, Zenon
<1>10. WellFormed /\ Readable => \A r \in Reasons \ {"CARD_CREATE_FAILED"} : ~(Cause(r)')
  BY <1>4, <1>9, Zenon
<1>11. WellFormed /\ Readable => ~(Cause("INVALID_SCOPE")')
  BY <1>4, <1>7, <1>8, Zenon
<1>12. Settled'
  BY <1>1, <1>2, <1>4, <1>8, <1>10, <1>11, Zenon DEF Settled
<1>13. Open'
  <2>1. Kind(p)' = Kind(p)
    BY DEF Kind
  <2>2. provider' = Default \/ Kind(provider)' \in Passing
    BY <1>1, <2>1, Zenon DEF Kind
  <2>3. outcome' = None /\ ~bound' /\ DOMAIN opt' = Flags
    BY <1>0, <1>1, <1>2, Zenon DEF Open
  <2>. QED  BY <1>2, <2>2, <2>3, Zenon DEF Open, Passing
<1>. QED  BY <1>2, <1>3, <1>5, <1>6, <1>12, <1>13, GoingOn, Zenon

\* The reasons differ, and so do the kinds of classes.
LEMMA Distinct ==
    /\ {"PROVIDER_NOT_FOUND", "PROVIDER_NOT_A_CARD_PROVIDER", "PROVIDER_NO_NOARG_CTOR",
        "PROVIDER_INSTANTIATION_FAILED", "PROVIDER_AMBIGUOUS", "CARD_CREATE_FAILED",
        "INVALID_SCOPE"} = Reasons
    /\ \A k \in Passing : /\ k \notin {"absent", "unlinkable"} /\ k # "foreign"
                         /\ k # "noctor" /\ k \notin {"abstract", "ctorthrows"}
                         /\ k # "absent"
    /\ \A k \in Passing : k \in {"createthrows", "createsnull"} <=> k # "good"
<1>1. \A k \in Passing : /\ k \notin {"absent", "unlinkable"} /\ k # "foreign"
                        /\ k # "noctor" /\ k \notin {"abstract", "ctorthrows"}
                        /\ k # "absent"
  BY DEF Passing
<1>2. \A k \in Passing : k \in {"createthrows", "createsnull"} <=> k # "good"
  BY DEF Passing
<1>. QED  BY <1>1, <1>2 DEF Reasons

\* loadByName(): the refusal of each kind, or the class named.
LEMMA LoadByNameKeeps == StartupInv /\ LoadByName => StartupInv'
<1> SUFFICES ASSUME StartupInv, LoadByName PROVE StartupInv'
  OBVIOUS
<1>0. TypeOK /\ ArgsRead /\ Open
  BY DEF StartupInv
<1> DEFINE named == opt["--card-provider"]
           kind == Kind(named)
<1>1. /\ stage = "provider" /\ named # None
      /\ \/ /\ kind \in {"absent", "unlinkable"}
            /\ End(Refused("PROVIDER_NOT_FOUND"))
         \/ /\ kind = "foreign"
            /\ End(Refused("PROVIDER_NOT_A_CARD_PROVIDER"))
         \/ /\ kind = "noctor"
            /\ End(Refused("PROVIDER_NO_NOARG_CTOR"))
         \/ /\ kind \in {"abstract", "ctorthrows"}
            /\ End(Refused("PROVIDER_INSTANTIATION_FAILED"))
         \/ /\ kind \in Passing
            /\ Use(named)
  BY Zenon DEF LoadByName, Passing
<1>2. stage # "ended" /\ stage \notin {"args", "ended"} /\ "--card-provider" \in Flags
  BY <1>1 DEF Flags
<1>3. WellFormed => named = Asked("--card-provider")
  BY <1>0, <1>2, Zenon DEF ArgsRead
<1> HIDE DEF named, kind
<1>4. ASSUME NEW r \in Reasons, End(Refused(r)), WellFormed => Cause(r)
      PROVE  StartupInv'
  BY <1>2, <1>4, Ending, Zenon
<1>5. CASE kind \in {"absent", "unlinkable"} /\ End(Refused("PROVIDER_NOT_FOUND"))
  <2>1. WellFormed => Cause("PROVIDER_NOT_FOUND")
    BY <1>1, <1>3, <1>5, Zenon DEF Cause, kind
  <2>2. "PROVIDER_NOT_FOUND" \in Reasons
    BY DEF Reasons
  <2>. QED  BY <1>4, <1>5, <2>1, <2>2, Zenon
<1>6. CASE kind = "foreign" /\ End(Refused("PROVIDER_NOT_A_CARD_PROVIDER"))
  <2>1. WellFormed => Cause("PROVIDER_NOT_A_CARD_PROVIDER")
    BY <1>1, <1>3, <1>6, Zenon DEF Cause, kind
  <2>2. "PROVIDER_NOT_A_CARD_PROVIDER" \in Reasons
    BY DEF Reasons
  <2>. QED  BY <1>4, <1>6, <2>1, <2>2, Zenon
<1>7. CASE kind = "noctor" /\ End(Refused("PROVIDER_NO_NOARG_CTOR"))
  <2>1. WellFormed => Cause("PROVIDER_NO_NOARG_CTOR")
    BY <1>1, <1>3, <1>7, Zenon DEF Cause, kind
  <2>2. "PROVIDER_NO_NOARG_CTOR" \in Reasons
    BY DEF Reasons
  <2>. QED  BY <1>4, <1>7, <2>1, <2>2, Zenon
<1>8. CASE /\ kind \in {"abstract", "ctorthrows"}
           /\ End(Refused("PROVIDER_INSTANTIATION_FAILED"))
  <2>1. WellFormed => Cause("PROVIDER_INSTANTIATION_FAILED")
    BY <1>1, <1>3, <1>8, Zenon DEF Cause, kind
  <2>2. "PROVIDER_INSTANTIATION_FAILED" \in Reasons
    BY DEF Reasons
  <2>. QED  BY <1>4, <1>8, <2>1, <2>2, Zenon
<1>9. CASE kind \in Passing /\ Use(named)
  <2>1. named \in DOMAIN Classes
    BY <1>9, Distinct, Zenon DEF kind, Kind
  <2>2. WellFormed => named = Chosen
    BY <1>1, <1>3, Zenon DEF Chosen
  <2>3. ASSUME WellFormed, NEW r \in Reasons \ {"CARD_CREATE_FAILED", "INVALID_SCOPE"}
        PROVE  ~Cause(r)
    <3>1. Asked("--card-provider") = named /\ Kind(Asked("--card-provider")) = kind
      BY <1>3, <2>3, Zenon DEF kind
    <3>2. r # "CARD_CREATE_FAILED" /\ r # "INVALID_SCOPE"
      BY Zenon
    <3>. QED  BY <1>1, <1>9, <3>1, <3>2, Distinct, Zenon DEF Cause
  <2>. QED  BY <1>1, <1>9, <2>1, <2>2, <2>3, UseKeeps, Zenon DEF kind
<1>. QED  BY <1>1, <1>5, <1>6, <1>7, <1>8, <1>9, Zenon

\* discover(): refused, or the only registration, or the default.
LEMMA DiscoverKeeps == StartupInv /\ Discover => StartupInv'
<1> SUFFICES ASSUME StartupInv, Discover PROVE StartupInv'
  OBVIOUS
<1>0. TypeOK /\ ArgsRead /\ Open
  BY DEF StartupInv
<1> DEFINE broken == \E k \in DOMAIN registered : ~Instantiable(registered[k])
<1>1. /\ stage = "provider" /\ opt["--card-provider"] = None
      /\ \/ broken /\ End(Refused("PROVIDER_INSTANTIATION_FAILED"))
         \/ /\ ~broken
            /\ \/ Len(registered) > 1 /\ End(Refused("PROVIDER_AMBIGUOUS"))
               \/ Len(registered) = 1 /\ Use(registered[1])
               \/ Len(registered) = 0 /\ Use(Default)
  BY Zenon DEF Discover
<1>2. /\ stage # "ended" /\ stage \notin {"args", "ended"}
      /\ "--card-provider" \in Flags
      /\ "PROVIDER_INSTANTIATION_FAILED" \in Reasons /\ "PROVIDER_AMBIGUOUS" \in Reasons
  BY <1>1 DEF Flags, Reasons
<1>3. WellFormed => Asked("--card-provider") = None
  BY <1>0, <1>1, <1>2, Zenon DEF ArgsRead
<1>4. registered \in Seq(DOMAIN Classes)
  BY <1>0, Inputs
<1> HIDE DEF broken
<1>5. CASE broken /\ End(Refused("PROVIDER_INSTANTIATION_FAILED"))
  <2>1. WellFormed => Cause("PROVIDER_INSTANTIATION_FAILED")
    BY <1>3, <1>5, Zenon DEF Cause, broken
  <2>. QED  BY <1>2, <1>5, <2>1, Ending, Zenon
<1>6. CASE Len(registered) > 1 /\ End(Refused("PROVIDER_AMBIGUOUS"))
  <2>1. WellFormed => Cause("PROVIDER_AMBIGUOUS")
    BY <1>3, <1>6, Zenon DEF Cause
  <2>. QED  BY <1>2, <1>6, <2>1, Ending, Zenon
<1>7. ASSUME WellFormed, ~broken, ~(Len(registered) > 1),
             NEW r \in Reasons \ {"CARD_CREATE_FAILED", "INVALID_SCOPE"}
      PROVE  ~Cause(r)
  <2>1. r # "CARD_CREATE_FAILED" /\ r # "INVALID_SCOPE"
    BY Zenon
  <2>2. ~\E k \in DOMAIN registered : ~Instantiable(registered[k])
    BY <1>7, Zenon DEF broken
  <2>. QED  BY <1>3, <1>7, <2>1, <2>2, Zenon DEF Cause
<1>8. CASE ~broken /\ Len(registered) = 1 /\ Use(registered[1])
  <2>1. /\ 1 \in DOMAIN registered /\ registered # <<>>
        /\ registered[1] \in DOMAIN Classes /\ ~(Len(registered) > 1)
    BY <1>4, <1>8
  <2>2. WellFormed => registered[1] = Chosen
    BY <1>3, <2>1, Zenon DEF Chosen
  <2>3. Kind(registered[1]) \in Passing
    BY <1>8, <2>1, Zenon DEF broken, Instantiable, Passing
  <2>. QED  BY <1>1, <1>7, <1>8, <2>1, <2>2, <2>3, UseKeeps, Zenon
<1>9. CASE ~broken /\ Len(registered) = 0 /\ Use(Default)
  <2>1. registered = <<>> /\ ~(Len(registered) > 1)
    BY <1>4, <1>9
  <2>2. WellFormed => Default = Chosen
    BY <1>3, <2>1, Zenon DEF Chosen
  <2>. QED  BY <1>1, <1>7, <1>9, <2>1, <2>2, UseKeeps, Zenon
<1>. QED  BY <1>1, <1>5, <1>6, <1>8, <1>9, Zenon

\* TcpBridgeServer.start(): the first card, or the refusal for want of it.
LEMMA CreateCardKeeps == StartupInv /\ CreateCard => StartupInv'
<1> SUFFICES ASSUME StartupInv, CreateCard PROVE StartupInv'
  OBVIOUS
<1>0. TypeOK /\ ArgsRead /\ ConfigRead /\ Settled /\ Open
  BY DEF StartupInv
<1>1. /\ stage = "card"
      /\ \/ /\ CreateWorks /\ stage' = "bind"
            /\ UNCHANGED <<args, registered, i, opt, applets, cardScope, provider, bound,
                           outcome>>
         \/ ~CreateWorks /\ End(Refused("CARD_CREATE_FAILED"))
  BY Zenon DEF CreateCard
<1>2. /\ stage # "ended" /\ stage \notin {"args", "ended"}
      /\ stage \in {"scope", "provider", "card", "bind"}
      /\ stage \in {"provider", "card", "bind"} /\ stage \in {"card", "bind"}
      /\ "CARD_CREATE_FAILED" \in Reasons /\ "INVALID_SCOPE" \in Reasons
  BY <1>1 DEF Reasons
<1>3. WellFormed /\ Readable =>
         /\ applets = ConfiguredApplets /\ cardScope = ScopeAsked
         /\ ~Cause("INVALID_SCOPE") /\ provider = Chosen
         /\ \A r \in Reasons \ {"CARD_CREATE_FAILED"} : ~Cause(r)
  BY <1>0, <1>2, Zenon DEF Settled
<1>4. provider = Default \/ Kind(provider) \in Passing
  BY <1>0, <1>2, Zenon DEF Open, Passing
<1>5. /\ "CARD_CREATE_FAILED" # "PROVIDER_NOT_FOUND"
      /\ "CARD_CREATE_FAILED" # "PROVIDER_NOT_A_CARD_PROVIDER"
      /\ "CARD_CREATE_FAILED" # "PROVIDER_NO_NOARG_CTOR"
      /\ "CARD_CREATE_FAILED" # "PROVIDER_INSTANTIATION_FAILED"
      /\ "CARD_CREATE_FAILED" # "PROVIDER_AMBIGUOUS"
      /\ "CARD_CREATE_FAILED" # "INVALID_SCOPE"
      /\ "good" \notin {"createthrows", "createsnull"}
  OBVIOUS
<1>6. WellFormed /\ Readable => (Cause("CARD_CREATE_FAILED") <=> ~CreateWorks)
  <2> SUFFICES ASSUME WellFormed, Readable
               PROVE  Cause("CARD_CREATE_FAILED") <=> ~CreateWorks
    OBVIOUS
  <2>1. Cause("CARD_CREATE_FAILED") <=>
           \/ Chosen # Default /\ Kind(Chosen) \in {"createthrows", "createsnull"}
           \/ /\ Chosen = Default
              /\ \E k \in DOMAIN ConfiguredApplets : ConfiguredApplets[k] # "installable"
    BY <1>5, Zenon DEF Cause
  <2>2. CASE provider = Default
    BY <1>3, <2>1, <2>2, Zenon DEF CreateWorks
  <2>3. CASE provider # Default
    BY <1>3, <1>4, <2>1, <2>3, Distinct, Zenon DEF CreateWorks
  <2>. QED  BY <2>2, <2>3
<1>7. CASE ~CreateWorks /\ End(Refused("CARD_CREATE_FAILED"))
  BY <1>2, <1>6, <1>7, Ending, Zenon
<1>8. CASE /\ CreateWorks /\ stage' = "bind"
           /\ UNCHANGED <<args, registered, i, opt, applets, cardScope, provider, bound,
                          outcome>>
  <2>1. stage' # "args" /\ stage' # "ended" /\ stage' # "config"
    BY <1>8
  <2>2. TypeOK'
    BY <1>0, <1>8 DEF TypeOK
  <2>3. /\ WellFormed' <=> WellFormed
        /\ Readable' <=> Readable
        /\ \A f \in Flags : Asked(f)' = Asked(f)
        /\ ConfiguredApplets' = ConfiguredApplets /\ ScopeAsked' = ScopeAsked
        /\ Chosen' = Chosen
        /\ \A r \in Reasons : Cause(r)' <=> Cause(r)
    BY <1>8, Rigid, Zenon
  <2>4. ArgsRead'
    BY <1>0, <1>2, <1>8, <2>1, <2>3, Zenon DEF ArgsRead
  <2>5. ConfigRead'
    BY <2>1, Zenon DEF ConfigRead
  <2>6. WellFormed /\ Readable =>
           /\ \A r \in Reasons \ {"CARD_CREATE_FAILED"} : ~(Cause(r)')
           /\ ~(Cause("INVALID_SCOPE")') /\ ~(Cause("CARD_CREATE_FAILED")')
    BY <1>2, <1>3, <1>6, <1>8, <2>3, Zenon
  <2>7. Settled'
    BY <1>3, <1>8, <2>3, <2>6, Zenon DEF Settled
  <2>8. Open'
    <3>1. CreateWorks'
      BY <1>8, Zenon DEF CreateWorks, Kind
    <3>2. provider' = Default \/ Kind(provider)' \in Passing
      BY <1>4, <1>8, Zenon DEF Kind
    <3>3. outcome' = None /\ ~bound' /\ DOMAIN opt' = Flags
      BY <1>0, <1>2, <1>8, Zenon DEF Open
    <3>. QED  BY <2>1, <3>1, <3>2, <3>3, Zenon DEF Open, Passing
  <2>. QED  BY <2>1, <2>2, <2>4, <2>5, <2>7, <2>8, GoingOn, Zenon
<1>. QED  BY <1>1, <1>7, <1>8, Zenon

\* The port is bound: nothing was wrong, and all is as it was asked for.
LEMMA BindKeeps == StartupInv /\ (Bind \/ BindFail) => StartupInv'
<1> SUFFICES ASSUME StartupInv, Bind \/ BindFail PROVE StartupInv'
  OBVIOUS
<1>0. TypeOK /\ ArgsRead /\ ConfigRead /\ Settled /\ Open
  BY DEF StartupInv
<1>1. /\ stage = "bind" /\ stage # "ended"
      /\ stage \in {"scope", "provider", "card", "bind"}
      /\ stage \in {"provider", "card", "bind"} /\ stage \in {"card", "bind"}
  BY DEF Bind, BindFail
<1>2. WellFormed /\ Readable =>
         /\ applets = ConfiguredApplets /\ cardScope = ScopeAsked /\ provider = Chosen
         /\ \A r \in Reasons : ~Cause(r)
  BY <1>0, <1>1, Zenon DEF Settled
<1>3. CASE BindFail
  <2>1. End(Crashed)
    BY <1>3 DEF BindFail
  <2>. QED  BY <1>1, <1>2, <2>1, Ending, Zenon
<1>4. CASE Bind
  <2>1. /\ bound' = TRUE /\ outcome' = Serving /\ stage' = "ended"
        /\ UNCHANGED <<args, registered, i, opt, applets, cardScope, provider>>
    BY <1>4 DEF Bind
  <2>2. stage' \notin {"args", "config", "scope", "provider", "card", "bind"}
    BY <2>1
  <2>3. TypeOK'
    BY <1>0, <2>1 DEF TypeOK
  <2>4. ArgsRead'
    BY <2>1, <2>2 DEF ArgsRead
  <2>5. ConfigRead' /\ Settled'
    BY <2>2, Zenon DEF ConfigRead, Settled
  <2>6. Open'
    BY <1>0, <2>1, <2>2 DEF Open
  <2>7. RefusedUnbound'
    <3>1. CreateWorks'
      BY <1>0, <1>1, <2>1, Zenon DEF Open, CreateWorks, Kind
    <3>. QED  BY <2>1, <2>3, <3>1, Zenon DEF RefusedUnbound
  <2>8. OutcomeAsDocumented'
    <3>1. /\ WellFormed' <=> WellFormed
          /\ Readable' <=> Readable
          /\ ConfiguredApplets' = ConfiguredApplets /\ ScopeAsked' = ScopeAsked
          /\ Chosen' = Chosen
          /\ \A r \in Reasons : Cause(r)' <=> Cause(r)
      BY <2>1, Rigid, Zenon
    <3>2. Serving.code # 2
      BY DEF Serving
    <3>. QED  BY <1>2, <2>1, <3>1, <3>2, Zenon DEF OutcomeAsDocumented, ScopeAsked
  <2>. QED  BY <2>3, <2>4, <2>5, <2>6, <2>7, <2>8, Zenon DEF StartupInv
<1>. QED  BY <1>3, <1>4

----------------------------------------------------------------------------
\* The whole start.

\* At the beginning nothing is read: no option has a value.
LEMMA StartupInit == Init => StartupInv
<1> SUFFICES ASSUME Init PROVE StartupInv
  OBVIOUS
<1>1. /\ args \in CommandLines /\ registered \in Registrations
      /\ stage = "args" /\ i = 1 /\ opt = [f \in Flags |-> None] /\ applets = <<>>
      /\ cardScope = None /\ provider = None /\ bound = FALSE /\ outcome = None
  BY DEF Init
<1>2. Len(args) \in Nat
  BY <1>1, InputsAssumption
<1>3. TypeOK
  <2>1. i \in 1..(Len(args) + 1)
    BY <1>1, <1>2
  <2>2. \A k \in DOMAIN applets : applets[k] \in EntryKinds \ {"gap"}
    BY <1>1
  <2>3. outcome \in {None, Serving, Crashed} \cup {Refused(r) : r \in Reasons}
    BY <1>1, Zenon
  <2>4. stage \in {"args", "config", "scope", "provider", "card", "bind", "ended"}
    BY <1>1
  <2>. QED  BY <1>1, <2>1, <2>2, <2>3, <2>4, Zenon DEF TypeOK
<1>4. /\ stage # "ended" /\ stage # "config" /\ ~(stage \notin {"args", "ended"})
      /\ stage # "bind" /\ stage \notin {"scope", "provider", "card", "bind"}
      /\ stage \notin {"provider", "card", "bind"} /\ stage \notin {"card", "bind"}
  BY <1>1
<1>5. ArgsRead
  <2>1. i % 2 = 1
    BY <1>1
  <2>2. ASSUME NEW f \in Flags PROVE Told(args, f, i, opt[f])
    <3>1. Places(args, f, i) = {}
      BY <1>1, <1>2 DEF Places
    <3>2. opt[f] = None
      BY <1>1
    <3>. QED  BY <3>1, <3>2, Zenon DEF Told
  <2>. QED  BY <1>1, <1>4, <2>1, <2>2, Zenon DEF ArgsRead
<1>6. ConfigRead /\ Settled
  BY <1>4, Zenon DEF ConfigRead, Settled
<1>7. Open
  BY <1>1, <1>4 DEF Open
<1>8. OutcomeAsDocumented
  BY <1>1, Zenon DEF OutcomeAsDocumented
<1>9. RefusedUnbound
  BY <1>1, <1>3, Zenon DEF RefusedUnbound
<1>. QED  BY <1>3, <1>5, <1>6, <1>7, <1>8, <1>9, Zenon DEF StartupInv

\* A stutter changes nothing.
LEMMA StartupStutter == StartupInv /\ UNCHANGED vars => StartupInv'
<1> SUFFICES ASSUME StartupInv, UNCHANGED vars PROVE StartupInv'
  OBVIOUS
<1>0. TypeOK /\ ArgsRead /\ ConfigRead /\ Settled /\ Open /\ OutcomeAsDocumented
      /\ RefusedUnbound
  BY Zenon DEF StartupInv
<1>1. /\ args' = args /\ registered' = registered /\ stage' = stage /\ i' = i
      /\ opt' = opt /\ applets' = applets /\ cardScope' = cardScope
      /\ provider' = provider /\ bound' = bound /\ outcome' = outcome
  BY DEF vars
<1>2. /\ WellFormed' <=> WellFormed
      /\ Readable' <=> Readable
      /\ \A f \in Flags : Asked(f)' = Asked(f)
      /\ Chosen' = Chosen /\ ConfiguredApplets' = ConfiguredApplets
      /\ ScopeAsked' = ScopeAsked
      /\ \A r \in Reasons : Cause(r)' <=> Cause(r)
  BY <1>1, Rigid, Zenon
<1>3. TypeOK'
  BY <1>0, <1>1, Zenon DEF TypeOK
<1>4. ArgsRead'
  BY <1>0, <1>1, <1>2, Zenon DEF ArgsRead
<1>5. ConfigRead'
  BY <1>0, <1>1, Zenon DEF ConfigRead
<1>6. Settled'
  <2>1. "INVALID_SCOPE" \in Reasons /\ "CARD_CREATE_FAILED" \in Reasons
    BY DEF Reasons
  <2>2. /\ ~Cause("INVALID_SCOPE") <=> ~(Cause("INVALID_SCOPE")')
        /\ ~Cause("CARD_CREATE_FAILED") <=> ~(Cause("CARD_CREATE_FAILED")')
        /\ (\A r \in Reasons \ {"CARD_CREATE_FAILED"} : ~Cause(r))
              => \A r \in Reasons \ {"CARD_CREATE_FAILED"} : ~(Cause(r)')
    BY <1>2, <2>1, Zenon
  <2>. QED  BY <1>0, <1>1, <1>2, <2>2, Zenon DEF Settled
<1>7. CreateWorks => CreateWorks'
  BY <1>1, Zenon DEF CreateWorks, Kind
<1>8. Open'
  BY <1>0, <1>1, <1>7, Zenon DEF Open, Kind
<1>9. RefusedUnbound'
  BY <1>0, <1>1, <1>3, <1>7, Zenon DEF RefusedUnbound
<1>10. OutcomeAsDocumented'
  <2>1. Cause(outcome.reason)' <=> Cause(outcome.reason)
    <3>1. /\ Asked("--config")' = Asked("--config")
          /\ Asked("--card-provider")' = Asked("--card-provider")
          /\ Asked("--card-scope")' = Asked("--card-scope")
      BY <1>2 DEF Flags
    <3>. QED  BY <1>1, <1>2, <3>1, Zenon DEF Cause
  <2>2. (\E r \in Reasons : Cause(r)') <=> \E r \in Reasons : Cause(r)
    BY <1>2, Zenon
  <2>. QED  BY <1>0, <1>1, <1>2, <2>1, <2>2, Zenon DEF OutcomeAsDocumented, ScopeAsked
<1>. QED  BY <1>3, <1>4, <1>5, <1>6, <1>8, <1>9, <1>10, Zenon DEF StartupInv

\* Every step keeps the invariant.
LEMMA StartupStep == StartupInv /\ [Next]_vars => StartupInv'
<1> SUFFICES ASSUME StartupInv, [Next]_vars PROVE StartupInv'
  OBVIOUS
<1>1. CASE TakeValue
  BY <1>1, TakeValueKeeps, Zenon
<1>2. CASE ValueMissing \/ PortNotANumber
  BY <1>2, ArgsCrash, Zenon
<1>3. CASE PassOver
  BY <1>3, PassOverKeeps, Zenon
<1>4. CASE ArgsDone
  BY <1>4, ArgsDoneKeeps, Zenon
<1>5. CASE ConfigUnreadable
  BY <1>5, ConfigCrash, Zenon
<1>6. CASE AddApplet
  BY <1>6, AddAppletKeeps, Zenon
<1>7. CASE ConfigDone
  BY <1>7, ConfigDoneKeeps, Zenon
<1>8. CASE ParseScope
  BY <1>8, ParseScopeKeeps, Zenon
<1>9. CASE LoadByName
  BY <1>9, LoadByNameKeeps, Zenon
<1>10. CASE Discover
  BY <1>10, DiscoverKeeps, Zenon
<1>11. CASE CreateCard
  BY <1>11, CreateCardKeeps, Zenon
<1>12. CASE Bind \/ BindFail
  BY <1>12, BindKeeps, Zenon
<1>13. CASE UNCHANGED vars
  BY <1>13, StartupStutter, Zenon
<1>. QED
  BY <1>1, <1>2, <1>3, <1>4, <1>5, <1>6, <1>7, <1>8, <1>9, <1>10, <1>11, <1>12, <1>13,
     Zenon DEF Next

\* Hence the invariant holds throughout every start.
LEMMA StartupAlways == Spec => []StartupInv
<1>. QED  BY StartupInit, StartupStep, PTL DEF Spec

\* A start of Main that ends does what the README's tables say of its command
\* line and of the registrations: exit code 2 exactly when a refusal has a
\* cause, with a reason that applies; and a bridge that serves runs the
\* provider, the scope and the applets asked for, whatever lines, classes and
\* config files there are.
THEOREM StartsAsDocumented == Spec => []OutcomeAsDocumented
<1>1. StartupInv => OutcomeAsDocumented
  BY Zenon DEF StartupInv
<1>. QED  BY <1>1, StartupAlways, PTL

\* TcpBridgeServer.start() leaves no port bound behind a start that is refused
\* or crashes: whatever is bound serves, and its provider made a card.
THEOREM NothingBoundIfRefused == Spec => []RefusedUnbound
<1>1. StartupInv => RefusedUnbound
  BY Zenon DEF StartupInv
<1>. QED  BY <1>1, StartupAlways, PTL

=============================================================================
