----------------------------- MODULE SchemaProofs -----------------------------
(***************************************************************************)
(* For every set of contracts: a schema that normalizeSchema and Validate  *)
(* let through gives dispatchTo() an unambiguous switch, keeps to what the *)
(* runtime can serve, and the wire fixture derived from it passes the      *)
(* right corpus and none with a defect.                                    *)
(***************************************************************************)
EXTENDS WireProbe, Induction, FiniteSetTheorems, TLAPS

\* The kinds of errors validateMethodINSRange reports.
InsKinds == {"ins range", "ins taken", "ins reserved"}

\* The INS bytes of method a are usable and recorded, and those of every other
\* method up to the same point are different ones.
Settled(ms, taken, a, upTo) ==
    /\ InsOf(ms[a]) \subseteq (0..MaxByte) \ Reserved
    /\ InsOf(ms[a]) \subseteq taken
    /\ \A b \in 1..upTo : a # b => InsOf(ms[a]) \cap InsOf(ms[b]) = {}

\* The inductive invariant.  DispatchUnambiguous speaks of accepted schemas
\* only; what the loop maintains is that, as long as no INS error is recorded,
\* insSeen holds the INS bytes of the methods visited, which are disjoint.
DispatchInv ==
    /\ DOMAIN methods = 1..Len(methods)
    /\ Len(methods) \in Nat
    /\ n \in 0..Len(methods)
    /\ stage \in {"normalize", "applet"} => n = 0
    /\ raw \in RawSchemas
    /\ InsKinds \cap errs = {} => \A a \in 1..n : Settled(methods, seen, a, n)
    /\ stage = "accepted" => errs = {} /\ n = Len(methods)

\* A method that adds no INS error has usable bytes that nobody took.
LEMMA NoInsError ==
    ASSUME NEW m, InsKinds \cap InsErrors(m) = {}
    PROVE  /\ InsOf(m) \subseteq (0..MaxByte) \ Reserved
           /\ InsOf(m) \cap seen = {}
<1>1. "ins range" \notin InsErrors(m) /\ "ins taken" \notin InsErrors(m)
        /\ "ins reserved" \notin InsErrors(m)
  BY Zenon DEF InsKinds
<1>2. InsOf(m) \subseteq 0..MaxByte /\ InsOf(m) \cap seen = {}
        /\ InsOf(m) \cap Reserved = {}
  BY <1>1, Zenon DEF InsErrors, Err
<1> QED
  BY <1>2

\* The INS loop of validateMethods keeps the invariant.
LEMMA MethodKeepsInv ==
    ASSUME DispatchInv, ValidateMethod
    PROVE  DispatchInv'
<1> DEFINE m == methods[n + 1]
<1> USE DEF DispatchInv
<1>1. /\ n' = n + 1 /\ n < Len(methods) /\ stage = "methods"
      /\ UNCHANGED <<raw, methods, stage>>
      /\ seen' = seen \cup (InsOf(m) \cap 0..MaxByte)
      /\ errs \subseteq errs' /\ InsErrors(m) \subseteq errs'
  BY Zenon DEF ValidateMethod
<1>2. ASSUME InsKinds \cap errs' = {}
      PROVE  \A a \in 1..n' : Settled(methods', seen', a, n')
  <2>1. InsKinds \cap errs = {} /\ InsKinds \cap InsErrors(m) = {}
    BY <1>1, <1>2
  <2>2. /\ InsOf(m) \subseteq (0..MaxByte) \ Reserved
        /\ InsOf(m) \cap seen = {}
    BY <2>1, NoInsError, Zenon
  <2>3. \A a \in 1..n : Settled(methods, seen, a, n)
    BY <2>1, Zenon
  <2>4. \A a \in 1..n : InsOf(methods[a]) \cap InsOf(m) = {}
    BY <2>2, <2>3, Zenon DEF Settled
  <2>5. InsOf(m) \subseteq seen' /\ seen \subseteq seen'
    BY <1>1, <2>2
  <2>6. SUFFICES ASSUME NEW a \in 1..(n + 1)
                 PROVE  Settled(methods, seen', a, n + 1)
    BY <1>1
  <2>7. CASE a = n + 1
    <3>1. \A b \in 1..(n + 1) : a # b => b \in 1..n
      BY <2>7, <1>1
    <3> QED
      BY <3>1, <2>7, <2>2, <2>4, <2>5, Zenon DEF Settled
  <2>8. CASE a \in 1..n
    <3>1. \A b \in 1..(n + 1) : b = n + 1 \/ b \in 1..n
      BY <1>1
    <3> QED
      BY <3>1, <2>8, <2>3, <2>4, <2>5, Zenon DEF Settled
  <2> QED
    BY <2>7, <2>8, <1>1
<1>3. DOMAIN methods' = 1..Len(methods') /\ Len(methods') \in Nat
        /\ n' \in 0..Len(methods')
  BY <1>1
<1> QED
  BY <1>1, <1>2, <1>3

\* The other steps leave the visited methods alone.
LEMMA OthersKeepInv ==
    ASSUME DispatchInv, [Normalize \/ ValidateApplet \/ ValidateStatusWords]_vars
    PROVE  DispatchInv'
<1> USE DEF DispatchInv
<1>1. CASE Normalize
  <2>1. n = 0 /\ n' = 0 /\ raw' = raw /\ raw \in RawSchemas /\ stage' # "accepted"
    BY <1>1 DEF Normalize
  <2>2. DOMAIN methods' = 1..Len(methods') /\ Len(methods') \in Nat
    <3>1. CASE SchemaParses
      <4>1. PICK k \in Nat : DOMAIN raw.methods = 1..k
        BY <2>1, RawAssumption
      <4>2. methods' = [a \in 1..k |-> methods'[a]]
        BY <3>1, <4>1, <1>1 DEF Normalize
      <4> QED
        BY <4>2
    <3>2. CASE ~SchemaParses
      BY <3>2, <1>1 DEF Normalize
    <3> QED
      BY <3>1, <3>2, Zenon
  <2> QED
    BY <2>1, <2>2
<1>2. CASE ValidateApplet \/ ValidateStatusWords \/ UNCHANGED vars
  <2>1. UNCHANGED <<raw, methods, n, seen>> /\ errs \subseteq errs'
    BY <1>2, Zenon DEF ValidateApplet, ValidateStatusWords, vars
  <2>2. \A a \in 1..n : Settled(methods', seen', a, n) <=> Settled(methods, seen, a, n)
    BY <2>1, Zenon
  <2>3. stage' = "accepted" => errs' = {} /\ n = Len(methods)
    BY <1>2, Zenon DEF ValidateApplet, ValidateStatusWords, vars
  <2>4. stage' \in {"normalize", "applet"} => n = 0
    BY <1>2, Zenon DEF ValidateApplet, ValidateStatusWords, vars
  <2> QED
    BY <2>1, <2>2, <2>3, <2>4, Zenon
<1> QED
  BY <1>1, <1>2, Zenon

\* dispatchTo()'s switch is well defined for every accepted contract: all INS
\* bytes of all methods are bytes outside the reserved ranges and pairwise
\* different.
THEOREM AcceptedDispatch == Spec => []DispatchUnambiguous
<1>1. Init => DispatchInv
  BY DEF Init, DispatchInv
<1>2. DispatchInv /\ [Next]_vars => DispatchInv'
  BY MethodKeepsInv, OthersKeepInv DEF Next
<1>3. DispatchInv => DispatchUnambiguous
  BY DEF DispatchInv, DispatchUnambiguous, Settled
<1> QED
  BY <1>1, <1>2, <1>3, PTL DEF Spec

----------------------------------------------------------------------------
\* What an accepted schema's methods are known to be free of.

\* The kinds of errors validateMethods collects of one method besides those of
\* its name and its INS bytes.
MethodKinds(m) ==
    MessageErrors(m.request) \cup MessageErrors(m.response)
      \cup StreamModeErrors(m) \cup StreamedMethodErrors(m)

\* Every field of a request has a place.
FieldsPlaced(msg) ==
    msg # None => \A b \in DOMAIN msg : msg[b].location \in {"p1", "p2", "data"}

\* The inductive invariant: the errors of every method visited are recorded,
\* and from the parser on every request field has a place.
VisitedInv ==
    /\ DispatchInv
    /\ stage \in {"normalize", "applet", "methods", "accepted", "refused"}
    /\ seen \subseteq 0..MaxByte
    /\ \A a \in 1..n : MethodKinds(methods[a]) \subseteq errs
    /\ stage \in {"applet", "methods", "accepted"} =>
          \A a \in DOMAIN methods : FieldsPlaced(methods[a].request)

\* assignRequestLocations gives every field of a parsed message a place.
LEMMA LocatedIsPlaced ==
    ASSUME NEW msg, \A b \in DOMAIN msg : FieldParses(msg[b]),
           \A b \in DOMAIN msg : DOMAIN msg[b] = FieldKeys
    PROVE  \A b \in DOMAIN Located(msg) :
              Located(msg)[b].location \in {"p1", "p2", "data"}
<1> SUFFICES ASSUME NEW b \in DOMAIN msg
             PROVE  Located(msg)[b].location \in {"p1", "p2", "data"}
  BY DEF Located
<1>1. PICK v \in {"p1", "p2", "data"} : Located(msg)[b] = [msg[b] EXCEPT !.location = v]
  <2>1. msg[b].location \in Locations
    BY DEF FieldParses
  <2>. QED  BY <2>1 DEF Located, Locations
<1>2. "location" \in DOMAIN msg[b]
  BY DEF FieldKeys
<1>. QED  BY <1>1, <1>2

\* The fields of a request that the parser lets through.
LEMMA ParsedFields ==
    ASSUME raw \in RawSchemas, SchemaParses, NEW a \in DOMAIN raw.methods,
           NEW msg, msg = raw.methods[a].request, msg # None
    PROVE  \A b \in DOMAIN msg : FieldParses(msg[b]) /\ DOMAIN msg[b] = FieldKeys
<1>1. MessageParses(raw.methods[a].request, TRUE)
  BY DEF SchemaParses
<1>2. \A b \in DOMAIN msg : FieldParses(msg[b])
  BY <1>1 DEF MessageParses
<1>3. msg \in {raw.methods[a].request, raw.methods[a].response} \ {None}
  OBVIOUS
<1>4. ASSUME NEW r \in RawSchemas, NEW c \in DOMAIN r.methods,
             NEW m \in {r.methods[c].request, r.methods[c].response} \ {None},
             NEW b \in DOMAIN m
      PROVE  DOMAIN m[b] = FieldKeys
  BY RawAssumption
<1>5. \A b \in DOMAIN msg : DOMAIN msg[b] = FieldKeys
  BY <1>3, <1>4
<1>. QED  BY <1>2, <1>5

\* normalizeSchema leaves a place to every field of every request.
LEMMA NormalizePlaces ==
    ASSUME VisitedInv, Normalize, SchemaParses, NEW a \in DOMAIN methods'
    PROVE  FieldsPlaced(methods'[a].request)
<1>1. /\ methods' = [c \in DOMAIN raw.methods |->
                       [raw.methods[c] EXCEPT
                          !.request = IF @ = None THEN None ELSE Located(@)]]
      /\ raw \in RawSchemas
  BY DEF Normalize, VisitedInv, DispatchInv
<1>2. a \in DOMAIN raw.methods
  BY <1>1
<1>3. DOMAIN raw.methods[a] = MethodKeys
  BY <1>1, <1>2, RawAssumption
<1>4. PICK msg : msg = raw.methods[a].request
  OBVIOUS
<1>5. methods'[a].request = IF msg = None THEN None ELSE Located(msg)
  BY <1>1, <1>2, <1>3, <1>4 DEF MethodKeys
<1>6. ASSUME msg # None
      PROVE  \A b \in DOMAIN msg : FieldParses(msg[b]) /\ DOMAIN msg[b] = FieldKeys
  BY <1>1, <1>2, <1>4, <1>6, ParsedFields
<1>7. ASSUME msg # None
      PROVE  \A b \in DOMAIN Located(msg) :
                Located(msg)[b].location \in {"p1", "p2", "data"}
  BY <1>6, <1>7, LocatedIsPlaced
<1>. QED  BY <1>5, <1>7 DEF FieldsPlaced

\* Every step keeps the invariant.
LEMMA VisitedStep ==
    ASSUME VisitedInv, [Next]_vars
    PROVE  VisitedInv'
<1>1. DispatchInv'
  BY MethodKeepsInv, OthersKeepInv DEF Next, VisitedInv
<1>2. CASE Normalize
  <2>1. n = 0 /\ n' = 0 /\ seen' = seen /\ stage' \in {"applet", "refused"}
    BY <1>2 DEF Normalize, VisitedInv, DispatchInv
  <2>2. stage' = "applet" => SchemaParses
    BY <1>2 DEF Normalize
  <2>3. stage' \in {"applet", "methods", "accepted"} =>
          \A a \in DOMAIN methods' : FieldsPlaced(methods'[a].request)
    BY <1>2, <2>1, <2>2, NormalizePlaces
  <2>. QED  BY <1>1, <2>1, <2>3 DEF VisitedInv
<1>3. CASE ValidateMethod
  <2> DEFINE m == methods[n + 1]
  <2>1. /\ n' = n + 1 /\ stage = "methods"
        /\ UNCHANGED <<raw, methods, stage>>
        /\ seen' = seen \cup (InsOf(m) \cap 0..MaxByte)
        /\ errs \subseteq errs' /\ MethodKinds(m) \subseteq errs'
    BY <1>3, Zenon DEF ValidateMethod, MethodKinds
  <2>2. \A a \in 1..(n + 1) : a \in 1..n \/ a = n + 1
    <3>1. n \in 0..Len(methods) /\ Len(methods) \in Nat
      BY Zenon DEF VisitedInv, DispatchInv
    <3>. QED  BY <3>1
  <2>3. ASSUME NEW a \in 1..(n + 1) PROVE MethodKinds(methods[a]) \subseteq errs'
    BY <2>1, <2>2 DEF VisitedInv
  <2>4. ASSUME NEW k PROVE MethodKinds(k)' = MethodKinds(k)
    BY <2>1, Zenon DEF MethodKinds, StreamModeErrors, StreamedMethodErrors
  <2>5. \A a \in 1..n' : MethodKinds(methods[a])' \subseteq errs'
    BY <2>1, <2>3, <2>4
  <2>. QED  BY <1>1, <2>1, <2>5 DEF VisitedInv
<1>4. CASE ValidateApplet \/ ValidateStatusWords \/ UNCHANGED vars
  <2>1. UNCHANGED <<raw, methods, n, seen>> /\ errs \subseteq errs'
    BY <1>4, Zenon DEF ValidateApplet, ValidateStatusWords, vars
  <2>2. /\ stage' \in {"normalize", "applet", "methods", "accepted", "refused"}
        /\ stage' \in {"applet", "methods", "accepted"} =>
              stage \in {"applet", "methods", "accepted"}
    BY <1>4 DEF ValidateApplet, ValidateStatusWords, vars, VisitedInv
  <2>3. ASSUME NEW k PROVE MethodKinds(k)' = MethodKinds(k)
    BY <2>1, Zenon DEF MethodKinds, StreamModeErrors, StreamedMethodErrors
  <2>4. \A a \in 1..n' : MethodKinds(methods[a])' \subseteq errs'
    BY <2>1, <2>3 DEF VisitedInv
  <2>. QED  BY <1>1, <2>1, <2>2, <2>4 DEF VisitedInv
<1>. QED  BY <1>2, <1>3, <1>4 DEF Next

\* The invariant holds of every schema at every stage.
LEMMA VisitedAlways == Spec => []VisitedInv
<1>1. Init => VisitedInv
  BY DEF Init, VisitedInv, DispatchInv
<1>2. VisitedInv /\ [Next]_vars => VisitedInv'
  BY VisitedStep
<1>. QED  BY <1>1, <1>2, PTL DEF Spec

\* Nothing is wrong with the methods of an accepted schema.
LEMMA AcceptedMethod ==
    ASSUME VisitedInv, stage = "accepted", NEW a \in DOMAIN methods
    PROVE  MethodKinds(methods[a]) = {} /\ FieldsPlaced(methods[a].request)
  BY DEF VisitedInv, DispatchInv

----------------------------------------------------------------------------
\* The results.

\* A check that reports nothing found nothing.
LEMMA NoError ==
    ASSUME NEW kind, NEW occurs, Err(kind, occurs) = {}
    PROVE  ~occurs
  BY DEF Err

\* A set no two members of which differ has at most one.
LEMMA AtMostOne ==
    ASSUME NEW S, \A x, y \in S : x = y
    PROVE  Cardinality(S) <= 1
<1>1. CASE S = {}
  BY <1>1, FS_EmptySet
<1>2. CASE S # {}
  <2>1. PICK x : S = {x}
    BY <1>2
  <2>. QED  BY <2>1, FS_Singleton
<1>. QED  BY <1>1, <1>2

\* A client can put every accepted request on the wire: each field has a place,
\* P1 and P2 hold at most one field each and only one-byte ones, and a streamed
\* method leaves both to the packet index and count.
THEOREM AcceptedRequestsPlaced == Spec => []RequestsPlaced
<1>1. VisitedInv => RequestsPlaced
  <2> SUFFICES ASSUME VisitedInv PROVE RequestsPlaced
    OBVIOUS
  <2>1. TypeOK
    BY DEF TypeOK, VisitedInv, DispatchInv
  <2>2. SUFFICES ASSUME stage = "accepted", NEW a \in DOMAIN methods,
                        methods[a].request # None
                 PROVE  LET req == methods[a].request
                            at(where) == {b \in DOMAIN req : req[b].location = where}
                        IN  /\ at("p1") \cup at("p2") \cup at("data") = DOMAIN req
                            /\ Cardinality(at("p1")) <= 1
                            /\ Cardinality(at("p2")) <= 1
                            /\ \A b \in at("p1") \cup at("p2") : OneByte(req[b])
                            /\ HasStream(methods[a]) => at("p1") \cup at("p2") = {}
    BY <2>1, Zenon DEF RequestsPlaced
  <2> DEFINE req == methods[a].request
             at(where) == {b \in DOMAIN req : req[b].location = where}
  <2>3. MessageErrors(req) = {} /\ StreamedMethodErrors(methods[a]) = {}
    BY <2>2, AcceptedMethod, Zenon DEF MethodKinds
  <2>4. \A b \in DOMAIN req : req[b].location \in {"p1", "p2", "data"}
    BY <2>2, AcceptedMethod DEF FieldsPlaced
  <2>5. at("p1") \cup at("p2") \cup at("data") = DOMAIN req
    BY <2>4
  <2>6. ~SamePlace(req, "p1") /\ ~SamePlace(req, "p2")
    BY <2>2, <2>3 DEF MessageErrors, Err
  <2>7. Cardinality(at("p1")) <= 1 /\ Cardinality(at("p2")) <= 1
    BY <2>6, AtMostOne DEF SamePlace
  <2>8. \A b \in at("p1") \cup at("p2") : OneByte(req[b])
    BY <2>2, <2>3 DEF MessageErrors, Err
  <2>9. HasStream(methods[a]) => at("p1") \cup at("p2") = {}
    BY <2>2, <2>3 DEF StreamedMethodErrors, Err
  <2>. QED  BY <2>5, <2>7, <2>8, <2>9
<1>. QED  BY <1>1, VisitedAlways, PTL

\* A payload in chunks of c bytes takes no more chunks than it has c times.
LEMMA ChunksFit ==
    ASSUME NEW c \in 1..255, NEW x \in Nat, x <= c * 255
    PROVE  (x + c - 1) \div c <= 255
  OBVIOUS

\* The packet index and count of an accepted stream fit their byte.
THEOREM AcceptedPacketsFit == Spec => []PacketsFitByte
<1>1. ASSUME VisitedInv, stage = "accepted", NEW a \in DOMAIN methods,
             NEW msg \in {methods[a].request, methods[a].response} \ {None},
             NEW b \in DOMAIN msg, msg[b].type = "stream"
      PROVE  (msg[b].max + msg[b].chunk - 1) \div msg[b].chunk <= MaxByte
  <2>1. MessageErrors(msg) = {}
    BY <1>1, AcceptedMethod, Zenon DEF MethodKinds
  <2>2. StreamBounds(msg[b])
    BY <1>1, <2>1 DEF MessageErrors, Err
  <2>3. /\ msg[b].max \in Nat /\ msg[b].chunk \in 1..255
        /\ msg[b].max <= msg[b].chunk * 255
    <3>1. /\ OrZero(msg[b].max) \in 1..MaxLength
          /\ OrZero(msg[b].chunk) \in 1..255
          /\ OrZero(msg[b].max) <= OrZero(msg[b].chunk) * 255
      BY <2>2 DEF StreamBounds, MaxByte
    <3>2. \A v : OrZero(v) # 0 => OrZero(v) = v
      BY DEF OrZero
    <3>3. 0 \notin 1..MaxLength /\ 0 \notin 1..255 /\ 1..MaxLength \subseteq Nat
      OBVIOUS
    <3>4. OrZero(msg[b].max) = msg[b].max /\ OrZero(msg[b].chunk) = msg[b].chunk
      BY <3>1, <3>2, <3>3
    <3>. QED  BY <3>1, <3>3, <3>4
  <2>. QED  BY <2>3, ChunksFit DEF MaxByte
<1>2. VisitedInv => PacketsFitByte
  BY <1>1 DEF PacketsFitByte
<1>. QED  BY <1>2, VisitedAlways, PTL

----------------------------------------------------------------------------
\* The lengths of messages.

\* g adds up the sizes in s, of which there are z.
IsTotal(g, s, z) ==
    g = [a \in 0..z |-> IF a = 0 THEN 0 ELSE g[a - 1] + s[a]]

\* Such a sum exists, is a number, and is no less than each of its terms.
LEMMA SumExists ==
    ASSUME NEW s, NEW z \in Nat, \A a \in 1..z : s[a] \in Nat
    PROVE  \E g : /\ IsTotal(g, s, z)
                  /\ g[z] \in Nat
                  /\ \A a \in 1..z : g[z] >= s[a]
<1> DEFINE Good(k, g) == /\ IsTotal(g, s, k)
                         /\ g[k] \in Nat
                         /\ \A a \in 1..k : g[k] >= s[a]
           S == {k \in Nat : k <= z => \E g : Good(k, g)}
<1>1. 0 \in S
  <2>1. Good(0, [a \in 0..0 |-> 0])
    BY DEF IsTotal
  <2>. QED  BY <2>1
<1>2. ASSUME NEW k \in Nat, k \in S PROVE k + 1 \in S
  <2> SUFFICES ASSUME k + 1 <= z PROVE \E g : Good(k + 1, g)
    OBVIOUS
  <2>1. PICK g : Good(k, g)
    BY <1>2
  <2> DEFINE h == [a \in 0..(k + 1) |-> IF a = k + 1 THEN g[k] + s[k + 1] ELSE g[a]]
  <2>2. k + 1 \in 1..z /\ s[k + 1] \in Nat
    BY <1>2
  <2>3. \A a \in 0..k : h[a] = g[a]
    OBVIOUS
  <2>4. h[k + 1] = g[k] + s[k + 1]
    OBVIOUS
  <2>5. \A a \in 0..k : g[a] = IF a = 0 THEN 0 ELSE g[a - 1] + s[a]
    BY <2>1 DEF IsTotal
  <2> HIDE DEF h
  <2>6. \A a \in 0..(k + 1) : h[a] = IF a = 0 THEN 0 ELSE h[a - 1] + s[a]
    BY <2>3, <2>4, <2>5
  <2>7. IsTotal(h, s, k + 1)
    <3>1. h = [a \in 0..(k + 1) |-> h[a]]
      BY DEF h
    <3>. QED  BY <3>1, <2>6 DEF IsTotal
  <2>8. \A a \in 1..(k + 1) : h[k + 1] >= s[a]
    BY <2>1, <2>2, <2>4
  <2>. QED  BY <2>1, <2>2, <2>4, <2>7, <2>8
<1> HIDE DEF S
<1>3. z \in S
  BY <1>1, <1>2, SetInduction
<1>. QED  BY <1>3 DEF S

\* So Total is a number no less than any of its terms.
LEMMA TotalBounds ==
    ASSUME NEW s, NEW z \in Nat, Len(s) = z, \A a \in 1..z : s[a] \in Nat
    PROVE  /\ Total(s) \in Nat
           /\ \A a \in 1..z : Total(s) >= s[a]
<1> DEFINE f == CHOOSE g : IsTotal(g, s, z)
<1>1. PICK g : IsTotal(g, s, z) /\ g[z] \in Nat /\ \A a \in 1..z : g[z] >= s[a]
  BY SumExists
<1>2. IsTotal(f, s, z)
  BY <1>1, Zenon
<1>3. Total(s) = f[z]
  BY Zenon DEF Total, IsTotal
<1> HIDE DEF f
<1> DEFINE S == {k \in Nat : k <= z => f[k] = g[k]}
<1>4. f[0] = 0 /\ g[0] = 0
  BY <1>1, <1>2 DEF IsTotal
<1>5. ASSUME NEW k \in Nat, k \in S PROVE k + 1 \in S
  <2> SUFFICES ASSUME k + 1 <= z PROVE f[k + 1] = g[k + 1]
    OBVIOUS
  <2>1. f[k] = g[k] /\ k + 1 \in 0..z /\ k + 1 # 0 /\ (k + 1) - 1 = k
    BY <1>5
  <2>2. f[k + 1] = f[k] + s[k + 1]
    BY <1>2, <2>1 DEF IsTotal
  <2>3. g[k + 1] = g[k] + s[k + 1]
    BY <1>1, <2>1 DEF IsTotal
  <2>. QED  BY <2>1, <2>2, <2>3
<1>6. 0 \in S
  BY <1>4
<1> HIDE DEF S
<1>7. z \in S
  BY <1>5, <1>6, SetInduction
<1>8. f[z] = g[z]
  BY <1>7 DEF S
<1>. QED  BY <1>1, <1>3, <1>8

\* A message as the parser leaves it: a sequence of fields whose declared
\* lengths are numbers.
Measured(msg) ==
    /\ DOMAIN msg = 1..Len(msg) /\ Len(msg) \in Nat
    /\ \A b \in DOMAIN msg : msg[b].fixed \in Int /\ OrZero(msg[b].length) \in Nat

\* The inductive invariant for the lengths: what the parser checked of bytes
\* and lengths stays true of the methods.
MeasuredInv ==
    stage \in {"applet", "methods", "accepted"} =>
        /\ raw.cla \in 0..MaxByte
        /\ \A a \in DOMAIN methods :
              /\ methods[a].ins \in 0..MaxByte
              /\ methods[a].request # None => Measured(methods[a].request)
              /\ methods[a].response # None => Measured(methods[a].response)

\* A parsed message is one.
LEMMA ParsedMeasured ==
    ASSUME raw \in RawSchemas, NEW a \in DOMAIN raw.methods, NEW isRequest,
           NEW msg \in {raw.methods[a].request, raw.methods[a].response} \ {None},
           MessageParses(msg, isRequest)
    PROVE  Measured(msg)
<1>1. /\ DOMAIN msg = 1..Len(msg) /\ Len(msg) \in Nat
      /\ \A b \in DOMAIN msg : msg[b].fixed \in Int /\ msg[b].length \in Int \cup {None}
  <2> SUFFICES ASSUME NEW r \in RawSchemas, NEW c \in DOMAIN r.methods,
                      NEW m \in {r.methods[c].request, r.methods[c].response} \ {None}
               PROVE  /\ DOMAIN m = 1..Len(m) /\ Len(m) \in Nat
                      /\ \A b \in DOMAIN m : /\ m[b].fixed \in Int
                                             /\ m[b].length \in Int \cup {None}
    OBVIOUS
  <2>. QED  BY RawAssumption
<1>2. \A b \in DOMAIN msg : msg[b].length # None => msg[b].length > 0
  BY DEF MessageParses, FieldParses
<1>3. \A b \in DOMAIN msg : OrZero(msg[b].length) \in Nat
  BY <1>1, <1>2 DEF OrZero
<1>. QED  BY <1>1, <1>3 DEF Measured

\* Placing the fields of a message changes nothing of it but the places.
LEMMA LocatedMeasured ==
    ASSUME NEW msg, Measured(msg), \A b \in DOMAIN msg : DOMAIN msg[b] = FieldKeys
    PROVE  Measured(Located(msg))
<1>1. \A b \in DOMAIN msg : \E v : Located(msg)[b] = [msg[b] EXCEPT !.location = v]
  BY DEF Located
<1>2. DOMAIN Located(msg) = DOMAIN msg
  BY DEF Located
<1>3. ASSUME NEW b \in DOMAIN msg
      PROVE  /\ Located(msg)[b].fixed = msg[b].fixed
             /\ Located(msg)[b].length = msg[b].length
  <2>1. PICK v : Located(msg)[b] = [msg[b] EXCEPT !.location = v]
    BY <1>1
  <2>2. DOMAIN msg[b] = FieldKeys
    OBVIOUS
  <2>. QED  BY <2>1, <2>2 DEF FieldKeys
<1>4. Len(Located(msg)) = Len(msg)
  <2>1. PICK k \in Nat : Len(msg) = k /\ DOMAIN msg = 1..k
    BY DEF Measured
  <2>2. Located(msg) = [b \in 1..k |-> Located(msg)[b]]
    BY <2>1 DEF Located
  <2>. QED  BY <2>1, <2>2
<1>. QED  BY <1>2, <1>3, <1>4 DEF Measured

\* Every step keeps the invariant.
LEMMA MeasuredStep ==
    ASSUME VisitedInv, MeasuredInv, [Next]_vars
    PROVE  MeasuredInv'
<1>1. CASE Normalize
  <2> SUFFICES ASSUME stage' \in {"applet", "methods", "accepted"}
               PROVE  /\ raw'.cla \in 0..MaxByte
                      /\ \A a \in DOMAIN methods' :
                            /\ methods'[a].ins \in 0..MaxByte
                            /\ methods'[a].request # None => Measured(methods'[a].request)
                            /\ methods'[a].response # None => Measured(methods'[a].response)
    BY Zenon DEF MeasuredInv, Measured, OrZero
  <2>1. /\ SchemaParses /\ raw' = raw
        /\ methods' = [c \in DOMAIN raw.methods |->
                         [raw.methods[c] EXCEPT
                            !.request = IF @ = None THEN None ELSE Located(@)]]
        /\ raw \in RawSchemas
    BY <1>1 DEF Normalize, VisitedInv, DispatchInv
  <2>2. raw'.cla \in 0..MaxByte
    BY <2>1 DEF SchemaParses
  <2>3. SUFFICES ASSUME NEW a \in DOMAIN raw.methods
                 PROVE  /\ methods'[a].ins \in 0..MaxByte
                        /\ methods'[a].request # None => Measured(methods'[a].request)
                        /\ methods'[a].response # None => Measured(methods'[a].response)
    BY <2>1, <2>2
  <2>4. DOMAIN raw.methods[a] = MethodKeys
    BY <2>1, RawAssumption
  <2>5. PICK req, resp : req = raw.methods[a].request /\ resp = raw.methods[a].response
    OBVIOUS
  <2>6. /\ methods'[a].ins = raw.methods[a].ins
        /\ methods'[a].request = IF req = None THEN None ELSE Located(req)
        /\ methods'[a].response = resp
    BY <2>1, <2>4, <2>5 DEF MethodKeys
  <2>7. /\ raw.methods[a].ins \in 0..MaxByte
        /\ MessageParses(req, TRUE) /\ MessageParses(resp, FALSE)
    BY <2>1, <2>5 DEF SchemaParses
  <2>8. (req # None => Measured(req)) /\ (resp # None => Measured(resp))
    BY <2>1, <2>5, <2>7, ParsedMeasured
  <2>9. ASSUME req # None PROVE Measured(Located(req))
    <3>1. \A b \in DOMAIN req : DOMAIN req[b] = FieldKeys
      BY <2>1, <2>5, <2>9, ParsedFields
    <3>. QED  BY <2>8, <2>9, <3>1, LocatedMeasured
  <2>. QED  BY <2>6, <2>7, <2>8, <2>9
<1>2. CASE ValidateApplet \/ ValidateMethod \/ ValidateStatusWords \/ UNCHANGED vars
  <2>1. UNCHANGED <<raw, methods>>
    BY <1>2 DEF ValidateApplet, ValidateMethod, ValidateStatusWords, vars
  <2>2. stage' \in {"applet", "methods", "accepted"} =>
          stage \in {"applet", "methods", "accepted"}
    BY <1>2 DEF ValidateApplet, ValidateMethod, ValidateStatusWords, vars
  <2>. QED  BY <2>1, <2>2, Zenon DEF MeasuredInv, Measured, OrZero
<1>. QED  BY <1>1, <1>2 DEF Next

\* Both invariants hold of every schema at every stage.
LEMMA MeasuredAlways == Spec => [](VisitedInv /\ MeasuredInv)
<1>1. Init => MeasuredInv
  BY DEF Init, MeasuredInv
<1>2. VisitedInv /\ MeasuredInv /\ [Next]_vars => MeasuredInv'
  BY MeasuredStep
<1>. QED  BY <1>1, <1>2, VisitedAlways, PTL DEF Spec

\* In the authenticated-invalidate runtime an accepted method streams its
\* response only after an upload: its request is one stream and nothing else, in
\* the APDU data, and has persistent workspace to be staged in.
THEOREM AcceptedRepliesFollowUploads == Spec => []StreamedRepliesFollowUploads
<1>1. ASSUME VisitedInv, MeasuredInv, stage = "accepted",
             raw.cleanup = AuthenticatedInvalidate,
             NEW a \in DOMAIN methods, Streamed(methods[a].response),
             NEW req, req = methods[a].request
      PROVE  /\ raw.workspace = "persistent"
             /\ req # None /\ Len(req) = 1
             /\ req[1].type = "stream" /\ req[1].location = "data"
  <2>1. /\ StreamModeErrors(methods[a]) = {}
        /\ StreamedMethodErrors(methods[a]) = {}
        /\ MessageErrors(req) = {} /\ FieldsPlaced(req)
    BY <1>1, AcceptedMethod, Zenon DEF MethodKinds
  <2>2. methods[a].mode # ""
    BY <1>1, <2>1 DEF StreamedMethodErrors, Err
  <2>3. raw.workspace = "persistent" /\ Streamed(req)
    BY <1>1, <2>1, <2>2 DEF StreamModeErrors, Err
  <2>4. req # None
    BY <2>3 DEF Streamed
  <2>5. Len(req) = 1
    BY <2>1, <2>3, <2>4 DEF MessageErrors, Err
  <2>6. DOMAIN req = 1..Len(req)
    BY <1>1, <2>4 DEF MeasuredInv, Measured
  <2>7. 1 \in DOMAIN req /\ req[1].type = "stream"
    BY <2>3, <2>5, <2>6 DEF Streamed
  <2>8. req[1].location \in {"p1", "p2", "data"}
    BY <2>1, <2>4, <2>7 DEF FieldsPlaced
  <2>9. req[1].location \notin {"p1", "p2"}
    BY <1>1, <2>1, <2>3, <2>4, <2>7 DEF StreamedMethodErrors, HasStream, Err
  <2>. QED  BY <2>3, <2>4, <2>5, <2>7, <2>8, <2>9
<1>2. VisitedInv /\ MeasuredInv => StreamedRepliesFollowUploads
  BY <1>1 DEF StreamedRepliesFollowUploads
<1>. QED  BY <1>2, MeasuredAlways, PTL

\* In an accepted schema every field has a size, 0 if it is variable.
LEMMA FieldSizes ==
    ASSUME NEW msg, Measured(msg), MessageErrors(msg) = {}, msg # None,
           NEW b \in DOMAIN msg
    PROVE  WireSize(msg[b]) \in Nat
<1>1. msg[b].type = "bytes_fixed" => ~(msg[b].fixed <= 0)
  BY DEF MessageErrors, Err
<1>. QED  BY <1>1 DEF Measured, WireSize

\* So a message has a width.
LEMMA Widths ==
    ASSUME NEW msg, msg # None => Measured(msg), MessageErrors(msg) = {}
    PROVE  Width(msg) \in Nat
<1>1. ASSUME msg # None PROVE MessageLength(msg) \in Nat
  <2> DEFINE s == [a \in DOMAIN msg |-> WireSize(msg[a])]
  <2>1. PICK k \in Nat : DOMAIN msg = 1..k /\ Len(msg) = k
    BY <1>1 DEF Measured
  <2>2. \A a \in 1..k : s[a] \in Nat
    BY <1>1, <2>1, FieldSizes
  <2>3. s = [a \in 1..k |-> s[a]]
    BY <2>1
  <2>4. Len(s) = k
    BY <2>3
  <2> HIDE DEF s
  <2>5. Total(s) \in Nat
    BY <2>2, <2>4, TotalBounds
  <2>. QED  BY <2>5 DEF MessageLength, s
<1>. QED  BY <1>1 DEF Width

\* And a request a length, of three bytes at least if a field is variable.
LEMMA RequestLengths ==
    ASSUME NEW m, m.request # None => Measured(m.request),
           MessageErrors(m.request) = {}
    PROVE  /\ RequestLength(m) \in Nat
           /\ VariableRequest(m) => RequestLength(m) >= 3
<1>1. CASE m.request = None
  BY <1>1 DEF RequestLength, VariableRequest
<1>2. CASE m.request # None
  <2> DEFINE msg == m.request
             s == [a \in DOMAIN msg |-> DataBytes(msg[a])]
  <2>1. PICK k \in Nat : DOMAIN msg = 1..k /\ Len(msg) = k
    BY <1>2 DEF Measured
  <2>2. \A a \in 1..k : s[a] \in Nat
    <3>1. \A a \in 1..k : WireSize(msg[a]) \in Nat
      BY <1>2, <2>1, FieldSizes
    <3>. QED  BY <2>1, <3>1 DEF DataBytes
  <2>3. s = [a \in 1..k |-> s[a]]
    BY <2>1
  <2>4. Len(s) = k
    BY <2>3
  <2>5. \A a \in 1..k : s[a] = DataBytes(msg[a])
    BY <2>1
  <2> HIDE DEF s
  <2>6. Total(s) \in Nat /\ \A a \in 1..k : Total(s) >= s[a]
    BY <2>2, <2>4, TotalBounds
  <2>7. RequestLength(m) = Total(s)
    BY <1>2, Zenon DEF RequestLength, s
  <2>8. ASSUME VariableRequest(m) PROVE Total(s) >= 3
    <3>1. PICK a \in 1..k : InData(msg[a]) /\ WireSize(msg[a]) = 0
      BY <2>1, <2>8 DEF VariableRequest
    <3>2. s[a] = 3
      BY <2>5, <3>1 DEF DataBytes
    <3>. QED  BY <2>6, <3>2
  <2>. QED  BY <2>6, <2>7, <2>8
<1>. QED  BY <1>1, <1>2

----------------------------------------------------------------------------
\* The wire fixture.

\* What the probe needs to know of a contract: bytes, and one method to an INS.
Ready(c, ms) ==
    /\ c \in 0..MaxByte
    /\ \A m \in Ordinary(ms) :
          /\ m.ins \in 0..MaxByte
          /\ Width(m.response) \in 0..MaxByte
          /\ RequestLength(m) \in Nat
          /\ VariableRequest(m) => RequestLength(m) >= 3
    /\ \A m, k \in Ordinary(ms) : m.ins = k.ins => m = k
    /\ \A m \in Streams(ms) : InsOf(m) = m.ins..(m.ins + 5)
    /\ MaxByte \notin Family(ms)

\* An accepted contract that can be probed at all is such.
LEMMA AcceptedReady ==
    ASSUME VisitedInv, MeasuredInv, stage = "accepted", Probeable(methods)
    PROVE  Ready(raw.cla, methods)
<1>1. /\ raw.cla \in 0..MaxByte
      /\ \A a \in DOMAIN methods :
            /\ methods[a].ins \in 0..MaxByte
            /\ methods[a].request # None => Measured(methods[a].request)
            /\ methods[a].response # None => Measured(methods[a].response)
  BY Zenon DEF MeasuredInv
<1>2. \A a \in DOMAIN methods : /\ MessageErrors(methods[a].request) = {}
                                /\ MessageErrors(methods[a].response) = {}
  <2>1. \A a \in DOMAIN methods : MethodKinds(methods[a]) = {}
    BY AcceptedMethod
  <2>. QED  BY <2>1 DEF MethodKinds
<1>3. ASSUME NEW m \in Ordinary(methods)
      PROVE  /\ m.ins \in 0..MaxByte
             /\ Width(m.response) \in 0..MaxByte
             /\ RequestLength(m) \in Nat
             /\ VariableRequest(m) => RequestLength(m) >= 3
  <2>1. PICK a \in DOMAIN methods : m = methods[a]
    BY DEF Ordinary
  <2>2. Width(m.response) \in Nat
    BY <1>1, <1>2, <2>1, Widths
  <2>3. RequestLength(m) \in Nat /\ (VariableRequest(m) => RequestLength(m) >= 3)
    BY <1>1, <1>2, <2>1, RequestLengths
  <2>4. Width(m.response) <= MaxByte
    BY DEF Probeable
  <2>5. Width(m.response) \in 0..MaxByte
    BY <2>2, <2>4 DEF MaxByte
  <2>. QED  BY <1>1, <2>1, <2>3, <2>5
<1>4. ASSUME NEW m \in Ordinary(methods), NEW k \in Ordinary(methods), m.ins = k.ins
      PROVE  m = k
  <2>1. PICK a \in DOMAIN methods : m = methods[a]
    BY DEF Ordinary
  <2>2. PICK b \in DOMAIN methods : k = methods[b]
    BY DEF Ordinary
  <2>3. m.ins \in InsOf(m) /\ k.ins \in InsOf(k)
    <3>1. \A x \in 0..MaxByte : x \in x..(x + 5) /\ x \in x..(x + 0)
      BY DEF MaxByte
    <3>. QED  BY <1>1, <2>1, <2>2, <3>1 DEF InsOf
  <2>4. a # b => InsOf(methods[a]) \cap InsOf(methods[b]) = {}
    <3>1. DispatchUnambiguous
      BY DEF VisitedInv, DispatchInv, DispatchUnambiguous, Settled
    <3>. QED  BY <3>1, Zenon DEF DispatchUnambiguous
  <2>. QED  BY <1>4, <2>1, <2>2, <2>3, <2>4
<1>5. \A m \in Streams(methods) : InsOf(m) = m.ins..(m.ins + 5)
  BY DEF Streams, InsOf
<1>6. MaxByte \notin Family(methods)
  BY DEF Probeable
<1>. QED  BY <1>1, <1>3, <1>4, <1>5, <1>6, Zenon DEF Ready

\* The status words differ, and nil is neither a number nor a trace.
LEMMA Words ==
    /\ SwOK # SwWrongLength /\ SwOK # SwInsNotSupported
    /\ SwWrongLength # SwInsNotSupported
    /\ None \notin Nat
    /\ None # {} /\ \A c \in 0..MaxByte : None # {c}
<1>1. SwOK # SwWrongLength /\ SwOK # SwInsNotSupported /\ SwWrongLength # SwInsNotSupported
  BY DEF SwOK, SwWrongLength, SwInsNotSupported
<1>. QED  BY <1>1, NilAssumption

\* How a single route answers.
Answer(sw, last, len) == [sw |-> sw, last |-> last, n |-> len]
AnswerOf(r, length, capacity) ==
    IF r.request \notin {None, length} THEN Answer(SwWrongLength, None, 0)
    ELSE IF r.width <= capacity THEN Answer(SwOK, r.last, r.width)
    ELSE Answer(SwWrongLength, IF r.early THEN None ELSE r.last, 0)

\* A corpus with one route at an INS answers as that route does.
LEMMA OneRoute ==
    ASSUME NEW corpus, NEW ins, NEW r, {x \in corpus.routes : x.ins = ins} = {r},
           NEW length, NEW capacity
    PROVE  Call(corpus, ins, length, capacity) = AnswerOf(r, length, capacity)
<1>1. {r} # {} /\ (CHOOSE x \in {r} : TRUE) = r
  OBVIOUS
<1>. QED  BY <1>1, Zenon DEF Call, AnswerOf, Answer

\* One with none does not know the INS; one with some does.
LEMMA NoRoute ==
    ASSUME NEW corpus, NEW ins, NEW length, NEW capacity
    PROVE  Call(corpus, ins, length, capacity).sw = SwInsNotSupported
              <=> {x \in corpus.routes : x.ins = ins} = {}
<1> DEFINE at == {x \in corpus.routes : x.ins = ins}
<1>1. CASE at = {}
  <2>1. Call(corpus, ins, length, capacity) = Answer(SwInsNotSupported, None, 0)
    BY <1>1, Zenon DEF Call, Answer
  <2>. QED  BY <1>1, <2>1 DEF Answer
<1>2. CASE at # {}
  <2> DEFINE r == CHOOSE x \in at : TRUE
  <2>1. Call(corpus, ins, length, capacity) = AnswerOf(r, length, capacity)
    BY <1>2, Zenon DEF Call, AnswerOf, Answer
  <2> HIDE DEF r, at
  <2>2. AnswerOf(r, length, capacity).sw \in {SwOK, SwWrongLength}
    BY DEF AnswerOf, Answer
  <2>. QED  BY <1>2, <2>1, <2>2, Words DEF at
<1>. QED  BY <1>1, <1>2

\* What the fields of an answer tell.
LEMMA AnswerFields ==
    ASSUME NEW sw, NEW last, NEW len
    PROVE  /\ Answer(sw, last, len).sw = sw
           /\ Answer(sw, last, len).last = last
           /\ Answer(sw, last, len).n = len
  BY DEF Answer

\* The route of m in the answers the probe asks for: the body of OrdinaryPasses
\* for a corpus with the route r at m's INS.
RoutePasses(r, m) ==
    /\ AnswerOf(r, RequestLength(m), 255) = Answer(SwOK, m.ins, Width(m.response))
    /\ ~VariableRequest(m) =>
          AnswerOf(r, RequestLength(m) + 1, 255) = Answer(SwWrongLength, None, 0)
    /\ (FixedWidth(m.response) /\ Width(m.response) > 0) =>
          AnswerOf(r, RequestLength(m), Width(m.response) - 1)
            = Answer(SwWrongLength, None, 0)

\* The probe of m depends on the route at its INS only.
LEMMA ProbesRoute ==
    ASSUME NEW corpus, NEW m, NEW r, {x \in corpus.routes : x.ins = m.ins} = {r}
    PROVE  OrdinaryPasses(corpus, m) <=> RoutePasses(r, m)
<1>1. \A length, capacity :
         Call(corpus, m.ins, length, capacity) = AnswerOf(r, length, capacity)
  BY OneRoute
<1>2. /\ Call(corpus, m.ins, RequestLength(m), 255) = AnswerOf(r, RequestLength(m), 255)
      /\ Call(corpus, m.ins, RequestLength(m) + 1, 255)
           = AnswerOf(r, RequestLength(m) + 1, 255)
      /\ Call(corpus, m.ins, RequestLength(m), Width(m.response) - 1)
           = AnswerOf(r, RequestLength(m), Width(m.response) - 1)
  BY <1>1, Zenon
<1>3. OrdinaryPasses(corpus, m) <=>
         /\ Call(corpus, m.ins, RequestLength(m), 255)
              = Answer(SwOK, m.ins, Width(m.response))
         /\ ~VariableRequest(m) =>
               Call(corpus, m.ins, RequestLength(m) + 1, 255)
                 = Answer(SwWrongLength, None, 0)
         /\ (FixedWidth(m.response) /\ Width(m.response) > 0) =>
               Call(corpus, m.ins, RequestLength(m), Width(m.response) - 1)
                 = Answer(SwWrongLength, None, 0)
  BY Zenon DEF OrdinaryPasses, Answer
<1>. QED  BY <1>2, <1>3, Zenon DEF RoutePasses

\* The fields of a route.
LEMMA RouteFields ==
    ASSUME NEW m
    PROVE  /\ Route(m).ins = m.ins /\ Route(m).last = m.ins
           /\ Route(m).width = Width(m.response) /\ Route(m).early = TRUE
           /\ Route(m).request = IF VariableRequest(m) THEN None ELSE RequestLength(m)
  BY DEF Route

\* The route emitted for a method passes its probe.
LEMMA RightRoute ==
    ASSUME NEW c, NEW ms, Ready(c, ms), NEW m \in Ordinary(ms)
    PROVE  RoutePasses(Route(m), m)
<1> DEFINE r == Route(m)
           w == Width(m.response)
           q == RequestLength(m)
<1>1. w \in 0..255 /\ q \in Nat
  BY DEF Ready, MaxByte
<1>2. /\ r.last = m.ins /\ r.width = w /\ r.early = TRUE
      /\ r.request = IF VariableRequest(m) THEN None ELSE q
  BY RouteFields, Zenon
<1> HIDE DEF r, w, q
<1>3. /\ w <= 255 /\ ~(w <= w - 1) /\ q + 1 # q /\ q # None
  BY <1>1, Words
<1>4. r.request \in {None, q} /\ (~VariableRequest(m) => r.request \notin {None, q + 1})
  BY <1>2, <1>3
<1>5. AnswerOf(r, q, 255) = Answer(SwOK, m.ins, w)
  BY <1>2, <1>3, <1>4, Zenon DEF AnswerOf
<1>6. ~VariableRequest(m) => AnswerOf(r, q + 1, 255) = Answer(SwWrongLength, None, 0)
  BY <1>4, Zenon DEF AnswerOf
<1>7. AnswerOf(r, q, w - 1) = Answer(SwWrongLength, None, 0)
  BY <1>2, <1>3, <1>4, Zenon DEF AnswerOf
<1>. QED  BY <1>5, <1>6, <1>7, Zenon DEF RoutePasses, r, q, w

\* The fields of the emitted corpus.
LEMMA EmittedFields ==
    ASSUME NEW c, NEW ms, Ready(c, ms)
    PROVE  /\ Emitted(c, ms).cla = c /\ Emitted(c, ms).classes = {c}
           /\ Emitted(c, ms).routes = {Route(m) : m \in Ordinary(ms)}
           /\ Emitted(c, ms).family = Family(ms)
           /\ DOMAIN Emitted(c, ms) = {"cla", "classes", "routes", "family"}
<1>1. \A m \in Streams(ms) : InsOf(m) = m.ins..(m.ins + 5)
  BY Zenon DEF Ready
<1>2. UNION {InsOf(m) : m \in Streams(ms)} = UNION {m.ins..(m.ins + 5) : m \in Streams(ms)}
  BY <1>1
<1>. QED  BY <1>2 DEF Emitted, Family

\* A corpus with the emitted routes but x instead of the one of m, at the same
\* INS, answers there as x does.
LEMMA RouteReplaced ==
    ASSUME NEW c, NEW ms, Ready(c, ms), NEW m \in Ordinary(ms), NEW corpus, NEW x,
           x.ins = m.ins,
           corpus.routes = ({Route(k) : k \in Ordinary(ms)} \ {Route(m)}) \cup {x}
    PROVE  OrdinaryPasses(corpus, m) <=> RoutePasses(x, m)
<1>1. \A k \in Ordinary(ms) : Route(k).ins = m.ins => k = m
  BY RouteFields, Zenon DEF Ready
<1>2. {y \in corpus.routes : y.ins = m.ins} = {x}
  BY <1>1
<1>. QED  BY <1>2, ProbesRoute

\* What Observe asks for.
LEMMA Observed ==
    ASSUME NEW corpus, NEW c, NEW ms, Observe(corpus, c, ms) # None
    PROVE  /\ corpus.cla = c
           /\ \A m \in Ordinary(ms) : OrdinaryPasses(corpus, m)
           /\ \A m \in Streams(ms) : StreamPasses(corpus, c, m)
           /\ Streams(ms) # {} => corpus.family = Family(ms)
           /\ \A ins \in (0..MaxByte) \ {m.ins : m \in Ordinary(ms)} :
                 Call(corpus, ins, 0, 255).sw = SwInsNotSupported
           /\ Observe(corpus, c, ms)
                = IF Streams(ms) = {} THEN {} ELSE corpus.classes
  BY Zenon DEF Observe

\* The emitted corpus passes, and its trace is its class byte.
LEMMA EmittedPasses ==
    ASSUME NEW c, NEW ms, Ready(c, ms)
    PROVE  /\ Observe(Emitted(c, ms), c, ms) # None
           /\ Observe(Emitted(c, ms), c, ms) = IF Streams(ms) = {} THEN {} ELSE {c}
<1> DEFINE E == Emitted(c, ms)
<1>1. /\ E.cla = c /\ E.classes = {c} /\ E.family = Family(ms)
      /\ E.routes = {Route(m) : m \in Ordinary(ms)}
  BY EmittedFields, Zenon
<1> HIDE DEF E
<1>2. ASSUME NEW m \in Ordinary(ms) PROVE OrdinaryPasses(E, m)
  <2>1. \A k \in Ordinary(ms) : Route(k).ins = m.ins => k = m
    BY RouteFields, Zenon DEF Ready
  <2>2. Route(m).ins = m.ins
    BY RouteFields, Zenon
  <2>3. {y \in E.routes : y.ins = m.ins} = {Route(m)}
    BY <1>1, <2>1, <2>2
  <2>. QED  BY <2>3, ProbesRoute, RightRoute
<1>3. ASSUME NEW m \in Streams(ms) PROVE StreamPasses(E, c, m)
  <2>1. InsOf(m) \subseteq E.family
    BY <1>1 DEF Ready, Family
  <2>2. MaxByte \notin E.family
    BY <1>1, Zenon DEF Ready
  <2>3. (IF (c \div 16) % 2 = 0 THEN c + 16 ELSE c - 16) # c
    <3>1. c \in Int
      BY DEF Ready, MaxByte
    <3>. QED  BY <3>1
  <2>. QED  BY <1>1, <2>1, <2>2, <2>3, Zenon DEF StreamPasses
<1>4. ASSUME NEW ins \in (0..MaxByte) \ {m.ins : m \in Ordinary(ms)}
      PROVE  Call(E, ins, 0, 255).sw = SwInsNotSupported
  <2>1. \A m \in Ordinary(ms) : Route(m).ins # ins
    BY RouteFields
  <2>2. {y \in E.routes : y.ins = ins} = {}
    BY <1>1, <2>1
  <2>. QED  BY <2>2, NoRoute
<1>5. Observe(E, c, ms) = IF Streams(ms) = {} THEN {} ELSE {c}
  BY <1>1, <1>2, <1>3, <1>4, Zenon DEF Observe
<1>6. None # {} /\ None # {c}
  BY Words, Zenon DEF Ready
<1>. QED  BY <1>5, <1>6 DEF E

\* The probes are satisfiable: for every accepted contract that fits short APDUs
\* the corpus emitted from it passes all calls that probe() derives, so that a
\* failure of Compare is a failure on the wire.
THEOREM RightCorpusPasses == Spec => []ProbeAdmits
<1>1. VisitedInv /\ MeasuredInv => ProbeAdmits
  <2> SUFFICES ASSUME VisitedInv, MeasuredInv, stage = "accepted", Probeable(methods)
               PROVE  Compare(Emitted(raw.cla, methods), Emitted(raw.cla, methods),
                              raw.cla, methods)
    BY Zenon DEF ProbeAdmits
  <2>1. Ready(raw.cla, methods)
    BY AcceptedReady
  <2>. QED  BY <2>1, EmittedPasses, Zenon DEF Compare
<1>. QED  BY <1>1, MeasuredAlways, PTL

\* Equal answers agree in all they tell.
LEMMA SameAnswers ==
    ASSUME NEW sw, NEW last, NEW len, NEW sw2, NEW last2, NEW len2,
           Answer(sw, last, len) = Answer(sw2, last2, len2)
    PROVE  sw = sw2 /\ last = last2 /\ len = len2
<1>1. /\ Answer(sw, last, len).sw = sw /\ Answer(sw2, last2, len2).sw = sw2
      /\ Answer(sw, last, len).last = last /\ Answer(sw2, last2, len2).last = last2
      /\ Answer(sw, last, len).n = len /\ Answer(sw2, last2, len2).n = len2
  BY AnswerFields
<1>. QED  BY <1>1, Zenon

\* What an answer of success tells of the route.
LEMMA Succeeds ==
    ASSUME NEW r, NEW length, NEW capacity, NEW last, NEW len,
           AnswerOf(r, length, capacity) = Answer(SwOK, last, len)
    PROVE  r.request \in {None, length} /\ r.last = last /\ r.width = len
<1>1. CASE r.request \notin {None, length}
  <2>1. AnswerOf(r, length, capacity) = Answer(SwWrongLength, None, 0)
    BY <1>1, Zenon DEF AnswerOf
  <2>2. Answer(SwOK, last, len) = Answer(SwWrongLength, None, 0)
    BY <2>1, Zenon
  <2>. QED  BY <2>2, SameAnswers, Words
<1>2. CASE r.request \in {None, length} /\ r.width <= capacity
  <2>1. AnswerOf(r, length, capacity) = Answer(SwOK, r.last, r.width)
    BY <1>2, Zenon DEF AnswerOf
  <2>2. Answer(SwOK, last, len) = Answer(SwOK, r.last, r.width)
    BY <2>1, Zenon
  <2>3. last = r.last /\ len = r.width
    BY <2>2, SameAnswers
  <2>. QED  BY <1>2, <2>3, Zenon
<1>3. CASE r.request \in {None, length} /\ ~(r.width <= capacity)
  <2>1. \E left : AnswerOf(r, length, capacity) = Answer(SwWrongLength, left, 0)
    BY <1>3, Zenon DEF AnswerOf
  <2>2. PICK left : Answer(SwOK, last, len) = Answer(SwWrongLength, left, 0)
    BY <2>1, Zenon
  <2>. QED  BY <2>2, SameAnswers, Words
<1>. QED  BY <1>1, <1>2, <1>3, Zenon

\* And an answer of refusal, to a request of the right length.
LEMMA Refuses ==
    ASSUME NEW r, NEW length, NEW capacity,
           AnswerOf(r, length, capacity) = Answer(SwWrongLength, None, 0),
           r.request \in {None, length}
    PROVE  ~(r.width <= capacity) /\ (r.early \/ r.last = None)
<1>1. ASSUME r.width <= capacity PROVE FALSE
  <2>1. AnswerOf(r, length, capacity) = Answer(SwOK, r.last, r.width)
    BY <1>1, Zenon DEF AnswerOf
  <2>2. Answer(SwOK, r.last, r.width) = Answer(SwWrongLength, None, 0)
    BY <2>1, Zenon
  <2>. QED  BY <2>2, SameAnswers, Words
<1>2. ASSUME ~r.early PROVE r.last = None
  <2>1. AnswerOf(r, length, capacity) = Answer(SwWrongLength, r.last, 0)
    BY <1>1, <1>2, Zenon DEF AnswerOf
  <2>2. Answer(SwWrongLength, r.last, 0) = Answer(SwWrongLength, None, 0)
    BY <2>1, Zenon
  <2>. QED  BY <2>2, SameAnswers
<1>. QED  BY <1>1, <1>2, Zenon

\* A route that passes the probe of m is the emitted one in all that counts.
LEMMA RouteProbed ==
    ASSUME NEW c, NEW ms, Ready(c, ms), NEW m \in Ordinary(ms), NEW x,
           RoutePasses(x, m)
    PROVE  /\ x.last = m.ins /\ x.width = Width(m.response)
           /\ x.request \in {None, RequestLength(m)}
           /\ ~VariableRequest(m) => x.request # None
           /\ (FixedWidth(m.response) /\ Width(m.response) > 0) => x.early
<1> DEFINE w == Width(m.response)
           q == RequestLength(m)
<1>1. w <= 255 /\ m.ins # None
  <2>1. w \in 0..255 /\ m.ins \in 0..255
    BY Zenon DEF Ready, MaxByte
  <2>2. \A i \in 0..255 : i \in Nat /\ i <= 255
    OBVIOUS
  <2>. QED  BY <2>1, <2>2, Words, Zenon
<1>2. x.last = m.ins /\ x.width = w /\ x.request \in {None, q}
  <2>1. AnswerOf(x, q, 255) = Answer(SwOK, m.ins, w)
    BY Zenon DEF RoutePasses
  <2> HIDE DEF q, w
  <2>. QED  BY <2>1, Succeeds
<1>3. ASSUME ~VariableRequest(m) PROVE x.request # None
  <2>1. AnswerOf(x, q + 1, 255) = Answer(SwWrongLength, None, 0)
    BY <1>3, Zenon DEF RoutePasses
  <2> HIDE DEF q, w
  <2>2. x.request = None => ~(x.width <= 255)
    BY <2>1, Refuses
  <2>. QED  BY <1>1, <1>2, <2>2, Zenon
<1>4. ASSUME FixedWidth(m.response), w > 0 PROVE x.early
  <2>1. AnswerOf(x, q, w - 1) = Answer(SwWrongLength, None, 0)
    BY <1>4, Zenon DEF RoutePasses
  <2> HIDE DEF q, w
  <2>2. x.early \/ x.last = None
    BY <1>2, <2>1, Refuses
  <2>. QED  BY <1>1, <1>2, <2>2, Zenon
<1>. QED  BY <1>2, <1>3, <1>4, Zenon

\* A candidate that Compare accepts passes, and leaves the baseline's trace.
LEMMA Compared ==
    ASSUME NEW c, NEW ms, Ready(c, ms), NEW now, Compare(Emitted(c, ms), now, c, ms)
    PROVE  /\ Observe(now, c, ms) # None
           /\ Observe(now, c, ms) = IF Streams(ms) = {} THEN {} ELSE {c}
  BY EmittedPasses, Zenon DEF Compare

\* One emitted route replaced, at its INS or at another one: the new route has to
\* be at the same INS and to pass the probe of its method.
LEMMA ReplacedRoutes ==
    ASSUME NEW c, NEW ms, Ready(c, ms), NEW m \in Ordinary(ms), NEW x, NEW now,
           now.routes = ({Route(k) : k \in Ordinary(ms)} \ {Route(m)}) \cup {x},
           Compare(Emitted(c, ms), now, c, ms)
    PROVE  x.ins = m.ins /\ RoutePasses(x, m)
<1>1. OrdinaryPasses(now, m)
  <2>1. Observe(now, c, ms) # None
    BY Compared
  <2>. QED  BY <2>1, Observed
<1>2. ASSUME x.ins # m.ins PROVE FALSE
  <2>1. \A k \in Ordinary(ms) : Route(k).ins = m.ins => k = m
    BY RouteFields, Zenon DEF Ready
  <2>2. {y \in now.routes : y.ins = m.ins} = {}
    BY <1>2, <2>1
  <2>3. Call(now, m.ins, RequestLength(m), 255).sw = SwInsNotSupported
    BY <2>2, NoRoute
  <2>4. Call(now, m.ins, RequestLength(m), 255)
          = Answer(SwOK, m.ins, Width(m.response))
    BY <1>1, Zenon DEF OrdinaryPasses, Answer
  <2>. QED  BY <2>3, <2>4, AnswerFields, Words
<1>3. x.ins = m.ins
  BY <1>2
<1>. QED  BY <1>1, <1>3, RouteReplaced

\* An extra route at an INS that no method has is found by the sweep.
LEMMA ExtraRoute ==
    ASSUME NEW c, NEW ms, Ready(c, ms), NEW now, NEW x \in now.routes,
           x.ins \in (0..MaxByte) \ {m.ins : m \in Ordinary(ms)},
           Compare(Emitted(c, ms), now, c, ms)
    PROVE  FALSE
<1>1. Observe(now, c, ms) # None
  BY Compared
<1>2. Call(now, x.ins, 0, 255).sw = SwInsNotSupported
  BY <1>1, Observed
<1>3. {y \in now.routes : y.ins = x.ins} = {}
  BY <1>2, NoRoute
<1>. QED  BY <1>3

\* The defects, one by one.
LEMMA WrongCases ==
    ASSUME NEW E, NEW ms, NEW now \in Wrong(E, ms)
    PROVE  \/ now = [E EXCEPT !.cla = (@ + 1) % 256]
           \/ \E r \in E.routes :
                 now = [E EXCEPT !.routes =
                         (@ \ {r}) \cup {[r EXCEPT !.ins = (@ + 1) % 256]}]
           \/ \E r, s \in E.routes :
                 now = [E EXCEPT !.routes = (@ \ {r}) \cup {[r EXCEPT !.last = s.ins]}]
           \/ \E r \in E.routes :
                 now = [E EXCEPT !.routes = (@ \ {r}) \cup {[r EXCEPT !.width = @ + 1]}]
           \/ \E r \in E.routes :
                 /\ r.request # None
                 /\ now = [E EXCEPT !.routes = (@ \ {r}) \cup {[r EXCEPT !.request = None]}]
           \/ \E r \in E.routes :
                 /\ r.request = None
                 /\ now = [E EXCEPT !.routes =
                             (@ \ {r}) \cup {[r EXCEPT !.request = OneLength]}]
           \/ \E m \in Ordinary(ms) :
                 /\ FixedWidth(m.response) /\ Width(m.response) > 0
                 /\ now = [E EXCEPT !.routes =
                             (@ \ {Route(m)}) \cup {[Route(m) EXCEPT !.early = FALSE]}]
           \/ \E r \in E.routes, ins \in {0, 255} \ {x.ins : x \in E.routes} :
                 now = [E EXCEPT !.routes = @ \cup {[r EXCEPT !.ins = ins]}]
           \/ /\ Streams(ms) # {}
              /\ \/ \E f : now = [E EXCEPT !.family = f]
                 \/ now = [E EXCEPT !.classes = {}]
                 \/ now = [E EXCEPT !.classes = @ \cup {(E.cla + 1) % 256}]
<1> DEFINE with(r, x) == [E EXCEPT !.routes = (@ \ {r}) \cup {x}]
           Moved == {with(r, [r EXCEPT !.ins = (@ + 1) % 256]) : r \in E.routes}
           Swapped == {with(r, [r EXCEPT !.last = s.ins]) : r, s \in E.routes}
           Wider == {with(r, [r EXCEPT !.width = @ + 1]) : r \in E.routes}
           AnyLength == {with(r, [r EXCEPT !.request = None]) :
                           r \in {x \in E.routes : x.request # None}}
           Fixed == {with(r, [r EXCEPT !.request = OneLength]) :
                       r \in {x \in E.routes : x.request = None}}
           Late == {with(Route(m), [Route(m) EXCEPT !.early = FALSE]) :
                      m \in {x \in Ordinary(ms) :
                               FixedWidth(x.response) /\ Width(x.response) > 0}}
           Free == IF E.routes = {} THEN {} ELSE {0, 255} \ {x.ins : x \in E.routes}
           More == {[E EXCEPT !.routes = @ \cup {[r EXCEPT !.ins = ins]}] :
                      r \in E.routes, ins \in Free}
           Stream == IF Streams(ms) = {} THEN {} ELSE
                     {[E EXCEPT !.family = @ \ {CHOOSE ins \in @ : \A j \in @ : j <= ins}],
                      [E EXCEPT !.family = @ \cup {0}],
                      [E EXCEPT !.classes = {}],
                      [E EXCEPT !.classes = @ \cup {(E.cla + 1) % 256}]}
<1>1. Wrong(E, ms) = {[E EXCEPT !.cla = (@ + 1) % 256]} \cup Moved \cup Swapped
         \cup Wider \cup AnyLength \cup Fixed \cup Late \cup More \cup Stream
  BY DEF Wrong
<1> HIDE DEF Moved, Swapped, Wider, AnyLength, Fixed, Late, More, Stream
<1>2. \/ now = [E EXCEPT !.cla = (@ + 1) % 256]
      \/ now \in Moved
      \/ now \in Swapped
      \/ now \in Wider
      \/ now \in AnyLength
      \/ now \in Fixed
      \/ now \in Late
      \/ now \in More
      \/ now \in Stream
  BY <1>1, Zenon
<1>3. ASSUME now \in Moved
      PROVE  \E r \in E.routes :
                now = [E EXCEPT !.routes =
                         (@ \ {r}) \cup {[r EXCEPT !.ins = (@ + 1) % 256]}]
  BY <1>3, Zenon DEF Moved
<1>4. ASSUME now \in Swapped
      PROVE  \E r, s \in E.routes :
                now = [E EXCEPT !.routes = (@ \ {r}) \cup {[r EXCEPT !.last = s.ins]}]
  BY <1>4 DEF Swapped
<1>5. ASSUME now \in Wider
      PROVE  \E r \in E.routes :
                now = [E EXCEPT !.routes = (@ \ {r}) \cup {[r EXCEPT !.width = @ + 1]}]
  BY <1>5, Zenon DEF Wider
<1>6. ASSUME now \in AnyLength
      PROVE  \E r \in E.routes :
                /\ r.request # None
                /\ now = [E EXCEPT !.routes = (@ \ {r}) \cup {[r EXCEPT !.request = None]}]
  BY <1>6, Zenon DEF AnyLength
<1>7. ASSUME now \in Fixed
      PROVE  \E r \in E.routes :
                /\ r.request = None
                /\ now = [E EXCEPT !.routes =
                            (@ \ {r}) \cup {[r EXCEPT !.request = OneLength]}]
  BY <1>7, Zenon DEF Fixed
<1>8. ASSUME now \in Late
      PROVE  \E m \in Ordinary(ms) :
                /\ FixedWidth(m.response) /\ Width(m.response) > 0
                /\ now = [E EXCEPT !.routes =
                            (@ \ {Route(m)}) \cup {[Route(m) EXCEPT !.early = FALSE]}]
  BY <1>8, Zenon DEF Late
<1>9. ASSUME now \in More
      PROVE  \E r \in E.routes, ins \in {0, 255} \ {x.ins : x \in E.routes} :
                now = [E EXCEPT !.routes = @ \cup {[r EXCEPT !.ins = ins]}]
  <2>1. PICK r \in E.routes, ins \in Free :
           now = [E EXCEPT !.routes = @ \cup {[r EXCEPT !.ins = ins]}]
    BY <1>9 DEF More
  <2>2. Free \subseteq {0, 255} \ {x.ins : x \in E.routes}
    OBVIOUS
  <2> HIDE DEF Free
  <2>. QED  BY <2>1, <2>2, Zenon
<1>10. ASSUME now \in Stream
       PROVE  /\ Streams(ms) # {}
              /\ \/ \E f : now = [E EXCEPT !.family = f]
                 \/ now = [E EXCEPT !.classes = {}]
                 \/ now = [E EXCEPT !.classes = @ \cup {(E.cla + 1) % 256}]
  BY <1>10, Zenon DEF Stream
<1>. QED  BY <1>2, <1>3, <1>4, <1>5, <1>6, <1>7, <1>8, <1>9, <1>10, Zenon

\* A candidate with the emitted routes but x for m's: x is m's route.
LEMMA ReplacedRoute ==
    ASSUME NEW c, NEW ms, Ready(c, ms), NEW m \in Ordinary(ms), NEW x, NEW now,
           now = [Emitted(c, ms) EXCEPT !.routes = (@ \ {Route(m)}) \cup {x}],
           Compare(Emitted(c, ms), now, c, ms)
    PROVE  /\ x.ins = m.ins /\ x.last = m.ins /\ x.width = Width(m.response)
           /\ ~VariableRequest(m) => x.request # None
           /\ x.request \in {None, RequestLength(m)}
           /\ (FixedWidth(m.response) /\ Width(m.response) > 0) => x.early
<1>1. now.routes = ({Route(k) : k \in Ordinary(ms)} \ {Route(m)}) \cup {x}
  <2> DEFINE e == Emitted(c, ms)
  <2>1. e.routes = {Route(k) : k \in Ordinary(ms)} /\ "routes" \in DOMAIN e
    BY EmittedFields
  <2> HIDE DEF e
  <2>2. now = [e EXCEPT !.routes = (e.routes \ {Route(m)}) \cup {x}]
    BY DEF e
  <2>. QED  BY <2>1, <2>2
<1>2. x.ins = m.ins /\ RoutePasses(x, m)
  BY <1>1, ReplacedRoutes
<1>. QED  BY <1>2, RouteProbed

\* A field of the emitted corpus replaced.
LEMMA FieldReplaced ==
    ASSUME NEW c, NEW ms, Ready(c, ms), NEW v
    PROVE  /\ [Emitted(c, ms) EXCEPT !.cla = v].cla = v
           /\ [Emitted(c, ms) EXCEPT !.family = v].family = v
           /\ [Emitted(c, ms) EXCEPT !.classes = v].classes = v
           /\ [Emitted(c, ms) EXCEPT !.routes = v].routes = v
           /\ [Emitted(c, ms) EXCEPT !.family = Family(ms)] = Emitted(c, ms)
           /\ [Emitted(c, ms) EXCEPT !.routes = {Route(m) : m \in Ordinary(ms)}]
                = Emitted(c, ms)
<1> DEFINE e == Emitted(c, ms)
           routes == {Route(m) : m \in Ordinary(ms)}
<1>1. e = [cla |-> c, classes |-> {c}, routes |-> routes, family |-> Family(ms)]
  <2>1. e.family = Family(ms)
    BY EmittedFields
  <2>. QED  BY <2>1 DEF Emitted
<1> HIDE DEF e, routes
<1>2. /\ [e EXCEPT !.cla = v].cla = v /\ [e EXCEPT !.family = v].family = v
      /\ [e EXCEPT !.classes = v].classes = v /\ [e EXCEPT !.routes = v].routes = v
      /\ [e EXCEPT !.family = Family(ms)] = e /\ [e EXCEPT !.routes = routes] = e
  BY <1>1
<1>. QED  BY <1>2 DEF e, routes

\* What the probe refuses of a stream and of the class byte.
LEMMA WrongStreams ==
    ASSUME NEW c, NEW ms, Ready(c, ms), NEW now, Compare(Emitted(c, ms), now, c, ms)
    PROVE  /\ now.cla = c
           /\ Streams(ms) # {} => now.family = Family(ms) /\ now.classes = {c}
<1>1. /\ Observe(now, c, ms) # None
      /\ Observe(now, c, ms) = IF Streams(ms) = {} THEN {} ELSE {c}
  BY Compared
<1>2. /\ now.cla = c /\ (Streams(ms) # {} => now.family = Family(ms))
      /\ Observe(now, c, ms) = IF Streams(ms) = {} THEN {} ELSE now.classes
  BY <1>1, Observed
<1>. QED  BY <1>1, <1>2, Zenon

\* A class byte is not its successor.
LEMMA NextClass ==
    ASSUME NEW i \in 0..MaxByte
    PROVE  (i + 1) % 256 # i
  BY DEF MaxByte

\* A field of a route replaced.
LEMMA RouteChanged ==
    ASSUME NEW m, NEW r, r = Route(m), NEW v
    PROVE  /\ [r EXCEPT !.ins = v].ins = v
           /\ [r EXCEPT !.last = v].last = v
           /\ [r EXCEPT !.width = v].width = v
           /\ [r EXCEPT !.request = v].request = v
           /\ [r EXCEPT !.last = m.ins] = r
<1> DEFINE w == Width(m.response)
           q == IF VariableRequest(m) THEN None ELSE RequestLength(m)
           i == m.ins
<1>1. PICK early : r = [ins |-> i, last |-> i, width |-> w, request |-> q,
                        early |-> early]
  BY Zenon DEF Route
<1> HIDE DEF i, w, q
<1>2. /\ [r EXCEPT !.ins = v].ins = v
      /\ [r EXCEPT !.last = v].last = v
      /\ [r EXCEPT !.width = v].width = v
      /\ [r EXCEPT !.request = v].request = v
      /\ [r EXCEPT !.last = i] = r
  BY <1>1
<1>. QED  BY <1>2 DEF i

\* And its test of the capacity left to the end.
LEMMA RouteLate ==
    ASSUME NEW m
    PROVE  [Route(m) EXCEPT !.early = FALSE].early = FALSE
  BY DEF Route

\* No candidate with a defect in one place is accepted.
LEMMA DefectRefused ==
    ASSUME NEW c, NEW ms, Ready(c, ms), NEW now \in Wrong(Emitted(c, ms), ms),
           now # Emitted(c, ms), Compare(Emitted(c, ms), now, c, ms)
    PROVE  FALSE
<1> DEFINE e == Emitted(c, ms)
           routes == {Route(m) : m \in Ordinary(ms)}
<1>1. /\ e.cla = c /\ e.classes = {c} /\ e.routes = routes /\ e.family = Family(ms)
  BY EmittedFields, Zenon
<1>2. /\ now.cla = c
      /\ Streams(ms) # {} => now.family = Family(ms) /\ now.classes = {c}
  BY WrongStreams, Zenon
<1>3. /\ \A v : [e EXCEPT !.cla = v].cla = v /\ [e EXCEPT !.family = v].family = v
      /\ \A v : [e EXCEPT !.classes = v].classes = v /\ [e EXCEPT !.routes = v].routes = v
      /\ [e EXCEPT !.family = Family(ms)] = e /\ [e EXCEPT !.routes = routes] = e
  <2>1. /\ [e EXCEPT !.family = Family(ms)] = e
        /\ [e EXCEPT !.routes = routes] = e
    BY FieldReplaced
  <2>2. ASSUME NEW v
        PROVE  /\ [e EXCEPT !.cla = v].cla = v /\ [e EXCEPT !.family = v].family = v
               /\ [e EXCEPT !.classes = v].classes = v
               /\ [e EXCEPT !.routes = v].routes = v
    BY FieldReplaced
  <2>. QED  BY <2>1, <2>2, Zenon
<1>4. ASSUME NEW m \in Ordinary(ms), NEW x,
             now = [e EXCEPT !.routes = (@ \ {Route(m)}) \cup {x}]
      PROVE  /\ x.ins = m.ins /\ x.last = m.ins /\ x.width = Width(m.response)
             /\ ~VariableRequest(m) => x.request # None
             /\ x.request \in {None, RequestLength(m)}
             /\ (FixedWidth(m.response) /\ Width(m.response) > 0) => x.early
  BY <1>4, ReplacedRoute, Zenon
<1>5. /\ \A m \in Ordinary(ms) :
            /\ Route(m) \in routes /\ m.ins \in 0..MaxByte
            /\ Width(m.response) \in 0..MaxByte
            /\ VariableRequest(m) => RequestLength(m) # OneLength
      /\ OneLength # None
      /\ \A r \in routes : \E m \in Ordinary(ms) : r = Route(m)
  <2>1. \A m \in Ordinary(ms) : /\ m.ins \in 0..MaxByte
                                /\ Width(m.response) \in 0..MaxByte
                                /\ VariableRequest(m) => RequestLength(m) >= 3
    BY Zenon DEF Ready
  <2>2. OneLength # None /\ ~(OneLength >= 3)
    BY Words DEF OneLength
  <2>. QED  BY <2>1, <2>2, Zenon
<1>6. now \in Wrong(e, ms)
  OBVIOUS
<1> HIDE DEF e
<1>7. ASSUME now = [e EXCEPT !.cla = (@ + 1) % 256] PROVE FALSE
  <2>1. now.cla = (c + 1) % 256
    BY <1>1, <1>3, <1>7, Zenon
  <2>2. c \in 0..MaxByte
    BY Zenon DEF Ready
  <2>. QED  BY <1>2, <2>1, <2>2, NextClass, Zenon
<1>8. ASSUME NEW r \in e.routes,
             now = [e EXCEPT !.routes = (@ \ {r}) \cup {[r EXCEPT !.ins = (@ + 1) % 256]}]
      PROVE  FALSE
  <2>1. PICK m \in Ordinary(ms) : r = Route(m)
    BY <1>1, <1>5, Zenon
  <2> DEFINE x == [r EXCEPT !.ins = (@ + 1) % 256]
  <2>2. x.ins = (m.ins + 1) % 256
    <3>1. x.ins = (r.ins + 1) % 256
      BY <2>1, RouteChanged
    <3>2. r.ins = m.ins
      BY <2>1, RouteFields, Zenon
    <3> HIDE DEF x
    <3>. QED  BY <3>1, <3>2, Zenon
  <2> HIDE DEF x
  <2>3. x.ins = m.ins
    BY <1>4, <1>8, <2>1, Zenon DEF x
  <2>. QED  BY <1>5, <2>2, <2>3, NextClass, Zenon
<1>9. ASSUME NEW r \in e.routes, NEW s \in e.routes,
             now = [e EXCEPT !.routes = (@ \ {r}) \cup {[r EXCEPT !.last = s.ins]}]
      PROVE  FALSE
  <2>1. PICK m \in Ordinary(ms) : r = Route(m)
    BY <1>1, <1>5, Zenon
  <2> DEFINE x == [r EXCEPT !.last = s.ins]
  <2>2. x.last = s.ins
    BY <2>1, RouteChanged
  <2>3. x.last = m.ins
    BY <1>4, <1>9, <2>1, Zenon
  <2>4. x = Route(m)
    <3>1. s.ins = m.ins
      BY <2>2, <2>3, Zenon
    <3>2. [r EXCEPT !.last = m.ins] = r
      BY <2>1, RouteChanged
    <3>3. x = [r EXCEPT !.last = m.ins]
      BY <3>1, Zenon
    <3>. QED  BY <2>1, <3>2, <3>3, Zenon
  <2> HIDE DEF x, routes
  <2>5. now = [e EXCEPT !.routes = (routes \ {Route(m)}) \cup {Route(m)}]
    BY <1>1, <1>9, <2>1, <2>4, Zenon DEF x
  <2>6. (routes \ {Route(m)}) \cup {Route(m)} = routes
    BY <1>5
  <2>7. now = e
    BY <1>3, <2>5, <2>6, Zenon
  <2>. QED  BY <2>7, Zenon DEF e
<1>10. ASSUME NEW r \in e.routes,
              now = [e EXCEPT !.routes = (@ \ {r}) \cup {[r EXCEPT !.width = @ + 1]}]
       PROVE  FALSE
  <2>1. PICK m \in Ordinary(ms) : r = Route(m)
    BY <1>1, <1>5, Zenon
  <2> DEFINE x == [r EXCEPT !.width = @ + 1]
             w == Width(m.response)
  <2>2. x.width = w + 1
    <3>1. x.width = r.width + 1
      BY <2>1, RouteChanged
    <3>2. r.width = w
      BY <2>1, RouteFields, Zenon
    <3> HIDE DEF x
    <3>. QED  BY <3>1, <3>2, Zenon
  <2> HIDE DEF x, w
  <2>3. x.width = w
    BY <1>4, <1>10, <2>1, Zenon DEF x, w
  <2>4. w \in 0..255
    BY <1>5, Zenon DEF w, MaxByte
  <2>. QED  BY <2>2, <2>3, <2>4
<1>11. ASSUME NEW r \in e.routes, r.request # None,
              now = [e EXCEPT !.routes = (@ \ {r}) \cup {[r EXCEPT !.request = None]}]
       PROVE  FALSE
  <2>1. PICK m \in Ordinary(ms) : r = Route(m)
    BY <1>1, <1>5, Zenon
  <2>2. ~VariableRequest(m)
    BY <1>11, <2>1, RouteFields, Zenon
  <2> DEFINE x == [r EXCEPT !.request = None]
  <2>3. x.request = None
    BY <2>1, RouteChanged
  <2> HIDE DEF x
  <2>. QED  BY <1>4, <1>11, <2>1, <2>2, <2>3, Zenon DEF x
<1>12. ASSUME NEW r \in e.routes, r.request = None,
              now = [e EXCEPT !.routes =
                       (@ \ {r}) \cup {[r EXCEPT !.request = OneLength]}]
       PROVE  FALSE
  <2>1. PICK m \in Ordinary(ms) : r = Route(m)
    BY <1>1, <1>5, Zenon
  <2>2. VariableRequest(m)
    <3>1. m.ins \in 0..MaxByte /\ RequestLength(m) \in Nat
      BY Zenon DEF Ready
    <3>2. RequestLength(m) # None
      BY <3>1, Words, Zenon
    <3>. QED  BY <1>12, <2>1, <3>2, RouteFields, Zenon
  <2> DEFINE x == [r EXCEPT !.request = OneLength]
  <2>3. x.request = OneLength
    BY <2>1, RouteChanged
  <2> HIDE DEF x
  <2>4. x.request \in {None, RequestLength(m)}
    BY <1>4, <1>12, <2>1, Zenon DEF x
  <2>. QED  BY <1>5, <2>2, <2>3, <2>4, Zenon
<1>13. ASSUME NEW m \in Ordinary(ms), FixedWidth(m.response), Width(m.response) > 0,
              now = [e EXCEPT !.routes =
                       (@ \ {Route(m)}) \cup {[Route(m) EXCEPT !.early = FALSE]}]
       PROVE  FALSE
  <2> DEFINE x == [Route(m) EXCEPT !.early = FALSE]
  <2>1. x.early = FALSE
    BY RouteLate, Zenon
  <2> HIDE DEF x
  <2>2. x.early
    BY <1>4, <1>13, Zenon DEF x
  <2>. QED  BY <2>1, <2>2, Zenon
<1>14. ASSUME NEW r \in e.routes, NEW ins \in {0, 255} \ {x.ins : x \in e.routes},
              now = [e EXCEPT !.routes = @ \cup {[r EXCEPT !.ins = ins]}]
       PROVE  FALSE
  <2>1. PICK m \in Ordinary(ms) : r = Route(m)
    BY <1>1, <1>5, Zenon
  <2> DEFINE x == [r EXCEPT !.ins = ins]
  <2>2. x.ins = ins
    BY <2>1, RouteChanged
  <2>3. now.routes = e.routes \cup {x}
    BY <1>3, <1>14
  <2> HIDE DEF x, routes
  <2>4. ins \in 0..MaxByte
    BY DEF MaxByte
  <2>5. \A k \in Ordinary(ms) : ins # k.ins
    <3>1. \A k \in Ordinary(ms) : Route(k) \in e.routes /\ Route(k).ins = k.ins
      BY <1>1, <1>5, RouteFields, Zenon
    <3>. QED  BY <3>1
  <2>6. x.ins \in (0..MaxByte) \ {k.ins : k \in Ordinary(ms)}
    BY <2>2, <2>4, <2>5
  <2>. QED  BY <2>3, <2>6, ExtraRoute DEF e
<1>15. ASSUME Streams(ms) # {},
              \/ \E f : now = [e EXCEPT !.family = f]
              \/ now = [e EXCEPT !.classes = {}]
              \/ now = [e EXCEPT !.classes = @ \cup {(e.cla + 1) % 256}]
       PROVE  FALSE
  <2>1. now.family = Family(ms) /\ now.classes = {c}
    BY <1>2, <1>15, Zenon
  <2>2. ASSUME NEW f, now = [e EXCEPT !.family = f] PROVE FALSE
    <3>1. f = Family(ms)
      BY <1>3, <2>1, <2>2, Zenon
    <3>2. now = e
      BY <1>3, <2>2, <3>1, Zenon
    <3>. QED  BY <3>2, Zenon DEF e
  <2>3. ASSUME now = [e EXCEPT !.classes = {}] PROVE FALSE
    <3>1. {c} = {}
      BY <1>3, <2>1, <2>3, Zenon
    <3>. QED  BY <3>1
  <2>4. ASSUME now = [e EXCEPT !.classes = @ \cup {(e.cla + 1) % 256}] PROVE FALSE
    <3>1. now.classes = {c} \cup {(c + 1) % 256}
      BY <1>1, <1>3, <2>4, Zenon
    <3>2. (c + 1) % 256 = c
      <4> DEFINE d == (c + 1) % 256
      <4> HIDE DEF d
      <4>1. {c} = {c} \cup {d}
        BY <2>1, <3>1 DEF d
      <4>2. d = c
        BY <4>1
      <4>. QED  BY <4>2 DEF d
    <3>. QED  BY <3>2, NextClass, Zenon DEF Ready
  <2>. QED  BY <1>15, <2>2, <2>3, <2>4, Zenon
<1>. QED
  BY <1>6, <1>7, <1>8, <1>9, <1>10, <1>11, <1>12, <1>13, <1>14, <1>15, WrongCases, SMTT(60)

\* And they kill: for every such contract, with the emitted corpus as the baseline,
\* Compare refuses each candidate with a wire defect in one place, a route at
\* another INS, a swapped callback, a length or a capacity test missing or late, a
\* stream's family or class bytes changed.
THEOREM WireDefectsCaught == Spec => []ProbeKills
<1>1. VisitedInv /\ MeasuredInv => ProbeKills
  <2> SUFFICES ASSUME VisitedInv, MeasuredInv, stage = "accepted", Probeable(methods),
                      NEW now \in Wrong(Emitted(raw.cla, methods), methods),
                      now # Emitted(raw.cla, methods),
                      Compare(Emitted(raw.cla, methods), now, raw.cla, methods)
               PROVE  FALSE
    BY Zenon DEF ProbeKills
  <2>1. Ready(raw.cla, methods)
    BY AcceptedReady
  <2>. QED  BY <2>1, DefectRefused
<1>. QED  BY <1>1, MeasuredAlways, PTL

=============================================================================
