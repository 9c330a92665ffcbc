----------------------------- MODULE WireProbe -----------------------------
(***************************************************************************)
(* The wire compatibility fixture: probe() derives from an accepted schema *)
(* the calls that a compiled Java corpus has to answer, and Compare asks   *)
(* them of a baseline and of a candidate and compares the traces.          *)
(*                                                                         *)
(* A corpus is what its generated sources do with a call: its class byte,  *)
(* the routes of dispatchTo, the INS bytes of isStreamInstruction, and the *)
(* class bytes the stream adapter answers.  The generator is in another    *)
(* repository; Emitted is what the fixture takes for right.                *)
(***************************************************************************)
EXTENDS Schema

\* nil is no number, and none of the traces an observation can leave.
ASSUME NilAssumption ==
    None \notin Nat \cup {{}} \cup {{c} : c \in 0..MaxByte}

SwOK == 36864                \* 0x9000
SwWrongLength == 26368       \* 0x6700
SwInsNotSupported == 27904   \* 0x6D00

\* width: the bytes of a message, 3 as soon as a field is variable.
Width(msg) ==
    IF msg = None THEN 0 ELSE IF IsFixed(msg) THEN MessageLength(msg) ELSE 3
FixedWidth(msg) == msg = None \/ IsFixed(msg)

\* What a request field adds to the data bytes that ordinary() sends: nothing
\* in P1 or P2, 3 if it is variable.
InData(f) == f.location \notin {"p1", "p2"}
DataBytes(f) ==
    IF ~InData(f) THEN 0 ELSE IF WireSize(f) = 0 THEN 3 ELSE WireSize(f)

RequestLength(m) ==
    IF m.request = None THEN 0
    ELSE Total([a \in DOMAIN m.request |-> DataBytes(m.request[a])])

VariableRequest(m) ==
    /\ m.request # None
    /\ \E a \in DOMAIN m.request : InData(m.request[a]) /\ WireSize(m.request[a]) = 0

Ordinary(ms) == {ms[a] : a \in {b \in DOMAIN ms : ~HasStream(ms[b])}}
Streams(ms) == {ms[a] : a \in {b \in DOMAIN ms : HasStream(ms[b])}}

----------------------------------------------------------------------------
(* A corpus and its answers.                                               *)

OneLength == 1    \* the request length a route with a variable field demands

Route(m) ==
    [ins |-> m.ins, last |-> m.ins, width |-> Width(m.response),
     request |-> IF VariableRequest(m) THEN None ELSE RequestLength(m),
     early |-> TRUE]

Emitted(c, ms) ==
    [cla |-> c, classes |-> {c},
     routes |-> {Route(m) : m \in Ordinary(ms)},
     family |-> UNION {InsOf(m) : m \in Streams(ms)}]

\* dispatchTo: the status word, and what the callback left.
Call(corpus, ins, length, capacity) ==
    LET at == {r \in corpus.routes : r.ins = ins}
        answer(sw, last, len) == [sw |-> sw, last |-> last, n |-> len]
    IN  IF at = {} THEN answer(SwInsNotSupported, None, 0)
        ELSE LET r == CHOOSE x \in at : TRUE IN
             IF r.request \notin {None, length} THEN answer(SwWrongLength, None, 0)
             ELSE IF r.width <= capacity THEN answer(SwOK, r.last, r.width)
             ELSE answer(SwWrongLength, IF r.early THEN None ELSE r.last, 0)

\* A faulty variant: five INS bytes to a stream.
FamilyShort(ms) == UNION {m.ins..(m.ins + 4) : m \in Streams(ms)}

\* The INS bytes that the stream checks expect to be a stream's.
Family(ms) == UNION {m.ins..(m.ins + 5) : m \in Streams(ms)}

\* A faulty variant: a short response buffer is not tried.
OrdinaryPassesLong(corpus, m) ==
    LET answer == Call(corpus, m.ins, RequestLength(m), 255) IN
    /\ answer = [sw |-> SwOK, last |-> m.ins, n |-> Width(m.response)]
    /\ ~VariableRequest(m) =>
          Call(corpus, m.ins, RequestLength(m) + 1, 255)
            = [sw |-> SwWrongLength, last |-> None, n |-> 0]

\* ordinary, badRequest and shortOutput of one method.
OrdinaryPasses(corpus, m) ==
    LET answer == Call(corpus, m.ins, RequestLength(m), 255) IN
    /\ answer = [sw |-> SwOK, last |-> m.ins, n |-> Width(m.response)]
    /\ ~VariableRequest(m) =>
          Call(corpus, m.ins, RequestLength(m) + 1, 255)
            = [sw |-> SwWrongLength, last |-> None, n |-> 0]
    /\ (FixedWidth(m.response) /\ Width(m.response) > 0) =>
          Call(corpus, m.ins, RequestLength(m), Width(m.response) - 1)
            = [sw |-> SwWrongLength, last |-> None, n |-> 0]

\* stream: the flow of one streamed method, from its class refusal to the
\* sweep over all class bytes, whose outcome is only traced.  INS 0xFF is taken
\* for one that no stream has.
StreamPasses(corpus, c, m) ==
    /\ InsOf(m) \subseteq corpus.family
    /\ c \in corpus.classes
    /\ (IF (c \div 16) % 2 = 0 THEN c + 16 ELSE c - 16) \notin corpus.classes
    /\ MaxByte \notin corpus.family

\* Observe: the trace, None if some check of the probe failed.
Observe(corpus, c, ms) ==
    IF /\ corpus.cla = c
       /\ \A m \in Ordinary(ms) : OrdinaryPasses(corpus, m)
       /\ \A m \in Streams(ms) : StreamPasses(corpus, c, m)
       /\ Streams(ms) # {} => corpus.family = Family(ms)
       /\ \A ins \in (0..MaxByte) \ {m.ins : m \in Ordinary(ms)} :
             Call(corpus, ins, 0, 255).sw = SwInsNotSupported
    THEN IF Streams(ms) = {} THEN {} ELSE corpus.classes
    ELSE None

\* Compare: both corpora pass and leave the same trace.
Compare(old, now, c, ms) ==
    /\ Observe(old, c, ms) # None
    /\ Observe(now, c, ms) # None
    /\ Observe(old, c, ms) = Observe(now, c, ms)

----------------------------------------------------------------------------
(* Properties.                                                             *)

\* What the fixture presumes of a schema and Validate does not ask: ordinary
\* messages fit one short APDU, and no stream reaches up to INS 0xFF.
Probeable(ms) ==
    /\ \A m \in Ordinary(ms) :
          RequestLength(m) < MaxByte /\ Width(m.response) <= MaxByte
    /\ MaxByte \notin Family(ms)

\* For every accepted schema the probes are satisfiable: the corpus emitted
\* from the same schema passes them all, so a failure is a wire failure.
ProbeAdmits ==
    (stage = "accepted" /\ Probeable(methods)) =>
        LET emitted == Emitted(raw.cla, methods)
        IN  Compare(emitted, emitted, raw.cla, methods)

\* Corpora with one defect on the wire.
Wrong(corpus, ms) ==
    LET with(r, x) == [corpus EXCEPT !.routes = (@ \ {r}) \cup {x}] IN
    {[corpus EXCEPT !.cla = (@ + 1) % 256]}
      \cup {with(r, [r EXCEPT !.ins = (@ + 1) % 256]) : r \in corpus.routes}
      \cup {with(r, [r EXCEPT !.last = s.ins]) : r, s \in corpus.routes}
      \cup {with(r, [r EXCEPT !.width = @ + 1]) : r \in corpus.routes}
      \cup {with(r, [r EXCEPT !.request = None]) :
              r \in {x \in corpus.routes : x.request # None}}
      \cup {with(r, [r EXCEPT !.request = OneLength]) :
              r \in {x \in corpus.routes : x.request = None}}
      \cup {with(Route(m), [Route(m) EXCEPT !.early = FALSE]) :
              m \in {x \in Ordinary(ms) : FixedWidth(x.response) /\ Width(x.response) > 0}}
      \cup {[corpus EXCEPT !.routes = @ \cup {[r EXCEPT !.ins = ins]}] :
              r \in corpus.routes,
              ins \in (IF corpus.routes = {} THEN {} ELSE
                       {0, 255} \ {x.ins : x \in corpus.routes})}
      \cup (IF Streams(ms) = {} THEN {} ELSE
            {[corpus EXCEPT !.family = @ \ {CHOOSE ins \in @ : \A j \in @ : j <= ins}],
             [corpus EXCEPT !.family = @ \cup {0}],
             [corpus EXCEPT !.classes = {}],
             [corpus EXCEPT !.classes = @ \cup {(corpus.cla + 1) % 256}]})

\* Against the emitted corpus as baseline, Compare refuses every candidate
\* with a wire defect in one place, whatever accepted schema it is for: a
\* route at another INS, a callback swapped with one of equal width, a length
\* or capacity test missing or too late, a family one byte short, a class
\* byte too many.
ProbeKills ==
    (stage = "accepted" /\ Probeable(methods)) =>
        LET emitted == Emitted(raw.cla, methods)
        IN  \A candidate \in Wrong(emitted, methods) \ {emitted} :
               ~Compare(emitted, candidate, raw.cla, methods)
=============================================================================
