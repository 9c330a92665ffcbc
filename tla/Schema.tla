------------------------------- MODULE Schema -------------------------------
(***************************************************************************)
(* From a decoded TOML contract to an accepted schema: normalizeSchema     *)
(* checks widths and places the request fields, Validate collects errors   *)
(* from the applet section, from the methods in the order of their names,  *)
(* and from the status words.  The code generators run only on a schema    *)
(* without errors, so what the properties say of an accepted schema is     *)
(* what dispatchers and clients may rely on.                               *)
(*                                                                         *)
(* Methods and status words are sequences, in sorted order of their keys.  *)
(* Text that is only matched against a pattern (names, AID, version) is    *)
(* a flag.  None is a nil pointer.                                         *)
(***************************************************************************)
EXTENDS Integers, Sequences, FiniteSets

CONSTANTS
    RawSchemas,   \* the decoded TOML files of the model
    None          \* nil

MethodKeys == {"ins", "mode", "nameOK", "request", "response"}
FieldKeys == {"type", "nameOK", "length", "fixed", "max", "chunk", "location"}

\* The methods of a decoded file are a sequence, in sorted order of their keys,
\* and a message is a sequence of fields.
ASSUME RawAssumption ==
    \A r \in RawSchemas :
        /\ DOMAIN r.methods = 1..Len(r.methods)
        /\ Len(r.methods) \in Nat
        /\ \A a \in DOMAIN r.methods :
              /\ DOMAIN r.methods[a] = MethodKeys
              /\ \A msg \in {r.methods[a].request, r.methods[a].response} \ {None} :
                    /\ DOMAIN msg = 1..Len(msg)
                    /\ Len(msg) \in Nat
                    /\ \A b \in DOMAIN msg : /\ DOMAIN msg[b] = FieldKeys
                                             /\ msg[b].fixed \in Int
                                             /\ msg[b].length \in Int \cup {None}

FieldTypes == {"u8", "u16", "u32", "bool", "ascii", "string", "bytes",
               "bytes_fixed", "stream"}
Locations == {"none", "p1", "p2", "data"}
MaxByte == 255
MaxWord == 65535           \* of a u16
MaxLength == 32767         \* of a stream: a positive Java short

VARIABLES
    raw,       \* the decoded file
    methods,   \* the normalized methods
    stage,     \* what runs next; "accepted" and "refused" are final
    n,         \* methods validated so far
    seen,      \* insSeen: the INS bytes taken
    errs       \* the kinds of errors found

vars == <<raw, methods, stage, n, seen, errs>>

Init ==
    /\ raw \in RawSchemas
    /\ methods = <<>>
    /\ stage = "normalize"
    /\ n = 0
    /\ seen = {}
    /\ errs = {}

----------------------------------------------------------------------------
(* The parser.                                                             *)

\* normalizeMessage's checks of one field: type, length, stream bounds,
\* location.
FieldParses(f) ==
    /\ f.type \in FieldTypes
    /\ f.length # None => /\ f.type \in {"bytes", "ascii"}
                          /\ f.length > 0
    /\ f.max # None \/ f.chunk # None => f.type = "stream"
    /\ f.location \in Locations

OneByte(f) == f.type \in {"u8", "bool"}

\* A faulty variant: P1 is seen twice only in neighbouring fields.
SamePlaceAdjacent(fields, where) ==
    \E a, b \in DOMAIN fields :
        b = a + 1 /\ fields[a].location = where /\ fields[b].location = where

\* assignRequestLocations: explicit places are kept and the rest goes to the
\* data; without any, one or two one-byte fields go to P1 and P2.
Located(fields) ==
    LET explicit == \E a \in DOMAIN fields : fields[a].location # "none"
        inferred == /\ ~explicit
                    /\ Len(fields) \in 1..2
                    /\ \A a \in DOMAIN fields : OneByte(fields[a])
        place(a) == IF inferred THEN (IF a = 1 THEN "p1" ELSE "p2")
                    ELSE IF fields[a].location = "none" THEN "data"
                    ELSE fields[a].location
    IN  [a \in DOMAIN fields |-> [fields[a] EXCEPT !.location = place(a)]]

SamePlace(fields, where) ==
    \E a, b \in DOMAIN fields :
        a # b /\ fields[a].location = where /\ fields[b].location = where

MessageParses(msg, isRequest) ==
    msg # None =>
        /\ \A a \in DOMAIN msg : FieldParses(msg[a])
        /\ isRequest => ~SamePlace(msg, "p1") /\ ~SamePlace(msg, "p2")

SchemaParses ==
    /\ raw.cla \in 0..MaxByte
    /\ raw.keysKnown
    /\ \A a \in DOMAIN raw.methods :
          /\ raw.methods[a].ins \in 0..MaxByte
          /\ MessageParses(raw.methods[a].request, TRUE)
          /\ MessageParses(raw.methods[a].response, FALSE)
    /\ \A a \in DOMAIN raw.statusWords : raw.statusWords[a].code \in 0..MaxWord

Normalize ==
    /\ stage = "normalize"
    /\ IF SchemaParses
       THEN /\ methods' = [a \in DOMAIN raw.methods |->
                             [raw.methods[a] EXCEPT
                                !.request = IF @ = None THEN None
                                            ELSE Located(@)]]
            /\ stage' = "applet"
            /\ UNCHANGED <<raw, n, seen, errs>>
       ELSE /\ stage' = "refused"
            /\ UNCHANGED <<raw, methods, n, seen, errs>>

----------------------------------------------------------------------------
(* The validator.                                                          *)

\* What add() collects of one check.
Err(kind, occurs) == IF occurs THEN {kind} ELSE {}

AuthenticatedInvalidate == "authenticated-invalidate"
Cleanups == {"", "whole-reply-area", AuthenticatedInvalidate}
StreamModes == {"public-invalidate", "chunked"}

AppletErrors ==
    Err("workspace", raw.workspace \notin {"", "transient", "persistent"})
      \cup Err("cleanup", raw.cleanup \notin Cleanups)
      \cup Err("cleanup storage", /\ raw.cleanup \in Cleanups \ {""}
                                  /\ raw.workspace # "persistent")
      \cup Err("metadata", ~raw.metadataOK)
      \cup Err("cla", raw.cla = 0)

ValidateApplet ==
    /\ stage = "applet"
    /\ errs' = errs \cup AppletErrors
          \cup Err("no methods", methods = <<>>)
    /\ stage' = "methods"
    /\ UNCHANGED <<raw, methods, n, seen>>

\* Message.StreamField and Method.HasStream.
Streamed(msg) == msg # None /\ \E a \in DOMAIN msg : msg[a].type = "stream"
HasStream(m) == Streamed(m.request) \/ Streamed(m.response)

OrZero(v) == IF v = None THEN 0 ELSE v

\* A faulty variant: one packet too many.
StreamBoundsLoose(f) ==
    /\ OrZero(f.max) \in 1..MaxLength
    /\ OrZero(f.chunk) \in 1..MaxByte
    /\ OrZero(f.max) <= OrZero(f.chunk) * (MaxByte + 1)

\* max_length and chunk_size of a stream field.
StreamBounds(f) ==
    /\ OrZero(f.max) \in 1..MaxLength
    /\ OrZero(f.chunk) \in 1..MaxByte
    /\ OrZero(f.max) <= OrZero(f.chunk) * MaxByte

\* validateMessage; lengths and types were checked by the parser already,
\* a fixed length of zero was not.
MessageErrors(msg) ==
    LET some(P(_)) == \E a \in DOMAIN msg : P(msg[a])
        inHeader(f) == f.location \in {"p1", "p2"}
    IN  IF msg = None THEN {} ELSE
        Err("field name", some(LAMBDA f : ~f.nameOK))
          \cup Err("stream bounds", some(LAMBDA f : f.type = "stream" /\ ~StreamBounds(f)))
          \cup Err("stream place", some(LAMBDA f : f.type = "stream" /\ inHeader(f)))
          \cup Err("fixed length", some(LAMBDA f : f.type = "bytes_fixed" /\ f.fixed <= 0))
          \cup Err("p1 or p2 type", some(LAMBDA f : inHeader(f) /\ ~OneByte(f)))
          \cup Err("same place", SamePlace(msg, "p1") \/ SamePlace(msg, "p2"))
          \cup Err("stream alone", Streamed(msg) /\ Len(msg) # 1)

\* A faulty variant: a streamed request not asked for.
StreamModeErrorsLoose(m) ==
    Err("stream mode", /\ m.mode # ""
                       /\ \/ m.mode \notin StreamModes
                          \/ ~HasStream(m)
                          \/ raw.workspace # "persistent"
                          \/ raw.cleanup # AuthenticatedInvalidate)

\* validateStreamMode
StreamModeErrors(m) ==
    Err("stream mode", /\ m.mode # ""
                       /\ \/ m.mode \notin StreamModes
                          \/ ~HasStream(m)
                          \/ raw.workspace # "persistent"
                          \/ raw.cleanup # AuthenticatedInvalidate
                          \/ ~Streamed(m.request))

\* Field.WireSize and fixedMessageLength, for the 255-byte check.
WireSize(f) ==
    IF f.type \in {"u8", "bool"} THEN 1
    ELSE IF f.type = "u16" THEN 2
    ELSE IF f.type = "u32" THEN 4
    ELSE IF f.type = "bytes_fixed" THEN f.fixed
    ELSE IF f.type \in {"ascii", "bytes"} THEN OrZero(f.length)
    ELSE 0

IsFixed(msg) == \A a \in DOMAIN msg : WireSize(msg[a]) > 0

\* What a loop adds up over a message's fields.
Total(sizes) ==
    LET upTo[a \in 0..Len(sizes)] == IF a = 0 THEN 0 ELSE upTo[a - 1] + sizes[a]
    IN  upTo[Len(sizes)]

MessageLength(msg) == Total([a \in DOMAIN msg |-> WireSize(msg[a])])

\* What validateMethods itself checks of a method with a stream.
StreamedMethodErrors(m) ==
    Err("short response", /\ HasStream(m) /\ ~Streamed(m.response)
                          /\ m.response # None
                          /\ IsFixed(m.response)
                          /\ MessageLength(m.response) > MaxByte)
      \cup Err("stream uses p1 and p2",
               /\ HasStream(m) /\ m.request # None
               /\ \E a \in DOMAIN m.request :
                    m.request[a].location \in {"p1", "p2"})
      \cup Err("authenticated reply",
               /\ raw.cleanup = AuthenticatedInvalidate
               /\ Streamed(m.response)
               /\ m.mode = "")

\* The INS bytes of a method: six in a row for a streamed one.
InsOf(m) == m.ins..(m.ins + (IF HasStream(m) THEN 5 ELSE 0))

Reserved == (96..111) \cup (144..159)    \* 0x60..0x6F, 0x90..0x9F

\* A faulty variant: only the first INS byte compared with those taken.
InsErrorsFirstOnly(m) ==
    Err("ins range", ~(InsOf(m) \subseteq 0..MaxByte))
      \cup Err("ins taken", m.ins \in seen)
      \cup Err("ins reserved", InsOf(m) \cap Reserved # {})

\* validateMethodINSRange
InsErrors(m) ==
    Err("ins range", ~(InsOf(m) \subseteq 0..MaxByte))
      \cup Err("ins taken", InsOf(m) \cap seen # {})
      \cup Err("ins reserved", InsOf(m) \cap Reserved # {})

\* One turn of validateMethods' loop.
ValidateMethod ==
    /\ stage = "methods"
    /\ n < Len(methods)
    /\ LET m == methods[n + 1]
       IN  /\ errs' = errs
                 \cup Err("method name", ~m.nameOK)
                 \cup InsErrors(m)
                 \cup MessageErrors(m.request)
                 \cup MessageErrors(m.response)
                 \cup StreamModeErrors(m)
                 \cup StreamedMethodErrors(m)
           /\ seen' = seen \cup (InsOf(m) \cap 0..MaxByte)
    /\ n' = n + 1
    /\ UNCHANGED <<raw, methods, stage>>

ValidStatusWord(c) == c \in 24576..28671 \/ c \in 36864..40959

StatusWordErrors(words) ==
    Err("status word", \E a \in DOMAIN words :
                          ~words[a].nameOK \/ ~ValidStatusWord(words[a].code))
      \cup Err("duplicate status word", \E a, b \in DOMAIN words :
                          a # b /\ words[a].code = words[b].code)

\* validateStatusWords ends Validate; a schema with no error is accepted.
ValidateStatusWords ==
    /\ stage = "methods"
    /\ n = Len(methods)
    /\ errs' = errs \cup StatusWordErrors(raw.statusWords)
    /\ stage' = IF errs' = {} THEN "accepted" ELSE "refused"
    /\ UNCHANGED <<raw, methods, n, seen>>

Next ==
    \/ Normalize
    \/ ValidateApplet
    \/ ValidateMethod
    \/ ValidateStatusWords

Spec == Init /\ [][Next]_vars

----------------------------------------------------------------------------
(* Properties.                                                             *)

\* The variables of normalizeSchema and Validate have their types; the INS
\* bytes recorded as taken are bytes.
TypeOK ==
    /\ stage \in {"normalize", "applet", "methods", "accepted", "refused"}
    /\ n \in 0..Len(methods)
    /\ seen \subseteq 0..MaxByte

\* dispatchTo()'s switch is well defined: in an accepted schema every INS
\* byte that a method claims, the six of a streamed method included, is
\* a byte, is outside the reserved ranges, and belongs to no other method.
DispatchUnambiguous ==
    stage = "accepted" =>
        \A a \in DOMAIN methods :
            /\ InsOf(methods[a]) \subseteq (0..MaxByte) \ Reserved
            /\ \A b \in DOMAIN methods :
                  a # b => InsOf(methods[a]) \cap InsOf(methods[b]) = {}

\* A client can put every accepted request on the wire: each field has
\* a place, P1 and P2 hold at most one field each and only one-byte ones, and
\* a streamed method leaves both to the packet index and count.  (TypeOK is
\* checked with it.)
RequestsPlaced ==
    /\ TypeOK
    /\ stage = "accepted" =>
          \A a \in DOMAIN methods : methods[a].request # None =>
              LET req == methods[a].request
                  at(where) == {b \in DOMAIN req : req[b].location = where}
              IN  /\ at("p1") \cup at("p2") \cup at("data") = DOMAIN req
                  /\ Cardinality(at("p1")) <= 1 /\ Cardinality(at("p2")) <= 1
                  /\ \A b \in at("p1") \cup at("p2") : OneByte(req[b])
                  /\ HasStream(methods[a]) => at("p1") \cup at("p2") = {}

\* The packet index and count of an accepted stream fit their byte: a payload
\* of the declared maximum takes at most 255 chunks.
PacketsFitByte ==
    stage = "accepted" =>
        \A a \in DOMAIN methods :
            \A msg \in {methods[a].request, methods[a].response} \ {None} :
                \A b \in DOMAIN msg : msg[b].type = "stream" =>
                    (msg[b].max + msg[b].chunk - 1) \div msg[b].chunk <= MaxByte

\* In the authenticated-invalidate runtime a reply can only be streamed where
\* an upload has ended: its handler prepares it at CLOSE_WRITE.  No check says
\* so; together they leave an accepted method with a streamed response there
\* a request that is one stream and nothing else, placed in the APDU data
\* beside the packet index and count, and persistent workspace to stage it in.
StreamedRepliesFollowUploads ==
    (stage = "accepted" /\ raw.cleanup = AuthenticatedInvalidate) =>
        \A a \in DOMAIN methods : Streamed(methods[a].response) =>
            LET req == methods[a].request
            IN  /\ raw.workspace = "persistent"
                /\ req # None /\ Len(req) = 1
                /\ req[1].type = "stream" /\ req[1].location = "data"

=============================================================================
