------------------------------ MODULE MCSchema ------------------------------
(* Decoded contracts for the parser and the validator.                     *)
EXTENDS WireProbe

Field(type, location) ==
    [type |-> type, nameOK |-> TRUE, length |-> None, fixed |-> 0, max |-> None,
     chunk |-> None, location |-> location]
Stream(max, chunk, location) ==
    [Field("stream", location) EXCEPT !.max = max, !.chunk = chunk]
Fixed(size) == [Field("bytes_fixed", "none") EXCEPT !.fixed = size]
Sized(type, length) == [Field(type, "none") EXCEPT !.length = length]

Method(ins, mode, request, response) ==
    [ins |-> ins, mode |-> mode, nameOK |-> TRUE, request |-> request,
     response |-> response]

Contract(ms, workspace, cleanup) ==
    [cla |-> 176, keysKnown |-> TRUE, metadataOK |-> TRUE,
     workspace |-> workspace, cleanup |-> cleanup, methods |-> ms,
     statusWords |-> << [nameOK |-> TRUE, code |-> 27013] >>]

Plain(m) == Contract(<<m>>, "", "")

GoodStream == Stream(100, 10, "none")

\* Requests of up to three fields: every mix of places, inferred and explicit.
PlacedFields ==
    {Field(ty, l) : ty \in {"u8", "bool", "u16"}, l \in Locations}
      \cup {Field("bytes", "none"), Stream(100, 10, "none"), Stream(100, 10, "p1")}
Requests == UNION {[1..size -> PlacedFields] : size \in 0..2}
             \cup [1..3 -> {Field("u8", "none"), Field("u8", "p2"), Field("bool", "p1")}]

PlacementSchemas ==
    {Plain(Method(1, "", req, resp)) :
       req \in Requests \cup {None},
       resp \in {None, <<Field("u8", "none")>>, <<GoodStream>>}}

\* Streams at the edges of their bounds, and responses at the edge of 255
\* bytes.
EdgeStreams ==
    {Stream(max, chunk, "none") :
       max \in {None, 0, 1, 254, 255, 256, 510, 511, 512, 32767, 32768},
       chunk \in {None, 0, 1, 2, 128, 129, 255, 256}}
EdgeResponses ==
    {<<Fixed(size), Field("u8", "none")>> : size \in {0, 254, 255}}
      \cup {<<Sized("ascii", size)>> : size \in {0, 255, 256}}
      \cup {<<Sized("u16", 2)>>, <<Field("float", "none")>>}
BoundSchemas ==
    {Plain(Method(1, "", <<s>>, None)) : s \in EdgeStreams}
      \cup {Plain(Method(1, "", <<GoodStream>>, resp)) : resp \in EdgeResponses}

\* Workspaces, cleanups and stream modes, with uploads and requests that are
\* none or more than that.
ModeSchemas ==
    {Contract(<<Method(1, mode, req, resp)>>, workspace, cleanup) :
       mode \in {"", "public-invalidate", "chunked", "other"},
       req \in {None, <<GoodStream>>, <<Stream(100, 10, "p1")>>,
                <<Field("u8", "none")>>, <<GoodStream, Field("u8", "none")>>},
       resp \in {None, <<GoodStream>>},
       workspace \in {"", "transient", "persistent", "disk"},
       cleanup \in {"", "whole-reply-area", AuthenticatedInvalidate, "none"}}

\* Three methods, plain and streamed, with INS bytes that touch, overlap, and
\* meet the reserved ranges and the end of the byte.
InsBytes == {1, 4, 6, 7, 91, 95, 96, 112, 138, 250, 251, 255, 256}
InsMethods ==
    {Method(b, "", None, resp) : b \in InsBytes, resp \in {None, <<GoodStream>>}}
InsSchemas ==
    {Contract(ms, "", "") : ms \in UNION {[1..size -> InsMethods] : size \in 0..2}}
      \cup {Contract(<<Method(a, "", None, None), Method(6, "", None, <<GoodStream>>),
                       Method(b, "", None, None)>>, "", "") :
              a, b \in 4..13}

\* The applet section and the status words.
OtherSchemas ==
    LET base == Plain(Method(1, "", None, None))
        unary == Plain(Method(1, "", <<Field("u8", "none")>>, <<Field("u16", "none")>>))
        word(c) == [nameOK |-> TRUE, code |-> c]
    IN  {[base EXCEPT !.cla = c] : c \in {-1, 0, 255, 256}}
          \cup {[base EXCEPT !.keysKnown = FALSE], [base EXCEPT !.metadataOK = FALSE]}
          \cup {[base EXCEPT !.methods[1].nameOK = FALSE]}
          \cup {unary, [unary EXCEPT !.methods[1].request[1].nameOK = FALSE],
                [unary EXCEPT !.methods[1].response[1].nameOK = FALSE]}
          \cup {[base EXCEPT !.statusWords = <<word(c), word(d)>>] :
                  c, d \in {24575, 24576, 28671, 28672, 36864, 65536}}

AllSchemas ==
    PlacementSchemas \cup BoundSchemas \cup ModeSchemas \cup InsSchemas
      \cup OtherSchemas

=============================================================================
