--------------------------- MODULE CounterApplet ---------------------------
(***************************************************************************)
(* The Counter applet as the card runs it: CounterJCApplet.process()       *)
(* receives the request into the APDU buffer, fragment by fragment, the    *)
(* generated skeleton's dispatchTo() decodes it there, and CounterApplet's *)
(* on...() methods answer into the SAME buffer, from offset 0, over the    *)
(* header and over the request they were given.                            *)
(*                                                                         *)
(* The counter and its limit are Java shorts: arithmetic is done at 16     *)
(* bits, signed, and a u16 of the wire is read into a short.  Bytes are    *)
(* 0..255.  The methods that return constant data (getSpki, getImsi,       *)
(* getAppletInfo, getDisplayName) are one family, Fixed.                   *)
(***************************************************************************)
EXTENDS Integers, Sequences

CONSTANTS
    Requests,      \* the commands clients may send
    Fixed,         \* a function from the constant-data methods to their data
    MaxDataSize,   \* MAX_DATA_SIZE: 128 in the code
    PartSize,      \* challenge bytes per half signature: 8 in the code
    BufLen         \* length of the APDU buffer

ASSUME SizesAssumption ==
    /\ MaxDataSize \in Nat
    /\ PartSize \in 1..8
    /\ BufLen \in 7..32767
    /\ MaxDataSize <= BufLen

Byte == 0..255
MAX_SHORT == 32767          \* Short.MAX_VALUE
Short == (-MAX_SHORT - 1)..MAX_SHORT

CLA_COUNTER == 176          \* 0xB0
OFFSET_CDATA == 5
DEFAULT_LIMIT == MAX_SHORT  \* 0x7FFF
VERSION == 1

SW_OK == 36864                  \* 0x9000
SW_CLA_NOT_SUPPORTED == 28160   \* 0x6E00
SW_INS_NOT_SUPPORTED == 27904   \* 0x6D00
SW_WRONG_LENGTH == 26368        \* 0x6700
SW_EMPTY_CHALLENGE == 26368     \* 0x6700
SW_UNDERFLOW == 27013           \* 0x6985
SW_OVERFLOW == 27014            \* 0x6986
SW_NO_DATA == 27272             \* 0x6A88
SW_DATA_TOO_LONG == 27264       \* 0x6A80

Methods == {"increment", "decrement", "get", "reset", "setLimit", "getInfo",
            "store", "load", "signChallenge", "echoMessage"} \cup DOMAIN Fixed

\* A command as the client puts it on the wire.  `ins' is the method's INS
\* byte, "unknown" any INS without a method.
IsRequest(r) ==
    /\ DOMAIN r = {"cla", "ins", "p1", "data"}
    /\ r.cla \in Byte
    /\ r.ins \in Methods \cup {"unknown"}
    /\ r.p1 \in Byte
    /\ r.data \in Seq(Byte)
    /\ Len(r.data) <= 65535     \* the longest an extended APDU can be

ASSUME RequestsAssumption == \A r \in Requests : IsRequest(r)

\* The constant data is bytes and fits an answer.
ASSUME FixedAssumption ==
    \A m \in DOMAIN Fixed :
      Fixed[m] \in Seq(Byte) /\ Len(Fixed[m]) <= 255 /\ Len(Fixed[m]) <= BufLen

VARIABLES
    counter,         \* short counter
    limit,           \* short limit
    storedData,      \* byte[] storedData, 0..MaxDataSize-1
    storedDataLen,   \* int storedDataLen, -1 for nothing stored
    buf,             \* the APDU buffer, 0..BufLen-1
    phase,           \* where process() is: idle or receiving
    cmd,             \* the command being processed, as the client sent it
    received,        \* bytes of its data received so far
    reply            \* the last answer, with the command it answers

appletVars == <<counter, limit, storedData, storedDataLen>>
vars == <<counter, limit, storedData, storedDataLen, buf, phase, cmd,
          received, reply>>

----------------------------------------------------------------------------
(* Java arithmetic and the skeleton's pack and read helpers.               *)

\* (short) n
ToShort(n) == ((n + 32768) % 65536) - 32768

\* The unsigned number the two wire bytes of a short stand for.
U16(s) == s % 65536

\* packU16, packU8 and packBool: the bytes they write.
PackU16(s) == <<U16(s) \div 256, U16(s) % 256>>
PackBool(b) == IF b THEN <<1>> ELSE <<0>>

\* readU16 at an offset of the buffer.
ReadU16(b, off) == ToShort(b[off] * 256 + b[off + 1])

\* The bytes of the window [off, off + len) of an array.
Window(b, off, len) == [i \in 1..len |-> b[off + i - 1]]

\* The array with the bytes of s written from off on.
Write(b, off, s) ==
    [i \in DOMAIN b |-> IF i \in off..(off + Len(s) - 1)
                        THEN s[i - off + 1] ELSE b[i]]

\* copyBytes() within one array: the loop runs backwards when the target
\* starts inside the source, forwards otherwise, one byte per iteration.
CopyForward(b, srcOff, dstOff, len) ==
    LET after[i \in 0..len] ==
          IF i = 0 THEN b
          ELSE [after[i - 1] EXCEPT ![dstOff + i - 1] =
                                       after[i - 1][srcOff + i - 1]]
    IN  after[len]

CopyBackward(b, srcOff, dstOff, len) ==
    LET after[i \in 0..len] ==
          IF i = 0 THEN b
          ELSE [after[i - 1] EXCEPT ![dstOff + len - i] =
                                       after[i - 1][srcOff + len - i]]
    IN  after[len]

\* A faulty variant: always backwards.
CopyAlwaysBackward(b, srcOff, dstOff, len) ==
    CopyBackward(b, srcOff, dstOff, len)

CopyBytes(b, srcOff, dstOff, len) ==
    IF dstOff > srcOff /\ dstOff - srcOff < len
    THEN CopyBackward(b, srcOff, dstOff, len)
    ELSE CopyForward(b, srcOff, dstOff, len)

\* a ^ b on bytes.
Xor(a, b) ==
    LET bit(p) == ((a \div p + b \div p) % 2) * p
    IN  bit(1) + bit(2) + bit(4) + bit(8) + bit(16) + bit(32) + bit(64) + bit(128)

\* The two half signatures of onSignChallenge over the challenge found in the
\* buffer, with the sign bit of each half's first byte cleared.
SignatureScratch(b, len, part) ==
    LET low(s) == U16(s) % 256
        unsigned(i, byte) == IF i = 1 THEN byte % 128 ELSE byte
        head(i) == Xor(Xor(b[OFFSET_CDATA + i - 1], VERSION), low(counter))
        tail(i) == Xor(Xor(b[OFFSET_CDATA + len - i], low(limit)), 90)
    IN  <<[i \in 1..part |-> unsigned(i, head(i))],
          [i \in 1..part |-> unsigned(i, tail(i))]>>

\* The DER sequence of the two halves, as the packU8 and packBytes calls of
\* onSignChallenge lay it out.
SignatureBytes(halves, part) ==
    <<48, 4 + 2 * part, 2, part>> \o halves[1] \o <<2, part>> \o halves[2]

----------------------------------------------------------------------------
(* process(): receiving the command.                                       *)

NoCommand == [cla |-> 0, ins |-> "unknown", p1 |-> 0, data |-> <<>>]

Answer(sw, data) == [to |-> cmd, sw |-> sw, data |-> data]
NoReply == [to |-> NoCommand, sw |-> SW_OK, data |-> <<>>]

Init ==
    /\ counter = 0
    /\ limit = DEFAULT_LIMIT
    /\ storedData = [i \in 0..(MaxDataSize - 1) |-> 0]
    /\ storedDataLen = -1
    /\ buf = [i \in 0..(BufLen - 1) |-> 0]
    /\ phase = "idle"
    /\ cmd = NoCommand
    /\ received = 0
    /\ reply = NoReply

requestLength == Len(cmd.data)

\* The header as process() finds it; its INS and P1 are captured before
\* anything is written: cmd.ins and cmd.p1 stand for the local copies.  The
\* length field of an extended APDU is a zero and two bytes more, so that its
\* data starts behind OFFSET_CDATA.
LengthField(n) == IF n <= 255 THEN <<n>> ELSE <<0, n \div 256, n % 256>>
Header(r) == <<r.cla, 0, r.p1, 0>> \o LengthField(Len(r.data))

RejectCla(r) ==
    /\ phase = "idle"
    /\ r.cla # CLA_COUNTER
    /\ cmd' = r
    /\ buf' = Write(buf, 0, Header(r))
    /\ received' = 0
    /\ reply' = [to |-> r, sw |-> SW_CLA_NOT_SUPPORTED, data |-> <<>>]
    /\ UNCHANGED <<appletVars, phase>>

\* setIncomingAndReceive(): the runtime puts a first part of the data, k
\* bytes, behind the header.
Receive(r, k) ==
    /\ phase = "idle"
    /\ r.cla = CLA_COUNTER
    /\ k \in 0..Len(r.data)
    /\ Len(Header(r)) + k <= BufLen
    /\ cmd' = r
    /\ buf' = Write(buf, 0, Header(r) \o SubSeq(r.data, 1, k))
    /\ received' = k
    /\ phase' = "receiving"
    /\ UNCHANGED <<appletVars, reply>>

\* ISOException.throwIt or a StatusWordException: no state of the applet has
\* changed, only the status word goes back.
Fail(sw) ==
    /\ reply' = Answer(sw, <<>>)
    /\ phase' = "idle"
    /\ UNCHANGED <<appletVars, buf, cmd, received>>

\* The offset and length checks of process(): short APDUs only, staged as a
\* whole.
Fits == requestLength <= 255 /\ requestLength <= BufLen - OFFSET_CDATA

RejectLength ==
    /\ phase = "receiving"
    /\ ~Fits
    /\ Fail(SW_WRONG_LENGTH)

\* A faulty variant: every fragment received at the start of the data.
ReceiveAtStart(k) ==
    /\ phase = "receiving"
    /\ Fits
    /\ received < requestLength
    /\ k \in 1..(requestLength - received)
    /\ buf' = Write(buf, OFFSET_CDATA,
                    SubSeq(cmd.data, received + 1, received + k))
    /\ received' = received + k
    /\ UNCHANGED <<appletVars, phase, cmd, reply>>

\* receiveBytes(): the next k bytes land behind the ones already received.
ReceiveMore(k) ==
    /\ phase = "receiving"
    /\ Fits
    /\ received < requestLength
    /\ k \in 1..(requestLength - received)
    /\ buf' = Write(buf, OFFSET_CDATA + received,
                    SubSeq(cmd.data, received + 1, received + k))
    /\ received' = received + k
    /\ UNCHANGED <<appletVars, phase, cmd, reply>>

\* receiveBytes() returns no byte although some are missing.
ReceiveNothing ==
    /\ phase = "receiving"
    /\ Fits
    /\ received < requestLength
    /\ Fail(SW_WRONG_LENGTH)

----------------------------------------------------------------------------
(* dispatchTo() and the span it returns.                                   *)

outputCapacity == IF BufLen > 255 THEN 255 ELSE BufLen

\* The whole request is staged and dispatchTo() is entered.
AtDispatch == phase = "receiving" /\ Fits /\ received = requestLength

\* The handlers' first check: the length the method's request fields add up
\* to, unless its last field takes whatever comes.
LengthOK ==
    \/ cmd.ins \in {"store", "signChallenge", "echoMessage", "unknown"}
    \/ requestLength = IF cmd.ins = "setLimit" THEN 2 ELSE 0

WrongLength == AtDispatch /\ ~LengthOK /\ Fail(SW_WRONG_LENGTH)

Dispatched(m) == AtDispatch /\ LengthOK /\ cmd.ins = m

\* The answer: the method left the buffer as b and returned n, and the first
\* n bytes are sent.
SendBuffer(b, n) ==
    /\ buf' = b
    /\ reply' = Answer(SW_OK, Window(b, 0, n))
    /\ phase' = "idle"
    /\ UNCHANGED <<cmd, received>>

\* The bytes of out are packed from offset 0 on and sent.
Send(out) == SendBuffer(Write(buf, 0, out), Len(out))

\* requireCapacity() before the answer is packed.
SendWithin(out) ==
    IF Len(out) > outputCapacity
    THEN Fail(SW_WRONG_LENGTH)
    ELSE Send(out) /\ UNCHANGED appletVars

----------------------------------------------------------------------------
(* Faulty variants of the operations, each a slip the properties exclude.  *)

\* The wrap-around test forgotten.
IncrementNoWrapTest ==
    /\ Dispatched("increment")
    /\ LET newVal == ToShort(counter + cmd.p1)
       IN  IF newVal > limit
           THEN Fail(SW_OVERFLOW)
           ELSE /\ counter' = newVal
                /\ Send(PackU16(newVal))
                /\ UNCHANGED <<limit, storedData, storedDataLen>>

\* The underflow guard off by one.
DecrementNotToZero ==
    /\ Dispatched("decrement")
    /\ IF cmd.p1 >= counter
       THEN Fail(SW_UNDERFLOW)
       ELSE /\ counter' = ToShort(counter - cmd.p1)
            /\ Send(PackU16(counter'))
            /\ UNCHANGED <<limit, storedData, storedDataLen>>

----------------------------------------------------------------------------
(* dispatchTo(): one action per method, each the generated handle...() and *)
(* the applet's on...().                                                   *)

Increment ==
    /\ Dispatched("increment")
    /\ LET newVal == ToShort(counter + cmd.p1)
       IN  IF newVal > limit \/ newVal < counter
           THEN Fail(SW_OVERFLOW)
           ELSE /\ counter' = newVal
                /\ Send(PackU16(newVal))
                /\ UNCHANGED <<limit, storedData, storedDataLen>>

Decrement ==
    /\ Dispatched("decrement")
    /\ IF cmd.p1 > counter
       THEN Fail(SW_UNDERFLOW)
       ELSE /\ counter' = ToShort(counter - cmd.p1)
            /\ Send(PackU16(counter'))
            /\ UNCHANGED <<limit, storedData, storedDataLen>>

Get ==
    /\ Dispatched("get")
    /\ Send(PackU16(counter))
    /\ UNCHANGED appletVars

Reset ==
    /\ Dispatched("reset")
    /\ counter' = 0
    /\ Send(<<>>)
    /\ UNCHANGED <<limit, storedData, storedDataLen>>

SetLimit ==
    /\ Dispatched("setLimit")
    /\ limit' = ReadU16(buf, OFFSET_CDATA)
    /\ Send(<<>>)
    /\ UNCHANGED <<counter, storedData, storedDataLen>>

GetInfo ==
    /\ Dispatched("getInfo")
    /\ Send(PackU16(counter) \o PackU16(limit) \o <<VERSION>>
              \o PackBool(storedDataLen >= 0) \o PackBool(counter = limit))
    /\ UNCHANGED appletVars

Store ==
    /\ Dispatched("store")
    /\ IF requestLength > MaxDataSize
       THEN Fail(SW_DATA_TOO_LONG)
       ELSE /\ storedData' = Write(storedData, 0,
                                   Window(buf, OFFSET_CDATA, requestLength))
            /\ storedDataLen' = requestLength
            /\ Send(<<>>)
            /\ UNCHANGED <<counter, limit>>

Load ==
    /\ Dispatched("load")
    /\ IF storedDataLen < 0
       THEN Fail(SW_NO_DATA)
       ELSE SendWithin(Window(storedData, 0, storedDataLen))

SignChallenge ==
    /\ Dispatched("signChallenge")
    /\ IF requestLength = 0
       THEN Fail(SW_EMPTY_CHALLENGE)
       ELSE LET part == IF requestLength > PartSize
                        THEN PartSize ELSE requestLength
            IN  SendWithin(SignatureBytes(
                    SignatureScratch(buf, requestLength, part), part))

EchoMessage ==
    /\ Dispatched("echoMessage")
    /\ IF requestLength > outputCapacity
       THEN Fail(SW_WRONG_LENGTH)
       ELSE /\ SendBuffer(CopyBytes(buf, OFFSET_CDATA, 0, requestLength),
                          requestLength)
            /\ UNCHANGED appletVars

\* getSpki, getImsi, getAppletInfo and getDisplayName.
GetFixed(m) ==
    /\ Dispatched(m)
    /\ SendWithin(Fixed[m])

\* dispatchTo()'s default case.
Unknown ==
    /\ Dispatched("unknown")
    /\ Fail(SW_INS_NOT_SUPPORTED)

Next ==
    \/ \E r \in Requests : RejectCla(r)
    \/ \E r \in Requests : \E k \in 0..Len(r.data) : Receive(r, k)
    \/ \E k \in 1..requestLength : ReceiveMore(k)
    \/ ReceiveNothing
    \/ RejectLength
    \/ WrongLength
    \/ Increment
    \/ Decrement
    \/ Get
    \/ Reset
    \/ SetLimit
    \/ GetInfo
    \/ Store
    \/ Load
    \/ SignChallenge
    \/ EchoMessage
    \/ \E m \in DOMAIN Fixed : GetFixed(m)
    \/ Unknown

Spec == Init /\ [][Next]_vars

----------------------------------------------------------------------------
(* Properties.                                                             *)

\* The applet's variables have their types: the counter and the limit are
\* shorts, the stored length fits storedData, and process() never receives
\* more than the command holds.
TypeOK ==
    /\ counter \in Short
    /\ limit \in Short
    /\ storedData \in [0..(MaxDataSize - 1) -> Byte]
    /\ storedDataLen \in -1..MaxDataSize
    /\ buf \in [0..(BufLen - 1) -> Byte]
    /\ phase \in {"idle", "receiving"}
    /\ cmd \in Requests \cup {NoCommand}
    /\ received \in 0..requestLength
    /\ reply.to \in Requests \cup {NoCommand}

\* The counter never wraps: whatever sequence of increments, decrements,
\* resets and limits clients send, onIncrement's and onDecrement's 16-bit
\* arithmetic leaves it between 0 and 0x7FFF.
NeverNegative == counter >= 0

\* However the runtime cuts a short APDU into fragments, process() stages it
\* in the buffer behind the header as the client sent it.  (TypeOK is checked
\* with it.)
StagedIntact ==
    /\ TypeOK
    /\ (phase = "receiving" /\ requestLength <= 255) =>
          Window(buf, OFFSET_CDATA, received) = SubSeq(cmd.data, 1, received)

\* The signature of a challenge as the client computes it, for IdealCounter.
RefSignature(challenge, value, cap) ==
    LET n == IF Len(challenge) > PartSize THEN PartSize ELSE Len(challenge)
        head == [i \in 1..n |-> Xor(Xor(challenge[i], 1), value % 256)]
        tail == [i \in 1..n |->
                   Xor(Xor(challenge[Len(challenge) + 1 - i], cap % 256), 90)]
    IN  <<48, 4 + 2 * n, 2, n>> \o (<<head[1] % 128>> \o Tail(head))
          \o <<2, n>> \o (<<tail[1] % 128>> \o Tail(tail))

\* storedDataLen = -1
NoBlob == <<-1>>

Ideal == INSTANCE IdealCounter WITH
    MaxCap <- MAX_SHORT,
    MaxBlob <- MaxDataSize,
    Signature <- RefSignature,
    value <- counter,
    cap <- U16(limit),
    blob <- IF storedDataLen < 0 THEN NoBlob
            ELSE Window(storedData, 0, storedDataLen),
    answer <- reply

\* The applet is the counter of counter.toml: under limits up to 0x7FFF the
\* signed 16-bit arithmetic agrees with the integers, under larger ones an
\* increment is at worst refused; load returns the last
\* blob stored, also after a longer one, a refused command changes nothing,
\* and echo and signChallenge answer for the message as it was sent although
\* they write their answer over it.
ImplementsIdeal == Ideal!Spec

\* counter.toml's SW_OVERFLOW, "Counter would exceed limit": an increment is
\* refused with it only if the sum exceeds the limit the client has set.
OverflowMeansOverLimit ==
    [][ (/\ reply' # reply
         /\ reply'.sw = SW_OVERFLOW) =>
           counter + reply'.to.p1 > U16(limit) ]_vars

=============================================================================
