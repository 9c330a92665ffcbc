--------------------------- MODULE CounterProofs ---------------------------
(***************************************************************************)
(* The Counter applet's counter never wraps, the command it serves is the  *)
(* one that was sent, and the applet implements counter.toml's ideal       *)
(* counter, for every set of commands, every amount and every limit.       *)
(***************************************************************************)
EXTENDS CounterApplet, Induction, SequenceTheorems, TLAPS

\* The counter is a non-negative short and the command being processed is one
\* a client may send, so that its amount is a byte.
CounterInv ==
    /\ counter \in 0..MAX_SHORT
    /\ cmd \in Requests \cup {NoCommand}

\* Short.MAX_VALUE is a number.
LEMMA MaxShortType == MAX_SHORT \in Nat
  BY DEF MAX_SHORT

\* A remainder modulo 2^16 is below 2^16.
LEMMA Mod16 ==
    ASSUME NEW m \in Int
    PROVE  m % 65536 \in Int /\ 0 <= m % 65536 /\ m % 65536 < 65536
  OBVIOUS

\* (short) n is at most the largest short.
LEMMA ToShortBounded ==
    ASSUME NEW n \in Int
    PROVE  ToShort(n) \in Int /\ ToShort(n) <= MAX_SHORT
<1> DEFINE m == (n + 32768) % 65536
<1>1. m \in Int /\ m < 65536
  BY Mod16
<1> HIDE DEF m
<1>2. m - 32768 \in Int /\ m - 32768 <= 32767
  BY <1>1
<1> QED
  BY <1>2 DEF m, ToShort, MAX_SHORT

\* (short) n is n where n is a non-negative short.
LEMMA ToShortSame ==
    ASSUME NEW n \in 0..MAX_SHORT
    PROVE  ToShort(n) = n
<1>1. n \in Int /\ 0 <= n + 32768 /\ n + 32768 < 65536
  BY SMTT(30) DEF MAX_SHORT
<1>2. (n + 32768) % 65536 = n + 32768
  BY <1>1, SMTT(30)
<1> QED
  BY <1>1, <1>2, SMTT(30) DEF ToShort

\* The amount of the command being processed is a byte.
LEMMA AmountIsByte ==
    ASSUME CounterInv
    PROVE  cmd.p1 \in 0..255
  BY RequestsAssumption DEF CounterInv, IsRequest, NoCommand, Byte

\* The counter starts at 0, before any command.
LEMMA CounterInit == Init => CounterInv
  BY MaxShortType DEF Init, CounterInv

\* Only onIncrement, onDecrement and onReset write the counter: onIncrement's
\* sum, cut to a short, is kept only if it is not below the counter it
\* started from, and onDecrement's difference is never below zero.
LEMMA CounterStep == CounterInv /\ [Next]_vars => CounterInv'
<1> SUFFICES ASSUME CounterInv, [Next]_vars
             PROVE  CounterInv'
  OBVIOUS
<1>1. CASE Increment
  <2>1. CASE UNCHANGED <<counter, cmd>>
    BY <2>1 DEF CounterInv
  <2>2. CASE /\ counter' = ToShort(counter + cmd.p1)
             /\ ~(ToShort(counter + cmd.p1) < counter)
             /\ cmd' = cmd
    <3>1. counter + cmd.p1 \in Int
      BY AmountIsByte, MaxShortType DEF CounterInv
    <3>2. /\ ToShort(counter + cmd.p1) \in Int
          /\ ToShort(counter + cmd.p1) <= MAX_SHORT
      BY <3>1, ToShortBounded
    <3>3. counter' \in 0..MAX_SHORT
      BY <2>2, <3>2, MaxShortType DEF CounterInv
    <3> QED
      BY <2>2, <3>3 DEF CounterInv
  <2> QED
    BY <1>1, <2>1, <2>2
    DEF Increment, Fail, appletVars, Send, SendBuffer
<1>2. CASE Decrement
  <2>1. CASE UNCHANGED <<counter, cmd>>
    BY <2>1 DEF CounterInv
  <2>2. CASE /\ counter' = ToShort(counter - cmd.p1)
             /\ ~(cmd.p1 > counter)
             /\ cmd' = cmd
    <3>1. counter - cmd.p1 \in 0..MAX_SHORT
      BY <2>2, AmountIsByte, MaxShortType DEF CounterInv
    <3>2. ToShort(counter - cmd.p1) = counter - cmd.p1
      BY <3>1, ToShortSame
    <3> QED
      BY <2>2, <3>1, <3>2 DEF CounterInv
  <2> QED
    BY <1>2, <2>1, <2>2
    DEF Decrement, Fail, appletVars, Send, SendBuffer
<1>3. CASE Reset
  BY <1>3, MaxShortType DEF Reset, Send, SendBuffer, CounterInv
<1>4. CASE \E r \in Requests : RejectCla(r)
  BY <1>4 DEF RejectCla, CounterInv, appletVars
<1>5. CASE \E r \in Requests : \E k \in 0..Len(r.data) : Receive(r, k)
  BY <1>5 DEF Receive, CounterInv, appletVars
<1>6. CASE UNCHANGED <<counter, cmd>>
  BY <1>6 DEF CounterInv
<1> QED
  <2>1. (\E k \in 1..requestLength : ReceiveMore(k)) => UNCHANGED <<counter, cmd>>
    BY DEF ReceiveMore, appletVars
  <2>2. ReceiveNothing \/ RejectLength \/ WrongLength \/ Unknown
          => UNCHANGED <<counter, cmd>>
    BY DEF ReceiveNothing, RejectLength, WrongLength, Unknown, Fail, appletVars
  <2>3. Get \/ GetInfo \/ SetLimit \/ Store => UNCHANGED <<counter, cmd>>
    BY DEF Get, GetInfo, SetLimit, Store, Fail, Send, SendBuffer, appletVars
  <2>4. Load \/ SignChallenge \/ (\E m \in DOMAIN Fixed : GetFixed(m))
          => UNCHANGED <<counter, cmd>>
    BY DEF Load, SignChallenge, GetFixed, SendWithin, Fail, Send, SendBuffer,
           appletVars
  <2>5. EchoMessage => UNCHANGED <<counter, cmd>>
    BY DEF EchoMessage, Fail, SendBuffer, appletVars
  <2>6. UNCHANGED vars => UNCHANGED <<counter, cmd>>
    BY DEF vars
  <2> QED
    BY <1>1, <1>2, <1>3, <1>4, <1>5, <1>6, <2>1, <2>2, <2>3, <2>4, <2>5, <2>6
    DEF Next

\* No sequence of increments, decrements, resets and new limits, with any
\* amounts, makes the 16-bit counter wrap below zero.
THEOREM NeverWraps == Spec => []NeverNegative
<1>1. CounterInv => NeverNegative
  BY MaxShortType DEF CounterInv, NeverNegative
<1> QED
  BY <1>1, CounterInit, CounterStep, PTL DEF Spec
----------------------------------------------------------------------------
\* The buffer.

\* Writing bytes into an array of bytes leaves one.
LEMMA WriteType ==
    ASSUME NEW n \in Nat, NEW b \in [0..(n - 1) -> Byte], NEW off \in Nat,
           NEW s \in Seq(Byte)
    PROVE  Write(b, off, s) \in [0..(n - 1) -> Byte]
<1>1. ASSUME NEW i \in 0..(n - 1), i \in off..(off + Len(s) - 1)
      PROVE  s[i - off + 1] \in Byte
  <2>1. i - off + 1 \in 1..Len(s)
    BY <1>1
  <2> QED
    BY <2>1
<1> QED
  BY <1>1 DEF Write

\* Bytes written are found where they were written.
LEMMA WriteRead ==
    ASSUME NEW n \in Nat, NEW b \in [0..(n - 1) -> Byte], NEW off \in Nat,
           NEW s \in Seq(Byte), off + Len(s) <= n
    PROVE  Window(Write(b, off, s), off, Len(s)) = s
<1> DEFINE w == Window(Write(b, off, s), off, Len(s))
<1>1. DOMAIN w = 1..Len(s) /\ DOMAIN s = 1..Len(s)
  BY DEF Window
<1>2. ASSUME NEW i \in 1..Len(s) PROVE w[i] = s[i]
  <2>1. off + i - 1 \in off..(off + Len(s) - 1) /\ off + i - 1 \in 0..(n - 1)
    BY <1>2
  <2>2. Write(b, off, s)[off + i - 1] = s[off + i - 1 - off + 1]
    BY <2>1 DEF Write
  <2>3. off + i - 1 - off + 1 = i
    BY <1>2
  <2> QED
    BY <2>2, <2>3 DEF Window
<1>3. w = [i \in 1..Len(s) |-> w[i]] /\ s = [i \in 1..Len(s) |-> s[i]]
  BY <1>1 DEF Window
<1> QED
  BY <1>1, <1>2, <1>3

\* A window of an array of bytes is a sequence of bytes.
LEMMA WindowType ==
    ASSUME NEW n \in Nat, NEW b \in [0..(n - 1) -> Byte], NEW off \in Nat,
           NEW len \in Nat, off + len <= n
    PROVE  Window(b, off, len) \in Seq(Byte) /\ Len(Window(b, off, len)) = len
<1>1. ASSUME NEW i \in 1..len PROVE b[off + i - 1] \in Byte
  <2>1. off + i - 1 \in 0..(n - 1)
    BY <1>1
  <2> QED
    BY <2>1
<1>2. Window(b, off, len) \in [1..len -> Byte]
  BY <1>1 DEF Window
<1> QED
  BY <1>2

\* The k bytes of a sequence of bytes behind its first i.
LEMMA Slice ==
    ASSUME NEW d \in Seq(Byte), NEW i \in Nat, NEW k \in Nat, i + k <= Len(d)
    PROVE  /\ SubSeq(d, i + 1, i + k) \in Seq(Byte)
           /\ Len(SubSeq(d, i + 1, i + k)) = k
           /\ \A j \in 1..k : SubSeq(d, i + 1, i + k)[j] = d[i + j]
<1> DEFINE s == SubSeq(d, i + 1, i + k)
<1>1. \A j \in (i + 1)..(i + k) : d[j] \in Byte
  OBVIOUS
<1>2. /\ s \in Seq(Byte)
      /\ Len(s) = IF i + 1 <= i + k THEN i + k - (i + 1) + 1 ELSE 0
      /\ \A j \in 1..(i + k - (i + 1) + 1) : s[j] = d[i + 1 + j - 1]
  BY <1>1, SubSeqProperties
<1>3. i + k - (i + 1) + 1 = k /\ (i + 1 <= i + k <=> k # 0)
  OBVIOUS
<1>4. \A j \in 1..k : i + 1 + j - 1 = i + j
  OBVIOUS
<1> HIDE DEF s
<1>5. Len(s) = k /\ \A j \in 1..k : s[j] = d[i + j]
  BY <1>2, <1>3, <1>4
<1> QED
  BY <1>2, <1>5 DEF s

\* What is written behind a window continues it.
LEMMA WindowExtends ==
    ASSUME NEW b \in [0..(BufLen - 1) -> Byte], NEW d \in Seq(Byte),
           NEW i \in Nat, NEW k \in Nat,
           i + k <= Len(d), OFFSET_CDATA + i + k <= BufLen,
           Window(b, OFFSET_CDATA, i) = SubSeq(d, 1, i)
    PROVE  Window(Write(b, OFFSET_CDATA + i, SubSeq(d, i + 1, i + k)), OFFSET_CDATA, i + k)
             = SubSeq(d, 1, i + k)
<1> DEFINE s == SubSeq(d, i + 1, i + k)
           c == Write(b, OFFSET_CDATA + i, s)
           w == Window(c, OFFSET_CDATA, i + k)
           t == SubSeq(d, 1, i + k)
<1>n. BufLen \in Nat /\ OFFSET_CDATA \in Nat
  BY SizesAssumption DEF OFFSET_CDATA
<1>1. s \in Seq(Byte) /\ Len(s) = k /\ \A j \in 1..k : s[j] = d[i + j]
  BY Slice
<1>2. t \in Seq(Byte) /\ Len(t) = i + k /\ \A j \in 1..(i + k) : t[j] = d[j]
  OBVIOUS
<1>3. \A j \in 1..i : b[OFFSET_CDATA + j - 1] = d[j]
  <2> TAKE j \in 1..i
  <2>1. Window(b, OFFSET_CDATA, i)[j] = b[OFFSET_CDATA + j - 1]
    BY DEF Window
  <2>2. SubSeq(d, 1, i)[j] = d[j]
    OBVIOUS
  <2> QED
    BY <2>1, <2>2
<1>4. ASSUME NEW j \in 1..(i + k) PROVE w[j] = t[j]
  <2>1. w[j] = c[OFFSET_CDATA + j - 1] /\ OFFSET_CDATA + j - 1 \in 0..(BufLen - 1)
    BY <1>n DEF Window
  <2>2. CASE j <= i
    <3>1. OFFSET_CDATA + j - 1 \notin (OFFSET_CDATA + i)..(OFFSET_CDATA + i + Len(s) - 1)
      BY <2>2, <1>1, <1>n
    <3>2. c[OFFSET_CDATA + j - 1] = b[OFFSET_CDATA + j - 1]
      BY <3>1, <2>1 DEF Write
    <3> QED
      BY <3>2, <2>1, <2>2, <1>2, <1>3
  <2>3. CASE j > i
    <3> DEFINE p == OFFSET_CDATA + j - 1
    <3>1. /\ p \in (OFFSET_CDATA + i)..(OFFSET_CDATA + i + Len(s) - 1)
          /\ p - (OFFSET_CDATA + i) + 1 = j - i /\ j - i \in 1..k /\ i + (j - i) = j
      BY <2>3, <1>1, <1>n
    <3>2. c[p] = s[p - (OFFSET_CDATA + i) + 1]
      BY <3>1, <2>1 DEF Write
    <3>3. c[p] = s[j - i] /\ s[j - i] = d[j]
      BY <3>1, <3>2, <1>1
    <3> QED
      BY <3>3, <2>1, <1>2
  <2> QED
    BY <2>2, <2>3
<1>5. /\ w = [j \in 1..(i + k) |-> w[j]]
      /\ t = [j \in 1..(i + k) |-> t[j]]
  BY <1>2 DEF Window
<1> HIDE DEF w, t
<1>6. w = t
  BY <1>4, <1>5
<1> QED
  BY <1>6 DEF w, t

----------------------------------------------------------------------------
\* Bytes.

\* Quotient and remainder of a 16-bit number by 256 are bytes.
LEMMA HighLow ==
    ASSUME NEW n \in Int, 0 <= n, n < 65536
    PROVE  n \div 256 \in Byte /\ n % 256 \in Byte
<1>1. n \div 256 \in Int /\ 0 <= n \div 256 /\ n \div 256 <= 255
  OBVIOUS
<1>2. n % 256 \in Int /\ 0 <= n % 256 /\ n % 256 <= 255
  OBVIOUS
<1> QED
  BY <1>1, <1>2 DEF Byte

\* The two wire bytes of a short.
LEMMA PackU16Type ==
    ASSUME NEW n \in Int
    PROVE  PackU16(n) \in Seq(Byte) /\ Len(PackU16(n)) = 2
<1>1. U16(n) \in Int /\ 0 <= U16(n) /\ U16(n) < 65536
  BY Mod16 DEF U16
<1>2. U16(n) \div 256 \in Byte /\ U16(n) % 256 \in Byte
  BY <1>1, HighLow
<1> QED
  BY <1>2 DEF PackU16

\* A number between two bounds is in their interval.
LEMMA InRange ==
    ASSUME NEW lo \in Int, NEW hi \in Int, NEW x \in Int, lo <= x, x <= hi
    PROVE  x \in lo..hi
  OBVIOUS

\* Two sequences of bytes make one.
LEMMA ConcatBytes ==
    ASSUME NEW s \in Seq(Byte), NEW t \in Seq(Byte)
    PROVE  /\ s \o t \in Seq(Byte) /\ Len(s \o t) = Len(s) + Len(t)
           /\ Len(s \o t) \in Nat
<1>1. s \o t \in Seq(Byte)
  OBVIOUS
<1>2. Len(s \o t) = Len(s) + Len(t)
  OBVIOUS
<1> QED
  BY <1>1, <1>2

\* (short) n is a short.
LEMMA ToShortType ==
    ASSUME NEW n \in Int
    PROVE  ToShort(n) \in Short
<1> DEFINE m == (n + 32768) % 65536
<1>1. m \in Int /\ 0 <= m /\ m < 65536
  BY Mod16
<1> HIDE DEF m
<1>2. /\ m - 32768 \in Int /\ -MAX_SHORT - 1 \in Int /\ MAX_SHORT \in Int
      /\ -MAX_SHORT - 1 <= m - 32768 /\ m - 32768 <= MAX_SHORT
  BY <1>1 DEF MAX_SHORT
<1>3. ToShort(n) = m - 32768
  BY DEF m, ToShort
<1>4. ToShort(n) \in (-MAX_SHORT - 1)..MAX_SHORT
  BY <1>2, <1>3, InRange
<1> QED
  BY <1>4 DEF Short

\* Exclusive or of two bytes is a byte: each bit is at most its place value.
LEMMA XorType ==
    ASSUME NEW a \in Byte, NEW b \in Byte
    PROVE  Xor(a, b) \in Byte
<1> DEFINE bit(p) == ((a \div p + b \div p) % 2) * p
<1>1. \A p \in {1, 2, 4, 8, 16, 32, 64, 128} : bit(p) \in {0, p}
  <2> TAKE p \in {1, 2, 4, 8, 16, 32, 64, 128}
  <2>1. a \div p + b \div p \in Int
    BY DEF Byte
  <2>2. (a \div p + b \div p) % 2 \in {0, 1}
    BY <2>1
  <2> QED
    BY <2>2
<1> HIDE DEF bit
<1>2. bit(1) + bit(2) + bit(4) + bit(8) + bit(16) + bit(32) + bit(64) + bit(128)
        \in 0..255
  <2>1. bit(1) \in 0..1 /\ bit(2) \in 0..2 /\ bit(4) \in 0..4 /\ bit(8) \in 0..8
    BY <1>1
  <2>2. /\ bit(16) \in 0..16 /\ bit(32) \in 0..32 /\ bit(64) \in 0..64
        /\ bit(128) \in 0..128
    BY <1>1
  <2> DEFINE b0 == bit(1)   b1 == bit(2)   b2 == bit(4)   b3 == bit(8)
             b4 == bit(16)  b5 == bit(32)  b6 == bit(64)  b7 == bit(128)
  <2>3. /\ b0 \in 0..1 /\ b1 \in 0..2 /\ b2 \in 0..4 /\ b3 \in 0..8
        /\ b4 \in 0..16 /\ b5 \in 0..32 /\ b6 \in 0..64 /\ b7 \in 0..128
    BY <2>1, <2>2
  <2> HIDE DEF b0, b1, b2, b3, b4, b5, b6, b7
  <2>4. b0 + b1 + b2 + b3 + b4 + b5 + b6 + b7 \in 0..255
    BY <2>3
  <2> QED
    BY <2>4 DEF b0, b1, b2, b3, b4, b5, b6, b7
<1> QED
  BY <1>2 DEF Xor, bit, Byte

\* The half signatures are bytes, and so is the sequence built from them.
LEMMA SignatureType ==
    ASSUME NEW b \in [0..(BufLen - 1) -> Byte], NEW len \in Nat,
           NEW part \in 1..8, part <= len, OFFSET_CDATA + len <= BufLen,
           counter \in Int, limit \in Int
    PROVE  LET halves == SignatureScratch(b, len, part)
           IN  /\ halves[1] \in [1..part -> Byte] /\ halves[2] \in [1..part -> Byte]
               /\ SignatureBytes(halves, part) \in Seq(Byte)
               /\ Len(SignatureBytes(halves, part)) = 6 + 2 * part
<1> DEFINE low(s) == U16(s) % 256
           unsigned(i, byte) == IF i = 1 THEN byte % 128 ELSE byte
           head(i) == Xor(Xor(b[OFFSET_CDATA + i - 1], VERSION), low(counter))
           tail(i) == Xor(Xor(b[OFFSET_CDATA + len - i], low(limit)), 90)
           h1 == [i \in 1..part |-> unsigned(i, head(i))]
           h2 == [i \in 1..part |-> unsigned(i, tail(i))]
<1>1. low(counter) \in Byte /\ low(limit) \in Byte /\ VERSION \in Byte /\ 90 \in Byte
  BY DEF U16, Byte, VERSION
<1>2. ASSUME NEW i \in 1..part
      PROVE  /\ OFFSET_CDATA + i - 1 \in 0..(BufLen - 1)
             /\ OFFSET_CDATA + len - i \in 0..(BufLen - 1)
  BY SizesAssumption DEF OFFSET_CDATA
<1> HIDE DEF low
<1>3. ASSUME NEW i \in 1..part PROVE head(i) \in Byte /\ tail(i) \in Byte
  BY <1>1, <1>2, XorType
<1> HIDE DEF head, tail
<1>4. ASSUME NEW x \in Byte PROVE x % 128 \in Byte
  BY DEF Byte
<1>5. h1 \in [1..part -> Byte] /\ h2 \in [1..part -> Byte]
  BY <1>3, <1>4
<1>6. SignatureScratch(b, len, part) = <<h1, h2>>
  BY DEF SignatureScratch, head, tail, low
<1> HIDE DEF h1, h2
<1>7. h1 \in Seq(Byte) /\ Len(h1) = part /\ h2 \in Seq(Byte) /\ Len(h2) = part
  BY <1>5
<1> DEFINE a == <<48, 4 + 2 * part, 2, part>>
           c == <<2, part>>
<1>8. a \in Seq(Byte) /\ Len(a) = 4 /\ c \in Seq(Byte) /\ Len(c) = 2
  BY DEF Byte
<1> HIDE DEF a, c
<1>9. a \o h1 \o c \o h2 \in Seq(Byte) /\ Len(a \o h1 \o c \o h2) = 6 + 2 * part
  <2>1. a \o h1 \in Seq(Byte) /\ Len(a \o h1) = Len(a) + Len(h1)
    BY <1>7, <1>8, ConcatBytes
  <2>2. a \o h1 \o c \in Seq(Byte) /\ Len(a \o h1 \o c) = Len(a \o h1) + Len(c)
    BY <2>1, <1>8, ConcatBytes
  <2>3. /\ a \o h1 \o c \o h2 \in Seq(Byte)
        /\ Len(a \o h1 \o c \o h2) = Len(a \o h1 \o c) + Len(h2)
    BY <2>2, <1>7, ConcatBytes
  <2>4. Len(a \o h1 \o c \o h2) = 4 + part + 2 + part
    BY <2>1, <2>2, <2>3, <1>7, <1>8
  <2> QED
    BY <2>3, <2>4
<1>10. SignatureBytes(<<h1, h2>>, part) = a \o h1 \o c \o h2
  BY DEF SignatureBytes, a, c
<1>11. <<h1, h2>>[1] = h1 /\ <<h1, h2>>[2] = h2
  OBVIOUS
<1> QED
  BY <1>5, <1>6, <1>9, <1>10, <1>11, Zenon

----------------------------------------------------------------------------
\* The command in the buffer is the command that was sent.

\* The applet's own state; what is stored came in a short APDU, so that it
\* fits an answer.
AppletTyped ==
    /\ counter \in 0..MAX_SHORT
    /\ limit \in Short
    /\ storedData \in [0..(MaxDataSize - 1) -> Byte]
    /\ storedDataLen \in -1..MaxDataSize
    /\ storedDataLen <= 255 /\ storedDataLen <= BufLen

\* What process() works on.
ChannelTyped ==
    /\ buf \in [0..(BufLen - 1) -> Byte]
    /\ phase \in {"idle", "receiving"}
    /\ cmd \in Requests \cup {NoCommand}
    /\ received \in 0..requestLength
    /\ reply.to \in Requests \cup {NoCommand}

\* A command is received only if its class is the applet's.
Accepted ==
    phase = "receiving" => cmd \in Requests /\ cmd.cla = CLA_COUNTER

Staged ==
    (phase = "receiving" /\ requestLength <= 255) =>
        Window(buf, OFFSET_CDATA, received) = SubSeq(cmd.data, 1, received)

AppletInv == AppletTyped /\ ChannelTyped /\ Accepted /\ Staged

\* The invariant has what StagedIntact says.
LEMMA AppletInvGives == AppletInv => StagedIntact
<1> SUFFICES ASSUME AppletInv PROVE StagedIntact
  OBVIOUS
<1>1. counter \in Short
  <2>1. ASSUME NEW x \in 0..MAX_SHORT PROVE x \in (-MAX_SHORT - 1)..MAX_SHORT
    BY <2>1, MaxShortType
  <2> QED
    BY <2>1 DEF AppletInv, AppletTyped, Short
<1> QED
  BY <1>1 DEF AppletInv, AppletTyped, ChannelTyped, Staged, StagedIntact, TypeOK

\* What a command holds.
LEMMA CommandType ==
    ASSUME NEW r \in Requests \cup {NoCommand}
    PROVE  /\ r.data \in Seq(Byte) /\ Len(r.data) \in Nat /\ Len(r.data) <= 65535
           /\ r.p1 \in Byte /\ r.cla \in Byte
<1>1. CASE r \in Requests
  BY <1>1, RequestsAssumption DEF IsRequest
<1>2. CASE r = NoCommand
  BY <1>2 DEF NoCommand, Byte
<1> QED
  BY <1>1, <1>2

\* The length field is bytes, one of them in a short APDU.
LEMMA LengthFieldType ==
    ASSUME NEW n \in Nat, n <= 65535
    PROVE  LengthField(n) \in Seq(Byte) /\ (n <= 255 => Len(LengthField(n)) = 1)
<1>1. CASE n <= 255
  <2>1. n \in Byte
    BY <1>1 DEF Byte
  <2>2. LengthField(n) = <<n>>
    BY <1>1 DEF LengthField
  <2> QED
    BY <2>1, <2>2
<1>2. CASE ~(n <= 255)
  <2>1. n \div 256 \in Byte /\ n % 256 \in Byte
    BY HighLow
  <2>2. 0 \in Byte
    BY DEF Byte
  <2>3. LengthField(n) = <<0, n \div 256, n % 256>>
    BY <1>2 DEF LengthField
  <2>4. <<0, n \div 256, n % 256>> \in Seq(Byte)
    BY <2>1, <2>2
  <2> QED
    BY <1>2, <2>3, <2>4
<1> QED
  BY <1>1, <1>2

\* The header is bytes; that of a short APDU ends where the data begins.
LEMMA HeaderType ==
    ASSUME NEW r \in Requests
    PROVE  /\ Header(r) \in Seq(Byte) /\ Len(Header(r)) \in Nat
           /\ Len(r.data) <= 255 => Len(Header(r)) = OFFSET_CDATA
<1> DEFINE n == Len(r.data)
           a == <<r.cla, 0, r.p1, 0>>
<1>1. n \in Nat /\ n <= 65535 /\ r.p1 \in Byte /\ r.cla \in Byte
  BY CommandType
<1>2. a \in Seq(Byte) /\ Len(a) = 4
  BY <1>1 DEF Byte
<1>3. Header(r) = a \o LengthField(n)
  BY DEF Header
<1> HIDE DEF a, n
<1>4. LengthField(n) \in Seq(Byte) /\ (n <= 255 => Len(LengthField(n)) = 1)
  BY <1>1, LengthFieldType
<1>5. /\ Header(r) \in Seq(Byte) /\ Len(Header(r)) \in Nat
      /\ Len(Header(r)) = Len(a) + Len(LengthField(n))
  BY <1>2, <1>3, <1>4, ConcatBytes
<1>6. ASSUME n <= 255 PROVE Len(Header(r)) = 5
  <2>1. Len(LengthField(n)) = 1
    BY <1>4, <1>6
  <2> QED
    BY <1>2, <1>5, <2>1
<1> QED
  BY <1>5, <1>6 DEF OFFSET_CDATA, n

\* The applet starts idle.
LEMMA AppletInit == Init => AppletInv
<1> SUFFICES ASSUME Init PROVE AppletInv
  OBVIOUS
<1>1. DEFAULT_LIMIT \in Short
  <2>1. MAX_SHORT \in (-MAX_SHORT - 1)..MAX_SHORT
    BY MaxShortType
  <2> QED
    BY <2>1 DEF DEFAULT_LIMIT, Short
<1>2. 0 \in Byte
  BY DEF Byte
<1>3. AppletTyped
  BY <1>1, <1>2, MaxShortType, SizesAssumption DEF Init, AppletTyped
<1>4. ChannelTyped
  BY <1>2, SizesAssumption
  DEF Init, ChannelTyped, requestLength, NoCommand, NoReply
<1> QED
  BY <1>3, <1>4 DEF Init, AppletInv, Accepted, Staged

\* The first part of a request lands behind the header.
LEMMA ReceiveStep ==
    ASSUME AppletInv, NEW r \in Requests, NEW k \in 0..Len(r.data), Receive(r, k)
    PROVE  AppletInv'
<1> DEFINE d == SubSeq(r.data, 1, k)
           h == Header(r)
<1>1. r.data \in Seq(Byte) /\ Len(r.data) \in Nat /\ k \in Nat /\ BufLen \in Nat
  BY CommandType, SizesAssumption
<1>2. d \in Seq(Byte) /\ Len(d) = k
  BY <1>1, Slice
<1>3. /\ h \in Seq(Byte) /\ Len(h) \in Nat
      /\ Len(r.data) <= 255 => Len(h) = OFFSET_CDATA
  BY HeaderType
<1>4. /\ cmd' = r /\ received' = k /\ phase' = "receiving" /\ r.cla = CLA_COUNTER
      /\ buf' = Write(buf, 0, h \o d) /\ Len(h) + k <= BufLen
      /\ UNCHANGED <<counter, limit, storedData, storedDataLen, reply>>
  BY DEF Receive, appletVars
<1>5. buf \in [0..(BufLen - 1) -> Byte]
  BY DEF AppletInv, ChannelTyped
<1> HIDE DEF d, h
<1>6. h \o d \in Seq(Byte) /\ Len(h \o d) = Len(h) + k
  BY <1>2, <1>3, ConcatBytes
<1>7. buf' \in [0..(BufLen - 1) -> Byte]
  BY <1>1, <1>4, <1>5, <1>6, WriteType
<1>8. ChannelTyped'
  BY <1>1, <1>4, <1>7 DEF AppletInv, ChannelTyped, requestLength
<1>9. Len(r.data) <= 255 => Window(buf', OFFSET_CDATA, k) = d
  <2> SUFFICES ASSUME Len(r.data) <= 255 PROVE Window(buf', OFFSET_CDATA, k) = d
    OBVIOUS
  <2>1. Len(h) = OFFSET_CDATA /\ OFFSET_CDATA \in Nat /\ 0 \in Nat
    BY <1>3 DEF OFFSET_CDATA
  <2>2. ASSUME NEW i \in 1..k PROVE buf'[OFFSET_CDATA + i - 1] = d[i]
    <3> DEFINE p == OFFSET_CDATA + i - 1
    <3>1. /\ p \in 0..(BufLen - 1) /\ p \in 0..(0 + Len(h \o d) - 1)
          /\ p - 0 + 1 = Len(h) + i /\ Len(h) + i \in 1..(Len(h) + Len(d))
      BY <1>1, <1>2, <1>4, <1>6, <2>1
    <3>2. buf'[p] = (h \o d)[p - 0 + 1]
      BY <1>4, <1>5, <3>1 DEF Write
    <3>3. (h \o d)[Len(h) + i] = d[i]
      BY <1>2, <1>3, <2>1, ConcatProperties
    <3> QED
      BY <3>1, <3>2, <3>3
  <2>3. Window(buf', OFFSET_CDATA, k) = [i \in 1..k |-> d[i]]
    BY <2>2 DEF Window
  <2>4. d = [i \in 1..k |-> d[i]]
    BY <1>2
  <2> QED
    BY <2>3, <2>4
<1>10. Staged'
  BY <1>4, <1>9 DEF Staged, requestLength, d
<1> QED
  BY <1>4, <1>8, <1>10 DEF AppletInv, AppletTyped, Accepted

\* Each further part lands behind the ones received.
LEMMA ReceiveMoreStep ==
    ASSUME AppletInv, NEW k \in 1..requestLength, ReceiveMore(k)
    PROVE  AppletInv'
<1> DEFINE d == SubSeq(cmd.data, received + 1, received + k)
<1>1. /\ phase = "receiving" /\ Fits /\ received + k <= requestLength
      /\ k \in Nat /\ received \in Nat
      /\ received' = received + k /\ buf' = Write(buf, OFFSET_CDATA + received, d)
      /\ UNCHANGED <<counter, limit, storedData, storedDataLen, phase, cmd, reply>>
  <2>1. requestLength \in Nat
    BY CommandType DEF AppletInv, ChannelTyped, requestLength
  <2> QED
    BY <2>1 DEF ReceiveMore, appletVars, AppletInv, ChannelTyped
<1>2. /\ cmd.data \in Seq(Byte) /\ requestLength = Len(cmd.data)
      /\ buf \in [0..(BufLen - 1) -> Byte] /\ BufLen \in Nat
      /\ requestLength <= 255 /\ OFFSET_CDATA \in Nat
      /\ OFFSET_CDATA + received + k <= BufLen
  BY <1>1, CommandType, SizesAssumption
  DEF AppletInv, ChannelTyped, requestLength, Fits, OFFSET_CDATA
<1>3. d \in Seq(Byte)
  BY <1>1, <1>2, Slice
<1>4. buf' \in [0..(BufLen - 1) -> Byte]
  <2>1. OFFSET_CDATA + received \in Nat
    BY <1>1, <1>2
  <2> QED
    BY <1>1, <1>2, <1>3, <2>1, WriteType
<1>5. Window(buf, OFFSET_CDATA, received) = SubSeq(cmd.data, 1, received)
  BY <1>1, <1>2 DEF AppletInv, Staged
<1>6. Window(buf', OFFSET_CDATA, received + k) = SubSeq(cmd.data, 1, received + k)
  <2>1. received + k <= Len(cmd.data)
    BY <1>1, <1>2
  <2>2. Window(Write(buf, OFFSET_CDATA + received, d), OFFSET_CDATA, received + k)
          = SubSeq(cmd.data, 1, received + k)
    BY <1>1, <1>2, <1>5, <2>1, WindowExtends
  <2> QED
    BY <1>1, <2>2
<1>7. ChannelTyped'
  BY <1>1, <1>2, <1>4 DEF AppletInv, ChannelTyped, requestLength
<1>8. Staged'
  BY <1>1, <1>6 DEF Staged
<1> QED
  BY <1>1, <1>7, <1>8 DEF AppletInv, AppletTyped, Accepted

\* The command is staged as a whole when it is dispatched.
LEMMA StagedWhole ==
    ASSUME AppletInv, AtDispatch
    PROVE  /\ cmd \in Requests /\ cmd.cla = CLA_COUNTER /\ phase = "receiving"
           /\ cmd.data \in Seq(Byte) /\ requestLength = Len(cmd.data)
           /\ requestLength \in Nat /\ requestLength <= 255
           /\ OFFSET_CDATA + requestLength <= BufLen
           /\ Window(buf, OFFSET_CDATA, requestLength) = cmd.data
           /\ \A i \in 1..requestLength : buf[OFFSET_CDATA + i - 1] = cmd.data[i]
<1>1. /\ cmd \in Requests /\ cmd.cla = CLA_COUNTER /\ phase = "receiving"
      /\ cmd.data \in Seq(Byte) /\ requestLength = Len(cmd.data)
      /\ requestLength \in Nat /\ requestLength <= 255
      /\ OFFSET_CDATA + requestLength <= BufLen
  BY CommandType, SizesAssumption
  DEF AppletInv, Accepted, AtDispatch, Fits, requestLength, OFFSET_CDATA
<1>2. Window(buf, OFFSET_CDATA, requestLength) = SubSeq(cmd.data, 1, requestLength)
  BY <1>1 DEF AppletInv, Staged, AtDispatch
<1>3. SubSeq(cmd.data, 1, requestLength) = cmd.data
  BY <1>1
<1>4. ASSUME NEW i \in 1..requestLength
      PROVE  buf[OFFSET_CDATA + i - 1] = cmd.data[i]
  <2>1. Window(buf, OFFSET_CDATA, requestLength)[i] = buf[OFFSET_CDATA + i - 1]
    BY DEF Window
  <2> QED
    BY <2>1, <1>2, <1>3
<1> QED
  BY <1>1, <1>2, <1>3, <1>4

\* A refusal changes nothing but the reply.
LEMMA FailStep ==
    ASSUME AppletInv, phase = "receiving", NEW sw, Fail(sw)
    PROVE  AppletInv' /\ Ideal!Refused(cmd, sw)
<1>1. /\ reply' = [to |-> cmd, sw |-> sw, data |-> <<>>] /\ phase' = "idle"
      /\ UNCHANGED <<counter, limit, storedData, storedDataLen, buf, cmd, received>>
  BY DEF Fail, Answer, appletVars
<1>2. AppletInv'
  BY <1>1 DEF AppletInv, AppletTyped, ChannelTyped, Accepted, Staged, requestLength
<1> QED
  BY <1>1, <1>2 DEF Ideal!Refused

\* An answer leaves the applet idle.
LEMMA SendBufferStep ==
    ASSUME AppletInv, phase = "receiving", AppletTyped',
           NEW b \in [0..(BufLen - 1) -> Byte], NEW n, SendBuffer(b, n)
    PROVE  AppletInv'
<1>1. /\ reply'.to = cmd /\ phase' = "idle" /\ buf' = b
      /\ UNCHANGED <<cmd, received>>
  BY DEF SendBuffer, Answer
<1> QED
  BY <1>1 DEF AppletInv, ChannelTyped, Accepted, Staged, requestLength

\* The bytes packed are the bytes answered.
LEMMA SendStep ==
    ASSUME AppletInv, phase = "receiving", AppletTyped', NEW out \in Seq(Byte),
           Len(out) <= BufLen, Send(out)
    PROVE  AppletInv' /\ Ideal!Ok(cmd, out)
<1>1. buf \in [0..(BufLen - 1) -> Byte] /\ BufLen \in Nat /\ 0 \in Nat
  BY SizesAssumption DEF AppletInv, ChannelTyped
<1>2. Write(buf, 0, out) \in [0..(BufLen - 1) -> Byte]
  BY <1>1, WriteType
<1>3. Window(Write(buf, 0, out), 0, Len(out)) = out
  BY <1>1, WriteRead
<1>4. reply' = [to |-> cmd, sw |-> SW_OK, data |-> out]
  BY <1>3 DEF Send, SendBuffer, Answer
<1>5. AppletInv'
  BY <1>2, SendBufferStep DEF Send
<1> QED
  BY <1>4, <1>5 DEF Ideal!Ok, SW_OK

----------------------------------------------------------------------------
\* One lemma per method: it keeps the invariant and is a step of the ideal
\* counter.

\* A non-negative short is its own wire number.
LEMMA U16Same ==
    ASSUME NEW n \in 0..MAX_SHORT
    PROVE  U16(n) = n
<1>1. n \in Int /\ 0 <= n /\ n < 65536
  BY DEF MAX_SHORT
<1> QED
  BY <1>1 DEF U16

\* The wire number of a negative short is above every short.
LEMMA U16Negative ==
    ASSUME NEW n \in Short, n < 0
    PROVE  U16(n) \in Int /\ U16(n) > MAX_SHORT
<1>1. n \in Int /\ -MAX_SHORT - 1 <= n
  BY MaxShortType DEF Short
<1>2. -65536 <= n
  BY <1>1 DEF MAX_SHORT
<1>3. n % 65536 = n + 65536
  BY <1>1, <1>2
<1>4. n + 65536 > MAX_SHORT
  BY <1>1 DEF MAX_SHORT
<1> QED
  BY <1>1, <1>3, <1>4 DEF U16

\* A sum beyond the largest short is cut to a negative one.
LEMMA ToShortWraps ==
    ASSUME NEW n \in Int, n > MAX_SHORT, n <= MAX_SHORT + 255
    PROVE  ToShort(n) \in Int /\ ToShort(n) < 0
<1>1. 65536 <= n + 32768 /\ n + 32768 < 2 * 65536
  BY DEF MAX_SHORT
<1>2. (n + 32768) % 65536 = n + 32768 - 65536
  BY <1>1
<1>3. n + 32768 - 65536 - 32768 < 0
  BY DEF MAX_SHORT
<1> QED
  BY <1>2, <1>3 DEF ToShort

\* The wire bytes of a non-negative short.
LEMMA PackIdeal ==
    ASSUME NEW n \in 0..MAX_SHORT
    PROVE  PackU16(n) = Ideal!U16Bytes(n)
  BY U16Same DEF PackU16, Ideal!U16Bytes

\* They fit every buffer.
LEMMA PackFits ==
    ASSUME NEW n \in Int
    PROVE  PackU16(n) \in Seq(Byte) /\ Len(PackU16(n)) <= BufLen
<1>1. 2 <= BufLen
  BY SizesAssumption
<1> QED
  BY <1>1, PackU16Type

\* The applet's state where a method leaves the counter alone, or sets it.
LEMMA TypedCounter ==
    ASSUME AppletInv, counter' \in 0..MAX_SHORT,
           UNCHANGED <<limit, storedData, storedDataLen>>
    PROVE  AppletTyped'
  BY DEF AppletInv, AppletTyped

\* onIncrement: the sum is either exact and within the limit, or refused.
LEMMA IncrementStep ==
    ASSUME AppletInv, Increment
    PROVE  AppletInv' /\ Ideal!Next
<1> DEFINE sum == counter + cmd.p1
<1>1. /\ cmd \in Requests /\ cmd.cla = CLA_COUNTER /\ phase = "receiving"
      /\ cmd.ins = "increment"
  BY StagedWhole DEF Increment, Dispatched
<1>2. /\ counter \in 0..MAX_SHORT /\ limit \in Short /\ cmd.p1 \in 0..255
      /\ sum \in Int /\ sum >= counter /\ sum <= MAX_SHORT + 255
  <2>1. counter \in 0..MAX_SHORT /\ limit \in Short /\ cmd.p1 \in 0..255
    BY <1>1, CommandType DEF AppletInv, AppletTyped, Byte
  <2> QED
    BY <2>1, MaxShortType
<1>3. CASE sum > MAX_SHORT
  <2>1. ToShort(sum) < counter
    BY <1>2, <1>3, ToShortWraps, MaxShortType
  <2>2. Fail(SW_OVERFLOW)
    BY <2>1 DEF Increment
  <2>3. sum > U16(limit) \/ U16(limit) > MAX_SHORT
    <3>1. CASE limit < 0
      BY <3>1, <1>2, U16Negative
    <3>2. CASE ~(limit < 0)
      <4>1. limit \in 0..MAX_SHORT
        BY <1>2, <3>2, MaxShortType DEF Short
      <4> QED
        BY <4>1, <1>3, <1>2, U16Same, MaxShortType
    <3> QED
      BY <3>1, <3>2
  <2> QED
    BY <1>1, <2>2, <2>3, FailStep
    DEF Ideal!Next, Ideal!Serve, Ideal!Add, CLA_COUNTER, SW_OVERFLOW
<1>4. CASE sum <= MAX_SHORT
  <2>1. sum \in 0..MAX_SHORT
    BY <1>2, <1>4, MaxShortType
  <2>2. ToShort(sum) = sum
    BY <2>1, ToShortSame
  <2>3. CASE sum > limit
    <3>1. Fail(SW_OVERFLOW)
      BY <2>2, <2>3 DEF Increment
    <3>2. sum > U16(limit) \/ U16(limit) > MAX_SHORT
      <4>1. CASE limit < 0
        BY <4>1, <1>2, U16Negative
      <4>2. CASE ~(limit < 0)
        <5>1. limit \in 0..MAX_SHORT
          BY <1>2, <4>2, MaxShortType DEF Short
        <5> QED
          BY <5>1, <2>3, U16Same
      <4> QED
        BY <4>1, <4>2
    <3> QED
      BY <1>1, <3>1, <3>2, FailStep
      DEF Ideal!Next, Ideal!Serve, Ideal!Add, CLA_COUNTER, SW_OVERFLOW
  <2>4. CASE ~(sum > limit)
    <3>1. ~(sum < counter)
      BY <1>2, MaxShortType
    <3>2. /\ counter' = sum /\ Send(PackU16(sum))
          /\ UNCHANGED <<limit, storedData, storedDataLen>>
      BY <2>2, <2>4, <3>1 DEF Increment
    <3>3. PackU16(sum) \in Seq(Byte) /\ Len(PackU16(sum)) <= BufLen
      BY <1>2, PackFits
    <3>4. AppletTyped'
      BY <2>1, <3>2, TypedCounter
    <3>5. AppletInv' /\ Ideal!Ok(cmd, Ideal!U16Bytes(sum))
      BY <1>1, <2>1, <3>2, <3>3, <3>4, SendStep, PackIdeal
    <3>6. sum <= U16(limit)
      <4>1. limit \in 0..MAX_SHORT
        BY <1>2, <2>1, <2>4, MaxShortType DEF Short
      <4> QED
        BY <1>2, <2>4, <4>1, U16Same, MaxShortType
    <3> QED
      BY <1>1, <3>2, <3>5, <3>6
      DEF Ideal!Next, Ideal!Serve, Ideal!Add, CLA_COUNTER
  <2> QED
    BY <2>3, <2>4
<1> QED
  BY <1>2, <1>3, <1>4, MaxShortType

\* onDecrement: the difference is exact and not negative, or refused.
LEMMA DecrementStep ==
    ASSUME AppletInv, Decrement
    PROVE  AppletInv' /\ Ideal!Next
<1> DEFINE diff == counter - cmd.p1
<1>1. /\ cmd \in Requests /\ cmd.cla = CLA_COUNTER /\ phase = "receiving"
      /\ cmd.ins = "decrement"
  BY StagedWhole DEF Decrement, Dispatched
<1>2. counter \in 0..MAX_SHORT /\ cmd.p1 \in 0..255 /\ diff \in Int
  <2>1. counter \in 0..MAX_SHORT /\ cmd.p1 \in 0..255
    BY <1>1, CommandType DEF AppletInv, AppletTyped, Byte
  <2> QED
    BY <2>1, MaxShortType
<1>3. CASE cmd.p1 > counter
  BY <1>1, <1>3, FailStep
  DEF Decrement, Ideal!Next, Ideal!Serve, Ideal!Subtract, CLA_COUNTER, SW_UNDERFLOW
<1>4. CASE ~(cmd.p1 > counter)
  <2>1. diff \in 0..MAX_SHORT
    BY <1>2, <1>4, MaxShortType
  <2>2. /\ counter' = diff /\ Send(PackU16(diff))
        /\ UNCHANGED <<limit, storedData, storedDataLen>>
    BY <1>4, <2>1, ToShortSame DEF Decrement
  <2>3. PackU16(diff) \in Seq(Byte) /\ Len(PackU16(diff)) <= BufLen
    BY <1>2, PackFits
  <2>4. AppletInv' /\ Ideal!Ok(cmd, Ideal!U16Bytes(diff))
    BY <1>1, <2>1, <2>2, <2>3, TypedCounter, SendStep, PackIdeal
  <2> QED
    BY <1>1, <1>4, <2>2, <2>4
    DEF Ideal!Next, Ideal!Serve, Ideal!Subtract, CLA_COUNTER
<1> QED
  BY <1>3, <1>4

\* The steps that refuse a command before it reaches a method.
LEMMA RefusedStep ==
    ASSUME AppletInv, ReceiveNothing \/ RejectLength \/ WrongLength \/ Unknown
    PROVE  AppletInv' /\ Ideal!Next
<1>1. phase = "receiving" /\ cmd \in Requests /\ requestLength = Len(cmd.data)
  BY DEF ReceiveNothing, RejectLength, WrongLength, Unknown, Dispatched, AtDispatch,
         AppletInv, Accepted, requestLength
<1>2. requestLength \in Nat /\ received \in Nat /\ (cmd.data = <<>> => requestLength = 0)
  BY <1>1, CommandType DEF AppletInv, ChannelTyped
<1>3. CASE Unknown
  <2>1. cmd.ins = "unknown" /\ Fail(27904)
    BY <1>3 DEF Unknown, Dispatched, SW_INS_NOT_SUPPORTED
  <2> QED
    BY <1>1, <2>1, FailStep DEF Ideal!Next, Ideal!Reject
<1>4. CASE ReceiveNothing \/ RejectLength \/ WrongLength
  <2>1. Fail(26368)
    BY <1>4 DEF ReceiveNothing, RejectLength, WrongLength, SW_WRONG_LENGTH
  <2>2. cmd.data # <<>> \/ cmd.ins = "setLimit"
    <3>1. CASE ReceiveNothing
      BY <1>2, <3>1 DEF ReceiveNothing
    <3>2. CASE RejectLength
      BY <1>2, <3>2, SizesAssumption DEF RejectLength, Fits, OFFSET_CDATA
    <3>3. CASE WrongLength
      BY <1>2, <3>3 DEF WrongLength, LengthOK
    <3> QED
      BY <1>4, <3>1, <3>2, <3>3
  <2> QED
    BY <1>1, <2>1, <2>2, FailStep DEF Ideal!Next, Ideal!Reject
<1> QED
  BY <1>3, <1>4

\* A foreign class is refused where it stands.
LEMMA RejectClaStep ==
    ASSUME AppletInv, NEW r \in Requests, RejectCla(r)
    PROVE  AppletInv' /\ Ideal!Next
<1>1. /\ phase = "idle" /\ phase' = "idle" /\ cmd' = r /\ received' = 0
      /\ r.cla # CLA_COUNTER /\ buf' = Write(buf, 0, Header(r))
      /\ reply' = [to |-> r, sw |-> SW_CLA_NOT_SUPPORTED, data |-> <<>>]
      /\ UNCHANGED <<counter, limit, storedData, storedDataLen>>
  BY DEF RejectCla, appletVars
<1>2. buf' \in [0..(BufLen - 1) -> Byte]
  <2>1. buf \in [0..(BufLen - 1) -> Byte] /\ BufLen \in Nat /\ 0 \in Nat
    BY SizesAssumption DEF AppletInv, ChannelTyped
  <2> QED
    BY <1>1, <2>1, HeaderType, WriteType
<1>3. 0 \in 0..Len(r.data) /\ reply'.to = r
  BY <1>1, CommandType
<1>4. AppletInv'
  BY <1>1, <1>2, <1>3
  DEF AppletInv, AppletTyped, ChannelTyped, Accepted, Staged, requestLength
<1>5. Ideal!Refused(r, 28160)
  BY <1>1 DEF Ideal!Refused, SW_CLA_NOT_SUPPORTED
<1> QED
  BY <1>1, <1>4, <1>5 DEF Ideal!Next, Ideal!Reject, CLA_COUNTER

\* The empty answer.
LEMMA EmptyAnswer == <<>> \in Seq(Byte) /\ Len(<<>>) <= BufLen
<1>1. Len(<<>>) = 0 /\ 0 <= BufLen
  BY SizesAssumption
<1> QED
  BY <1>1

\* onGet.
LEMMA GetStep ==
    ASSUME AppletInv, Get
    PROVE  AppletInv' /\ Ideal!Next
<1>1. /\ cmd \in Requests /\ cmd.cla = CLA_COUNTER /\ phase = "receiving"
      /\ cmd.ins = "get" /\ Send(PackU16(counter))
      /\ UNCHANGED <<counter, limit, storedData, storedDataLen>>
  BY StagedWhole DEF Get, Dispatched, appletVars
<1>2. counter \in 0..MAX_SHORT /\ counter \in Int
  BY MaxShortType DEF AppletInv, AppletTyped
<1>3. AppletTyped'
  BY <1>1, <1>2, TypedCounter
<1>4. AppletInv' /\ Ideal!Ok(cmd, Ideal!U16Bytes(counter))
  BY <1>1, <1>2, <1>3, PackFits, PackIdeal, SendStep
<1> QED
  BY <1>1, <1>4 DEF Ideal!Next, Ideal!Serve, Ideal!Read, CLA_COUNTER

\* onReset.
LEMMA ResetStep ==
    ASSUME AppletInv, Reset
    PROVE  AppletInv' /\ Ideal!Next
<1>1. /\ cmd \in Requests /\ cmd.cla = CLA_COUNTER /\ phase = "receiving"
      /\ cmd.ins = "reset" /\ Send(<<>>) /\ counter' = 0
      /\ UNCHANGED <<limit, storedData, storedDataLen>>
  BY StagedWhole DEF Reset, Dispatched
<1>2. AppletTyped'
  BY <1>1, MaxShortType, TypedCounter
<1>3. AppletInv' /\ Ideal!Ok(cmd, <<>>)
  BY <1>1, <1>2, EmptyAnswer, SendStep
<1> QED
  BY <1>1, <1>3 DEF Ideal!Next, Ideal!Serve, Ideal!Clear, CLA_COUNTER

\* A wire number read into a short is the number the short stands for.
LEMMA U16OfShort ==
    ASSUME NEW n \in Int, 0 <= n, n < 65536
    PROVE  U16(ToShort(n)) = n
<1>1. CASE n < 32768
  <2>1. (n + 32768) % 65536 = n + 32768
    BY <1>1
  <2>2. ToShort(n) = n
    BY <2>1 DEF ToShort
  <2>3. n % 65536 = n
    OBVIOUS
  <2> QED
    BY <2>2, <2>3 DEF U16
<1>2. CASE n >= 32768
  <2>1. (n + 32768) % 65536 = n - 32768
    BY <1>2
  <2>2. ToShort(n) = n - 65536
    BY <2>1 DEF ToShort
  <2>3. (n - 65536) % 65536 = n
    OBVIOUS
  <2> QED
    BY <2>2, <2>3 DEF U16
<1> QED
  BY <1>1, <1>2

\* What a sequence of bytes holds.
LEMMA ByteOf ==
    ASSUME NEW s \in Seq(Byte), NEW i \in 1..Len(s)
    PROVE  s[i] \in Byte
  OBVIOUS

\* Two bytes make a wire number.
LEMMA BytesMakeU16 ==
    ASSUME NEW a \in Byte, NEW b \in Byte
    PROVE  a * 256 + b \in Int /\ 0 <= a * 256 + b /\ a * 256 + b < 65536
<1>1. a \in Int /\ 0 <= a /\ a <= 255 /\ b \in Int /\ 0 <= b /\ b <= 255
  BY DEF Byte
<1> QED
  BY <1>1

\* onSetLimit.
LEMMA SetLimitStep ==
    ASSUME AppletInv, SetLimit
    PROVE  AppletInv' /\ Ideal!Next
<1> DEFINE n == cmd.data[1] * 256 + cmd.data[2]
<1>1. /\ cmd \in Requests /\ cmd.cla = CLA_COUNTER /\ phase = "receiving"
      /\ cmd.data \in Seq(Byte) /\ requestLength = Len(cmd.data)
      /\ \A i \in 1..requestLength : buf[OFFSET_CDATA + i - 1] = cmd.data[i]
      /\ cmd.ins = "setLimit" /\ requestLength = 2
      /\ Send(<<>>) /\ limit' = ReadU16(buf, OFFSET_CDATA)
      /\ UNCHANGED <<counter, storedData, storedDataLen>>
  BY StagedWhole DEF SetLimit, Dispatched, LengthOK
<1>2. buf[OFFSET_CDATA] = cmd.data[1] /\ buf[OFFSET_CDATA + 1] = cmd.data[2]
  BY <1>1 DEF OFFSET_CDATA
<1>3. n \in Int /\ 0 <= n /\ n < 65536
  <2>1. /\ 1 \in 1..Len(cmd.data) /\ 2 \in 1..Len(cmd.data)
        /\ cmd.data \in Seq(Byte)
    BY <1>1
  <2>2. cmd.data[1] \in Byte /\ cmd.data[2] \in Byte
    BY <2>1, ByteOf
  <2> QED
    BY <2>2, BytesMakeU16
<1>4. limit' = ToShort(n)
  BY <1>1, <1>2 DEF ReadU16
<1> HIDE DEF n
<1>5. limit' \in Short /\ U16(limit') = n
  BY <1>3, <1>4, ToShortType, U16OfShort
<1>6. AppletTyped'
  BY <1>1, <1>5 DEF AppletInv, AppletTyped
<1>7. AppletInv' /\ Ideal!Ok(cmd, <<>>)
  BY <1>1, <1>6, EmptyAnswer, SendStep
<1>8. UNCHANGED (IF storedDataLen < 0 THEN NoBlob
                 ELSE Window(storedData, 0, storedDataLen))
  BY <1>1
<1>9. Ideal!SetCap(cmd)
  BY <1>1, <1>5, <1>7, <1>8 DEF n, Ideal!SetCap
<1> QED
  BY <1>1, <1>7, <1>9 DEF Ideal!Next, Ideal!Serve, CLA_COUNTER

\* What is stored, as the ideal counter sees it.
Blob == IF storedDataLen < 0 THEN NoBlob ELSE Window(storedData, 0, storedDataLen)

\* A stored blob is bytes, fits an answer and is not the missing one.
LEMMA BlobType ==
    ASSUME AppletInv, ~(storedDataLen < 0)
    PROVE  /\ Blob = Window(storedData, 0, storedDataLen) /\ Blob \in Seq(Byte)
           /\ Len(Blob) = storedDataLen /\ Blob # NoBlob
<1>1. /\ storedDataLen \in Nat /\ storedDataLen <= MaxDataSize /\ MaxDataSize \in Nat
      /\ storedData \in [0..(MaxDataSize - 1) -> Byte]
      /\ 0 \in Nat /\ 0 + storedDataLen <= MaxDataSize
  BY SizesAssumption DEF AppletInv, AppletTyped
<1>2. Blob = Window(storedData, 0, storedDataLen)
  BY DEF Blob
<1>3. Blob \in Seq(Byte) /\ Len(Blob) = storedDataLen
  BY <1>1, <1>2, WindowType
<1>4. ASSUME Blob = NoBlob PROVE FALSE
  <2>1. NoBlob = <<-1>> /\ Len(NoBlob) = 1
    BY DEF NoBlob
  <2>2. 1 \in 1..Len(Blob) /\ Blob[1] = -1
    BY <2>1, <1>4
  <2>3. Blob[1] \in Byte
    BY <1>3, <2>2, ByteOf
  <2> QED
    BY <2>2, <2>3 DEF Byte
<1> QED
  BY <1>2, <1>3, <1>4

\* Whether the limit is reached shows in the wire numbers as well.
LEMMA ReachedIdeal ==
    ASSUME AppletInv
    PROVE  (counter = limit) <=> (counter = U16(limit))
<1>1. counter \in 0..MAX_SHORT /\ limit \in Short /\ limit \in Int
  BY MaxShortType DEF AppletInv, AppletTyped, Short
<1>2. CASE limit < 0
  <2>1. U16(limit) \in Int /\ U16(limit) > MAX_SHORT
    BY <1>1, <1>2, U16Negative
  <2> QED
    BY <1>1, <1>2, <2>1, MaxShortType
<1>3. CASE ~(limit < 0)
  <2>1. limit \in 0..MAX_SHORT
    BY <1>1, <1>3, MaxShortType DEF Short
  <2> QED
    BY <2>1, U16Same
<1> QED
  BY <1>2, <1>3

\* onGetInfo.
LEMMA GetInfoStep ==
    ASSUME AppletInv, GetInfo
    PROVE  AppletInv' /\ Ideal!Next
<1> DEFINE a == PackU16(counter)
           b == PackU16(limit)
           c == <<VERSION>>
           d == PackBool(storedDataLen >= 0)
           e == PackBool(counter = limit)
<1>1. /\ cmd \in Requests /\ cmd.cla = CLA_COUNTER /\ phase = "receiving"
      /\ cmd.ins = "getInfo" /\ Send(a \o b \o c \o d \o e)
      /\ UNCHANGED <<counter, limit, storedData, storedDataLen>>
  BY StagedWhole DEF GetInfo, Dispatched, appletVars
<1>2. /\ counter \in 0..MAX_SHORT /\ counter \in Int /\ limit \in Int
      /\ storedDataLen \in Int
  BY MaxShortType, SizesAssumption DEF AppletInv, AppletTyped, Short
<1>3. a \in Seq(Byte) /\ Len(a) = 2 /\ b \in Seq(Byte) /\ Len(b) = 2
  BY <1>2, PackU16Type
<1>4. /\ c \in Seq(Byte) /\ Len(c) = 1 /\ d \in Seq(Byte) /\ Len(d) = 1
      /\ e \in Seq(Byte) /\ Len(e) = 1
  <2>1. 0 \in Byte /\ 1 \in Byte
    BY DEF Byte
  <2>2. /\ <<0>> \in Seq(Byte) /\ Len(<<0>>) = 1
        /\ <<1>> \in Seq(Byte) /\ Len(<<1>>) = 1
    BY <2>1
  <2>3. c = <<1>> /\ (d = <<1>> \/ d = <<0>>) /\ (e = <<1>> \/ e = <<0>>)
    BY DEF PackBool, VERSION
  <2> HIDE DEF c, d, e
  <2> QED
    BY <2>2, <2>3
<1>5. /\ a = Ideal!U16Bytes(counter) /\ b = Ideal!U16Bytes(U16(limit)) /\ c = <<1>>
      /\ e = Ideal!Flag(counter = U16(limit))
  <2>1. a = Ideal!U16Bytes(counter)
    BY <1>2, PackIdeal
  <2>2. b = Ideal!U16Bytes(U16(limit)) /\ c = <<1>>
    BY DEF PackU16, Ideal!U16Bytes, VERSION
  <2>3. e = Ideal!Flag(counter = U16(limit))
    BY ReachedIdeal DEF PackBool, Ideal!Flag
  <2> QED
    BY <2>1, <2>2, <2>3
<1>6. d = Ideal!Flag(Blob # NoBlob)
  <2>1. (storedDataLen >= 0) <=> (Blob # NoBlob)
    BY <1>2, BlobType DEF Blob
  <2> QED
    BY <2>1 DEF PackBool, Ideal!Flag
<1> HIDE DEF a, b, c, d, e
<1>7. a \o b \o c \o d \o e \in Seq(Byte) /\ Len(a \o b \o c \o d \o e) <= BufLen
  <2>1. a \o b \in Seq(Byte) /\ Len(a \o b) = Len(a) + Len(b)
    BY <1>3, ConcatBytes
  <2>2. a \o b \o c \in Seq(Byte) /\ Len(a \o b \o c) = Len(a \o b) + Len(c)
    BY <1>4, <2>1, ConcatBytes
  <2>3. /\ a \o b \o c \o d \in Seq(Byte)
        /\ Len(a \o b \o c \o d) = Len(a \o b \o c) + Len(d)
    BY <1>4, <2>2, ConcatBytes
  <2>4. /\ a \o b \o c \o d \o e \in Seq(Byte)
        /\ Len(a \o b \o c \o d \o e) = Len(a \o b \o c \o d) + Len(e)
    BY <1>4, <2>3, ConcatBytes
  <2>5. Len(a \o b \o c \o d \o e) = 7 /\ 7 <= BufLen
    BY <1>3, <1>4, <2>1, <2>2, <2>3, <2>4, SizesAssumption
  <2> QED
    BY <2>4, <2>5
<1>8. AppletTyped'
  BY <1>1, <1>2, TypedCounter
<1>9. AppletInv' /\ Ideal!Ok(cmd, a \o b \o c \o d \o e)
  BY <1>1, <1>7, <1>8, SendStep
<1>10. Ideal!Read(cmd)
  BY <1>1, <1>5, <1>6, <1>9 DEF Ideal!Read, Blob
<1> QED
  BY <1>1, <1>9, <1>10 DEF Ideal!Next, Ideal!Serve, CLA_COUNTER

\* onStore.
LEMMA StoreStep ==
    ASSUME AppletInv, Store
    PROVE  AppletInv' /\ Ideal!Next
<1>1. /\ cmd \in Requests /\ cmd.cla = CLA_COUNTER /\ phase = "receiving"
      /\ cmd.data \in Seq(Byte) /\ requestLength = Len(cmd.data)
      /\ requestLength \in Nat /\ requestLength <= 255
      /\ OFFSET_CDATA + requestLength <= BufLen
      /\ Window(buf, OFFSET_CDATA, requestLength) = cmd.data
      /\ cmd.ins = "store"
  BY StagedWhole DEF Store, Dispatched
<1>2. CASE requestLength > MaxDataSize
  BY <1>1, <1>2, FailStep
  DEF Store, Ideal!Next, Ideal!Serve, Ideal!Keep, CLA_COUNTER, SW_DATA_TOO_LONG
<1>3. CASE ~(requestLength > MaxDataSize)
  <2>1. /\ storedData' = Write(storedData, 0, cmd.data) /\ Send(<<>>)
        /\ storedDataLen' = Len(cmd.data) /\ UNCHANGED <<counter, limit>>
    BY <1>1, <1>3 DEF Store
  <2>2. /\ storedData \in [0..(MaxDataSize - 1) -> Byte] /\ MaxDataSize \in Nat
        /\ 0 \in Nat /\ 0 + Len(cmd.data) <= MaxDataSize
    BY <1>1, <1>3, SizesAssumption DEF AppletInv, AppletTyped
  <2>3. /\ storedData' \in [0..(MaxDataSize - 1) -> Byte]
        /\ Window(storedData', 0, Len(cmd.data)) = cmd.data
    BY <1>1, <2>1, <2>2, WriteType, WriteRead
  <2>4. /\ storedDataLen' \in -1..MaxDataSize
        /\ storedDataLen' <= 255 /\ storedDataLen' <= BufLen
    BY <1>1, <2>1, <2>2, SizesAssumption DEF OFFSET_CDATA
  <2>5. AppletTyped'
    BY <2>1, <2>3, <2>4 DEF AppletInv, AppletTyped
  <2>6. AppletInv' /\ Ideal!Ok(cmd, <<>>)
    BY <1>1, <2>1, <2>5, EmptyAnswer, SendStep
  <2>7. Blob' = cmd.data
    BY <1>1, <2>1, <2>3 DEF Blob
  <2>8. Ideal!Keep(cmd)
    BY <1>1, <1>3, <2>1, <2>6, <2>7 DEF Ideal!Keep, Blob
  <2> QED
    BY <1>1, <2>6, <2>8 DEF Ideal!Next, Ideal!Serve, CLA_COUNTER
<1> QED
  BY <1>2, <1>3

\* requireCapacity() lets an answer of up to 255 bytes that fits the buffer pass.
LEMMA Sendable ==
    ASSUME NEW out \in Seq(Byte), Len(out) <= 255, Len(out) <= BufLen, SendWithin(out)
    PROVE  Send(out) /\ UNCHANGED <<counter, limit, storedData, storedDataLen>>
<1>1. ~(Len(out) > outputCapacity)
  BY SizesAssumption DEF outputCapacity
<1> QED
  BY <1>1 DEF SendWithin, appletVars

\* onLoad.
LEMMA LoadStep ==
    ASSUME AppletInv, Load
    PROVE  AppletInv' /\ Ideal!Next
<1>1. /\ cmd \in Requests /\ cmd.cla = CLA_COUNTER /\ phase = "receiving"
      /\ cmd.ins = "load"
  BY StagedWhole DEF Load, Dispatched
<1>2. CASE storedDataLen < 0
  <2>1. Fail(27272)
    BY <1>2 DEF Load, SW_NO_DATA
  <2>2. AppletInv' /\ Ideal!Refused(cmd, 27272)
    BY <1>1, <2>1, FailStep
  <2>3. Blob = NoBlob
    BY <1>2 DEF Blob
  <2>4. Ideal!Read(cmd)
    BY <1>1, <2>2, <2>3 DEF Ideal!Read, Ideal!Refused, Blob
  <2> QED
    BY <1>1, <2>2, <2>4 DEF Ideal!Next, Ideal!Serve, CLA_COUNTER
<1>3. CASE ~(storedDataLen < 0)
  <2>1. /\ Blob = Window(storedData, 0, storedDataLen) /\ Blob \in Seq(Byte)
        /\ Len(Blob) = storedDataLen /\ Blob # NoBlob
    BY <1>3, BlobType
  <2>2. SendWithin(Blob) /\ Len(Blob) <= 255 /\ Len(Blob) <= BufLen
    BY <1>3, <2>1 DEF Load, AppletInv, AppletTyped
  <2>3. Send(Blob) /\ UNCHANGED <<counter, limit, storedData, storedDataLen>>
    BY <2>1, <2>2, Sendable
  <2>4. AppletTyped'
    BY <2>3 DEF AppletInv, AppletTyped
  <2>5. AppletInv' /\ Ideal!Ok(cmd, Blob)
    BY <1>1, <2>1, <2>2, <2>3, <2>4, SendStep
  <2>6. Ideal!Read(cmd)
    BY <1>1, <2>1, <2>3, <2>5 DEF Ideal!Read, Blob
  <2> QED
    BY <1>1, <2>5, <2>6 DEF Ideal!Next, Ideal!Serve, CLA_COUNTER
<1> QED
  BY <1>2, <1>3

\* The methods that return constant data.
LEMMA GetFixedStep ==
    ASSUME AppletInv, NEW m \in DOMAIN Fixed, GetFixed(m)
    PROVE  AppletInv' /\ Ideal!Next
<1>1. /\ cmd \in Requests /\ cmd.cla = CLA_COUNTER /\ phase = "receiving"
      /\ cmd.ins = m
  BY StagedWhole DEF GetFixed, Dispatched
<1>2. Fixed[m] \in Seq(Byte) /\ Len(Fixed[m]) <= 255 /\ Len(Fixed[m]) <= BufLen
  BY FixedAssumption
<1>3. Send(Fixed[m]) /\ UNCHANGED <<counter, limit, storedData, storedDataLen>>
  BY <1>2, Sendable DEF GetFixed
<1>4. AppletTyped'
  BY <1>3 DEF AppletInv, AppletTyped
<1>5. AppletInv' /\ Ideal!Ok(cmd, Fixed[m])
  BY <1>1, <1>2, <1>3, <1>4, SendStep
<1>6. Ideal!Read(cmd)
  BY <1>1, <1>3, <1>5 DEF Ideal!Read
<1> QED
  BY <1>1, <1>5, <1>6 DEF Ideal!Next, Ideal!Serve, CLA_COUNTER

----------------------------------------------------------------------------
\* copyBytes() moves bytes whichever way source and target overlap.

\* The array b after the bytes lo..hi-1 of the window at src moved to dst.
Moved(b, src, dst, lo, hi) ==
    [j \in DOMAIN b |-> IF j \in (dst + lo)..(dst + hi - 1)
                        THEN b[src + j - dst] ELSE b[j]]

\* One iteration of each loop, and the loops' recursive definitions as
\* equations on g.
ForwardByte(a, src, dst, i) == [a EXCEPT ![dst + i - 1] = a[src + i - 1]]
BackwardByte(a, src, dst, len, i) ==
    [a EXCEPT ![dst + len - i] = a[src + len - i]]

IsForward(g, b, src, dst, len) ==
    g = [i \in 0..len |->
           IF i = 0 THEN b ELSE ForwardByte(g[i - 1], src, dst, i)]

IsBackward(g, b, src, dst, len) ==
    g = [i \in 0..len |->
           IF i = 0 THEN b ELSE BackwardByte(g[i - 1], src, dst, len, i)]

\* Nothing moved yet.
LEMMA NothingMoved ==
    ASSUME NEW n \in Nat, NEW b \in [0..(n - 1) -> Byte], NEW src, NEW dst \in Nat,
           NEW k \in Nat
    PROVE  Moved(b, src, dst, k, k) = b
<1>1. \A j \in 0..(n - 1) : j \notin (dst + k)..(dst + k - 1)
  OBVIOUS
<1> QED
  BY <1>1 DEF Moved

\* The forward loop moves the whole window, where the target does not start
\* inside the source.
LEMMA ForwardCopy ==
    ASSUME NEW n \in Nat, NEW b \in [0..(n - 1) -> Byte], NEW src \in Nat,
           NEW dst \in Nat, NEW len \in Nat, src + len <= n, dst + len <= n,
           dst <= src \/ dst - src >= len
    PROVE  CopyForward(b, src, dst, len) = Moved(b, src, dst, 0, len)
<1> DEFINE M(i) == Moved(b, src, dst, 0, i)
           g == [i \in 0..len |-> M(i)]
           f == CHOOSE h : IsForward(h, b, src, dst, len)
           S == {i \in Nat : i <= len => f[i] = M(i)}
<1>1. M(0) = b
  BY NothingMoved
<1>2. ASSUME NEW i \in 1..len
      PROVE  ForwardByte(M(i - 1), src, dst, i) = M(i)
  <2> DEFINE m == M(i - 1)
             t == M(i)
             to == dst + i - 1
             from == src + i - 1
  <2>1. DOMAIN m = 0..(n - 1) /\ DOMAIN t = 0..(n - 1) /\ to \in 0..(n - 1)
    BY DEF Moved
  <2>2. m[from] = b[from]
    <3>1. /\ from \notin (dst + 0)..(dst + (i - 1) - 1)
          /\ from \in 0..(n - 1)
      OBVIOUS
    <3> QED
      BY <3>1 DEF Moved
  <2>3. ASSUME NEW j \in 0..(n - 1), j # to PROVE t[j] = m[j]
    <3>1. j \in (dst + 0)..(dst + i - 1)
            <=> j \in (dst + 0)..(dst + (i - 1) - 1)
      BY <2>3
    <3> QED
      BY <3>1 DEF Moved
  <2>4. t[to] = b[from]
    <3>1. /\ to \in (dst + 0)..(dst + i - 1) /\ to \in 0..(n - 1)
          /\ src + to - dst = from
      OBVIOUS
    <3> QED
      BY <3>1 DEF Moved
  <2>5. m = [j \in 0..(n - 1) |-> m[j]] /\ t = [j \in 0..(n - 1) |-> t[j]]
    BY DEF Moved
  <2> HIDE DEF m, t, to, from
  <2>6. [m EXCEPT ![to] = m[from]] = t
    BY <2>1, <2>2, <2>3, <2>4, <2>5
  <2> QED
    BY <2>6 DEF ForwardByte, m, t, to, from
<1> HIDE DEF M
<1>3. \E h : IsForward(h, b, src, dst, len)
  <2>1. \A i \in 0..len :
          g[i] = IF i = 0 THEN b ELSE ForwardByte(g[i - 1], src, dst, i)
    BY <1>1, <1>2
  <2>2. g = [i \in 0..len |-> g[i]]
    OBVIOUS
  <2> HIDE DEF g
  <2>3. IsForward(g, b, src, dst, len)
    BY <2>1, <2>2 DEF IsForward
  <2> QED
    BY <2>3
<1>4. IsForward(f, b, src, dst, len)
  BY <1>3, Zenon
<1>5. CopyForward(b, src, dst, len) = f[len]
  BY Zenon DEF CopyForward, IsForward, ForwardByte
<1> HIDE DEF f
<1>6. /\ f[0] = b
      /\ \A i \in 1..len : f[i] = ForwardByte(f[i - 1], src, dst, i)
  BY <1>4 DEF IsForward
<1>7. 0 \in S
  BY <1>1, <1>6
<1>8. ASSUME NEW i \in Nat, i \in S PROVE i + 1 \in S
  <2> SUFFICES ASSUME i + 1 <= len PROVE f[i + 1] = M(i + 1)
    OBVIOUS
  <2>1. f[i] = M(i) /\ i + 1 \in 1..len /\ (i + 1) - 1 = i
    BY <1>8
  <2> QED
    BY <1>2, <1>6, <2>1
<1> HIDE DEF S
<1>9. Nat \subseteq S
  BY <1>7, <1>8, SetInduction
<1>10. f[len] = M(len)
  BY <1>9 DEF S
<1>11. M(len) = Moved(b, src, dst, 0, len)
  BY DEF M
<1> QED
  BY <1>5, <1>10, <1>11

\* The backward loop does where it does.
LEMMA BackwardCopy ==
    ASSUME NEW n \in Nat, NEW b \in [0..(n - 1) -> Byte], NEW src \in Nat,
           NEW dst \in Nat, NEW len \in Nat, src + len <= n, dst + len <= n,
           dst > src
    PROVE  CopyBackward(b, src, dst, len) = Moved(b, src, dst, 0, len)
<1> DEFINE M(i) == Moved(b, src, dst, (len - i), len)
           g == [i \in 0..len |-> M(i)]
           f == CHOOSE h : IsBackward(h, b, src, dst, len)
           S == {i \in Nat : i <= len => f[i] = M(i)}
<1>1. M(0) = b
  BY NothingMoved
<1>2. ASSUME NEW i \in 1..len
      PROVE  BackwardByte(M(i - 1), src, dst, len, i) = M(i)
  <2> DEFINE m == M(i - 1)
             t == M(i)
             to == dst + len - i
             from == src + len - i
  <2>1. DOMAIN m = 0..(n - 1) /\ DOMAIN t = 0..(n - 1) /\ to \in 0..(n - 1)
    BY DEF Moved
  <2>2. m[from] = b[from]
    <3>1. /\ from \notin (dst + (len - (i - 1)))..(dst + len - 1)
          /\ from \in 0..(n - 1)
      OBVIOUS
    <3> QED
      BY <3>1 DEF Moved
  <2>3. ASSUME NEW j \in 0..(n - 1), j # to PROVE t[j] = m[j]
    <3>1. j \in (dst + (len - i))..(dst + len - 1)
            <=> j \in (dst + (len - (i - 1)))..(dst + len - 1)
      BY <2>3
    <3> QED
      BY <3>1 DEF Moved
  <2>4. t[to] = b[from]
    <3>1. /\ to \in (dst + (len - i))..(dst + len - 1) /\ to \in 0..(n - 1)
          /\ src + to - dst = from
      OBVIOUS
    <3> QED
      BY <3>1 DEF Moved
  <2>5. m = [j \in 0..(n - 1) |-> m[j]] /\ t = [j \in 0..(n - 1) |-> t[j]]
    BY DEF Moved
  <2> HIDE DEF m, t, to, from
  <2>6. [m EXCEPT ![to] = m[from]] = t
    BY <2>1, <2>2, <2>3, <2>4, <2>5
  <2> QED
    BY <2>6 DEF BackwardByte, m, t, to, from
<1> HIDE DEF M
<1>3. \E h : IsBackward(h, b, src, dst, len)
  <2>1. \A i \in 0..len :
          g[i] = IF i = 0 THEN b ELSE BackwardByte(g[i - 1], src, dst, len, i)
    BY <1>1, <1>2
  <2>2. g = [i \in 0..len |-> g[i]]
    OBVIOUS
  <2> HIDE DEF g
  <2>3. IsBackward(g, b, src, dst, len)
    BY <2>1, <2>2 DEF IsBackward
  <2> QED
    BY <2>3
<1>4. IsBackward(f, b, src, dst, len)
  BY <1>3, Zenon
<1>5. CopyBackward(b, src, dst, len) = f[len]
  BY Zenon DEF CopyBackward, IsBackward, BackwardByte
<1> HIDE DEF f
<1>6. /\ f[0] = b
      /\ \A i \in 1..len : f[i] = BackwardByte(f[i - 1], src, dst, len, i)
  BY <1>4 DEF IsBackward
<1>7. 0 \in S
  BY <1>1, <1>6
<1>8. ASSUME NEW i \in Nat, i \in S PROVE i + 1 \in S
  <2> SUFFICES ASSUME i + 1 <= len PROVE f[i + 1] = M(i + 1)
    OBVIOUS
  <2>1. f[i] = M(i) /\ i + 1 \in 1..len /\ (i + 1) - 1 = i
    BY <1>8
  <2> QED
    BY <1>2, <1>6, <2>1
<1> HIDE DEF S
<1>9. Nat \subseteq S
  BY <1>7, <1>8, SetInduction
<1>10. f[len] = M(len)
  BY <1>9 DEF S
<1>11. M(len) = Moved(b, src, dst, 0, len)
  BY DEF M
<1> QED
  BY <1>5, <1>10, <1>11

\* copyBytes() puts the source window, as it was, at the target and changes no
\* other byte, for all offsets and lengths.
LEMMA CopyMoves ==
    ASSUME NEW n \in Nat, NEW b \in [0..(n - 1) -> Byte], NEW src \in Nat,
           NEW dst \in Nat, NEW len \in Nat, src + len <= n, dst + len <= n
    PROVE  CopyBytes(b, src, dst, len) = Moved(b, src, dst, 0, len)
<1>1. CASE dst > src /\ dst - src < len
  BY <1>1, BackwardCopy DEF CopyBytes
<1>2. CASE ~(dst > src /\ dst - src < len)
  <2>1. dst <= src \/ dst - src >= len
    BY <1>2
  <2> QED
    BY <1>2, <2>1, ForwardCopy DEF CopyBytes
<1> QED
  BY <1>1, <1>2

\* copyBytes() to the front of the buffer: the message is there as it was
\* staged, and the buffer is still one.
LEMMA CopyToFront ==
    ASSUME NEW n \in Nat, NEW c \in [0..(n - 1) -> Byte], NEW len \in Nat,
           OFFSET_CDATA + len <= n
    PROVE  /\ CopyBytes(c, OFFSET_CDATA, 0, len) \in [0..(n - 1) -> Byte]
           /\ Window(CopyBytes(c, OFFSET_CDATA, 0, len), 0, len)
                = Window(c, OFFSET_CDATA, len)
<1>1. OFFSET_CDATA \in Nat /\ OFFSET_CDATA = 5
  BY DEF OFFSET_CDATA
<1> DEFINE m == Moved(c, OFFSET_CDATA, 0, 0, len)
<1>2. ~(0 > OFFSET_CDATA)
  BY <1>1
<1>3. CopyBytes(c, OFFSET_CDATA, 0, len) = CopyForward(c, OFFSET_CDATA, 0, len)
  BY <1>2 DEF CopyBytes
<1>4. CopyForward(c, OFFSET_CDATA, 0, len) = m
  <2>1. 0 \in Nat /\ 0 + len <= n /\ 0 <= OFFSET_CDATA
    BY <1>1
  <2> HIDE DEF m
  <2> QED
    BY <1>1, <2>1, CopyMoves, <1>3 DEF m
<1>5. m \in [0..(n - 1) -> Byte]
  <2>1. ASSUME NEW j \in 0..(n - 1), j \in (0 + 0)..(0 + len - 1)
        PROVE  OFFSET_CDATA + j - 0 \in 0..(n - 1)
    BY <1>1, <2>1
  <2> QED
    BY <2>1 DEF Moved
<1>6. ASSUME NEW i \in 1..len
      PROVE  m[0 + i - 1] = c[OFFSET_CDATA + i - 1]
  <2>1. /\ 0 + i - 1 \in (0 + 0)..(0 + len - 1) /\ 0 + i - 1 \in 0..(n - 1)
        /\ OFFSET_CDATA + (0 + i - 1) - 0 = OFFSET_CDATA + i - 1
    BY <1>1
  <2> QED
    BY <2>1 DEF Moved
<1> HIDE DEF m
<1>7. Window(m, 0, len) = Window(c, OFFSET_CDATA, len)
  BY <1>6 DEF Window
<1> QED
  BY <1>3, <1>4, <1>5, <1>7

\* onEchoMessage: the message is moved to the front of the buffer it is in.
LEMMA EchoStep ==
    ASSUME AppletInv, EchoMessage
    PROVE  AppletInv' /\ Ideal!Next
<1> DEFINE b == CopyBytes(buf, OFFSET_CDATA, 0, requestLength)
<1>1. /\ cmd \in Requests /\ cmd.cla = CLA_COUNTER /\ phase = "receiving"
      /\ cmd.data \in Seq(Byte) /\ requestLength = Len(cmd.data)
      /\ requestLength \in Nat /\ requestLength <= 255
      /\ OFFSET_CDATA + requestLength <= BufLen
      /\ \A i \in 1..requestLength : buf[OFFSET_CDATA + i - 1] = cmd.data[i]
      /\ cmd.ins = "echoMessage"
  BY StagedWhole DEF EchoMessage, Dispatched
<1>2. buf \in [0..(BufLen - 1) -> Byte] /\ BufLen \in Nat
  BY SizesAssumption DEF AppletInv, ChannelTyped
<1>3. ~(requestLength > outputCapacity)
  BY <1>1, <1>2 DEF outputCapacity, OFFSET_CDATA
<1>4. SendBuffer(b, requestLength)
      /\ UNCHANGED <<counter, limit, storedData, storedDataLen>>
  BY <1>3 DEF EchoMessage, appletVars
<1>5. /\ b \in [0..(BufLen - 1) -> Byte]
      /\ Window(b, 0, requestLength) = Window(buf, OFFSET_CDATA, requestLength)
  BY <1>1, <1>2, CopyToFront
<1> HIDE DEF b
<1>6. Window(b, 0, requestLength) = cmd.data
  <2>1. Window(buf, OFFSET_CDATA, requestLength)
          = [i \in 1..requestLength |-> cmd.data[i]]
    BY <1>1 DEF Window
  <2>2. cmd.data = [i \in 1..requestLength |-> cmd.data[i]]
    BY <1>1
  <2> QED
    BY <1>5, <2>1, <2>2
<1>7. AppletTyped'
  BY <1>4 DEF AppletInv, AppletTyped
<1>8. AppletInv'
  BY <1>1, <1>4, <1>5, <1>7, SendBufferStep
<1>9. Ideal!Ok(cmd, cmd.data)
  BY <1>4, <1>6 DEF SendBuffer, Answer, Ideal!Ok, SW_OK
<1>10. Ideal!Read(cmd)
  BY <1>1, <1>4, <1>9 DEF Ideal!Read
<1> QED
  BY <1>1, <1>8, <1>10 DEF Ideal!Next, Ideal!Serve, CLA_COUNTER

\* The byte at a place of a concatenation.
LEMMA ConcatItem ==
    ASSUME NEW s \in Seq(Byte), NEW t \in Seq(Byte), NEW i \in 1..(Len(s) + Len(t))
    PROVE  (s \o t)[i] = IF i <= Len(s) THEN s[i] ELSE t[i - Len(s)]
  BY ConcatProperties

\* A sequence of bytes is the function of its places.
LEMMA BytesAre ==
    ASSUME NEW s \in Seq(Byte)
    PROVE  s = [i \in 1..Len(s) |-> s[i]] /\ Len(s) \in Nat
  OBVIOUS

\* A byte in front of a sequence.
LEMMA InFront ==
    ASSUME NEW x \in Byte, NEW p \in Seq(Byte), NEW i \in 1..(1 + Len(p))
    PROVE  /\ <<x>> \o p \in Seq(Byte) /\ Len(<<x>> \o p) = 1 + Len(p)
           /\ (<<x>> \o p)[i] = IF i = 1 THEN x ELSE p[i - 1]
<1> DEFINE u == <<x>>
<1>1. u \in Seq(Byte) /\ Len(u) = 1 /\ u[1] = x
  OBVIOUS
<1> HIDE DEF u
<1>2. u \o p \in Seq(Byte) /\ Len(u \o p) = Len(u) + Len(p)
  BY <1>1, ConcatBytes
<1>3. i \in 1..(Len(u) + Len(p)) /\ i \in Nat /\ i >= 1 /\ Len(p) \in Nat
  BY <1>1
<1>4. (u \o p)[i] = IF i <= Len(u) THEN u[i] ELSE p[i - Len(u)]
  BY <1>1, <1>3, ConcatItem
<1>5. (u \o p)[i] = IF i <= 1 THEN u[i] ELSE p[i - 1]
  BY <1>1, <1>4
<1>6. (u \o p)[i] = IF i = 1 THEN x ELSE p[i - 1]
  BY <1>1, <1>3, <1>5
<1> QED
  BY <1>1, <1>2, <1>6 DEF u

\* A sequence with another first byte.
LEMMA NewHead ==
    ASSUME NEW part \in Nat, part > 0, NEW h \in [1..part -> Byte],
           NEW t \in [1..part -> Byte], \A i \in 2..part : t[i] = h[i]
    PROVE  t = <<t[1]>> \o Tail(h) /\ Tail(h) \in Seq(Byte) /\ t[1] \in Byte
<1>1. h \in Seq(Byte) /\ Len(h) = part
  OBVIOUS
<1> DEFINE p == Tail(h)
           x == t[1]
           w == <<x>> \o p
<1>2. /\ p \in Seq(Byte) /\ Len(p) = part - 1
      /\ \A i \in 1..(part - 1) : p[i] = h[i + 1]
  BY <1>1
<1>3. x \in Byte
  OBVIOUS
<1> HIDE DEF p, x
<1>4. w \in Seq(Byte) /\ Len(w) = part
  <2>1. 1 \in 1..(1 + Len(p)) /\ 1 + Len(p) = part
    BY <1>2
  <2> QED
    BY <1>2, <1>3, <2>1, InFront
<1>5. ASSUME NEW i \in 1..part PROVE w[i] = t[i]
  <2>1. i \in 1..(1 + Len(p))
    BY <1>2
  <2>2. w[i] = IF i = 1 THEN x ELSE p[i - 1]
    BY <1>2, <1>3, <2>1, InFront
  <2>3. CASE i = 1
    BY <2>2, <2>3 DEF x
  <2>4. CASE i # 1
    <3>1. i - 1 \in 1..(part - 1) /\ i \in 2..part /\ (i - 1) + 1 = i
      BY <2>4
    <3>2. p[i - 1] = h[(i - 1) + 1]
      BY <1>2, <3>1
    <3> QED
      BY <2>2, <2>4, <3>1, <3>2
  <2> QED
    BY <2>3, <2>4
<1> HIDE DEF w
<1>6. w = [i \in 1..part |-> w[i]]
  BY <1>4, BytesAre
<1>7. w = t
  BY <1>5, <1>6
<1> QED
  BY <1>2, <1>3, <1>7 DEF w, p, x

\* The wire number of a short, and its low byte.
LEMMA LowByte ==
    ASSUME NEW s \in Int PROVE U16(s) % 256 \in Byte
  BY DEF U16, Byte

\* The signature packed over the challenge in the buffer is the signature of the
\* challenge as it was sent.
LEMMA SignsTheChallenge ==
    ASSUME NEW b \in [0..(BufLen - 1) -> Byte], NEW data \in Seq(Byte),
           Len(data) > 0, OFFSET_CDATA + Len(data) <= BufLen,
           \A i \in 1..Len(data) : b[OFFSET_CDATA + i - 1] = data[i],
           counter \in 0..MAX_SHORT, limit \in Int
    PROVE  LET n == IF Len(data) > PartSize THEN PartSize ELSE Len(data)
           IN  SignatureBytes(SignatureScratch(b, Len(data), n), n)
                 = RefSignature(data, counter, U16(limit))
<1> DEFINE n == IF Len(data) > PartSize THEN PartSize ELSE Len(data)
           first(i) == Xor(Xor(data[i], 1), counter % 256)
           last(i) == Xor(Xor(data[Len(data) + 1 - i], U16(limit) % 256), 90)
           h == [i \in 1..n |-> first(i)]
           k == [i \in 1..n |-> last(i)]
           unsigned(i, byte) == IF i = 1 THEN byte % 128 ELSE byte
           bfirst(i) == Xor(Xor(b[OFFSET_CDATA + i - 1], VERSION),
                            U16(counter) % 256)
           blast(i) == Xor(Xor(b[OFFSET_CDATA + Len(data) - i], U16(limit) % 256), 90)
           s == [i \in 1..n |-> unsigned(i, bfirst(i))]
           t == [i \in 1..n |-> unsigned(i, blast(i))]
<1>1. /\ Len(data) \in Nat /\ n <= Len(data) /\ n > 0 /\ n \in Nat /\ n <= 8
      /\ counter \in Int /\ U16(counter) = counter
  BY SizesAssumption, MaxShortType, U16Same
<1>2. SignatureScratch(b, Len(data), n) = <<s, t>>
  BY Zenon DEF SignatureScratch
<1>3. RefSignature(data, counter, U16(limit))
         = <<48, 4 + 2 * n, 2, n>> \o (<<h[1] % 128>> \o Tail(h))
             \o <<2, n>> \o (<<k[1] % 128>> \o Tail(k))
  BY Zenon DEF RefSignature
<1> HIDE DEF n
<1>4. ASSUME NEW i \in 1..n
      PROVE  /\ b[OFFSET_CDATA + i - 1] = data[i] /\ data[i] \in Byte
             /\ b[OFFSET_CDATA + Len(data) - i] = data[Len(data) + 1 - i]
             /\ data[Len(data) + 1 - i] \in Byte
  <2>1. /\ i \in 1..Len(data) /\ Len(data) + 1 - i \in 1..Len(data)
        /\ OFFSET_CDATA + (Len(data) + 1 - i) - 1 = OFFSET_CDATA + Len(data) - i
    BY <1>1 DEF OFFSET_CDATA
  <2>2. data[i] \in Byte /\ data[Len(data) + 1 - i] \in Byte
    BY <2>1
  <2> QED
    BY <2>1, <2>2
<1>5. /\ counter % 256 \in Byte /\ U16(limit) % 256 \in Byte /\ 1 \in Byte
      /\ 90 \in Byte
  BY <1>1, LowByte DEF Byte
<1>6. ASSUME NEW i \in 1..n PROVE first(i) \in Byte /\ last(i) \in Byte
  <2>1. /\ Xor(data[i], 1) \in Byte
        /\ Xor(data[Len(data) + 1 - i], U16(limit) % 256) \in Byte
    BY <1>4, <1>5, XorType
  <2> QED
    BY <1>5, <2>1, XorType
<1>7. ASSUME NEW i \in 1..n PROVE bfirst(i) = first(i) /\ blast(i) = last(i)
  BY <1>1, <1>4, Zenon DEF VERSION
<1> HIDE DEF first, last, bfirst, blast
<1>8. ASSUME NEW z \in Byte PROVE z % 128 \in Byte
  BY DEF Byte
<1>9. ASSUME NEW i \in 1..n
      PROVE  /\ unsigned(i, bfirst(i)) = unsigned(i, first(i))
             /\ unsigned(i, first(i)) \in Byte
             /\ unsigned(i, blast(i)) = unsigned(i, last(i))
             /\ unsigned(i, last(i)) \in Byte
  BY <1>6, <1>7, <1>8
<1>10. /\ h \in [1..n -> Byte] /\ k \in [1..n -> Byte]
       /\ s \in [1..n -> Byte] /\ t \in [1..n -> Byte]
  BY <1>6, <1>9
<1>11. (\A i \in 2..n : s[i] = h[i]) /\ (\A i \in 2..n : t[i] = k[i])
  BY <1>7
<1>12. 1 \in 1..n /\ s[1] = h[1] % 128 /\ t[1] = k[1] % 128
  BY <1>1, <1>7
<1>13. SignatureBytes(<<s, t>>, n)
         = <<48, 4 + 2 * n, 2, n>> \o s \o <<2, n>> \o t
  BY DEF SignatureBytes
<1> HIDE DEF h, k, s, t
<1>14. s = <<h[1] % 128>> \o Tail(h)
  BY <1>1, <1>10, <1>11, <1>12, NewHead
<1>15. t = <<k[1] % 128>> \o Tail(k)
  BY <1>1, <1>10, <1>11, <1>12, NewHead
<1>16. SignatureBytes(SignatureScratch(b, Len(data), n), n)
         = RefSignature(data, counter, U16(limit))
  BY <1>2, <1>3, <1>13, <1>14, <1>15, Zenon
<1> QED
  BY <1>16 DEF n

\* onSignChallenge: a challenge is signed, an empty one is refused, and so is an
\* answer the buffer has no room for.
LEMMA SignChallengeStep ==
    ASSUME AppletInv, SignChallenge
    PROVE  AppletInv' /\ Ideal!Next
<1>1. /\ cmd \in Requests /\ cmd.cla = CLA_COUNTER /\ phase = "receiving"
      /\ cmd.data \in Seq(Byte) /\ requestLength = Len(cmd.data)
      /\ requestLength \in Nat /\ OFFSET_CDATA + requestLength <= BufLen
      /\ \A i \in 1..requestLength : buf[OFFSET_CDATA + i - 1] = cmd.data[i]
      /\ cmd.ins = "signChallenge"
  BY StagedWhole DEF SignChallenge, Dispatched
<1>2. ASSUME Fail(26368) PROVE AppletInv' /\ Ideal!Next
  BY <1>1, <1>2, FailStep DEF Ideal!Next, Ideal!Reject
<1>3. CASE requestLength = 0
  <2>1. Fail(26368)
    BY <1>3 DEF SignChallenge, SW_EMPTY_CHALLENGE
  <2> QED
    BY <1>2, <2>1
<1>4. CASE requestLength # 0
  <2> DEFINE n == IF Len(cmd.data) > PartSize THEN PartSize ELSE Len(cmd.data)
             out == SignatureBytes(SignatureScratch(buf, Len(cmd.data), n), n)
  <2>1. SendWithin(out)
    BY <1>4 DEF SignChallenge, requestLength
  <2>2. /\ counter \in 0..MAX_SHORT /\ counter \in Int /\ limit \in Int
        /\ buf \in [0..(BufLen - 1) -> Byte]
    <3>1. counter \in 0..MAX_SHORT /\ limit \in Short
      BY DEF AppletInv, AppletTyped
    <3>2. limit \in Int /\ counter \in Int
      BY <3>1, MaxShortType DEF Short
    <3>3. buf \in [0..(BufLen - 1) -> Byte]
      BY DEF AppletInv, ChannelTyped
    <3> QED
      BY <3>1, <3>2, <3>3
  <2>3. out = RefSignature(cmd.data, counter, U16(limit))
    <3>1. Len(cmd.data) > 0
      BY <1>1, <1>4
    <3> QED
      BY <1>1, <2>2, <3>1, SignsTheChallenge
  <2>4. n \in 1..8 /\ n <= Len(cmd.data) /\ Len(cmd.data) \in Nat
    <3>1. Len(cmd.data) \in Nat /\ Len(cmd.data) > 0
      BY <1>1, <1>4
    <3>2. PartSize \in 1..8
      BY SizesAssumption
    <3> DEFINE L == Len(cmd.data)
    <3>3. (n = IF L > PartSize THEN PartSize ELSE L) /\ L \in Nat /\ L > 0
      BY <3>1
    <3> HIDE DEF L, n
    <3>4. n \in 1..8 /\ n <= L
      BY <3>2, <3>3
    <3> QED
      BY <3>1, <3>4 DEF L
  <2> HIDE DEF n
  <2>5. out \in Seq(Byte) /\ Len(out) \in Nat
    BY <1>1, <2>2, <2>4, SignatureType
  <2> HIDE DEF out
  <2>6. CASE Len(out) > outputCapacity
    <3>1. Fail(26368)
      BY <2>1, <2>6 DEF SendWithin, SW_WRONG_LENGTH
    <3> QED
      BY <1>2, <3>1
  <2>7. CASE ~(Len(out) > outputCapacity)
    <3>1. Send(out) /\ UNCHANGED <<counter, limit, storedData, storedDataLen>>
      BY <2>1, <2>7 DEF SendWithin, appletVars
    <3>2. Len(out) <= BufLen
      BY <2>5, <2>7, SizesAssumption DEF outputCapacity
    <3>3. AppletTyped'
      BY <3>1 DEF AppletInv, AppletTyped
    <3>4. AppletInv' /\ Ideal!Ok(cmd, out)
      BY <1>1, <2>5, <3>1, <3>2, <3>3, SendStep
    <3>5. cmd.data # <<>>
      BY <1>1, <1>4
    <3>6. Ideal!Read(cmd)
      BY <1>1, <2>3, <3>1, <3>4, <3>5 DEF Ideal!Read
    <3> QED
      BY <1>1, <3>4, <3>6 DEF Ideal!Next, Ideal!Serve, CLA_COUNTER
  <2> QED
    BY <2>6, <2>7
<1> QED
  BY <1>3, <1>4

\* Every step keeps the invariant, and is a step of the ideal counter or changes
\* nothing the client can see.
LEMMA AppletStep ==
    ASSUME AppletInv, [Next]_vars
    PROVE  AppletInv' /\ [Ideal!Next]_(Ideal!idealVars)
<1> DEFINE Seen == UNCHANGED <<counter, limit, storedData, storedDataLen, reply>>
<1>1. ASSUME Seen PROVE UNCHANGED Ideal!idealVars
  BY <1>1 DEF Ideal!idealVars
<1>2. CASE UNCHANGED vars
  <2>1. Seen /\ UNCHANGED <<buf, phase, cmd, received>>
    BY <1>2 DEF vars
  <2>2. AppletInv'
    BY <2>1 DEF AppletInv, AppletTyped, ChannelTyped, Accepted, Staged, requestLength
  <2> QED
    BY <1>1, <2>1, <2>2
<1>3. ASSUME NEW r \in Requests, NEW k \in 0..Len(r.data), Receive(r, k)
      PROVE  AppletInv' /\ UNCHANGED Ideal!idealVars
  BY <1>1, <1>3, ReceiveStep DEF Receive, appletVars
<1>4. ASSUME NEW k \in 1..requestLength, ReceiveMore(k)
      PROVE  AppletInv' /\ UNCHANGED Ideal!idealVars
  BY <1>1, <1>4, ReceiveMoreStep DEF ReceiveMore, appletVars
<1>5. ASSUME NEW r \in Requests, RejectCla(r) PROVE AppletInv' /\ Ideal!Next
  BY <1>5, RejectClaStep
<1>6. CASE ReceiveNothing \/ RejectLength \/ WrongLength \/ Unknown
  BY <1>6, RefusedStep
<1>7. CASE Increment \/ Decrement \/ Get \/ Reset \/ SetLimit
  BY <1>7, IncrementStep, DecrementStep, GetStep, ResetStep, SetLimitStep
<1>8. CASE GetInfo \/ Store \/ Load \/ SignChallenge \/ EchoMessage
  BY <1>8, GetInfoStep, StoreStep, LoadStep, SignChallengeStep, EchoStep
<1>9. ASSUME NEW m \in DOMAIN Fixed, GetFixed(m) PROVE AppletInv' /\ Ideal!Next
  BY <1>9, GetFixedStep
<1> QED
  BY <1>2, <1>3, <1>4, <1>5, <1>6, <1>7, <1>8, <1>9 DEF Next

\* AppletInv is an invariant.
LEMMA AppletAlways == Spec => []AppletInv
<1>1. AppletInv /\ [Next]_vars => AppletInv'
  BY AppletStep
<1> QED
  BY AppletInit, <1>1, PTL DEF Spec

\* However process() receives a command, and whatever the methods before it left
\* in the buffer, the buffer holds the bytes the client sent.
THEOREM StagedAsSent == Spec => []StagedIntact
  BY AppletAlways, AppletInvGives, PTL

\* The applet, with its 16-bit arithmetic and its one buffer for request and
\* answer, implements the counter of counter.toml: every answer is the one the
\* mathematical counter gives to the command as it was sent.
THEOREM RefinesIdeal == Spec => ImplementsIdeal
<1>1. Init => Ideal!Init
  <2> SUFFICES ASSUME Init PROVE Ideal!Init
    OBVIOUS
  <2>1. /\ counter = 0 /\ limit = MAX_SHORT /\ storedDataLen = -1 /\ reply.sw = 36864
    BY DEF Init, DEFAULT_LIMIT, NoReply, SW_OK
  <2>2. U16(limit) = 32767
    <3>1. MAX_SHORT \in 0..MAX_SHORT
      BY MaxShortType
    <3> QED
      BY <2>1, <3>1, U16Same DEF MAX_SHORT
  <2> QED
    BY <2>1, <2>2 DEF Ideal!Init
<1>2. AppletInv /\ [Next]_vars => [Ideal!Next]_(Ideal!idealVars)
  BY AppletStep
<1> QED
  BY AppletAlways, <1>1, <1>2, PTL DEF Spec, ImplementsIdeal, Ideal!Spec
============================================================================
