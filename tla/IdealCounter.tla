---------------------------- MODULE IdealCounter ----------------------------
(***************************************************************************)
(* What counter.toml promises the clients of the Counter applet: a number  *)
(* that increments and decrements move within 0..cap, a blob that load     *)
(* returns as it was stored, and answers computed from the command as it   *)
(* was sent.  Numbers are mathematical integers, there is no buffer and    *)
(* a command is served in one step.  Under a cap above MaxCap an increment *)
(* may be refused without being too large.                                 *)
(***************************************************************************)
EXTENDS Integers, Sequences

CONSTANTS
    Requests,          \* the commands clients may send
    Fixed,             \* the constant answers
    MaxCap,            \* largest cap under which increments are promised
    MaxBlob,           \* longest blob store accepts
    NoBlob,            \* the blob before the first store
    Signature(_, _, _) \* the signature of a challenge, given value and cap

VARIABLES value, cap, blob, answer

idealVars == <<value, cap, blob, answer>>

U16Bytes(n) == <<n \div 256, n % 256>>
Flag(b) == IF b THEN <<1>> ELSE <<0>>

Ok(r, data) == answer' = [to |-> r, sw |-> 36864, data |-> data]
Refused(r, sw) ==
    /\ answer' = [to |-> r, sw |-> sw, data |-> <<>>]
    /\ UNCHANGED <<value, cap, blob>>

\* The increment that would pass the cap is refused and changes nothing.
Add(r) ==
    /\ r.ins = "increment"
    /\ \/ /\ value + r.p1 > cap \/ cap > MaxCap
          /\ Refused(r, 27014)
       \/ /\ value + r.p1 <= cap
          /\ value' = value + r.p1
          /\ Ok(r, U16Bytes(value + r.p1))
          /\ UNCHANGED <<cap, blob>>

Subtract(r) ==
    /\ r.ins = "decrement"
    /\ IF r.p1 > value
       THEN Refused(r, 27013)
       ELSE /\ value' = value - r.p1
            /\ Ok(r, U16Bytes(value - r.p1))
            /\ UNCHANGED <<cap, blob>>

Clear(r) ==
    /\ r.ins = "reset"
    /\ value' = 0
    /\ Ok(r, <<>>)
    /\ UNCHANGED <<cap, blob>>

SetCap(r) ==
    /\ r.ins = "setLimit"
    /\ Len(r.data) = 2
    /\ cap' = r.data[1] * 256 + r.data[2]
    /\ Ok(r, <<>>)
    /\ UNCHANGED <<value, blob>>

Keep(r) ==
    /\ r.ins = "store"
    /\ IF Len(r.data) > MaxBlob
       THEN Refused(r, 27264)
       ELSE /\ blob' = r.data
            /\ Ok(r, <<>>)
            /\ UNCHANGED <<value, cap>>

\* The commands that only read.
Read(r) ==
    /\ UNCHANGED <<value, cap, blob>>
    /\ \/ r.ins = "get" /\ Ok(r, U16Bytes(value))
       \/ /\ r.ins = "getInfo"
          /\ Ok(r, U16Bytes(value) \o U16Bytes(cap) \o <<1>>
                     \o Flag(blob # NoBlob) \o Flag(value = cap))
       \/ r.ins = "load" /\ blob # NoBlob /\ Ok(r, blob)
       \/ r.ins = "load" /\ blob = NoBlob /\ Refused(r, 27272)
       \/ r.ins = "echoMessage" /\ Ok(r, r.data)
       \/ /\ r.ins = "signChallenge"
          /\ r.data # <<>>
          /\ Ok(r, Signature(r.data, value, cap))
       \/ r.ins \in DOMAIN Fixed /\ Ok(r, Fixed[r.ins])

\* What is not served changes nothing: a foreign class, an unknown method, and
\* a request with data, which may be refused for its length on the way in.
Reject(r) ==
    \/ r.cla # 176 /\ Refused(r, 28160)
    \/ r.ins = "unknown" /\ Refused(r, 27904)
    \/ /\ r.data # <<>> \/ r.ins \in {"setLimit", "signChallenge"}
       /\ Refused(r, 26368)

Init ==
    /\ value = 0
    /\ cap = 32767
    /\ blob = NoBlob
    /\ answer.sw = 36864

Serve(r) ==
    /\ r.cla = 176
    /\ \/ Add(r)
       \/ Subtract(r)
       \/ Clear(r)
       \/ SetCap(r)
       \/ Keep(r)
       \/ Read(r)

Next == \E r \in Requests : Serve(r) \/ Reject(r)

Spec == Init /\ [][Next]_idealVars

=============================================================================
