-------------------------- MODULE MCCounterApplet --------------------------
(* Finite sets of commands for the Counter applet's runs.                  *)
EXTENDS CounterApplet

Cmd(ins, p1, data) == [cla |-> CLA_COUNTER, ins |-> ins, p1 |-> p1, data |-> data]

\* 217 divides 0x7FFF: the counter meets the largest short exactly, and the
\* next increment steps over it.
Arithmetic(limits) ==
    {Cmd("increment", a, <<>>) : a \in {0, 217}}
      \cup {Cmd("decrement", 217, <<>>), Cmd("reset", 0, <<>>)}
      \cup {Cmd("getInfo", 0, <<>>)}
      \cup {Cmd("setLimit", 0, l) : l \in limits}

\* A multiple of 217, a number between two multiples, the largest short.
LowLimits == {<<0, 217>>, <<0, 250>>, <<127, 255>>}
HighLimits == {<<128, 0>>, <<255, 255>>}

\* A command that only fits an extended APDU.
Extended == Cmd("get", 0, [i \in 1..256 |-> 5])

WideRequests == Arithmetic(LowLimits \cup HighLimits) \cup {Extended}
HighLimitRequests ==
    {Cmd("increment", 1, <<>>), Cmd("setLimit", 0, <<128, 0>>)}

\* Blobs up to one byte over the limit, messages that overlap their answer,
\* requests too long for the buffer, with the wrong length, class or method.
BufferRequests ==
    {Cmd("store", 0, d) : d \in {<<7>>, <<7, 8>>, <<9, 9, 9>>}}
      \cup {Cmd("echoMessage", 0, d) :
              d \in {<<1, 2, 3, 4, 5, 6, 7>>, <<1, 2, 3, 4, 5, 6, 7, 8>>}}
      \cup {Cmd("signChallenge", 0, d) : d \in {<<>>, <<129, 2, 3>>}}
      \cup {Cmd(m, 0, <<>>) : m \in {"get", "load", "getImsi", "unknown"}}
      \cup {Cmd("setLimit", 0, <<1>>)}
      \cup {[cla |-> 0, ins |-> "get", p1 |-> 0, data |-> <<>>]}

FixedData == [m \in {"getImsi"} |-> <<50, 53>>]
NoFixed == [m \in {} |-> <<>>]

=============================================================================
