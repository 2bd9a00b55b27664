----------------------------- MODULE MCSettings -----------------------------
(* Settings on small instances. *)
EXTENDS Settings

Hex(n) == [form |-> "hex", raw |-> n]
Dec(n) == [form |-> "dec", raw |-> n]

\* "0xFFFFFFFF", 255 and PRIMARY, the defaults, with Full for UINT32_MAX.
Defaults == [volume |-> Hex(Full), brightness |-> 255, activeMode |-> "PRIMARY"]

\* A share of UINT32_MAX and a percentage.
SomeVolumes == {Hex(Full \div 5), Dec(30)}

\* One in range and one beyond.
SomeBrightnesses == {128, 256}

SomeModes == {"PRIMARY", "SUBORDINATED", "OTHER"}
=============================================================================
