----------------------------- MODULE MCMessage ------------------------------
(***************************************************************************)
(* Instances of Message: a scalar of two bytes, strings and raw data up to *)
(* and beyond the limit of their size field (2 here), a value of a type    *)
(* nobody knows; sizes of 16 bits, and values so large that 8 of them are  *)
(* more than such a size can say.                                          *)
(***************************************************************************)
EXTENDS Message

U16 == [type |-> 3, data |-> <<7, 0>>]
Str == [type |-> TYPE_STRING, data |-> <<65>>]
LongStr == [type |-> TYPE_STRING, data |-> <<65, 65>>]
Raw == [type |-> TYPE_RAW, data |-> <<0, 9>>]
LongRaw == [type |-> TYPE_RAW, data |-> <<1, 1, 1>>]
Alien == [type |-> 99, data |-> <<>>]

At(k, v) == [index |-> k, value |-> v]

Id == <<1, 0, 0, 0>>
MCIds == {Id}

\* Two values in a row; a list that runs out of the small arrays
\* half way; values that do not fit their size field, and one of an unknown type.
MCSettings ==
    {<<At(0, U16), At(1, Str)>>, <<At(0, Alien), At(2, U16), At(1, Str)>>,
     <<At(0, LongStr), At(1, LongRaw)>>}

MCSingleSettings == {At(1, Raw)}

Asked(k, t) == [index |-> k, type |-> t]

\* Two values of different types, the second of which may be missing or of another
\* type; a value of the unknown type.
MCRequests == {<<Asked(0, 3), Asked(1, TYPE_STRING)>>}
MCSingleRequests == {Asked(0, 99)}

Header(n) == Id \o <<n, 0, 0, 0>>

\* Too short for a header, and for what its header says; a value of an unknown
\* type behind a good one; half a scalar; three values, and five; a raw value that
\* does not decode, with a good value behind; a string without its nul byte, and one
\* with a nul byte in the middle, behind which the rest reads as a value; a raw value
\* and a header whose sizes wrap.
MCBuffers ==
    {<<1, 0, 0>>,
     Header(3) \o <<3, 7>>,
     Header(4) \o <<1, 5, 99, 1>>,
     Header(4) \o <<1, 5, 3, 7>>,
     Header(6) \o <<1, 5, 1, 6, 1, 7>>,
     Header(10) \o <<1, 5, 1, 6, 1, 7, 1, 8, 1, 9>>,
     Header(5) \o <<TYPE_RAW, 9, 0, 1, 5>>,
     Header(5) \o <<TYPE_STRING, 1, 0, 65, 1>>,
     Header(7) \o <<TYPE_STRING, 4, 0, 65, 0, 1, 0>>,
     Header(3) \o <<TYPE_RAW, 254, 255, 1, 5>>,
     Id \o <<248, 255, 0, 0, 1, 5>>}

\* A string whose size field is larger than what is left, and two bytes of it that
\* read as a value.
BadStrings == {Header(6) \o <<TYPE_STRING, 9, 0, 65, 1, 5>>}

\* A string whose size field is 0: it has no nul byte of its own.
ZeroStrings == {Header(5) \o <<TYPE_STRING, 0, 0, 65, 1>>}

NoBuffers == {}

=============================================================================
