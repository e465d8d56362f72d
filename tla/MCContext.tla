----------------------------- MODULE MCContext ------------------------------
(***************************************************************************)
(* Instances of Context: one context on the heap and one in static storage *)
(* with room for two values; frames with one, two and three values and one *)
(* whose second value does not decode; val1 is a number, val2 a string.    *)
(***************************************************************************)
EXTENDS Context

CONSTANTS val1, val2

MCPayloads == {<<val2>>, <<val1, val2>>, <<val2, val1, val1>>, <<val1, Bad>>}

\* In static storage a frame that fails, one over its rest, and one after the clear.
MCMaxBytes == [c \in Contexts |-> IF c \in StaticContexts THEN 3 ELSE 2]

TwoBytes == [c \in Contexts |-> 2]

\* Where the payloads do not matter.
OnePayload == {<<val1>>}

=============================================================================
