-------------------------- MODULE MC_WildcardMatch --------------------------
(* Host names over "a", "B" and '.', guest masks over "A", "b", '.', '*'   *)
(* and '?', so that every literal comparison needs case folding.           *)
EXTENDS WildcardMatch

MCNameChars == {"a", "B"}
MCMaskChars == {"A", "b"}

MCUpper == [c \in {"a", "A", "b", "B", ".", "*", "?"} |->
               CASE c = "a" -> "A" [] c = "b" -> "B" [] OTHER -> c]

\* ASCII codes
MCByte == [c \in {"a", "B", "."} |->
               CASE c = "a" -> 97 [] c = "B" -> 66 [] OTHER -> 46]
=============================================================================
