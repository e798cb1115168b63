--------------------------- MODULE MC_GemdosDrive ---------------------------
(* The emulated drive is C: (no ACSI partitions) on host directory /r,    *)
(* which starts with a directory "a" and a file "b".  Guest paths use the  *)
(* components a, A, b and "..", one or two deep, relative, from the root, *)
(* with "C:\" and with "D:\".                                              *)
EXTENDS GemdosDrive

MCChars == {"/", "\\", ":", ".", "A", "B", "C", "D", "a", "b", "r"}

MCByte == [c \in MCChars |->
             CASE c = "/" -> 47 [] c = "\\" -> 92 [] c = ":" -> 58 [] c = "." -> 46
               [] c = "A" -> 65 [] c = "B" -> 66 [] c = "C" -> 67 [] c = "D" -> 68
               [] c = "a" -> 97 [] c = "b" -> 98 [] OTHER -> 114]

MCUpper == [c \in MCChars |-> CASE c = "a" -> "A" [] c = "b" -> "B" [] OTHER -> c]

MCRoot == <<"/", "r">>
R == <<"r">>

MCInitDirs == {<<>>, <<R>>, <<R, <<"a">>>>}
MCInitFiles == {<<R, <<"b">>>>}

Comps == {<<"a">>, <<"A">>, <<"b">>, <<".", ".">>}
BS == <<"\\">>

MCGuestPaths ==
    UNION { {c, BS \o c, <<"C", ":">> \o BS \o c, <<"D", ":">> \o BS \o c} : c \in Comps }
    \cup { c1 \o BS \o c2 : c1, c2 \in Comps }
    \cup { BS \o c1 \o BS \o c2 : c1, c2 \in Comps }

\* Created, deleted and renamed: a case variant of "a" from the root,
\* "b", a name under "a", and a path on D:.
MCTreePaths ==
    { BS \o <<"A">>, BS \o <<"b">>, BS \o <<"a">> \o BS \o <<"b">>,
      <<"D", ":">> \o BS \o <<"a">> }

\* Long names: with ShortLen 2, "aa" is a long component and the host
\* directory "aab" (holding "b") is what it names by prefix.
MCLongInitDirs == {<<>>, <<R>>, <<R, <<"a", "a", "b">>>>}
MCLongInitFiles == {<<R, <<"a", "a", "b">>, <<"b">>>>}
MCLongGuestPaths ==
    { BS \o <<"a", "a">> \o BS \o <<"b">>, <<"a", "a">> \o BS \o <<"b">>,
      BS \o <<"a", "a">>, <<"a", "a">> }

StateView == <<CurrentDrive, fs_currpath, dirs, files>>
=============================================================================
