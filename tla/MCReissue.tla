----------------------------- MODULE MCReissue ------------------------------
(***************************************************************************)
(* The chains L I R and K J I R, and M X P R: a leaf under a root R whose  *)
(* name and key are also certified by O, as X, while R certified O's name, *)
(* as P.  In M S R the root has rolled over to a new key, in S.  The names *)
(* on N T U hold more than a common name.  A re-issued certificate is the  *)
(* quadruple it was made from, a mangled one a 1-tuple.                    *)
(***************************************************************************)
EXTENDS Scenarios

CONSTANTS L, K, M, N, I, J, T, R, S, U, X, P, Q

MCBase == {L, K, M, N, I, J, T, R, S, U, X, P, Q}

\* Who issues whom in the chains above; R, S and U sign themselves.
MCSigner == [c \in MCBase |->
    CASE c \in {L, J} -> I [] c = K -> J [] c \in {I, M, P} -> R
      [] c = X -> P [] c = N -> T [] c = T -> U [] OTHER -> c]

MCReissuable == {<<c, MCSigner[c], lapsed, ca>> : c \in {L, K, N, I, J, T, R, U}, lapsed \in BOOLEAN, ca \in BOOLEAN}
                  \cup {<<c, s, lapsed, ca>> : c \in {M, X}, s \in {X, P}, lapsed \in BOOLEAN, ca \in BOOLEAN}
                  \cup {<<c, S, lapsed, ca>> : c \in {M, S}, lapsed \in BOOLEAN, ca \in BOOLEAN}
                  \cup {<<c, R, lapsed, ca>> : c \in {P, S}, lapsed \in BOOLEAN, ca \in BOOLEAN}
                  \cup {<<I, I, TRUE, TRUE>>}

MCReissued == [x \in MCReissuable |-> x]

MCMangled == [c \in MCBase |-> <<c>>]

MCUnparsable == {<<c>> : c \in MCBase}

MCCert == MCBase \cup MCReissuable \cup MCUnparsable

BaseName == [c \in MCBase |->
    CASE c \in {L, K, M} -> "leaf" [] c = I -> "int" [] c = J -> "sub"
      [] c \in {R, S, X} -> "root" [] c = P -> "other" [] c = Q -> "unknown"
      [] c = N -> "O=A, CN=leaf" [] c = T -> "O=A, CN=int" [] c = U -> "O=A, CN=root"]

BaseKey == [c \in MCBase |->
    CASE c \in {L, K, M} -> "l" [] c = I -> "i" [] c = J -> "j"
      [] c \in {R, X} -> "r" [] c = S -> "s" [] c = P -> "o" [] c = Q -> "q"
      [] c = N -> "n" [] c = T -> "t" [] c = U -> "u"]

MCBaseNames == {BaseName[c] : c \in MCBase}

\* Most names are a common name and nothing else.
MCCommonName == [n \in MCBaseNames |->
    CASE n = "O=A, CN=leaf" -> "CN=leaf" [] n = "O=A, CN=int" -> "CN=int"
      [] n = "O=A, CN=root" -> "CN=root" [] OTHER -> n]

MCSubject == [c \in MCCert |->
    CASE c \in MCBase -> BaseName[c]
      [] c \in MCReissuable -> CommonName[BaseName[c[1]]]
      [] OTHER -> "unknown"]

MCIssuer == [c \in MCCert |->
    CASE c \in MCBase -> BaseName[MCSigner[c]]
      [] c \in MCReissuable -> BaseName[c[2]]
      [] OTHER -> "unknown"]

MCSubjectKey == [c \in MCCert |->
    CASE c \in MCBase -> BaseKey[c] [] c \in MCReissuable -> BaseKey[c[1]]
      [] OTHER -> "q"]

MCSignerKey == [c \in MCCert |->
    CASE c \in MCBase -> BaseKey[MCSigner[c]] [] c \in MCReissuable -> BaseKey[c[2]]
      [] OTHER -> "q"]

MCAuthority == {I, J, T, R, S, U, X, P} \cup {x \in MCReissuable : x[4]}

MCName == MCBaseNames \cup {CommonName[n] : n \in MCBaseNames}

MCShortLived == {x \in MCReissuable : x[3]}
=============================================================================
