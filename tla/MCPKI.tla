------------------------------- MODULE MCPKI -------------------------------
(***************************************************************************)
(* A small PKI.                                                            *)
(*   R <- I <- J     a root, an intermediate, a second one below it        *)
(*   L, K            leaves issued by I and J                              *)
(*   F               a leaf in I's name that another key signed; without   *)
(*                   key identifiers, so OpenSSL gets to its signature     *)
(*   N               I re-issued with CA:FALSE                             *)
(*   V               I without keyCertSign                                 *)
(*   R2, M           the root rolled over to a new key, and a leaf whose   *)
(*                   issuer's name is the root's, signed with the old key  *)
(*   O, X            another root, and the cross certificate it issued to  *)
(*                   the key and the name of R                             *)
(*   P               the cross certificate R issued to O in return         *)
(*   E               a self-signed end-entity certificate                  *)
(*   U               a block that does not parse                           *)
(***************************************************************************)
CONSTANTS L, K, F, M, I, J, N, V, R, R2, O, X, P, E, U

MCCert == {L, K, F, M, I, J, N, V, R, R2, O, X, P, E, U}

MCSubject == [c \in MCCert |->
    CASE c \in {L, K, F, M, U} -> "leaf" [] c \in {I, N, V} -> "int"
      [] c = J -> "sub" [] c \in {R, R2, X} -> "root"
      [] c \in {O, P} -> "other" [] c = E -> "device"]

MCIssuer == [c \in MCCert |->
    CASE c \in {L, F, J, U} -> "int" [] c = K -> "sub"
      [] c \in {M, I, N, V, R, R2, P} -> "root" [] c \in {O, X} -> "other"
      [] c = E -> "device"]

MCSubjectKey == [c \in MCCert |->
    CASE c \in {I, N, V} -> "i" [] c = J -> "j" [] c \in {R, X} -> "r"
      [] c = R2 -> "r2" [] c \in {O, P} -> "o" [] c = E -> "e" [] OTHER -> "l"]

MCSignerKey == [c \in MCCert |->
    CASE c \in {L, J, U} -> "i" [] c = K -> "j" [] c \in {M, I, N, V, R, P} -> "r"
      [] c = R2 -> "r2" [] c \in {O, X} -> "o" [] c = E -> "e" [] c = F -> "l"]
=============================================================================
