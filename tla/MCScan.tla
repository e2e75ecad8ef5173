------------------------------- MODULE MCScan -------------------------------
(***************************************************************************)
(* A tree with a split chain (chain/leaf, chain/root) and a directory      *)
(* nested in one of its parts, every choice of directories that hold       *)
(* certificates and pins, and every directory as the target.               *)
(***************************************************************************)
EXTENDS Scan

MCDirs == { <<>>, <<"chain">>, <<"chain", "leaf">>, <<"chain", "root">>,
            <<"chain", "leaf", "root">> }
=============================================================================
