------------------------------ MODULE MCReport ------------------------------
(* Up to three scenarios with one or two findings each. *)
EXTENDS Report

MCScenario == [dir : {"int1", "expired_root"}, classes : {<<"VALID">>, <<"EXPIRED_ROOT">>,
                                           <<"EXPIRED_ROOT", "VALID">>, <<"VALID", "VALID">>}]
MCIntLabel == [d \in {"int1"} |-> "INT1"]

MCFound == UNION {[1..n -> MCScenario] : n \in 0..2}
               \cup {<<s, s, t>> : s, t \in MCScenario}
=============================================================================
