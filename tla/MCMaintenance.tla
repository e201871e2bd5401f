---------------------------- MODULE MCMaintenance ----------------------------
(* A placement made before source_uid existed, and one message that comes    *)
(* in: the same, another one or none.                                        *)
EXTENDS Maintenance, TLC

CONSTANTS a, b

MCContents == {a, b}
MCLegacy   == <<[msg |-> a, src |-> NoSource, seen |-> FALSE]>>
=============================================================================
