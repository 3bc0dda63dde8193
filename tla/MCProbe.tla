------------------------------- MODULE MCProbe --------------------------------
(* Instances of Probe: main creates the edge client before ClickHouse. *)
EXTENDS Probe

CONSTANTS edge, clickhouse

MCOutputs == <<edge, clickhouse>>
===============================================================================
