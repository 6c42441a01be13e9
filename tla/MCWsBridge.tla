---------------------------- MODULE MCWsBridge ----------------------------
(* WsBridge for TLC: the constants that are functions.                      *)
EXTENDS WsBridge

CONSTANTS panel, host

\* The panel takes one topic, the host both.
MCTopics == [s \in Sub |-> IF s = panel THEN {"setup"} ELSE {"pairing", "peers"}]
MCTopicOf == [k \in Kind |-> IF k = "peers" THEN "peers" ELSE "pairing"]
=============================================================================
