------------------------- MODULE MCLogBrokerMemory -------------------------
(***************************************************************************)
(* Two appenders of two events each and a consumer that polls two at a     *)
(* time: enough to race for the topic's repository, and for a poll to      *)
(* start, go on and end at every position of the log.                      *)
(***************************************************************************)
EXTENDS LogBrokerMemory

CONSTANTS a1, a2, c1
=============================================================================
