---------------------------- MODULE MCSnowflake ----------------------------
(***************************************************************************)
(* Two generators, three sequence numbers, clocks of three milliseconds:   *)
(* every generator can exhaust each millisecond.                           *)
(***************************************************************************)
EXTENDS Snowflake
=============================================================================
