--------------------------- MODULE MCRobotClient ----------------------------
(* RobotClient for TLC, with every server that answers with real chunks.   *)
EXTENDS RobotClient
=============================================================================
