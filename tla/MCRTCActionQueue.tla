-------------------------- MODULE MCRTCActionQueue --------------------------
(* RTCActionQueue for TLC, with and without RTC. *)
EXTENDS RTCActionQueue
=============================================================================
