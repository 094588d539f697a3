---------------------------- MODULE MCSseClient ----------------------------
(* Instances of SseClient for TLC.                                          *)
EXTENDS SseClient

\* Everything the client may meet.
MCTokenForms == {"token", "null", "malformed"}

\* What the repository's own cloud sends.
MCCloudForms == {"null"}
=============================================================================
