---------------------------- MODULE MCHubMsgOutbox ----------------------------
(* Instances of HubMsgOutbox for TLC. *)
EXTENDS HubMsgOutbox

JustStored == {"recipient_app_stored"}
=============================================================================
