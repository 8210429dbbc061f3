---------------------------- MODULE MCIssueDesk -----------------------------
(* One reader beside the publisher, two tiers, two clicks on page 07. *)
EXTENDS IssueDesk

CONSTANTS alice, desk
=============================================================================
