---------------------------- MODULE MCInboxLogo ----------------------------
(* The history screen with two downloads of at most MaxRows rows.          *)
EXTENDS InboxLogo
CONSTANTS p1, p2
=============================================================================
