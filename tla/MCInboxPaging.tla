---------------------------- MODULE MCInboxPaging ----------------------------
(* Three pages; day 3 lies on the first two of them.                       *)
EXTENDS InboxPaging
MCPages == <<<<4, 3>>, <<3, 2, 2>>, <<1>>>>
=============================================================================
