----------------------------- MODULE MCNoticeIcon ----------------------------
(* NoticeIcon with two count requests and one list request at a time.     *)
EXTENDS NoticeIcon
=============================================================================
