--------------------------- MODULE MCNoticeEmails ---------------------------
(* Instances of NoticeEmails for TLC.                                      *)
EXTENDS NoticeEmails
=============================================================================
