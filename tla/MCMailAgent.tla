---------------------------- MODULE MCMailAgent ----------------------------
(* The instance of MailAgent that TLC checks. *)
EXTENDS MailAgent
=============================================================================
