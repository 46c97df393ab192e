----------------------------- MODULE MailClaims -----------------------------
(* What the documentation and the client say of the mail spool and the     *)
(* code does not keep.                                                     *)
EXTENDS MCMailRepository

(* Documentation.md:10: for each receiver a symlink to the message gets    *)
(* created, and one for the sender; the client reports a mail that was     *)
(* answered OK as sent.  addMail() answers OK when the links failed.       *)
EachReceiverGetsALink ==
  \A id \in posted \cap DOMAIN mails :
    \A folder \in Addressed(mails[id]) : <<folder, id>> \in links \cup trash

=============================================================================
