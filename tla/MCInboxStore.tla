---------------------------- MODULE MCInboxStore ----------------------------
(* The inbox with small rings; the .cfg files give the bounds.              *)
EXTENDS InboxStoreProperties
=============================================================================
