----------------------------- MODULE MCChatPage -----------------------------
(* Instances of ChatPage small enough to enumerate. *)
EXTENDS ChatPage
=============================================================================
