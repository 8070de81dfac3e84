-------------------------- MODULE MCGroupLifecycle --------------------------
(* ArchiveLifecycle on one group chat: a group, a member and a message.    *)
EXTENDS ArchiveLifecycle, TLC

CONSTANTS g, m

GroupChatOf == m :> g
=============================================================================
