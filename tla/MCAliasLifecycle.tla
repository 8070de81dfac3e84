-------------------------- MODULE MCAliasLifecycle --------------------------
(* ArchiveLifecycle on one contact's two direct chats: its phone number    *)
(* (PN) chat, its LID chat, and a second LID that can contradict the link. *)
EXTENDS ArchiveLifecycle, TLC

CONSTANTS pn, lid, other, m

AliasChatOf == m :> lid
AliasLinks  == {<<pn, lid>>, <<pn, other>>}
=============================================================================
