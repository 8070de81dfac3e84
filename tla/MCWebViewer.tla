---------------------------- MODULE MCWebViewer ----------------------------
\* A contact with two chats and four messages for the model checking of WebViewer.
EXTENDS WebViewer, TLC

CONSTANTS pn, lid, m1, m2, m3, undated

Aliases == pn :> lid @@ lid :> pn

ChatOf == m1 :> pn @@ m2 :> pn @@ m3 :> lid @@ undated :> pn

\* Two messages of one second, and one that has no valid time.
SentAt == m1 :> 1 @@ m2 :> 1 @@ m3 :> 2 @@ undated :> 0

PkOf == m1 :> 1 @@ m2 :> 2 @@ m3 :> 3 @@ undated :> 4
\* Any messages of both chats, or one chat alone.
SomeArchives ==
    [chats : {{pn, lid}}, messages : {M \cup {m2} : M \in SUBSET {m1, m3, undated}},
     linked : BOOLEAN]
    \cup {[chats |-> {pn}, messages |-> {m1, m2}, linked |-> FALSE],
          [chats |-> {lid}, messages |-> {m3}, linked |-> TRUE]}
=============================================================================
