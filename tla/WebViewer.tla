------------------------------ MODULE WebViewer ------------------------------
(***************************************************************************)
(* The web viewer: pages of a conversation, read by several requests while *)
(* the archive is imported into (Messages of store, serveMessages and      *)
(* serveChats of webui, and the browser's half in static/app.js).          *)
(*                                                                         *)
(* The browser does not cancel requests.  It numbers its views and drops   *)
(* an answer that was asked for in another view.  Answers come back in any *)
(* order, or not at all.                                                   *)
(***************************************************************************)
EXTENDS Naturals, FiniteSets, Sequences, SequencesExt

CONSTANTS
    Chats,        \* chat JIDs
    Alias,        \* the other JID of the same contact, if they are ever linked
    Messages,     \* rows of the archive's messages, live or not
    Chat,         \* the chat of a message
    Sent,         \* its second, 0 for one that is no valid time
    Pk,           \* its source_pk
    Archives,     \* what imports may leave: live chats and messages, links
    FetchLimit,   \* messages on a page
    None,
    MaxViews,     \* bound: views the user opens
    MaxImports,   \* bound: imports
    MaxFaults     \* bound: requests that fail

ASSUME ViewerAssumption ==
    /\ Alias \in [Chats -> Chats \cup {None}]
    /\ Chat \in [Messages -> Chats]
    /\ Sent \in [Messages -> Nat]
    /\ Pk \in [Messages -> Nat \ {0}]
    /\ \A m, n \in Messages : Pk[m] = Pk[n] => m = n
    /\ Archives \subseteq [chats : SUBSET Chats, messages : SUBSET Messages, linked : BOOLEAN]
    /\ \A a \in Archives : \A m \in a.messages : Chat[m] \in a.chats
    /\ IsFiniteSet(Messages)
    /\ FetchLimit \in Nat \ {0}
    /\ {MaxViews, MaxImports, MaxFaults} \subseteq Nat
    /\ None \notin Chats /\ None \notin Messages

VARIABLES
    archive,      \* live chats and messages, and whether the contact is linked
    viewer,       \* the state of the page in the browser
    calls,        \* requests under way, answered or not
    counts,       \* message_count of the chats in the browser's list
    known,        \* history: messages live and in the conversation since it was opened
    broken,       \* history: the first page failed, or a refresh dropped an answer
    imports, faults

vars == <<archive, viewer, calls, counts, known, broken, imports, faults>>

-----------------------------------------------------------------------------
(* The server.                                                             *)

\* validUnixPredicate
Dated(m) == Sent[m] > 0

\* The order of message lists; rows without a valid time come last.
Older(m, n) == \/ Sent[m] < Sent[n]
               \/ Sent[m] = Sent[n] /\ Pk[m] < Pk[n]

\* withContactAliases: a linked contact's chats are one conversation.
Conversation(arch, chat) == IF arch.linked THEN {chat, Alias[chat]} ELSE {chat}

\* Faulty: source_pk does not break ties.
SameSecond(m, cursor) ==
    cursor # None => Dated(m) /\ Sent[m] <= Sent[cursor]

\* applyMessageFilters, with before and before_pk.
Before(m, cursor) == cursor # None => Dated(m) /\ Older(m, cursor)

\* Messages, oldest first.
Listed(S) == CHOOSE s \in SetToSeqs(S) : \A i, j \in DOMAIN s : i < j => Older(s[i], s[j])

\* The newest messages of the conversation before the cursor.
Page(chat, cursor) ==
    LET matching == {m \in archive.messages : Chat[m] \in Conversation(archive, chat)
                                              /\ Before(m, cursor)}
        newer(m) == {n \in matching : Older(m, n)}
    IN  Listed({m \in matching : Cardinality(newer(m)) < FetchLimit})

\* ListChats counts a chat's own live messages.
ChatList ==
    [c \in archive.chats |-> Cardinality({m \in archive.messages : Chat[m] = c})]

\* parseBefore: a cursor without a valid time is a bad request.
Acceptable(call) == call.cursor # None => Dated(call.cursor)

Answer(call, answer) ==
    /\ call.status = "sent"
    /\ calls' = (calls \ {call}) \cup {answer}
    /\ UNCHANGED <<archive, viewer, counts, known, broken, imports, faults>>

ServeMessages(call) ==
    /\ call.kind \in {"open", "older"}
    /\ Answer(call, IF Acceptable(call)
                    THEN [call EXCEPT !.status = "ok", !.page = Page(call.chat, call.cursor)]
                    ELSE [call EXCEPT !.status = "error"])

ServeChats(call) ==
    /\ call.kind = "chats"
    /\ Answer(call, [call EXCEPT !.status = "ok", !.chats = ChatList])

\* What a search finds is left out.
ServeSearch(call) ==
    /\ call.kind = "search"
    /\ Answer(call, [call EXCEPT !.status = "ok"])

Serve(call) == ServeMessages(call) \/ ServeChats(call) \/ ServeSearch(call)

\* The server is stopped, the archive is locked, or the connection breaks.
Disturb(call) ==
    /\ call.status = "sent" /\ faults < MaxFaults
    /\ calls' = (calls \ {call}) \cup {[call EXCEPT !.status = "error"]}
    /\ faults' = faults + 1
    /\ UNCHANGED <<archive, viewer, counts, known, broken, imports>>

\* Another process imports: messages and chats appear and are tombstoned,
\* chats with their messages, and evidence links or separates contacts.
Import ==
    /\ imports < MaxImports
    /\ archive' \in Archives \ {archive}
    /\ known' = IF viewer.selected = None THEN known
                ELSE {m \in known \cap archive'.messages :
                         Chat[m] \in Conversation(archive', viewer.selected)}
    /\ imports' = imports + 1
    /\ UNCHANGED <<viewer, calls, counts, broken, faults>>

-----------------------------------------------------------------------------
(* The browser: state.viewRequest, state.selectedChat with its             *)
(* message_count, state.searching, state.messages, what the view shows,    *)
(* and its button for older messages.                                      *)

\* No chat is listed yet.
NoChats == [c \in {} |-> 0]

\* refresh: load waits for it, and its button is disabled until then.
Call(kind, v, cursor, refresh) ==
    [kind |-> kind, view |-> v.view, chat |-> v.selected, cursor |-> cursor,
     refresh |-> refresh, status |-> "sent", page |-> <<>>, chats |-> NoChats]

\* renderMessages: the button is there while fewer messages are shown than the
\* list of chats said.
Rendered(v) ==
    [v EXCEPT !.list = "messages",
              !.older = IF v.selected # None /\ Len(v.messages) < v.total THEN "enabled"
                        ELSE "none"]

\* Faulty: answers to the last view are still good for this one.
SameView(v) ==
    [v EXCEPT !.screen = "chat", !.list = "loading", !.older = "none"]

NewView(v) ==
    [v EXCEPT !.view = @ + 1, !.screen = "chat", !.list = "loading", !.older = "none"]

\* selectChat
Opened(v, chat, list) ==
    [NewView(v) EXCEPT !.searching = FALSE, !.selected = chat, !.messages = <<>>,
                       !.total = IF chat \in DOMAIN list THEN list[chat] ELSE 0]

\* runSearch
Searching(v) == [NewView(v) EXCEPT !.searching = TRUE, !.selected = None]

\* The history starts with what the conversation holds when it is asked for.
Asked(v) ==
    /\ known' = IF v.selected = None THEN {}
                ELSE {m \in archive.messages : Chat[m] \in Conversation(archive, v.selected)}
    /\ broken' = FALSE

\* A click in the list of chats, or on a result of a search.
SelectChat ==
    /\ viewer.view < MaxViews
    /\ \E chat \in IF viewer.screen = "chat" /\ viewer.list = "results" THEN Chats
                   ELSE DOMAIN counts :
           /\ viewer' = Opened(viewer, chat, counts)
           /\ calls' = calls \cup {Call("open", viewer', None, FALSE)}
    /\ Asked(viewer')
    /\ UNCHANGED <<archive, counts, imports, faults>>

Search ==
    /\ viewer.view < MaxViews
    /\ viewer' = Searching(viewer)
    /\ calls' = calls \cup {Call("search", viewer', None, FALSE)}
    /\ Asked(viewer')
    /\ UNCHANGED <<archive, counts, imports, faults>>

\* The search that is under way is not given up.
ClearSearch ==
    /\ viewer.searching
    /\ viewer' = [viewer EXCEPT !.searching = FALSE, !.screen = "intro"]
    /\ UNCHANGED <<archive, calls, counts, known, broken, imports, faults>>

Back ==
    /\ viewer.view < MaxViews /\ viewer.screen = "chat"
    /\ viewer' = [viewer EXCEPT !.view = @ + 1, !.searching = FALSE, !.selected = None,
                                !.screen = "intro"]
    /\ Asked(viewer')
    /\ UNCHANGED <<archive, calls, counts, imports, faults>>

\* load: the view stays, but the answers it waits for are dropped.
Refresh ==
    /\ viewer.view < MaxViews
    /\ \A call \in calls : ~call.refresh
    /\ viewer' = [viewer EXCEPT !.view = @ + 1]
    /\ calls' = calls \cup {Call("chats", viewer', None, TRUE)}
    /\ broken' = (broken \/ "loading" \in {viewer.list, viewer.older})
    /\ UNCHANGED <<archive, counts, known, imports, faults>>

\* The cursor is the first message shown.
LoadOlder ==
    /\ viewer.screen = "chat" /\ viewer.selected # None
    /\ viewer.list = "messages" /\ viewer.older = "enabled"
    /\ viewer.messages # <<>>
    /\ viewer' = [viewer EXCEPT !.older = "loading"]
    /\ calls' = calls \cup {Call("older", viewer, viewer.messages[1], FALSE)}
    /\ UNCHANGED <<archive, counts, known, broken, imports, faults>>

\* Faulty: shows every answer.
Anything(call) == TRUE

Current(call) == call.view = viewer.view

\* load goes on: the search again, if its text is still there, or the chat
\* again, if it is still listed.
Reload(call) ==
    LET again == IF viewer.searching THEN {Searching(viewer), viewer}
                 ELSE IF viewer.selected = None THEN {viewer}
                 ELSE IF viewer.selected \in DOMAIN call.chats
                 THEN {Opened(viewer, viewer.selected, call.chats)}
                 ELSE {[viewer EXCEPT !.screen = "intro"]}
        kind  == IF viewer.searching THEN "search" ELSE "open"
    IN
    /\ counts' = call.chats
    /\ viewer' \in again
    /\ IF viewer'.view = viewer.view
       THEN /\ calls' = calls \ {call}
            /\ UNCHANGED <<known, broken>>
       ELSE /\ calls' = (calls \ {call}) \cup {Call(kind, viewer', None, TRUE)}
            /\ Asked(viewer')

\* Faulty: takes messages of the second of the first one shown for known ones.
EarlierSeconds(call) ==
    Listed({m \in Range(call.page) : Sent[m] < Sent[viewer.messages[1]]})

\* The messages of an answer that are not shown yet, in the order of the answer.
Fresh(call) == Listed(Range(call.page) \ Range(viewer.messages))

\* The view after a first page, an older one, or the results of a search.
Answered(call) ==
    LET ok == call.status = "ok"
    IN  CASE call.kind = "open" ->
               Rendered([viewer EXCEPT !.messages = IF ok THEN call.page ELSE <<>>])
          [] call.kind = "older" ->
               IF ok /\ Fresh(call) = <<>> THEN [viewer EXCEPT !.older = "none"]
               ELSE Rendered([viewer EXCEPT !.messages =
                                  IF ok THEN Fresh(call) \o @ ELSE @])
          [] call.kind = "search" ->
               [viewer EXCEPT !.list = "results", !.older = "none"]

Receive(call) ==
    /\ call.status # "sent"
    /\ IF Current(call) /\ call.kind = "chats" /\ call.status = "ok"
       THEN Reload(call)
       ELSE /\ viewer' = IF Current(call) /\ call.kind # "chats" THEN Answered(call)
                         ELSE viewer
            /\ calls' = calls \ {call}
            /\ broken' = (broken \/ (Current(call) /\ call.kind = "open"
                                     /\ call.status = "error"))
            /\ UNCHANGED <<counts, known>>
    /\ UNCHANGED <<archive, imports, faults>>

-----------------------------------------------------------------------------
\* The page is loaded and asks for the list of chats.
FirstView == [view |-> 1, searching |-> FALSE, selected |-> None, total |-> 0,
              messages |-> <<>>, screen |-> "intro", list |-> "empty", older |-> "none"]

FirstCalls == {Call("chats", FirstView, None, TRUE)}

\* The page is opened, or opened again.
OpenPage ==
    /\ viewer' = FirstView /\ calls' = FirstCalls /\ counts' = NoChats
    /\ known' = {} /\ broken' = FALSE
    /\ UNCHANGED <<archive, imports, faults>>

Init ==
    /\ archive \in Archives
    /\ viewer = FirstView /\ calls = FirstCalls /\ counts = NoChats
    /\ known = {} /\ broken = FALSE
    /\ imports = 0 /\ faults = 0

Next ==
    \/ Import \/ OpenPage
    \/ \E call \in calls : Serve(call) \/ Disturb(call) \/ Receive(call)
    \/ SelectChat \/ Search \/ ClearSearch \/ Back \/ Refresh \/ LoadOlder

Spec == Init /\ [][Next]_vars

\* Requests are answered, and whoever reads a conversation goes on loading
\* older messages.
FairSpec ==
    /\ Spec
    /\ WF_vars(\E call \in calls : Serve(call) \/ Receive(call))
    /\ WF_vars(LoadOlder)

-----------------------------------------------------------------------------
Counts == UNION {[S -> 0..Cardinality(Messages)] : S \in SUBSET Chats}

\* Requests in flight, and the pages they were answered with.
Calls ==
    [kind : {"chats", "open", "older", "search"}, view : 1..MaxViews + 2,
     chat : Chats \cup {None}, cursor : Messages \cup {None}, refresh : BOOLEAN,
     status : {"sent", "ok", "error"},
     page : BoundedSeq(Messages, FetchLimit), chats : Counts]

\* Type correctness.  At most one answer is awaited by the view on the screen
\* besides that of a refresh, so no two pages are put together in the wrong order.
TypeOK ==
    /\ archive \in Archives
    /\ viewer \in [view : 1..MaxViews + 2, searching : BOOLEAN, selected : Chats \cup {None},
                   total : 0..Cardinality(Messages),
                   messages : BoundedSeq(Messages, Cardinality(Messages)),
                   screen : {"intro", "chat"},
                   list : {"empty", "loading", "messages", "results"},
                   older : {"none", "enabled", "loading"}]
    /\ calls \subseteq Calls
    /\ Cardinality({call \in calls : Current(call) /\ call.kind # "chats"}) <= 1
    /\ counts \in Counts
    /\ known \subseteq Messages /\ broken \in BOOLEAN
    /\ imports \in 0..MaxImports /\ faults \in 0..MaxFaults

Reading(chat) == viewer.screen = "chat" /\ viewer.selected = chat

\* "source_pk breaks ties inside a single second so paging always advances"
\* (app.js), "Prevent stale web viewer responses from replacing active content"
\* (CHANGELOG.md): however answers are delayed, dropped and overtaken and
\* whatever is imported between two pages, a conversation is shown without
\* duplicates, in order, without messages of another conversation, and without
\* gaps: every message that was there since it was opened and is newer than the
\* oldest one shown is shown.
ShowsAnInterval ==
    \A chat \in Chats : Reading(chat) /\ viewer.messages # <<>> =>
        LET shown == viewer.messages
        IN  /\ \A i, j \in 1..Len(shown) : i < j => Older(shown[i], shown[j])
            /\ \A i \in 1..Len(shown) : Chat[shown[i]] \in {chat, Alias[chat]}
            /\ \A m \in known : Older(shown[1], m) => m \in Range(shown)

\* Every dated message that is there since the conversation was opened is shown,
\* or as many messages as the list of chats counted, which knows nothing of later
\* imports and of the contact's other chat.
Reached == \/ {m \in known : Dated(m)} \subseteq Range(viewer.messages)
           \/ Len(viewer.messages) >= viewer.total

\* The button for older messages is gone only when there is nothing left to load:
\* an empty page is never mistaken for the end of the conversation, and neither is
\* one of messages that are all shown already.
NothingIsLeftOut ==
    \A chat \in Chats :
        /\ Reading(chat) /\ ~broken /\ viewer.list = "messages"
        /\ viewer.older = "none" \/ viewer.messages = <<>>
        => Reached

\* Whoever goes on loading reaches every dated message that is there since the
\* conversation was opened (Reached), unless its first page failed or a refresh
\* that failed itself dropped an answer.
EverythingIsReached ==
    \A chat \in Chats :
        <>[](Reading(chat) /\ ~broken) =>
        <>[]Reached
=============================================================================
