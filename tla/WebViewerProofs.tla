-------------------------- MODULE WebViewerProofs --------------------------
(* Proofs about WebViewer, for any messages, chats, links and imports, and  *)
(* pages of any size.                                                       *)
EXTENDS WebViewer, FiniteSetTheorems, TLAPS

-----------------------------------------------------------------------------
(* The order of messages, and lists in that order.                         *)

\* Messages are totally ordered: source_pk tells those of one second apart.
LEMMA OlderOrders ==
    ASSUME NEW m \in Messages, NEW n \in Messages
    PROVE  /\ ~Older(m, m)
           /\ m = n \/ Older(m, n) \/ Older(n, m)
           /\ ~(Older(m, n) /\ Older(n, m))
           /\ \A k \in Messages : Older(m, n) /\ Older(n, k) => Older(m, k)
<1>1. \A k \in Messages : Sent[k] \in Nat /\ Pk[k] \in Nat
  BY ViewerAssumption
<1>2. Pk[m] = Pk[n] => m = n
  BY ViewerAssumption
<1> QED
  BY <1>1, <1>2 DEF Older

\* The members of S that are older than m, and those that are newer.
Earlier(S, m) == {n \in S : Older(n, m)}
Later(S, m)   == {n \in S : Older(m, n)}

\* The older a member, the fewer are older still and the more are newer.
LEMMA RanksGrow ==
    ASSUME NEW S \in SUBSET Messages, NEW m \in S, NEW n \in S, Older(m, n)
    PROVE  /\ Cardinality(Earlier(S, m)) < Cardinality(Earlier(S, n))
           /\ Cardinality(Later(S, n)) < Cardinality(Later(S, m))
<1>1. /\ IsFiniteSet(Earlier(S, n)) /\ IsFiniteSet(Later(S, m))
      /\ IsFiniteSet(Earlier(S, m)) /\ IsFiniteSet(Later(S, n))
  <2>1. /\ Earlier(S, n) \in SUBSET Messages /\ Later(S, m) \in SUBSET Messages
        /\ Earlier(S, m) \in SUBSET Messages /\ Later(S, n) \in SUBSET Messages
    BY DEF Earlier, Later
  <2> QED
    BY <2>1, FS_Subset, ViewerAssumption
<1>2. /\ Earlier(S, m) \in SUBSET Earlier(S, n)
      /\ Later(S, n) \in SUBSET Later(S, m)
  BY OlderOrders DEF Earlier, Later
<1>3. /\ m \in Earlier(S, n) /\ m \notin Earlier(S, m)
      /\ n \in Later(S, m) /\ n \notin Later(S, n)
  BY OlderOrders DEF Earlier, Later
<1>4. /\ Cardinality(Earlier(S, m)) =< Cardinality(Earlier(S, n))
      /\ Cardinality(Earlier(S, m)) # Cardinality(Earlier(S, n))
  BY <1>1, <1>2, <1>3, FS_Subset
<1>5. /\ Cardinality(Later(S, n)) =< Cardinality(Later(S, m))
      /\ Cardinality(Later(S, n)) # Cardinality(Later(S, m))
  BY <1>1, <1>2, <1>3, FS_Subset
<1> QED
  BY <1>1, <1>4, <1>5, FS_CardinalityType

LEMMA RanksAreNumbers ==
    ASSUME NEW S \in SUBSET Messages, NEW m \in S
    PROVE  /\ Cardinality(Earlier(S, m)) \in Nat /\ Cardinality(Later(S, m)) \in Nat
           /\ Cardinality(S) \in Nat
           /\ Cardinality(Earlier(S, m)) < Cardinality(S)
<1>1. /\ IsFiniteSet(S) /\ IsFiniteSet(Earlier(S, m)) /\ IsFiniteSet(Later(S, m))
  <2>1. Earlier(S, m) \in SUBSET Messages /\ Later(S, m) \in SUBSET Messages
    BY DEF Earlier, Later
  <2> QED
    BY <2>1, FS_Subset, ViewerAssumption
<1>2. Earlier(S, m) \in SUBSET S /\ Earlier(S, m) # S
  BY OlderOrders DEF Earlier
<1>3. /\ Cardinality(Earlier(S, m)) =< Cardinality(S)
      /\ Cardinality(Earlier(S, m)) # Cardinality(S)
  BY <1>1, <1>2, FS_Subset
<1> QED
  BY <1>1, <1>3, FS_CardinalityType

LEMMA IntervalSizes ==
    ASSUME NEW n \in Nat
    PROVE  /\ IsFiniteSet(1..n) /\ Cardinality(1..n) = n
           /\ IsFiniteSet(0..(n - 1)) /\ Cardinality(0..(n - 1)) = n
<1>1. 0 \in Int /\ 1 \in Int /\ n \in Int /\ n - 1 \in Int
  OBVIOUS
<1>2. /\ IsFiniteSet(1..n) /\ Cardinality(1..n) = IF 1 > n THEN 0 ELSE n - 1 + 1
      /\ IsFiniteSet(0..(n - 1))
      /\ Cardinality(0..(n - 1)) = IF 0 > n - 1 THEN 0 ELSE (n - 1) - 0 + 1
  BY <1>1, FS_Interval
<1> QED
  BY <1>2

\* So every place in the order is taken by a member.
LEMMA EveryRankIsTaken ==
    ASSUME NEW S \in SUBSET Messages, NEW i \in 1..Cardinality(S)
    PROVE  \E m \in S : Cardinality(Earlier(S, m)) = i - 1
<1> DEFINE ranks == 0..(Cardinality(S) - 1)
           rank  == [m \in S |-> Cardinality(Earlier(S, m))]
<1>1. IsFiniteSet(S) /\ Cardinality(S) \in Nat
  BY FS_Subset, FS_CardinalityType, ViewerAssumption
<1>2. IsFiniteSet(ranks) /\ Cardinality(ranks) = Cardinality(S)
  BY <1>1, IntervalSizes
<1>3. rank \in [S -> ranks]
  BY <1>1, RanksAreNumbers
<1>4. ASSUME NEW m \in S, NEW n \in S, rank[m] = rank[n]
      PROVE  m = n
  <2>1. Older(m, n) => rank[m] < rank[n]
    BY RanksGrow
  <2>2. Older(n, m) => rank[n] < rank[m]
    BY RanksGrow
  <2>3. rank[m] \in Nat /\ rank[n] \in Nat
    BY RanksAreNumbers
  <2> HIDE DEF rank
  <2> QED
    BY <1>4, <2>1, <2>2, <2>3, OlderOrders
<1>5. rank \in Injection(S, ranks)
  BY <1>3, <1>4 DEF Injection, IsInjective
<1>6. rank \in Surjection(S, ranks)
  BY <1>2, <1>5, FS_Injection
<1>7. i - 1 \in ranks
  BY <1>1
<1> QED
  BY <1>6, <1>7 DEF Surjection

Ordered(s) == \A i, j \in 1..Len(s) : i < j => Older(s[i], s[j])

\* The sequences TypeOK speaks of.
LEMMA BoundedSequences ==
    ASSUME NEW s \in Seq(Messages), NEW k \in Nat, Len(s) =< k
    PROVE  s \in BoundedSeq(Messages, k)
<1>1. s \in [1..Len(s) -> Messages] /\ Len(s) \in 0..k
  OBVIOUS
<1> QED
  BY <1>1 DEF BoundedSeq, SeqOf

LEMMA PagesAreSequences ==
    ASSUME NEW k \in Nat, NEW s \in BoundedSeq(Messages, k)
    PROVE  s \in Seq(Messages)
<1>1. PICK n \in 0..k : s \in [1..n -> Messages]
  BY DEF BoundedSeq, SeqOf
<1> QED
  BY <1>1

\* Listed is well defined: there is one sequence of S in order.
LEMMA ListedInOrder ==
    ASSUME NEW S \in SUBSET Messages
    PROVE  /\ Listed(S) \in Seq(Messages)
           /\ Len(Listed(S)) = Cardinality(S)
           /\ Ordered(Listed(S))
           /\ Range(Listed(S)) = S
<1> DEFINE c == Cardinality(S)
           s == [i \in 1..c |-> CHOOSE m \in S : Cardinality(Earlier(S, m)) = i - 1]
           InOrder(x) == \A i, j \in DOMAIN x : i < j => Older(x[i], x[j])
<1>1. IsFiniteSet(S) /\ c \in Nat
  BY FS_Subset, FS_CardinalityType, ViewerAssumption
<1>2. ASSUME NEW i \in 1..c
      PROVE  s[i] \in S /\ Cardinality(Earlier(S, s[i])) = i - 1
  BY EveryRankIsTaken
<1> HIDE DEF s
<1>3. s \in [1..c -> S]
  BY <1>2 DEF s
<1>4. ASSUME NEW i \in 1..c, NEW j \in 1..c, i < j
      PROVE  Older(s[i], s[j])
  <2>1. Cardinality(Earlier(S, s[i])) = i - 1 /\ Cardinality(Earlier(S, s[j])) = j - 1
    BY <1>2
  <2>2. i - 1 < j - 1 /\ ~(j - 1 < i - 1)
    BY <1>1, <1>4
  <2>3. s[i] # s[j]
    BY <2>1, <2>2
  <2>4. ~Older(s[j], s[i])
    BY <1>3, <2>1, <2>2, RanksGrow
  <2> QED
    BY <1>3, <2>3, <2>4, OlderOrders
<1>5. ASSUME NEW x \in [1..c -> S], InOrder(x), NEW i \in 1..c, NEW j \in 1..c, i # j
      PROVE  x[i] # x[j]
  <2>1. Older(x[i], x[j]) \/ Older(x[j], x[i])
    BY <1>1, <1>5
  <2> QED
    BY <1>5, <2>1, OlderOrders
<1>6. InOrder(s)
  BY <1>3, <1>4
<1>7. s \in SetToSeqs(S) /\ InOrder(s)
  BY <1>3, <1>5, <1>6 DEF SetToSeqs
<1> DEFINE t == Listed(S)
<1>8. t \in SetToSeqs(S) /\ InOrder(t)
  BY <1>7 DEF Listed
<1> HIDE DEF t, s
<1>9. t \in [1..c -> S] /\ \A i, j \in 1..c : i # j => t[i] # t[j]
  BY <1>8 DEF SetToSeqs
<1>10. t \in Seq(Messages) /\ Len(t) = c
  BY <1>1, <1>9
<1>11. Ordered(t)
  BY <1>8, <1>9, <1>10 DEF Ordered
<1>12. Range(t) = S
  <2>1. t \in Injection(1..c, S)
    BY <1>9 DEF Injection, IsInjective
  <2>2. Cardinality(1..c) = c
    BY <1>1, IntervalSizes
  <2>3. t \in Surjection(1..c, S)
    BY <1>1, <2>1, <2>2, FS_Injection
  <2> QED
    BY <1>9, <2>3 DEF Surjection, Range
<1> QED
  BY <1>10, <1>11, <1>12 DEF t

\* A list in order shows no message twice, so it is no longer than there are
\* messages.
LEMMA OrderedIsShort ==
    ASSUME NEW s \in Seq(Messages), Ordered(s)
    PROVE  s \in BoundedSeq(Messages, Cardinality(Messages))
<1> DEFINE n == Len(s)
<1>1. s \in [1..n -> Messages] /\ n \in Nat
  OBVIOUS
<1>2. ASSUME NEW i \in 1..n, NEW j \in 1..n, i # j
      PROVE  s[i] # s[j]
  <2>1. Older(s[i], s[j]) \/ Older(s[j], s[i])
    BY <1>1, <1>2 DEF Ordered
  <2> QED
    BY <1>1, <2>1, OlderOrders
<1>3. s \in Injection(1..n, Messages)
  BY <1>1, <1>2 DEF Injection, IsInjective
<1>4. Cardinality(1..n) = n
  BY <1>1, IntervalSizes
<1>5. IsFiniteSet(Messages)
  BY ViewerAssumption
<1>6. Cardinality(1..n) =< Cardinality(Messages) /\ Cardinality(Messages) \in Nat
  BY <1>3, <1>5, FS_Injection, FS_CardinalityType
<1> QED
  BY <1>4, <1>6, BoundedSequences

\* The newest k members of S are no more than k, and nothing newer is left out.
LEMMA Newest ==
    ASSUME NEW S \in SUBSET Messages, NEW k \in Nat
    PROVE  LET T == {m \in S : Cardinality(Later(S, m)) < k}
           IN  /\ Cardinality(T) =< k
               /\ \A m \in T, n \in S : Older(m, n) => n \in T
<1> DEFINE T     == {m \in S : Cardinality(Later(S, m)) < k}
           ranks == 0..(k - 1)
           rank  == [m \in T |-> Cardinality(Later(S, m))]
<1>1. IsFiniteSet(ranks) /\ Cardinality(ranks) = k
  BY IntervalSizes
<1>2. rank \in [T -> ranks]
  BY RanksAreNumbers
<1>3. ASSUME NEW m \in T, NEW n \in T, rank[m] = rank[n]
      PROVE  m = n
  <2>1. Older(m, n) => rank[n] < rank[m]
    BY RanksGrow
  <2>2. Older(n, m) => rank[m] < rank[n]
    BY RanksGrow
  <2>3. rank[m] \in Nat /\ rank[n] \in Nat
    BY RanksAreNumbers
  <2> HIDE DEF rank
  <2> QED
    BY <1>3, <2>1, <2>2, <2>3, OlderOrders
<1>4. rank \in Injection(T, ranks)
  BY <1>2, <1>3 DEF Injection, IsInjective
<1>5. Cardinality(T) =< k
  BY <1>1, <1>4, FS_Injection
<1>6. ASSUME NEW m \in T, NEW n \in S, Older(m, n)
      PROVE  n \in T
  <2>1. Cardinality(Later(S, n)) < Cardinality(Later(S, m))
    BY <1>6, RanksGrow
  <2>2. Cardinality(Later(S, n)) \in Nat /\ Cardinality(Later(S, m)) \in Nat
    BY RanksAreNumbers
  <2> QED
    BY <2>1, <2>2
<1> QED
  BY <1>5, <1>6

-----------------------------------------------------------------------------
(* What is shown and what is on its way.                                   *)

\* The messages of a page are of the conversation and before the cursor, in
\* order, and none that was always there is missing between them.
Interval(page, chat, cursor, there) ==
    /\ Ordered(page)
    /\ \A m \in Range(page) : /\ Chat[m] \in {chat, Alias[chat]}
                              /\ cursor # None => Older(m, cursor)
    /\ \A m \in Range(page), n \in there :
          Older(m, n) /\ (cursor # None => Older(n, cursor)) => n \in Range(page)

\* The view waits for this answer.
Awaited(call) == Current(call) /\ call.kind # "chats"

\* Every answer is to this view or an earlier one.
Numbered ==
    \A call \in calls : /\ call.view =< viewer.view
                        /\ call.kind = "chats" => call.view =< MaxViews + 1

\* The view waits for one answer at most, and for none while its button for
\* older messages can be pressed.
Awaiting ==
    /\ \A c, d \in calls : Awaited(c) /\ Awaited(d) => c = d
    /\ viewer.older = "enabled" => \A c \in calls : ~Awaited(c)

\* An answer that is awaited fits what is shown.
Fitting ==
    \A call \in calls : Awaited(call) /\ call.kind \in {"open", "older"} =>
        /\ call.chat # None /\ call.chat = viewer.selected
        /\ call.kind = "open" => call.cursor = None /\ viewer.messages = <<>>
        /\ call.kind = "older" => /\ viewer.messages # <<>>
                                  /\ call.cursor = viewer.messages[1]
        /\ Interval(call.page, call.chat, call.cursor, known)

\* What is shown is an interval, and what was always there is still there.
Shown ==
    /\ Ordered(viewer.messages)
    /\ viewer.selected # None =>
         /\ Interval(viewer.messages, viewer.selected, None, known)
         /\ \A m \in known : /\ m \in archive.messages
                             /\ Chat[m] \in Conversation(archive, viewer.selected)

\* No sequence is an interval of anything.
LEMMA EmptyInterval ==
    ASSUME NEW chat, NEW cursor, NEW there
    PROVE  <<>> \in Seq(Messages) /\ Interval(<<>>, chat, cursor, there)
<1>1. <<>> \in Seq(Messages) /\ Len(<<>>) = 0 /\ Range(<<>>) = {}
  BY DEF Range
<1> QED
  BY <1>1 DEF Interval, Ordered

\* What is gone is not missed.
LEMMA FewerThere ==
    ASSUME NEW page, NEW chat, NEW cursor, NEW there, NEW left \in SUBSET there,
           Interval(page, chat, cursor, there)
    PROVE  Interval(page, chat, cursor, left)
BY DEF Interval

\* The range of a sequence of messages.
LEMMA Ranges ==
    ASSUME NEW s \in Seq(Messages)
    PROVE  /\ Range(s) \in SUBSET Messages
           /\ \A i \in 1..Len(s) : s[i] \in Range(s)
           /\ \A m \in Range(s) : \E i \in 1..Len(s) : m = s[i]
BY DEF Range

\* The first message shown is the oldest.
LEMMA FirstIsOldest ==
    ASSUME NEW s \in Seq(Messages), Ordered(s), s # <<>>
    PROVE  /\ s[1] \in Range(s)
           /\ \A m \in Range(s) : m = s[1] \/ Older(s[1], m)
<1>1. 1 \in 1..Len(s)
  OBVIOUS
<1>2. ASSUME NEW m \in Range(s)
      PROVE  m = s[1] \/ Older(s[1], m)
  <2>1. PICK i \in 1..Len(s) : m = s[i]
    BY Ranges
  <2>2. i = 1 \/ 1 < i
    OBVIOUS
  <2> QED
    BY <1>1, <2>1, <2>2 DEF Ordered
<1> QED
  BY <1>1, <1>2, Ranges

\* A page from the server is an interval of what is there when it is read.
LEMMA PageIsInterval ==
    ASSUME archive \in Archives, NEW chat, NEW cursor \in Messages \cup {None},
           NEW there, \A m \in there : /\ m \in archive.messages
                                      /\ Chat[m] \in Conversation(archive, chat)
    PROVE  /\ Page(chat, cursor) \in BoundedSeq(Messages, FetchLimit)
           /\ Page(chat, cursor) \in Seq(Messages)
           /\ Interval(Page(chat, cursor), chat, cursor, there)
<1> DEFINE matching == {m \in archive.messages : Chat[m] \in Conversation(archive, chat)
                                                  /\ Before(m, cursor)}
           newest == {m \in matching : Cardinality(Later(matching, m)) < FetchLimit}
           page == Page(chat, cursor)
<1>0. /\ archive.messages \in SUBSET Messages
      /\ FetchLimit \in Nat
      /\ None \notin Messages
  BY ViewerAssumption
<1>1. matching \in SUBSET Messages /\ newest \in SUBSET Messages
  BY <1>0
<1>2. page = Listed(newest)
  BY DEF Page, Later
<1>3. /\ Cardinality(newest) =< FetchLimit
      /\ \A m \in newest, n \in matching : Older(m, n) => n \in newest
  BY <1>0, <1>1, Newest
<1>4. ASSUME NEW m \in matching
      PROVE  /\ Chat[m] \in {chat, Alias[chat]}
             /\ cursor # None => Older(m, cursor) /\ Dated(m)
  BY DEF Conversation, Before
<1>5. ASSUME NEW m \in matching, NEW n \in there, Older(m, n),
             cursor # None => Older(n, cursor)
      PROVE  n \in matching
  <2>1. n \in Messages /\ m \in Messages
    BY <1>0, <1>1
  <2>2. Sent[m] \in Nat /\ Sent[n] \in Nat /\ Sent[m] =< Sent[n]
    BY <1>5, <2>1, ViewerAssumption DEF Older
  <2>3. cursor # None => Dated(n)
    BY <1>4, <2>2 DEF Dated
  <2> QED
    BY <1>5, <2>3 DEF Before
<1> HIDE DEF matching, page
<1>6. ASSUME NEW m \in newest
      PROVE  m \in matching
  OBVIOUS
<1> HIDE DEF newest
<1>7. /\ page \in Seq(Messages) /\ Len(page) = Cardinality(newest)
      /\ Ordered(page) /\ Range(page) = newest
  BY <1>1, <1>2, ListedInOrder
<1>8. Interval(page, chat, cursor, there)
  BY <1>3, <1>4, <1>5, <1>6, <1>7 DEF Interval
<1>9. page \in BoundedSeq(Messages, FetchLimit)
  BY <1>0, <1>3, <1>7, BoundedSequences
<1> QED
  BY <1>7, <1>8, <1>9 DEF page

\* An older page put before what is shown makes one interval.
LEMMA PagesJoin ==
    ASSUME NEW page \in Seq(Messages), NEW shown \in Seq(Messages), shown # <<>>,
           NEW chat, NEW there \in SUBSET Messages,
           Interval(page, chat, shown[1], there), Interval(shown, chat, None, there)
    PROVE  LET fresh == Listed(Range(page) \ Range(shown))
           IN  /\ fresh \o shown \in Seq(Messages)
               /\ Interval(fresh \o shown, chat, None, there)
<1> DEFINE S     == Range(page) \ Range(shown)
           fresh == Listed(S)
           all   == fresh \o shown
           k     == Len(fresh)
<1>0. /\ shown[1] \in Messages /\ shown[1] # None
      /\ Range(page) \in SUBSET Messages /\ Range(shown) \in SUBSET Messages
      /\ Ordered(shown)
  BY Ranges, ViewerAssumption DEF Interval
<1>1. \A m \in Range(shown) : m = shown[1] \/ Older(shown[1], m)
  BY <1>0, FirstIsOldest
<1>2. \A m \in Range(page) : Older(m, shown[1])
  BY <1>0 DEF Interval
<1>3. S = Range(page)
  <2>1. ASSUME NEW m \in Range(page), m \in Range(shown) PROVE FALSE
    BY <1>0, <1>1, <1>2, <2>1, OlderOrders
  <2> QED
    BY <2>1
<1>4. /\ fresh \in Seq(Messages) /\ Ordered(fresh) /\ Range(fresh) = Range(page)
  BY <1>0, <1>3, ListedInOrder
<1> HIDE DEF S, fresh
<1>5. /\ all \in Seq(Messages) /\ Len(all) = k + Len(shown)
      /\ k \in Nat /\ Len(shown) \in Nat
      /\ \A i \in 1..k : all[i] = fresh[i]
      /\ \A i \in 1..Len(all) : i \notin 1..k => i - k \in 1..Len(shown) /\ all[i] = shown[i - k]
      /\ \A i \in 1..Len(shown) : all[i + k] = shown[i] /\ i + k \in 1..Len(all)
  BY <1>4
<1> HIDE DEF all
<1>6. ASSUME NEW i \in 1..Len(all), NEW j \in 1..Len(all), i < j
      PROVE  Older(all[i], all[j])
  <2>1. CASE j \in 1..k
    <3>1. i \in 1..k
      BY <1>5, <1>6, <2>1
    <3>2. Older(fresh[i], fresh[j])
      BY <1>4, <1>6, <2>1, <3>1 DEF Ordered
    <3> QED
      BY <1>5, <2>1, <3>1, <3>2
  <2>2. CASE i \notin 1..k
    <3>1. j \notin 1..k /\ i - k < j - k
      BY <1>5, <1>6, <2>2
    <3> QED
      BY <1>0, <1>5, <2>2, <3>1 DEF Ordered
  <2>3. CASE i \in 1..k /\ j \notin 1..k
    <3>1. all[i] \in Range(page) /\ all[j] \in Range(shown)
      BY <1>4, <1>5, <2>3, Ranges
    <3> QED
      BY <1>0, <1>1, <1>2, <3>1, OlderOrders
  <2> QED
    BY <2>1, <2>2, <2>3
<1>7. Range(all) = Range(page) \cup Range(shown)
  <2>1. ASSUME NEW i \in 1..Len(all) PROVE all[i] \in Range(page) \cup Range(shown)
    BY <1>4, <1>5, Ranges
  <2>2. ASSUME NEW m \in Range(page) PROVE m \in Range(all)
    <3>1. PICK i \in 1..k : m = fresh[i]
      BY <1>4, Ranges
    <3>2. i \in 1..Len(all) /\ all[i] = m
      BY <1>5, <3>1
    <3> QED
      BY <1>5, <3>2, Ranges
  <2>3. ASSUME NEW m \in Range(shown) PROVE m \in Range(all)
    <3>1. PICK i \in 1..Len(shown) : m = shown[i]
      BY Ranges
    <3> QED
      BY <1>5, <3>1, Ranges
  <2>4. Range(all) \subseteq Range(page) \cup Range(shown)
    BY <1>5, <2>1, Ranges
  <2> QED
    BY <2>2, <2>3, <2>4
<1>8. ASSUME NEW m \in Range(all), NEW n \in there, Older(m, n)
      PROVE  n \in Range(all)
  <2>1. CASE m \in Range(shown)
    BY <1>7, <1>8, <2>1 DEF Interval
  <2>2. CASE m \in Range(page)
    <3>1. CASE Older(n, shown[1])
      BY <1>7, <1>8, <2>2, <3>1 DEF Interval
    <3>2. CASE n = shown[1]
      BY <1>0, <1>7, <3>2, FirstIsOldest
    <3>3. CASE Older(shown[1], n)
      BY <1>0, <1>7, <3>3, FirstIsOldest DEF Interval
    <3> QED
      BY <1>0, <3>1, <3>2, <3>3, OlderOrders
  <2> QED
    BY <1>7, <2>1, <2>2
<1>9. \A m \in Range(all) : Chat[m] \in {chat, Alias[chat]}
  BY <1>7 DEF Interval
<1>10. Interval(all, chat, None, there)
  BY <1>6, <1>8, <1>9 DEF Interval, Ordered
<1> QED
  BY <1>5, <1>10 DEF all, fresh, S

-----------------------------------------------------------------------------
(* Types, up to the length of what is shown.                               *)

Views ==
    [view : 1..MaxViews + 2, searching : BOOLEAN, selected : Chats \cup {None},
     total : 0..Cardinality(Messages), messages : Seq(Messages),
     screen : {"intro", "chat"}, list : {"empty", "loading", "messages", "results"},
     older : {"none", "enabled", "loading"}]

Typed ==
    /\ archive \in Archives
    /\ viewer \in Views
    /\ calls \subseteq Calls
    /\ counts \in Counts
    /\ known \subseteq Messages /\ broken \in BOOLEAN
    /\ imports \in 0..MaxImports /\ faults \in 0..MaxFaults

IInv == Typed /\ Numbered /\ Awaiting /\ Fitting /\ Shown

LEMMA Sizes ==
    /\ Cardinality(Messages) \in Nat /\ MaxViews \in Nat /\ FetchLimit \in Nat
    /\ MaxImports \in Nat /\ MaxFaults \in Nat
BY FS_CardinalityType, ViewerAssumption

LEMMA NoChatsType == NoChats \in Counts
<1>1. NoChats \in [{} -> 0..Cardinality(Messages)] /\ {} \in SUBSET Chats
  BY DEF NoChats
<1> QED
  BY <1>1 DEF Counts

LEMMA CountsType ==
    ASSUME NEW list \in Counts
    PROVE  /\ DOMAIN list \in SUBSET Chats
           /\ \A c \in DOMAIN list : list[c] \in 0..Cardinality(Messages)
BY DEF Counts

LEMMA ChatListType ==
    ASSUME archive \in Archives
    PROVE  ChatList \in Counts
<1>1. archive.chats \in SUBSET Chats /\ archive.messages \in SUBSET Messages
  BY ViewerAssumption
<1>2. ASSUME NEW c \in archive.chats
      PROVE  Cardinality({m \in archive.messages : Chat[m] = c}) \in 0..Cardinality(Messages)
  <2> DEFINE own == {m \in archive.messages : Chat[m] = c}
  <2>1. own \in SUBSET Messages
    BY <1>1
  <2> HIDE DEF own
  <2>2. /\ IsFiniteSet(own)
        /\ Cardinality(own) =< Cardinality(Messages)
    BY <2>1, FS_Subset, ViewerAssumption
  <2>3. Cardinality(own) \in Nat
    BY <2>2, FS_CardinalityType
  <2> QED
    BY <2>2, <2>3, Sizes DEF own
<1>3. ChatList \in [archive.chats -> 0..Cardinality(Messages)]
  BY <1>2 DEF ChatList
<1> QED
  BY <1>1, <1>3 DEF Counts

LEMMA EmptyPage == <<>> \in BoundedSeq(Messages, FetchLimit)
<1>1. <<>> \in Seq(Messages) /\ Len(<<>>) = 0
  OBVIOUS
<1>2. Len(<<>>) =< FetchLimit
  BY <1>1, Sizes
<1> QED
  BY <1>1, <1>2, Sizes, BoundedSequences

\* A new request.
LEMMA CallType ==
    ASSUME NEW kind \in {"chats", "open", "older", "search"}, NEW v \in Views,
           NEW cursor \in Messages \cup {None}, NEW refresh \in BOOLEAN
    PROVE  /\ Call(kind, v, cursor, refresh) \in Calls
           /\ Call(kind, v, cursor, refresh).kind = kind
           /\ Call(kind, v, cursor, refresh).view = v.view
           /\ Call(kind, v, cursor, refresh).chat = v.selected
           /\ Call(kind, v, cursor, refresh).cursor = cursor
           /\ Call(kind, v, cursor, refresh).page = <<>>
<1>1. v.view \in 1..MaxViews + 2 /\ v.selected \in Chats \cup {None}
  BY DEF Views
<1> DEFINE call == Call(kind, v, cursor, refresh)
<1>2. /\ call.kind = kind /\ call.view = v.view /\ call.chat = v.selected
      /\ call.cursor = cursor /\ call.page = <<>>
  BY DEF Call
<1>3. call = [kind |-> kind, view |-> v.view, chat |-> v.selected, cursor |-> cursor,
              refresh |-> refresh, status |-> "sent", page |-> <<>>, chats |-> NoChats]
  BY DEF Call
<1> DEFINE Kinds  == {"chats", "open", "older", "search"}
           States == {"sent", "ok", "error"}
           Pages  == BoundedSeq(Messages, FetchLimit)
           Whom   == Chats \cup {None}
           From   == Messages \cup {None}
           Times  == 1..MaxViews + 2
<1>4. /\ kind \in Kinds /\ v.view \in Times /\ v.selected \in Whom /\ cursor \in From
      /\ "sent" \in States /\ <<>> \in Pages /\ NoChats \in Counts
  BY <1>1, EmptyPage, NoChatsType
<1> HIDE DEF call, Kinds, States, Pages, Whom, From, Times
<1>5. call \in [kind : Kinds, view : Times, chat : Whom, cursor : From, refresh : BOOLEAN,
                status : States, page : Pages, chats : Counts]
  BY <1>3, <1>4
<1>6. call \in Calls
  BY <1>5 DEF Calls, Kinds, States, Pages, Whom, From, Times
<1> QED
  BY <1>2, <1>6 DEF call

\* The new views.
LEMMA NewViewType ==
    ASSUME NEW v \in Views, v.view =< MaxViews + 1
    PROVE  /\ NewView(v) \in Views
           /\ NewView(v).view = v.view + 1
           /\ NewView(v).messages = v.messages
           /\ NewView(v).older = "none"
<1>1. v.view + 1 \in 1..MaxViews + 2
  BY Sizes DEF Views
<1> QED
  BY <1>1 DEF NewView, Views

LEMMA OpenedView ==
    ASSUME NEW v \in Views, v.view =< MaxViews + 1, NEW chat \in Chats, NEW list \in Counts
    PROVE  /\ Opened(v, chat, list) \in Views
           /\ Opened(v, chat, list).view = v.view + 1
           /\ Opened(v, chat, list).selected = chat
           /\ Opened(v, chat, list).messages = <<>>
           /\ Opened(v, chat, list).older = "none"
<1> DEFINE total == IF chat \in DOMAIN list THEN list[chat] ELSE 0
           w == NewView(v)
<1>1. total \in 0..Cardinality(Messages)
  BY CountsType, Sizes
<1>2. <<>> \in Seq(Messages)
  OBVIOUS
<1>3. w \in Views /\ w.view = v.view + 1 /\ w.older = "none"
  BY NewViewType
<1>4. Opened(v, chat, list) = [w EXCEPT !.searching = FALSE, !.selected = chat,
                                        !.messages = <<>>, !.total = total]
  BY DEF Opened
<1> HIDE DEF total, w
<1> QED
  BY <1>1, <1>2, <1>3, <1>4 DEF Views

LEMMA SearchingView ==
    ASSUME NEW v \in Views, v.view =< MaxViews + 1
    PROVE  /\ Searching(v) \in Views
           /\ Searching(v).view = v.view + 1
           /\ Searching(v).selected = None
           /\ Searching(v).messages = v.messages
           /\ Searching(v).older = "none"
<1> DEFINE w == NewView(v)
<1>1. /\ w \in Views /\ w.view = v.view + 1 /\ w.older = "none"
      /\ w.messages = v.messages
  BY NewViewType
<1>2. Searching(v) = [w EXCEPT !.searching = TRUE, !.selected = None]
  BY DEF Searching
<1> HIDE DEF w
<1> QED
  BY <1>1, <1>2 DEF Views

\* The list of messages with its button.
LEMMA RenderedView ==
    ASSUME NEW v \in Views
    PROVE  /\ Rendered(v) \in Views
           /\ Rendered(v).view = v.view
           /\ Rendered(v).selected = v.selected
           /\ Rendered(v).messages = v.messages
BY DEF Rendered, Views

\* What the server changes of a request.
Answers(call, status, page, list) ==
    {[call EXCEPT !.status = status],
     [call EXCEPT !.status = status, !.page = page],
     [call EXCEPT !.status = status, !.chats = list]}

LEMMA AnswerType ==
    ASSUME NEW call \in Calls, NEW status \in {"sent", "ok", "error"},
           NEW page \in BoundedSeq(Messages, FetchLimit), NEW list \in Counts,
           NEW answer \in Answers(call, status, page, list)
    PROVE  /\ answer \in Calls
           /\ answer.kind = call.kind /\ answer.view = call.view
           /\ answer.chat = call.chat /\ answer.cursor = call.cursor
           /\ answer.page \in {call.page, page}
<1> DEFINE Kinds  == {"chats", "open", "older", "search"}
           States == {"sent", "ok", "error"}
           Pages  == BoundedSeq(Messages, FetchLimit)
           Whom   == Chats \cup {None}
           From   == Messages \cup {None}
           Times  == 1..MaxViews + 2
           All    == [kind : Kinds, view : Times, chat : Whom, cursor : From,
                      refresh : BOOLEAN, status : States, page : Pages, chats : Counts]
<1>1. Calls = All
  BY DEF Calls
<1>2. status \in States /\ page \in Pages
  OBVIOUS
<1> HIDE DEF Kinds, States, Pages, Whom, From, Times
<1>3. CASE answer = [call EXCEPT !.status = status]
  BY <1>1, <1>2, <1>3
<1>4. CASE answer = [call EXCEPT !.status = status, !.page = page]
  BY <1>1, <1>2, <1>4
<1>5. CASE answer = [call EXCEPT !.status = status, !.chats = list]
  BY <1>1, <1>2, <1>5
<1> QED
  BY <1>3, <1>4, <1>5 DEF Answers

-----------------------------------------------------------------------------
(* Answers.                                                                *)

\* An answer takes the place of its request.
LEMMA AnswerStep ==
    ASSUME IInv, NEW call \in calls, NEW answer \in Calls,
           answer.view = call.view, answer.kind = call.kind,
           answer.chat = call.chat, answer.cursor = call.cursor,
           Awaited(call) /\ call.kind \in {"open", "older"}
             => Interval(answer.page, call.chat, call.cursor, known),
           calls' = (calls \ {call}) \cup {answer}, faults' \in 0..MaxFaults,
           UNCHANGED <<archive, viewer, counts, known, broken, imports>>
    PROVE  IInv'
<1>1. Typed'
  BY DEF IInv, Typed
<1>2. Numbered'
  BY DEF IInv, Numbered
<1>3. \A c \in calls' : c = answer \/ (c \in calls /\ c # call)
  OBVIOUS
<1>4. Awaited(answer)' <=> Awaited(call)
  BY DEF Awaited, Current
<1>5. \A c \in calls : Awaited(c)' <=> Awaited(c)
  BY DEF Awaited, Current
<1>6. Awaiting'
  BY <1>3, <1>4, <1>5 DEF IInv, Awaiting
<1>7. Fitting'
  BY <1>3, <1>4, <1>5 DEF IInv, Fitting
<1>8. Shown'
  BY DEF IInv, Shown, Conversation
<1> QED
  BY <1>1, <1>2, <1>6, <1>7, <1>8 DEF IInv

\* What a request may be answered with.
LEMMA ServedPage ==
    ASSUME IInv, NEW call \in calls
    PROVE  LET page == Page(call.chat, call.cursor)
           IN  /\ page \in BoundedSeq(Messages, FetchLimit)
               /\ Awaited(call) /\ call.kind \in {"open", "older"}
                    => /\ Interval(page, call.chat, call.cursor, known)
                       /\ Interval(call.page, call.chat, call.cursor, known)
<1>1. archive \in Archives /\ call.cursor \in Messages \cup {None}
  BY DEF IInv, Typed, Calls
<1>2. Page(call.chat, call.cursor) \in BoundedSeq(Messages, FetchLimit)
  <2> DEFINE there == {m \in archive.messages : Chat[m] \in Conversation(archive, call.chat)}
  <2>1. \A m \in there : m \in archive.messages /\ Chat[m] \in Conversation(archive, call.chat)
    OBVIOUS
  <2> HIDE DEF there
  <2> QED
    BY <1>1, <2>1, PageIsInterval
<1>3. ASSUME Awaited(call), call.kind \in {"open", "older"}
      PROVE  /\ Interval(Page(call.chat, call.cursor), call.chat, call.cursor, known)
             /\ Interval(call.page, call.chat, call.cursor, known)
  <2>1. /\ call.chat = viewer.selected /\ call.chat # None
        /\ Interval(call.page, call.chat, call.cursor, known)
    BY <1>3 DEF IInv, Fitting
  <2>2. \A m \in known : m \in archive.messages /\ Chat[m] \in Conversation(archive, call.chat)
    BY <2>1 DEF IInv, Shown
  <2>3. Interval(Page(call.chat, call.cursor), call.chat, call.cursor, known)
    BY <1>1, <2>2, PageIsInterval
  <2> QED
    BY <2>1, <2>3
<1> QED
  BY <1>2, <1>3

LEMMA ServeStep ==
    ASSUME IInv, NEW call \in calls, Serve(call) \/ Disturb(call)
    PROVE  IInv'
<1> DEFINE page == Page(call.chat, call.cursor)
<1>1. /\ call \in Calls /\ ChatList \in Counts
      /\ faults \in 0..MaxFaults
  BY ChatListType DEF IInv, Typed
<1>2. /\ page \in BoundedSeq(Messages, FetchLimit)
      /\ Awaited(call) /\ call.kind \in {"open", "older"}
           => /\ Interval(page, call.chat, call.cursor, known)
              /\ Interval(call.page, call.chat, call.cursor, known)
  BY ServedPage
<1>3. \E status \in {"ok", "error"} : \E answer \in Answers(call, status, page, ChatList) :
         /\ calls' = (calls \ {call}) \cup {answer}
         /\ faults' \in 0..MaxFaults
         /\ UNCHANGED <<archive, viewer, counts, known, broken, imports>>
  <2>1. CASE ServeMessages(call)
    <3>1. CASE Acceptable(call)
      BY <1>1, <2>1, <3>1 DEF ServeMessages, Answer, Answers
    <3>2. CASE ~Acceptable(call)
      BY <1>1, <2>1, <3>2 DEF ServeMessages, Answer, Answers
    <3> QED
      BY <3>1, <3>2
  <2>2. CASE ServeChats(call)
    BY <1>1, <2>2 DEF ServeChats, Answer, Answers
  <2>3. CASE ServeSearch(call)
    BY <1>1, <2>3 DEF ServeSearch, Answer, Answers
  <2>4. CASE Disturb(call)
    BY <1>1, <2>4, Sizes DEF Disturb, Answers
  <2> QED
    BY <2>1, <2>2, <2>3, <2>4 DEF Serve
<1> HIDE DEF page
<1>4. PICK status \in {"ok", "error"} : \E answer \in Answers(call, status, page, ChatList) :
         /\ calls' = (calls \ {call}) \cup {answer}
         /\ faults' \in 0..MaxFaults
         /\ UNCHANGED <<archive, viewer, counts, known, broken, imports>>
  BY <1>3
<1>5. PICK answer \in Answers(call, status, page, ChatList) :
         /\ calls' = (calls \ {call}) \cup {answer}
         /\ faults' \in 0..MaxFaults
         /\ UNCHANGED <<archive, viewer, counts, known, broken, imports>>
  BY <1>4
<1>6. /\ answer \in Calls
      /\ answer.kind = call.kind /\ answer.view = call.view
      /\ answer.chat = call.chat /\ answer.cursor = call.cursor
      /\ answer.page \in {call.page, page}
  BY <1>1, <1>2, AnswerType
<1> QED
  BY <1>2, <1>5, <1>6, AnswerStep

-----------------------------------------------------------------------------
(* Imports.                                                                *)

LEMMA ImportStep ==
    ASSUME IInv, Import
    PROVE  IInv'
<1>1. Typed'
  BY Sizes DEF IInv, Typed, Import
<1>2. known' \in SUBSET known
  BY DEF Import
<1>3. /\ Numbered' /\ Awaiting'
  BY DEF Import, IInv, Numbered, Awaiting, Awaited, Current
<1>4. Fitting'
  <2>1. ASSUME NEW call \in calls, Awaited(call), call.kind \in {"open", "older"}
        PROVE  Interval(call.page, call.chat, call.cursor, known')
    BY <1>2, <2>1, FewerThere DEF IInv, Fitting
  <2> QED
    BY <2>1 DEF Import, IInv, Fitting, Awaited, Current
<1>5. Shown'
  <2>1. Ordered(viewer'.messages)
    BY DEF Import, IInv, Shown
  <2>2. ASSUME viewer.selected # None
        PROVE  /\ Interval(viewer.messages, viewer.selected, None, known')
               /\ \A m \in known' : /\ m \in archive'.messages
                                    /\ Chat[m] \in Conversation(archive', viewer.selected)
    BY <1>2, <2>2, FewerThere DEF Import, IInv, Shown
  <2> QED
    BY <2>1, <2>2 DEF Import, Shown
<1> QED
  BY <1>1, <1>3, <1>4, <1>5 DEF IInv

-----------------------------------------------------------------------------
(* New views.                                                              *)

\* All earlier answers are to other views, so the view waits for what it has
\* just asked for, if for anything.
LEMMA ViewsRenew ==
    ASSUME IInv, viewer'.view = viewer.view + 1, NEW new, calls' \subseteq calls \cup {new},
           new.view = viewer'.view, new.page = <<>>, new.kind \in {"chats", "open", "search"},
           new.kind = "chats" => new.view =< MaxViews + 1,
           new.kind # "chats" => viewer'.older = "none",
           new.kind = "open" => /\ new.chat = viewer'.selected /\ new.chat # None
                                /\ new.cursor = None /\ viewer'.messages = <<>>
    PROVE  Numbered' /\ Awaiting' /\ Fitting'
<1>1. \A call \in calls : /\ call.view \in Nat /\ call.view =< viewer.view
                          /\ call.kind = "chats" => call.view =< MaxViews + 1
  BY DEF IInv, Typed, Numbered, Calls
<1>2. viewer.view \in Nat
  BY DEF IInv, Typed, Views
<1>3. ASSUME NEW call \in calls'
      PROVE  \/ call = new
             \/ call \in calls /\ call.view < viewer'.view
  BY <1>1, <1>2
<1>4. ASSUME NEW call \in calls', Awaited(call)'
      PROVE  call = new /\ new.kind # "chats"
  <2>1. call.view = viewer'.view /\ call.kind # "chats"
    BY <1>4 DEF Awaited, Current
  <2> QED
    BY <1>1, <1>2, <1>3, <2>1
<1>5. Numbered'
  BY <1>1, <1>2, <1>3 DEF Numbered
<1>6. Awaiting'
  BY <1>4 DEF Awaiting
<1>7. Fitting'
  BY <1>4, EmptyInterval DEF Fitting
<1> QED
  BY <1>5, <1>6, <1>7

\* The history starts with what the conversation holds.
LEMMA AskedShows ==
    ASSUME archive \in Archives, archive' = archive, Asked(viewer'),
           Ordered(viewer'.messages), viewer'.selected # None => viewer'.messages = <<>>
    PROVE  Shown' /\ known' \subseteq Messages /\ broken' \in BOOLEAN
<1>1. known' \subseteq Messages /\ broken' \in BOOLEAN
  BY ViewerAssumption DEF Asked
<1>2. ASSUME viewer'.selected # None
      PROVE  /\ Interval(viewer'.messages, viewer'.selected, None, known')
             /\ \A m \in known' : /\ m \in archive'.messages
                                  /\ Chat[m] \in Conversation(archive', viewer'.selected)
  BY <1>2, EmptyInterval DEF Asked
<1> QED
  BY <1>1, <1>2 DEF Shown

LEMMA SelectChatStep ==
    ASSUME IInv, SelectChat
    PROVE  IInv'
<1>0. /\ viewer \in Views /\ counts \in Counts /\ archive \in Archives
      /\ viewer.view \in Nat /\ viewer.view =< MaxViews + 1
  BY Sizes DEF IInv, Typed, SelectChat, Views
<1>1. PICK chat \in Chats :
         /\ viewer' = Opened(viewer, chat, counts)
         /\ calls' = calls \cup {Call("open", viewer', None, FALSE)}
  BY <1>0, CountsType DEF SelectChat
<1>2. /\ viewer' \in Views /\ viewer'.view = viewer.view + 1 /\ viewer'.selected = chat
      /\ viewer'.messages = <<>> /\ viewer'.older = "none"
  BY <1>0, <1>1, OpenedView
<1>3. chat # None
  BY ViewerAssumption
<1>f. PICK refresh \in BOOLEAN : refresh = FALSE
  OBVIOUS
<1> DEFINE new == Call("open", viewer', None, refresh)
<1>4. /\ new \in Calls /\ new.kind = "open" /\ new.view = viewer'.view /\ new.chat = chat
      /\ new.cursor = None /\ new.page = <<>>
  BY <1>2, CallType
<1>n. calls' = calls \cup {new}
  BY <1>1, <1>f DEF new
<1> HIDE DEF new
<1>5. Numbered' /\ Awaiting' /\ Fitting'
  BY <1>n, <1>1, <1>2, <1>3, <1>4, ViewsRenew
<1>6. Ordered(viewer'.messages)
  BY <1>2 DEF Ordered
<1>7. Shown' /\ known' \subseteq Messages /\ broken' \in BOOLEAN
  BY <1>0, <1>2, <1>6, AskedShows DEF SelectChat
<1>8. Typed'
  BY <1>n, <1>2, <1>4, <1>7 DEF IInv, Typed, SelectChat
<1> QED
  BY <1>5, <1>7, <1>8 DEF IInv

LEMMA SearchStep ==
    ASSUME IInv, Search
    PROVE  IInv'
<1>0. /\ viewer \in Views /\ archive \in Archives
      /\ viewer.view \in Nat /\ viewer.view =< MaxViews + 1
  BY Sizes DEF IInv, Typed, Search, Views
<1>1. /\ viewer' = Searching(viewer)
      /\ calls' = calls \cup {Call("search", viewer', None, FALSE)}
  BY DEF Search
<1>2. /\ viewer' \in Views /\ viewer'.view = viewer.view + 1 /\ viewer'.selected = None
      /\ viewer'.messages = viewer.messages /\ viewer'.older = "none"
  BY <1>0, <1>1, SearchingView
<1>f. PICK refresh \in BOOLEAN : refresh = FALSE
  OBVIOUS
<1> DEFINE new == Call("search", viewer', None, refresh)
<1>4. /\ new \in Calls /\ new.kind = "search" /\ new.view = viewer'.view /\ new.page = <<>>
  BY <1>2, CallType
<1>n. calls' = calls \cup {new}
  BY <1>1, <1>f DEF new
<1> HIDE DEF new
<1>5. Numbered' /\ Awaiting' /\ Fitting'
  BY <1>n, <1>1, <1>2, <1>4, ViewsRenew
<1>6. Ordered(viewer'.messages)
  BY <1>2 DEF IInv, Shown
<1>7. Shown' /\ known' \subseteq Messages /\ broken' \in BOOLEAN
  BY <1>0, <1>2, <1>6, AskedShows DEF Search
<1>8. Typed'
  BY <1>n, <1>2, <1>4, <1>7 DEF IInv, Typed, Search
<1> QED
  BY <1>5, <1>7, <1>8 DEF IInv

\* A view that asks for nothing waits for nothing.
LEMMA BackStep ==
    ASSUME IInv, Back
    PROVE  IInv'
<1>0. /\ viewer \in Views /\ archive \in Archives
      /\ viewer.view \in Nat /\ viewer.view =< MaxViews
  BY Sizes DEF IInv, Typed, Back, Views
<1>1. viewer' \in Views
  <2>1. viewer.view + 1 \in 1..MaxViews + 2
    BY <1>0, Sizes
  <2> QED
    BY <1>0, <2>1 DEF Back, Views
<1>2. /\ viewer'.view = viewer.view + 1 /\ viewer'.selected = None
      /\ viewer'.messages = viewer.messages
  BY <1>0 DEF Back, Views
<1>3. \A call \in calls : call.view \in Nat /\ call.view =< viewer.view
  BY DEF IInv, Typed, Numbered, Calls
<1>4. \A call \in calls' : call \in calls /\ call.view < viewer'.view
  BY <1>0, <1>2, <1>3 DEF Back
<1>5. \A call \in calls' : ~Awaited(call)'
  BY <1>0, <1>2, <1>3, <1>4 DEF Awaited, Current
<1>6. Numbered'
  BY <1>0, <1>2, <1>3, <1>4 DEF IInv, Numbered
<1>7. Awaiting' /\ Fitting'
  BY <1>5 DEF Awaiting, Fitting
<1>8. Ordered(viewer'.messages)
  BY <1>2 DEF IInv, Shown
<1>9. Shown' /\ known' \subseteq Messages /\ broken' \in BOOLEAN
  BY <1>0, <1>2, <1>8, AskedShows DEF Back
<1>10. Typed'
  BY <1>1, <1>9 DEF IInv, Typed, Back
<1> QED
  BY <1>6, <1>7, <1>9, <1>10 DEF IInv

\* A refresh keeps what is shown.
LEMMA RefreshStep ==
    ASSUME IInv, Refresh
    PROVE  IInv'
<1>0. /\ viewer \in Views /\ viewer.view \in Nat /\ viewer.view =< MaxViews
  BY Sizes DEF IInv, Typed, Refresh, Views
<1>1. viewer' \in Views
  <2>1. viewer.view + 1 \in 1..MaxViews + 2
    BY <1>0, Sizes
  <2> QED
    BY <1>0, <2>1 DEF Refresh, Views
<1>2. /\ viewer'.view = viewer.view + 1 /\ viewer'.selected = viewer.selected
      /\ viewer'.messages = viewer.messages
  BY <1>0 DEF Refresh, Views
<1>f. PICK refresh \in BOOLEAN : refresh = TRUE
  OBVIOUS
<1> DEFINE new == Call("chats", viewer', None, refresh)
<1>3. /\ new \in Calls /\ new.kind = "chats" /\ new.view = viewer'.view /\ new.page = <<>>
  BY <1>1, CallType
<1>4. calls' = calls \cup {new}
  BY <1>f DEF Refresh
<1> HIDE DEF new
<1>5. new.view =< MaxViews + 1
  BY <1>0, <1>2, <1>3, Sizes
<1>6. Numbered' /\ Awaiting' /\ Fitting'
  BY <1>2, <1>3, <1>4, <1>5, ViewsRenew
<1>7. Shown'
  BY <1>2 DEF IInv, Shown, Refresh, Conversation
<1>8. broken' \in BOOLEAN
  BY DEF Refresh
<1>9. Typed'
  BY <1>1, <1>3, <1>4, <1>8 DEF IInv, Typed, Refresh
<1> QED
  BY <1>6, <1>7, <1>9 DEF IInv

-----------------------------------------------------------------------------
(* The same view.                                                          *)

\* Nothing is shown and nothing is asked for.
LEMMA SameViewStep ==
    ASSUME IInv, calls' \subseteq calls, viewer' \in Views, counts' \in Counts,
           broken' \in BOOLEAN,
           viewer'.view = viewer.view, viewer'.selected = viewer.selected,
           viewer'.messages = viewer.messages, viewer'.older = viewer.older,
           UNCHANGED <<archive, known, imports, faults>>
    PROVE  IInv'
<1>1. Typed'
  BY DEF IInv, Typed
<1>2. Numbered'
  BY DEF IInv, Numbered
<1>3. \A c \in calls' : c \in calls /\ (Awaited(c)' <=> Awaited(c))
  BY DEF Awaited, Current
<1>4. Awaiting' /\ Fitting'
  BY <1>3 DEF IInv, Awaiting, Fitting
<1>5. Shown'
  BY DEF IInv, Shown, Conversation
<1> QED
  BY <1>1, <1>2, <1>4, <1>5 DEF IInv

LEMMA ClearSearchStep ==
    ASSUME IInv, ClearSearch
    PROVE  IInv'
<1>1. viewer \in Views /\ counts \in Counts /\ broken \in BOOLEAN
  BY DEF IInv, Typed
<1>2. /\ viewer' \in Views
      /\ viewer'.view = viewer.view /\ viewer'.selected = viewer.selected
      /\ viewer'.messages = viewer.messages /\ viewer'.older = viewer.older
  BY <1>1 DEF ClearSearch, Views
<1> QED
  BY <1>1, <1>2, SameViewStep DEF ClearSearch

\* The button can be pressed when no answer is awaited.
LEMMA LoadOlderStep ==
    ASSUME IInv, LoadOlder
    PROVE  IInv'
<1>1. viewer \in Views
  BY DEF IInv, Typed
<1>2. /\ viewer' \in Views /\ viewer'.older = "loading"
      /\ viewer'.view = viewer.view /\ viewer'.selected = viewer.selected
      /\ viewer'.messages = viewer.messages
  BY <1>1 DEF LoadOlder, Views
<1>3. /\ viewer.messages # <<>> /\ viewer.messages[1] \in Messages
      /\ viewer.selected # None
  BY <1>1 DEF LoadOlder, Views
<1>f. PICK refresh \in BOOLEAN : refresh = FALSE
  OBVIOUS
<1> DEFINE new == Call("older", viewer, viewer.messages[1], refresh)
<1>4. /\ new \in Calls /\ new.kind = "older" /\ new.view = viewer.view
      /\ new.chat = viewer.selected /\ new.cursor = viewer.messages[1] /\ new.page = <<>>
  BY <1>1, <1>3, CallType
<1>5. calls' = calls \cup {new}
  BY <1>f DEF LoadOlder
<1> HIDE DEF new
<1>6. \A call \in calls : ~Awaited(call)
  BY DEF IInv, Awaiting, LoadOlder
<1>7. \A call \in calls' : call = new \/ (call \in calls /\ ~Awaited(call)')
  BY <1>2, <1>5, <1>6 DEF Awaited, Current
<1>8. viewer'.view \in Nat
  BY <1>2 DEF Views
<1>9. Numbered'
  BY <1>2, <1>4, <1>5, <1>8 DEF IInv, Numbered
<1>10. Awaiting'
  BY <1>2, <1>7 DEF Awaiting
<1>11. Fitting'
  BY <1>2, <1>3, <1>4, <1>7, EmptyInterval DEF Fitting
<1>12. Shown'
  BY <1>2 DEF IInv, Shown, LoadOlder, Conversation
<1>13. Typed'
  BY <1>2, <1>4, <1>5 DEF IInv, Typed, LoadOlder
<1> QED
  BY <1>9, <1>10, <1>11, <1>12, <1>13 DEF IInv

\* The list of chats after a refresh: the chat is opened again, or the search
\* is made again, or the view is as it was.
LEMMA ReloadStep ==
    ASSUME IInv, NEW call \in calls, call.kind = "chats", Current(call), Reload(call),
           UNCHANGED <<archive, imports, faults>>
    PROVE  IInv'
<1>0. /\ viewer \in Views /\ call \in Calls /\ call.chats \in Counts
      /\ counts' = call.chats /\ archive \in Archives /\ broken \in BOOLEAN
      /\ viewer.view \in Nat /\ viewer.view =< MaxViews + 1
  BY DEF IInv, Typed, Numbered, Current, Calls, Views, Reload
<1>1. CASE viewer'.view = viewer.view
  <2>1. viewer' \in {viewer, [viewer EXCEPT !.screen = "intro"]}
    <3>1. Searching(viewer).view # viewer.view
      BY <1>0, SearchingView
    <3>2. ASSUME viewer.selected # None
          PROVE  Opened(viewer, viewer.selected, call.chats).view # viewer.view
      <4>1. viewer.selected \in Chats
        BY <1>0, <3>2 DEF Views
      <4> QED
        BY <1>0, <4>1, OpenedView
    <3> QED
      BY <1>1, <3>1, <3>2 DEF Reload
  <2>2. /\ viewer' \in Views
        /\ viewer'.selected = viewer.selected
        /\ viewer'.messages = viewer.messages /\ viewer'.older = viewer.older
    BY <1>0, <2>1 DEF Views
  <2>3. calls' \subseteq calls /\ UNCHANGED <<known, broken>>
    BY <1>1 DEF Reload
  <2> QED
    BY <1>0, <1>1, <2>2, <2>3, SameViewStep
<1>2. CASE viewer'.view # viewer.view
  <2>f. PICK refresh \in BOOLEAN : refresh = TRUE
    OBVIOUS
  <2> DEFINE kind == IF viewer.searching THEN "search" ELSE "open"
             new  == Call(kind, viewer', None, refresh)
  <2>1. /\ viewer' \in Views /\ viewer'.view = viewer.view + 1 /\ viewer'.older = "none"
        /\ \/ kind = "search" /\ viewer'.selected = None
              /\ viewer'.messages = viewer.messages
           \/ kind = "open" /\ viewer'.selected # None /\ viewer'.messages = <<>>
    <3>1. CASE viewer.searching
      <4>1. viewer' = Searching(viewer)
        BY <1>2, <3>1 DEF Reload
      <4> QED
        BY <1>0, <3>1, <4>1, SearchingView
    <3>2. CASE ~viewer.searching
      <4>1. /\ viewer.selected # None
            /\ viewer' = Opened(viewer, viewer.selected, call.chats)
        <5>1. [viewer EXCEPT !.screen = "intro"].view = viewer.view
          BY <1>0 DEF Views
        <5> QED
          BY <1>2, <3>2, <5>1 DEF Reload
      <4>2. viewer.selected \in Chats
        BY <1>0, <4>1 DEF Views
      <4> QED
        BY <1>0, <3>2, <4>1, <4>2, OpenedView
    <3> QED
      BY <3>1, <3>2
  <2>2. /\ calls' = (calls \ {call}) \cup {new} /\ Asked(viewer')
    BY <1>2, <2>f DEF Reload
  <2>3. kind \in {"search", "open"}
    OBVIOUS
  <2> HIDE DEF kind
  <2>4. /\ new \in Calls /\ new.kind = kind /\ new.view = viewer'.view
        /\ new.chat = viewer'.selected /\ new.cursor = None /\ new.page = <<>>
    BY <2>1, <2>3, CallType
  <2> HIDE DEF new
  <2>5. Numbered' /\ Awaiting' /\ Fitting'
    <3>1. calls' \subseteq calls \cup {new}
      BY <2>2
    <3> QED
      BY <2>1, <2>3, <2>4, <3>1, ViewsRenew
  <2>6. Ordered(viewer'.messages)
    BY <2>1, EmptyInterval DEF IInv, Shown, Interval
  <2>7. Shown' /\ known' \subseteq Messages /\ broken' \in BOOLEAN
    BY <1>0, <2>1, <2>2, <2>6, AskedShows
  <2>8. Typed'
    BY <1>0, <2>1, <2>2, <2>4, <2>7 DEF IInv, Typed
  <2> QED
    BY <2>5, <2>7, <2>8 DEF IInv
<1> QED
  BY <1>1, <1>2

\* The answer that the view waits for is shown.
LEMMA AnsweredShows ==
    ASSUME IInv, NEW call \in calls, Awaited(call)
    PROVE  /\ Answered(call) \in Views
           /\ Answered(call).view = viewer.view
           /\ Answered(call).selected = viewer.selected
           /\ Ordered(Answered(call).messages)
           /\ viewer.selected # None
                => Interval(Answered(call).messages, viewer.selected, None, known)
<1> DEFINE fresh == Fresh(call)
           shown == viewer.messages
<1>0. /\ viewer \in Views /\ shown \in Seq(Messages) /\ known \in SUBSET Messages
      /\ call \in Calls /\ call.kind \in {"open", "older", "search"}
      /\ call.page \in Seq(Messages) /\ Ordered(shown)
  <2>1. call \in Calls
    BY DEF IInv, Typed
  <2>2. call.page \in BoundedSeq(Messages, FetchLimit)
    BY <2>1 DEF Calls
  <2>3. call.page \in Seq(Messages)
    BY <2>2, Sizes, PagesAreSequences
  <2>4. call.kind \in {"open", "older", "search"}
    BY <2>1 DEF Calls, Awaited
  <2> QED
    BY <2>1, <2>3, <2>4 DEF IInv, Typed, Shown, Views
<1>1. ASSUME NEW list \in Seq(Messages), Ordered(list),
             Answered(call) = Rendered([viewer EXCEPT !.messages = list]),
             viewer.selected # None => Interval(list, viewer.selected, None, known)
      PROVE  /\ Answered(call) \in Views
             /\ Answered(call).view = viewer.view
             /\ Answered(call).selected = viewer.selected
             /\ Answered(call).messages = list
  <2> DEFINE w == [viewer EXCEPT !.messages = list]
  <2>1. /\ w \in Views /\ w.view = viewer.view /\ w.selected = viewer.selected
        /\ w.messages = list
    BY <1>0 DEF Views
  <2> HIDE DEF w
  <2>2. Answered(call) = Rendered(w)
    BY <1>1 DEF w
  <2> QED
    BY <2>1, <2>2, RenderedView
<1>2. CASE call.kind = "open"
  <2> DEFINE list == IF call.status = "ok" THEN call.page ELSE <<>>
  <2>1. /\ call.chat = viewer.selected /\ call.cursor = None
        /\ Interval(call.page, call.chat, None, known)
    BY <1>2 DEF IInv, Fitting
  <2>2. /\ list \in Seq(Messages) /\ Interval(list, viewer.selected, None, known)
    BY <1>0, <2>1, EmptyInterval
  <2>3. Answered(call) = Rendered([viewer EXCEPT !.messages = list])
    BY <1>2 DEF Answered
  <2> HIDE DEF list
  <2>4. Ordered(list)
    BY <2>2 DEF Interval
  <2> QED
    BY <1>1, <2>2, <2>3, <2>4
<1>3. CASE call.kind = "older"
  <2>1. /\ call.chat = viewer.selected /\ viewer.selected # None
        /\ shown # <<>> /\ call.cursor = shown[1]
        /\ Interval(call.page, viewer.selected, shown[1], known)
    BY <1>3 DEF IInv, Fitting
  <2>2. Interval(shown, viewer.selected, None, known)
    BY <2>1 DEF IInv, Shown
  <2>3. CASE call.status = "ok" /\ fresh = <<>>
    <3>1. Answered(call) = [viewer EXCEPT !.older = "none"]
      BY <1>3, <2>3 DEF Answered
    <3>2. /\ Answered(call) \in Views
          /\ Answered(call).view = viewer.view
          /\ Answered(call).selected = viewer.selected
          /\ Answered(call).messages = shown
      BY <1>0, <3>1 DEF Views
    <3> QED
      BY <1>0, <2>2, <3>2
  <2>4. CASE call.status = "ok" /\ fresh # <<>>
    <3>1. /\ fresh \o shown \in Seq(Messages)
          /\ Interval(fresh \o shown, viewer.selected, None, known)
      BY <1>0, <2>1, <2>2, PagesJoin DEF Fresh
    <3>2. Answered(call) = Rendered([viewer EXCEPT !.messages = fresh \o shown])
      BY <1>3, <2>4 DEF Answered
    <3>3. Ordered(fresh \o shown)
      BY <3>1 DEF Interval
    <3> HIDE DEF fresh
    <3> QED
      BY <1>1, <3>1, <3>2, <3>3
  <2>5. CASE call.status # "ok"
    <3>1. Answered(call) = Rendered([viewer EXCEPT !.messages = shown])
      BY <1>3, <2>5 DEF Answered
    <3> HIDE DEF shown
    <3> QED
      BY <1>0, <1>1, <2>2, <3>1
  <2> QED
    BY <2>3, <2>4, <2>5
<1>4. CASE call.kind = "search"
  <2>1. Answered(call) = [viewer EXCEPT !.list = "results", !.older = "none"]
    BY <1>4 DEF Answered
  <2>2. /\ Answered(call) \in Views
        /\ Answered(call).view = viewer.view
        /\ Answered(call).selected = viewer.selected
        /\ Answered(call).messages = shown
    BY <1>0, <2>1 DEF Views
  <2> QED
    BY <1>0, <2>2 DEF IInv, Shown
<1> QED
  BY <1>0, <1>2, <1>3, <1>4

\* After its answer the view waits for nothing.
LEMMA AwaitedStep ==
    ASSUME IInv, NEW call \in calls, Awaited(call),
           viewer' = Answered(call), calls' = calls \ {call}, broken' \in BOOLEAN,
           UNCHANGED <<archive, counts, known, imports, faults>>
    PROVE  IInv'
<1>1. /\ viewer' \in Views
      /\ viewer'.view = viewer.view /\ viewer'.selected = viewer.selected
      /\ Ordered(viewer'.messages)
      /\ viewer.selected # None
           => Interval(viewer'.messages, viewer.selected, None, known)
  BY AnsweredShows
<1>2. \A c \in calls' : c \in calls /\ ~Awaited(c)'
  BY <1>1 DEF IInv, Awaiting, Awaited, Current
<1>3. Typed'
  BY <1>1 DEF IInv, Typed
<1>4. Numbered'
  BY <1>1 DEF IInv, Numbered
<1>5. Awaiting' /\ Fitting'
  BY <1>2 DEF Awaiting, Fitting
<1>6. Shown'
  BY <1>1 DEF IInv, Shown, Conversation
<1> QED
  BY <1>3, <1>4, <1>5, <1>6 DEF IInv

LEMMA ReceiveStep ==
    ASSUME IInv, NEW call \in calls, Receive(call)
    PROVE  IInv'
<1>0. viewer \in Views /\ counts \in Counts /\ broken \in BOOLEAN
  BY DEF IInv, Typed
<1>1. CASE Current(call) /\ call.kind = "chats" /\ call.status = "ok"
  BY <1>1, ReloadStep DEF Receive
<1>2. CASE Awaited(call)
  <2>1. /\ viewer' = Answered(call) /\ calls' = calls \ {call} /\ broken' \in BOOLEAN
        /\ UNCHANGED <<archive, counts, known, imports, faults>>
    BY <1>2 DEF Receive, Awaited
  <2> QED
    BY <1>2, <2>1, AwaitedStep
<1>3. CASE ~Awaited(call) /\ ~(Current(call) /\ call.kind = "chats" /\ call.status = "ok")
  <2>1. /\ viewer' = viewer /\ calls' \subseteq calls /\ broken' \in BOOLEAN
        /\ UNCHANGED <<archive, counts, known, imports, faults>>
    BY <1>3 DEF Receive, Awaited
  <2> QED
    BY <1>0, <2>1, SameViewStep
<1> QED
  BY <1>1, <1>2, <1>3

-----------------------------------------------------------------------------
(* The page is opened.                                                     *)

First ==
    /\ viewer = FirstView /\ calls = FirstCalls /\ counts = NoChats
    /\ known = {} /\ broken = FALSE
    /\ archive \in Archives /\ imports \in 0..MaxImports /\ faults \in 0..MaxFaults

LEMMA FirstInv == First => IInv
<1> SUFFICES ASSUME First PROVE IInv
  OBVIOUS
<1>0. /\ viewer = FirstView /\ calls = FirstCalls /\ counts = NoChats
      /\ known = {} /\ broken = FALSE
      /\ archive \in Archives /\ imports \in 0..MaxImports /\ faults \in 0..MaxFaults
  BY DEF First
<1>1. /\ 1 \in 1..MaxViews + 2 /\ 0 \in 0..Cardinality(Messages)
      /\ <<>> \in Seq(Messages) /\ 1 =< MaxViews + 1
  BY Sizes
<1>2. viewer \in Views
  BY <1>0, <1>1 DEF FirstView, Views
<1>3. viewer.view = 1 /\ viewer.selected = None /\ viewer.messages = <<>> /\ viewer.older = "none"
  BY <1>0 DEF FirstView
<1>f. PICK refresh \in BOOLEAN : refresh = TRUE
  OBVIOUS
<1> DEFINE new == Call("chats", viewer, None, refresh)
<1>4. /\ new \in Calls /\ new.kind = "chats" /\ new.view = 1
  BY <1>2, <1>3, CallType
<1>5. calls = {new}
  BY <1>0, <1>f DEF FirstCalls
<1> HIDE DEF new
<1>6. \A call \in calls : call = new /\ ~Awaited(call)
  BY <1>4, <1>5 DEF Awaited
<1>7. Typed
  BY <1>0, <1>2, <1>4, <1>5, NoChatsType DEF Typed
<1>8. Numbered
  BY <1>1, <1>3, <1>4, <1>6 DEF Numbered
<1>9. Awaiting /\ Fitting
  BY <1>6 DEF Awaiting, Fitting
<1>10. Ordered(viewer.messages)
  BY <1>3, EmptyInterval DEF Interval
<1>11. Shown
  BY <1>0, <1>3, <1>10 DEF Shown
<1> QED
  BY <1>7, <1>8, <1>9, <1>11 DEF IInv

LEMMA Initial ==
    ASSUME Init
    PROVE  IInv
BY FirstInv, Sizes DEF Init, First

LEMMA OpenPageStep ==
    ASSUME IInv, OpenPage
    PROVE  IInv'
<1>1. First'
  BY DEF IInv, Typed, OpenPage, First
<1>2. (First => IInv)'
  BY FirstInv, PTL
<1> QED
  BY <1>1, <1>2

LEMMA Stutter ==
    ASSUME IInv, UNCHANGED vars
    PROVE  IInv'
BY SameViewStep DEF IInv, Typed, vars

LEMMA Invariance == Spec => []IInv
<1>1. Init => IInv
  BY Initial
<1>2. IInv /\ [Next]_vars => IInv'
  <2> SUFFICES ASSUME IInv, [Next]_vars
               PROVE  IInv'
    OBVIOUS
  <2>1. CASE Import
    BY <2>1, ImportStep
  <2>2. CASE OpenPage
    BY <2>2, OpenPageStep
  <2>3. CASE \E call \in calls : Serve(call) \/ Disturb(call) \/ Receive(call)
    BY <2>3, ServeStep, ReceiveStep
  <2>4. CASE SelectChat
    BY <2>4, SelectChatStep
  <2>5. CASE Search
    BY <2>5, SearchStep
  <2>6. CASE ClearSearch
    BY <2>6, ClearSearchStep
  <2>7. CASE Back
    BY <2>7, BackStep
  <2>8. CASE Refresh
    BY <2>8, RefreshStep
  <2>9. CASE LoadOlder
    BY <2>9, LoadOlderStep
  <2>10. CASE UNCHANGED vars
    BY <2>10, Stutter
  <2> QED
    BY <2>1, <2>2, <2>3, <2>4, <2>5, <2>6, <2>7, <2>8, <2>9, <2>10 DEF Next
<1> QED
  BY <1>1, <1>2, PTL DEF Spec

-----------------------------------------------------------------------------
(* Where a conversation ends.                                              *)

\* An empty page says that there is nothing before its cursor.
Exhausted ==
    \A call \in calls :
        Awaited(call) /\ call.kind \in {"open", "older"} /\ call.status = "ok"
                      /\ call.page = <<>>
        => \A m \in known : ~Before(m, call.cursor)

AllShown(v, there) == \/ {m \in there : Dated(m)} \subseteq Range(v.messages)
                      \/ Len(v.messages) >= v.total

Ended(v, there) ==
    v.selected # None /\ v.list = "messages" =>
        /\ v.older = "none" => AllShown(v, there)
        /\ v.messages = <<>> => there = {}

\* The button is gone only at the end of the conversation, and an empty list is
\* that of an empty conversation.
Finished == ~broken => Ended(viewer, known)

\* The first view is that of the list of chats.
Starting == viewer.view = 1 => viewer.selected = None /\ viewer.messages = <<>>

EndInv == Exhausted /\ Finished /\ Starting

\* There is a newest message of those a page is taken from.
LEMMA EmptyPages ==
    ASSUME archive \in Archives, NEW chat, NEW cursor, Page(chat, cursor) = <<>>,
           NEW m \in archive.messages, Chat[m] \in Conversation(archive, chat)
    PROVE  ~Before(m, cursor)
<1> SUFFICES ASSUME Before(m, cursor) PROVE FALSE
  OBVIOUS
<1> DEFINE matching == {n \in archive.messages : Chat[n] \in Conversation(archive, chat)
                                                  /\ Before(n, cursor)}
           newest == {n \in matching : Cardinality(Later(matching, n)) < FetchLimit}
<1>1. /\ archive.messages \in SUBSET Messages /\ FetchLimit \in Nat \ {0}
  BY ViewerAssumption
<1>2. m \in matching /\ matching \in SUBSET Messages /\ newest \in SUBSET Messages
  BY <1>1
<1>3. Page(chat, cursor) = Listed(newest)
  BY DEF Page, Later
<1> HIDE DEF matching
<1>4. IsFiniteSet(matching) /\ Cardinality(matching) \in Nat
  BY <1>2, FS_Subset, FS_CardinalityType, ViewerAssumption
<1>5. Cardinality(Earlier(matching, m)) < Cardinality(matching)
      /\ Cardinality(Earlier(matching, m)) \in Nat
  BY <1>2, RanksAreNumbers
<1>6. Cardinality(matching) \in 1..Cardinality(matching)
  BY <1>4, <1>5
<1>7. PICK n \in matching : Cardinality(Earlier(matching, n)) = Cardinality(matching) - 1
  BY <1>2, <1>6, EveryRankIsTaken
<1>8. Later(matching, n) = {}
  <2>1. ASSUME NEW k \in Later(matching, n) PROVE FALSE
    <3>1. k \in matching /\ Older(n, k)
      BY DEF Later
    <3>2. Cardinality(Earlier(matching, n)) < Cardinality(Earlier(matching, k))
      BY <1>2, <3>1, RanksGrow
    <3>3. /\ Cardinality(Earlier(matching, k)) < Cardinality(matching)
          /\ Cardinality(Earlier(matching, k)) \in Nat
      BY <1>2, <3>1, RanksAreNumbers
    <3> QED
      BY <1>4, <1>7, <3>2, <3>3
  <2> QED
    BY <2>1
<1>9. Cardinality(Later(matching, n)) < FetchLimit
  BY <1>1, <1>8, FS_EmptySet
<1>10. n \in newest
  BY <1>9
<1> HIDE DEF newest
<1>11. Range(Listed(newest)) = newest
  BY <1>2, ListedInOrder
<1>12. Range(<<>>) = {}
  BY DEF Range
<1> QED
  BY <1>3, <1>10, <1>11, <1>12

\* Nothing is answered.
LEMMA Unanswered ==
    ASSUME IInv, EndInv, \A call \in calls' : call \in calls \/ call.status = "sent",
           \/ viewer'.view = viewer.view /\ known' \subseteq known
           \/ viewer'.view = viewer.view + 1
    PROVE  Exhausted'
<1> SUFFICES ASSUME NEW call \in calls', Awaited(call)', call.kind \in {"open", "older"},
                    call.status = "ok", call.page = <<>>, NEW m \in known'
             PROVE  ~Before(m, call.cursor)
  BY DEF Exhausted, Before, Older, Dated
<1>1. call \in calls /\ call.view = viewer'.view
  BY DEF Awaited, Current
<1>2. call.view =< viewer.view /\ viewer.view \in Nat
  BY <1>1 DEF IInv, Typed, Numbered, Views
<1>3. viewer'.view = viewer.view /\ m \in known
  BY <1>1, <1>2
<1>4. Awaited(call)
  BY <1>1, <1>3 DEF Awaited, Current
<1> QED
  BY <1>1, <1>3, <1>4 DEF EndInv, Exhausted

\* An answer of the server to a request for messages.
LEMMA ServedFields ==
    ASSUME NEW call \in Calls, NEW page \in BoundedSeq(Messages, FetchLimit)
    PROVE  /\ [call EXCEPT !.status = "ok", !.page = page].page = page
           /\ [call EXCEPT !.status = "error"].status = "error"
<1> DEFINE Kinds  == {"chats", "open", "older", "search"}
           States == {"sent", "ok", "error"}
           Pages  == BoundedSeq(Messages, FetchLimit)
           Whom   == Chats \cup {None}
           From   == Messages \cup {None}
           Times  == 1..MaxViews + 2
           All    == [kind : Kinds, view : Times, chat : Whom, cursor : From,
                      refresh : BOOLEAN, status : States, page : Pages, chats : Counts]
<1>1. call \in All
  BY DEF Calls
<1> HIDE DEF Kinds, States, Pages, Whom, From, Times
<1> QED
  BY <1>1

LEMMA ServeEnds ==
    ASSUME IInv, EndInv, NEW call \in calls, Serve(call) \/ Disturb(call)
    PROVE  EndInv'
<1> DEFINE page == Page(call.chat, call.cursor)
<1>0. /\ call \in Calls /\ page \in BoundedSeq(Messages, FetchLimit)
      /\ ChatList \in Counts /\ archive \in Archives
  BY ServedPage, ChatListType DEF IInv, Typed
<1>1. UNCHANGED <<archive, viewer, known, broken>>
  BY DEF Serve, ServeMessages, ServeChats, ServeSearch, Answer, Disturb
<1>2. Finished' /\ Starting'
  BY <1>1 DEF EndInv, Finished, Ended, AllShown, Starting, Dated
<1> SUFFICES Exhausted'
  BY <1>2 DEF EndInv
<1>3. ASSUME NEW status \in {"ok", "error"},
             NEW answer \in Answers(call, status, page, ChatList),
             calls' = (calls \ {call}) \cup {answer},
             Awaited(call) /\ call.kind \in {"open", "older"}
                => answer.status = "error" \/ answer.page = page
      PROVE  Exhausted'
  <2>1. answer.kind = call.kind /\ answer.view = call.view /\ answer.cursor = call.cursor
    BY <1>0, AnswerType
  <2>2. ASSUME NEW c \in calls', Awaited(c)', c.kind \in {"open", "older"},
               c.status = "ok", c.page = <<>>, NEW m \in known
        PROVE  ~Before(m, c.cursor)
    <3>1. CASE c \in calls
      <4>1. Awaited(c)
        BY <1>1, <2>2 DEF Awaited, Current
      <4> QED
        BY <2>2, <3>1, <4>1 DEF EndInv, Exhausted
    <3>2. CASE c = answer
      <4>1. Awaited(call) /\ call.kind \in {"open", "older"}
        BY <1>1, <2>1, <2>2, <3>2 DEF Awaited, Current
      <4>2. page = <<>>
        BY <1>3, <2>2, <3>2, <4>1
      <4>3. call.chat = viewer.selected /\ viewer.selected # None
        BY <4>1 DEF IInv, Fitting
      <4>4. m \in archive.messages /\ Chat[m] \in Conversation(archive, call.chat)
        BY <2>2, <4>3 DEF IInv, Shown
      <4>5. ~Before(m, call.cursor)
        BY <1>0, <4>2, <4>4, EmptyPages
      <4> QED
        BY <2>1, <3>2, <4>5
    <3> QED
      BY <1>3, <3>1, <3>2
  <2> QED
    BY <1>1, <2>2 DEF Exhausted, Before, Older, Dated
<1>4. CASE ServeMessages(call)
  <2>1. CASE Acceptable(call)
    <3> DEFINE answer == [call EXCEPT !.status = "ok", !.page = page]
    <3>1. /\ calls' = (calls \ {call}) \cup {answer}
          /\ answer \in Answers(call, "ok", page, ChatList)
      BY <1>4, <2>1 DEF ServeMessages, Answer, Answers
    <3>2. answer.page = page
      BY <1>0, ServedFields
    <3> HIDE DEF answer, page
    <3> QED
      BY <1>3, <3>1, <3>2
  <2>2. CASE ~Acceptable(call)
    <3> DEFINE answer == [call EXCEPT !.status = "error"]
    <3>1. /\ calls' = (calls \ {call}) \cup {answer}
          /\ answer \in Answers(call, "error", page, ChatList)
      BY <1>4, <2>2 DEF ServeMessages, Answer, Answers
    <3>2. answer.status = "error"
      BY <1>0, ServedFields
    <3> HIDE DEF answer, page
    <3> QED
      BY <1>3, <3>1, <3>2
  <2> QED
    BY <2>1, <2>2
<1>5. CASE ServeChats(call) \/ ServeSearch(call)
  <2>1. call.kind \notin {"open", "older"}
    BY <1>5 DEF ServeChats, ServeSearch
  <2>2. \E answer \in Answers(call, "ok", page, ChatList) :
           calls' = (calls \ {call}) \cup {answer}
    BY <1>5 DEF ServeChats, ServeSearch, Answer, Answers
  <2> HIDE DEF page
  <2> QED
    BY <1>3, <2>1, <2>2
<1>6. CASE Disturb(call)
  <2> DEFINE answer == [call EXCEPT !.status = "error"]
  <2>1. /\ calls' = (calls \ {call}) \cup {answer}
        /\ answer \in Answers(call, "error", page, ChatList)
    BY <1>6 DEF Disturb, Answers
  <2>2. answer.status = "error"
    BY <1>0, ServedFields
  <2> HIDE DEF answer, page
  <2> QED
    BY <1>3, <2>1, <2>2
<1> QED
  BY <1>4, <1>5, <1>6 DEF Serve

LEMMA ImportEnds ==
    ASSUME IInv, EndInv, Import
    PROVE  EndInv'
<1>1. known' \subseteq known /\ UNCHANGED <<viewer, calls, broken>>
  BY DEF Import
<1>2. Exhausted'
  BY <1>1, Unanswered
<1>3. Finished' /\ Starting'
  BY <1>1 DEF EndInv, Finished, Ended, AllShown, Starting, Dated
<1> QED
  BY <1>2, <1>3 DEF EndInv

\* A list that is still to come has no end, nor has one of another view.
LEMMA NewViewEnds ==
    ASSUME IInv, EndInv, viewer'.view = viewer.view + 1,
           \A call \in calls' : call \in calls \/ call.status = "sent",
           viewer'.selected = None \/ viewer'.list = "loading"
    PROVE  EndInv'
<1>1. viewer.view \in Nat \ {0}
  BY DEF IInv, Typed, Views
<1>2. Exhausted'
  BY Unanswered
<1>3. Starting'
  BY <1>1 DEF Starting
<1>4. Finished'
  BY DEF Finished, Ended
<1> QED
  BY <1>2, <1>3, <1>4 DEF EndInv

\* Requests start unanswered.
LEMMA Requested ==
    ASSUME NEW kind, NEW v, NEW cursor, NEW refresh
    PROVE  Call(kind, v, cursor, refresh).status = "sent"
BY DEF Call

LEMMA OpenedLoads ==
    ASSUME NEW v \in Views, v.view =< MaxViews + 1, NEW chat \in Chats, NEW list \in Counts
    PROVE  Opened(v, chat, list).list = "loading"
<1> DEFINE total == IF chat \in DOMAIN list THEN list[chat] ELSE 0
           w == NewView(v)
<1>1. w \in Views
  BY NewViewType
<1>2. w.list = "loading"
  BY DEF NewView, Views
<1>3. Opened(v, chat, list) = [w EXCEPT !.searching = FALSE, !.selected = chat,
                                        !.messages = <<>>, !.total = total]
  BY DEF Opened
<1> HIDE DEF total, w
<1> QED
  BY <1>1, <1>2, <1>3 DEF Views

LEMMA SelectChatEnds ==
    ASSUME IInv, EndInv, SelectChat
    PROVE  EndInv'
<1>0. /\ viewer \in Views /\ counts \in Counts
      /\ viewer.view \in Nat /\ viewer.view =< MaxViews + 1
  BY Sizes DEF IInv, Typed, SelectChat, Views
<1>1. PICK chat \in Chats :
         /\ viewer' = Opened(viewer, chat, counts)
         /\ calls' = calls \cup {Call("open", viewer', None, FALSE)}
  BY <1>0, CountsType DEF SelectChat
<1>2. viewer'.view = viewer.view + 1 /\ viewer'.list = "loading"
  BY <1>0, <1>1, OpenedView, OpenedLoads
<1>3. \A call \in calls' : call \in calls \/ call.status = "sent"
  BY <1>1, Requested
<1> QED
  BY <1>2, <1>3, NewViewEnds

LEMMA SearchEnds ==
    ASSUME IInv, EndInv, Search
    PROVE  EndInv'
<1>0. viewer \in Views /\ viewer.view \in Nat /\ viewer.view =< MaxViews + 1
  BY Sizes DEF IInv, Typed, Search, Views
<1>1. viewer'.view = viewer.view + 1 /\ viewer'.selected = None
  BY <1>0, SearchingView DEF Search
<1>2. \A call \in calls' : call \in calls \/ call.status = "sent"
  BY Requested DEF Search
<1> QED
  BY <1>1, <1>2, NewViewEnds

LEMMA BackEnds ==
    ASSUME IInv, EndInv, Back
    PROVE  EndInv'
<1>1. viewer'.view = viewer.view + 1 /\ viewer'.selected = None /\ calls' = calls
  BY DEF Back, IInv, Typed, Views
<1> QED
  BY <1>1, NewViewEnds

\* A list or a page that was awaited is given up.
LEMMA RefreshEnds ==
    ASSUME IInv, EndInv, Refresh
    PROVE  EndInv'
<1>1. /\ viewer'.view = viewer.view + 1 /\ viewer'.selected = viewer.selected
      /\ viewer'.list = viewer.list /\ viewer'.older = viewer.older
      /\ viewer'.messages = viewer.messages /\ viewer'.total = viewer.total
      /\ viewer.view \in Nat \ {0}
  BY DEF Refresh, IInv, Typed, Views
<1>2. \A call \in calls' : call \in calls \/ call.status = "sent"
  BY Requested DEF Refresh
<1>3. Exhausted'
  BY <1>1, <1>2, Unanswered
<1>4. Starting'
  BY <1>1 DEF Starting
<1>5. known' = known /\ (~broken' => ~broken)
  BY DEF Refresh
<1>6. Finished'
  BY <1>1, <1>5 DEF EndInv, Finished, Ended, AllShown, Dated
<1> QED
  BY <1>3, <1>4, <1>6 DEF EndInv

\* The list stays.
LEMMA SameListEnds ==
    ASSUME IInv, EndInv, \A call \in calls' : call \in calls \/ call.status = "sent",
           viewer'.view = viewer.view, viewer'.selected = viewer.selected,
           viewer'.list = viewer.list, viewer'.messages = viewer.messages,
           viewer'.total = viewer.total, viewer'.older = "none" => viewer.older = "none",
           known' = known, ~broken' => ~broken
    PROVE  EndInv'
<1>1. Exhausted'
  BY Unanswered
<1>2. Finished' /\ Starting'
  BY DEF EndInv, Finished, Ended, AllShown, Starting, Dated
<1> QED
  BY <1>1, <1>2 DEF EndInv

LEMMA ClearSearchEnds ==
    ASSUME IInv, EndInv, ClearSearch
    PROVE  EndInv'
<1>1. /\ viewer'.view = viewer.view /\ viewer'.selected = viewer.selected
      /\ viewer'.list = viewer.list /\ viewer'.messages = viewer.messages
      /\ viewer'.total = viewer.total /\ viewer'.older = viewer.older
  BY DEF ClearSearch, IInv, Typed, Views
<1>2. calls' = calls /\ known' = known /\ broken' = broken
  BY DEF ClearSearch
<1> QED
  BY <1>1, <1>2, SameListEnds

LEMMA LoadOlderEnds ==
    ASSUME IInv, EndInv, LoadOlder
    PROVE  EndInv'
<1>1. /\ viewer'.view = viewer.view /\ viewer'.selected = viewer.selected
      /\ viewer'.list = viewer.list /\ viewer'.messages = viewer.messages
      /\ viewer'.total = viewer.total /\ viewer'.older = "loading"
  BY DEF LoadOlder, IInv, Typed, Views
<1>2. \A call \in calls' : call \in calls \/ call.status = "sent"
  BY Requested DEF LoadOlder
<1>3. known' = known /\ broken' = broken
  BY DEF LoadOlder
<1> QED
  BY <1>1, <1>2, <1>3, SameListEnds

LEMMA ReloadEnds ==
    ASSUME IInv, EndInv, NEW call \in calls, Reload(call), archive' = archive
    PROVE  EndInv'
<1>0. viewer \in Views /\ call \in Calls /\ call.chats \in Counts
  BY DEF IInv, Typed, Calls
<1>1. CASE viewer'.view = viewer.view
  <2>1. viewer' \in {viewer, [viewer EXCEPT !.screen = "intro"],
                     Searching(viewer), Opened(viewer, viewer.selected, call.chats)}
    BY DEF Reload
  <2>2. /\ Searching(viewer).view # viewer.view
        /\ Opened(viewer, viewer.selected, call.chats).view # viewer.view
    BY <1>0 DEF Searching, Opened, NewView, Views
  <2>3. /\ viewer'.selected = viewer.selected
        /\ viewer'.list = viewer.list /\ viewer'.messages = viewer.messages
        /\ viewer'.total = viewer.total /\ viewer'.older = viewer.older
    BY <1>0, <1>1, <2>1, <2>2 DEF Views
  <2>4. calls' \subseteq calls /\ UNCHANGED <<known, broken>>
    BY <1>1 DEF Reload
  <2> QED
    BY <1>1, <2>3, <2>4, SameListEnds
<1>2. CASE viewer'.view # viewer.view
  <2>1. \/ viewer' = Searching(viewer)
        \/ /\ viewer.selected # None
           /\ viewer' = Opened(viewer, viewer.selected, call.chats)
    BY <1>0, <1>2 DEF Reload, Views
  <2>2. viewer.selected # None => viewer.selected \in Chats
    BY <1>0 DEF Views
  <2>3. /\ viewer'.view = viewer.view + 1
        /\ viewer'.selected = None \/ viewer'.list = "loading"
    BY <1>0, <2>1 DEF Searching, Opened, NewView, Views
  <2>f. PICK refresh \in BOOLEAN : refresh = TRUE
    OBVIOUS
  <2> DEFINE kind == IF viewer.searching THEN "search" ELSE "open"
             new  == Call(kind, viewer', None, refresh)
  <2>4. calls' = (calls \ {call}) \cup {new}
    BY <1>2, <2>f DEF Reload
  <2>5. new.status = "sent"
    BY Requested
  <2> HIDE DEF kind, new
  <2>6. \A c \in calls' : c \in calls \/ c.status = "sent"
    BY <2>4, <2>5
  <2> QED
    BY <2>3, <2>6, NewViewEnds
<1> QED
  BY <1>1, <1>2

\* What a list is after an answer.
LEMMA RenderedEnds ==
    ASSUME NEW v \in Views, NEW there, v.messages = <<>> => there = {}
    PROVE  Ended(Rendered(v), there)
<1>1. /\ Rendered(v).messages = v.messages /\ Rendered(v).total = v.total
      /\ Rendered(v).selected = v.selected
      /\ Rendered(v).older = "none" /\ v.selected # None => ~(Len(v.messages) < v.total)
  BY DEF Rendered, Views
<1>2. Len(v.messages) \in Nat /\ v.total \in Nat
  BY Sizes DEF Views
<1> QED
  BY <1>1, <1>2 DEF Ended, AllShown

LEMMA AnsweredEnds ==
    ASSUME IInv, EndInv, NEW call \in calls, Awaited(call), call.status # "sent",
           ~broken, ~(call.kind = "open" /\ call.status = "error")
    PROVE  Ended(Answered(call), known)
<1> DEFINE fresh == Fresh(call)
           shown == viewer.messages
<1>0. /\ viewer \in Views /\ shown \in Seq(Messages) /\ known \in SUBSET Messages
      /\ call.kind \in {"open", "older", "search"} /\ call.status \in {"ok", "error"}
      /\ call.page \in Seq(Messages)
  <2>1. call \in Calls
    BY DEF IInv, Typed
  <2>2. call.page \in BoundedSeq(Messages, FetchLimit)
    BY <2>1 DEF Calls
  <2>3. call.page \in Seq(Messages)
    BY <2>2, Sizes, PagesAreSequences
  <2>4. call.kind \in {"open", "older", "search"} /\ call.status \in {"ok", "error"}
    BY <2>1 DEF Calls, Awaited
  <2> QED
    BY <2>3, <2>4 DEF IInv, Typed, Views
<1>1. ASSUME NEW list \in Seq(Messages), list = <<>> => known = {},
             Answered(call) = Rendered([viewer EXCEPT !.messages = list])
      PROVE  Ended(Answered(call), known)
  <2> DEFINE w == [viewer EXCEPT !.messages = list]
  <2>1. w \in Views /\ w.messages = list
    BY <1>0 DEF Views
  <2>2. Answered(call) = Rendered(w)
    BY <1>1
  <2> HIDE DEF w
  <2> QED
    BY <1>1, <2>1, <2>2, RenderedEnds
<1>2. CASE call.kind = "open"
  <2>1. call.status = "ok" /\ call.cursor = None
    BY <1>0, <1>2 DEF IInv, Fitting
  <2>2. call.page = <<>> => known = {}
    BY <1>2, <2>1 DEF EndInv, Exhausted, Before
  <2>3. Answered(call) = Rendered([viewer EXCEPT !.messages = call.page])
    BY <1>2, <2>1 DEF Answered
  <2> QED
    BY <1>0, <1>1, <2>2, <2>3
<1>3. CASE call.kind = "older"
  <2>1. /\ viewer.selected # None /\ shown # <<>> /\ call.cursor = shown[1]
        /\ Interval(call.page, viewer.selected, shown[1], known)
    BY <1>3 DEF IInv, Fitting
  <2>2. Interval(shown, viewer.selected, None, known)
    BY <2>1 DEF IInv, Shown
  <2>3. Ordered(shown) /\ shown[1] \in Messages /\ shown[1] # None
    BY <1>0, <2>1, <2>2, ViewerAssumption DEF Interval
  <2>4. CASE call.status = "ok" /\ fresh = <<>>
    <3>1. Range(call.page) \ Range(shown) = {}
      <4>1. Range(fresh) = Range(call.page) \ Range(shown)
        BY <1>0, Ranges, ListedInOrder DEF Fresh
      <4>2. Range(<<>>) = {}
        BY DEF Range
      <4> HIDE DEF fresh
      <4> QED
        BY <2>4, <4>1, <4>2
    <3>2. ASSUME NEW m \in Range(call.page) PROVE FALSE
      <4>1. Older(m, shown[1]) /\ m \in Range(shown)
        BY <2>1, <2>3, <3>1 DEF Interval
      <4>2. m = shown[1] \/ Older(shown[1], m)
        BY <1>0, <2>1, <2>3, <4>1, FirstIsOldest
      <4>3. m \in Messages
        BY <1>0, Ranges
      <4> QED
        BY <2>3, <4>1, <4>2, <4>3, OlderOrders
    <3>3. call.page = <<>>
      <4>1. ~(1 \in 1..Len(call.page))
        BY <1>0, <3>2, Ranges
      <4>2. Len(call.page) \in Nat
        BY <1>0
      <4>3. Len(call.page) = 0
        BY <4>1, <4>2
      <4> QED
        BY <1>0, <4>3
    <3>4. \A m \in known : ~Before(m, shown[1])
      BY <1>3, <2>1, <2>4, <3>3 DEF EndInv, Exhausted
    <3>5. ASSUME NEW m \in known, Dated(m)
          PROVE  m \in Range(shown)
      <4>1. ~Older(m, shown[1])
        BY <3>4, <3>5 DEF Before
      <4>2. m = shown[1] \/ Older(shown[1], m)
        BY <1>0, <2>3, <4>1, OlderOrders
      <4>3. shown[1] \in Range(shown)
        BY <1>0, <2>1, <2>3, FirstIsOldest
      <4> QED
        BY <2>2, <4>2, <4>3 DEF Interval
    <3>6. /\ Answered(call).messages = shown
          /\ Answered(call).total = viewer.total
      BY <1>0, <1>3, <2>4 DEF Answered, Views
    <3> QED
      BY <2>1, <3>5, <3>6 DEF Ended, AllShown
  <2>5. CASE call.status = "ok" /\ fresh # <<>>
    <3>1. fresh \o shown \in Seq(Messages)
      BY <1>0, <2>1, <2>2, PagesJoin DEF Fresh
    <3>2. fresh \in Seq(Messages)
      <4>1. Range(call.page) \ Range(shown) \in SUBSET Messages
        BY <1>0, Ranges
      <4> QED
        BY <4>1, ListedInOrder DEF Fresh
    <3>3. Answered(call) = Rendered([viewer EXCEPT !.messages = fresh \o shown])
      BY <1>3, <2>5 DEF Answered
    <3> HIDE DEF fresh, shown
    <3>4. fresh \o shown # <<>>
      <4>1. Len(fresh \o shown) = Len(fresh) + Len(shown) /\ Len(fresh) \in Nat
            /\ Len(shown) \in Nat /\ Len(shown) # 0
        BY <1>0, <2>1, <3>2
      <4>2. Len(<<>>) = 0
        OBVIOUS
      <4> QED
        BY <4>1, <4>2
    <3> QED
      BY <1>1, <3>1, <3>3, <3>4
  <2>6. CASE call.status # "ok"
    <3>1. Answered(call) = Rendered([viewer EXCEPT !.messages = shown])
      BY <1>3, <2>6 DEF Answered
    <3> HIDE DEF shown
    <3> QED
      BY <1>0, <1>1, <2>1, <3>1
  <2> QED
    BY <2>4, <2>5, <2>6
<1>4. CASE call.kind = "search"
  <2>1. Answered(call).list = "results"
    BY <1>0, <1>4 DEF Answered, Views
  <2> QED
    BY <2>1 DEF Ended
<1> QED
  BY <1>0, <1>2, <1>3, <1>4

\* No list of messages is asked for in the first view.
LEMMA FirstViewStays ==
    ASSUME IInv, EndInv, NEW call \in calls, Awaited(call), viewer.view = 1
    PROVE  Answered(call).selected = None /\ Answered(call).messages = <<>>
<1>1. viewer.selected = None /\ viewer.messages = <<>> /\ viewer \in Views
  BY DEF EndInv, Starting, IInv, Typed
<1>2. call.kind \notin {"open", "older"}
  BY <1>1 DEF IInv, Fitting
<1>3. call.kind = "search"
  BY <1>2 DEF Awaited, IInv, Typed, Calls
<1>4. Answered(call) = [viewer EXCEPT !.list = "results", !.older = "none"]
  BY <1>3 DEF Answered
<1> QED
  BY <1>1, <1>4 DEF Views

LEMMA ReceiveEnds ==
    ASSUME IInv, EndInv, NEW call \in calls, Receive(call)
    PROVE  EndInv'
<1>1. CASE Current(call) /\ call.kind = "chats" /\ call.status = "ok"
  BY <1>1, ReloadEnds DEF Receive
<1>2. CASE Awaited(call)
  <2>1. /\ viewer' = Answered(call) /\ calls' = calls \ {call} /\ known' = known
        /\ broken' = (broken \/ (call.kind = "open" /\ call.status = "error"))
        /\ call.status # "sent"
    BY <1>2 DEF Receive, Awaited
  <2>2. viewer'.view = viewer.view
    BY <1>2, <2>1, AnsweredShows
  <2>3. Exhausted'
    BY <2>1, <2>2, Unanswered
  <2>4. Starting'
    BY <1>2, <2>1, <2>2, FirstViewStays DEF Starting
  <2>5. ASSUME ~broken'
        PROVE  Ended(viewer', known)
    BY <1>2, <2>1, <2>5, AnsweredEnds
  <2>6. Finished'
    BY <2>1, <2>5 DEF Finished, Ended, AllShown, Dated
  <2> QED
    BY <2>3, <2>4, <2>6 DEF EndInv
<1>3. CASE ~Awaited(call) /\ ~(Current(call) /\ call.kind = "chats" /\ call.status = "ok")
  <2>1. /\ viewer' = viewer /\ calls' \subseteq calls /\ known' = known
        /\ ~broken' => ~broken
    BY <1>3 DEF Receive, Awaited
  <2> QED
    BY <2>1, SameListEnds
<1> QED
  BY <1>1, <1>2, <1>3

LEMMA FirstEnds == First => EndInv
<1> SUFFICES ASSUME First PROVE EndInv
  OBVIOUS
<1>1. viewer.selected = None /\ viewer.messages = <<>>
  BY DEF First, FirstView
<1>2. \A call \in calls : call.status = "sent"
  BY Requested DEF First, FirstCalls
<1> QED
  BY <1>1, <1>2 DEF EndInv, Exhausted, Finished, Ended, Starting

LEMMA OpenPageEnds ==
    ASSUME IInv, EndInv, OpenPage
    PROVE  EndInv'
<1>1. First'
  BY DEF IInv, Typed, OpenPage, First
<1>2. (First => EndInv)'
  BY FirstEnds, PTL
<1> QED
  BY <1>1, <1>2

LEMMA EndInvariance == Spec => []EndInv
<1>1. Init => EndInv
  BY FirstEnds, Sizes DEF Init, First
<1>2. IInv /\ EndInv /\ [Next]_vars => EndInv'
  <2> SUFFICES ASSUME IInv, EndInv, [Next]_vars
               PROVE  EndInv'
    OBVIOUS
  <2>1. CASE Import
    BY <2>1, ImportEnds
  <2>2. CASE OpenPage
    BY <2>2, OpenPageEnds
  <2>3. CASE \E call \in calls : Serve(call) \/ Disturb(call) \/ Receive(call)
    BY <2>3, ServeEnds, ReceiveEnds
  <2>4. CASE SelectChat
    BY <2>4, SelectChatEnds
  <2>5. CASE Search
    BY <2>5, SearchEnds
  <2>6. CASE ClearSearch
    BY <2>6, ClearSearchEnds
  <2>7. CASE Back
    BY <2>7, BackEnds
  <2>8. CASE Refresh
    BY <2>8, RefreshEnds
  <2>9. CASE LoadOlder
    BY <2>9, LoadOlderEnds
  <2>10. CASE UNCHANGED vars
    BY <2>10, SameListEnds DEF vars
  <2> QED
    BY <2>1, <2>2, <2>3, <2>4, <2>5, <2>6, <2>7, <2>8, <2>9, <2>10 DEF Next
<1> QED
  BY <1>1, <1>2, Invariance, PTL DEF Spec

-----------------------------------------------------------------------------
(* The theorems.                                                           *)

LEMMA OneAwaited ==
    ASSUME IInv
    PROVE  Cardinality({call \in calls : Current(call) /\ call.kind # "chats"}) =< 1
<1> DEFINE awaited == {call \in calls : Current(call) /\ call.kind # "chats"}
<1>1. \A c, d \in awaited : c = d
  BY DEF IInv, Awaiting, Awaited
<1> HIDE DEF awaited
<1>2. awaited = {} \/ \E c : awaited = {c}
  BY <1>1
<1>3. Cardinality(awaited) =< 1
  <2>1. CASE awaited = {}
    BY <2>1, FS_EmptySet
  <2>2. CASE \E c : awaited = {c}
    BY <2>2, FS_Singleton
  <2> QED
    BY <1>2, <2>1, <2>2
<1> QED
  BY <1>3 DEF awaited

LEMMA InvTyped ==
    ASSUME IInv
    PROVE  TypeOK
<1>1. viewer \in Views /\ Ordered(viewer.messages) /\ viewer.messages \in Seq(Messages)
  BY DEF IInv, Typed, Shown, Views
<1>2. viewer.messages \in BoundedSeq(Messages, Cardinality(Messages))
  BY <1>1, Sizes, OrderedIsShort, BoundedSequences
<1>3. viewer \in [view : 1..MaxViews + 2, searching : BOOLEAN, selected : Chats \cup {None},
                  total : 0..Cardinality(Messages),
                  messages : BoundedSeq(Messages, Cardinality(Messages)),
                  screen : {"intro", "chat"},
                  list : {"empty", "loading", "messages", "results"},
                  older : {"none", "enabled", "loading"}]
  <2> DEFINE Lists == BoundedSeq(Messages, Cardinality(Messages))
  <2>1. viewer.messages \in Lists
    BY <1>2
  <2> HIDE DEF Lists
  <2>2. viewer \in [view : 1..MaxViews + 2, searching : BOOLEAN, selected : Chats \cup {None},
                    total : 0..Cardinality(Messages), messages : Lists,
                    screen : {"intro", "chat"},
                    list : {"empty", "loading", "messages", "results"},
                    older : {"none", "enabled", "loading"}]
    BY <1>1, <2>1 DEF Views
  <2> QED
    BY <2>2 DEF Lists
<1> QED
  BY <1>3, OneAwaited DEF IInv, Typed, TypeOK

LEMMA InvShows ==
    ASSUME IInv
    PROVE  ShowsAnInterval
<1> SUFFICES ASSUME NEW chat \in Chats, Reading(chat), viewer.messages # <<>>
             PROVE  LET shown == viewer.messages
                    IN  /\ \A i, j \in 1..Len(shown) : i < j => Older(shown[i], shown[j])
                        /\ \A i \in 1..Len(shown) : Chat[shown[i]] \in {chat, Alias[chat]}
                        /\ \A m \in known : Older(shown[1], m) => m \in Range(shown)
  BY DEF ShowsAnInterval
<1>1. viewer.selected = chat /\ chat # None
  BY ViewerAssumption DEF Reading
<1>2. viewer.messages \in Seq(Messages)
  BY DEF IInv, Typed, Views
<1>3. Interval(viewer.messages, chat, None, known)
  BY <1>1 DEF IInv, Shown
<1>4. viewer.messages[1] \in Range(viewer.messages)
  BY <1>2, <1>3, FirstIsOldest DEF Interval
<1>5. \A i \in 1..Len(viewer.messages) : viewer.messages[i] \in Range(viewer.messages)
  BY <1>2, Ranges
<1> QED
  BY <1>3, <1>4, <1>5 DEF Interval, Ordered

LEMMA NothingLeftOut ==
    ASSUME IInv, EndInv
    PROVE  NothingIsLeftOut
<1> SUFFICES ASSUME NEW chat \in Chats, Reading(chat), ~broken, viewer.list = "messages",
                    viewer.older = "none" \/ viewer.messages = <<>>
             PROVE  Reached
  BY DEF NothingIsLeftOut
<1>1. viewer.selected # None
  BY ViewerAssumption DEF Reading
<1>2. /\ viewer.older = "none" => AllShown(viewer, known)
      /\ viewer.messages = <<>> => known = {}
  BY <1>1 DEF EndInv, Finished, Ended
<1> QED
  BY <1>2 DEF AllShown, Reached

\* What was shown is the end of what is shown next.
Grows(shown, next) ==
    \E k \in 0..Len(next) : shown = SubSeq(next, k + 1, Len(next))

\* "Prevent stale web viewer responses from replacing active content"
\* (CHANGELOG.md): while the view is not left, no answer, and no refresh that
\* fails, replaces what is shown of its conversation; messages only come before it.
NothingIsReplaced ==
    [][viewer'.view = viewer.view =>
          /\ viewer'.selected = viewer.selected
          /\ Grows(viewer.messages, viewer'.messages)]_vars

LEMMA Growing ==
    ASSUME NEW shown \in Seq(Messages), NEW fresh \in Seq(Messages)
    PROVE  /\ Grows(shown, shown)
           /\ Grows(<<>>, shown)
           /\ Grows(shown, fresh \o shown)
<1> DEFINE n == Len(shown)
           k == Len(fresh)
           all == fresh \o shown
<1>0. n \in Nat /\ k \in Nat
  OBVIOUS
<1>1. shown = SubSeq(shown, 1, n)
  <2>1. shown \in [1..n -> Messages] /\ SubSeq(shown, 1, n) = [i \in 1..n |-> shown[i]]
    BY <1>0 DEF SubSeq
  <2> QED
    BY <2>1
<1>2. <<>> = SubSeq(shown, n + 1, n)
  BY <1>0 DEF SubSeq
<1>3. shown = SubSeq(all, k + 1, Len(all))
  <2>1. /\ Len(all) = k + n /\ k + n - (k + 1) + 1 = n
        /\ \A i \in 1..n : all[i + k] = shown[i]
    BY <1>0
  <2> HIDE DEF all
  <2>2. SubSeq(all, k + 1, Len(all)) = [i \in 1..n |-> all[i + k]]
    <3>1. \A i \in 1..n : i + (k + 1) - 1 = i + k
      BY <1>0
    <3> QED
      BY <1>0, <2>1, <3>1 DEF SubSeq
  <2>3. shown = [i \in 1..n |-> shown[i]]
    BY <1>0
  <2> QED
    BY <2>1, <2>2, <2>3
<1>4. Len(all) = k + n
  BY <1>0
<1>5. 0 \in 0..n /\ n \in 0..n /\ k \in 0..Len(all) /\ 0 + 1 = 1
  BY <1>0, <1>4
<1> HIDE DEF all, n, k
<1> QED
  BY <1>1, <1>2, <1>3, <1>5 DEF Grows, n, k, all

\* One step of NothingIsReplaced.
Kept == viewer'.view = viewer.view =>
            viewer'.selected = viewer.selected /\ Grows(viewer.messages, viewer'.messages)

LEMMA AnsweredGrows ==
    ASSUME IInv, NEW call \in calls, Awaited(call)
    PROVE  Grows(viewer.messages, Answered(call).messages)
<1> DEFINE shown == viewer.messages
<1>0. /\ viewer \in Views /\ shown \in Seq(Messages)
      /\ call.kind \in {"open", "older", "search"}
      /\ call.page \in Seq(Messages) /\ <<>> \in Seq(Messages)
  <2>1. call \in Calls
    BY DEF IInv, Typed
  <2>2. call.page \in BoundedSeq(Messages, FetchLimit)
    BY <2>1 DEF Calls
  <2>3. call.page \in Seq(Messages)
    BY <2>2, Sizes, PagesAreSequences
  <2> QED
    BY <2>1, <2>3 DEF IInv, Typed, Views, Calls, Awaited
<1>1. ASSUME NEW list \in Seq(Messages),
             Answered(call) = Rendered([viewer EXCEPT !.messages = list])
      PROVE  Answered(call).messages = list
  <2> DEFINE w == [viewer EXCEPT !.messages = list]
  <2>1. w \in Views /\ w.messages = list
    BY <1>0 DEF Views
  <2>2. Answered(call) = Rendered(w)
    BY <1>1
  <2> HIDE DEF w
  <2> QED
    BY <2>1, <2>2, RenderedView
<1>2. CASE call.kind = "open"
  <2> DEFINE list == IF call.status = "ok" THEN call.page ELSE <<>>
  <2>1. shown = <<>> /\ list \in Seq(Messages)
    BY <1>0, <1>2 DEF IInv, Fitting
  <2>2. Answered(call) = Rendered([viewer EXCEPT !.messages = list])
    BY <1>2 DEF Answered
  <2> HIDE DEF list
  <2>3. Answered(call).messages = list
    BY <1>1, <2>1, <2>2
  <2> QED
    BY <2>1, <2>3, Growing
<1>3. CASE call.kind = "older"
  <2> DEFINE fresh == Fresh(call)
  <2>1. fresh \in Seq(Messages)
    <3>1. Range(call.page) \ Range(shown) \in SUBSET Messages
      BY <1>0, Ranges
    <3> QED
      BY <3>1, ListedInOrder DEF Fresh
  <2> HIDE DEF fresh
  <2>2. CASE call.status = "ok" /\ fresh = <<>>
    <3>1. Answered(call) = [viewer EXCEPT !.older = "none"]
      BY <1>3, <2>2 DEF Answered, fresh
    <3>2. Answered(call).messages = shown
      BY <1>0, <3>1 DEF Views
    <3> QED
      BY <1>0, <3>2, Growing
  <2>3. CASE call.status = "ok" /\ fresh # <<>>
    <3>1. Answered(call) = Rendered([viewer EXCEPT !.messages = fresh \o shown])
      BY <1>3, <2>3 DEF Answered, fresh
    <3>2. fresh \o shown \in Seq(Messages)
      BY <1>0, <2>1
    <3>3. Answered(call).messages = fresh \o shown
      BY <1>1, <3>1, <3>2
    <3> QED
      BY <1>0, <2>1, <3>3, Growing
  <2>4. CASE call.status # "ok"
    <3>1. Answered(call) = Rendered([viewer EXCEPT !.messages = shown])
      BY <1>3, <2>4 DEF Answered
    <3>2. Answered(call).messages = shown
      BY <1>0, <1>1, <3>1
    <3> QED
      BY <1>0, <3>2, Growing
  <2> QED
    BY <2>2, <2>3, <2>4
<1>4. CASE call.kind = "search"
  <2>1. Answered(call).messages = shown
    BY <1>0, <1>4 DEF Answered, Views
  <2> QED
    BY <1>0, <2>1, Growing
<1> QED
  BY <1>0, <1>2, <1>3, <1>4

LEMMA StepsKeep ==
    ASSUME IInv, EndInv, [Next]_vars
    PROVE  Kept
<1> USE DEF Kept
<1>0. /\ viewer \in Views /\ counts \in Counts
      /\ viewer.view \in Nat /\ viewer.messages \in Seq(Messages)
      /\ <<>> \in Seq(Messages)
  BY DEF IInv, Typed, Views
<1>1. ASSUME viewer'.selected = viewer.selected, viewer'.messages = viewer.messages
      PROVE  Kept
  BY <1>0, <1>1, Growing
<1>2. CASE Import \/ ClearSearch \/ LoadOlder \/ UNCHANGED vars
  <2>1. viewer'.selected = viewer.selected /\ viewer'.messages = viewer.messages
    BY <1>0, <1>2 DEF Import, ClearSearch, LoadOlder, vars, Views
  <2> QED
    BY <1>1, <2>1
<1>3. CASE SelectChat \/ Search \/ Back \/ Refresh
  <2>1. viewer'.view = viewer.view + 1
    <3>1. CASE SelectChat
      BY <1>0, <3>1 DEF SelectChat, Opened, NewView, Views
    <3>2. CASE Search \/ Back \/ Refresh
      BY <1>0, <3>2 DEF Search, Searching, NewView, Back, Refresh, Views
    <3> QED
      BY <1>3, <3>1, <3>2
  <2> QED
    BY <1>0, <2>1
<1>4. CASE OpenPage
  <2>1. viewer'.view = 1 /\ viewer'.selected = None /\ viewer'.messages = <<>>
    BY <1>4 DEF OpenPage, FirstView
  <2>2. viewer.view = 1 => viewer.selected = None /\ viewer.messages = <<>>
    BY DEF EndInv, Starting
  <2> QED
    BY <1>1, <2>1, <2>2
<1>5. ASSUME NEW call \in calls, Serve(call) \/ Disturb(call)
      PROVE  Kept
  <2>1. viewer' = viewer
    BY <1>5 DEF Serve, ServeMessages, ServeChats, ServeSearch, Answer, Disturb
  <2> QED
    BY <1>1, <2>1
<1>6. ASSUME NEW call \in calls, Receive(call)
      PROVE  Kept
  <2>1. CASE Awaited(call)
    <3>1. viewer' = Answered(call)
      BY <1>6, <2>1 DEF Receive, Awaited
    <3> QED
      BY <2>1, <3>1, AnsweredShows, AnsweredGrows
  <2>2. CASE Current(call) /\ call.kind = "chats" /\ call.status = "ok"
    <3>1. viewer' \in {viewer, [viewer EXCEPT !.screen = "intro"],
                       Searching(viewer), Opened(viewer, viewer.selected, call.chats)}
      BY <1>6, <2>2 DEF Receive, Reload
    <3>2. /\ Searching(viewer).view # viewer.view
          /\ Opened(viewer, viewer.selected, call.chats).view # viewer.view
      BY <1>0 DEF Searching, Opened, NewView, Views
    <3>3. viewer'.view = viewer.view =>
             viewer'.selected = viewer.selected /\ viewer'.messages = viewer.messages
      BY <1>0, <3>1, <3>2 DEF Views
    <3> QED
      BY <1>1, <3>3
  <2>3. CASE ~Awaited(call) /\ ~(Current(call) /\ call.kind = "chats" /\ call.status = "ok")
    <3>1. viewer' = viewer
      BY <1>6, <2>3 DEF Receive, Awaited
    <3> QED
      BY <1>1, <3>1
  <2> QED
    BY <2>1, <2>2, <2>3
<1> QED
  BY <1>2, <1>3, <1>4, <1>5, <1>6 DEF Next

\* The page in the browser and the requests under way have their types, and the
\* view waits for one answer at most: what is put together never depends on
\* which of two answers came first.
THEOREM TypeCorrect == Spec => []TypeOK
BY Invariance, InvTyped, PTL

\* Whatever is imported between two pages, and whichever answers are late, lost
\* or overtaken, a conversation is shown in order, without duplicates or
\* messages of another conversation, and without gaps among the messages that
\* were there since it was opened: for pages of any size, any number of
\* messages in one second, any contact links and any number of views.
THEOREM NoGaps == Spec => []ShowsAnInterval
BY Invariance, InvShows, PTL

\* The button for older messages never goes before the conversation is at its end,
\* and no list stays empty that has something to show: the end is only taken from
\* a page that nothing was left for, or from the count of the chat, whatever is
\* imported, delayed or lost, for pages of any size.
THEOREM LeavesNothingOut == Spec => []NothingIsLeftOut
BY Invariance, EndInvariance, NothingLeftOut, PTL

\* No answer and no failed refresh replaces what a view shows of its conversation:
\* for any number of views, requests and failures, messages only come before it.
THEOREM ReplacesNothing == Spec => NothingIsReplaced
<1>1. IInv /\ EndInv /\ [Next]_vars =>
          [viewer'.view = viewer.view =>
              /\ viewer'.selected = viewer.selected
              /\ Grows(viewer.messages, viewer'.messages)]_vars
  BY StepsKeep DEF Kept
<1> QED
  BY <1>1, Invariance, EndInvariance, PTL DEF Spec, NothingIsReplaced

=============================================================================
