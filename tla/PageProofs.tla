----------------------------- MODULE PageProofs -----------------------------
(* That no opened detail of the requests page hangs, and which answers     *)
(* close none, for any number of requests, filters, rows shown, polls and  *)
(* fetches.                                                                *)
EXTENDS Page, FiniteSetTheorems, SequenceTheorems, NaturalsInduction,
        WellFoundedInduction, TLAPS

(* A card that need not be fetched again has something to show: opening it *)
(* starts no fetch, so "loading" would stay.                               *)
LoadedShows == \A id \in loaded : content[id] # "loading"

DetailInv ==
    /\ visible \subseteq Ids /\ loaded \subseteq Ids
    /\ content \in [Ids -> {"loading", "loaded", "failed"}]
    /\ pending \in [Ids -> Nat]
    /\ NeverStuckLoading
    /\ LoadedShows

(* A new card starts closed and empty, one that stays keeps what it has.   *)
LEMMA RenderKeepsDetails ==
    ASSUME DetailInv, NEW items, Render(items)
    PROVE  DetailInv'
<1> DEFINE removed == Shown(cards) \ Shown(cards')
<1>1. visible' = visible \ removed /\ expanded' = visible'
    BY DEF Render, SyncExpandedState, DetailInv, NeverStuckLoading
<1>2. loaded' = loaded \ removed
    BY DEF Render
<1>3. /\ content' = [id \in Ids |-> IF id \in removed THEN "loading" ELSE content[id]]
      /\ pending' = [id \in Ids |-> IF id \in removed THEN 0 ELSE pending[id]]
    BY DEF Render
<1>4. /\ content' \in [Ids -> {"loading", "loaded", "failed"}]
      /\ pending' \in [Ids -> Nat]
    BY <1>3 DEF DetailInv
<1> HIDE DEF removed
<1>5. NeverStuckLoading'
    BY <1>1, <1>3 DEF NeverStuckLoading, DetailInv
<1>6. LoadedShows'
    <2> SUFFICES ASSUME NEW id \in loaded, id \notin removed
                 PROVE  content'[id] # "loading"
        BY <1>2 DEF LoadedShows
    <2>1. content'[id] = content[id]
        BY <1>3 DEF DetailInv
    <2> QED
        BY <2>1 DEF LoadedShows, DetailInv
<1> QED
    BY <1>1, <1>2, <1>4, <1>5, <1>6 DEF DetailInv

LEMMA DetailInvInit == PageInit => DetailInv
    BY DEF PageInit, DetailInv, NeverStuckLoading, LoadedShows

LEMMA DetailInvStep == DetailInv /\ [PageNext]_pageVars => DetailInv'
<1> SUFFICES ASSUME DetailInv, [PageNext]_pageVars
             PROVE  DetailInv'
    OBVIOUS
<1>1. CASE UNCHANGED detail
    BY <1>1 DEF detail, DetailInv, NeverStuckLoading, LoadedShows
<1>2. ASSUME NEW id \in Ids, ToggleClosed(id)
      PROVE  DetailInv'
    BY <1>2 DEF ToggleClosed, DetailInv, NeverStuckLoading, LoadedShows
<1>3. ASSUME NEW id \in Ids, ToggleOpen(id)
      PROVE  DetailInv'
    <2>1. CASE id \in loaded
        BY <1>3, <2>1 DEF ToggleOpen, DetailInv, NeverStuckLoading, LoadedShows
    <2>2. CASE id \notin loaded
        <3>1. pending' \in [Ids -> Nat] /\ pending'[id] > 0
            BY <1>3, <2>2 DEF ToggleOpen, DetailInv
        <3>2. ASSUME NEW o \in Ids, o # id
              PROVE  pending'[o] = pending[o] /\ content'[o] = content[o]
            BY <1>3, <2>2, <3>2 DEF ToggleOpen, DetailInv
        <3>3. /\ content' \in [Ids -> {"loading", "loaded", "failed"}]
              /\ visible' = visible \cup {id} /\ expanded' = expanded \cup {id}
              /\ loaded' = loaded
            BY <1>3, <2>2 DEF ToggleOpen, DetailInv
        <3>4. NeverStuckLoading' /\ LoadedShows'
            BY <2>2, <3>1, <3>2, <3>3 DEF NeverStuckLoading, LoadedShows, DetailInv
        <3> QED
            BY <3>1, <3>3, <3>4 DEF DetailInv
    <2> QED
        BY <2>1, <2>2
<1>4. ASSUME NEW id \in Ids, FetchEnds(id)
      PROVE  DetailInv'
    <2>1. pending' \in [Ids -> Nat] /\ content'[id] # "loading"
        BY <1>4 DEF FetchEnds, DetailInv
    <2>2. ASSUME NEW o \in Ids, o # id
          PROVE  pending'[o] = pending[o] /\ content'[o] = content[o]
        BY <1>4, <2>2 DEF FetchEnds, DetailInv
    <2>3. /\ content' \in [Ids -> {"loading", "loaded", "failed"}]
          /\ visible' = visible /\ expanded' = expanded
          /\ loaded' \in {loaded, loaded \cup {id}}
        BY <1>4 DEF FetchEnds, DetailInv
    <2>4. NeverStuckLoading'
        BY <2>1, <2>2, <2>3 DEF NeverStuckLoading, DetailInv
    <2>5. LoadedShows'
        BY <2>1, <2>2, <2>3 DEF LoadedShows, DetailInv
    <2> QED
        BY <2>1, <2>3, <2>4, <2>5 DEF DetailInv
<1>5. ASSUME NEW i \in 1..MaxPolls, Apply(i)
      PROVE  DetailInv'
    BY <1>5, RenderKeepsDetails DEF Apply
<1>6. ASSUME NEW id \in Ids, Insert(id) \/ Close(id)
      PROVE  DetailInv'
    BY <1>1, <1>6 DEF Insert, Close
<1>7. ASSUME NEW f \in Filters, ChangeFilter(f) \/ Serve(f) \/ Lost(f)
      PROVE  DetailInv'
    BY <1>1, <1>7 DEF ChangeFilter, Serve, Lost
<1>8. CASE Poll
    BY <1>1, <1>8 DEF Poll
<1>9. CASE UNCHANGED pageVars
    BY <1>1, <1>9 DEF pageVars
<1> QED
    BY <1>2, <1>3, <1>4, <1>5, <1>6, <1>7, <1>8, <1>9 DEF PageNext

(* Whatever becomes of a card between a click and the answer to its fetch, *)
(* a detail that says it is loading is being loaded.                       *)
THEOREM DetailsNeverHang == PageSpec => []NeverStuckLoading
<1>1. DetailInv => NeverStuckLoading
    BY DEF DetailInv
<1> QED
    BY <1>1, DetailInvInit, DetailInvStep, PTL DEF PageSpec

-----------------------------------------------------------------------------
(* What the page shows, and the answers on their way, against the table.   *)

Answer == [for : Filters, items : [Ids -> Result \cup {NoCard}], overtaken : BOOLEAN]

(* A value some time ago of what the table says now. *)
Past(shown, id) ==
    \/ shown[id] = NoCard
    \/ shown[id] = "open" /\ table[id] # NoCard
    \/ shown[id] = table[id]

(* A list made later under filter f shows a request an earlier one shows,  *)
(* if it passes the filter as it was shown and is still listed.            *)
KeepsFrom(earlier, later, f) ==
    \A id \in Ids :
        /\ earlier[id] # NoCard /\ Matches(f, earlier[id])
        /\ Listed(f)[id] # NoCard
        => later[id] # NoCard

ListTypeOK ==
    /\ table \in [Ids -> Result \cup {NoCard}] /\ IsFiniteSet(Shown(table))
    /\ answers \in Seq(Answer)

(* Answers are made in order, and one that is not overtaken was made after *)
(* the one whose list is on the page.                                      *)
ListInv ==
    /\ ListTypeOK
    /\ \A id \in Ids : Past(cards, id)
    /\ \A i \in DOMAIN answers : \A id \in Ids : Past(answers[i].items, id)
    /\ \A i \in DOMAIN answers :
          ~answers[i].overtaken => KeepsFrom(cards, answers[i].items, answers[i].for)
    /\ \A i, k \in DOMAIN answers :
          i < k => KeepsFrom(answers[i].items, answers[k].items, answers[k].for)

LEMMA ListInvInit == PageInit => ListInv
<1> SUFFICES ASSUME PageInit PROVE ListInv
    OBVIOUS
<1>1. Shown(table) = {}
    BY DEF PageInit, Shown
<1>2. DOMAIN answers = {}
    BY DEF PageInit
<1> QED
    BY <1>1, <1>2, FS_EmptySet DEF PageInit, ListInv, ListTypeOK, Past

LEMMA RemoveAtIs ==
    ASSUME NEW S, NEW s \in Seq(S), NEW i \in 1..Len(s)
    PROVE  /\ RemoveAt(s, i) \in Seq(S) /\ Len(RemoveAt(s, i)) = Len(s) - 1
           /\ \A j \in 1..(Len(s) - 1) :
                 RemoveAt(s, i)[j] = IF j < i THEN s[j] ELSE s[j + 1]
<1> DEFINE a == SubSeq(s, 1, i - 1)
           b == SubSeq(s, i + 1, Len(s))
<1>1. /\ a \in Seq(S) /\ b \in Seq(S) /\ Len(a) = i - 1 /\ Len(b) = Len(s) - i
      /\ \A j \in 1..(i - 1) : a[j] = s[j]
      /\ \A j \in 1..(Len(s) - i) : b[j] = s[j + i]
    OBVIOUS
<1>2. RemoveAt(s, i) = a \o b
    BY DEF RemoveAt
<1> HIDE DEF a, b
<1>3. a \o b \in Seq(S) /\ Len(a \o b) = Len(s) - 1
    <2>1. a \o b \in Seq(S)
        BY <1>1
    <2>2. Len(a \o b) = Len(a) + Len(b)
        BY <1>1, ConcatProperties
    <2>3. Len(s) \in Nat
        OBVIOUS
    <2> QED
        BY <1>1, <2>1, <2>2, <2>3
<1>4. ASSUME NEW j \in 1..(Len(s) - 1), j < i PROVE (a \o b)[j] = s[j]
    BY <1>1, <1>4
<1>5. ASSUME NEW j \in 1..(Len(s) - 1), ~(j < i) PROVE (a \o b)[j] = s[j + 1]
    <2>1. j - (i - 1) \in 1..(Len(s) - i) /\ (j - (i - 1)) + i = j + 1
        BY <1>5
    <2>2. (a \o b)[j] = b[j - (i - 1)]
        BY <1>1, <1>5
    <2> QED
        BY <1>1, <2>1, <2>2
<1> QED
    BY <1>2, <1>3, <1>4, <1>5

(* A row that appears pushes others off the end of the list, and none back.*)
LEMMA InsertNarrows ==
    ASSUME ListTypeOK, NEW new \in Ids, Insert(new), NEW f, NEW id \in Ids, id # new,
           Listed(f)'[id] # NoCard
    PROVE  Listed(f)[id] # NoCard
<1> DEFINE above == {newer \in Shown(table) : newer > id}
           above2 == {newer \in Shown(table') : newer > id}
<1>1. table' = [table EXCEPT ![new] = "open"] /\ table'[id] = table[id]
    BY DEF Insert, ListTypeOK
<1>2. Shown(table') = Shown(table) \cup {new}
    BY <1>1 DEF Shown, ListTypeOK, NoCard
<1>3. IsFiniteSet(Shown(table'))
    BY <1>2, FS_AddElement DEF ListTypeOK
<1>4. IsFiniteSet(above2) /\ above \in SUBSET above2
    BY <1>2, <1>3, FS_Subset
<1>5. Cardinality(above) <= Cardinality(above2)
    BY <1>4, FS_Subset
<1>6. Cardinality(above) \in Nat /\ Cardinality(above2) \in Nat
    BY <1>4, FS_Subset, FS_CardinalityType
<1>7. id \in Shown(table') /\ Cardinality(above2) < Limit /\ Matches(f, table'[id])
    BY DEF Listed, Newest
<1>8. id \in Shown(table)
    BY <1>2, <1>7
<1>9. Cardinality(above) < Limit
    <2> HIDE DEF above, above2
    <2> QED
        BY <1>5, <1>6, <1>7, LimitAssumption
<1>10. id \in Newest /\ table[id] # NoCard
    BY <1>8, <1>9 DEF Newest, Shown
<1> QED
    BY <1>1, <1>7, <1>10 DEF Listed

(* The table's own steps.  What they change was on no list before.         *)
LEMMA TableKeepsList == \A id \in Ids : ListInv /\ (Insert(id) \/ Close(id)) => ListInv'
<1> SUFFICES ASSUME NEW new \in Ids, ListInv, Insert(new) \/ Close(new) PROVE ListInv'
    OBVIOUS
<1>1. ListTypeOK /\ UNCHANGED <<answers, cards>>
    BY DEF ListInv, Insert, Close, list
<1>2. PICK r \in Result : /\ table' = [table EXCEPT ![new] = r]
                          /\ table[new] \in {NoCard, "open"} /\ r # table[new]
                          /\ table[new] = NoCard => r = "open"
    BY DEF Insert, Close, Result, NoCard
<1>3. /\ table'[new] = r /\ r # NoCard
      /\ \A id \in Ids : id # new => table'[id] = table[id]
    BY <1>1, <1>2 DEF ListTypeOK, Result, NoCard
<1>4. ListTypeOK'
    <2>1. table' \in [Ids -> Result \cup {NoCard}]
        BY <1>1, <1>2 DEF ListTypeOK
    <2>2. Shown(table') \in SUBSET (Shown(table) \cup {new})
        BY <1>3 DEF Shown
    <2>3. IsFiniteSet(Shown(table'))
        BY <1>1, <2>2, FS_AddElement, FS_Subset DEF ListTypeOK
    <2> QED
        BY <1>1, <2>1, <2>3 DEF ListTypeOK
<1>5. ASSUME NEW shown, NEW id \in Ids, Past(shown, id)
      PROVE  /\ Past(shown, id)'
             /\ shown[new] # table'[new] \/ ~Past(shown, new)
    BY <1>2, <1>3, <1>5 DEF Past, NoCard, Result
<1>6. ASSUME NEW f, NEW id \in Ids, id # new, Listed(f)'[id] # NoCard
      PROVE  Listed(f)[id] # NoCard
    <2>1. CASE Insert(new)
        BY <1>1, <1>6, <2>1, InsertNarrows
    <2>2. CASE Close(new)
        <3>1. Shown(table') = Shown(table)
            BY <1>3, <2>2 DEF Close, Shown, NoCard
        <3>2. Newest' = Newest
            BY <3>1 DEF Newest
        <3> QED
            BY <1>3, <1>6, <3>2 DEF Listed
    <2> QED
        BY <2>1, <2>2
<1>7. ASSUME NEW earlier, NEW later, NEW f, KeepsFrom(earlier, later, f),
             \A id \in Ids : Past(earlier, id)
      PROVE  KeepsFrom(earlier, later, f)'
    <2> SUFFICES ASSUME NEW id \in Ids, earlier[id] # NoCard, Matches(f, earlier[id]),
                        Listed(f)'[id] # NoCard
                 PROVE  later[id] # NoCard
        BY DEF KeepsFrom
    <2>1. CASE id # new
        BY <1>6, <1>7, <2>1 DEF KeepsFrom
    <2>2. CASE id = new
        <3>1. table[new] = "open" /\ earlier[new] = "open" /\ Shown(table') = Shown(table)
            BY <1>3, <1>7, <2>2 DEF Past, Insert, Close, Shown, NoCard
        <3>2. Newest' = Newest
            BY <3>1 DEF Newest
        <3>3. Listed(f)[new] # NoCard
            BY <2>2, <3>1, <3>2 DEF Listed, NoCard
        <3> QED
            BY <1>7, <2>2, <3>3 DEF KeepsFrom
    <2> QED
        BY <2>1, <2>2
<1>8. /\ \A id \in Ids : Past(cards, id)'
      /\ \A i \in DOMAIN answers : \A id \in Ids : Past(answers[i].items, id)'
    BY <1>1, <1>5 DEF ListInv, Past
<1>9. \A i \in DOMAIN answers :
          ~answers[i].overtaken => KeepsFrom(cards, answers[i].items, answers[i].for)'
    BY <1>1, <1>7 DEF ListInv, KeepsFrom
<1>10. \A i, k \in DOMAIN answers :
          i < k => KeepsFrom(answers[i].items, answers[k].items, answers[k].for)'
    BY <1>1, <1>7 DEF ListInv, KeepsFrom
<1> QED
    BY <1>1, <1>4, <1>8, <1>9, <1>10 DEF ListInv

(* With the table unchanged, the invariant of the next state can be seen   *)
(* from this one.                                                          *)
LEMMA SameTableSameList ==
    ASSUME table' = table, ListTypeOK',
           \A id \in Ids : Past(cards', id),
           \A i \in DOMAIN answers' : \A id \in Ids : Past(answers'[i].items, id),
           \A i \in DOMAIN answers' : ~answers'[i].overtaken =>
                KeepsFrom(cards', answers'[i].items, answers'[i].for),
           \A i, k \in DOMAIN answers' : i < k =>
                KeepsFrom(answers'[i].items, answers'[k].items, answers'[k].for)
    PROVE  ListInv'
<1>1. \A f : Listed(f)' = Listed(f)
    BY DEF Listed, Newest, Shown
<1>2. \A id \in Ids : Past(cards, id)'
    BY DEF Past
<1>3. \A i \in DOMAIN answers' : \A id \in Ids : Past(answers[i].items, id)'
    BY DEF Past
<1>4. ASSUME NEW i \in DOMAIN answers', ~answers'[i].overtaken
      PROVE  KeepsFrom(cards, answers[i].items, answers[i].for)'
    <2>1. KeepsFrom(cards', answers'[i].items, answers'[i].for)
        BY <1>4
    <2> QED
        BY <1>1, <2>1 DEF KeepsFrom
<1>5. ASSUME NEW i \in DOMAIN answers', NEW k \in DOMAIN answers', i < k
      PROVE  KeepsFrom(answers[i].items, answers[k].items, answers[k].for)'
    <2>1. KeepsFrom(answers'[i].items, answers'[k].items, answers'[k].for)
        BY <1>5
    <2> QED
        BY <1>1, <2>1 DEF KeepsFrom
<1> QED
    BY <1>2, <1>3, <1>4, <1>5 DEF ListInv

LEMMA ServeKeepsList == \A f \in Filters : ListInv /\ Serve(f) => ListInv'
<1> SUFFICES ASSUME NEW f \in Filters, ListInv, Serve(f) PROVE ListInv'
    OBVIOUS
<1> DEFINE n == Len(answers)
           new == [for |-> f, items |-> Listed(f), overtaken |-> FALSE]
<1>1. ListTypeOK /\ UNCHANGED <<table, cards>> /\ answers' = Append(answers, new)
    BY DEF ListInv, Serve
<1>2. \A id \in Ids : Listed(f)[id] = table[id] \/ Listed(f)[id] = NoCard
    BY DEF Listed
<1>3. new \in Answer
    <2>1. Listed(f) \in [Ids -> Result \cup {NoCard}]
        BY <1>1 DEF Listed, ListTypeOK
    <2> QED
        BY <2>1 DEF Answer
<1>4. /\ answers' \in Seq(Answer) /\ n \in Nat /\ DOMAIN answers = 1..n
      /\ DOMAIN answers' = 1..(n + 1) /\ answers'[n + 1] = new
      /\ \A i \in 1..n : answers'[i] = answers[i]
    <2> HIDE DEF new
    <2> QED
        BY <1>1, <1>3 DEF ListTypeOK
<1>5. \A earlier : KeepsFrom(earlier, new.items, new.for)
    BY <1>2 DEF KeepsFrom
<1>6. \A id \in Ids : Past(new.items, id)
    BY <1>2 DEF Past
<1>7. ~new.overtaken
    OBVIOUS
<1> HIDE DEF n, new
<1>8. \A i \in 1..(n + 1) : i \in 1..n \/ i = n + 1
    BY <1>4
<1>9. /\ \A i \in DOMAIN answers' : \A id \in Ids : Past(answers'[i].items, id)
      /\ \A i \in DOMAIN answers' :
            ~answers'[i].overtaken => KeepsFrom(cards, answers'[i].items, answers'[i].for)
    BY <1>4, <1>5, <1>6, <1>8 DEF ListInv
<1>10. ASSUME NEW i \in DOMAIN answers', NEW k \in DOMAIN answers', i < k
       PROVE  KeepsFrom(answers'[i].items, answers'[k].items, answers'[k].for)
    <2>1. CASE k = n + 1
        BY <1>4, <1>5, <2>1
    <2>2. CASE k \in 1..n
        <3>1. i \in 1..n
            BY <1>4, <1>10, <2>2
        <3> QED
            BY <1>4, <1>10, <2>2, <3>1 DEF ListInv
    <2> QED
        BY <1>4, <1>8, <2>1, <2>2
<1>11. ListTypeOK'
    BY <1>1, <1>4 DEF ListTypeOK, Shown
<1>12. \A id \in Ids : Past(cards, id)
    BY DEF ListInv
<1> QED
    BY <1>1, <1>9, <1>10, <1>11, <1>12, SameTableSameList

(* What is rendered came before what may still be rendered in its turn.    *)
LEMMA ApplyKeepsList == \A i : ListInv /\ Apply(i) => ListInv'
<1> SUFFICES ASSUME NEW i, ListInv, Apply(i) PROVE ListInv'
    OBVIOUS
<1> DEFINE n == Len(answers)
           marked == [j \in DOMAIN answers |->
                        [answers[j] EXCEPT !.overtaken = @ \/ j < i]]
           from(j) == IF j < i THEN j ELSE j + 1
<1>1. /\ ListTypeOK /\ table' = table /\ i \in DOMAIN answers
      /\ cards' = answers[i].items /\ answers' = RemoveAt(marked, i)
    BY DEF ListInv, Apply, Render, Rendered
<1>2. n \in Nat /\ DOMAIN answers = 1..n /\ i \in 1..n /\ \A j \in 1..n : answers[j] \in Answer
    BY <1>1 DEF ListTypeOK
<1>3. marked \in Seq(Answer) /\ Len(marked) = n
    <2>1. ASSUME NEW j \in 1..n
          PROVE  [answers[j] EXCEPT !.overtaken = @ \/ j < i] \in Answer
        BY <1>2 DEF Answer
    <2>2. marked \in [1..n -> Answer]
        BY <1>2, <2>1
    <2> HIDE DEF marked, n
    <2> QED
        BY <1>2, <2>2
<1>4. ASSUME NEW j \in 1..n
      PROVE  /\ marked[j].items = answers[j].items /\ marked[j].for = answers[j].for
             /\ marked[j].overtaken <=> (answers[j].overtaken \/ j < i)
    BY <1>2 DEF Answer
<1>5. /\ answers' \in Seq(Answer) /\ Len(answers') = n - 1
      /\ \A j \in 1..(n - 1) : answers'[j] = IF j < i THEN marked[j] ELSE marked[j + 1]
    <2> HIDE DEF marked, n
    <2> QED
        BY <1>1, <1>2, <1>3, RemoveAtIs
<1>6. DOMAIN answers' = 1..(n - 1)
    <2> HIDE DEF n
    <2> QED
        BY <1>2, <1>5
<1> HIDE DEF marked, n
<1>7. ASSUME NEW j \in DOMAIN answers'
      PROVE  /\ from(j) \in 1..n
             /\ answers'[j].items = answers[from(j)].items
             /\ answers'[j].for = answers[from(j)].for
             /\ ~answers'[j].overtaken => i < from(j)
    <2>1. from(j) \in 1..n /\ answers'[j] = marked[from(j)] /\ from(j) # i
        BY <1>2, <1>5, <1>6
    <2> HIDE DEF from
    <2> QED
        BY <1>2, <1>4, <2>1
<1>8. ASSUME NEW j \in DOMAIN answers', NEW k \in DOMAIN answers', j < k
      PROVE  from(j) < from(k)
    BY <1>2, <1>6, <1>8
<1> HIDE DEF from
<1>10. \A j \in DOMAIN answers' :
          ~answers'[j].overtaken => KeepsFrom(cards', answers'[j].items, answers'[j].for)
    BY <1>1, <1>2, <1>7 DEF ListInv
<1>11. \A j, k \in DOMAIN answers' :
          j < k => KeepsFrom(answers'[j].items, answers'[k].items, answers'[k].for)
    BY <1>2, <1>7, <1>8 DEF ListInv
<1>12. /\ \A id \in Ids : Past(cards', id)
       /\ \A j \in DOMAIN answers' : \A id \in Ids : Past(answers'[j].items, id)
    BY <1>1, <1>2, <1>7 DEF ListInv
<1>13. ListTypeOK'
    BY <1>1, <1>5 DEF ListTypeOK, Shown
<1> QED
    BY <1>1, <1>10, <1>11, <1>12, <1>13, SameTableSameList

LEMMA ListInvStep == ListInv /\ [PageNext]_pageVars => ListInv'
<1> SUFFICES ASSUME ListInv, [PageNext]_pageVars PROVE ListInv'
    OBVIOUS
<1>1. CASE UNCHANGED <<table, answers, cards>>
    BY <1>1 DEF ListInv, ListTypeOK, Past, KeepsFrom, Listed, Newest, Shown
<1>2. ASSUME NEW id \in Ids, ToggleClosed(id) \/ ToggleOpen(id) \/ FetchEnds(id)
      PROVE  ListInv'
    BY <1>1, <1>2 DEF ToggleClosed, ToggleOpen, FetchEnds, list
<1>3. ASSUME NEW f \in Filters, ChangeFilter(f) \/ Lost(f) PROVE ListInv'
    BY <1>1, <1>3 DEF ChangeFilter, Lost
<1>4. CASE Poll \/ UNCHANGED pageVars
    BY <1>1, <1>4 DEF Poll, pageVars, list
<1> QED
    BY <1>2, <1>3, <1>4, TableKeepsList, ServeKeepsList, ApplyKeepsList DEF PageNext

-----------------------------------------------------------------------------
(* The polls on their way, counted one by one. *)
PollsInv ==
    /\ filter \in Filters
    /\ asked \in [Filters -> Nat]
    /\ IsFiniteSet(Unanswered)
    /\ answers \in Seq(Answer)
    /\ OnTheirWay <= MaxPolls

LEMMA CountedOut ==
    ASSUME NEW S, NEW x, IsFiniteSet(S)
    PROVE  /\ Cardinality(S) \in Nat
           /\ IsFiniteSet(S \cup {x}) /\ IsFiniteSet(S \ {x})
           /\ x \notin S => Cardinality(S \cup {x}) = Cardinality(S) + 1
           /\ x \in S => Cardinality(S \ {x}) = Cardinality(S) - 1
    BY FS_AddElement, FS_RemoveElement, FS_CardinalityType

LEMMA UnansweredIs ==
    ASSUME asked \in [Filters -> Nat], NEW x
    PROVE  x \in Unanswered <=>
              \E f \in Filters : \E k \in Nat : k >= 1 /\ k <= asked[f] /\ x = <<f, k>>
<1>1. ASSUME NEW f \in Filters, NEW k PROVE
        k \in 1..asked[f] <=> k \in Nat /\ k >= 1 /\ k <= asked[f]
    OBVIOUS
<1> QED
    BY <1>1 DEF Unanswered

LEMMA PollCounted ==
    ASSUME PollsInv, NEW f \in Filters, asked' = [asked EXCEPT ![f] = @ + 1]
    PROVE  /\ asked' \in [Filters -> Nat] /\ IsFiniteSet(Unanswered')
           /\ Cardinality(Unanswered') = Cardinality(Unanswered) + 1
           /\ Cardinality(Unanswered) \in Nat
<1> DEFINE n == asked[f] + 1
<1>1. asked \in [Filters -> Nat] /\ asked' \in [Filters -> Nat]
    BY DEF PollsInv
<1>2. n \in Nat /\ n >= 1 /\ asked'[f] = n /\ \A g \in Filters : g # f => asked'[g] = asked[g]
    BY <1>1
<1>3. ASSUME NEW x PROVE x \in Unanswered' <=> x \in Unanswered \cup {<<f, n>>}
    <2>1. x \in Unanswered' <=>
            \E g \in Filters : \E k \in Nat : k >= 1 /\ k <= asked'[g] /\ x = <<g, k>>
        <3>1. ASSUME NEW g \in Filters, NEW k PROVE
                k \in 1..asked'[g] <=> k \in Nat /\ k >= 1 /\ k <= asked'[g]
            BY <1>1
        <3> QED
            BY <3>1 DEF Unanswered
    <2>2. \A k \in Nat : k <= n <=> k <= asked[f] \/ k = n
        BY <1>1
    <2> HIDE DEF n
    <2> QED
        BY <1>1, <1>2, <2>1, <2>2, UnansweredIs
<1>4. <<f, n>> \notin Unanswered
    BY <1>1, UnansweredIs
<1> HIDE DEF n
<1>5. Unanswered' = Unanswered \cup {<<f, n>>}
    BY <1>3
<1> QED
    BY <1>1, <1>4, <1>5, CountedOut DEF PollsInv

LEMMA AnswerCounted ==
    ASSUME PollsInv, NEW f \in Filters, asked[f] > 0, asked' = [asked EXCEPT ![f] = @ - 1]
    PROVE  /\ asked' \in [Filters -> Nat] /\ IsFiniteSet(Unanswered')
           /\ Cardinality(Unanswered') = Cardinality(Unanswered) - 1
           /\ Cardinality(Unanswered) \in Nat
<1> DEFINE n == asked[f]
<1>1. asked \in [Filters -> Nat] /\ asked' \in [Filters -> Nat]
    BY DEF PollsInv
<1>2. /\ n \in Nat /\ n >= 1 /\ asked'[f] = n - 1
      /\ \A g \in Filters : g # f => asked'[g] = asked[g]
    BY <1>1
<1>3. ASSUME NEW x PROVE x \in Unanswered' <=> x \in Unanswered \ {<<f, n>>}
    <2>1. x \in Unanswered' <=>
            \E g \in Filters : \E k \in Nat : k >= 1 /\ k <= asked'[g] /\ x = <<g, k>>
        <3>1. ASSUME NEW g \in Filters, NEW k PROVE
                k \in 1..asked'[g] <=> k \in Nat /\ k >= 1 /\ k <= asked'[g]
            BY <1>1
        <3> QED
            BY <3>1 DEF Unanswered
    <2>2. \A k \in Nat : k <= n - 1 <=> k <= asked[f] /\ k # n
        BY <1>1
    <2> HIDE DEF n
    <2> QED
        BY <1>1, <1>2, <2>1, <2>2, UnansweredIs
<1>4. <<f, n>> \in Unanswered
    BY <1>1, <1>2, UnansweredIs
<1> HIDE DEF n
<1>5. Unanswered' = Unanswered \ {<<f, n>>}
    BY <1>3
<1> QED
    BY <1>1, <1>4, <1>5, CountedOut DEF PollsInv

LEMMA PollsInvInit == PageInit => PollsInv
<1> SUFFICES ASSUME PageInit PROVE PollsInv
    OBVIOUS
<1>1. asked \in [Filters -> Nat] /\ filter \in Filters
      /\ \A f \in Filters : asked[f] = IF f = filter THEN 1 ELSE 0
    BY DEF PageInit
<1>2. ASSUME NEW x PROVE x \in Unanswered <=> x = <<filter, 1>>
    <2>1. \A f \in Filters, k \in Nat : k >= 1 /\ k <= asked[f] <=> f = filter /\ k = 1
        BY <1>1
    <2> QED
        BY <1>1, <2>1, UnansweredIs
<1>3. Unanswered = {<<filter, 1>>}
    BY <1>2
<1>4. answers \in Seq(Answer) /\ Len(answers) = 0
    BY DEF PageInit
<1>5. IsFiniteSet(Unanswered) /\ Cardinality(Unanswered) = 1
    BY <1>3, FS_Singleton
<1> QED
    BY <1>1, <1>4, <1>5, BoundsAssumption DEF PollsInv, OnTheirWay

LEMMA PollsInvStep == ListInv' /\ PollsInv /\ [PageNext]_pageVars => PollsInv'
<1> SUFFICES ASSUME ListInv', PollsInv, [PageNext]_pageVars PROVE PollsInv'
    OBVIOUS
<1>0. /\ answers' \in Seq(Answer) /\ answers \in Seq(Answer) /\ filter \in Filters
      /\ Len(answers) \in Nat /\ MaxPolls \in Nat
      /\ Cardinality(Unanswered) \in Nat
      /\ Len(answers) + Cardinality(Unanswered) <= MaxPolls
    <2>1. Cardinality(Unanswered) \in Nat
        BY FS_CardinalityType DEF PollsInv
    <2> QED
        BY <2>1, BoundsAssumption DEF PollsInv, ListInv, ListTypeOK, OnTheirWay
<1>1. CASE UNCHANGED list
    BY <1>1 DEF list, PollsInv, OnTheirWay, Unanswered
<1>2. ASSUME NEW f \in Filters, Ask(f), UNCHANGED answers, filter' \in Filters
      PROVE  PollsInv'
    <2>1. /\ asked' = [asked EXCEPT ![f] = @ + 1]
          /\ Len(answers) + Cardinality(Unanswered) < MaxPolls
        BY <1>2 DEF Ask, OnTheirWay
    <2>2. /\ asked' \in [Filters -> Nat] /\ IsFiniteSet(Unanswered')
          /\ Cardinality(Unanswered') = Cardinality(Unanswered) + 1
        BY <2>1, PollCounted
    <2>3. Len(answers') + Cardinality(Unanswered') <= MaxPolls
        BY <1>0, <1>2, <2>1, <2>2
    <2> QED
        BY <1>0, <1>2, <2>2, <2>3 DEF PollsInv, OnTheirWay
<1>3. ASSUME NEW f \in Filters, Serve(f) \/ Lost(f) PROVE PollsInv'
    <2>1. /\ asked' = [asked EXCEPT ![f] = @ - 1] /\ asked[f] > 0 /\ filter' = filter
        BY <1>3 DEF Serve, Lost
    <2>2. /\ asked' \in [Filters -> Nat] /\ IsFiniteSet(Unanswered')
          /\ Cardinality(Unanswered') = Cardinality(Unanswered) - 1
        BY <2>1, AnswerCounted
    <2>3. Len(answers') <= Len(answers) + 1 /\ Len(answers') \in Nat
        <3>1. answers' = answers \/ \E a : answers' = Append(answers, a)
            BY <1>3 DEF Serve, Lost
        <3> QED
            BY <1>0, <3>1
    <2>4. Len(answers') + Cardinality(Unanswered') <= MaxPolls
        BY <1>0, <2>2, <2>3
    <2> QED
        BY <1>0, <2>1, <2>2, <2>4 DEF PollsInv, OnTheirWay
<1>4. ASSUME NEW i, Apply(i) PROVE PollsInv'
    <2>1. /\ i \in DOMAIN answers /\ filter' = filter /\ asked' = asked
          /\ answers' = RemoveAt([j \in DOMAIN answers |->
                            [answers[j] EXCEPT !.overtaken = @ \/ j < i]], i)
        BY <1>4 DEF Apply
    <2> DEFINE marked == [j \in DOMAIN answers |->
                            [answers[j] EXCEPT !.overtaken = @ \/ j < i]]
               S == {marked[j] : j \in DOMAIN answers}
    <2>2. marked \in Seq(S) /\ Len(marked) = Len(answers)
        <3>1. DOMAIN answers = 1..Len(answers) /\ Len(answers) \in Nat
            BY <1>0
        <3>2. marked \in [1..Len(answers) -> S]
            BY <3>1
        <3> HIDE DEF marked, S
        <3> QED
            BY <3>1, <3>2
    <2>3. i \in 1..Len(marked)
        BY <1>0, <2>1, <2>2
    <2> HIDE DEF marked, S
    <2>4. Len(answers') = Len(answers) - 1
        BY <2>1, <2>2, <2>3, RemoveAtIs DEF marked
    <2>5. Unanswered' = Unanswered
        BY <2>1 DEF Unanswered
    <2>6. Len(answers') + Cardinality(Unanswered') <= MaxPolls
        BY <1>0, <2>4, <2>5
    <2> QED
        BY <1>0, <2>1, <2>5, <2>6 DEF PollsInv, OnTheirWay
<1>5. ASSUME NEW id \in Ids, \/ Insert(id) \/ Close(id)
                             \/ ToggleClosed(id) \/ ToggleOpen(id) \/ FetchEnds(id)
      PROVE  PollsInv'
    BY <1>1, <1>5 DEF Insert, Close, ToggleClosed, ToggleOpen, FetchEnds
<1>6. CASE Poll
    BY <1>0, <1>2, <1>6 DEF Poll
<1>7. ASSUME NEW f \in Filters, ChangeFilter(f) PROVE PollsInv'
    BY <1>2, <1>7 DEF ChangeFilter
<1>8. CASE UNCHANGED pageVars
    BY <1>1, <1>8 DEF pageVars
<1> QED
    BY <1>3, <1>4, <1>5, <1>6, <1>7, <1>8 DEF PageNext

-----------------------------------------------------------------------------
(* A set of numbers that is not empty has a least member.                  *)
LEMMA LeastNumber ==
    ASSUME NEW T, T \subseteq Nat, T # {}
    PROVE  \E m \in T : \A n \in T : m <= n
<1> DEFINE R == {ss \in Nat \X Nat : ss[1] < ss[2]}
<1>1. IsWellFoundedOn(R, Nat)
    BY NatLessThanWellFounded DEF OpToRel
<1> HIDE DEF R
<1>2. PICK m \in T : \A n \in T : <<n, m>> \notin R
    BY <1>1, WFMin
<1>3. ASSUME NEW n \in T PROVE m <= n
    <2>1. ~(n < m)
        BY <1>2 DEF R
    <2> QED
        BY <2>1
<1> QED
    BY <1>3

WithinLimit(items) == IsFiniteSet(Shown(items)) /\ Cardinality(Shown(items)) <= Limit

(* LIMIT: the oldest of the rows with fewer than Limit newer ones has all  *)
(* the others above it.                                                    *)
LEMMA NewestWithinLimit ==
    ASSUME IsFiniteSet(Shown(table))
    PROVE  IsFiniteSet(Newest) /\ Cardinality(Newest) <= Limit
<1>1. IsFiniteSet(Newest) /\ Newest \subseteq Nat
    BY FS_Subset, IdsAssumption DEF Newest, Shown
<1>2. CASE Newest = {}
    BY <1>1, <1>2, FS_EmptySet, LimitAssumption
<1>3. CASE Newest # {}
    <2>1. PICK m \in Newest : \A n \in Newest : m <= n
        BY <1>1, <1>3, LeastNumber
    <2> DEFINE above == {newer \in Shown(table) : newer > m}
    <2>2. IsFiniteSet(above) /\ Cardinality(above) < Limit
        BY <2>1, FS_Subset DEF Newest
    <2>3. Newest \subseteq above \cup {m}
        <3>1. ASSUME NEW n \in Newest, n # m PROVE n \in above
            <4>1. n \in Nat /\ m \in Nat /\ m <= n
                BY <1>1, <2>1
            <4>2. n > m
                BY <3>1, <4>1
            <4> QED
                BY <4>2 DEF Newest
        <3> QED
            BY <3>1
    <2> HIDE DEF above
    <2>4. /\ IsFiniteSet(above \cup {m}) /\ Cardinality(above) \in Nat
          /\ Cardinality(above \cup {m}) <= Cardinality(above) + 1
        <3>1. Cardinality(above) \in Nat
            BY <2>2, FS_CardinalityType
        <3> QED
            <4>1. /\ IsFiniteSet(above \cup {m})
                  /\ \/ Cardinality(above \cup {m}) = Cardinality(above)
                     \/ Cardinality(above \cup {m}) = Cardinality(above) + 1
                BY <2>2, FS_AddElement
            <4> QED
                BY <3>1, <4>1
    <2>5. Cardinality(Newest) <= Cardinality(above \cup {m})
        BY <2>3, <2>4, FS_Subset
    <2>6. Cardinality(Newest) \in Nat /\ Cardinality(above \cup {m}) \in Nat
        BY <1>1, <2>4, FS_CardinalityType
    <2> QED
        BY <1>1, <2>2, <2>4, <2>5, <2>6, LimitAssumption
<1> QED
    BY <1>2, <1>3

LEMMA ListedWithinLimit ==
    ASSUME IsFiniteSet(Shown(table)), NEW f
    PROVE  WithinLimit(Listed(f))
<1>1. Shown(Listed(f)) \in SUBSET Newest
    BY DEF Shown, Listed
<1>2. IsFiniteSet(Newest) /\ Cardinality(Newest) <= Limit
    BY NewestWithinLimit
<1>3. /\ IsFiniteSet(Shown(Listed(f))) /\ Cardinality(Shown(Listed(f))) <= Cardinality(Newest)
      /\ Cardinality(Newest) \in Nat /\ Cardinality(Shown(Listed(f))) \in Nat
    BY <1>1, <1>2, FS_Subset, FS_CardinalityType
<1> QED
    BY <1>2, <1>3, LimitAssumption DEF WithinLimit

(* What hangs on a card goes with it, and neither the page nor an answer   *)
(* holds more cards than were asked for.                                   *)
ShownInv ==
    /\ cards \in [Ids -> Result \cup {NoCard}]
    /\ expanded \subseteq Shown(cards) /\ loaded \subseteq Shown(cards)
    /\ pending \in [Ids -> 0..MaxFetches]
    /\ \A id \in Ids : pending[id] > 0 => id \in Shown(cards)
    /\ WithinLimit(cards)
    /\ \A i \in DOMAIN answers : WithinLimit(answers[i].items)

LEMMA ShownInvInit == PageInit => ShownInv
<1> SUFFICES ASSUME PageInit PROVE ShownInv
    OBVIOUS
<1>1. Shown(cards) = {} /\ DOMAIN answers = {}
    BY DEF PageInit, Shown
<1>2. WithinLimit(cards)
    BY <1>1, FS_EmptySet, LimitAssumption DEF WithinLimit
<1> QED
    BY <1>1, <1>2, BoundsAssumption DEF PageInit, ShownInv

LEMMA ApplyKeepsShown ==
    ASSUME DetailInv, ListInv, ShownInv, NEW i, Apply(i)
    PROVE  ShownInv'
<1> DEFINE removed == Shown(cards) \ Shown(cards')
           n == Len(answers)
           marked == [j \in DOMAIN answers |->
                        [answers[j] EXCEPT !.overtaken = @ \/ j < i]]
<1>1. /\ i \in DOMAIN answers /\ cards' = answers[i].items /\ answers \in Seq(Answer)
      /\ answers' = RemoveAt(marked, i)
    BY DEF Apply, Render, Rendered, ListInv, ListTypeOK
<1>2. n \in Nat /\ DOMAIN answers = 1..n /\ i \in 1..n /\ \A j \in 1..n : answers[j] \in Answer
    BY <1>1
<1>3. /\ cards' \in [Ids -> Result \cup {NoCard}] /\ WithinLimit(cards')
    BY <1>1, <1>2 DEF Answer, ShownInv
<1>4. /\ expanded' = expanded \ removed /\ loaded' = loaded \ removed
      /\ pending' = [id \in Ids |-> IF id \in removed THEN 0 ELSE pending[id]]
    BY DEF Apply, Render, SyncExpandedState
<1>5. marked \in Seq(Answer) /\ Len(marked) = n
    <2>1. ASSUME NEW j \in 1..n
          PROVE  [answers[j] EXCEPT !.overtaken = @ \/ j < i] \in Answer
        BY <1>2 DEF Answer
    <2>2. marked \in [1..n -> Answer]
        BY <1>2, <2>1
    <2> HIDE DEF marked, n
    <2> QED
        BY <1>2, <2>2
<1>6. \A j \in 1..n : marked[j].items = answers[j].items
    BY <1>2 DEF Answer
<1> HIDE DEF marked, n
<1>7. /\ answers' \in Seq(Answer) /\ Len(answers') = n - 1
      /\ \A j \in 1..(n - 1) : answers'[j] = IF j < i THEN marked[j] ELSE marked[j + 1]
    BY <1>1, <1>2, <1>5, RemoveAtIs
<1>8. ASSUME NEW j \in DOMAIN answers' PROVE WithinLimit(answers'[j].items)
    <2>1. PICK k \in 1..n : answers'[j] = marked[k]
        BY <1>2, <1>7
    <2> QED
        BY <1>2, <1>6, <2>1 DEF ShownInv
<1> HIDE DEF removed
<1>9. pending' \in [Ids -> 0..MaxFetches]
    BY <1>4, BoundsAssumption DEF ShownInv
<1>10. /\ expanded' \subseteq Shown(cards') /\ loaded' \subseteq Shown(cards')
       /\ \A id \in Ids : pending'[id] > 0 => id \in Shown(cards')
    BY <1>4 DEF ShownInv, removed
<1> QED
    BY <1>3, <1>8, <1>9, <1>10 DEF ShownInv, WithinLimit, Shown

LEMMA ShownInvStep == DetailInv /\ ListInv /\ ShownInv /\ [PageNext]_pageVars => ShownInv'
<1> SUFFICES ASSUME DetailInv, ListInv, ShownInv, [PageNext]_pageVars PROVE ShownInv'
    OBVIOUS
<1>1. CASE UNCHANGED <<answers, cards, expanded, loaded, pending>>
    BY <1>1 DEF ShownInv, WithinLimit, Shown
<1>2. ASSUME NEW id \in Ids, ToggleClosed(id) PROVE ShownInv'
    BY <1>2 DEF ToggleClosed, list, ShownInv, WithinLimit, Shown
<1>3. ASSUME NEW id \in Ids, ToggleOpen(id) PROVE ShownInv'
    <2>1. /\ id \in Shown(cards) /\ expanded' = expanded \cup {id}
          /\ UNCHANGED <<cards, loaded, answers>>
          /\ \/ pending' = pending
             \/ pending[id] < MaxFetches /\ pending' = [pending EXCEPT ![id] = @ + 1]
        BY <1>3 DEF ToggleOpen, list
    <2>2. pending' \in [Ids -> 0..MaxFetches]
        BY <2>1, BoundsAssumption DEF ShownInv
    <2>3. \A o \in Ids : pending'[o] > 0 => o \in Shown(cards)
        BY <2>1 DEF ShownInv
    <2> QED
        BY <2>1, <2>2, <2>3 DEF ShownInv, WithinLimit, Shown
<1>4. ASSUME NEW id \in Ids, FetchEnds(id) PROVE ShownInv'
    <2>1. /\ pending[id] > 0 /\ pending' = [pending EXCEPT ![id] = @ - 1]
          /\ loaded' \in {loaded, loaded \cup {id}}
          /\ UNCHANGED <<cards, expanded, answers>>
        BY <1>4 DEF FetchEnds, list
    <2>2. pending' \in [Ids -> 0..MaxFetches]
        BY <2>1, BoundsAssumption DEF ShownInv
    <2>3. id \in Shown(cards) /\ \A o \in Ids : pending'[o] > 0 => o \in Shown(cards)
        BY <2>1, BoundsAssumption DEF ShownInv
    <2> QED
        BY <2>1, <2>2, <2>3 DEF ShownInv, WithinLimit, Shown
<1>5. ASSUME NEW f \in Filters, Serve(f) PROVE ShownInv'
    <2> DEFINE new == [for |-> f, items |-> Listed(f), overtaken |-> FALSE]
    <2>1. /\ answers' = Append(answers, new) /\ answers \in Seq(Answer)
          /\ UNCHANGED <<cards, expanded, loaded, pending>>
          /\ IsFiniteSet(Shown(table))
        BY <1>5 DEF Serve, detail, ListInv, ListTypeOK
    <2>2. WithinLimit(new.items)
        BY <2>1, ListedWithinLimit
    <2> HIDE DEF new
    <2>3. ASSUME NEW j \in DOMAIN answers'
          PROVE  \/ answers'[j] = new
                 \/ j \in DOMAIN answers /\ answers'[j] = answers[j]
        <3>1. /\ DOMAIN answers = 1..Len(answers) /\ Len(answers) \in Nat
              /\ DOMAIN answers' = 1..(Len(answers) + 1)
            BY <2>1
        <3>2. j = Len(answers) + 1 \/ j \in 1..Len(answers)
            BY <3>1
        <3> QED
            BY <2>1, <3>1, <3>2
    <2>4. \A j \in DOMAIN answers' : WithinLimit(answers'[j].items)
        BY <2>2, <2>3 DEF ShownInv
    <2> QED
        BY <2>1, <2>4 DEF ShownInv, WithinLimit, Shown
<1>6. ASSUME NEW id \in Ids, Insert(id) \/ Close(id) PROVE ShownInv'
    BY <1>1, <1>6 DEF Insert, Close, list, detail
<1>7. ASSUME NEW f \in Filters, ChangeFilter(f) \/ Lost(f) PROVE ShownInv'
    BY <1>1, <1>7 DEF ChangeFilter, Lost, detail
<1>8. CASE Poll
    BY <1>1, <1>8 DEF Poll, detail
<1>9. CASE UNCHANGED pageVars
    BY <1>1, <1>9 DEF pageVars, list, detail
<1> QED
    BY <1>2, <1>3, <1>4, <1>5, <1>6, <1>7, <1>8, <1>9, ApplyKeepsShown DEF PageNext

(* However late it comes, an answer that no later one has overtaken closes *)
(* no detail of a request that the filter it was asked for lists, as it is *)
(* shown and as the table has it (app.js: renderRequestStream,             *)
(* syncExpandedState).                                                     *)
THEOREM AnswersKeepOpen == PageSpec => TimelyAnswerKeepsOpen
<1> DEFINE Inv == DetailInv /\ ListInv /\ ShownInv
<1>1. ASSUME Inv, NEW i \in DOMAIN answers, Apply(i), ~answers[i].overtaken,
             NEW id \in visible, Matches(answers[i].for, cards[id]),
             Listed(answers[i].for)[id] # NoCard
      PROVE  id \in visible'
    <2>1. id \in Ids /\ visible = expanded /\ id \in Shown(cards)
        BY <1>1 DEF DetailInv, NeverStuckLoading, ShownInv
    <2>2. answers[i].items[id] # NoCard
        BY <1>1, <2>1 DEF ListInv, KeepsFrom, Shown
    <2>3. id \in Shown(cards')
        BY <1>1, <2>1, <2>2 DEF Apply, Render, Rendered, Shown
    <2> QED
        BY <1>1, <2>1, <2>3 DEF Apply, Render, SyncExpandedState
<1>2. Inv /\ [PageNext]_pageVars =>
        [\A i \in DOMAIN answers :
            Apply(i) /\ ~answers[i].overtaken =>
                \A id \in visible :
                    /\ Matches(answers[i].for, cards[id])
                    /\ Listed(answers[i].for)[id] # NoCard
                    => id \in visible']_pageVars
    BY <1>1
<1>3. PageInit => Inv
    BY DetailInvInit, ListInvInit, ShownInvInit
<1>4. Inv /\ [PageNext]_pageVars => Inv'
    BY DetailInvStep, ListInvStep, ShownInvStep
<1> QED
    BY <1>2, <1>3, <1>4, PTL DEF PageSpec, TimelyAnswerKeepsOpen

LEMMA AskedWithinBound ==
    ASSUME PollsInv
    PROVE  asked \in [Filters -> 0..MaxPolls]
<1>1. ASSUME NEW f \in Filters PROVE asked[f] <= MaxPolls
    <2> DEFINE n == asked[f]
               S == {f} \X (1..n)
               b == [k \in 1..n |-> <<f, k>>]
    <2>1. n \in Nat
        BY DEF PollsInv
    <2>2. b \in Bijection(1..n, S)
        BY DEF Bijection, Injection, Surjection, IsInjective
    <2>3. Cardinality(S) = n
        BY <2>1, <2>2, FS_CountingElements DEF ExistsBijection
    <2>4. S \in SUBSET Unanswered
        BY DEF Unanswered
    <2>5. Cardinality(S) <= Cardinality(Unanswered) /\ Cardinality(Unanswered) \in Nat
        BY <2>4, FS_Subset, FS_CardinalityType DEF PollsInv
    <2>6. Len(answers) \in Nat /\ Len(answers) + Cardinality(Unanswered) <= MaxPolls
        BY DEF PollsInv, OnTheirWay
    <2> HIDE DEF n, S
    <2> QED
        BY <2>1, <2>3, <2>5, <2>6, BoundsAssumption DEF n
<1> QED
    BY <1>1, BoundsAssumption DEF PollsInv

(* The page keeps nothing of a request whose card is gone, and shows no    *)
(* more requests than it asks for, however many the table holds and in     *)
(* whatever order answers come (app.js: loadRequests, syncExpandedState).  *)
THEOREM PageTypeCorrect == PageSpec => []PageTypeOK
<1> DEFINE Inv == DetailInv /\ ListInv /\ PollsInv /\ ShownInv
<1>1. Inv => PageTypeOK
    <2> SUFFICES ASSUME Inv PROVE PageTypeOK
        OBVIOUS
    <2>1. \A i \in DOMAIN answers :
            /\ answers[i].for \in Filters /\ answers[i].overtaken \in BOOLEAN
            /\ answers[i].items \in [Ids -> Result \cup {NoCard}]
        <3>1. \A i \in DOMAIN answers : answers[i] \in Answer
            BY DEF ListInv, ListTypeOK
        <3> QED
            BY <3>1 DEF Answer
    <2>2. asked \in [Filters -> 0..MaxPolls] /\ OnTheirWay <= MaxPolls
        BY AskedWithinBound DEF PollsInv
    <2> QED
        BY <2>1, <2>2
           DEF PageTypeOK, DetailInv, NeverStuckLoading, ListInv, ListTypeOK, PollsInv,
               ShownInv, WithinLimit
<1>2. PageInit => Inv
    BY DetailInvInit, ListInvInit, PollsInvInit, ShownInvInit
<1>3. Inv /\ [PageNext]_pageVars => Inv'
    BY DetailInvStep, ListInvStep, PollsInvStep, ShownInvStep
<1> QED
    BY <1>1, <1>2, <1>3, PTL DEF PageSpec
=============================================================================
