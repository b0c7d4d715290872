-------------------------------- MODULE Page --------------------------------
(***************************************************************************)
(* The requests page in the browser (internal/adminapi/static/app.js) next *)
(* to the list it shows (ListRequests of internal/store/sqlite/store.go).  *)
(*                                                                         *)
(* The page asks every second without waiting for the answer before, so    *)
(* that answers overlap: they are made from the table at one moment, in    *)
(* the sequence `answers`, and rendered in any order.  A callback of the   *)
(* page runs up to its next await without interruption.  A request id      *)
(* stands for its start time: the greater, the newer.                      *)
(***************************************************************************)
EXTENDS Naturals, Sequences, FiniteSets, SequencesExt

CONSTANTS
    Ids,            \* requests, by start time
    Filters,        \* values of the status filter that are used
    Limit,          \* rows the page asks for (200)
    MaxPolls,       \* bound on the polls and answers on their way
    MaxFetches      \* bound on the fetches under way for one card's detail

ASSUME IdsAssumption == Ids \subseteq Nat
ASSUME LimitAssumption == Limit \in Nat
ASSUME BoundsAssumption == MaxPolls \in Nat \ {0} /\ MaxFetches \in Nat
ASSUME FiltersAssumption == Filters \subseteq {"all", "success", "fail"}

VARIABLES
    table,      \* of each row in requests: its result
    filter,     \* value of the element filter-status
    asked,      \* of each filter: polls not answered yet
    answers,    \* answers on their way, in the order they were made
    cards,      \* the result each request card shows
    expanded,   \* expandedIds
    visible,    \* cards whose detail is displayed
    content,    \* of each card's element detail-content
    loaded,     \* cards whose content.dataset.loaded is '1'
    pending     \* of each card: fetches for its detail

list == <<filter, asked, answers>>
detail == <<expanded, visible, content, loaded, pending>>
pageVars == <<table, list, cards, detail>>

Result == {"open", "ok", "failed"}
NoCard == "none"

Shown(c) == {id \in Ids : c[id] # NoCard}

PageInit ==
    /\ table = [id \in Ids |-> NoCard]
    /\ filter \in Filters
    /\ asked = [f \in Filters |-> IF f = filter THEN 1 ELSE 0]
    /\ answers = <<>>
    /\ cards = [id \in Ids |-> NoCard]
    /\ expanded = {} /\ visible = {} /\ loaded = {}
    /\ content = [id \in Ids |-> "loading"]
    /\ pending = [id \in Ids |-> 0]

-----------------------------------------------------------------------------
(* The table, as the proxy writes it.  Rows appear out of order: a handler *)
(* takes its start time long before it inserts.                            *)

Insert(id) ==
    /\ table[id] = NoCard
    /\ table' = [table EXCEPT ![id] = "open"]
    /\ UNCHANGED <<list, cards, detail>>

Close(id) ==
    /\ table[id] = "open"
    /\ \E r \in {"ok", "failed"} : table' = [table EXCEPT ![id] = r]
    /\ UNCHANGED <<list, cards, detail>>

-----------------------------------------------------------------------------
(* The list *)

(* Mutant: the query loses its LIMIT. *)
NewestUnlimited == Shown(table)

Newest ==
    {id \in Shown(table) :
        Cardinality({newer \in Shown(table) : newer > id}) < Limit}

(* A request in progress has success = 0 and is listed as failed. *)
Matches(f, result) ==
    CASE f = "all" -> TRUE
      [] f = "success" -> result = "ok"
      [] f = "fail" -> result # "ok"

(* The filter is applied to the newest rows, here and not in the query. *)
Listed(f) ==
    [id \in Ids |-> IF id \in Newest /\ Matches(f, table[id])
                    THEN table[id] ELSE NoCard]

(* The polls the server has not answered, one by one. *)
Unanswered == UNION {{f} \X (1..asked[f]) : f \in Filters}

OnTheirWay == Len(answers) + Cardinality(Unanswered)

(* The filter's value is read before the fetch. *)
Ask(f) ==
    /\ OnTheirWay < MaxPolls
    /\ asked' = [asked EXCEPT ![f] = @ + 1]

Poll ==
    /\ Ask(filter)
    /\ UNCHANGED <<table, filter, answers, cards, detail>>

ChangeFilter(f) ==
    /\ f # filter
    /\ filter' = f
    /\ Ask(f)
    /\ UNCHANGED <<table, answers, cards, detail>>

Serve(f) ==
    /\ asked[f] > 0
    /\ asked' = [asked EXCEPT ![f] = @ - 1]
    /\ answers' = Append(answers, [for |-> f, items |-> Listed(f), overtaken |-> FALSE])
    /\ UNCHANGED <<table, filter, cards, detail>>

(* An error, be it of the network, the server or its database. *)
Lost(f) ==
    /\ asked[f] > 0
    /\ asked' = [asked EXCEPT ![f] = @ - 1]
    /\ UNCHANGED <<table, filter, answers, cards, detail>>

(* Mutant: cards are added and updated, as for `append`, and none goes. *)
RenderedAppending(items) ==
    [id \in Ids |-> IF items[id] = NoCard THEN cards[id] ELSE items[id]]

Rendered(items) == items

(* Mutant: the set of expanded cards starts anew. *)
SyncExpandedStateAnew(removed) == expanded' = {} /\ visible' = {}

(* Mutant: an id stays in expandedIds when its card is removed. *)
SyncExpandedStateKeeping(removed) ==
    /\ expanded' = expanded
    /\ visible' = (visible \ removed) \cup (expanded \cap Shown(cards'))

SyncExpandedState(removed) ==
    /\ expanded' = expanded \ removed
    /\ visible' = (visible \ removed) \cup expanded'

(* Cards that are not in the answer are removed, with all they had; new    *)
(* ones are made as needed, and a fetch for a removed one goes nowhere.    *)
Render(items) ==
    /\ cards' = Rendered(items)
    /\ LET removed == Shown(cards) \ Shown(cards') IN
        /\ SyncExpandedState(removed)
        /\ loaded' = loaded \ removed
        /\ content' = [id \in Ids |-> IF id \in removed THEN "loading" ELSE content[id]]
        /\ pending' = [id \in Ids |-> IF id \in removed THEN 0 ELSE pending[id]]

Apply(i) ==
    /\ i \in DOMAIN answers
    /\ Render(answers[i].items)
    /\ answers' = RemoveAt(
            [j \in DOMAIN answers |-> [answers[j] EXCEPT !.overtaken = @ \/ j < i]], i)
    /\ UNCHANGED <<table, filter, asked>>

-----------------------------------------------------------------------------
(* The details *)

ToggleClosed(id) ==
    /\ id \in visible
    /\ visible' = visible \ {id} /\ expanded' = expanded \ {id}
    /\ UNCHANGED <<table, list, cards, content, loaded, pending>>

ToggleOpen(id) ==
    /\ id \in Shown(cards) \ visible
    /\ visible' = visible \cup {id} /\ expanded' = expanded \cup {id}
    /\ IF id \in loaded
       THEN UNCHANGED <<content, pending>>
       ELSE /\ pending[id] < MaxFetches
            /\ pending' = [pending EXCEPT ![id] = @ + 1]
            /\ content' = [content EXCEPT ![id] = "loading"]
    /\ UNCHANGED <<table, list, cards, loaded>>

(* The answer for the card's element as it is.  It is shown and kept, if   *)
(* the request is still in progress, too; a second fetch, begun before the *)
(* first was answered, may replace it by an error that stays.              *)
FetchEnds(id) ==
    /\ pending[id] > 0
    /\ pending' = [pending EXCEPT ![id] = @ - 1]
    /\ \/ /\ content' = [content EXCEPT ![id] = "loaded"]
          /\ loaded' = loaded \cup {id}
       \/ /\ content' = [content EXCEPT ![id] = "failed"]
          /\ UNCHANGED loaded
    /\ UNCHANGED <<table, list, cards, expanded, visible>>

PageNext ==
    \/ \E id \in Ids : \/ Insert(id) \/ Close(id)
                       \/ ToggleClosed(id) \/ ToggleOpen(id) \/ FetchEnds(id)
    \/ Poll
    \/ \E f \in Filters : ChangeFilter(f) \/ Serve(f) \/ Lost(f)
    \/ \E i \in 1..MaxPolls : Apply(i)

(* The timer goes on, no answer is kept for ever, and asking again and     *)
(* again is answered in the end.                                           *)
PageSpec ==
    /\ PageInit /\ [][PageNext]_pageVars
    /\ WF_pageVars(Poll) /\ WF_pageVars(Apply(1))
    /\ \A f \in Filters : SF_pageVars(Serve(f))

-----------------------------------------------------------------------------
PageTypeOK ==
    /\ table \in [Ids -> Result \cup {NoCard}]
    /\ filter \in Filters
    /\ asked \in [Filters -> 0..MaxPolls] /\ OnTheirWay <= MaxPolls
    /\ \A i \in DOMAIN answers :
        /\ answers[i].for \in Filters /\ answers[i].overtaken \in BOOLEAN
        /\ answers[i].items \in [Ids -> Result \cup {NoCard}]
    /\ cards \in [Ids -> Result \cup {NoCard}]
    /\ Cardinality(Shown(cards)) <= Limit
    /\ expanded \subseteq Shown(cards) /\ visible \subseteq Shown(cards)
    /\ loaded \subseteq Shown(cards)
    /\ content \in [Ids -> {"loading", "loaded", "failed"}]
    /\ pending \in [Ids -> 0..MaxFetches]

(* A detail that is displayed and says it is loading is being loaded, and  *)
(* can be closed, whatever becomes of its card between a click and the     *)
(* answer: a card that went and came back starts closed, and no fetch for  *)
(* the old one is taken for the new one's (app.js:292, 316, 325).          *)
NeverStuckLoading ==
    /\ visible = expanded
    /\ \A id \in visible : content[id] = "loading" => pending[id] > 0

(* However late it comes, and whatever the filter is by then, an answer    *)
(* that no later one has overtaken closes no detail of a request that the  *)
(* filter it was asked for lists, by what the card shows and by what the   *)
(* table says now.  This is less than the page's code claims for itself:   *)
(* see ExpandedStateStable in PageMemory, which it breaks.                 *)
TimelyAnswerKeepsOpen ==
    [][\A i \in DOMAIN answers :
        Apply(i) /\ ~answers[i].overtaken =>
            \A id \in visible :
                /\ Matches(answers[i].for, cards[id])
                /\ Listed(answers[i].for)[id] # NoCard
                => id \in visible']_pageVars

(* Late answers and those for another filter may put an old list on the    *)
(* page, but it comes right: once filter and table rest, the page shows    *)
(* what the table lists under the filter, and goes on showing it.          *)
ListSettles ==
    \A f \in Filters : <>[](filter = f) => <>[](cards = Listed(f))
=============================================================================
