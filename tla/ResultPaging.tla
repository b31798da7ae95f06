----------------------------- MODULE ResultPaging -----------------------------
(***************************************************************************)
(* Paging a result that the backend retains (result-window.ts, the effect  *)
(* useResultGridSpillPaging, finalizeSpillRun and releaseActiveSpill): the *)
(* grid holds a few pages, asks for the ones that scroll into view, and    *)
(* drops the pages it has not looked at for longest.                       *)
(*                                                                         *)
(* A fetch is answered at any time, or fails; the grid may be scrolled and *)
(* the result replaced meanwhile.  Results are numbered, and a cell is     *)
(* known by its result and its row.                                        *)
(***************************************************************************)
EXTENDS Naturals, FiniteSets, SequencesExt, Positions

CONSTANTS
    Total,              \* rows of every result
    PageSize,           \* RESULT_WINDOW_PAGE_SIZE
    MaxResidentPages,   \* RESULT_WINDOW_MAX_RESIDENT_PAGES
    Height,             \* rows in sight
    FirstRows,          \* how many rows may have been streamed with the answer
    MaxScrolls,         \* bound: how often the grid is scrolled
    MaxResults          \* bound: how many results are shown

ASSUME PagingConstants ==
    /\ {Total, PageSize, MaxResidentPages, Height} \subseteq Nat \ {0}
    /\ Height <= Total /\ Height <= PageSize /\ MaxResidentPages >= 2
    /\ FirstRows \subseteq 1..Total
    /\ {MaxScrolls, MaxResults} \subseteq Nat

Rows        == 0..(Total - 1)
PageOf(r)   == r \div PageSize
RowsOf(p)   == {r \in Rows : PageOf(r) = p}
PageIndexes == {PageOf(r) : r \in Rows}
Cell(g, r)  == <<g, r>>
Hole        == << >>            \* a place of a page that holds no row

VARIABLES
    latest,   \* how many results were shown
    source,   \* the result spillRef holds, 0 for none
    pages,    \* its resident pages: the cells of each
    lru,      \* the same pages, the one looked at longest ago first
    top,      \* the first row in sight
    current,  \* the paging effect has run for what the grid shows
    loop,     \* the fetch loop the effect started: of which result, and the
              \* pages it has still to fetch, the one asked for first
    pending,  \* pendingPageRequests
    missed,   \* history: a fetch failed since the effect last ran
    scrolls

pagingVars == <<latest, source, pages, lru, top, current, loop, pending, missed,
                scrolls>>

NoLoop  == [of |-> 0, queue |-> << >>]
InSight == {r \in Rows : top <= r /\ r < top + Height}

PagingInit ==
    /\ latest = 0 /\ source = 0 /\ pages = << >> /\ lru = << >> /\ top = 0
    /\ current = TRUE /\ loop = NoLoop /\ pending = {} /\ missed = FALSE
    /\ scrolls = 0

-----------------------------------------------------------------------------
(* WindowedRows.                                                           *)

\* touch, once for every page of S in ascending order.
Touched(order, S) ==
    Picked(order, {i \in DOMAIN order : order[i] \notin S}) \o Ascending(S)

(* Mutated: the page looked at last goes first. *)
KeepsOldest(order) ==
    IF Len(order) <= MaxResidentPages THEN order
    ELSE SubSeq(order, 1, MaxResidentPages)

\* evict: the pages that stay.
Keeps(order) ==
    IF Len(order) <= MaxResidentPages THEN order
    ELSE SubSeq(order, Len(order) - MaxResidentPages + 1, Len(order))

\* ingest: the rows first..last of result g are written into their pages.
Ingest(old, order, g, first, last) ==
    LET new    == {PageOf(r) : r \in first..last}
        kept   == Keeps(Touched(order, new))
        at(p, r) == IF r \in first..last THEN Cell(g, r)
                    ELSE IF p \in DOMAIN old THEN old[p][r] ELSE Hole
    IN  /\ pages' = [p \in Range(kept) |-> [r \in RowsOf(p) |-> at(p, r)]]
        /\ lru' = kept

\* missingPages for the rows in sight.
Missing == {PageOf(r) : r \in InSight} \ DOMAIN pages

\* pageRequest: the rows of a page, fewer on the last one.
PageRequest(p) ==
    LET first == p * PageSize
        limit == IF PageSize <= Total - first THEN PageSize ELSE Total - first
    IN  [first |-> first, last |-> first + limit - 1]

-----------------------------------------------------------------------------
(* The paging effect.  beginPendingPage refuses a page somebody waits for.  *)

Begin(of, queue, waited) ==
    \E rest \in {Picked(queue, {i \in DOMAIN queue : queue[i] \notin waited})} :
        IF rest = << >> THEN loop' = NoLoop /\ pending' = waited
        ELSE loop' = [of |-> of, queue |-> rest] /\ pending' = waited \cup {Head(rest)}

\* The grid is rendered and the effect runs: the rows in sight are read, the
\* loop before is stopped and its pending pages are forgotten, and the missing
\* pages are asked for one after the other.
Render ==
    /\ ~current /\ current' = TRUE
    /\ missed' = FALSE
    /\ lru' = IF source = 0 THEN lru
              ELSE Touched(lru, {PageOf(r) : r \in InSight} \cap DOMAIN pages)
    /\ IF source = 0 THEN loop' = NoLoop /\ pending' = {}
       ELSE Begin(source, Ascending(Missing), {})
    /\ UNCHANGED <<latest, source, pages, top, scrolls>>

EndFetch == Begin(loop.of, Tail(loop.queue), pending \ {Head(loop.queue)})

(* Mutated: an answer is written into the result on screen, whichever. *)
PageArrivesAnywhere ==
    /\ loop # NoLoop
    /\ LET request == PageRequest(Head(loop.queue))
       IN  IF source # 0
           THEN Ingest(pages, lru, loop.of, request.first, request.last)
           ELSE UNCHANGED <<pages, lru>>
    /\ current' = FALSE
    /\ EndFetch
    /\ UNCHANGED <<latest, source, top, missed, scrolls>>

\* db_result_window answers.  The loop holds the rows of the result it was
\* started for: when that one is gone, nobody sees what it writes.  The loop
\* goes on until the effect runs again.
PageArrives ==
    /\ loop # NoLoop
    /\ LET request == PageRequest(Head(loop.queue))
       IN  IF loop.of = source
           THEN Ingest(pages, lru, source, request.first, request.last)
           ELSE UNCHANGED <<pages, lru>>
    /\ current' = FALSE
    /\ EndFetch
    /\ UNCHANGED <<latest, source, top, missed, scrolls>>

\* It fails: the rows stay placeholders, and nothing is rendered.
FetchFails ==
    /\ loop # NoLoop
    /\ missed' = TRUE
    /\ EndFetch
    /\ UNCHANGED <<latest, source, pages, lru, top, current, scrolls>>

-----------------------------------------------------------------------------
Scroll(to) ==
    /\ scrolls < MaxScrolls /\ scrolls' = scrolls + 1
    /\ to # top /\ to + Height <= Total
    /\ top' = to /\ current' = FALSE
    /\ UNCHANGED <<latest, source, pages, lru, loop, pending, missed>>

\* releaseActiveSpill, at the start of the next run.
ReleaseActiveSpill ==
    /\ source # 0
    /\ source' = 0 /\ pages' = << >> /\ lru' = << >>
    /\ pending' = {} /\ current' = FALSE
    /\ UNCHANGED <<latest, top, loop, missed, scrolls>>

\* finalizeSpillRun: the streamed rows are the first pages of the new result.
FinalizeSpillRun(streamed) ==
    /\ source = 0 /\ latest < MaxResults
    /\ latest' = latest + 1 /\ source' = latest'
    /\ Ingest(<< >>, << >>, latest', 0, streamed - 1)
    /\ pending' = {} /\ current' = FALSE
    /\ UNCHANGED <<top, loop, missed, scrolls>>

PagingNext ==
    \/ Render \/ PageArrives \/ FetchFails \/ ReleaseActiveSpill
    \/ \E to \in Rows : Scroll(to)
    \/ \E streamed \in FirstRows : FinalizeSpillRun(streamed)

\* React renders what changed, and the backend answers every fetch.
PagingFairness == WF_pagingVars(Render) /\ WF_pagingVars(PageArrives \/ FetchFails)

PagingSpec == PagingInit /\ [][PagingNext]_pagingVars /\ PagingFairness

-----------------------------------------------------------------------------
\* Every variable keeps its type; the pages in the order of use are the
\* resident ones, each once, and no more than the budget.
PagingTypeOK ==
    /\ latest \in 0..MaxResults /\ source \in {0, latest}
    /\ DOMAIN pages \subseteq PageIndexes
    /\ \A p \in DOMAIN pages : DOMAIN pages[p] = RowsOf(p)
    /\ Range(lru) = DOMAIN pages /\ IsInjective(lru)
    /\ Len(lru) <= MaxResidentPages
    /\ top \in Rows /\ scrolls \in 0..MaxScrolls
    /\ {current, missed} \subseteq BOOLEAN
    /\ loop.of \in 0..latest /\ Range(loop.queue) \subseteq PageIndexes
    /\ pending \subseteq PageIndexes

\* A row of the grid is a row of the result on screen, and the one of its
\* place, whichever answers came late and in whatever order.
RowsAreTheirOwn ==
    \A p \in DOMAIN pages : \A r \in RowsOf(p) : pages[p][r] \in {Cell(source, r), Hole}

\* A page that was asked for is written without holes: a place stays empty
\* only in the page the streamed rows end in.
HolesAreInOnePage ==
    Cardinality({p \in DOMAIN pages : \E r \in RowsOf(p) : pages[p][r] = Hole}) <= 1

Shown(r)   == PageOf(r) \in DOMAIN pages /\ pages[PageOf(r)][r] = Cell(source, r)
AtRest     == current /\ loop = NoLoop

\* When no fetch is under way and none failed since, the page of every row in
\* sight is resident: none was dropped for the sake of another.
WhatIsInSightIsResident ==
    source # 0 /\ AtRest /\ ~missed => \A r \in InSight : PageOf(r) \in DOMAIN pages

\* The grid shows rows of its result in their places, and those in sight are there.
PagingIsSound ==
    PagingTypeOK /\ RowsAreTheirOwn /\ HolesAreInOnePage /\ WhatIsInSightIsResident

\* The grid does not fetch for ever: the pages in sight do not push each other
\* out.
PagingComesToRest == []<>AtRest

\* "resident rows return real cells, off-screen rows return a cheap placeholder
\* until their page is fetched" (result-window.ts): a row that stays in sight is
\* shown once nothing is left to fetch.
RowsInSightAreShown ==
    source # 0 /\ AtRest /\ ~missed => \A r \in InSight : Shown(r)
=============================================================================
