------------------------------ MODULE Records ------------------------------
(* The alarm record window of the user interface (ui_client/records.rs and    *)
(* its part of models.rs and events.rs): one page of alarm_events at a time,  *)
(* read by a thread of its own with LIMIT and OFFSET, while the collector     *)
(* keeps inserting rows.  The result comes back through the interface's       *)
(* message queue, which the replay window shares (module Replay).             *)
EXTENDS Integers, Sequences, FiniteSets, SequencesExt

CONSTANTS Groups,     \* the groups an alarm row can belong to
          PageSize,   \* ALARM_RECORD_PAGE_SIZE
          MaxRows, MaxLoads, \* bounds: rows of the table, page loads
          InboxCap,   \* capacity of the interface's message queue
          Nothing     \* no job, no data

Queries == [groups : SUBSET Groups, recentOnly : BOOLEAN]
PageJobs == [page : Nat, query : Queries]

ASSUME RecordsAssumption ==
    /\ PageSize \in Nat \ {0} /\ InboxCap \in Nat \ {0}
    /\ MaxRows \in Nat /\ MaxLoads \in Nat
    /\ Nothing \notin PageJobs

VARIABLES table,    \* alarm_events in the order of (ts_ms, id): id, group, recent
          filter,   \* the toggles and the time window in the input fields
          records,  \* AlarmRecordState: page, next, data, loading
          pageJob,  \* the thread reading a page
          inbox,    \* rx: what the interface has not handled yet
          pageLoads, walk \* ghost: what paging from the first page has shown

recordsVars == <<table, filter, records, pageJob, inbox, pageLoads, walk>>

Ids(rows) == [i \in DOMAIN rows |-> rows[i].id]
NoWalk == [ok |-> FALSE, ids |-> <<>>, of |-> Nothing, page |-> 0, atEnd |-> FALSE]

RecordsInit ==
    /\ table = <<>> /\ inbox = <<>>
    /\ filter = [groups |-> Groups, recentOnly |-> FALSE]
    /\ records = [page |-> 0, next |-> FALSE, data |-> Nothing, loading |-> FALSE]
    /\ pageJob = Nothing
    /\ pageLoads = 0 /\ walk = NoWalk

\* WHERE ts_ms BETWEEN .. AND .. AND (group conditions)
Hits(query) == {i \in DOMAIN table : table[i].group \in query.groups
                                      /\ (query.recentOnly => table[i].recent)}
\* ORDER BY ts_ms ASC, id ASC
Number(query, i) == Cardinality({j \in Hits(query) : j <= i})
Matching(query) ==
    [n \in 1..Cardinality(Hits(query)) |-> table[CHOOSE i \in Hits(query) : Number(query, i) = n]]

\* Mutant: no row more than a page is asked for.
FetchLimitExact == PageSize

\* LIMIT fetch_limit OFFSET offset: one row more tells of a next page.
FetchLimit == PageSize + 1
Offset(page) == page * PageSize
Fetched(query, page) ==
    LET matching == Matching(query)
    IN SubSeq(matching, Offset(page) + 1,
              IF Offset(page) + FetchLimit <= Len(matching)
              THEN Offset(page) + FetchLimit ELSE Len(matching))
Page(rows) == IF Len(rows) > PageSize THEN SubSeq(rows, 1, PageSize) ELSE rows

\* request_alarm_records_page: one load at a time, at least one group.
RequestPage(page) ==
    /\ ~records.loading
    /\ filter.groups # {}
    /\ pageLoads < MaxLoads
    /\ pageLoads' = pageLoads + 1
    /\ records' = [records EXCEPT !.loading = TRUE]
    /\ pageJob' = [page |-> page, query |-> filter]
    /\ UNCHANGED <<table, filter, inbox, walk>>

LoadFirst == RequestPage(0)
PreviousPage == records.page > 0 /\ RequestPage(records.page - 1)
NextPage == records.next /\ RequestPage(records.page + 1)

ToggleGroup(g) ==
    /\ filter' = [filter EXCEPT !.groups = IF g \in @ THEN @ \ {g} ELSE @ \cup {g}]
    /\ UNCHANGED <<table, records, pageJob, inbox, pageLoads, walk>>

\* "Last five minutes": the shown page is forgotten, a running load is not.
LastFiveMinutes ==
    /\ filter' = [filter EXCEPT !.recentOnly = TRUE]
    /\ records' = [records EXCEPT !.page = 0, !.next = FALSE, !.data = Nothing]
    /\ UNCHANGED <<table, pageJob, inbox, pageLoads, walk>>

\* The paging a reader does: the first page, then the next one of the same
\* query.  Anything else is not a walk through the list.
Walked(job, rows) ==
    LET shown == Ids(Page(rows))
        continues == walk.ok /\ walk.of = job.query /\ job.page = walk.page + 1
    IN IF job.page = 0 \/ continues
       THEN LET ids == (IF job.page = 0 THEN <<>> ELSE walk.ids) \o shown
            IN [ok |-> TRUE, ids |-> ids, of |-> job.query, page |-> job.page,
                atEnd |-> Len(ids) = Len(Matching(job.query))]
       ELSE NoWalk

\* The thread has read its rows, or failed; the send waits for room.
PageJobEnds ==
    /\ pageJob # Nothing
    /\ Len(inbox) < InboxCap
    /\ \/ LET rows == Fetched(pageJob.query, pageJob.page)
          IN /\ inbox' = Append(inbox, [kind |-> "page", ok |-> TRUE, page |-> pageJob.page,
                                        rows |-> Page(rows), next |-> Len(rows) > PageSize])
             /\ walk' = Walked(pageJob, rows)
       \/ /\ inbox' = Append(inbox, [kind |-> "page", ok |-> FALSE])
          /\ UNCHANGED walk
    /\ pageJob' = Nothing
    /\ UNCHANGED <<table, filter, records, pageLoads>>

\* UiMsg::AlarmRecordsLoaded
PageLoaded ==
    /\ inbox # <<>> /\ Head(inbox).kind = "page"
    /\ records' = IF Head(inbox).ok
                  THEN [page |-> Head(inbox).page, next |-> Head(inbox).next,
                        data |-> Head(inbox).rows, loading |-> FALSE]
                  ELSE [records EXCEPT !.loading = FALSE, !.data = Nothing]
    /\ inbox' = Tail(inbox)
    /\ UNCHANGED <<table, filter, pageJob, pageLoads, walk>>

\* The collector inserts a row: usually the newest, but a batch that waited
\* for the database brings rows older than the newest.  Those move the rows
\* behind them, and with them every page after: no walk survives that.
RowInserted(g, recent) ==
    /\ Len(table) < MaxRows
    /\ \E at \in 1..Len(table) + 1 :
          /\ \A i \in 1..at - 1 : table[i].recent => recent
          /\ \A i \in at..Len(table) : recent => table[i].recent
          /\ table' = InsertAt(table, at, [id |-> Len(table) + 1, group |-> g, recent |-> recent])
          /\ walk' = IF at = Len(table) + 1 THEN walk ELSE NoWalk
    /\ UNCHANGED <<filter, records, pageJob, inbox, pageLoads>>

RecordsNext ==
    \/ LoadFirst \/ PreviousPage \/ NextPage \/ LastFiveMinutes
    \/ \E g \in Groups : ToggleGroup(g)
    \/ PageJobEnds \/ PageLoaded
    \/ \E g \in Groups, recent \in BOOLEAN : RowInserted(g, recent)
RecordsSpec == RecordsInit /\ [][RecordsNext]_recordsVars

------------------------------------------------------------------------------
RecordsTypeOK ==
    /\ Len(table) <= MaxRows /\ Len(inbox) <= InboxCap
    /\ filter.groups \subseteq Groups
    /\ records.page \in Nat /\ records.loading \in BOOLEAN /\ records.next \in BOOLEAN
    /\ records.loading = (pageJob # Nothing \/ \E i \in DOMAIN inbox : inbox[i].kind = "page")

(* Paging forward from the first page, with the same filter and with new rows *)
(* only at the end, shows every matching record once and in order, and there  *)
(* is no next page exactly when every record there was has been shown.        *)
WholeList ==
    /\ RecordsTypeOK
    /\ walk.ok =>
        /\ walk.ids = Ids(SubSeq(Matching(walk.of), 1, Len(walk.ids)))
        /\ records.page = walk.page /\ ~records.loading /\ records.data # Nothing
               => records.next = ~walk.atEnd
=============================================================================
