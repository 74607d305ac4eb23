------------------------------- MODULE Queries -------------------------------
(***************************************************************************)
(* Reads through the HTTP interface: paged lists, which are filtered by    *)
(* the caller's permissions, and reads of one object, which check a        *)
(* permission first and fetch afterwards, while workflows come and go and  *)
(* the policy changes.  One caller is followed.  A grant is a pair of a    *)
(* permission and a workflow, or "*" for all; Kinds of objects other than  *)
(* workflows belong to one workflow.                                       *)
(***************************************************************************)
EXTENDS Naturals, Sequences, SequencesExt, FiniteSets

CONSTANTS Listed,       \* workflows, or instances of them: list_instances is the same code
          PageLimits,   \* limits a caller may ask for
          MaxChanges,   \* deletions and policy updates considered
          NoOffset

\* to_list_options turns a limit that is not positive into the default.
ASSUME QueriesAssumption == PageLimits \subseteq Nat \ {0} /\ NoOffset \notin Nat

VARIABLES table,     \* the table, newest first (ORDER BY created_at DESC)
          grants,   \* what the policy gives the caller now
          walk,     \* a caller paging through the list
          ask,      \* a read of one object: [step, route, grants]
          shownObject, \* the object last answered: [route, grants], the grants at its check
          changes   \* deletions and policy updates so far

queryVars == <<table, grants, walk, ask, shownObject, changes>>

Scopes == Listed \cup {"*"}
NoWalk == [offset |-> NoOffset, limit |-> 0, shown |-> {}, lasting |-> {}, disturbed |-> FALSE]
NoAsk == [step |-> "idle"]

may(permission, scope, given) == <<permission, scope>> \in given \/ <<permission, "*">> \in given

QueriesInit ==
    /\ table = <<>> /\ changes = 0
    /\ grants = {<<"View", w>> : w \in Listed}
    /\ walk = NoWalk /\ ask = NoAsk /\ shownObject = NoAsk

-----------------------------------------------------------------------------
(* list_workflows, list_instances *)

\* Rows are named by their positions in the table; the place of one is the number
\* of rows of the list before it.
Visible(rows, given) == {i \in DOMAIN rows : may("View", rows[i], given)}
Place(list, i) == Cardinality({j \in list : j < i})
paginate(list, offset, limit) == {i \in list : offset <= Place(list, i) /\ Place(list, i) < offset + limit}
RowsAt(list) == {table[i] : i \in list}

\* COUNT(*) OVER() comes with the rows: an empty page has the total 0.
StoreList(offset, limit) ==
    LET page == paginate(DOMAIN table, offset, limit) IN
    [page |-> page, total |-> IF page = {} THEN 0 ELSE Len(table)]

\* The page is cut from the table, and then filtered.
list_page_filtered(offset, limit) ==
    LET fetched == StoreList(offset, limit)
        seen == fetched.page \cap Visible(table, grants)
    IN IF may("View", "*", grants) THEN fetched ELSE [page |-> seen, total |-> offset + Cardinality(seen)]

\* A caller who may view everything gets the page the store cuts; for any other
\* the whole table is fetched, filtered, and then cut.
list_visible(offset, limit) ==
    LET visible == Visible(table, grants) IN
    IF may("View", "*", grants) THEN StoreList(offset, limit)
    ELSE [page |-> paginate(visible, offset, limit), total |-> Cardinality(visible)]

\* The caller makes one request at a time.
StartWalk(limit) ==
    /\ walk.offset = NoOffset /\ ask = NoAsk /\ shownObject' = NoAsk
    /\ walk' = [NoWalk EXCEPT !.offset = 0, !.limit = limit, !.lasting = RowsAt(Visible(table, grants))]
    /\ UNCHANGED <<table, grants, ask, changes>>

\* The caller goes on until the total says that there is no further page.
NextPage ==
    LET got == list_visible(walk.offset, walk.limit)
        beyond == walk.offset + walk.limit
    IN /\ walk.offset # NoOffset
       /\ IF beyond < got.total
          THEN walk' = [walk EXCEPT !.offset = beyond, !.shown = @ \cup RowsAt(got.page)]
          ELSE walk' = [walk EXCEPT !.offset = NoOffset, !.shown = @ \cup RowsAt(got.page)]
       /\ UNCHANGED <<table, grants, ask, shownObject, changes>>

-----------------------------------------------------------------------------
(* Changes made by others meanwhile *)

\* What a caller has seen all along: a walk is disturbed when rows may move up.
Changed(newRows, newGrants) ==
    LET lasts(w) == w \in ToSet(newRows) /\ may("View", w, newGrants)
        kept == {w \in walk.lasting : lasts(w)}
    IN /\ table' = newRows /\ grants' = newGrants
       /\ walk' = [walk EXCEPT !.lasting = kept,
                               !.disturbed = @ \/ newGrants # grants \/ Len(newRows) < Len(table)]
       /\ UNCHANGED <<ask, shownObject>>

create_row(w) ==
    w \notin ToSet(table) /\ Changed(<<w>> \o table, grants) /\ UNCHANGED changes

MayChange == changes < MaxChanges /\ changes' = changes + 1
delete_row(w) ==
    MayChange /\ \E i \in DOMAIN table : table[i] = w /\ Changed(RemoveAt(table, i), grants)
SetGrants(given) == MayChange /\ given # grants /\ Changed(table, given)

-----------------------------------------------------------------------------
(* Reads of one object.  A route says which permission is checked on which  *)
(* scope and to which workflow the object that is fetched belongs.          *)

Route(permission, scope, of) == [permission |-> permission, scope |-> scope, of |-> of]

show_workflow(w) == Route("View", w, w)
get_versions(w) == Route("View", w, w)
get_workflow_metrics(w) == Route("View", w, w)
get_test_coverage(w) == Route("View", w, w)

\* The instance is loaded first, and its workflow is the scope.
authorize_instance(permission, i) == Route(permission, i, i)
get_instance(i) == authorize_instance("View", i)
cancel_instance(i) == authorize_instance("Execute", i)
get_audit_trail(i) == authorize_instance("View", i)
export_audit_trail(i) == authorize_instance("View", i)
get_instance_metrics(i) == authorize_instance("View", i)
approve_node(i) == authorize_instance("Approve", i)

\* The path names a workflow and a change request, which may not belong together.
get_change_request(w, c) == Route("View", w, c)

\* Numbers over all workflows.
get_analytics == Route("View", "*", "*")
get_cost_analytics == Route("Admin", "*", "*")

Routes ==
    LET of(w) == {show_workflow(w), get_versions(w), get_workflow_metrics(w), get_test_coverage(w),
                  get_instance(w), cancel_instance(w), get_audit_trail(w), export_audit_trail(w),
                  get_instance_metrics(w), approve_node(w)}
    IN UNION {of(w) : w \in Listed} \cup {get_change_request(w, c) : w, c \in Listed}
           \cup {get_analytics, get_cost_analytics}

\* The permission is checked, and the store is asked after an await.
CheckRoute(route) ==
    /\ ask = NoAsk /\ may(route.permission, route.scope, grants)
    /\ walk.offset = NoOffset /\ walk' = NoWalk /\ shownObject' = NoAsk
    /\ ask' = [step |-> "fetch", route |-> route, grants |-> grants]
    /\ UNCHANGED <<table, grants, changes>>

FoundAnyway(route) == TRUE

\* get_change_request compares the workflow of what it has found with the path.
Found(route) == route.scope = route.of

FetchObject ==
    /\ ask.step = "fetch"
    /\ ask' = NoAsk
    /\ shownObject' = IF Found(ask.route) THEN [ask EXCEPT !.step = "served"] ELSE shownObject
    /\ UNCHANGED <<table, grants, walk, changes>>

QueriesNext ==
    \/ \E limit \in PageLimits : StartWalk(limit)
    \/ NextPage
    \/ \E w \in Listed : create_row(w) \/ delete_row(w)
    \/ \E p \in {"View", "Execute", "Approve", "Admin"}, s \in Scopes :
          SetGrants(grants \cup {<<p, s>>}) \/ SetGrants(grants \ {<<p, s>>})
    \/ \E route \in Routes : CheckRoute(route)
    \/ FetchObject

QueriesSpec == QueriesInit /\ [][QueriesNext]_queryVars

-----------------------------------------------------------------------------
(* Properties *)

\* A caller who pages through a list to its end has been shown every row that
\* was there and visible all the while, for a restricted caller as for one who
\* sees everything, unless a deletion or a policy change moved rows up between
\* two pages: the filter of list_workflows works on the whole table, so neither
\* hidden rows nor new ones push a visible row out of the pages.
WalkShowsAll == walk.offset = NoOffset /\ ~walk.disturbed => walk.lasting \subseteq walk.shown

\* What a read of one object returns belongs to a workflow on which the caller
\* held the permission when it was checked, also where the path names another
\* workflow than the object's own.
NothingOutOfScope ==
    shownObject # NoAsk => may(shownObject.route.permission, shownObject.route.of, shownObject.grants)

\* A caller is shown what the policy lets him see, all of it and nothing else.
ShownIffVisible == WalkShowsAll /\ NothingOutOfScope
=============================================================================
