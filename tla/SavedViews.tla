------------------------------ MODULE SavedViews ------------------------------
(***************************************************************************)
(* The saved views of the hub (crates/fleet-hub/src/lib.rs and the         *)
(* handlers of apps/fleet-hub-local/src/lib.rs), changed by several        *)
(* consoles with a compare-and-swap on the revision of the collection      *)
(* (apps/fleet-console-wpf/ViewModels/FleetWorkspaceViewModel.cs).         *)
(*                                                                         *)
(* A console sends what its operator changes together with the revision it *)
(* shows.  Requests and answers are delivered late, in any order, or never *)
(* (a console that gives up only reloads).  A handler runs under the lock  *)
(* and is one action.                                                      *)
(***************************************************************************)
EXTENDS Integers, FiniteSets

CONSTANTS
    Consoles,
    ViewIds,
    Views,             \* the contents of a view
    NoView,
    MaxSavedViews,     \* MAX_SAVED_VIEWS
    MaxRevision,       \* the largest u64
    MaxInFlight,       \* bound of the model on the messages under way
    MaxCrashes         \* bound of the model on crashes

ASSUME NoViewAssumption == NoView \notin Views
ASSUME BoundsAssumption ==
    /\ MaxSavedViews \in Nat /\ MaxRevision \in Nat \ {0}
    /\ MaxInFlight \in Nat /\ MaxCrashes \in Nat

Collection == [revision : 1..MaxRevision, views : [ViewIds -> Views \cup {NoView}]]

\* A mutation: an upsert of a view, or a deletion (NoView).  seen is what the
\* console shows when it is sent; the message carries its revision.
Request == [view_id : ViewIds, view : Views \cup {NoView}, seen : Collection]

Reply == [to : Consoles, collection : Collection]

VARIABLES
    running,
    hub,               \* saved_views and saved_view_revision; when down, what they were
    disk,              \* the durable slots
    shown,             \* what each console shows
    sent, replies,     \* the messages under way
    crashes

viewsVars == <<running, hub, disk, shown, sent, replies, crashes>>

Existing(c) == {v \in ViewIds : c.views[v] # NoView}

With(c, r) ==
    [revision |-> c.revision + 1, views |-> [c.views EXCEPT ![r.view_id] = r.view]]

\* mutant: the revision a request was made at is not compared
AcceptsAny(r) ==
    /\ hub.revision < MaxRevision
    /\ IF r.view = NoView THEN r.view_id \in Existing(hub)
       ELSE /\ hub.views[r.view_id] # r.view
            /\ r.view_id \in Existing(hub) \/ Cardinality(Existing(hub)) < MaxSavedViews

\* mutant: the limit does not count the view added
AcceptsOneMore(r) ==
    /\ r.seen.revision = hub.revision
    /\ hub.revision < MaxRevision
    /\ IF r.view = NoView THEN r.view_id \in Existing(hub)
       ELSE hub.views[r.view_id] # r.view

\* FleetHub::upsert_saved_view and delete_saved_view change the collection; an
\* upsert of what is stored already is answered without a change.
Changes(r) ==
    /\ r.seen.revision = hub.revision
    /\ hub.revision < MaxRevision
    /\ IF r.view = NoView THEN r.view_id \in Existing(hub)
       ELSE /\ hub.views[r.view_id] # r.view
            /\ r.view_id \in Existing(hub) \/ Cardinality(Existing(hub)) < MaxSavedViews

-----------------------------------------------------------------------------
(* Durable state, as DurableStore keeps it.  A persist that fails has        *)
(* written the slot ("late") or has not.                                     *)

Persisted(c, outcome) ==
    IF outcome = "failed" THEN disk
    ELSE [newest |-> c,
          previous |-> IF disk.ahead THEN disk.previous ELSE disk.newest,
          ahead |-> outcome = "late"]

\* mutant: the collection in memory is changed before it is persisted
ServeBeforePersist(r, outcome) ==
    /\ running
    /\ IF Changes(r)
       THEN hub' = With(hub, r) /\ disk' = Persisted(With(hub, r), outcome)
       ELSE UNCHANGED <<hub, disk>>
    /\ sent' = sent \ {r}
    /\ UNCHANGED <<running, shown, replies, crashes>>

\* The upsert_saved_view and delete_saved_view handlers.
Serve(r, outcome) ==
    /\ running
    /\ IF Changes(r)
       THEN /\ disk' = Persisted(With(hub, r), outcome)
            /\ hub' = IF outcome = "done" THEN With(hub, r) ELSE hub
       ELSE UNCHANGED <<hub, disk>>
    /\ sent' = sent \ {r}
    /\ UNCHANGED <<running, shown, replies, crashes>>

-----------------------------------------------------------------------------
(* Consoles.                                                                 *)

UnderWay == Cardinality(sent) + Cardinality(replies)

\* SaveCurrentViewAsync and DeleteSavedViewAsync.
Send(c, v, view) ==
    /\ UnderWay < MaxInFlight
    /\ view = NoView => v \in Existing(shown[c])
    /\ sent' = sent \cup {[view_id |-> v, view |-> view, seen |-> shown[c]]}
    /\ UNCHANGED <<running, hub, disk, shown, replies, crashes>>

\* The saved_views handler answers LoadSavedViewsAsync.
Answer(c) ==
    /\ running /\ UnderWay < MaxInFlight
    /\ replies' = replies \cup {[to |-> c, collection |-> hub]}
    /\ UNCHANGED <<running, hub, disk, shown, sent, crashes>>

\* mutant: the console takes the new revision before it shows the new views
ShowNewRevisionOnly(reply) ==
    /\ shown' = [shown EXCEPT ![reply.to].revision = reply.collection.revision]
    /\ replies' = replies \ {reply}
    /\ UNCHANGED <<running, hub, disk, sent, crashes>>

Show(reply) ==
    /\ shown' = [shown EXCEPT ![reply.to] = reply.collection]
    /\ replies' = replies \ {reply}
    /\ UNCHANGED <<running, hub, disk, sent, crashes>>

Lose(m) ==
    /\ sent' = sent \ {m} /\ replies' = replies \ {m}
    /\ UNCHANGED <<running, hub, disk, shown, crashes>>

Crash ==
    /\ running /\ crashes < MaxCrashes
    /\ running' = FALSE /\ crashes' = crashes + 1
    /\ UNCHANGED <<hub, disk, shown, sent, replies>>

Restart ==
    /\ ~running /\ running' = TRUE
    /\ hub' = disk.newest
    /\ disk' = [disk EXCEPT !.ahead = FALSE]
    /\ UNCHANGED <<shown, sent, replies, crashes>>

Empty == [revision |-> 1, views |-> [v \in ViewIds |-> NoView]]

ViewsInit ==
    /\ running = TRUE /\ crashes = 0
    /\ hub = Empty
    /\ disk = [newest |-> Empty, previous |-> Empty, ahead |-> FALSE]
    /\ shown = [c \in Consoles |-> Empty]
    /\ sent = {} /\ replies = {}

ViewsNext ==
    \/ \E r \in sent, outcome \in {"done", "late", "failed"} : Serve(r, outcome)
    \/ \E c \in Consoles, v \in ViewIds, view \in Views \cup {NoView} : Send(c, v, view)
    \/ \E c \in Consoles : Answer(c)
    \/ \E reply \in replies : Show(reply)
    \/ \E m \in sent \cup replies : Lose(m)
    \/ Crash
    \/ Restart

ViewsSpec == ViewsInit /\ [][ViewsNext]_viewsVars

-----------------------------------------------------------------------------
(* Properties.                                                               *)

\* Every variable has its type, and no collection passes the limit.
ViewsTypeOK ==
    /\ running \in BOOLEAN /\ hub \in Collection
    /\ disk \in [newest : Collection, previous : Collection, ahead : BOOLEAN]
    /\ shown \in [Consoles -> Collection]
    /\ sent \subseteq Request /\ replies \subseteq Reply
    /\ crashes \in 0..MaxCrashes
    /\ Cardinality(Existing(hub)) <= MaxSavedViews

KnownCollections ==
    {hub} \cup {shown[c] : c \in Consoles} \cup {r.seen : r \in sent}
          \cup {reply.collection : reply \in replies}

\* The revision stands for the collection: the hub, the consoles and every
\* message under way that name the same revision mean the same views, through
\* persists that fail after they have written and crashes.
RevisionNamesCollection ==
    \A c1, c2 \in KnownCollections : c1.revision = c2.revision => c1.views = c2.views

\* Lost updates: a console changes the stored views only if they are the views
\* its operator was shown, however late the request is delivered.
NothingUnseenIsOverwritten ==
    [][running /\ hub'.views # hub.views =>
          \E r \in sent :
              /\ r.seen.views = hub.views
              /\ hub'.views = [hub.views EXCEPT ![r.view_id] = r.view]]_viewsVars

\* The collection never goes back to an earlier revision, not by a restart.
RevisionNeverGoesBack == [][hub'.revision >= hub.revision]_viewsVars
=============================================================================
