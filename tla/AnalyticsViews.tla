--------------------------- MODULE AnalyticsViews ---------------------------
(***************************************************************************)
(* Publication of the source-defined views in one user's dataset.  A run   *)
(* of the merge reconciler or of add-user adds its service account as a    *)
(* reader, validates all definitions as shadow views, promotes them one by *)
(* one, undoes that when one fails, and takes the reader away again.       *)
(* Updates of BigQuery objects that were read carry their etag, deletions  *)
(* do not.  Runs overlap: two merges, or a merge and an operator's         *)
(* add-user.                                                               *)
(***************************************************************************)
EXTENDS Naturals

CONSTANTS
    Runs,       \* runs of the reconciler, each of its own release
    Merge,      \* those of the merge reconciler; the others are add-user's
    Last        \* canonical view names are 1..Last, dependencies first

ASSUME ViewsAssumption ==
    /\ Merge \subseteq Runs
    /\ Last \in Nat
    /\ Runs \cap {"absent", "unlabelled", "table", "earlier", "untouched"} = {}

Names == 1..Last

\* Who is added to the dataset's four permanent entries.
Account(r) == IF r \in Merge THEN "merge_reconciler" ELSE "user_admin"

\* What a name holds: nothing, a managed view of an earlier release or of a
\* run's, a view without our labels, or an object that is no view.
Ours     == {"earlier"} \cup Runs
Contents == {"absent", "unlabelled", "table"} \cup Ours

VARIABLES
    views,      \* per name, what it holds
    access,     \* readers beyond the dataset's four entries
    wanted,     \* per run, the names its release defines
    rejected,   \* per run, the definition BigQuery finds invalid, or 0
    step,       \* per run, its next call
    cursor,     \* per run, the name it is at
    permanent,  \* per run, the access it will restore
    fresh,      \* runs whose last read object has not changed since
    undo,       \* per run and name, what the promotion replaced
    listed,     \* per run, the stale candidates it has yet to look at
    verdict,    \* per run, how it ends
    before,     \* history: per run, the views when it began
    overlapped  \* history: runs that overlapped with another one

runVars == <<step, cursor, permanent, fresh, undo, listed,
             verdict>>
release == <<wanted, rejected>>
history == <<before, overlapped>>
vars    == <<views, access, release, runVars, history>>

Steps == {"idle", "contract", "read_access", "grant", "preflight", "cleanup",
          "get", "create", "reread", "put", "rollback", "list", "prune",
          "delete", "check", "restore", "done"}

TypeOK ==
    /\ views \in [Names -> Contents]
    /\ access \subseteq {"merge_reconciler", "user_admin"}
    /\ wanted \in [Runs -> SUBSET Names]
    /\ rejected \in [Runs -> 0..Last]
    /\ step \in [Runs -> Steps]
    /\ cursor \in [Runs -> 0..Last + 1]
    /\ permanent \in [Runs -> SUBSET {"merge_reconciler", "user_admin"}]
    /\ fresh \subseteq Runs
    /\ undo \in [Runs -> [Names -> Contents \cup {"untouched"}]]
    /\ listed \in [Runs -> SUBSET Names]
    /\ verdict \in [Runs -> {"none", "killed", "published", "unchanged",
                             "undone", "stuck", "incomplete"}]
    /\ before \in [Runs -> [Names -> Contents]]
    /\ overlapped \subseteq Runs

Init ==
    /\ views \in [Names -> {"absent", "earlier", "unlabelled", "table"}]
    /\ access = {}
    /\ wanted \in [Runs -> SUBSET Names]
    /\ rejected \in [Runs -> 0..Last]
    /\ \A r \in Runs : rejected[r] \in wanted[r] \cup {0}
    /\ step = [r \in Runs |-> "idle"]
    /\ cursor = [r \in Runs |-> 1]
    /\ permanent = [r \in Runs |-> {}]
    /\ fresh = {}
    /\ undo = [r \in Runs |-> [n \in Names |-> "untouched"]]
    /\ listed = [r \in Runs |-> {}]
    /\ verdict = [r \in Runs |-> "none"]
    /\ before = [r \in Runs |-> views]
    /\ overlapped = {}

Goto(r, s) == step' = [step EXCEPT ![r] = s]

Running(r) == step[r] \notin {"idle", "done"}

End(r, s, v) ==
    /\ Goto(r, s)
    /\ verdict' = [verdict EXCEPT ![r] = v]

\* Whoever has read the access is to find its etag stale.
SetAccess(r, a) ==
    /\ access' = a
    /\ fresh' = fresh \ {q \in Runs \ {r} : step[q] = "grant"}

Start(r) ==
    /\ step[r] = "idle"
    /\ Goto(r, IF r \in Merge THEN "read_access" ELSE "contract")
    /\ before' = [before EXCEPT ![r] = views]
    /\ LET others == {q \in Runs \ {r} : Running(q)}
       IN  overlapped' = IF others = {} THEN overlapped
                         ELSE overlapped \cup others \cup {r}
    /\ UNCHANGED <<views, access, release, cursor, permanent, fresh,
                   undo, listed, verdict>>

\* A run that is over has no local state any more.
Leave(r, v) ==
    /\ End(r, "done", v)
    /\ cursor' = [cursor EXCEPT ![r] = 1]
    /\ permanent' = [permanent EXCEPT ![r] = {}]
    /\ undo' = [undo EXCEPT ![r] = [n \in Names |-> "untouched"]]
    /\ listed' = [listed EXCEPT ![r] = {}]

\* The build or the operator's process stops.
Kill(r) ==
    /\ Running(r)
    /\ Leave(r, "killed")
    /\ fresh' = fresh \ {r}
    /\ UNCHANGED <<views, access, release, history>>

(***************************************************************************)
(* The dataset's access.                                                   *)
(***************************************************************************)

\* provision: exactly the four entries, then the raw table.
Contract(r) ==
    /\ step[r] = "contract"
    /\ \/ SetAccess(r, {}) /\ Goto(r, "read_access") /\ UNCHANGED verdict
       \/ SetAccess(r, {}) /\ End(r, "done", "unchanged")
       \/ End(r, "done", "unchanged") /\ UNCHANGED <<access, fresh>>
    /\ UNCHANGED <<views, release, cursor, permanent, undo, listed,
                   history>>

ReadAccess(r) ==
    /\ step[r] = "read_access"
    /\ \/ /\ permanent' = [permanent EXCEPT ![r] = access]
          /\ fresh' = fresh \cup {r}
          /\ Goto(r, "grant")
          /\ UNCHANGED verdict
       \/ End(r, "done", "unchanged") /\ UNCHANGED <<permanent, fresh>>
    /\ UNCHANGED <<views, access, release, cursor, undo, listed,
                   history>>

\* temporary_dataset_reader_access.  This update is not yet covered by the
\* finally, also when it took effect and its answer got lost.
Grant(r) ==
    /\ step[r] = "grant"
    /\ \/ /\ r \in fresh
          /\ SetAccess(r, permanent[r] \cup {Account(r)})
          /\ Goto(r, "preflight") /\ UNCHANGED verdict
       \/ /\ r \in fresh
          /\ SetAccess(r, permanent[r] \cup {Account(r)})
          /\ End(r, "done", "unchanged")
       \/ End(r, "done", "unchanged") /\ UNCHANGED <<access, fresh>>
    /\ UNCHANGED <<views, release, cursor, permanent, undo, listed,
                   history>>

\* finally: the access that was read at the start, whatever has changed since.
Restore(r) ==
    /\ step[r] = "restore"
    /\ \/ SetAccess(r, permanent[r])
       \/ UNCHANGED <<access, fresh>>
    /\ Leave(r, verdict[r])
    /\ UNCHANGED <<views, release, history>>

(***************************************************************************)
(* Preflight.  BigQuery validates a view when it is created or updated,    *)
(* with the rights of whoever does that.                                   *)
(***************************************************************************)
Validates(r, n) == Account(r) \in access /\ n # rejected[r]

\* (variant: the preflight stops at the first view it can validate)
ShadowsPassSome(r) ==
    wanted[r] = {} \/ \E n \in wanted[r] : Validates(r, n)

ShadowsPass(r) == \A n \in wanted[r] : Validates(r, n)

\* All shadows, or those before the first that fails.
Preflight(r) ==
    /\ step[r] = "preflight"
    /\ \/ ShadowsPass(r) /\ UNCHANGED verdict
       \/ verdict' = [verdict EXCEPT ![r] = "unchanged"]
    /\ Goto(r, "cleanup")
    /\ UNCHANGED <<views, access, release, cursor, permanent, fresh, undo,
                   listed, history>>

\* Shadows that are left expire after an hour and no definition refers to them.
Cleanup(r) ==
    /\ step[r] = "cleanup"
    /\ \/ /\ Goto(r, IF verdict[r] = "none" THEN "get" ELSE "restore")
          /\ UNCHANGED verdict
       \/ End(r, "restore", "unchanged")
    /\ UNCHANGED <<views, access, release, cursor, permanent, fresh, undo,
                   listed, history>>

(***************************************************************************)
(* Promotion, in the order of the definitions.                             *)
(***************************************************************************)
SetView(r, n, c) ==
    /\ views' = [views EXCEPT ![n] = c]
    /\ fresh' = fresh \ {q \in Runs \ {r} : step[q] = "put" /\ cursor[q] = n}

Remember(r, n) == undo' = [undo EXCEPT ![r] = [@ EXCEPT ![n] = views[n]]]

\* The definitions of r's release from the cursor on, and the next of them.
Ahead(r) == {n \in wanted[r] : n >= cursor[r]}
Next1(r) == {n \in Ahead(r) : \A k \in Ahead(r) : n <= k}

Promoted(r) ==
    /\ step[r] = "get"
    /\ Ahead(r) = {}
    /\ IF r \in Merge THEN Goto(r, "list") /\ UNCHANGED verdict
       ELSE End(r, "restore", "published")
    /\ UNCHANGED <<views, access, release, cursor, permanent, fresh,
                   undo, listed, history>>

\* get_table; an object that is no view fails the promotion.
Get(r) ==
    /\ step[r] = "get"
    /\ \E n \in Next1(r) :
          /\ cursor' = [cursor EXCEPT ![r] = n]
          /\ \/ /\ views[n] = "absent"
                /\ Goto(r, "create")
                /\ UNCHANGED <<undo, fresh>>
             \/ /\ views[n] \notin {"absent", "table"}
                /\ Remember(r, n)
                /\ fresh' = fresh \cup {r}
                /\ Goto(r, "put")
             \/ Goto(r, "rollback") /\ UNCHANGED <<undo, fresh>>
    /\ UNCHANGED <<views, access, release, permanent, listed, verdict,
                   history>>

\* A create whose answer got lost is not among the changes to undo.
Create(r) ==
    /\ step[r] = "create"
    /\ LET n == cursor[r]
           made == Validates(r, n) /\ views[n] = "absent"
       IN  \/ /\ made
              /\ SetView(r, n, r)
              /\ Remember(r, n)
              /\ Goto(r, "reread")
           \/ made /\ SetView(r, n, r) /\ Goto(r, "rollback") /\ UNCHANGED undo
           \/ Goto(r, "rollback") /\ UNCHANGED <<views, fresh, undo>>
    /\ UNCHANGED <<access, release, cursor, permanent, listed, verdict,
                   history>>

Reread(r) ==
    /\ step[r] = "reread"
    /\ \/ /\ views[cursor[r]] # "absent"
          /\ fresh' = fresh \cup {r}
          /\ Goto(r, "put")
       \/ Goto(r, "rollback") /\ UNCHANGED fresh
    /\ UNCHANGED <<views, access, release, cursor, permanent, undo,
                   listed, verdict, history>>

\* update_table, with the etag that was read.
Put(r) ==
    /\ step[r] = "put"
    /\ LET n == cursor[r]
           made == r \in fresh /\ Validates(r, n) /\ views[n] # "absent"
       IN  \/ /\ made
              /\ SetView(r, n, r)
              /\ cursor' = [cursor EXCEPT ![r] = n + 1]
              /\ Goto(r, "get")
           \/ made /\ SetView(r, n, r) /\ Goto(r, "rollback") /\ UNCHANGED cursor
           \/ Goto(r, "rollback") /\ UNCHANGED <<views, fresh, cursor>>
    /\ UNCHANGED <<access, release, permanent, undo, listed, verdict,
                   history>>

(***************************************************************************)
(* _rollback_promotion: every change, last first, also after one failed.   *)
(***************************************************************************)
Undone(r, n) == undo' = [undo EXCEPT ![r] = [@ EXCEPT ![n] = "untouched"]]

Changed(r) == {n \in Names : undo[r][n] # "untouched"}

\* (variant: the views that existed are put back, the created ones are kept)
UndoOneKeepsCreated(r, n) ==
    IF undo[r][n] = "absent" THEN UNCHANGED <<views, fresh>>
    ELSE views[n] # "absent" /\ Account(r) \in access /\ SetView(r, n, undo[r][n])

UndoOne(r, n) ==
    IF undo[r][n] = "absent" THEN SetView(r, n, "absent")
    ELSE views[n] # "absent" /\ Account(r) \in access /\ SetView(r, n, undo[r][n])

Rollback(r) ==
    /\ step[r] = "rollback"
    /\ \E n \in Changed(r) :
          /\ \A k \in Changed(r) : k <= n
          /\ Undone(r, n)
          /\ \/ UndoOne(r, n) /\ UNCHANGED verdict
             \/ /\ verdict' = [verdict EXCEPT ![r] = "stuck"]
                /\ UNCHANGED <<views, fresh>>
    /\ UNCHANGED <<access, release, step, cursor, permanent, listed,
                   history>>

RolledBack(r) ==
    /\ step[r] = "rollback"
    /\ Changed(r) = {}
    /\ End(r, "restore", IF verdict[r] = "stuck" THEN "stuck" ELSE "undone")
    /\ UNCHANGED <<views, access, release, cursor, permanent, fresh,
                   undo, listed, history>>

(***************************************************************************)
(* The merge reconciler removes what its release no longer defines.        *)
(***************************************************************************)

\* _is_managed_analytics_view.  (variants: by this reconciler's own label only;
\* by being a view.)
IsManagedOwnLabel(n) == views[n] \in Runs
IsManagedAnyView(n)  == views[n] \notin {"absent", "table"}

IsManaged(n) == views[n] \in Ours

List(r) ==
    /\ step[r] = "list"
    /\ \/ /\ listed' = [listed EXCEPT ![r] =
                           {n \in Names \ wanted[r] : views[n] # "absent"}]
          /\ Goto(r, "prune") /\ UNCHANGED verdict
       \/ End(r, "restore", "incomplete") /\ UNCHANGED listed
    /\ UNCHANGED <<views, access, release, cursor, permanent, fresh,
                   undo, history>>

\* get_table of the next candidate.
Prune(r) ==
    /\ step[r] = "prune"
    /\ \E n \in listed[r] :
          /\ listed' = [listed EXCEPT ![r] = @ \ {n}]
          /\ \/ /\ IsManaged(n)
                /\ cursor' = [cursor EXCEPT ![r] = n]
                /\ Goto(r, "delete") /\ UNCHANGED verdict
             \/ /\ views[n] # "absent" /\ ~IsManaged(n)
                /\ UNCHANGED <<cursor, step, verdict>>
             \/ End(r, "restore", "incomplete") /\ UNCHANGED cursor
    /\ UNCHANGED <<views, access, release, permanent, fresh, undo, history>>

\* delete_table, without an etag: it deletes whatever the name holds by now.
Delete(r) ==
    /\ step[r] = "delete"
    /\ \/ /\ SetView(r, cursor[r], "absent")
          /\ Goto(r, "prune") /\ UNCHANGED verdict
       \/ SetView(r, cursor[r], "absent") /\ End(r, "restore", "incomplete")
       \/ End(r, "restore", "incomplete") /\ UNCHANGED <<views, fresh>>
    /\ UNCHANGED <<access, release, cursor, permanent, undo, listed, history>>

Pruned(r) ==
    /\ step[r] = "prune"
    /\ listed[r] = {}
    /\ Goto(r, "check")
    /\ UNCHANGED <<views, access, release, cursor, permanent, fresh,
                   undo, listed, verdict, history>>

Check(r) ==
    /\ step[r] = "check"
    /\ \/ /\ {n \in Names : IsManaged(n)} = wanted[r]
          /\ End(r, "restore", "published")
       \/ End(r, "restore", "incomplete")
    /\ UNCHANGED <<views, access, release, cursor, permanent, fresh,
                   undo, listed, history>>

RunStep(r) ==
    \/ Start(r) \/ Kill(r)
    \/ Contract(r) \/ ReadAccess(r) \/ Grant(r) \/ Restore(r)
    \/ Preflight(r) \/ Cleanup(r)
    \/ Promoted(r) \/ Get(r) \/ Create(r) \/ Reread(r) \/ Put(r)
    \/ Rollback(r) \/ RolledBack(r)
    \/ List(r) \/ Prune(r) \/ Delete(r) \/ Pruned(r) \/ Check(r)

Next == \E r \in Runs : RunStep(r)

Spec == Init /\ [][Next]_vars

(***************************************************************************)
(* Properties.                                                             *)
(***************************************************************************)

\* A release with a definition that BigQuery rejects changes no canonical
\* view, not even the valid ones that come before it, and also when another
\* run works on the dataset at the same time.
PreflightProtects ==
    \A r \in Runs : rejected[r] \in wanted[r] => \A n \in Names : views[n] # r

\* A run that no other one overlapped and that ended in an undone promotion has
\* left every view as it found it, but for one that it may have created without
\* getting the answer.
AllOrNothing ==
    \A r \in Runs \ overlapped :
       step[r] = "restore" /\ verdict[r] \in {"unchanged", "undone"} =>
          LET left == {n \in Names : views[n] # before[r][n]}
          IN  \/ left = {}
              \/ /\ left = {cursor[r]}
                 /\ before[r][cursor[r]] = "absent"
                 /\ verdict[r] = "undone"

\* A run that no other one overlapped and that reports success has published
\* all of its release, and the merge reconciler has left no managed view that
\* the release does not define.
PublishedExactly ==
    \A r \in Runs \ overlapped :
       step[r] = "restore" /\ verdict[r] = "published" =>
          /\ \A n \in wanted[r] : views[n] = r
          /\ r \in Merge => \A n \in Names \ wanted[r] : views[n] \notin Ours

\* Nothing ever changes an object that is no view, nor a view without our labels
\* whose name no release defines, also not between the look at a stale candidate
\* and its deletion, while another run replaces views and puts them back.
UnmanagedKept ==
    [][\A n \in Names :
          \/ views[n] = "table"
          \/ views[n] = "unlabelled" /\ \A r \in Runs : n \notin wanted[r]
          => views'[n] = views[n]]_vars
=============================================================================
