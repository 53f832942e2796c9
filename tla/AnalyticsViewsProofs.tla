-------------------------- MODULE AnalyticsViewsProofs --------------------------
(***************************************************************************)
(* Theorems about AnalyticsViews, for any runs that overlap in any way,    *)
(* any releases and any number of definitions.                             *)
(***************************************************************************)
EXTENDS AnalyticsViews, TLAPS

\* The release has no definition that BigQuery rejects.
Valid(r) == rejected[r] \notin wanted[r]

\* How a run's verdict and its local state go with its next call.
Shape(r) ==
    /\ step[r] \in {"idle", "contract", "read_access", "grant", "preflight"} =>
         verdict[r] = "none"
    /\ step[r] = "cleanup" => verdict[r] \in {"none", "unchanged"}
    /\ step[r] \in {"get", "create", "reread", "put"} => verdict[r] = "none"
    /\ step[r] = "rollback" => verdict[r] \in {"none", "stuck"}
    /\ step[r] \in {"list", "prune", "delete", "check"} =>
         verdict[r] = "none" /\ r \in Merge
    /\ step[r] \in {"idle", "contract", "read_access", "grant", "preflight",
                    "cleanup"} =>
         /\ cursor[r] = 1
         /\ \A n \in Names : undo[r][n] = "untouched"

\* A run promotes, rolls back or prunes only after its preflight has passed.
Checked(r) ==
    \/ step[r] \in {"get", "create", "reread", "put", "rollback", "list",
                    "prune", "delete", "check"}
    \/ step[r] = "cleanup" /\ verdict[r] = "none"
    => Valid(r)

\* A run is about to write only what its release defines, and no table.
Target(r) ==
    step[r] \in {"create", "reread", "put"} =>
       cursor[r] \in wanted[r] /\ views[cursor[r]] # "table"

\* A name with no foreign view, unless one that a roll-back put back there.
Deletable(n) ==
    /\ n \in Names /\ views[n] # "table"
    /\ views[n] = "unlabelled" => \E q \in Runs : n \in wanted[q]

\* A stale candidate that it is about to delete was found to be managed.
Stale(r) == step[r] = "delete" => Deletable(cursor[r])

\* It undoes only its own writes.
UndoInv(r) ==
    \A n \in Names : undo[r][n] # "untouched" =>
       n \in wanted[r] /\ views[n] # "table" /\ undo[r][n] # "table"

RunInv(r) == Shape(r) /\ Checked(r) /\ Target(r) /\ Stale(r) /\ UndoInv(r)

\* A view of run r, stored or remembered, is of a valid release.
Made ==
    \A r \in Runs, n \in Names :
       /\ views[n] = r => Valid(r)
       /\ \A q \in Runs : undo[q][n] = r => Valid(r)

\* The inductive invariant.
ViewsInv == TypeOK /\ (\A r \in Runs : RunInv(r)) /\ Made

\* No run has begun: the invariant holds.
LEMMA InitViews == Init => ViewsInv
  <1> SUFFICES ASSUME Init PROVE ViewsInv
    OBVIOUS
  <1>1. TypeOK
    BY ViewsAssumption DEF Init, TypeOK, Steps, Contents, Ours, Names
  <1>2. \A r \in Runs : RunInv(r)
    BY DEF Init, RunInv, Shape, Checked, Target, Stale, UndoInv
  <1>3. Made
    BY ViewsAssumption DEF Init, Made
  <1> QED
    BY <1>1, <1>2, <1>3 DEF ViewsInv

(***************************************************************************)
(* Types, action by action.                                                *)
(***************************************************************************)
LocalTypes ==
    /\ step \in [Runs -> Steps]
    /\ cursor \in [Runs -> 0..Last + 1]
    /\ permanent \in [Runs -> SUBSET {"merge_reconciler", "user_admin"}]
    /\ fresh \subseteq Runs
    /\ listed \in [Runs -> SUBSET Names]
    /\ verdict \in [Runs -> {"none", "killed", "published", "unchanged",
                             "undone", "stuck", "incomplete"}]

UndoTypes == undo \in [Runs -> [Names -> Contents \cup {"untouched"}]]

SharedTypes ==
    /\ views \in [Names -> Contents]
    /\ access \subseteq {"merge_reconciler", "user_admin"}
    /\ wanted \in [Runs -> SUBSET Names]
    /\ rejected \in [Runs -> 0..Last]
    /\ before \in [Runs -> [Names -> Contents]]
    /\ overlapped \subseteq Runs

\* The type invariant in the three parts that are kept separately.
LEMMA Types ==
  /\ TypeOK <=> LocalTypes /\ UndoTypes /\ SharedTypes
  /\ TypeOK' <=> LocalTypes' /\ UndoTypes' /\ SharedTypes'
  BY DEF TypeOK, LocalTypes, UndoTypes, SharedTypes

\* A run's own step keeps the types of what it holds in memory.
LEMMA LocalTypesKept ==
  ASSUME ViewsInv, NEW r \in Runs, RunStep(r)
  PROVE  LocalTypes'
  <1>0. LocalTypes /\ SharedTypes /\ RunInv(r)
    BY Types DEF ViewsInv
  <1> USE <1>0 DEF LocalTypes, Goto, End, Steps
  <1>1. CASE Start(r)
    BY <1>1 DEF Start
  <1>2. CASE Kill(r)
    BY <1>2, ViewsAssumption DEF Kill, Leave
  <1>3. CASE Contract(r)
    BY <1>3 DEF Contract, SetAccess
  <1>4. CASE ReadAccess(r)
    BY <1>4 DEF ReadAccess, SharedTypes
  <1>5. CASE Grant(r)
    BY <1>5 DEF Grant, SetAccess
  <1>6. CASE Restore(r)
    BY <1>6, ViewsAssumption DEF Restore, SetAccess, Leave
  <1>7. CASE Preflight(r)
    BY <1>7 DEF Preflight
  <1>8. CASE Cleanup(r)
    BY <1>8 DEF Cleanup
  <1>9. CASE Promoted(r)
    BY <1>9 DEF Promoted
  <1>10. CASE Get(r)
    <2>1. PICK n \in Names : cursor' = [cursor EXCEPT ![r] = n]
      BY <1>10 DEF Get, Next1, Ahead, SharedTypes
    <2> QED
      BY <1>10, <2>1, ViewsAssumption DEF Get, Names
  <1>11. CASE Create(r)
    BY <1>11 DEF Create, SetView
  <1>12. CASE Reread(r)
    BY <1>12 DEF Reread
  <1>13. CASE Put(r)
    <2>1. cursor[r] + 1 \in 0..Last + 1
      BY <1>13, ViewsAssumption DEF Put, RunInv, Target, SharedTypes, Names
    <2> QED
      BY <1>13, <2>1 DEF Put, SetView
  <1>14. CASE Rollback(r)
    BY <1>14 DEF Rollback, UndoOne, SetView
  <1>15. CASE RolledBack(r)
    BY <1>15 DEF RolledBack
  <1>16. CASE List(r)
    BY <1>16 DEF List
  <1>17. CASE Prune(r)
    <2>1. \A n \in listed[r] : n \in 0..Last + 1
      BY ViewsAssumption DEF Names
    <2> QED
      BY <1>17, <2>1 DEF Prune
  <1>18. CASE Pruned(r)
    BY <1>18 DEF Pruned
  <1>19. CASE Check(r)
    BY <1>19 DEF Check
  <1>20. CASE Delete(r)
    BY <1>20 DEF Delete, SetView
  <1> QED
    BY <1>1, <1>2, <1>3, <1>4, <1>5, <1>6, <1>7, <1>8, <1>9, <1>10, <1>11,
       <1>12, <1>13, <1>14, <1>15, <1>16, <1>17, <1>18, <1>19, <1>20 DEF RunStep

(***************************************************************************)
(* What a step of run r does to the views: it writes at most one name,     *)
(* which holds no table, and a view without our labels only where some     *)
(* release defines it.                                                     *)
(***************************************************************************)
Write(r, n, c) ==
    /\ views' = [views EXCEPT ![n] = c]
    /\ n \in Names /\ c \in Contents
    /\ views[n] # "table" /\ c # "table"
    /\ "unlabelled" \in {views[n], c} => \E q \in Runs : n \in wanted[q]
    /\ c \in Runs => Valid(c)

ViewStep(r) ==
    \/ views' = views
    \/ \E n \in Names, c \in Contents : Write(r, n, c)

\* A step of a run writes a view only where ViewStep allows it to.
LEMMA WritesAreOurs ==
  ASSUME ViewsInv, NEW r \in Runs, RunStep(r)
  PROVE  ViewStep(r)
  <1>0. LocalTypes /\ UndoTypes /\ SharedTypes /\ RunInv(r) /\ Made
    BY Types DEF ViewsInv
  <1>1. CASE UNCHANGED views
    BY <1>1 DEF ViewStep
  <1>2. CASE step[r] \in {"create", "put"} /\ SetView(r, cursor[r], r)
    <2>1. /\ cursor[r] \in wanted[r] /\ cursor[r] \in Names
          /\ views[cursor[r]] # "table" /\ Valid(r)
      BY <1>0, <1>2 DEF RunInv, Target, Checked, SharedTypes
    <2>2. r \in Contents /\ r # "table"
      BY ViewsAssumption DEF Contents, Ours
    <2>3. Write(r, cursor[r], r)
      BY <1>2, <2>1, <2>2 DEF Write, SetView
    <2> QED
      BY <2>1, <2>2, <2>3 DEF ViewStep
  <1>3. CASE Rollback(r) /\ views' # views
    <2>1. PICK n \in Changed(r) : UndoOne(r, n)
      BY <1>3 DEF Rollback
    <2>2. /\ n \in Names /\ undo[r][n] # "untouched"
          /\ n \in wanted[r] /\ views[n] # "table" /\ undo[r][n] # "table"
      BY <1>0, <2>1 DEF Changed, RunInv, UndoInv
    <2>3. undo[r][n] \in Contents
      BY <1>0, <2>2 DEF UndoTypes
    <2>4. SetView(r, n, undo[r][n])
      BY <2>1 DEF UndoOne
    <2>5. undo[r][n] \in Runs => Valid(undo[r][n])
      BY <1>0, <2>2 DEF Made
    <2>6. Write(r, n, undo[r][n])
      BY <2>2, <2>3, <2>4, <2>5 DEF Write, SetView
    <2> QED
      BY <2>2, <2>3, <2>6 DEF ViewStep
  <1>4. CASE Delete(r) /\ views' # views
    <2>1. SetView(r, cursor[r], "absent") /\ Deletable(cursor[r])
      BY <1>0, <1>4 DEF Delete, RunInv, Stale
    <2>2. /\ "absent" \in Contents /\ "absent" \notin Runs
          /\ cursor[r] \in Names
      BY <2>1, ViewsAssumption DEF Contents, Deletable
    <2>3. Write(r, cursor[r], "absent")
      BY <2>1, <2>2 DEF Write, SetView, Deletable
    <2> QED
      BY <2>2, <2>3 DEF ViewStep
  <1>5. CASE Create(r) \/ Put(r)
    BY <1>1, <1>2, <1>5 DEF Create, Put
  <1> QED
    BY <1>1, <1>3, <1>4, <1>5
    DEF RunStep, Start, Kill, Contract, ReadAccess, Grant, Restore, Preflight,
        Cleanup, Promoted, Get, Reread, Rollback, RolledBack, List, Prune, Delete,
        Pruned, Check

\* A step of a run keeps the types of the dataset's views and access.
LEMMA SharedTypesKept ==
  ASSUME ViewsInv, NEW r \in Runs, RunStep(r)
  PROVE  SharedTypes'
  <1>0. LocalTypes /\ SharedTypes
    BY Types DEF ViewsInv
  <1>1. views' \in [Names -> Contents]
    BY <1>0, WritesAreOurs DEF ViewStep, Write, SharedTypes
  <1>2. access' \subseteq {"merge_reconciler", "user_admin"}
    <2>1. Account(r) \in {"merge_reconciler", "user_admin"}
      BY DEF Account
    <2>2. permanent[r] \subseteq {"merge_reconciler", "user_admin"}
      BY <1>0 DEF LocalTypes
    <2>3. access \subseteq {"merge_reconciler", "user_admin"}
      BY <1>0 DEF SharedTypes
    <2>4. CASE Contract(r) \/ Grant(r) \/ Restore(r)
      BY <2>1, <2>2, <2>3, <2>4 DEF Contract, Grant, Restore, SetAccess
    <2> QED
      BY <2>3, <2>4
      DEF RunStep, Start, Kill, ReadAccess, Preflight, Cleanup, Promoted, Get,
          Create, Reread, Put, Rollback, RolledBack, List, Prune, Delete, Pruned, Check
  <1>3. /\ UNCHANGED release
        /\ before' \in [Runs -> [Names -> Contents]] /\ overlapped' \subseteq Runs
    <2>1. CASE Start(r)
      BY <1>0, <2>1 DEF Start, SharedTypes
    <2>2. CASE UNCHANGED <<release, history>>
      BY <1>0, <2>2 DEF SharedTypes, history
    <2> QED
      BY <2>1, <2>2
      DEF RunStep, Contract, Grant, Restore, Kill, ReadAccess, Preflight,
          Cleanup, Promoted, Get, Create, Reread, Put, Rollback, RolledBack,
          List, Prune, Delete, Pruned, Check
  <1> QED
    BY <1>0, <1>1, <1>2, <1>3 DEF SharedTypes, release

\* A step of a run keeps the types of what a roll-back would put back.
LEMMA UndoTypesKept ==
  ASSUME ViewsInv, NEW r \in Runs, RunStep(r)
  PROVE  UndoTypes'
  <1>0. LocalTypes /\ UndoTypes /\ SharedTypes /\ RunInv(r)
    BY Types DEF ViewsInv
  <1>1. CASE \E v : Leave(r, v)
    BY <1>0, <1>1 DEF UndoTypes, Leave
  <1>2. CASE \E n \in Names : Remember(r, n)
    <2>1. PICK n \in Names : undo' = [undo EXCEPT ![r] = [@ EXCEPT ![n] = views[n]]]
      BY <1>2 DEF Remember
    <2>2. views[n] \in Contents
      BY <1>0 DEF SharedTypes
    <2> QED
      BY <1>0, <2>1, <2>2 DEF UndoTypes
  <1>3. CASE \E n \in Names : Undone(r, n)
    <2>1. PICK n \in Names : undo' = [undo EXCEPT ![r] = [@ EXCEPT ![n] = "untouched"]]
      BY <1>3 DEF Undone
    <2> QED
      BY <1>0, <2>1 DEF UndoTypes
  <1>4. CASE UNCHANGED undo
    BY <1>0, <1>4 DEF UndoTypes
  <1>5. CASE Create(r)
    <2>1. cursor[r] \in Names
      BY <1>0, <1>5 DEF Create, RunInv, Target, SharedTypes
    <2> QED
      BY <1>2, <1>4, <1>5, <2>1 DEF Create
  <1>6. CASE Get(r)
    BY <1>0, <1>2, <1>4, <1>6 DEF Get, Next1, Ahead, SharedTypes
  <1>7. CASE Rollback(r)
    BY <1>3, <1>7 DEF Rollback, Changed
  <1> QED
    BY <1>1, <1>4, <1>5, <1>6, <1>7
    DEF RunStep, Start, Contract, Grant, Restore, Kill, ReadAccess, Preflight,
        Cleanup, Promoted, Reread, Put, RolledBack, List, Prune, Delete, Pruned, Check

\* A step of a run keeps the types and the release of every run.
LEMMA TypesKept ==
  ASSUME ViewsInv, NEW r \in Runs, RunStep(r)
  PROVE  TypeOK' /\ UNCHANGED release
  <1>1. UNCHANGED release
    BY DEF RunStep, Start, Kill, Contract, ReadAccess, Grant, Restore,
           Preflight, Cleanup, Promoted, Get, Create, Reread, Put, Rollback,
           RolledBack, List, Prune, Delete, Pruned, Check
  <1> QED
    BY <1>1, LocalTypesKept, SharedTypesKept, UndoTypesKept, Types

(***************************************************************************)
(* The other runs keep their local state.                                  *)
(***************************************************************************)
Others(r) ==
    \A q \in Runs \ {r} :
       /\ step'[q] = step[q] /\ cursor'[q] = cursor[q]
       /\ verdict'[q] = verdict[q] /\ undo'[q] = undo[q]
       /\ listed'[q] = listed[q] /\ before'[q] = before[q]

\* A step of one run leaves what the other runs hold alone.
LEMMA OthersStay ==
  ASSUME ViewsInv, NEW r \in Runs, RunStep(r)
  PROVE  Others(r)
  <1> SUFFICES ASSUME NEW q \in Runs \ {r}
               PROVE  /\ step'[q] = step[q] /\ cursor'[q] = cursor[q]
                      /\ verdict'[q] = verdict[q] /\ undo'[q] = undo[q]
                      /\ listed'[q] = listed[q] /\ before'[q] = before[q]
    BY DEF Others
  <1>0. LocalTypes /\ UndoTypes /\ SharedTypes
    BY Types DEF ViewsInv
  <1>1. step'[q] = step[q]
    BY <1>0
    DEF LocalTypes, RunStep, Goto, End, Leave, Start, Kill, Contract,
        ReadAccess, Grant, Restore, Preflight, Cleanup, Promoted, Get, Create,
        Reread, Put, Rollback, RolledBack, List, Prune, Delete, Pruned, Check
  <1>2. cursor'[q] = cursor[q] /\ listed'[q] = listed[q]
    BY <1>0
    DEF LocalTypes, RunStep, Goto, End, Leave, Start, Kill, Contract,
        ReadAccess, Grant, Restore, Preflight, Cleanup, Promoted, Get, Create,
        Reread, Put, Rollback, RolledBack, List, Prune, Delete, Pruned, Check
  <1>3. verdict'[q] = verdict[q]
    BY <1>0
    DEF LocalTypes, RunStep, Goto, End, Leave, Start, Kill, Contract,
        ReadAccess, Grant, Restore, Preflight, Cleanup, Promoted, Get, Create,
        Reread, Put, Rollback, RolledBack, List, Prune, Delete, Pruned, Check
  <1>4. undo'[q] = undo[q]
    BY <1>0
    DEF UndoTypes, RunStep, Leave, Remember, Undone, Start, Kill, Contract,
        ReadAccess, Grant, Restore, Preflight, Cleanup, Promoted, Get, Create,
        Reread, Put, Rollback, RolledBack, List, Prune, Delete, Pruned, Check
  <1>5. before'[q] = before[q]
    BY <1>0
    DEF SharedTypes, history, RunStep, Start, Kill, Contract, ReadAccess,
        Grant, Restore, Preflight, Cleanup, Promoted, Get, Create, Reread, Put,
        Rollback, RolledBack, List, Prune, Delete, Pruned, Check
  <1> QED
    BY <1>1, <1>2, <1>3, <1>4, <1>5

\* Objects that are no view stay so, and no others become one.
LEMMA TablesStay ==
  ASSUME TypeOK, NEW r \in Runs, ViewStep(r), NEW n \in Names
  PROVE  views'[n] = "table" <=> views[n] = "table"
  BY DEF ViewStep, Write, TypeOK

(***************************************************************************)
(* The run's own invariant.                                                *)
(***************************************************************************)
LEMMA ShapeKept ==
  ASSUME ViewsInv, NEW r \in Runs, RunStep(r)
  PROVE  Shape(r)'
  <1>0. LocalTypes /\ UndoTypes /\ Shape(r)
    BY Types DEF ViewsInv, RunInv
  <1> USE <1>0 DEF LocalTypes, Shape, Goto, End
  <1>1. CASE Start(r)
    BY <1>1 DEF Start
  <1>2. CASE Kill(r)
    BY <1>2 DEF Kill, Leave
  <1>3. CASE Contract(r)
    BY <1>3 DEF Contract
  <1>4. CASE ReadAccess(r)
    BY <1>4 DEF ReadAccess
  <1>5. CASE Grant(r)
    BY <1>5 DEF Grant
  <1>6. CASE Restore(r)
    BY <1>6 DEF Restore, Leave
  <1>7. CASE Preflight(r)
    BY <1>7 DEF Preflight
  <1>8. CASE Cleanup(r)
    BY <1>8 DEF Cleanup
  <1>9. CASE Promoted(r)
    BY <1>9 DEF Promoted
  <1>10. CASE Get(r)
    BY <1>10 DEF Get
  <1>11. CASE Create(r)
    BY <1>11 DEF Create
  <1>12. CASE Reread(r)
    BY <1>12 DEF Reread
  <1>13. CASE Put(r)
    BY <1>13 DEF Put
  <1>14. CASE Rollback(r)
    BY <1>14 DEF Rollback
  <1>15. CASE RolledBack(r)
    BY <1>15 DEF RolledBack
  <1>16. CASE List(r)
    BY <1>16 DEF List
  <1>17. CASE Prune(r)
    BY <1>17 DEF Prune
  <1>18. CASE Pruned(r)
    BY <1>18 DEF Pruned
  <1>19. CASE Check(r)
    BY <1>19 DEF Check
  <1>20. CASE Delete(r)
    BY <1>20 DEF Delete
  <1> QED
    BY <1>1, <1>2, <1>3, <1>4, <1>5, <1>6, <1>7, <1>8, <1>9, <1>10, <1>11,
       <1>12, <1>13, <1>14, <1>15, <1>16, <1>17, <1>18, <1>19, <1>20 DEF RunStep

\* The preflight validates the whole release before the first promotion.
LEMMA CheckedKept ==
  ASSUME ViewsInv, NEW r \in Runs, RunStep(r)
  PROVE  Checked(r)'
  <1>0. LocalTypes /\ Checked(r) /\ UNCHANGED <<wanted, rejected>>
    BY Types, TypesKept DEF ViewsInv, RunInv, release
  <1> USE <1>0 DEF LocalTypes, Checked, Valid, Goto, End
  <1>1. CASE Preflight(r)
    <2>1. ShadowsPass(r) => Valid(r)
      BY DEF ShadowsPass, Validates
    <2> QED
      BY <1>1, <2>1 DEF Preflight
  <1>2. CASE Cleanup(r)
    BY <1>2 DEF Cleanup
  <1>3. CASE Start(r) \/ Contract(r) \/ ReadAccess(r) \/ Grant(r)
    BY <1>3 DEF Start, Contract, ReadAccess, Grant
  <1>4. CASE Kill(r) \/ Restore(r)
    BY <1>4 DEF Kill, Restore, Leave
  <1>5. CASE Promoted(r) \/ Get(r) \/ Create(r) \/ Reread(r) \/ Put(r)
    BY <1>5 DEF Promoted, Get, Create, Reread, Put
  <1>6. CASE Rollback(r) \/ RolledBack(r)
    BY <1>6 DEF Rollback, RolledBack
  <1>7. CASE List(r) \/ Prune(r) \/ Delete(r) \/ Pruned(r) \/ Check(r)
    BY <1>7 DEF List, Prune, Delete, Pruned, Check
  <1> QED
    BY <1>1, <1>2, <1>3, <1>4, <1>5, <1>6, <1>7 DEF RunStep

\* The name a promotion is working on stays one of its release.
LEMMA TargetKept ==
  ASSUME ViewsInv, NEW r \in Runs, RunStep(r)
  PROVE  Target(r)'
  <1>0. /\ LocalTypes /\ SharedTypes /\ TypeOK /\ Target(r)
        /\ UNCHANGED <<wanted, rejected>>
    BY Types, TypesKept DEF ViewsInv, RunInv, release
  <1>1. \A n \in Names : views'[n] = "table" <=> views[n] = "table"
    BY <1>0, WritesAreOurs, TablesStay
  <1>2. CASE Get(r)
    <2>1. PICK n \in Next1(r) :
            /\ cursor' = [cursor EXCEPT ![r] = n]
            /\ views[n] # "table" \/ step' = [step EXCEPT ![r] = "rollback"]
      BY <1>2 DEF Get, Goto
    <2>2. n \in wanted[r] /\ n \in Names
      BY <1>0, <2>1 DEF Next1, Ahead, SharedTypes
    <2>3. cursor'[r] = n
      BY <1>0, <2>1 DEF LocalTypes
    <2>4. CASE views[n] # "table"
      BY <1>0, <1>1, <2>2, <2>3, <2>4 DEF Target
    <2>5. CASE step' = [step EXCEPT ![r] = "rollback"]
      BY <1>0, <2>5 DEF LocalTypes, Target
    <2> QED
      BY <2>1, <2>4, <2>5
  <1>3. CASE Create(r) \/ Reread(r)
    <2>1. cursor' = cursor /\ cursor[r] \in wanted[r] /\ cursor[r] \in Names
          /\ views[cursor[r]] # "table"
      BY <1>0, <1>3 DEF Create, Reread, Target, SharedTypes
    <2> QED
      BY <1>0, <1>1, <2>1 DEF Target
  <1>4. CASE step'[r] \notin {"create", "reread", "put"}
    BY <1>4 DEF Target
  <1>5. CASE Put(r)
    BY <1>0, <1>4, <1>5 DEF LocalTypes, Put, Goto
  <1>6. CASE Start(r) \/ Contract(r) \/ ReadAccess(r) \/ Grant(r)
    BY <1>0, <1>4, <1>6 DEF LocalTypes, Start, Contract, ReadAccess, Grant, Goto, End
  <1>7. CASE Kill(r) \/ Restore(r)
    BY <1>0, <1>4, <1>7 DEF LocalTypes, Kill, Restore, Leave, Goto, End
  <1>8. CASE Preflight(r) \/ Cleanup(r) \/ Promoted(r)
    BY <1>0, <1>4, <1>8 DEF LocalTypes, Preflight, Cleanup, Promoted, Goto, End
  <1>9. CASE Rollback(r) \/ RolledBack(r)
    BY <1>0, <1>4, <1>9 DEF LocalTypes, Rollback, RolledBack, Goto, End
  <1>10. CASE List(r) \/ Prune(r) \/ Delete(r) \/ Pruned(r) \/ Check(r)
    BY <1>0, <1>4, <1>10 DEF LocalTypes, List, Prune, Delete, Pruned, Check, Goto, End
  <1> QED
    BY <1>2, <1>3, <1>5, <1>6, <1>7, <1>8, <1>9, <1>10 DEF RunStep

\* No write of a run puts a foreign view where no release defines it.
LEMMA DeletableKept ==
  ASSUME ViewsInv, NEW r \in Runs, RunStep(r), NEW n, Deletable(n)
  PROVE  Deletable(n)'
  <1>1. TypeOK /\ UNCHANGED wanted /\ ViewStep(r)
    BY TypesKept, WritesAreOurs DEF ViewsInv, release
  <1>2. n \in Names /\ (views'[n] = "table" <=> views[n] = "table")
    BY <1>1, TablesStay DEF Deletable
  <1>3. CASE views'[n] = views[n]
    BY <1>1, <1>2, <1>3 DEF Deletable
  <1>4. CASE views'[n] # views[n]
    <2>1. PICK c \in Contents : Write(r, n, c)
      BY <1>1, <1>2, <1>4 DEF ViewStep, Write, TypeOK
    <2>2. views'[n] = c
      BY <1>1, <1>2, <2>1 DEF Write, TypeOK
    <2> QED
      BY <1>1, <1>2, <2>1, <2>2 DEF Deletable, Write
  <1> QED
    BY <1>3, <1>4

\* What a run is about to delete was managed when it looked, and nobody has put
\* a table or a view that no release defines there since.
LEMMA StaleKept ==
  ASSUME ViewsInv, NEW r \in Runs, RunStep(r)
  PROVE  Stale(r)'
  <1>0. LocalTypes /\ SharedTypes /\ Stale(r)
    BY Types DEF ViewsInv, RunInv
  <1>1. CASE Prune(r)
    <2>1. CASE step'[r] = "delete"
      <3>1. PICK n \in listed[r] : IsManaged(n) /\ cursor' = [cursor EXCEPT ![r] = n]
        BY <1>0, <1>1, <2>1 DEF Prune, Goto, End, LocalTypes
      <3>2. cursor'[r] = n /\ n \in Names
        BY <1>0, <3>1 DEF LocalTypes
      <3>3. Deletable(n)
        BY <3>1, <3>2, ViewsAssumption DEF Deletable, IsManaged, Ours
      <3>4. Deletable(n)'
        BY <3>3, DeletableKept
      <3> QED
        BY <3>2, <3>4 DEF Stale
    <2> QED
      BY <2>1 DEF Stale
  <1>2. CASE ~Prune(r)
    <2>1. step'[r] # "delete"
      BY <1>0, <1>2
      DEF LocalTypes, Goto, End, Leave, RunStep, Start, Kill, Contract,
          ReadAccess, Grant, Restore, Preflight, Cleanup, Promoted, Get, Create,
          Reread, Put, Rollback, RolledBack, List, Delete, Pruned, Check
    <2> QED
      BY <2>1 DEF Stale
  <1> QED
    BY <1>1, <1>2

\* What a step of run r remembers is what it is about to overwrite.
UndoStep(r) ==
    \A n \in Names :
       \/ undo'[r][n] \in {undo[r][n], "untouched"}
       \/ undo'[r][n] = views[n] /\ n \in wanted[r] /\ views[n] # "table"

\* What a promotion remembers for its roll-back is what it then overwrites.
LEMMA RemembersOwn ==
  ASSUME ViewsInv, NEW r \in Runs, RunStep(r)
  PROVE  UndoStep(r)
  <1>0. LocalTypes /\ UndoTypes /\ SharedTypes /\ RunInv(r)
    BY Types DEF ViewsInv
  <1>1. CASE \E v : Leave(r, v)
    BY <1>0, <1>1 DEF UndoTypes, Leave, UndoStep
  <1>2. CASE \E n \in Names : /\ Remember(r, n)
                              /\ n \in wanted[r] /\ views[n] # "table"
    BY <1>0, <1>2 DEF UndoTypes, Remember, UndoStep
  <1>3. CASE \E n \in Names : Undone(r, n)
    BY <1>0, <1>3 DEF UndoTypes, Undone, UndoStep
  <1>4. CASE UNCHANGED undo
    BY <1>4 DEF UndoStep
  <1>5. CASE Create(r)
    <2>1. /\ cursor[r] \in Names /\ cursor[r] \in wanted[r]
          /\ views[cursor[r]] # "table"
      BY <1>0, <1>5 DEF Create, RunInv, Target, SharedTypes
    <2> QED
      BY <1>2, <1>4, <1>5, <2>1 DEF Create
  <1>6. CASE Get(r)
    BY <1>0, <1>2, <1>4, <1>6 DEF Get, Next1, Ahead, SharedTypes
  <1>7. CASE Rollback(r)
    BY <1>3, <1>7 DEF Rollback, Changed
  <1> QED
    BY <1>1, <1>4, <1>5, <1>6, <1>7
    DEF RunStep, Start, Contract, Grant, Restore, Kill, ReadAccess, Preflight,
        Cleanup, Promoted, Reread, Put, RolledBack, List, Prune, Delete, Pruned, Check

\* A step of any run keeps the invariant of each run.
LEMMA RunInvKept ==
  ASSUME ViewsInv, NEW r \in Runs, RunStep(r), NEW q \in Runs
  PROVE  RunInv(q)'
  <1>0. /\ TypeOK /\ SharedTypes /\ RunInv(q)
        /\ UNCHANGED <<wanted, rejected>>
    BY Types, TypesKept DEF ViewsInv, release
  <1>1. \A n \in Names : views'[n] = "table" <=> views[n] = "table"
    BY <1>0, WritesAreOurs, TablesStay
  <1>2. CASE q = r
    <2>1. UndoInv(r)'
      BY <1>0, <1>1, <1>2, RemembersOwn DEF RunInv, UndoInv, UndoStep
    <2> QED
      BY <1>2, <2>1, ShapeKept, CheckedKept, TargetKept, StaleKept
         DEF RunInv
  <1>3. CASE q # r
    <2>1. /\ step'[q] = step[q] /\ cursor'[q] = cursor[q]
          /\ verdict'[q] = verdict[q] /\ undo'[q] = undo[q]
      BY <1>3, OthersStay DEF Others
    <2>2. Shape(q)' /\ Checked(q)' /\ UndoInv(q)'
      BY <1>0, <1>1, <2>1 DEF RunInv, Shape, Checked, Valid, UndoInv
    <2>3. Target(q)'
      BY <1>0, <1>1, <2>1 DEF RunInv, Target, SharedTypes
    <2>4. Stale(q)'
      <3>1. CASE step[q] = "delete"
        BY <1>0, <2>1, <3>1, DeletableKept DEF RunInv, Stale, Deletable
      <3> QED
        BY <2>1, <3>1 DEF Stale
    <2> QED
      BY <2>2, <2>3, <2>4 DEF RunInv
  <1> QED
    BY <1>2, <1>3

\* A step of a run makes no view of a rejected release, not by a roll-back
\* either.
LEMMA MadeKept ==
  ASSUME ViewsInv, NEW r \in Runs, RunStep(r)
  PROVE  Made'
  <1>0. /\ TypeOK /\ Made /\ UNCHANGED <<wanted, rejected>>
    BY TypesKept DEF ViewsInv, release
  <1> SUFFICES ASSUME NEW p \in Runs, NEW n \in Names
               PROVE  /\ views'[n] = p => Valid(p)
                      /\ \A q \in Runs : undo'[q][n] = p => Valid(p)
    BY <1>0 DEF Made, Valid
  <1>1. views'[n] = p => Valid(p)
    BY <1>0, WritesAreOurs DEF ViewStep, Write, Made, TypeOK
  <1>2. ASSUME NEW q \in Runs, undo'[q][n] = p
        PROVE  Valid(p)
    <2>1. CASE q = r
      <3>1. UndoStep(r) /\ p # "untouched"
        BY RemembersOwn, ViewsAssumption
      <3>2. undo[r][n] = p \/ views[n] = p
        BY <1>2, <2>1, <3>1 DEF UndoStep
      <3> QED
        BY <1>0, <3>2 DEF Made
    <2>2. CASE q # r
      BY <1>0, <1>2, <2>2, OthersStay DEF Others, Made
    <2> QED
      BY <2>1, <2>2
  <1> QED
    BY <1>1, <1>2

\* Every step preserves the invariant.
LEMMA StepViews == ViewsInv /\ [Next]_vars => ViewsInv'
  <1> SUFFICES ASSUME ViewsInv, [Next]_vars PROVE ViewsInv'
    OBVIOUS
  <1>1. ASSUME NEW r \in Runs, RunStep(r)
        PROVE  ViewsInv'
    BY <1>1, TypesKept, RunInvKept, MadeKept DEF ViewsInv
  <1>2. CASE UNCHANGED vars
    BY <1>2
    DEF vars, runVars, release, history, ViewsInv, TypeOK, RunInv, Shape,
        Checked, Valid, Target, Stale, Deletable, UndoInv, Made
  <1> QED
    BY <1>1, <1>2 DEF Next

(***************************************************************************)
(* The theorems.                                                           *)
(***************************************************************************)

\* Every reachable state has its types, every run has validated its release
\* before it promotes, and undoes no more than it has written.
THEOREM ViewsCorrect == Spec => []ViewsInv
  BY InitViews, StepViews, PTL DEF Spec

\* A release that BigQuery rejects in part changes no canonical view, whatever
\* other runs do at the same time: no view, and nothing that a rollback puts
\* back, is of a release whose preflight has not passed.
THEOREM RejectedReleasesStayOut == Spec => []PreflightProtects
  <1>1. ViewsInv => PreflightProtects
    BY DEF ViewsInv, Made, Valid, PreflightProtects
  <1> QED
    BY <1>1, ViewsCorrect, PTL

\* No step of any run, rollbacks and pruning of overlapping runs included,
\* changes a table or a foreign view that no release defines.
THEOREM UnmanagedStay == Spec => UnmanagedKept
  <1>1. ASSUME ViewsInv, [Next]_vars
        PROVE  [\A n \in Names :
                   \/ views[n] = "table"
                   \/ views[n] = "unlabelled" /\ \A r \in Runs : n \notin wanted[r]
                   => views'[n] = views[n]]_vars
    <2>1. ASSUME NEW r \in Runs, RunStep(r), NEW n \in Names,
                 \/ views[n] = "table"
                 \/ views[n] = "unlabelled" /\ \A q \in Runs : n \notin wanted[q]
          PROVE  views'[n] = views[n]
      <3>1. ViewStep(r) /\ views \in [Names -> Contents]
        BY <1>1, <2>1, WritesAreOurs DEF ViewsInv, TypeOK
      <3>2. ASSUME NEW k \in Names, NEW c \in Contents, Write(r, k, c)
            PROVE  views'[n] = views[n]
        <4>1. k # n
          BY <2>1, <3>2 DEF Write
        <4> QED
          BY <3>1, <3>2, <4>1 DEF Write
      <3> QED
        BY <3>1, <3>2 DEF ViewStep
    <2> QED
      BY <1>1, <2>1 DEF Next
  <1> QED
    BY <1>1, ViewsCorrect, PTL DEF Spec, UnmanagedKept

(***************************************************************************)
(* Runs that no other one overlaps.                                        *)
(***************************************************************************)
Lone(r) ==
    r \notin overlapped /\ Running(r) => \A q \in Runs \ {r} : ~Running(q)

Untouched(r, n) == views[n] = before[r][n] /\ undo[r][n] = "untouched"
Replaced(r, n)  == views[n] = r /\ undo[r][n] = before[r][n]

\* What an undone promotion may leave behind at name n.
LostCreate(r, n) == n = cursor[r] /\ before[r][n] = "absent"

\* How far a run's promotion has come.
Promoting(r) ==
    /\ step[r] \in {"contract", "read_access", "grant", "preflight", "cleanup"} =>
         \A n \in Names : Untouched(r, n)
    /\ step[r] \in {"get", "create", "reread", "put"} =>
         \A n \in Names :
            /\ n \in wanted[r] /\ n < cursor[r] => Replaced(r, n)
            /\ n \notin wanted[r] \/ n > cursor[r] => Untouched(r, n)
    /\ step[r] = "get" =>
         \A n \in Names : n = cursor[r] => Untouched(r, n)
    /\ step[r] = "create" =>
         \A n \in Names : n = cursor[r] =>
            Untouched(r, n) /\ before[r][n] = "absent"
    /\ step[r] = "reread" =>
         \A n \in Names : n = cursor[r] => Replaced(r, n)
    /\ step[r] = "put" =>
         \A n \in Names : n = cursor[r] => undo[r][n] = before[r][n]
    /\ step[r] = "rollback" /\ verdict[r] = "none" =>
         \A n \in Names :
            /\ undo[r][n] = "untouched" =>
                 views[n] = before[r][n] \/ LostCreate(r, n)
            /\ undo[r][n] # "untouched" => undo[r][n] = before[r][n]

\* What it has achieved.
Ending(r) ==
    /\ \/ step[r] \in {"list", "prune", "delete", "check"}
       \/ step[r] = "restore" /\ verdict[r] = "published"
       => \A n \in wanted[r] : views[n] = r
    /\ step[r] \in {"prune", "delete"} => listed[r] \subseteq Names \ wanted[r]
    /\ step[r] = "delete" => cursor[r] \in Names \ wanted[r]
    /\ step[r] = "restore" /\ verdict[r] = "published" /\ r \in Merge =>
         \A n \in Names \ wanted[r] : views[n] \notin Ours
    /\ step[r] = "restore" /\ verdict[r] = "unchanged" =>
         \A n \in Names : views[n] = before[r][n]
    /\ step[r] = "restore" /\ verdict[r] = "undone" =>
         \A n \in Names : views[n] = before[r][n] \/ LostCreate(r, n)

Progress(r) == r \notin overlapped => Promoting(r) /\ Ending(r)

LoneInv == ViewsInv /\ \A r \in Runs : Lone(r) /\ Progress(r)

\* No run has begun: nothing overlaps, nothing was promoted.
LEMMA InitLone == Init => LoneInv
  <1> SUFFICES ASSUME Init PROVE LoneInv
    OBVIOUS
  <1>1. \A r \in Runs : Lone(r) /\ Progress(r)
    BY DEF Init, Lone, Running, Progress, Promoting, Ending
  <1> QED
    BY <1>1, InitViews DEF LoneInv

\* Runs that are found to overlap stay so.
LEMMA OverlapsGrow ==
  ASSUME TypeOK, NEW r \in Runs, RunStep(r)
  PROVE  /\ overlapped \subseteq overlapped'
         /\ \A q \in Runs \ {r} : Running(q) =>
              ~Start(r) \/ q \in overlapped'
         /\ Start(r) => before' = [before EXCEPT ![r] = views]
         /\ ~Start(r) => before' = before
  BY DEF history, RunStep, Start, Kill, Contract, ReadAccess, Grant, Restore,
         Preflight, Cleanup, Promoted, Get, Create, Reread, Put, Rollback,
         RolledBack, List, Prune, Delete, Pruned, Check

\* Only a run that is running, or starts, takes a step.
LEMMA OnlyRunningSteps ==
  ASSUME NEW r \in Runs, RunStep(r)
  PROVE  Start(r) \/ Running(r)
  BY DEF Running, RunStep, Kill, Contract, ReadAccess, Grant, Restore,
         Preflight, Cleanup, Promoted, Get, Create, Reread, Put, Rollback,
         RolledBack, List, Prune, Delete, Pruned, Check

\* A run that is alone remains so, or is marked as overlapped.
LEMMA LoneKept ==
  ASSUME LoneInv, NEW r \in Runs, RunStep(r), NEW q \in Runs
  PROVE  Lone(q)'
  <1>0. TypeOK /\ Others(r)
    BY OthersStay DEF LoneInv, ViewsInv
  <1> SUFFICES ASSUME q \notin overlapped', Running(q)', NEW p \in Runs \ {q}
               PROVE  ~Running(p)'
    BY DEF Lone
  <1>1. q \notin overlapped
    BY <1>0, OverlapsGrow
  <1>2. CASE q = r
    <2>1. Running(p)' <=> Running(p)
      BY <1>0, <1>2 DEF Others, Running
    <2>2. CASE Start(r)
      BY <1>2, <2>1, <2>2 DEF Start, Running
    <2>3. CASE Running(r)
      BY <1>1, <1>2, <2>1, <2>3 DEF LoneInv, Lone
    <2> QED
      BY <2>2, <2>3, OnlyRunningSteps
  <1>3. CASE q # r
    <2>1. Running(q)
      BY <1>0, <1>3 DEF Others, Running
    <2>2. ~Start(r)
      BY <1>0, <1>3, <2>1, OverlapsGrow
    <2>3. ~Running(r)
      BY <1>1, <1>3, <2>1 DEF LoneInv, Lone
    <2> QED
      BY <2>2, <2>3, OnlyRunningSteps
  <1> QED
    BY <1>2, <1>3

\* Nobody else's step meets a lone run at work.
LEMMA ProgressOfOthers ==
  ASSUME LoneInv, NEW r \in Runs, RunStep(r), NEW q \in Runs, q # r
  PROVE  Progress(q)'
  <1>0. TypeOK /\ Others(r)
    BY OthersStay DEF LoneInv, ViewsInv
  <1>1. CASE Running(q)
    <2> SUFFICES ASSUME q \notin overlapped' PROVE FALSE
      BY DEF Progress
    <2>1. q \notin overlapped /\ ~Start(r)
      BY <1>0, <1>1, OverlapsGrow
    <2>2. ~Running(r)
      BY <1>1, <2>1 DEF LoneInv, Lone
    <2> QED
      BY <2>1, <2>2, OnlyRunningSteps
  <1>2. CASE ~Running(q)
    <2>1. step'[q] \in {"idle", "done"}
      BY <1>0, <1>2 DEF Others, Running
    <2> QED
      BY <2>1 DEF Progress, Promoting, Ending
  <1> QED
    BY <1>1, <1>2

\* What the proofs about a lone run's own steps start from.
LEMMA OwnProgress ==
  ASSUME LoneInv, NEW r \in Runs, RunStep(r), r \notin overlapped'
  PROVE  /\ LocalTypes /\ UndoTypes /\ SharedTypes /\ Shape(r)
         /\ Promoting(r) /\ Ending(r) /\ wanted' = wanted
         /\ ~Start(r) => before' = before
         /\ \A n \in Names : before[r][n] # "untouched"
  <1>1. TypeOK /\ RunInv(r) /\ LocalTypes /\ UndoTypes /\ SharedTypes
    BY Types DEF LoneInv, ViewsInv
  <1>2. Promoting(r) /\ Ending(r)
    BY <1>1, OverlapsGrow DEF LoneInv, Progress
  <1>3. wanted' = wanted
    BY TypesKept DEF LoneInv, release
  <1>4. \A n \in Names : before[r][n] # "untouched"
    BY <1>1, ViewsAssumption DEF SharedTypes, Contents, Ours
  <1> QED
    BY <1>1, <1>2, <1>3, <1>4, OverlapsGrow DEF RunInv

\* The steps before the promotion and those after it.
LEMMA ProgressAround ==
  ASSUME LoneInv, NEW r \in Runs, RunStep(r), r \notin overlapped',
         \/ Start(r) \/ Kill(r) \/ Contract(r) \/ ReadAccess(r) \/ Grant(r)
         \/ Restore(r) \/ Preflight(r) \/ Cleanup(r)
         \/ List(r) \/ Prune(r) \/ Delete(r) \/ Pruned(r) \/ Check(r)
  PROVE  Promoting(r)' /\ Ending(r)'
  <1>0. /\ LocalTypes /\ UndoTypes /\ SharedTypes /\ Shape(r)
        /\ Promoting(r) /\ Ending(r) /\ wanted' = wanted
        /\ ~Start(r) => before' = before
    BY OwnProgress
  <1>1. CASE Start(r)
    <2>1. /\ step'[r] \in {"contract", "read_access"} /\ views' = views
          /\ undo' = undo /\ before'[r] = views
          /\ \A n \in Names : undo[r][n] = "untouched"
      BY <1>0, <1>1
      DEF Start, Goto, LocalTypes, SharedTypes, Shape
    <2> QED
      BY <2>1 DEF Promoting, Ending, Untouched
  <1>2. CASE Kill(r) \/ Restore(r)
    <2>1. step'[r] = "done"
      BY <1>0, <1>2 DEF Kill, Restore, Leave, End, Goto, LocalTypes
    <2> QED
      BY <2>1 DEF Promoting, Ending
  <1>3. CASE Contract(r) \/ ReadAccess(r) \/ Grant(r) \/ Preflight(r)
    <2>1. /\ step'[r] \in {"read_access", "grant", "preflight", "cleanup", "done"}
          /\ UNCHANGED <<views, undo, before>>
          /\ \A n \in Names : Untouched(r, n)
      BY <1>0, <1>3
      DEF Contract, ReadAccess, Grant, Preflight, End, Goto, LocalTypes,
          Promoting, history
    <2> QED
      BY <2>1 DEF Promoting, Ending, Untouched
  <1>4. CASE Cleanup(r)
    <2>1. /\ \/ step'[r] = "get"
             \/ step'[r] = "restore" /\ verdict'[r] = "unchanged"
          /\ UNCHANGED <<views, undo, before, cursor>> /\ cursor[r] = 1
          /\ \A n \in Names : Untouched(r, n)
      BY <1>0, <1>4
      DEF Cleanup, End, Goto, LocalTypes, Shape, Promoting, history
    <2> QED
      BY <1>0, <2>1, ViewsAssumption DEF Promoting, Ending, Untouched, Names
  <1>5. CASE List(r) \/ Pruned(r)
    <2>1. /\ \/ /\ step'[r] = "prune" /\ listed'[r] \subseteq Names \ wanted[r]
             \/ step'[r] = "check"
             \/ step'[r] = "restore" /\ verdict'[r] = "incomplete"
          /\ UNCHANGED views
          /\ \A n \in wanted[r] : views[n] = r
      BY <1>0, <1>5 DEF List, Pruned, End, Goto, LocalTypes, Ending
    <2> QED
      BY <1>0, <2>1 DEF Promoting, Ending
  <1>6. CASE Prune(r)
    <2>1. PICK n \in listed[r] :
            /\ listed' = [listed EXCEPT ![r] = @ \ {n}]
            /\ \/ step'[r] = "delete" /\ cursor' = [cursor EXCEPT ![r] = n]
               \/ step'[r] = "prune"
               \/ step'[r] = "restore" /\ verdict'[r] = "incomplete"
      BY <1>0, <1>6 DEF Prune, End, Goto, LocalTypes
    <2>2. /\ listed[r] \subseteq Names \ wanted[r]
          /\ \A m \in wanted[r] : views[m] = r
          /\ UNCHANGED views
      BY <1>0, <1>6 DEF Prune, Ending
    <2>3. listed'[r] \subseteq Names \ wanted[r]
      BY <1>0, <2>1, <2>2 DEF LocalTypes
    <2>4. step'[r] = "delete" => cursor'[r] \in Names \ wanted[r]
      BY <1>0, <2>1, <2>2 DEF LocalTypes
    <2> QED
      BY <1>0, <2>1, <2>2, <2>3, <2>4 DEF Promoting, Ending
  <1>8. CASE Delete(r)
    <2>1. /\ \/ step'[r] = "prune"
             \/ step'[r] = "restore" /\ verdict'[r] = "incomplete"
          /\ views' = views \/ views' = [views EXCEPT ![cursor[r]] = "absent"]
          /\ listed' = listed
      BY <1>0, <1>8 DEF Delete, SetView, End, Goto, LocalTypes
    <2>2. /\ cursor[r] \notin wanted[r]
          /\ listed[r] \subseteq Names \ wanted[r]
          /\ \A m \in wanted[r] : views[m] = r
      BY <1>0, <1>8 DEF Delete, Ending
    <2>3. \A m \in wanted[r] : views'[m] = r
      BY <1>0, <2>1, <2>2 DEF SharedTypes
    <2> QED
      BY <1>0, <2>1, <2>2, <2>3 DEF Promoting, Ending
  <1>7. CASE Check(r)
    <2>1. UNCHANGED views /\ \A n \in wanted[r] : views[n] = r
      BY <1>0, <1>7 DEF Check, Ending
    <2>2. \/ /\ step'[r] = "restore" /\ verdict'[r] = "published"
             /\ {n \in Names : IsManaged(n)} = wanted[r]
          \/ step'[r] = "restore" /\ verdict'[r] = "incomplete"
      BY <1>0, <1>7 DEF Check, End, Goto, LocalTypes
    <2> QED
      BY <1>0, <2>1, <2>2 DEF Promoting, Ending, IsManaged
  <1> QED
    BY <1>1, <1>2, <1>3, <1>4, <1>5, <1>6, <1>7, <1>8

\* A promotion that fails knows what it has to undo.
LEMMA ProgressToRollback ==
  ASSUME LoneInv, NEW r \in Runs, RunStep(r), r \notin overlapped',
         step[r] \in {"get", "create", "reread", "put"},
         step'[r] = "rollback", undo' = undo,
         \/ views' = views
         \/ /\ step[r] \in {"create", "put"}
            /\ views' = [views EXCEPT ![cursor[r]] = r],
         \/ cursor' = cursor
         \/ step[r] = "get"
  PROVE  Promoting(r)' /\ Ending(r)'
  <1>0. /\ SharedTypes /\ LocalTypes /\ Promoting(r) /\ before' = before
        /\ \A n \in Names : before[r][n] # "untouched"
    BY OwnProgress DEF Start
  <1>1. ASSUME NEW n \in Names
        PROVE  /\ undo[r][n] = "untouched" =>
                    \/ views'[n] = before[r][n]
                    \/ cursor' = cursor /\ LostCreate(r, n)
               /\ undo[r][n] # "untouched" => undo[r][n] = before[r][n]
    <2>1. n < cursor[r] \/ n = cursor[r] \/ n > cursor[r]
      BY <1>0, ViewsAssumption DEF LocalTypes, Names
    <2>2. CASE n # cursor[r]
      BY <1>0, <2>1, <2>2
      DEF Promoting, Untouched, Replaced, SharedTypes
    <2>3. CASE n = cursor[r]
      BY <1>0, <2>3
      DEF Promoting, Untouched, Replaced, SharedTypes, LostCreate
    <2> QED
      BY <2>2, <2>3
  <1>2. Promoting(r)'
    BY <1>0, <1>1 DEF Promoting, LostCreate
  <1>3. Ending(r)'
    BY DEF Ending
  <1> QED
    BY <1>2, <1>3

\* The end of a lone run's loop over its release: all of it is published.
LEMMA ProgressPromoted ==
  ASSUME LoneInv, NEW r \in Runs, RunStep(r), r \notin overlapped', Promoted(r)
  PROVE  Promoting(r)' /\ Ending(r)'
  <1>0. /\ LocalTypes /\ SharedTypes /\ Promoting(r) /\ wanted' = wanted
    BY OwnProgress
  <1>1. \A n \in wanted[r] : n \in Names /\ n < cursor[r]
    BY <1>0, ViewsAssumption DEF Promoted, Ahead, SharedTypes, LocalTypes, Names
  <1>2. \A n \in wanted[r] : views'[n] = r
    BY <1>0, <1>1 DEF Promoted, Promoting, Replaced
  <1>3. \/ step'[r] = "list"
        \/ step'[r] = "restore" /\ verdict'[r] = "published" /\ r \notin Merge
    BY <1>0 DEF Promoted, Goto, End, LocalTypes
  <1> QED
    BY <1>0, <1>2, <1>3 DEF Promoting, Ending

\* A lone run that reads the next view remembers it as it was found.
LEMMA ProgressGet ==
  ASSUME LoneInv, NEW r \in Runs, RunStep(r), r \notin overlapped', Get(r)
  PROVE  Promoting(r)' /\ Ending(r)'
  <1>0. /\ LocalTypes /\ UndoTypes /\ SharedTypes /\ Promoting(r)
        /\ before' = before /\ wanted' = wanted
    BY OwnProgress DEF Get, Start
  <1>1. PICK n \in Next1(r) :
          /\ cursor' = [cursor EXCEPT ![r] = n]
          /\ \/ /\ views[n] = "absent"
                /\ step' = [step EXCEPT ![r] = "create"]
                /\ undo' = undo
             \/ /\ undo' = [undo EXCEPT ![r] = [@ EXCEPT ![n] = views[n]]]
                /\ step' = [step EXCEPT ![r] = "put"]
             \/ step' = [step EXCEPT ![r] = "rollback"] /\ undo' = undo
    BY DEF Get, Goto, Remember
  <1>2. /\ n \in wanted[r] /\ n \in Names /\ n >= cursor[r] /\ cursor'[r] = n
        /\ \A k \in wanted[r] : k < n => k < cursor[r]
    BY <1>0, <1>1, ViewsAssumption
    DEF Next1, Ahead, SharedTypes, LocalTypes, Names
  <1>3. views' = views /\ step[r] = "get"
    BY DEF Get
  <1>4. /\ \A k \in Names : k \in wanted[r] /\ k < n => Replaced(r, k)
        /\ \A k \in Names : k \notin wanted[r] \/ k >= n => Untouched(r, k)
    <2>1. \A k \in Names : k < cursor[r] \/ k = cursor[r] \/ k > cursor[r]
      BY <1>0, ViewsAssumption DEF LocalTypes, Names
    <2>2. \A k \in Names : k >= n => k >= cursor[r]
      BY <1>0, <1>2, ViewsAssumption DEF LocalTypes, Names
    <2> QED
      BY <1>0, <1>2, <1>3, <2>1, <2>2, ViewsAssumption
      DEF Promoting, LocalTypes, Names
  <1>5. CASE step' = [step EXCEPT ![r] = "rollback"] /\ undo' = undo
    <2>1. step'[r] = "rollback"
      BY <1>0, <1>5 DEF LocalTypes
    <2> QED
      BY <1>3, <1>5, <2>1, ProgressToRollback
  <1>6. CASE /\ views[n] = "absent"
             /\ step' = [step EXCEPT ![r] = "create"] /\ undo' = undo
    <2>1. step'[r] = "create"
      BY <1>0, <1>6 DEF LocalTypes
    <2>2. before[r][n] = "absent"
      BY <1>2, <1>4, <1>6 DEF Untouched, Names
    <2>3. Promoting(r)'
      BY <1>0, <1>2, <1>3, <1>4, <1>6, <2>1, <2>2, ViewsAssumption
      DEF Promoting, Untouched, Replaced, Names
    <2> QED
      BY <2>1, <2>3 DEF Ending
  <1>7. CASE /\ undo' = [undo EXCEPT ![r] = [@ EXCEPT ![n] = views[n]]]
             /\ step' = [step EXCEPT ![r] = "put"]
    <2>1. step'[r] = "put"
      BY <1>0, <1>7 DEF LocalTypes
    <2>2. /\ undo'[r][n] = before[r][n]
          /\ \A k \in Names : k # n => undo'[r][k] = undo[r][k]
      BY <1>0, <1>2, <1>4, <1>7, ViewsAssumption DEF Untouched, UndoTypes, Names
    <2>3. Promoting(r)'
      BY <1>0, <1>2, <1>3, <1>4, <2>1, <2>2, ViewsAssumption
      DEF Promoting, Untouched, Replaced, Names
    <2> QED
      BY <2>1, <2>3 DEF Ending
  <1> QED
    BY <1>1, <1>5, <1>6, <1>7

\* A lone run that creates a view knows that there was none, also when the
\* answer is lost.
LEMMA ProgressCreate ==
  ASSUME LoneInv, NEW r \in Runs, RunStep(r), r \notin overlapped',
         Create(r) \/ Reread(r)
  PROVE  Promoting(r)' /\ Ending(r)'
  <1> DEFINE n == cursor[r]
  <1>0. /\ LocalTypes /\ UndoTypes /\ SharedTypes /\ Promoting(r)
        /\ before' = before /\ wanted' = wanted
    BY OwnProgress DEF Create, Reread, Start
  <1>1. cursor' = cursor /\ step[r] \in {"create", "reread"}
    BY DEF Create, Reread
  <1>2. n \in wanted[r] /\ n \in Names
    BY <1>0, <1>1 DEF LoneInv, ViewsInv, RunInv, Target, SharedTypes
  <1>3. CASE step' = [step EXCEPT ![r] = "rollback"]
    <2>1. step'[r] = "rollback"
      BY <1>0, <1>3 DEF LocalTypes
    <2>2. step' # [step EXCEPT ![r] = "reread"] /\ step' # [step EXCEPT ![r] = "put"]
      BY <1>0, <1>3 DEF LocalTypes
    <2>3. /\ undo' = undo
          /\ \/ views' = views
             \/ step[r] = "create" /\ views' = [views EXCEPT ![n] = r]
      BY <2>2 DEF Create, Reread, Goto, SetView
    <2> QED
      BY <1>1, <2>1, <2>3, ProgressToRollback
  <1>4. CASE /\ Create(r) /\ views' = [views EXCEPT ![n] = r]
             /\ undo' = [undo EXCEPT ![r] = [@ EXCEPT ![n] = views[n]]]
             /\ step' = [step EXCEPT ![r] = "reread"]
    <2>1. step'[r] = "reread" /\ step[r] = "create"
      BY <1>0, <1>4 DEF LocalTypes, Create
    <2>2. /\ views'[n] = r /\ undo'[r][n] = views[n]
          /\ \A k \in Names : k # n =>
               undo'[r][k] = undo[r][k] /\ views'[k] = views[k]
      BY <1>0, <1>2, <1>4 DEF UndoTypes, SharedTypes
    <2>3. views[n] = before[r][n]
      BY <1>0, <1>2, <2>1 DEF Promoting, Untouched
    <2>4. Promoting(r)'
      BY <1>0, <1>1, <1>2, <2>1, <2>2, <2>3, ViewsAssumption
      DEF Promoting, Untouched, Replaced, Names
    <2> QED
      BY <2>1, <2>4 DEF Ending
  <1>5. CASE /\ Reread(r) /\ UNCHANGED <<views, undo>>
             /\ step' = [step EXCEPT ![r] = "put"]
    <2>1. step'[r] = "put" /\ step[r] = "reread"
      BY <1>0, <1>5 DEF LocalTypes, Reread
    <2>2. Promoting(r)'
      BY <1>0, <1>1, <1>5, <2>1 DEF Promoting, Untouched, Replaced
    <2> QED
      BY <2>1, <2>2 DEF Ending
  <1>6. CASE Create(r)
    BY <1>3, <1>4, <1>6 DEF Create, SetView, Remember, Goto
  <1>7. CASE Reread(r)
    BY <1>3, <1>5, <1>7 DEF Reread, Goto
  <1> QED
    BY <1>6, <1>7

\* A lone run that replaces a view has remembered the one it found.
LEMMA ProgressPut ==
  ASSUME LoneInv, NEW r \in Runs, RunStep(r), r \notin overlapped', Put(r)
  PROVE  Promoting(r)' /\ Ending(r)'
  <1> DEFINE n == cursor[r]
  <1>0. /\ LocalTypes /\ UndoTypes /\ SharedTypes /\ Promoting(r)
        /\ before' = before /\ wanted' = wanted
    BY OwnProgress DEF Put, Start
  <1>1. step[r] = "put" /\ undo' = undo
    BY DEF Put
  <1>2. n \in wanted[r] /\ n \in Names
    BY <1>0, <1>1 DEF LoneInv, ViewsInv, RunInv, Target, SharedTypes
  <1>3. CASE step' = [step EXCEPT ![r] = "rollback"]
    <2>1. step'[r] = "rollback"
      BY <1>0, <1>3 DEF LocalTypes
    <2>2. step' # [step EXCEPT ![r] = "get"]
      BY <1>0, <1>3 DEF LocalTypes
    <2>3. /\ cursor' = cursor
          /\ views' = views \/ views' = [views EXCEPT ![n] = r]
      BY <2>2 DEF Put, Goto, SetView
    <2> QED
      BY <1>1, <2>1, <2>3, ProgressToRollback
  <1>4. CASE /\ views' = [views EXCEPT ![n] = r]
             /\ cursor' = [cursor EXCEPT ![r] = n + 1]
             /\ step' = [step EXCEPT ![r] = "get"]
    <2>1. step'[r] = "get" /\ cursor'[r] = n + 1
      BY <1>0, <1>4 DEF LocalTypes
    <2>2. /\ views'[n] = r /\ undo[r][n] = before[r][n]
          /\ \A k \in Names : k # n => views'[k] = views[k]
      BY <1>0, <1>1, <1>2, <1>4 DEF SharedTypes, Promoting
    <2>3. \A k \in Names : /\ k < n + 1 => k = n \/ k < n
                           /\ k > n + 1 => k > n
                           /\ k = n + 1 => k > n /\ k # n
                           /\ k > n + 1 => k # n
      BY <1>2, ViewsAssumption DEF Names
    <2>4. Promoting(r)'
      BY <1>0, <1>1, <1>2, <2>1, <2>2, <2>3
      DEF Promoting, Untouched, Replaced
    <2> QED
      BY <2>1, <2>4 DEF Ending
  <1> QED
    BY <1>3, <1>4 DEF Put, SetView, Goto

\* A lone run that rolls back puts back what it found, name by name.
LEMMA ProgressRollback ==
  ASSUME LoneInv, NEW r \in Runs, RunStep(r), r \notin overlapped',
         Rollback(r) \/ RolledBack(r)
  PROVE  Promoting(r)' /\ Ending(r)'
  <1>0. /\ LocalTypes /\ UndoTypes /\ SharedTypes /\ Promoting(r) /\ Shape(r)
        /\ before' = before /\ wanted' = wanted
        /\ \A n \in Names : before[r][n] # "untouched"
    BY OwnProgress DEF Rollback, RolledBack, Start
  <1>1. cursor' = cursor /\ step[r] = "rollback"
    BY DEF Rollback, RolledBack
  <1>2. CASE Rollback(r)
    <2>1. step'[r] = "rollback"
      BY <1>1, <1>2 DEF Rollback
    <2>2. PICK n \in Changed(r) : /\ Undone(r, n)
                                  /\ \/ UndoOne(r, n) /\ UNCHANGED verdict
                                     \/ verdict' = [verdict EXCEPT ![r] = "stuck"]
      BY <1>2 DEF Rollback
    <2>3. CASE verdict' = [verdict EXCEPT ![r] = "stuck"]
      <3>1. verdict'[r] = "stuck"
        BY <1>0, <2>3 DEF LocalTypes
      <3> QED
        BY <2>1, <3>1 DEF Promoting, Ending
    <2>4. CASE verdict[r] = "none" /\ UndoOne(r, n) /\ UNCHANGED verdict
      <3>1. /\ n \in Names /\ undo[r][n] = before[r][n]
        BY <1>0, <1>1, <2>2, <2>4 DEF Changed, Promoting
      <3>2. views' = [views EXCEPT ![n] = undo[r][n]]
        BY <2>4 DEF UndoOne, SetView
      <3>3. /\ views'[n] = before[r][n] /\ undo'[r][n] = "untouched"
            /\ \A k \in Names : k # n =>
                 views'[k] = views[k] /\ undo'[r][k] = undo[r][k]
        BY <1>0, <2>2, <3>1, <3>2 DEF Undone, SharedTypes, UndoTypes
      <3>4. Promoting(r)'
        BY <1>0, <1>1, <2>1, <2>4, <3>1, <3>3 DEF Promoting, LostCreate
      <3> QED
        BY <2>1, <3>4 DEF Ending
    <2>5. CASE verdict[r] = "stuck" /\ UNCHANGED verdict
      BY <2>1, <2>5 DEF Promoting, Ending
    <2> QED
      BY <1>0, <1>1, <2>2, <2>3, <2>4, <2>5 DEF Shape
  <1>3. CASE RolledBack(r)
    <2>1. /\ step'[r] = "restore" /\ views' = views
          /\ verdict'[r] = IF verdict[r] = "stuck" THEN "stuck" ELSE "undone"
          /\ \A n \in Names : undo[r][n] = "untouched"
      BY <1>0, <1>3 DEF RolledBack, End, Goto, LocalTypes, Changed
    <2>2. Promoting(r)'
      BY <2>1 DEF Promoting
    <2>3. verdict'[r] = "undone" =>
            \A n \in Names : views[n] = before[r][n] \/ LostCreate(r, n)
      BY <1>0, <1>1, <2>1 DEF Shape, Promoting
    <2>4. Ending(r)'
      BY <1>0, <1>1, <2>1, <2>3 DEF Ending, LostCreate
    <2> QED
      BY <2>2, <2>4
  <1> QED
    BY <1>2, <1>3

\* Every step preserves the invariant of the runs that are alone.
LEMMA StepLone == LoneInv /\ [Next]_vars => LoneInv'
  <1> SUFFICES ASSUME LoneInv, [Next]_vars PROVE LoneInv'
    OBVIOUS
  <1>1. ViewsInv'
    BY StepViews DEF LoneInv
  <1>2. ASSUME NEW r \in Runs, RunStep(r), NEW q \in Runs
        PROVE  Progress(q)'
    <2>1. CASE q = r
      <3> SUFFICES ASSUME r \notin overlapped'
                   PROVE  Promoting(r)' /\ Ending(r)'
        BY <2>1 DEF Progress
      <3> QED
        BY <1>2, ProgressAround, ProgressPromoted, ProgressGet, ProgressCreate,
           ProgressPut, ProgressRollback DEF RunStep
    <2> QED
      BY <1>2, <2>1, ProgressOfOthers
  <1>3. CASE Next
    BY <1>1, <1>2, <1>3, LoneKept DEF LoneInv, Next
  <1>4. CASE UNCHANGED vars
    BY <1>1, <1>4
    DEF vars, runVars, release, history, LoneInv, Lone, Running, Progress,
        Promoting, Ending, Untouched, Replaced, LostCreate
  <1> QED
    BY <1>3, <1>4

\* A run that no other one overlaps knows at every step what it has replaced.
THEOREM LoneRunsCorrect == Spec => []LoneInv
  BY InitLone, StepLone, PTL DEF Spec

\* An undone promotion of a lone run leaves every view as it was, but for one
\* that was created and whose answer got lost: _rollback_promotion puts back
\* each remembered view, and a failure on the way is reported otherwise.
THEOREM UndoneLeavesNothing == Spec => []AllOrNothing
  <1>1. ASSUME LoneInv, NEW r \in Runs \ overlapped, step[r] = "restore",
               verdict[r] \in {"unchanged", "undone"}
        PROVE  \/ {n \in Names : views[n] # before[r][n]} = {}
               \/ /\ {n \in Names : views[n] # before[r][n]} = {cursor[r]}
                  /\ before[r][cursor[r]] = "absent"
                  /\ verdict[r] = "undone"
    <2>1. Ending(r)
      BY <1>1 DEF LoneInv, Progress
    <2>2. CASE verdict[r] = "unchanged"
      BY <1>1, <2>1, <2>2 DEF Ending
    <2>3. CASE verdict[r] = "undone"
      BY <1>1, <2>1, <2>3 DEF Ending, LostCreate
    <2> QED
      BY <1>1, <2>2, <2>3
  <1>2. LoneInv => AllOrNothing
    BY <1>1 DEF AllOrNothing
  <1> QED
    BY <1>2, LoneRunsCorrect, PTL

\* A lone run that reports success has published its whole release, and the
\* merge reconciler has left no other managed view.
THEOREM SuccessPublishesAll == Spec => []PublishedExactly
  <1>1. LoneInv => PublishedExactly
    BY DEF LoneInv, Progress, Ending, PublishedExactly
  <1> QED
    BY <1>1, LoneRunsCorrect, PTL
=============================================================================
