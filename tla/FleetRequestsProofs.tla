-------------------------- MODULE FleetRequestsProofs --------------------------
(***************************************************************************)
(* Theorems about FleetRequests, for any calls, users and vehicles, any    *)
(* number of retries and pages and any page size.                          *)
(***************************************************************************)
EXTENDS FleetRequests, SequenceTheorems, TLAPS

Writes == DirectWrites \cup Commands

\* The vehicles that the pages to come will have, as the account is now.
Ahead(c) ==
    {fleet[owner[c]][i] :
        i \in {j \in 1..Len(fleet[owner[c]]) : (page[c] - 1) * PageSize < j}}

\* What is known of one call.
Facts(c) ==
    /\ step[c] = "begin" =>
         op[c] = None /\ c \notin discoveries /\ reply[c] = "none"
    /\ step[c] \in {"request", "refresh", "sync"} =>
         owner[c] \in Users /\ op[c] \in Ops
    /\ c \in discoveries => op[c] \in {"region", "list", "status"}
    /\ step[c] = "sync" => c \in discoveries
    /\ reply[c] = "ok" => step[c] = "done"
    /\ step[c] = "begin" \/ (op[c] \in Writes /\ step[c] # "done") => runs[c] = 0
    /\ op[c] \in Writes => runs[c] <= 1
    /\ op[c] = "list" /\ step[c] = "request" =>
         expected[c] \subseteq Range(got[c]) \cup Ahead(c)
    /\ op[c] = "list" /\ reply[c] = "ok" => expected[c] \subseteq Range(got[c])
    /\ c \in discoveries /\ op[c] = "status" =>
         expected[c] \subseteq Range(got[c])
    /\ step[c] = "sync" => expected[c] \subseteq Range(got[c])

\* The inductive invariant.
RequestsInv == TypeOK /\ \A c \in Calls : Facts(c)

(***************************************************************************)
(* Sequences.                                                              *)
(***************************************************************************)

\* The members of a concatenation.
LEMMA RangeConcat ==
  ASSUME NEW S, NEW s \in Seq(S), NEW t \in Seq(S)
  PROVE  /\ s \o t \in Seq(S)
         /\ Range(s) \cup Range(t) \subseteq Range(s \o t)
  <1>1. /\ s \o t \in Seq(S)
        /\ DOMAIN s = 1..Len(s) /\ DOMAIN t = 1..Len(t)
        /\ DOMAIN (s \o t) = 1..(Len(s) + Len(t))
        /\ Len(s) \in Nat /\ Len(t) \in Nat
        /\ \A i \in 1..(Len(s) + Len(t)) :
             (s \o t)[i] = IF i <= Len(s) THEN s[i] ELSE t[i - Len(s)]
    BY ConcatProperties, LenProperties
  <1>2. ASSUME NEW i \in DOMAIN s PROVE s[i] \in Range(s \o t)
    BY <1>1 DEF Range
  <1>3. ASSUME NEW i \in DOMAIN t PROVE t[i] \in Range(s \o t)
    <2>1. i + Len(s) \in DOMAIN (s \o t) /\ (s \o t)[i + Len(s)] = t[i]
      BY <1>1
    <2> QED
      BY <2>1 DEF Range
  <1> QED
    BY <1>1, <1>2, <1>3 DEF Range

\* The members of a part of a sequence.
LEMMA RangeSubSeq ==
  ASSUME NEW S, NEW s \in Seq(S), NEW m \in Nat \ {0}, NEW n \in 0..Len(s)
  PROVE  /\ SubSeq(s, m, n) \in Seq(S)
         /\ \A i \in m..n : s[i] \in Range(SubSeq(s, m, n))
  <1>1. /\ SubSeq(s, m, n) \in Seq(S)
        /\ Len(SubSeq(s, m, n)) = IF m <= n THEN n - m + 1 ELSE 0
        /\ \A i \in 1..(n - m + 1) : SubSeq(s, m, n)[i] = s[m + i - 1]
    BY SubSeqProperties, LenProperties, ElementOfSeq
  <1>2. ASSUME NEW i \in m..n PROVE s[i] \in Range(SubSeq(s, m, n))
    <2>1. /\ i - m + 1 \in 1..Len(SubSeq(s, m, n))
          /\ SubSeq(s, m, n)[i - m + 1] = s[i]
      BY <1>1, LenProperties
    <2>2. DOMAIN SubSeq(s, m, n) = 1..Len(SubSeq(s, m, n))
      BY <1>1, LenProperties
    <2> QED
      BY <2>1, <2>2 DEF Range
  <1> QED
    BY <1>1, <1>2

\* A vehicle that leaves the account.
LEMMA RemoveAtSeq ==
  ASSUME NEW S, NEW s \in Seq(S), NEW i \in 1..Len(s)
  PROVE  RemoveAt(s, i) \in Seq(S)
  <1>1. Len(s) \in Nat
    BY LenProperties
  <1>2. SubSeq(s, 1, i - 1) \in Seq(S) /\ SubSeq(s, i + 1, Len(s)) \in Seq(S)
    BY <1>1, RangeSubSeq
  <1> QED
    BY <1>2, ConcatProperties DEF RemoveAt

\* The rows of one page.
LEMMA PageArithmetic ==
  ASSUME NEW p \in Nat \ {0}
  PROVE  /\ (p - 1) * PageSize \in Nat
         /\ p * PageSize \in Nat
         /\ ((p + 1) - 1) * PageSize = p * PageSize
  BY BoundsAssumption

\* A page of the list: its rows are got, the others still ahead.
LEMMA Collected ==
  ASSUME TypeOK, NEW c \in Calls, owner[c] \in Users, Collect(c)
  PROVE  /\ got' \in [Calls -> Seq(VINs)]
         /\ \A d \in Calls \ {c} : got'[d] = got[d]
         /\ Range(got[c]) \subseteq Range(got'[c])
         /\ \A i \in 1..Len(Rows(c)) :
              /\ (page[c] - 1) * PageSize < i
              /\ ~More(c) \/ i <= page[c] * PageSize
              => Rows(c)[i] \in Range(got'[c])
  <1> DEFINE from == (page[c] - 1) * PageSize + 1
             to   == IF More(c) THEN page[c] * PageSize ELSE Len(Rows(c))
             rows == SubSeq(Rows(c), from, to)
  <1>1. Rows(c) \in Seq(VINs) /\ got[c] \in Seq(VINs) /\ Len(Rows(c)) \in Nat
    BY LenProperties DEF TypeOK, Rows
  <1>2. page[c] \in Nat \ {0}
    BY BoundsAssumption DEF TypeOK
  <1>3. from \in Nat \ {0} /\ to \in 0..Len(Rows(c))
    <2>1. (page[c] - 1) * PageSize \in Nat /\ page[c] * PageSize \in Nat
      BY <1>2, PageArithmetic
    <2>2. CASE More(c)
      BY <1>1, <2>1, <2>2 DEF More
    <2>3. CASE ~More(c)
      BY <1>1, <2>1, <2>3
    <2> QED
      BY <2>2, <2>3
  <1>4. /\ rows \in Seq(VINs)
        /\ \A i \in from..to : Rows(c)[i] \in Range(rows)
    BY <1>1, <1>3, RangeSubSeq
  <1>5. /\ got[c] \o rows \in Seq(VINs)
        /\ Range(got[c]) \cup Range(rows) \subseteq Range(got[c] \o rows)
    BY <1>1, <1>4, RangeConcat
  <1>6. got' = [got EXCEPT ![c] = got[c] \o rows]
    BY DEF Collect
  <1>7. got'[c] = got[c] \o rows /\ \A d \in Calls \ {c} : got'[d] = got[d]
    BY <1>6 DEF TypeOK
  <1>8. got' \in [Calls -> Seq(VINs)]
    BY <1>5, <1>6 DEF TypeOK
  <1>9. ASSUME NEW i \in 1..Len(Rows(c)), (page[c] - 1) * PageSize < i,
               ~More(c) \/ i <= page[c] * PageSize
        PROVE  i \in from..to
    <2>1. (page[c] - 1) * PageSize \in Nat /\ page[c] * PageSize \in Nat
      BY <1>2, PageArithmetic
    <2> HIDE DEF rows
    <2> QED
      BY <1>1, <1>9, <2>1 DEF More
  <1> QED
    BY <1>4, <1>5, <1>7, <1>8, <1>9

(***************************************************************************)
(* A step of call c leaves what is known of the others alone.              *)
(***************************************************************************)
Local(c) ==
    /\ fleet' = fleet
    /\ \A d \in Calls \ {c} :
        /\ step'[d] = step[d] /\ owner'[d] = owner[d] /\ op'[d] = op[d]
        /\ page'[d] = page[d] /\ got'[d] = got[d] /\ reply'[d] = reply[d]
        /\ runs'[d] = runs[d] /\ expected'[d] = expected[d]
        /\ d \in discoveries' <=> d \in discoveries

\* A step of one call leaves the facts about another alone.
LEMMA OthersKeepFacts ==
  ASSUME NEW c \in Calls, NEW d \in Calls, c # d, Facts(d), Local(c)
  PROVE  Facts(d)'
  <1>1. Ahead(d)' = Ahead(d) /\ Range(got[d])' = Range(got[d])
    BY DEF Local, Ahead, Range
  <1> QED
    BY <1>1 DEF Local, Facts

Keeps(c) == TypeOK' /\ Local(c) /\ Facts(c)'

\* Nothing is asked for yet.
LEMMA InitRequests == Init => RequestsInv
  <1> SUFFICES ASSUME Init PROVE RequestsInv
    OBVIOUS
  <1>1. TypeOK
    BY BoundsAssumption DEF Init, TypeOK, RegistryInit, RegistryTypeOK
  <1>2. ASSUME NEW c \in Calls PROVE Facts(c)
    BY DEF Init, Facts
  <1> QED
    BY <1>1, <1>2 DEF RequestsInv

(***************************************************************************)
(* The steps.                                                              *)
(***************************************************************************)

\* A request begins or begins again.
LEMMA FirstPageKeeps ==
  ASSUME TypeOK, NEW c \in Calls, NEW u \in Users, FirstPage(c, u),
         fleet' = fleet, owner'[c] = u
  PROVE  /\ page' \in [Calls -> 1..MaxPages] /\ got' \in [Calls -> Seq(VINs)]
         /\ expected' \in [Calls -> SUBSET VINs]
         /\ \A d \in Calls \ {c} : /\ page'[d] = page[d] /\ got'[d] = got[d]
                                   /\ expected'[d] = expected[d]
         /\ expected'[c] \subseteq Range(got'[c]) \cup Ahead(c)'
  <1>1. fleet[u] \in Seq(VINs) /\ DOMAIN fleet[u] = 1..Len(fleet[u])
    BY LenProperties DEF TypeOK
  <1>2. Range(fleet[u]) \subseteq VINs
    BY <1>1, ElementOfSeq DEF Range
  <1>3. /\ page' \in [Calls -> 1..MaxPages] /\ got' \in [Calls -> Seq(VINs)]
        /\ expected' \in [Calls -> SUBSET VINs]
        /\ page'[c] = 1 /\ expected'[c] = Range(fleet[u])
    BY <1>2, BoundsAssumption, EmptySeq DEF TypeOK, FirstPage
  <1>4. \A d \in Calls \ {c} : /\ page'[d] = page[d] /\ got'[d] = got[d]
                               /\ expected'[d] = expected[d]
    BY DEF TypeOK, FirstPage
  <1>5. Ahead(c)' = {fleet[u][i] : i \in {j \in 1..Len(fleet[u]) : (1 - 1) * PageSize < j}}
    BY <1>3 DEF Ahead
  <1>6. (1 - 1) * PageSize = 0
    BY BoundsAssumption
  <1>7. Range(fleet[u]) \subseteq Ahead(c)'
    BY <1>1, <1>5, <1>6, LenProperties DEF Range
  <1> QED
    BY <1>3, <1>4, <1>7

\* A call begins, or begins again with a new token.
LEMMA RunKeeps ==
  ASSUME TypeOK, NEW c \in Calls, NEW u \in Users, NEW o \in Ops,
         Run(c, u, o), fleet' = fleet, owner'[c] = u
  PROVE  /\ op' \in [Calls -> Ops \cup {None}] /\ op'[c] = o
         /\ attempt' \in [Calls -> 0..Retries]
         /\ page' \in [Calls -> 1..MaxPages] /\ got' \in [Calls -> Seq(VINs)]
         /\ expected' \in [Calls -> SUBSET VINs]
         /\ \A d \in Calls \ {c} :
              /\ op'[d] = op[d] /\ page'[d] = page[d]
              /\ got'[d] = got[d] /\ expected'[d] = expected[d]
         /\ o = "list" => expected'[c] \subseteq Range(got'[c]) \cup Ahead(c)'
         /\ o # "list" => got' = got /\ expected' = expected
  <1>1. /\ op' \in [Calls -> Ops \cup {None}] /\ op'[c] = o
        /\ attempt' \in [Calls -> 0..Retries]
        /\ \A d \in Calls \ {c} : op'[d] = op[d]
    BY BoundsAssumption DEF TypeOK, Run
  <1>2. CASE o = "list"
    BY <1>1, <1>2, FirstPageKeeps DEF Run
  <1>3. CASE o # "list"
    BY <1>1, <1>3 DEF Run, listVars, TypeOK
  <1> QED
    BY <1>2, <1>3

\* A tool call, a discovery and the second execution of a method begin afresh.
LEMMA BeginKeeps ==
  ASSUME TypeOK, NEW c \in Calls, Facts(c), NEW u \in Users,
         BeginTool(c, u) \/ BeginDiscovery(c, u) \/ Refresh(c)
  PROVE  Keeps(c)
  <1> USE DEF Continue, Goto, registryVars
  <1>1. CASE BeginTool(c, u)
    <2>1. PICK o \in Ops \ {"region"} : Run(c, u, o)
      BY <1>1 DEF BeginTool
    <2>2. owner'[c] = u /\ fleet' = fleet
      BY <1>1 DEF BeginTool, TypeOK
    <2>3. TypeOK'
      BY <1>1, <2>1, <2>2, RunKeeps DEF BeginTool, TypeOK, RegistryTypeOK
    <2>4. Local(c)
      BY <1>1, <2>1, <2>2, RunKeeps DEF BeginTool, TypeOK, Local
    <2>5. Facts(c)'
      BY <1>1, <2>1, <2>2, RunKeeps DEF BeginTool, TypeOK, Facts
    <2> QED
      BY <2>3, <2>4, <2>5 DEF Keeps
  <1>2. CASE BeginDiscovery(c, u)
    <2>1. Run(c, u, "region") /\ "region" \in Ops
      BY <1>2 DEF BeginDiscovery, Ops, PlainReads
    <2>2. owner'[c] = u /\ fleet' = fleet
      BY <1>2 DEF BeginDiscovery, TypeOK
    <2>3. TypeOK'
      BY <1>2, <2>1, <2>2, RunKeeps DEF BeginDiscovery, TypeOK, RegistryTypeOK
    <2>4. Local(c)
      BY <1>2, <2>1, <2>2, RunKeeps DEF BeginDiscovery, TypeOK, Local
    <2>5. Facts(c)'
      BY <1>2, <2>1, <2>2, RunKeeps
      DEF BeginDiscovery, TypeOK, Facts, Writes, DirectWrites, Commands
    <2> QED
      BY <2>3, <2>4, <2>5 DEF Keeps
  <1>3. CASE Refresh(c)
    <2>1. Run(c, owner[c], op[c]) /\ op[c] \in Ops /\ owner[c] \in Users
      BY <1>3 DEF Refresh, Facts
    <2>2. owner'[c] = owner[c] /\ fleet' = fleet
      BY <1>3 DEF Refresh, TypeOK
    <2>3. TypeOK'
      BY <1>3, <2>1, <2>2, RunKeeps DEF Refresh, TypeOK, RegistryTypeOK
    <2>4. Local(c)
      BY <1>3, <2>1, <2>2, RunKeeps DEF Refresh, TypeOK, Local
    <2>5. Facts(c)'
      BY <1>3, <2>1, <2>2, RunKeeps DEF Refresh, TypeOK, Facts
    <2> QED
      BY <2>3, <2>4, <2>5 DEF Keeps
  <1> QED
    BY <1>1, <1>2, <1>3

\* Tesla carries out a write at most once: before, it had not.
LEMMA RanOnce ==
  ASSUME TypeOK, NEW c \in Calls, Facts(c), step[c] = "request",
         Ran(c) \/ UNCHANGED runs
  PROVE  /\ runs' \in [Calls -> Nat]
         /\ \A d \in Calls \ {c} : runs'[d] = runs[d]
         /\ op[c] \in Writes => runs'[c] <= 1
         /\ op[c] \notin Writes => runs' = runs
  <1>1. op[c] \in Writes => runs[c] = 0
    BY DEF Facts
  <1>2. \/ runs' = runs
        \/ op[c] \in Writes /\ runs' = [runs EXCEPT ![c] = @ + 1]
    BY DEF Ran, Writes
  <1>3. runs \in [Calls -> Nat]
    BY DEF TypeOK
  <1> QED
    BY <1>1, <1>2, <1>3

\* Answers to a request that is no page of a list.
LEMMA ServedKeeps ==
  ASSUME TypeOK, NEW c \in Calls, Facts(c), Served(c)
  PROVE  Keeps(c)
  <1> USE DEF Continue, Answer, Goto, registryVars
  <1>1. /\ step[c] = "request" /\ op[c] # "list" /\ Ran(c) /\ owner[c] \in Users
        /\ owner' = owner /\ fleet' = fleet
    BY DEF Served, Facts
  <1>2. "list" \in Ops
    BY DEF Ops, PlainReads
  <1>3. CASE c \notin discoveries /\ Answer(c, "ok")
             /\ UNCHANGED <<op, attempt, listVars>>
    <2>1. TypeOK'
      BY <1>1, <1>3, RanOnce DEF Served, TypeOK, RegistryTypeOK, listVars
    <2>2. Local(c)
      BY <1>1, <1>3, RanOnce DEF Served, TypeOK, Local, listVars
    <2>3. Facts(c)'
      BY <1>1, <1>3, RanOnce DEF Served, TypeOK, Facts, listVars
    <2> QED
      BY <2>1, <2>2, <2>3 DEF Keeps
  <1>4. CASE c \in discoveries /\ Run(c, owner[c], "list")
             /\ Continue(c, "request") /\ op[c] = "region"
    <2>0. runs' = runs
      BY <1>1, <1>4, RanOnce DEF Writes, DirectWrites, Commands
    <2>1. TypeOK'
      BY <1>1, <1>2, <1>4, <2>0, RunKeeps DEF Served, TypeOK, RegistryTypeOK
    <2>2. Local(c)
      BY <1>1, <1>2, <1>4, <2>0, RunKeeps DEF Served, TypeOK, Local
    <2>3. Facts(c)'
      BY <1>1, <1>2, <1>4, <2>0, RunKeeps
      DEF Served, TypeOK, Facts, Writes, DirectWrites, Commands
    <2> QED
      BY <2>1, <2>2, <2>3 DEF Keeps
  <1>5. CASE c \in discoveries /\ op[c] = "status" /\ Continue(c, "sync")
             /\ UNCHANGED <<op, attempt, listVars>>
    <2>0. runs' = runs
      BY <1>1, <1>5, RanOnce DEF Writes, DirectWrites, Commands
    <2>1. TypeOK'
      BY <1>1, <1>5, <2>0 DEF Served, TypeOK, RegistryTypeOK, listVars
    <2>2. Local(c)
      BY <1>1, <1>5, <2>0 DEF Served, TypeOK, Local, listVars
    <2>3. Facts(c)'
      BY <1>1, <1>5, <2>0 DEF Served, TypeOK, Facts, listVars, Range
    <2> QED
      BY <2>1, <2>2, <2>3 DEF Keeps
  <1> QED
    BY <1>3, <1>4, <1>5 DEF Served

\* A page of the list.
LEMMA PageKeeps ==
  ASSUME TypeOK, NEW c \in Calls, Facts(c), ServedPage(c)
  PROVE  Keeps(c)
  <1> USE DEF Answer, Goto, registryVars, callVars, doneVars
  <1>1. /\ step[c] = "request" /\ op[c] = "list" /\ Ran(c) /\ owner[c] \in Users
        /\ fleet' = fleet /\ owner' = owner /\ op' = op /\ expected' = expected
        /\ Collect(c) /\ More(c)
    BY DEF ServedPage, Facts
  <1>2. runs' = runs
    BY <1>1, RanOnce DEF Writes, DirectWrites, Commands
  <1>3. TypeOK'
    <2>1. page' \in [Calls -> 1..MaxPages]
      <3>1. page \in [Calls -> 1..MaxPages] /\ MaxPages \in Nat
        BY BoundsAssumption DEF TypeOK
      <3>2. \/ page' = page
            \/ page[c] < MaxPages /\ page' = [page EXCEPT ![c] = @ + 1]
        BY DEF ServedPage
      <3> QED
        BY <3>1, <3>2
    <2>2. got' \in [Calls -> Seq(VINs)]
      BY <1>1, Collected
    <2>3. /\ step' \in [Calls -> {"begin", "request", "refresh", "sync", "done"}]
          /\ reply' \in [Calls -> {"none", "ok", "error", "reauthorize"}]
      BY DEF ServedPage, TypeOK
    <2> QED
      BY <1>1, <1>2, <2>1, <2>2, <2>3 DEF ServedPage, TypeOK, RegistryTypeOK
  <1>4. Local(c)
    BY <1>1, <1>2, Collected DEF ServedPage, TypeOK, Local
  <1>5. page'[c] = page[c] + 1 /\ UNCHANGED doneVars =>
          expected'[c] \subseteq Range(got'[c]) \cup Ahead(c)'
    <2>1. SUFFICES ASSUME page'[c] = page[c] + 1, NEW v \in expected[c]
                   PROVE  v \in Range(got'[c]) \cup Ahead(c)'
      BY <1>1
    <2>2. v \in Range(got[c]) \cup Ahead(c)
      BY <1>1 DEF Facts
    <2>3. CASE v \in Range(got[c])
      BY <1>1, <2>3, Collected
    <2>4. CASE v \in Ahead(c)
      <3>1. PICK i \in 1..Len(fleet[owner[c]]) :
               (page[c] - 1) * PageSize < i /\ v = fleet[owner[c]][i]
        BY <2>4 DEF Ahead
      <3>2. CASE i <= page[c] * PageSize
        BY <1>1, <3>1, <3>2, Collected DEF Rows
      <3>3. CASE ~(i <= page[c] * PageSize)
        <4>1. page[c] \in Nat \ {0}
          BY BoundsAssumption DEF TypeOK
        <4>2. /\ page[c] * PageSize \in Nat
              /\ (page'[c] - 1) * PageSize = page[c] * PageSize
          BY <2>1, <4>1, PageArithmetic
        <4>3. i \in Nat
          BY <3>1
        <4>4. (page'[c] - 1) * PageSize < i
          BY <3>3, <4>2, <4>3
        <4> QED
          BY <1>1, <3>1, <4>4 DEF Ahead
      <3> QED
        BY <3>2, <3>3
    <2> QED
      BY <2>2, <2>3, <2>4
  <1>6. Facts(c)'
    <2>1. CASE page[c] < MaxPages
      <3>1. page'[c] = page[c] + 1 /\ UNCHANGED doneVars
        BY <2>1 DEF ServedPage, TypeOK
      <3> QED
        BY <1>1, <1>2, <1>5, <3>1 DEF ServedPage, TypeOK, Facts
    <2>2. CASE ~(page[c] < MaxPages)
      <3>1. step'[c] = "done" /\ reply'[c] = "error"
        BY <2>2 DEF ServedPage, TypeOK
      <3> QED
        BY <1>1, <1>2, <3>1
        DEF ServedPage, TypeOK, Facts, Writes, DirectWrites, Commands
    <2> QED
      BY <2>1, <2>2
  <1> QED
    BY <1>3, <1>4, <1>6 DEF Keeps

\* The end of the list.
LEMMA LastPageKeeps ==
  ASSUME TypeOK, NEW c \in Calls, Facts(c), ServedLastPage(c)
  PROVE  Keeps(c)
  <1> USE DEF Answer, AskStatus, Continue, Goto, registryVars
  <1>1. /\ step[c] = "request" /\ op[c] = "list" /\ Ran(c) /\ owner[c] \in Users
        /\ fleet' = fleet /\ owner' = owner /\ expected' = expected
        /\ Collect(c) /\ ~More(c)
    BY DEF ServedLastPage, Facts
  <1>2. runs' = runs
    BY <1>1, RanOnce DEF Writes, DirectWrites, Commands
  <1>3. TypeOK'
    <2>1. "status" \in Ops
      BY DEF Ops, SafeReads
    <2>2. got' \in [Calls -> Seq(VINs)]
      BY <1>1, Collected
    <2>3. /\ \/ step' = [step EXCEPT ![c] = "done"]
             \/ step' = [step EXCEPT ![c] = "sync"]
             \/ step' = [step EXCEPT ![c] = "request"]
          /\ reply' = reply \/ reply' = [reply EXCEPT ![c] = "ok"]
          /\ op' = op \/ op' = [op EXCEPT ![c] = "status"]
      BY DEF ServedLastPage
    <2>4. step' \in [Calls -> {"begin", "request", "refresh", "sync", "done"}]
      BY <2>3 DEF TypeOK
    <2>5. reply' \in [Calls -> {"none", "ok", "error", "reauthorize"}]
      BY <2>3 DEF TypeOK
    <2>6. op' \in [Calls -> Ops \cup {None}]
      <3>1. op \in [Calls -> Ops \cup {None}]
        BY DEF TypeOK
      <3>2. [op EXCEPT ![c] = "status"] \in [Calls -> Ops \cup {None}]
        BY <2>1, <3>1
      <3> QED
        BY <2>3, <3>1, <3>2
    <2> QED
      BY <1>1, <1>2, <2>2, <2>4, <2>5, <2>6
      DEF ServedLastPage, TypeOK, RegistryTypeOK
  <1>4. Local(c)
    BY <1>1, <1>2, Collected DEF ServedLastPage, TypeOK, Local
  <1>5. expected'[c] \subseteq Range(got'[c])
    <2>1. Ahead(c) \subseteq Range(got'[c])
      BY <1>1, Collected DEF Ahead, Rows
    <2>2. Range(got[c]) \subseteq Range(got'[c])
      BY <1>1, Collected
    <2>3. expected[c] \subseteq Range(got[c]) \cup Ahead(c)
      BY <1>1 DEF Facts
    <2> QED
      BY <1>1, <2>1, <2>2, <2>3
  <1>6. Facts(c)'
    <2>1. "status" \in Ops
      BY DEF Ops, SafeReads
    <2>2. CASE c \notin discoveries
      BY <1>1, <1>2, <1>5, <2>2
      DEF ServedLastPage, TypeOK, Facts, Writes, DirectWrites, Commands
    <2>3. CASE c \in discoveries /\ got'[c] = <<>>
      BY <1>1, <1>2, <1>5, <2>3
      DEF ServedLastPage, TypeOK, Facts, Writes, DirectWrites, Commands
    <2>4. CASE c \in discoveries /\ got'[c] # <<>>
      BY <1>1, <1>2, <1>5, <2>1, <2>4
      DEF ServedLastPage, TypeOK, Facts, Writes, DirectWrites, Commands
    <2> QED
      BY <2>2, <2>3, <2>4
  <1> QED
    BY <1>3, <1>4, <1>6 DEF Keeps

\* What a request that is lost does: it is sent again or the call is over.
LEMMA LostKeeps ==
  ASSUME TypeOK, NEW c \in Calls, Facts(c), Lost(c) \/ ProxyLost(c)
  PROVE  Keeps(c)
  <1>1. /\ step[c] = "request"
        /\ Ran(c) \/ UNCHANGED runs
        /\ UNCHANGED <<registryVars, fleet, callVars, refreshed, listVars>>
        /\ TryAgain(c) \/ GiveUp(c)
    BY DEF Lost, ProxyLost
  <1>2. CASE TryAgain(c)
    <2>1. op[c] \notin Writes
      BY <1>2 DEF TryAgain, RetrySafe, SafeReads, Writes, DirectWrites, Commands
    <2>2. runs' = runs /\ step' = step /\ reply' = reply
      BY <1>1, <1>2, <2>1, RanOnce DEF TryAgain, doneVars
    <2>3. attempt' \in [Calls -> 0..Retries]
      BY <1>2, BoundsAssumption DEF TryAgain, TypeOK
    <2>4. TypeOK'
      BY <1>1, <2>2, <2>3
      DEF TypeOK, RegistryTypeOK, registryVars, callVars, listVars
    <2>5. Local(c)
      BY <1>1, <2>2 DEF Local, callVars, listVars
    <2>6. Facts(c)'
      BY <1>1, <2>2 DEF Facts, callVars, listVars, Ahead
    <2> QED
      BY <2>4, <2>5, <2>6 DEF Keeps
  <1>3. CASE GiveUp(c)
    <2>1. /\ runs' \in [Calls -> Nat]
          /\ \A d \in Calls \ {c} : runs'[d] = runs[d]
          /\ op[c] \in Writes => runs'[c] <= 1
      BY <1>1, RanOnce
    <2>2. /\ step' = [step EXCEPT ![c] = "done"]
          /\ reply' = [reply EXCEPT ![c] = "error"]
          /\ attempt' = attempt
      BY <1>3 DEF GiveUp, Answer, Goto
    <2>3. TypeOK'
      BY <1>1, <2>1, <2>2
      DEF TypeOK, RegistryTypeOK, registryVars, callVars, listVars
    <2>4. Local(c)
      BY <1>1, <2>1, <2>2 DEF TypeOK, Local, callVars, listVars
    <2>5. step'[c] = "done" /\ reply'[c] = "error"
      BY <2>2 DEF TypeOK
    <2>6. Facts(c)'
      BY <1>1, <2>1, <2>5 DEF Facts, callVars, listVars
    <2> QED
      BY <2>3, <2>4, <2>6 DEF Keeps
  <1> QED
    BY <1>1, <1>2, <1>3

\* The other answers end the call, or ask for a new token.
LEMMA EndKeeps ==
  ASSUME TypeOK, NEW c \in Calls, Facts(c),
         \/ Unusable(c) \/ Unauthorized(c) \/ Rejected(c) \/ RefreshFails(c)
         \/ RefuseTool(c) \/ SynchronizeFails(c)
  PROVE  Keeps(c)
  <1>1. /\ UNCHANGED <<registryVars, fleet, callVars, refreshed, attempt, listVars>>
        /\ UNCHANGED runs \/ (step[c] = "request" /\ Ran(c))
        /\ \/ /\ step' = [step EXCEPT ![c] = "done"]
              /\ \E r \in {"error", "reauthorize"} : reply' = [reply EXCEPT ![c] = r]
           \/ /\ step[c] = "request" /\ UNCHANGED <<runs, reply>>
              /\ step' = [step EXCEPT ![c] = "refresh"]
    BY DEF Unusable, Unauthorized, Rejected, RefreshFails, RefuseTool,
           SynchronizeFails, Answer, Continue, Goto
  <1>2. /\ runs' \in [Calls -> Nat]
        /\ \A d \in Calls \ {c} : runs'[d] = runs[d]
        /\ op[c] \in Writes => runs'[c] <= 1
    <2>1. CASE UNCHANGED runs
      BY <2>1 DEF TypeOK, Facts
    <2>2. CASE step[c] = "request" /\ Ran(c)
      BY <2>2, RanOnce
    <2> QED
      BY <1>1, <2>1, <2>2
  <1>3. CASE /\ step' = [step EXCEPT ![c] = "done"]
             /\ \E r \in {"error", "reauthorize"} : reply' = [reply EXCEPT ![c] = r]
    <2>1. PICK r \in {"error", "reauthorize"} : reply' = [reply EXCEPT ![c] = r]
      BY <1>3
    <2>2. TypeOK'
      BY <1>1, <1>2, <1>3, <2>1
      DEF TypeOK, RegistryTypeOK, registryVars, callVars, listVars
    <2>3. Local(c)
      BY <1>1, <1>2, <1>3, <2>1 DEF TypeOK, Local, callVars, listVars
    <2>4. step'[c] = "done" /\ reply'[c] = r
      BY <1>3, <2>1 DEF TypeOK
    <2>5. Facts(c)'
      BY <1>1, <1>2, <2>4 DEF Facts, callVars, listVars
    <2> QED
      BY <2>2, <2>3, <2>5 DEF Keeps
  <1>4. CASE /\ step[c] = "request" /\ UNCHANGED <<runs, reply>>
             /\ step' = [step EXCEPT ![c] = "refresh"]
    <2>1. TypeOK'
      BY <1>1, <1>4 DEF TypeOK, RegistryTypeOK, registryVars, callVars, listVars
    <2>2. Local(c)
      BY <1>1, <1>4 DEF TypeOK, Local, callVars, listVars
    <2>3. step'[c] = "refresh"
      BY <1>4 DEF TypeOK
    <2>4. Facts(c)'
      BY <1>1, <1>4, <2>3 DEF Facts, callVars, listVars
    <2> QED
      BY <2>1, <2>2, <2>4 DEF Keeps
  <1> QED
    BY <1>1, <1>3, <1>4

\* sync_vehicles.
LEMMA SynchronizeKeeps ==
  ASSUME TypeOK, NEW c \in Calls, Facts(c), Synchronize(c)
  PROVE  Keeps(c)
  <1>1. /\ step[c] = "sync" /\ owner[c] \in Users
        /\ UNCHANGED <<fleet, callVars, refreshed, attempt, listVars, runs>>
        /\ step' = [step EXCEPT ![c] = "done"]
        /\ reply' = [reply EXCEPT ![c] = "ok"]
    BY DEF Synchronize, Facts, Answer, Goto
  <1>2. RegistryTypeOK'
    <2>1. index' \in [VINs -> Users \cup {None}]
      BY <1>1 DEF Synchronize, SyncVehicles, IndexListed, TypeOK, RegistryTypeOK
    <2>2. vehicles' \in [Users \X VINs -> {"absent", "active", "not_returned"}]
      BY DEF Synchronize, SyncVehicles, WriteVehicles, TypeOK, RegistryTypeOK
    <2> QED
      BY <2>1, <2>2 DEF RegistryTypeOK
  <1>3. TypeOK'
    BY <1>1, <1>2 DEF TypeOK, callVars, listVars
  <1>4. Local(c)
    BY <1>1 DEF TypeOK, Local, callVars, listVars
  <1>5. step'[c] = "done" /\ reply'[c] = "ok"
    BY <1>1 DEF TypeOK
  <1>6. Facts(c)'
    BY <1>1, <1>5
    DEF Facts, callVars, listVars, Range, Writes, DirectWrites, Commands
  <1> QED
    BY <1>3, <1>4, <1>6 DEF Keeps

\* Every step of a call.
LEMMA StepKeeps ==
  ASSUME TypeOK, NEW c \in Calls, Facts(c), CallStep(c)
  PROVE  Keeps(c)
  <1>1. CASE \E u \in Users : BeginTool(c, u) \/ BeginDiscovery(c, u)
    BY <1>1, BeginKeeps
  <1>2. CASE Refresh(c)
    <2>1. owner[c] \in Users
      BY <1>2 DEF Refresh, Facts
    <2> QED
      BY <1>2, <2>1, BeginKeeps
  <1> QED
    BY <1>1, <1>2, ServedKeeps, PageKeeps, LastPageKeeps, LostKeeps, EndKeeps,
       SynchronizeKeeps DEF CallStep

(***************************************************************************)
(* The Tesla account changes.                                              *)
(***************************************************************************)

\* A vehicle that joins is behind the others.
LEMMA JoinKeeps ==
  ASSUME RequestsInv, NEW u \in Users, NEW v \in VINs, Join(u, v)
  PROVE  RequestsInv'
  <1> USE DEF Join, registryVars, callVars, doneVars, listVars
  <1>1. fleet \in [Users -> Seq(VINs)]
    BY DEF RequestsInv, TypeOK
  <1>2. fleet' = [fleet EXCEPT ![u] = Append(fleet[u], v)]
    OBVIOUS
  <1>3. TypeOK'
    BY <1>1, <1>2 DEF RequestsInv, TypeOK, RegistryTypeOK
  <1>4. ASSUME NEW c \in Calls, owner[c] \in Users
        PROVE  Ahead(c) \subseteq Ahead(c)'
    <2>1. /\ Len(fleet[owner[c]]) \in Nat
          /\ Len(fleet[owner[c]]) <= Len(fleet'[owner[c]])
          /\ Len(fleet'[owner[c]]) \in Nat
          /\ \A i \in 1..Len(fleet[owner[c]]) :
               fleet'[owner[c]][i] = fleet[owner[c]][i]
      BY <1>1, <1>2, <1>4
    <2> QED
      BY <2>1 DEF Ahead
  <1>5. ASSUME NEW c \in Calls PROVE Facts(c)'
    <2>1. Facts(c) /\ Range(got[c])' = Range(got[c])
      BY DEF RequestsInv, Range
    <2> QED
      BY <1>4, <2>1 DEF Facts
  <1> QED
    BY <1>3, <1>5 DEF RequestsInv

\* When one leaves, nothing is expected of the lists that are being read.
LEMMA LeaveKeeps ==
  ASSUME RequestsInv, NEW u \in Users, NEW i \in DOMAIN fleet[u], Leave(u, i)
  PROVE  RequestsInv'
  <1> USE DEF Leave, registryVars, callVars, doneVars
  <1>1. fleet[u] \in Seq(VINs) /\ i \in 1..Len(fleet[u])
    BY LenProperties DEF RequestsInv, TypeOK
  <1>2. fleet' \in [Users -> Seq(VINs)]
    BY <1>1, RemoveAtSeq DEF RequestsInv, TypeOK
  <1>3. expected' \in [Calls -> SUBSET VINs]
    BY DEF RequestsInv, TypeOK
  <1>4. TypeOK'
    BY <1>2, <1>3 DEF RequestsInv, TypeOK, RegistryTypeOK
  <1>5. ASSUME NEW c \in Calls PROVE Facts(c)'
    <2>1. Facts(c) /\ Range(got[c])' = Range(got[c])
      BY DEF RequestsInv, Range
    <2>2. expected'[c] \subseteq expected[c]
      BY DEF RequestsInv, TypeOK
    <2>3. op[c] = "list" /\ step[c] = "request" =>
            expected'[c] \subseteq Range(got[c])' \cup Ahead(c)'
      <3>1. CASE owner[c] # u
        <4>1. expected'[c] = expected[c]
          BY <3>1
        <4>2. step[c] = "request" => Ahead(c)' = Ahead(c)
          BY <2>1, <3>1 DEF Ahead, RequestsInv, TypeOK, Facts
        <4> QED
          BY <2>1, <4>1, <4>2 DEF Facts
      <3>2. CASE owner[c] = u
        <4>1. op[c] = "list" /\ step[c] = "request" => expected'[c] = {}
          BY <3>2 DEF Listing
        <4> QED
          BY <4>1
      <3> QED
        BY <3>1, <3>2
    <2> QED
      BY <2>1, <2>2, <2>3 DEF Facts
  <1> QED
    BY <1>4, <1>5 DEF RequestsInv

(***************************************************************************)
(* Theorems.                                                               *)
(***************************************************************************)

\* Every step preserves the invariant.
LEMMA StepRequests == RequestsInv /\ [Next]_vars => RequestsInv'
  <1> SUFFICES ASSUME RequestsInv, [Next]_vars PROVE RequestsInv'
    OBVIOUS
  <1>1. ASSUME NEW c \in Calls, CallStep(c) PROVE RequestsInv'
    <2>1. Keeps(c)
      BY <1>1, StepKeeps DEF RequestsInv
    <2>2. ASSUME NEW d \in Calls PROVE Facts(d)'
      BY <2>1, OthersKeepFacts DEF Keeps, RequestsInv
    <2> QED
      BY <2>1, <2>2 DEF Keeps, RequestsInv
  <1>2. CASE UNCHANGED vars
    <2>1. TypeOK'
      BY <1>2 DEF RequestsInv, TypeOK, RegistryTypeOK, vars, registryVars,
         callVars, doneVars, listVars
    <2>2. ASSUME NEW c \in Calls PROVE Facts(c)'
      BY <1>2 DEF RequestsInv, Facts, Ahead, Range, vars, registryVars,
         callVars, doneVars, listVars
    <2> QED
      BY <2>1, <2>2 DEF RequestsInv
  <1> QED
    BY <1>1, <1>2, JoinKeeps, LeaveKeeps DEF Next

\* What is known of every call holds in every reachable state.
THEOREM RequestsCorrect == Spec => []RequestsInv
  BY InitRequests, StepRequests, PTL DEF Spec

\* No call carries out a write twice: _request repeats reads only, and after a
\* 401 nothing was carried out.
THEOREM NoWriteTwice == Spec => []WritesRunOnce
  <1>1. RequestsInv => WritesRunOnce
    BY DEF RequestsInv, Facts, WritesRunOnce, Writes
  <1> QED
    BY <1>1, RequestsCorrect, PTL

\* list_vehicles returns no list that is missing a vehicle it should have.
THEOREM ListsComplete == Spec => []ListingsComplete
  <1>1. RequestsInv => ListingsComplete
    BY DEF RequestsInv, Facts, ListingsComplete
  <1> QED
    BY <1>1, RequestsCorrect, PTL

\* A discovery never takes a vehicle off the registry that was on the account
\* all the time.
THEOREM DiscoveryKeeps == Spec => KeptWhileListed
  <1> DEFINE Kept ==
        \A c \in Calls, v \in VINs :
           /\ step[c] = "sync"
           /\ step'[c] = "done"
           /\ v \in expected[c]
           /\ vehicles[<<owner[c], v>>] = "active"
           => vehicles'[<<owner[c], v>>] = "active"
  <1>1. RequestsInv /\ [Next]_vars => [Kept]_vars
    <2> SUFFICES ASSUME RequestsInv, Next PROVE Kept
      OBVIOUS
    <2> SUFFICES ASSUME NEW c \in Calls, NEW v \in VINs, step[c] = "sync",
                        step'[c] = "done", v \in expected[c],
                        vehicles[<<owner[c], v>>] = "active"
                 PROVE  vehicles'[<<owner[c], v>>] = "active"
      OBVIOUS
    <2>1. v \in Range(got[c]) /\ owner[c] \in Users
      BY DEF RequestsInv, Facts
    <2>2. ASSUME NEW d \in Calls, Synchronize(d) PROVE d = c
      BY <2>2 DEF Synchronize, Answer, Goto, RequestsInv, TypeOK
    <2>3. CASE Synchronize(c)
      BY <2>1, <2>3 DEF Synchronize, SyncVehicles, WriteVehicles
    <2>4. CASE \A d \in Calls : ~Synchronize(d)
      <3>1. UNCHANGED vehicles
        BY <2>4 DEF Next, CallStep, Join, Leave, BeginTool, BeginDiscovery,
           RefuseTool, Served, ServedPage, ServedLastPage, Unusable,
           Unauthorized, Rejected, Lost, ProxyLost, Refresh, RefreshFails,
           SynchronizeFails, registryVars
      <3> QED
        BY <3>1
    <2> QED
      BY <2>2, <2>3, <2>4
  <1> QED
    BY <1>1, RequestsCorrect, PTL DEF Spec, KeptWhileListed
=============================================================================
