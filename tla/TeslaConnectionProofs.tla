------------------------ MODULE TeslaConnectionProofs ------------------------
(***************************************************************************)
(* Theorems about TeslaConnection, for any sets of requests, callbacks,    *)
(* token sets and OAuth states.                                            *)
(***************************************************************************)
EXTENDS TeslaConnection, TLAPS

(***************************************************************************)
(* Types.                                                                  *)
(***************************************************************************)
LocalsOK ==
    /\ pc \in [Requests -> Steps]
    /\ kind \in [Requests -> Kinds]
    /\ forced \in [Requests -> BOOLEAN]
    /\ seen \in [Requests -> Credential]
    /\ fresh \in [Requests -> MaybeToken]

TeslaOK ==
    /\ issued \in SUBSET Tokens
    /\ parent \in [Tokens -> MaybeToken]
    /\ family \in [Tokens -> MaybeToken]
    /\ lastUsed \in [Tokens -> MaybeToken]
    /\ revoked \in SUBSET MaybeToken

\* The initial state has the declared types.
LEMMA InitType == Init => TypeOK
  BY NoneAssumption DEF Init, TypeOK, Credential, Nothing, Statuses, Steps,
     Kinds, MaybeToken

\* A request's local variables keep their types when they are set together.
LEMMA BecomeType ==
  ASSUME TypeOK, NEW r \in Requests, NEW step \in Steps, NEW k \in Kinds,
         NEW f \in BOOLEAN, NEW c \in Credential, NEW n \in MaybeToken,
         Become(r, step, k, f, c, n)
  PROVE  LocalsOK'
  BY DEF TypeOK, LocalsOK, Become

\* The values a request's local variables are set to have their types.
LEMMA LocalValueTypes ==
  ASSUME TypeOK
  PROVE  /\ Nothing \in Credential
         /\ Current \in Credential
         /\ None \in MaybeToken
         /\ "use" \in Kinds
         /\ \A r \in Requests :
              /\ kind[r] \in Kinds
              /\ forced[r] \in BOOLEAN
              /\ seen[r] \in Credential
              /\ fresh[r] \in MaybeToken
              /\ [token |-> fresh[r], version |-> seen[r].version + 1]
                   \in Credential
  BY DEF TypeOK, Nothing, Current, Credential, MaybeToken, Kinds

\* Ending a request, moving on and raising keep the types of the locals.
LEMMA FinishType ==
  ASSUME TypeOK, NEW r \in Requests, Finish(r)
  PROVE  LocalsOK'
<1>1. "idle" \in Steps
  BY DEF Steps
<1> QED
  BY <1>1, BecomeType, LocalValueTypes DEF Finish

\* Moving to another step keeps the types of the locals.
LEMMA GotoType ==
  ASSUME TypeOK, NEW r \in Requests, NEW step \in Steps, Goto(r, step)
  PROVE  LocalsOK'
  BY BecomeType, LocalValueTypes DEF Goto

\* So does the exception that leaves execute().
LEMMA RaiseType ==
  ASSUME TypeOK, NEW r \in Requests, NEW k \in Kinds, RaiseReauthorization(r, k)
  PROVE  LocalsOK'
<1>1. "mark_after" \in Steps
  BY DEF Steps
<1> QED
  BY <1>1, BecomeType, LocalValueTypes, FinishType DEF RaiseReauthorization

\* So does answering with, or calling Tesla with, credential c.
LEMMA ProceedType ==
  ASSUME TypeOK, NEW r \in Requests, NEW c \in Credential, ProceedWith(r, c)
  PROVE  LocalsOK'
<1>1. "call" \in Steps
  BY DEF Steps
<1> QED
  BY <1>1, BecomeType, LocalValueTypes, FinishType DEF ProceedWith

\* So does reading the connection.
LEMMA GetConnectionType ==
  ASSUME TypeOK, NEW r \in Requests, NEW k \in Kinds, NEW f \in BOOLEAN,
         GetConnection(r, k, f)
  PROVE  LocalsOK'
<1>1. "exchange" \in Steps /\ "call" \in Steps
  BY DEF Steps
<1>2. CASE Become(r, "exchange", k, f, Current, None)
  BY <1>1, <1>2, BecomeType, LocalValueTypes
<1>3. CASE Become(r, "call", k, f, Current, None)
  BY <1>1, <1>3, BecomeType, LocalValueTypes
<1> QED
  BY <1>2, <1>3, FinishType, RaiseType DEF GetConnection

\* A refresh exchange keeps the types of Tesla's state.
LEMMA IssueFromType ==
  ASSUME TypeOK, NEW t, NEW n \in Tokens, IssueFrom(t, n)
  PROVE  TeslaOK'
<1>1. t \in Tokens /\ family[t] \in MaybeToken
  BY DEF IssueFrom, Live, TypeOK
<1> QED
  BY <1>1 DEF IssueFrom, TeslaOK, TypeOK, MaybeToken

\* Every step preserves the types.
LEMMA StepType == TypeOK /\ ProgressInv /\ [Next]_vars => TypeOK'
<1> SUFFICES ASSUME TypeOK, ProgressInv, [Next]_vars PROVE TypeOK'
  OBVIOUS
<1>1. ASSUME NEW r \in Requests, NEW k \in Kinds, Begin(r, k) PROVE TypeOK'
  <2>1. LocalsOK'
    BY <1>1, GetConnectionType DEF Begin
  <2> QED
    BY <1>1, <2>1 DEF Begin, LocalsOK, TypeOK, connVars, teslaVars,
       historyVars
<1>2. ASSUME NEW r \in Requests, ForceRefresh(r) PROVE TypeOK'
  <2>1. LocalsOK'
    BY <1>2, GetConnectionType, LocalValueTypes DEF ForceRefresh
  <2> QED
    BY <1>2, <2>1 DEF ForceRefresh, LocalsOK, TypeOK, connVars, teslaVars,
       historyVars
<1>3. ASSUME NEW r \in Requests, Exchange(r) PROVE TypeOK'
  <2>1. PICK n \in Tokens :
          /\ IssueFrom(seen[r].token, n)
          /\ Become(r, "commit", kind[r], forced[r], seen[r], n)
    BY <1>3 DEF Exchange
  <2>2. LocalsOK'
    <3>1. "commit" \in Steps /\ n \in MaybeToken
      BY DEF Steps, MaybeToken
    <3> QED
      BY <2>1, <3>1, BecomeType, LocalValueTypes
  <2>3. TeslaOK'
    BY <2>1, IssueFromType
  <2> QED
    BY <1>3, <2>2, <2>3 DEF Exchange, LocalsOK, TeslaOK, TypeOK, connVars,
       historyVars
<1>4. ASSUME NEW r \in Requests, ExchangeLost(r) PROVE TypeOK'
  <2>1. LocalsOK'
    BY <1>4, FinishType DEF ExchangeLost
  <2>2. TeslaOK'
    BY <1>4, IssueFromType DEF ExchangeLost
  <2> QED
    BY <1>4, <2>1, <2>2 DEF ExchangeLost, LocalsOK, TeslaOK, TypeOK,
       connVars, historyVars
<1>5. ASSUME NEW r \in Requests, ExchangeRefused(r) PROVE TypeOK'
  <2>1. LocalsOK'
    BY <1>5, GotoType DEF ExchangeRefused, Steps
  <2> QED
    BY <1>5, <2>1 DEF ExchangeRefused, LocalsOK, TypeOK, connVars, teslaVars,
       historyVars
<1>6. ASSUME NEW r \in Requests, Mark(r) PROVE TypeOK'
  <2>1. LocalsOK'
    BY <1>6, RaiseType, LocalValueTypes DEF Mark
  <2> QED
    BY <1>6, <2>1 DEF Mark, MarkReauthorizationRequired, ProgressInv,
       LocalsOK, TypeOK, Statuses, teslaVars, historyVars
<1>7. ASSUME NEW r \in Requests, MarkAfter(r) PROVE TypeOK'
  <2>1. LocalsOK'
    BY <1>7, FinishType DEF MarkAfter
  <2> QED
    BY <1>7, <2>1 DEF MarkAfter, MarkReauthorizationRequired, ProgressInv,
       LocalsOK, TypeOK, Statuses, teslaVars, historyVars
<1>8. ASSUME NEW r \in Requests, Commit(r) PROVE TypeOK'
  <2>1. LocalsOK'
    BY <1>8, ProceedType, LocalValueTypes DEF Commit
  <2> QED
    BY <1>8, <2>1, LocalValueTypes DEF Commit, RotateTokens, LocalsOK,
       TypeOK, Statuses, VersionMatches, Credential, ProgressInv, teslaVars
<1>9. ASSUME NEW r \in Requests, CommitLost(r) PROVE TypeOK'
  <2>1. LocalsOK'
    BY <1>9, GotoType DEF CommitLost, Steps
  <2> QED
    BY <1>9, <2>1 DEF CommitLost, LocalsOK, TypeOK, connVars, teslaVars,
       historyVars
<1>10. ASSUME NEW r \in Requests, Reread(r) PROVE TypeOK'
  <2>1. LocalsOK'
    BY <1>10, ProceedType, LocalValueTypes DEF Reread
  <2> QED
    BY <1>10, <2>1 DEF Reread, LocalsOK, TypeOK, connVars, teslaVars,
       historyVars
<1>11. ASSUME NEW r \in Requests, Call(r) PROVE TypeOK'
  <2>1. LocalsOK'
    BY <1>11, FinishType, GotoType, RaiseType, LocalValueTypes DEF Call,
       Steps
  <2> QED
    BY <1>11, <2>1 DEF Call, LocalsOK, TypeOK, connVars, teslaVars,
       historyVars
<1>12. ASSUME NEW s \in States, Start(s) \/ Expire(s) \/ Decline(s) PROVE TypeOK'
  BY <1>12 DEF Start, Expire, Decline, ConsumeState, TypeOK, connVars,
     teslaVars, requestVars, historyVars
<1>13. ASSUME NEW r \in Requests, NEW s \in States, Consume(r, s) PROVE TypeOK'
  <2>1. LocalsOK'
    BY <1>13, GotoType DEF Consume, Steps, requestVars, LocalsOK, TypeOK
  <2> QED
    BY <1>13, <2>1 DEF Consume, ConsumeState, LocalsOK, TypeOK, connVars,
       teslaVars, historyVars
<1>14. ASSUME NEW r \in Requests, ExchangeCode(r) PROVE TypeOK'
  <2>1. PICK n \in Tokens :
          /\ IssueFirst(n)
          /\ Become(r, "save", kind[r], FALSE, Nothing, n)
          /\ grantOf' = [grantOf EXCEPT ![stateOf[r]] = n]
    BY <1>14 DEF ExchangeCode
  <2>2. LocalsOK'
    <3>1. "save" \in Steps /\ n \in MaybeToken
      BY DEF Steps, MaybeToken
    <3> QED
      BY <2>1, <3>1, BecomeType, LocalValueTypes
  <2>3. TeslaOK'
    BY <2>1 DEF IssueFirst, TeslaOK, TypeOK, MaybeToken
  <2>4. /\ stateOf' \in [Requests -> States \cup {None}]
        /\ grantOf' \in [States -> MaybeToken]
    BY <1>14, <2>1 DEF ExchangeCode, TypeOK, MaybeToken
  <2> QED
    BY <1>14, <2>2, <2>3, <2>4 DEF ExchangeCode, LocalsOK, TeslaOK, TypeOK,
       connVars
<1>15. ASSUME NEW r \in Requests, Save(r) PROVE TypeOK'
  <2>1. LocalsOK'
    BY <1>15, GotoType DEF Save, Steps
  <2>2. NextVersion \in Nat /\ NextVersion > 0
    BY DEF NextVersion, FirstVersion, TypeOK
  <2> QED
    BY <1>15, <2>1, <2>2 DEF Save, SaveConnection, LocalsOK, TypeOK,
       Statuses, MaybeToken, ProgressInv, teslaVars
<1>16. ASSUME NEW r \in Requests, Complete(r) PROVE TypeOK'
  <2>1. LocalsOK'
    BY <1>16, FinishType DEF Complete
  <2> QED
    BY <1>16, <2>1 DEF Complete, CompleteConnection, ProgressInv, LocalsOK,
       TypeOK, Statuses, teslaVars, historyVars
<1>17. ASSUME NEW r \in Requests, Abort(r) PROVE TypeOK'
  <2>1. LocalsOK'
    BY <1>17, FinishType DEF Abort
  <2> QED
    BY <1>17, <2>1 DEF Abort, LocalsOK, TypeOK, connVars, teslaVars,
       historyVars
<1>18. ASSUME NEW t \in Tokens, Revoke(t) PROVE TypeOK'
  BY <1>18 DEF Revoke, TypeOK, MaybeToken, connVars, requestVars, historyVars
<1>19. CASE UNCHANGED vars
  BY <1>19 DEF vars, connVars, teslaVars, requestVars, historyVars, TypeOK
<1> QED
  BY <1>1, <1>2, <1>3, <1>4, <1>5, <1>6, <1>7, <1>8, <1>9, <1>10, <1>11,
     <1>12, <1>13, <1>14, <1>15, <1>16, <1>17, <1>18, <1>19,
     CallbacksAssumption DEF Next, Access, Callback

\* Every step preserves what requests know of the document.
LEMMA StepProgress == TypeOK /\ ProgressInv /\ [Next]_vars => ProgressInv'
<1> SUFFICES ASSUME TypeOK, ProgressInv, [Next]_vars PROVE ProgressInv'
  OBVIOUS
<1> USE DEF Become, Finish, Goto, RaiseReauthorization
<1>1. ASSUME NEW r \in Requests, NEW k \in Kinds, Begin(r, k) PROVE ProgressInv'
  BY <1>1 DEF Begin, GetConnection, Statuses, connVars, ProgressInv, TypeOK
<1>2. ASSUME NEW r \in Requests, ForceRefresh(r) PROVE ProgressInv'
  BY <1>2 DEF ForceRefresh, GetConnection, Statuses, connVars, ProgressInv,
     TypeOK
<1>3. ASSUME NEW r \in Requests, Exchange(r) PROVE ProgressInv'
  BY <1>3 DEF Exchange, connVars, IssueFrom, ProgressInv, TypeOK
<1>4. ASSUME NEW r \in Requests, ExchangeLost(r) PROVE ProgressInv'
  BY <1>4 DEF ExchangeLost, connVars, ProgressInv, TypeOK
<1>5. ASSUME NEW r \in Requests, ExchangeRefused(r) PROVE ProgressInv'
  BY <1>5 DEF ExchangeRefused, connVars, ProgressInv, TypeOK
<1>6. ASSUME NEW r \in Requests, Mark(r) PROVE ProgressInv'
  BY <1>6 DEF Mark, MarkReauthorizationRequired, ProgressInv, TypeOK
<1>7. ASSUME NEW r \in Requests, MarkAfter(r) PROVE ProgressInv'
  BY <1>7 DEF MarkAfter, MarkReauthorizationRequired, ProgressInv, TypeOK
<1>8. ASSUME NEW r \in Requests, Commit(r) PROVE ProgressInv'
  BY <1>8 DEF Commit, RotateTokens, ProceedWith, ProgressInv, TypeOK
<1>9. ASSUME NEW r \in Requests, CommitLost(r) PROVE ProgressInv'
  BY <1>9 DEF CommitLost, connVars, ProgressInv, TypeOK
<1>10. ASSUME NEW r \in Requests, Reread(r) PROVE ProgressInv'
  BY <1>10 DEF Reread, ProceedWith, connVars, ProgressInv, TypeOK
<1>11. ASSUME NEW r \in Requests, Call(r) PROVE ProgressInv'
  BY <1>11 DEF Call, connVars, ProgressInv, TypeOK
<1>12. ASSUME NEW s \in States, Start(s) \/ Expire(s) \/ Decline(s)
       PROVE ProgressInv'
  BY <1>12 DEF Start, Expire, Decline, ProgressInv, connVars, requestVars
<1>13. ASSUME NEW r \in Requests, NEW s \in States, Consume(r, s) PROVE ProgressInv'
  BY <1>13 DEF Consume, connVars, requestVars, ProgressInv, TypeOK
<1>14. ASSUME NEW r \in Requests, ExchangeCode(r) PROVE ProgressInv'
  BY <1>14 DEF ExchangeCode, connVars, IssueFirst, ProgressInv, TypeOK
<1>15. ASSUME NEW r \in Requests, Save(r) PROVE ProgressInv'
  BY <1>15 DEF Save, SaveConnection, ProgressInv, TypeOK
<1>16. ASSUME NEW r \in Requests, Complete(r) PROVE ProgressInv'
  BY <1>16 DEF Complete, CompleteConnection, ProgressInv, TypeOK
<1>17. ASSUME NEW r \in Requests, Abort(r) PROVE ProgressInv'
  BY <1>17 DEF Abort, connVars, ProgressInv, TypeOK
<1>18. ASSUME NEW t \in Tokens, Revoke(t) PROVE ProgressInv'
  BY <1>18 DEF Revoke, ProgressInv, connVars, requestVars
<1>19. CASE UNCHANGED vars
  BY <1>19 DEF vars, connVars, requestVars, ProgressInv
<1> QED
  BY <1>1, <1>2, <1>3, <1>4, <1>5, <1>6, <1>7, <1>8, <1>9, <1>10, <1>11,
     <1>12, <1>13, <1>14, <1>15, <1>16, <1>17, <1>18, <1>19,
     CallbacksAssumption DEF Next, Access, Callback

\* At every moment each variable has its type, and a stored document has a
\* token set and a version counted from 1, whichever requests wrote it.
THEOREM TypeCorrect == Spec => []TypeOK
<1>1. Init => TypeOK /\ ProgressInv
  BY InitType DEF Init, ProgressInv
<1>2. TypeOK /\ ProgressInv /\ [Next]_vars => (TypeOK /\ ProgressInv)'
  BY StepType, StepProgress
<1> QED
  BY <1>1, <1>2, PTL DEF Spec

(***************************************************************************)
(* The credential chain.                                                   *)
(***************************************************************************)

\* Initially nothing has been issued, stored or remembered.
LEMMA InitCredential == Init => CredentialInv
  BY InitType DEF Init, CredentialInv, IssuedInv, VersionInv, ConnInv,
     ProgressInv, RequestInv, Remembers, RefusalMeansSuperseded, Stored

\* Of the token sets of the stored grant that were ever stored, Tesla accepts
\* only the stored one and the one it replaced.
LEMMA LiveStored ==
  ASSUME CredentialInv, status # "absent", NEW t \in Tokens,
         Stored(t), Live(t), family[t] = family[token]
  PROVE  t \in {token, parent[token]}
<1>1. /\ t \in issued /\ token \in issued /\ token \in Tokens
      /\ lastUsed[family[token]] \in {t, parent[t]}
      /\ lastUsed[family[token]] \in {token, parent[token]}
  BY DEF CredentialInv, ConnInv, Live, TypeOK
<1>2. CASE lastUsed[family[token]] = t
  BY <1>1, <1>2
<1>3. CASE lastUsed[family[token]] = parent[t] /\ parent[t] = None
  <2>1. parent[token] = None
    BY <1>1, <1>3, NoneAssumption
  <2> QED
    BY <1>1, <1>3, <2>1 DEF CredentialInv, IssuedInv
<1>4. CASE lastUsed[family[token]] = parent[t] /\ parent[t] # None
  <2>1. storedAt[t] = storedAt[parent[t]] + 1 /\ storedAt[t] <= storedAt[token]
    BY <1>1, <1>4 DEF CredentialInv, VersionInv, ConnInv
  <2>2. storedAt \in [Tokens -> Nat] /\ Stored(token)
    BY DEF CredentialInv, TypeOK, ConnInv, Stored
  <2>3. parent[t] # token
    BY <1>1, <2>1, <2>2
  <2>4. parent[t] = parent[token]
    BY <1>1, <1>4, <2>3
  <2>5. storedAt[token] = storedAt[parent[token]] + 1
    BY <1>1, <1>4, <2>2, <2>4 DEF CredentialInv, VersionInv
  <2> QED
    BY <1>1, <2>1, <2>2, <2>4, <2>5 DEF CredentialInv, VersionInv
<1> QED
  BY <1>1, <1>2, <1>3, <1>4

\* A refresh exchange of a token set some request read keeps the chain.
LEMMA ExchangeChain ==
  ASSUME CredentialInv, NEW r \in Requests, pc[r] = "exchange",
         NEW n \in Tokens, IssueFrom(seen[r].token, n),
         UNCHANGED connVars, UNCHANGED storedAt
  PROVE  IssuedInv' /\ VersionInv' /\ ConnInv'
<1> DEFINE t == seen[r].token
           f == family[t]
<1>1. /\ t \in issued /\ Stored(t) /\ Live(t) /\ n \notin issued
      /\ issued \subseteq Tokens
      /\ storedAt \in [Tokens -> Nat]
      /\ storedAt' = storedAt /\ token' = token
      /\ status' = status /\ token_version' = token_version
      /\ status # "absent" => token \in Tokens /\ token \in issued
  BY DEF CredentialInv, RequestInv, Remembers, IssueFrom, Live, TypeOK,
     Stored, connVars, ConnInv
<1>2. /\ issued' = issued \cup {n}
      /\ \A x \in issued : family'[x] = family[x] /\ parent'[x] = parent[x]
      /\ \A x \in Tokens \ {n} : parent'[x] = parent[x]
      /\ family'[n] = f /\ parent'[n] = t
  BY <1>1 DEF IssueFrom, CredentialInv, TypeOK
<1>3. f \in issued /\ f \in Tokens /\ n # t /\ n # f
  BY <1>1 DEF CredentialInv, IssuedInv
<1>4. /\ lastUsed'[f] = t
      /\ \A x \in Tokens \ {f} : lastUsed'[x] = lastUsed[x]
  BY <1>3 DEF IssueFrom, CredentialInv, TypeOK
<1>5. lastUsed[f] \in {t, parent[t]}
  BY <1>1 DEF Live
<1>6. Stored(f)
  BY <1>1 DEF CredentialInv, IssuedInv
<1>7. ASSUME NEW x \in issued, parent[x] # None, family[x] = f
      PROVE  storedAt[t] >= storedAt[parent[x]]
  <2>1. lastUsed[f] # None /\ storedAt[lastUsed[f]] >= storedAt[parent[x]]
    BY <1>7 DEF CredentialInv, IssuedInv
  <2>2. CASE lastUsed[f] = t
    BY <2>1, <2>2
  <2>3. CASE lastUsed[f] = parent[t]
    <3>1. storedAt[t] = storedAt[parent[t]] + 1 /\ parent[t] \in Tokens
          /\ parent[x] \in Tokens
      BY <1>1, <1>7, <2>1, <2>3 DEF CredentialInv, VersionInv, IssuedInv
    <3> QED
      BY <1>1, <2>1, <2>3, <3>1
  <2> QED
    BY <1>5, <2>2, <2>3
<1>8. IssuedInv'
  <2>1. ASSUME NEW x \in issued
        PROVE  /\ family'[x] \in issued'
               /\ parent'[x] = None => family'[x] = x
               /\ parent'[x] # None =>
                    /\ parent'[x] \in issued'
                    /\ family'[parent'[x]] = family'[x]
                    /\ storedAt'[parent'[x]] > 0
                    /\ storedAt'[family'[x]] > 0
                    /\ lastUsed'[family'[x]] # None
                    /\ storedAt'[lastUsed'[family'[x]]] >= storedAt'[parent'[x]]
               /\ lastUsed'[x] # None =>
                    lastUsed'[x] \in issued' /\ storedAt'[lastUsed'[x]] > 0
    BY <1>1, <1>2, <1>3, <1>4, <1>7, <2>1, NoneAssumption DEF CredentialInv,
       IssuedInv, Stored
  <2>2. /\ family'[n] \in issued'
        /\ parent'[n] = t /\ t \in issued' /\ t # None
        /\ family'[t] = family'[n]
        /\ storedAt'[t] > 0 /\ storedAt'[f] > 0
        /\ lastUsed'[family'[n]] = t
        /\ storedAt'[t] >= storedAt'[t]
        /\ lastUsed'[n] = None
    BY <1>1, <1>2, <1>3, <1>4, <1>6, NoneAssumption DEF CredentialInv,
       IssuedInv, Stored
  <2>3. ASSUME NEW x \in Tokens \ issued'
        PROVE  storedAt'[x] = 0 /\ parent'[x] = None /\ lastUsed'[x] = None
    BY <1>1, <1>2, <1>3, <1>4 DEF CredentialInv, IssuedInv
  <2> QED
    BY <1>2, <2>1, <2>2, <2>3 DEF IssuedInv, Stored
<1>9. VersionInv'
  BY <1>1, <1>2 DEF CredentialInv, VersionInv, IssuedInv, Stored
<1>10. ConnInv'
  <2>1. ASSUME status # "absent", family[token] = f
        PROVE  t \in {token, parent[token]}
    BY <1>1, <2>1, LiveStored
  <2>2. status # "absent" => family[token] \in issued
    BY <1>1 DEF CredentialInv, IssuedInv
  <2> QED
    BY <1>1, <1>2, <1>3, <1>4, <2>1, <2>2 DEF CredentialInv, ConnInv
<1> QED
  BY <1>8, <1>9, <1>10

\* A code exchange keeps the chain.
LEMMA CodeChain ==
  ASSUME CredentialInv, NEW n \in Tokens, IssueFirst(n),
         UNCHANGED connVars, UNCHANGED storedAt
  PROVE  IssuedInv' /\ VersionInv' /\ ConnInv'
<1>1. /\ issued' = issued \cup {n} /\ n \notin issued /\ issued \subseteq Tokens
      /\ family'[n] = n
      /\ \A x \in issued : family'[x] = family[x]
      /\ parent' = parent /\ lastUsed' = lastUsed /\ storedAt' = storedAt
      /\ token' = token /\ status' = status /\ token_version' = token_version
  BY DEF IssueFirst, CredentialInv, TypeOK, connVars
<1>2. IssuedInv'
  <2>1. ASSUME NEW x \in issued'
        PROVE  /\ family'[x] \in issued'
               /\ parent'[x] = None => family'[x] = x
               /\ parent'[x] # None =>
                    /\ parent'[x] \in issued'
                    /\ family'[parent'[x]] = family'[x]
                    /\ storedAt'[parent'[x]] > 0
                    /\ storedAt'[family'[x]] > 0
                    /\ lastUsed'[family'[x]] # None
                    /\ storedAt'[lastUsed'[family'[x]]] >= storedAt'[parent'[x]]
               /\ lastUsed'[x] # None =>
                    lastUsed'[x] \in issued' /\ storedAt'[lastUsed'[x]] > 0
    BY <1>1, <2>1 DEF CredentialInv, IssuedInv, Stored
  <2>2. ASSUME NEW x \in Tokens \ issued'
        PROVE  storedAt'[x] = 0 /\ parent'[x] = None /\ lastUsed'[x] = None
    BY <1>1, <2>2 DEF CredentialInv, IssuedInv
  <2> QED
    BY <2>1, <2>2 DEF IssuedInv, Stored
<1>3. VersionInv'
  BY <1>1 DEF CredentialInv, VersionInv, Stored
<1>4. ConnInv'
  BY <1>1 DEF CredentialInv, ConnInv, IssuedInv
<1> QED
  BY <1>2, <1>3, <1>4

\* Storing the new token set n under the next version keeps what is known of
\* the issued tokens and the versions, if n is a first token set or the child
\* of the stored one.
LEMMA StoreChain ==
  ASSUME CredentialInv, NEW n \in issued, ~Stored(n),
         \/ parent[n] = None
         \/ status # "absent" /\ parent[n] = token,
         UNCHANGED <<issued, parent, family, lastUsed>>,
         token_version' = token_version + 1,
         storedAt' = [storedAt EXCEPT ![n] = token_version + 1]
  PROVE  IssuedInv' /\ VersionInv'
<1>1. /\ n \in Tokens /\ issued \subseteq Tokens
      /\ issued' = issued /\ parent' = parent /\ family' = family
      /\ lastUsed' = lastUsed
      /\ token_version \in Nat
      /\ storedAt \in [Tokens -> Nat] /\ storedAt[n] = 0
      /\ storedAt'[n] = token_version + 1
      /\ \A x \in Tokens \ {n} : storedAt'[x] = storedAt[x]
      /\ \A x \in Tokens : storedAt'[x] >= storedAt[x] /\ storedAt'[x] \in Nat
  <2>1. n \in Tokens /\ storedAt \in [Tokens -> Nat] /\ storedAt[n] = 0
        /\ token_version \in Nat
    BY DEF CredentialInv, TypeOK, Stored
  <2> QED
    BY <2>1 DEF CredentialInv, TypeOK
<1>2. IssuedInv'
  <2>1. ASSUME NEW x \in issued, parent[x] # None
        PROVE  /\ storedAt'[parent[x]] > 0
               /\ storedAt'[family[x]] > 0
               /\ storedAt'[lastUsed[family[x]]] >= storedAt'[parent[x]]
    <3>1. /\ parent[x] \in Tokens /\ family[x] \in Tokens
          /\ lastUsed[family[x]] \in Tokens
          /\ storedAt[parent[x]] > 0 /\ storedAt[family[x]] > 0
          /\ storedAt[lastUsed[family[x]]] >= storedAt[parent[x]]
      BY <1>1, <2>1 DEF CredentialInv, IssuedInv, Stored
    <3>2. parent[x] # n
      BY <1>1, <3>1
    <3> QED
      BY <1>1, <3>1, <3>2
  <2>2. ASSUME NEW x \in issued
        PROVE  /\ family[x] \in issued
               /\ parent[x] = None => family[x] = x
               /\ parent[x] # None =>
                    /\ parent[x] \in issued
                    /\ family[parent[x]] = family[x]
                    /\ lastUsed[family[x]] # None
               /\ lastUsed[x] # None =>
                    lastUsed[x] \in issued /\ storedAt'[lastUsed[x]] > 0
    BY <1>1, <2>2 DEF CredentialInv, IssuedInv, Stored
  <2>3. ASSUME NEW x \in Tokens \ issued
        PROVE  storedAt'[x] = 0 /\ parent[x] = None /\ lastUsed[x] = None
    BY <1>1, <2>3 DEF CredentialInv, IssuedInv
  <2> QED
    BY <1>1, <2>1, <2>2, <2>3 DEF IssuedInv, Stored
<1>3. VersionInv'
  <2>1. \A x \in Tokens : storedAt'[x] <= token_version + 1
    BY <1>1 DEF CredentialInv, VersionInv
  <2>2. \A x \in Tokens \ {n} : storedAt'[x] < token_version + 1
    BY <1>1 DEF CredentialInv, VersionInv
  <2>3. ASSUME NEW x \in Tokens, NEW y \in Tokens,
               storedAt'[x] > 0, storedAt'[x] = storedAt'[y]
        PROVE  x = y
    BY <1>1, <2>2, <2>3 DEF CredentialInv, VersionInv, Stored
  <2>4. ASSUME NEW x \in Tokens, storedAt'[x] > 0, parent[x] # None
        PROVE  storedAt'[x] = storedAt'[parent[x]] + 1
    <3>1. x \in issued
      BY <1>1, <2>4 DEF CredentialInv, IssuedInv
    <3>2. parent[x] \in Tokens /\ parent[x] # n
      BY <1>1, <2>4, <3>1 DEF CredentialInv, IssuedInv, Stored
    <3>3. CASE x = n
      BY <1>1, <2>4, <3>2, <3>3 DEF CredentialInv, ConnInv
    <3>4. CASE x # n
      BY <1>1, <2>4, <3>2, <3>4 DEF CredentialInv, VersionInv, Stored
    <3> QED
      BY <3>3, <3>4
  <2> QED
    BY <1>1, <2>1, <2>3, <2>4 DEF VersionInv, Stored
<1> QED
  BY <1>2, <1>3

\* A rotation whose version check passed replaces the parent of what it
\* stores, and Tesla last saw that parent.
LEMMA CommitParent ==
  ASSUME CredentialInv, NEW r \in Requests, pc[r] = "commit", VersionMatches(r)
  PROVE  /\ status # "absent"
         /\ fresh[r] \in issued /\ ~Stored(fresh[r])
         /\ parent[fresh[r]] = token
         /\ lastUsed[family[fresh[r]]] = token
<1>1. /\ status # "absent"
      /\ token \in issued /\ storedAt[token] = token_version
      /\ lastUsed[family[token]] \in {token, parent[token]}
      /\ issued \subseteq Tokens
      /\ storedAt \in [Tokens -> Nat]
      /\ fresh[r] \in issued /\ ~Stored(fresh[r])
      /\ parent[fresh[r]] = seen[r].token
      /\ seen[r].token \in issued /\ seen[r].version > 0
      /\ storedAt[seen[r].token] = seen[r].version
      /\ seen[r].version = token_version
  BY DEF CredentialInv, ProgressInv, ConnInv, RequestInv, Remembers, TypeOK,
     VersionMatches
<1>2. seen[r].token = token
  BY <1>1 DEF CredentialInv, VersionInv, Stored
<1>3. /\ token # None /\ family[fresh[r]] = family[token]
      /\ lastUsed[family[token]] # None
      /\ storedAt[lastUsed[family[token]]] >= storedAt[token]
  BY <1>1, <1>2, NoneAssumption DEF CredentialInv, IssuedInv
<1>4. lastUsed[family[token]] = token
  <2>1. SUFFICES ASSUME lastUsed[family[token]] = parent[token],
                        parent[token] # None
                 PROVE  FALSE
    BY <1>1, <1>3
  <2>2. parent[token] \in Tokens
        /\ storedAt[token] = storedAt[parent[token]] + 1
    BY <1>1, <2>1 DEF CredentialInv, VersionInv, IssuedInv, Stored
  <2> QED
    BY <1>1, <1>3, <2>1, <2>2
<1> QED
  BY <1>1, <1>2, <1>3, <1>4

\* rotate_tokens keeps the chain.
LEMMA CommitChain ==
  ASSUME CredentialInv, NEW r \in Requests, Commit(r)
  PROVE  IssuedInv' /\ VersionInv' /\ ConnInv'
<1>1. /\ token_version' = token_version + 1
      /\ token' = fresh[r] /\ status' = "connected"
      /\ storedAt' = [storedAt EXCEPT ![fresh[r]] = token_version + 1]
      /\ issued' = issued /\ parent' = parent /\ family' = family
      /\ lastUsed' = lastUsed
  BY DEF Commit, RotateTokens, VersionMatches, teslaVars
<1>2. /\ status # "absent"
      /\ fresh[r] \in issued /\ ~Stored(fresh[r])
      /\ parent[fresh[r]] = token
      /\ lastUsed[family[fresh[r]]] = token
  BY CommitParent DEF Commit
<1>3. IssuedInv' /\ VersionInv'
  BY <1>1, <1>2, StoreChain
<1>4. ConnInv'
  BY <1>1, <1>2 DEF ConnInv, CredentialInv, TypeOK
<1> QED
  BY <1>3, <1>4

\* save_connection keeps the chain.
LEMMA SaveChain ==
  ASSUME CredentialInv, NEW r \in Requests, Save(r)
  PROVE  IssuedInv' /\ VersionInv' /\ ConnInv'
<1>1. NextVersion = token_version + 1
  BY DEF CredentialInv, ConnInv, NextVersion, FirstVersion
<1>2. /\ token_version' = token_version + 1
      /\ token' = fresh[r] /\ status' = "discovery_pending"
      /\ storedAt' = [storedAt EXCEPT ![fresh[r]] = token_version + 1]
      /\ issued' = issued /\ parent' = parent /\ family' = family
      /\ lastUsed' = lastUsed
  BY <1>1 DEF Save, SaveConnection, teslaVars
<1>3. /\ fresh[r] \in issued /\ ~Stored(fresh[r])
      /\ parent[fresh[r]] = None /\ lastUsed[fresh[r]] = None
      /\ family[fresh[r]] = fresh[r]
  BY DEF Save, CredentialInv, RequestInv, Remembers, IssuedInv
<1>4. IssuedInv' /\ VersionInv'
  BY <1>2, <1>3, StoreChain
<1>5. ConnInv'
  BY <1>2, <1>3 DEF ConnInv, CredentialInv, TypeOK
<1> QED
  BY <1>4, <1>5

\* A step that issues and stores nothing keeps the chain.
LEMMA FrameChain ==
  ASSUME CredentialInv,
         UNCHANGED <<issued, parent, family, lastUsed, storedAt>>,
         UNCHANGED <<token, token_version>>,
         status' = status \/ (status # "absent" /\ status' # "absent")
  PROVE  IssuedInv' /\ VersionInv' /\ ConnInv'
  BY DEF CredentialInv, IssuedInv, VersionInv, ConnInv, Stored

\* Every step keeps the chain.
LEMMA StepChain ==
  CredentialInv /\ [Next]_vars => IssuedInv' /\ VersionInv' /\ ConnInv'
<1> DEFINE Chain == IssuedInv' /\ VersionInv' /\ ConnInv'
<1> SUFFICES ASSUME CredentialInv, [Next]_vars PROVE Chain
  OBVIOUS
<1> HIDE DEF Chain
<1>1. ASSUME NEW r \in Requests, NEW k \in Kinds, Begin(r, k)
       PROVE Chain
  BY <1>1, FrameChain DEF Chain, Begin, connVars, teslaVars, historyVars
<1>2. ASSUME NEW r \in Requests, ForceRefresh(r)
       PROVE Chain
  BY <1>2, FrameChain DEF Chain, ForceRefresh, connVars, teslaVars,
     historyVars
<1>3. ASSUME NEW r \in Requests, Exchange(r)
       PROVE Chain
  BY <1>3, ExchangeChain DEF Chain, Exchange, historyVars
<1>4. ASSUME NEW r \in Requests, ExchangeLost(r)
       PROVE Chain
  BY <1>4, ExchangeChain DEF Chain, ExchangeLost, historyVars
<1>5. ASSUME NEW r \in Requests, ExchangeRefused(r)
       PROVE Chain
  BY <1>5, FrameChain DEF Chain, ExchangeRefused, connVars, teslaVars,
     historyVars
<1>6. ASSUME NEW r \in Requests, Mark(r)
       PROVE Chain
  <2>1. status # "absent" /\ status' # "absent"
    BY <1>6 DEF Mark, MarkReauthorizationRequired, CredentialInv, ProgressInv
  <2> QED
    BY <1>6, <2>1, FrameChain DEF Chain, Mark, MarkReauthorizationRequired,
       teslaVars, historyVars
<1>7. ASSUME NEW r \in Requests, MarkAfter(r)
       PROVE Chain
  <2>1. status # "absent" /\ status' # "absent"
    BY <1>7 DEF MarkAfter, MarkReauthorizationRequired, CredentialInv,
       ProgressInv
  <2> QED
    BY <1>7, <2>1, FrameChain DEF Chain, MarkAfter,
       MarkReauthorizationRequired, teslaVars, historyVars
<1>8. ASSUME NEW r \in Requests, Commit(r)
       PROVE Chain
  BY <1>8, CommitChain DEF Chain
<1>9. ASSUME NEW r \in Requests, CommitLost(r)
       PROVE Chain
  BY <1>9, FrameChain DEF Chain, CommitLost, connVars, teslaVars, historyVars
<1>10. ASSUME NEW r \in Requests, Reread(r)
       PROVE Chain
  BY <1>10, FrameChain DEF Chain, Reread, connVars, teslaVars, historyVars
<1>11. ASSUME NEW r \in Requests, Call(r)
       PROVE Chain
  BY <1>11, FrameChain DEF Chain, Call, connVars, teslaVars, historyVars
<1>12. ASSUME NEW s \in States, Start(s) \/ Expire(s) \/ Decline(s)
       PROVE Chain
  BY <1>12, FrameChain DEF Chain, Start, Expire, Decline, connVars,
     teslaVars, historyVars
<1>13. ASSUME NEW r \in Requests, NEW s \in States, Consume(r, s)
       PROVE Chain
  BY <1>13, FrameChain DEF Chain, Consume, connVars, teslaVars, historyVars
<1>14. ASSUME NEW r \in Requests, ExchangeCode(r)
       PROVE Chain
  BY <1>14, CodeChain DEF Chain, ExchangeCode
<1>15. ASSUME NEW r \in Requests, Save(r)
       PROVE Chain
  BY <1>15, SaveChain DEF Chain
<1>16. ASSUME NEW r \in Requests, Complete(r)
       PROVE Chain
  <2>1. status # "absent" /\ status' # "absent"
    BY <1>16 DEF Complete, CompleteConnection, CredentialInv, ProgressInv
  <2> QED
    BY <1>16, <2>1, FrameChain DEF Chain, Complete, CompleteConnection,
       teslaVars, historyVars
<1>17. ASSUME NEW r \in Requests, Abort(r)
       PROVE Chain
  BY <1>17, FrameChain DEF Chain, Abort, connVars, teslaVars, historyVars
<1>18. ASSUME NEW t \in Tokens, Revoke(t)
       PROVE Chain
  BY <1>18, FrameChain DEF Chain, Revoke, connVars, historyVars
<1>19. CASE UNCHANGED vars
  BY <1>19, FrameChain DEF Chain, vars, connVars, teslaVars, historyVars
<1> QED
  BY <1>1, <1>2, <1>3, <1>4, <1>5, <1>6, <1>7, <1>8, <1>9, <1>10, <1>11,
     <1>12, <1>13, <1>14, <1>15, <1>16, <1>17, <1>18, <1>19,
     CallbacksAssumption DEF Next, Access, Callback

\* What a request remembers stays true when only other requests move, Tesla
\* issues tokens from a stored one, or another request stores its own.
LEMMA OthersRemember ==
  ASSUME CredentialInv, NEW q \in Requests,
         pc'[q] = pc[q], seen'[q] = seen[q], fresh'[q] = fresh[q],
         issued \subseteq issued',
         \A x \in issued : parent'[x] = parent[x],
         \A x \in issued : Stored(x) => storedAt'[x] = storedAt[x],
         pc[q] \in {"commit", "save"} =>
             /\ storedAt'[fresh[q]] = storedAt[fresh[q]]
             /\ pc[q] = "save" => lastUsed'[fresh[q]] = lastUsed[fresh[q]]
  PROVE  Remembers(q)'
<1>1. Remembers(q)
  BY DEF CredentialInv, RequestInv
<1>2. storedAt \in [Tokens -> Nat] /\ issued \subseteq Tokens
  BY DEF CredentialInv, TypeOK
<1>3. pc[q] \in {"exchange", "commit", "mark"} => Stored(seen[q].token)
  BY <1>1 DEF Remembers, Stored
<1> QED
  BY <1>1, <1>2, <1>3 DEF Remembers, Stored

\* A refresh exchange disturbs nobody's memory.
LEMMA ExchangeRemembers ==
  ASSUME CredentialInv, NEW r \in Requests, pc[r] = "exchange",
         NEW n \in Tokens, IssueFrom(seen[r].token, n),
         UNCHANGED storedAt,
         NEW q \in Requests,
         pc'[q] = pc[q], seen'[q] = seen[q], fresh'[q] = fresh[q]
  PROVE  Remembers(q)'
<1>1. /\ issued' = issued \cup {n} /\ n \notin issued
      /\ issued \subseteq Tokens
      /\ \A x \in issued : parent'[x] = parent[x]
      /\ seen[r].token \in issued /\ Stored(seen[r].token)
      /\ storedAt' = storedAt
  BY DEF CredentialInv, TypeOK, IssueFrom, RequestInv, Remembers, Stored
<1>2. family[seen[r].token] \in issued /\ Stored(family[seen[r].token])
  BY <1>1 DEF CredentialInv, IssuedInv
<1>3. \A x \in issued : ~Stored(x) => lastUsed'[x] = lastUsed[x]
  BY <1>1, <1>2 DEF IssueFrom, CredentialInv, TypeOK
<1>4. pc[q] \in {"commit", "save"} => fresh[q] \in issued /\ ~Stored(fresh[q])
  BY DEF CredentialInv, RequestInv, Remembers
<1> QED
  BY <1>1, <1>3, <1>4, OthersRemember

\* Every step preserves what each request remembers.
LEMMA StepRemembers ==
  ASSUME CredentialInv, [Next]_vars, NEW q \in Requests
  PROVE  Remembers(q)'
<1>0. /\ pc \in [Requests -> Steps]
      /\ seen \in [Requests -> Credential]
      /\ fresh \in [Requests -> MaybeToken]
      /\ Remembers(q)
  BY DEF CredentialInv, TypeOK, RequestInv
<1>a. ASSUME pc'[q] = pc[q], seen'[q] = seen[q], fresh'[q] = fresh[q],
             UNCHANGED teslaVars, UNCHANGED storedAt
      PROVE  Remembers(q)'
  BY <1>a, OthersRemember DEF teslaVars
<1>b. ASSUME pc'[q] \notin {"exchange", "commit", "mark", "save"}
      PROVE  Remembers(q)'
  BY <1>b DEF Remembers
<1>1. ASSUME NEW r \in Requests, NEW k \in Kinds, Begin(r, k)
       PROVE Remembers(q)'
  <2>1. CASE q # r
    BY <1>0, <1>a, <1>1, <2>1 DEF Begin, GetConnection, Become, Finish,
       RaiseReauthorization, historyVars
  <2>2. CASE q = r /\ pc'[q] # "exchange"
    BY <1>0, <1>b, <1>1, <2>2 DEF Begin, GetConnection, Become, Finish,
       RaiseReauthorization
  <2>3. CASE q = r /\ pc'[q] = "exchange"
    <3>1. seen'[q] = Current /\ status # "absent"
      BY <1>0, <1>1, <2>3 DEF Begin, GetConnection, Become, Finish,
         RaiseReauthorization, Statuses
    <3> QED
      BY <2>3, <3>1, <1>1 DEF Begin, Remembers, CredentialInv, ConnInv,
         TypeOK, Current, teslaVars, historyVars
  <2> QED
    BY <2>1, <2>2, <2>3
<1>2. ASSUME NEW r \in Requests, ForceRefresh(r)
       PROVE Remembers(q)'
  <2>1. CASE q # r
    BY <1>0, <1>a, <1>2, <2>1 DEF ForceRefresh, GetConnection, Become,
       Finish, RaiseReauthorization, historyVars
  <2>2. CASE q = r /\ pc'[q] # "exchange"
    BY <1>0, <1>b, <1>2, <2>2 DEF ForceRefresh, GetConnection, Become,
       Finish, RaiseReauthorization
  <2>3. CASE q = r /\ pc'[q] = "exchange"
    <3>1. seen'[q] = Current /\ status # "absent"
      BY <1>0, <1>2, <2>3 DEF ForceRefresh, GetConnection, Become, Finish,
         RaiseReauthorization, Statuses
    <3> QED
      BY <2>3, <3>1, <1>2 DEF ForceRefresh, Remembers, CredentialInv,
         ConnInv, TypeOK, Current, teslaVars, historyVars
  <2> QED
    BY <2>1, <2>2, <2>3
<1>3. ASSUME NEW r \in Requests, Exchange(r)
       PROVE Remembers(q)'
  <2>1. PICK n \in Tokens :
          /\ IssueFrom(seen[r].token, n)
          /\ Become(r, "commit", kind[r], forced[r], seen[r], n)
    BY <1>3 DEF Exchange
  <2>2. CASE q # r
    BY <1>0, <1>3, <2>1, <2>2, ExchangeRemembers DEF Exchange, Become,
       historyVars
  <2>3. CASE q = r
    <3>1. /\ pc'[r] = "commit" /\ seen'[r] = seen[r] /\ fresh'[r] = n
          /\ pc[r] = "exchange"
      BY <1>0, <1>3, <2>1 DEF Exchange, Become
    <3>2. /\ issued' = issued \cup {n} /\ n \notin issued
          /\ parent'[n] = seen[r].token
          /\ storedAt' = storedAt /\ storedAt[n] = 0
      BY <1>3, <2>1 DEF Exchange, IssueFrom, CredentialInv, IssuedInv,
         TypeOK, historyVars
    <3> QED
      BY <1>0, <2>3, <3>1, <3>2 DEF Remembers, Stored
  <2> QED
    BY <2>2, <2>3
<1>4. ASSUME NEW r \in Requests, ExchangeLost(r)
       PROVE Remembers(q)'
  <2>1. PICK n \in Tokens : IssueFrom(seen[r].token, n)
    BY <1>4 DEF ExchangeLost
  <2>2. CASE q # r
    BY <1>0, <1>4, <2>1, <2>2, ExchangeRemembers DEF ExchangeLost, Finish,
       Become, historyVars
  <2>3. CASE q = r
    BY <1>0, <1>b, <1>4, <2>3 DEF ExchangeLost, Finish, Become
  <2> QED
    BY <2>2, <2>3
<1>5. ASSUME NEW r \in Requests, ExchangeRefused(r)
       PROVE Remembers(q)'
  <2>1. CASE q # r
    BY <1>0, <1>a, <1>5, <2>1 DEF ExchangeRefused, Goto, Become, historyVars
  <2>2. CASE q = r
    BY <1>0, <1>5, <2>2 DEF ExchangeRefused, Goto, Become, Remembers,
       teslaVars, historyVars
  <2> QED
    BY <2>1, <2>2
<1>6. ASSUME NEW r \in Requests, Mark(r)
       PROVE Remembers(q)'
  <2>1. CASE q # r
    BY <1>0, <1>a, <1>6, <2>1 DEF Mark, Become, Finish, Goto,
       RaiseReauthorization, ProceedWith, historyVars, requestVars
  <2>2. CASE q = r
    BY <1>0, <1>b, <1>6, <2>2 DEF Mark, Become, Finish, Goto,
       RaiseReauthorization, ProceedWith, requestVars
  <2> QED
    BY <2>1, <2>2
<1>7. ASSUME NEW r \in Requests, MarkAfter(r)
       PROVE Remembers(q)'
  <2>1. CASE q # r
    BY <1>0, <1>a, <1>7, <2>1 DEF MarkAfter, Become, Finish, Goto,
       RaiseReauthorization, ProceedWith, historyVars, requestVars
  <2>2. CASE q = r
    BY <1>0, <1>b, <1>7, <2>2 DEF MarkAfter, Become, Finish, Goto,
       RaiseReauthorization, ProceedWith, requestVars
  <2> QED
    BY <2>1, <2>2
<1>8. ASSUME NEW r \in Requests, Commit(r)
       PROVE Remembers(q)'
  <2>1. fresh[r] \in Tokens /\ fresh[r] \in issued /\ ~Stored(fresh[r])
    BY <1>8 DEF Commit, CredentialInv, RequestInv, Remembers, ProgressInv
  <2>2. CASE q # r
    <3>1. pc[q] \in {"commit", "save"} => fresh[q] # fresh[r]
      BY <1>8, <2>2 DEF Commit, CredentialInv, RequestInv
    <3>2. \A x \in Tokens \ {fresh[r]} : storedAt'[x] = storedAt[x]
      BY <1>8 DEF Commit, RotateTokens, CredentialInv, TypeOK
    <3>3. pc[q] \in {"commit", "save"} => fresh[q] \in Tokens
      BY DEF CredentialInv, ProgressInv
    <3>4. pc'[q] = pc[q] /\ seen'[q] = seen[q] /\ fresh'[q] = fresh[q]
      BY <1>0, <1>8, <2>2 DEF Commit, ProceedWith, Finish, Become
    <3>5. issued' = issued /\ parent' = parent /\ lastUsed' = lastUsed
          /\ issued \subseteq Tokens
      BY <1>8 DEF Commit, teslaVars, CredentialInv, TypeOK
    <3> QED
      BY <2>1, <3>1, <3>2, <3>3, <3>4, <3>5, OthersRemember
  <2>3. CASE q = r
    BY <1>0, <1>b, <1>8, <2>3 DEF Commit, ProceedWith, Finish, Become
  <2> QED
    BY <2>2, <2>3
<1>9. ASSUME NEW r \in Requests, CommitLost(r)
       PROVE Remembers(q)'
  <2>1. CASE q # r
    BY <1>0, <1>a, <1>9, <2>1 DEF CommitLost, Become, Finish, Goto,
       RaiseReauthorization, ProceedWith, historyVars, requestVars
  <2>2. CASE q = r
    BY <1>0, <1>b, <1>9, <2>2 DEF CommitLost, Become, Finish, Goto,
       RaiseReauthorization, ProceedWith, requestVars
  <2> QED
    BY <2>1, <2>2
<1>10. ASSUME NEW r \in Requests, Reread(r)
       PROVE Remembers(q)'
  <2>1. CASE q # r
    BY <1>0, <1>a, <1>10, <2>1 DEF Reread, Become, Finish, Goto,
       RaiseReauthorization, ProceedWith, historyVars, requestVars
  <2>2. CASE q = r
    BY <1>0, <1>b, <1>10, <2>2 DEF Reread, Become, Finish, Goto,
       RaiseReauthorization, ProceedWith, requestVars
  <2> QED
    BY <2>1, <2>2
<1>11. ASSUME NEW r \in Requests, Call(r)
       PROVE Remembers(q)'
  <2>1. CASE q # r
    BY <1>0, <1>a, <1>11, <2>1 DEF Call, Become, Finish, Goto,
       RaiseReauthorization, ProceedWith, historyVars, requestVars
  <2>2. CASE q = r
    BY <1>0, <1>b, <1>11, <2>2 DEF Call, Become, Finish, Goto,
       RaiseReauthorization, ProceedWith, requestVars
  <2> QED
    BY <2>1, <2>2
<1>12. ASSUME NEW s \in States, Start(s) \/ Expire(s) \/ Decline(s)
       PROVE Remembers(q)'
  BY <1>a, <1>12 DEF Start, Expire, Decline, requestVars, historyVars
<1>13. ASSUME NEW r \in Requests, NEW s \in States, Consume(r, s)
       PROVE Remembers(q)'
  <2>1. CASE q # r
    BY <1>0, <1>a, <1>13, <2>1 DEF Consume, Goto, Become, requestVars,
       historyVars
  <2>2. CASE q = r
    BY <1>0, <1>b, <1>13, <2>2 DEF Consume, Goto, Become, requestVars
  <2> QED
    BY <2>1, <2>2
<1>14. ASSUME NEW r \in Requests, ExchangeCode(r)
       PROVE Remembers(q)'
  <2>1. PICK n \in Tokens :
          /\ IssueFirst(n)
          /\ Become(r, "save", kind[r], FALSE, Nothing, n)
    BY <1>14 DEF ExchangeCode
  <2>2. /\ issued' = issued \cup {n} /\ n \in Tokens \ issued
        /\ parent' = parent /\ lastUsed' = lastUsed /\ storedAt' = storedAt
    BY <1>14, <2>1 DEF ExchangeCode, IssueFirst
  <2>3. CASE q # r
    BY <1>0, <1>14, <2>1, <2>2, <2>3, OthersRemember DEF Become
  <2>4. CASE q = r
    <3>1. pc'[r] = "save" /\ fresh'[r] = n
      BY <1>0, <2>1 DEF Become
    <3>2. storedAt[n] = 0 /\ parent[n] = None /\ lastUsed[n] = None
      BY <2>2 DEF CredentialInv, IssuedInv
    <3> QED
      BY <2>2, <2>4, <3>1, <3>2 DEF Remembers, Stored
  <2> QED
    BY <2>3, <2>4
<1>15. ASSUME NEW r \in Requests, Save(r)
       PROVE Remembers(q)'
  <2>1. fresh[r] \in Tokens /\ fresh[r] \in issued /\ ~Stored(fresh[r])
    BY <1>15 DEF Save, CredentialInv, RequestInv, Remembers, ProgressInv
  <2>2. CASE q # r
    <3>1. pc[q] \in {"commit", "save"} => fresh[q] # fresh[r]
      BY <1>15, <2>2 DEF Save, CredentialInv, RequestInv
    <3>2. \A x \in Tokens \ {fresh[r]} : storedAt'[x] = storedAt[x]
      BY <1>15 DEF Save, SaveConnection, CredentialInv, TypeOK
    <3>3. pc[q] \in {"commit", "save"} => fresh[q] \in Tokens
      BY DEF CredentialInv, ProgressInv
    <3>4. pc'[q] = pc[q] /\ seen'[q] = seen[q] /\ fresh'[q] = fresh[q]
      BY <1>0, <1>15, <2>2 DEF Save, Goto, Become
    <3>5. issued' = issued /\ parent' = parent /\ lastUsed' = lastUsed
          /\ issued \subseteq Tokens
      BY <1>15 DEF Save, teslaVars, CredentialInv, TypeOK
    <3> QED
      BY <2>1, <3>1, <3>2, <3>3, <3>4, <3>5, OthersRemember
  <2>3. CASE q = r
    BY <1>0, <1>b, <1>15, <2>3 DEF Save, Goto, Become
  <2> QED
    BY <2>2, <2>3
<1>16. ASSUME NEW r \in Requests, Complete(r)
       PROVE Remembers(q)'
  <2>1. CASE q # r
    BY <1>0, <1>a, <1>16, <2>1 DEF Complete, Become, Finish, Goto,
       RaiseReauthorization, ProceedWith, historyVars, requestVars
  <2>2. CASE q = r
    BY <1>0, <1>b, <1>16, <2>2 DEF Complete, Become, Finish, Goto,
       RaiseReauthorization, ProceedWith, requestVars
  <2> QED
    BY <2>1, <2>2
<1>17. ASSUME NEW r \in Requests, Abort(r)
       PROVE Remembers(q)'
  <2>1. CASE q # r
    BY <1>0, <1>a, <1>17, <2>1 DEF Abort, Become, Finish, Goto,
       RaiseReauthorization, ProceedWith, historyVars, requestVars
  <2>2. CASE q = r
    BY <1>0, <1>b, <1>17, <2>2 DEF Abort, Become, Finish, Goto,
       RaiseReauthorization, ProceedWith, requestVars
  <2> QED
    BY <2>1, <2>2
<1>18. ASSUME NEW t \in Tokens, Revoke(t)
       PROVE Remembers(q)'
  BY <1>18, OthersRemember DEF Revoke, requestVars, historyVars
<1>19. CASE UNCHANGED vars
  BY <1>19, <1>a DEF vars, requestVars, historyVars
<1> QED
  BY <1>1, <1>2, <1>3, <1>4, <1>5, <1>6, <1>7, <1>8, <1>9, <1>10, <1>11,
     <1>12, <1>13, <1>14, <1>15, <1>16, <1>17, <1>18, <1>19,
     CallbacksAssumption DEF Next, Access, Callback

\* Every step preserves that no two requests are about to store the same
\* token set: what one of them holds was issued to it alone.
LEMMA StepDistinct ==
  ASSUME CredentialInv, [Next]_vars, NEW p \in Requests, NEW q \in Requests,
         pc'[p] \in {"commit", "save"}, pc'[q] \in {"commit", "save"},
         fresh'[p] = fresh'[q]
  PROVE  p = q
<1> DEFINE Held(r) == pc[r] \in {"commit", "save"}
           HeldNext(r) == pc'[r] \in {"commit", "save"}
           Same(r) == Held(r) /\ fresh'[r] = fresh[r]
           New(r) == /\ fresh'[r] \in Tokens \ issued
                     /\ \A s \in Requests \ {r} : HeldNext(s) => Same(s)
<1>1. \A r \in Requests : HeldNext(r) => Same(r) \/ New(r)
  <2> USE DEF Become, Finish, Goto, RaiseReauthorization, ProceedWith
  <2> SUFFICES ASSUME NEW s \in Requests, HeldNext(s)
               PROVE  Same(s) \/ New(s)
    OBVIOUS
  <2>0. pc \in [Requests -> Steps] /\ fresh \in [Requests -> MaybeToken]
    BY DEF CredentialInv, TypeOK
  <2>1. ASSUME NEW r \in Requests, NEW k \in Kinds, Begin(r, k)
         PROVE Same(s) \/ New(s)
    BY <2>0, <2>1 DEF Begin, GetConnection
  <2>2. ASSUME NEW r \in Requests, ForceRefresh(r)
         PROVE Same(s) \/ New(s)
    BY <2>0, <2>2 DEF ForceRefresh, GetConnection
  <2>3. ASSUME NEW r \in Requests, Exchange(r)
         PROVE Same(s) \/ New(s)
    BY <2>0, <2>3 DEF Exchange, IssueFrom
  <2>4. ASSUME NEW r \in Requests, ExchangeLost(r)
         PROVE Same(s) \/ New(s)
    BY <2>0, <2>4 DEF ExchangeLost
  <2>5. ASSUME NEW r \in Requests, ExchangeRefused(r)
         PROVE Same(s) \/ New(s)
    BY <2>0, <2>5 DEF ExchangeRefused
  <2>6. ASSUME NEW r \in Requests, Mark(r)
         PROVE Same(s) \/ New(s)
    BY <2>0, <2>6 DEF Mark
  <2>7. ASSUME NEW r \in Requests, MarkAfter(r)
         PROVE Same(s) \/ New(s)
    BY <2>0, <2>7 DEF MarkAfter
  <2>8. ASSUME NEW r \in Requests, Commit(r)
         PROVE Same(s) \/ New(s)
    BY <2>0, <2>8 DEF Commit
  <2>9. ASSUME NEW r \in Requests, CommitLost(r)
         PROVE Same(s) \/ New(s)
    BY <2>0, <2>9 DEF CommitLost
  <2>10. ASSUME NEW r \in Requests, Reread(r)
         PROVE Same(s) \/ New(s)
    BY <2>0, <2>10 DEF Reread
  <2>11. ASSUME NEW r \in Requests, Call(r)
         PROVE Same(s) \/ New(s)
    BY <2>0, <2>11 DEF Call
  <2>12. ASSUME NEW t \in States, Start(t) \/ Expire(t) \/ Decline(t)
         PROVE Same(s) \/ New(s)
    BY <2>0, <2>12 DEF Start, Expire, Decline, requestVars
  <2>13. ASSUME NEW r \in Requests, NEW t \in States, Consume(r, t)
         PROVE Same(s) \/ New(s)
    BY <2>0, <2>13 DEF Consume, requestVars
  <2>14. ASSUME NEW r \in Requests, ExchangeCode(r)
         PROVE Same(s) \/ New(s)
    BY <2>0, <2>14 DEF ExchangeCode, IssueFirst
  <2>15. ASSUME NEW r \in Requests, Save(r)
         PROVE Same(s) \/ New(s)
    BY <2>0, <2>15 DEF Save
  <2>16. ASSUME NEW r \in Requests, Complete(r)
         PROVE Same(s) \/ New(s)
    BY <2>0, <2>16 DEF Complete
  <2>17. ASSUME NEW r \in Requests, Abort(r)
         PROVE Same(s) \/ New(s)
    BY <2>0, <2>17 DEF Abort
  <2>18. ASSUME NEW t \in Tokens, Revoke(t)
         PROVE Same(s) \/ New(s)
    BY <2>0, <2>18 DEF Revoke, requestVars
  <2>19. CASE UNCHANGED vars
    BY <2>19 DEF vars, requestVars
  <2> QED
    BY <2>1, <2>2, <2>3, <2>4, <2>5, <2>6, <2>7, <2>8, <2>9, <2>10, <2>11,
       <2>12, <2>13, <2>14, <2>15, <2>16, <2>17, <2>18, <2>19,
       CallbacksAssumption DEF Next, Access, Callback
<1>2. \A r \in Requests : Held(r) => fresh[r] \in issued
  BY DEF CredentialInv, RequestInv, Remembers
<1>3. Same(p) /\ Same(q) => p = q
  BY DEF CredentialInv, RequestInv
<1> QED
  BY <1>1, <1>2, <1>3

\* Every step preserves that only superseded credentials are refused.
LEMMA StepRefusal ==
  CredentialInv /\ [Next]_vars => RefusalMeansSuperseded'
<1> SUFFICES ASSUME CredentialInv, [Next]_vars,
                    NEW q \in Requests, pc'[q] = "mark",
                    family'[seen'[q].token] \notin revoked'
             PROVE  seen'[q].version < token_version'
  BY DEF RefusalMeansSuperseded
<1>0. /\ pc \in [Requests -> Steps]
      /\ seen \in [Requests -> Credential]
      /\ token_version \in Nat
      /\ seen[q].version \in Nat
      /\ issued \subseteq Tokens
      /\ storedAt \in [Tokens -> Nat]
      /\ family \in [Tokens -> MaybeToken]
  BY DEF CredentialInv, TypeOK, Credential
<1>m. pc[q] = "mark" =>
        /\ seen[q].token \in issued
        /\ family[seen[q].token] \notin revoked => seen[q].version < token_version
  BY DEF CredentialInv, RequestInv, Remembers, RefusalMeansSuperseded
<1> USE DEF Become, Finish, Goto, RaiseReauthorization, ProceedWith
<1>a. ASSUME pc[q] = "mark", seen'[q] = seen[q], token_version' >= token_version,
             family'[seen[q].token] = family[seen[q].token],
             revoked \subseteq revoked', token_version' \in Nat
      PROVE  seen'[q].version < token_version'
  BY <1>0, <1>m, <1>a
<1>1. ASSUME NEW r \in Requests, NEW k \in Kinds, Begin(r, k)
      PROVE  seen'[q].version < token_version'
  BY <1>0, <1>a, <1>1 DEF Begin, GetConnection, connVars, teslaVars
<1>2. ASSUME NEW r \in Requests, ForceRefresh(r)
      PROVE  seen'[q].version < token_version'
  BY <1>0, <1>a, <1>2 DEF ForceRefresh, GetConnection, connVars, teslaVars
<1>3. ASSUME NEW r \in Requests, Exchange(r)
      PROVE  seen'[q].version < token_version'
  <2>1. pc[q] = "mark" /\ seen'[q] = seen[q]
    BY <1>0, <1>3 DEF Exchange
  <2>2. PICK n \in Tokens : IssueFrom(seen[r].token, n)
    BY <1>3 DEF Exchange
  <2>3. family'[seen[q].token] = family[seen[q].token] /\ revoked' = revoked
    BY <1>0, <1>m, <2>1, <2>2 DEF IssueFrom
  <2> QED
    BY <1>0, <1>a, <2>1, <2>3, <1>3 DEF Exchange, connVars
<1>4. ASSUME NEW r \in Requests, ExchangeLost(r)
      PROVE  seen'[q].version < token_version'
  <2>1. pc[q] = "mark" /\ seen'[q] = seen[q]
    BY <1>0, <1>4 DEF ExchangeLost
  <2>2. PICK n \in Tokens : IssueFrom(seen[r].token, n)
    BY <1>4 DEF ExchangeLost
  <2>3. family'[seen[q].token] = family[seen[q].token] /\ revoked' = revoked
    BY <1>0, <1>m, <2>1, <2>2 DEF IssueFrom
  <2> QED
    BY <1>0, <1>a, <2>1, <2>3, <1>4 DEF ExchangeLost, connVars
<1>5. ASSUME NEW r \in Requests, ExchangeRefused(r)
      PROVE  seen'[q].version < token_version'
  <2>1. CASE q # r
    BY <1>0, <1>a, <1>5, <2>1 DEF ExchangeRefused, connVars, teslaVars
  <2>2. CASE q = r
    <3>1. /\ seen'[q] = seen[q] /\ token_version' = token_version
          /\ family' = family /\ revoked' = revoked
          /\ ~Live(seen[q].token) /\ pc[q] = "exchange"
      BY <1>0, <1>5, <2>2 DEF ExchangeRefused, connVars, teslaVars
    <3>2. /\ seen[q].token \in issued /\ seen[q].version > 0
          /\ storedAt[seen[q].token] = seen[q].version
          /\ status # "absent"
      BY <3>1 DEF CredentialInv, RequestInv, Remembers, ProgressInv
    <3>3. lastUsed[family[seen[q].token]]
            \notin {seen[q].token, parent[seen[q].token]}
      BY <3>1, <3>2 DEF Live
    <3>4. /\ lastUsed[family[token]] \in {token, parent[token]}
          /\ storedAt[token] = token_version /\ token \in issued
      BY <3>2 DEF CredentialInv, ConnInv
    <3>5. seen[q].version <= token_version
      BY <1>0, <3>2 DEF CredentialInv, VersionInv
    <3>6. seen[q].version # token_version
      BY <1>0, <3>2, <3>3, <3>4 DEF CredentialInv, VersionInv, Stored
    <3> QED
      BY <1>0, <3>1, <3>5, <3>6
  <2> QED
    BY <2>1, <2>2
<1>6. ASSUME NEW r \in Requests, Mark(r)
      PROVE  seen'[q].version < token_version'
  BY <1>0, <1>a, <1>6 DEF Mark, MarkReauthorizationRequired, connVars,
     teslaVars
<1>7. ASSUME NEW r \in Requests, MarkAfter(r)
      PROVE  seen'[q].version < token_version'
  BY <1>0, <1>a, <1>7 DEF MarkAfter, MarkReauthorizationRequired, connVars,
     teslaVars
<1>8. ASSUME NEW r \in Requests, Commit(r)
      PROVE  seen'[q].version < token_version'
  BY <1>0, <1>a, <1>8 DEF Commit, RotateTokens, VersionMatches, connVars,
     teslaVars
<1>9. ASSUME NEW r \in Requests, CommitLost(r)
      PROVE  seen'[q].version < token_version'
  BY <1>0, <1>a, <1>9 DEF CommitLost, connVars, teslaVars
<1>10. ASSUME NEW r \in Requests, Reread(r)
      PROVE  seen'[q].version < token_version'
  BY <1>0, <1>a, <1>10 DEF Reread, connVars, teslaVars
<1>11. ASSUME NEW r \in Requests, Call(r)
      PROVE  seen'[q].version < token_version'
  BY <1>0, <1>a, <1>11 DEF Call, connVars, teslaVars
<1>12. ASSUME NEW s \in States, Start(s) \/ Expire(s) \/ Decline(s)
      PROVE  seen'[q].version < token_version'
  BY <1>0, <1>a, <1>12 DEF Start, Expire, Decline, requestVars, connVars,
     teslaVars
<1>13. ASSUME NEW r \in Requests, NEW s \in States, Consume(r, s)
      PROVE  seen'[q].version < token_version'
  BY <1>0, <1>a, <1>13 DEF Consume, requestVars, connVars, teslaVars
<1>14. ASSUME NEW r \in Requests, ExchangeCode(r)
      PROVE  seen'[q].version < token_version'
  <2>1. pc[q] = "mark" /\ seen'[q] = seen[q]
    BY <1>0, <1>14 DEF ExchangeCode
  <2>2. PICK n \in Tokens : IssueFirst(n)
    BY <1>14 DEF ExchangeCode
  <2>3. family'[seen[q].token] = family[seen[q].token] /\ revoked' = revoked
    BY <1>0, <1>m, <2>1, <2>2 DEF IssueFirst
  <2> QED
    BY <1>0, <1>a, <2>1, <2>3, <1>14 DEF ExchangeCode, connVars
<1>15. ASSUME NEW r \in Requests, Save(r)
      PROVE  seen'[q].version < token_version'
  <2>1. NextVersion = token_version + 1
    BY DEF CredentialInv, ConnInv, NextVersion, FirstVersion
  <2> QED
    BY <1>0, <1>a, <2>1, <1>15 DEF Save, SaveConnection, teslaVars
<1>16. ASSUME NEW r \in Requests, Complete(r)
      PROVE  seen'[q].version < token_version'
  BY <1>0, <1>a, <1>16 DEF Complete, CompleteConnection, connVars, teslaVars
<1>17. ASSUME NEW r \in Requests, Abort(r)
      PROVE  seen'[q].version < token_version'
  BY <1>0, <1>a, <1>17 DEF Abort, connVars, teslaVars
<1>18. ASSUME NEW t \in Tokens, Revoke(t)
      PROVE  seen'[q].version < token_version'
  BY <1>0, <1>a, <1>18 DEF Revoke, requestVars, connVars, teslaVars
<1>19. CASE UNCHANGED vars
  BY <1>0, <1>a, <1>19 DEF vars, connVars, teslaVars, requestVars
<1> QED
  BY <1>1, <1>2, <1>3, <1>4, <1>5, <1>6, <1>7, <1>8, <1>9, <1>10, <1>11,
     <1>12, <1>13, <1>14, <1>15, <1>16, <1>17, <1>18, <1>19,
     CallbacksAssumption DEF Next, Access, Callback

\* Every step preserves the inductive invariant.
LEMMA StepCredential == CredentialInv /\ [Next]_vars => CredentialInv'
<1> SUFFICES ASSUME CredentialInv, [Next]_vars PROVE CredentialInv'
  OBVIOUS
<1>1. TypeOK' /\ ProgressInv'
  BY StepType, StepProgress DEF CredentialInv
<1>2. IssuedInv' /\ VersionInv' /\ ConnInv'
  BY StepChain
<1>3. RequestInv'
  <2>1. \A q \in Requests : Remembers(q)'
    BY StepRemembers
  <2> QED
    BY <2>1, StepDistinct DEF RequestInv
<1>4. RefusalMeansSuperseded'
  BY StepRefusal
<1> QED
  BY <1>1, <1>2, <1>3, <1>4 DEF CredentialInv

\* The credential chain holds in every reachable state, for any number of
\* requests, callbacks, token sets and OAuth states.
THEOREM CredentialChain == Spec => []CredentialInv
  BY InitCredential, StepCredential, PTL DEF Spec

\* No interleaving, lost answer or abandoned request makes the stored refresh
\* token one that Tesla refuses while its grant lives.
THEOREM StoredTokenIsUsable == Spec => []StoredTokenUsable
<1>1. CredentialInv => StoredTokenUsable
  BY DEF CredentialInv, ConnInv, StoredTokenUsable, Live
<1> QED
  BY <1>1, CredentialChain, PTL

\* Tesla refuses a refresh with login_required only after the credential was
\* superseded or its grant ended.
THEOREM OnlySupersededRefused == Spec => []RefusalMeansSuperseded
<1>1. CredentialInv => RefusalMeansSuperseded
  BY DEF CredentialInv
<1> QED
  BY <1>1, CredentialChain, PTL

\* A step that stores no token set leaves the history alone, also when Tesla
\* issues one: what it issues was not stored before.
LEMMA HistoryKept ==
  ASSUME CredentialInv, UNCHANGED <<token, token_version, storedAt>>,
         \/ parent' = parent
         \/ \E t \in Tokens, n \in Tokens \ issued :
              parent' = [parent EXCEPT ![n] = t]
  PROVE  UNCHANGED <<token_version, token, storedAt, Replaced>>
<1>1. ASSUME NEW t \in Tokens, storedAt[t] > 0
      PROVE  parent'[t] = parent[t]
  <2>1. t \in issued /\ parent \in [Tokens -> MaybeToken]
    BY <1>1 DEF CredentialInv, IssuedInv, TypeOK
  <2> QED
    BY <2>1
<1> QED
  BY <1>1 DEF Replaced

\* A rotation continues the history with a token set obtained with the last.
LEMMA CommitRotates ==
  ASSUME CredentialInv, NEW r \in Requests, Commit(r)
  PROVE  History!Rotate(fresh[r])
<1>1. /\ token_version' = token_version + 1
      /\ token' = fresh[r]
      /\ storedAt' = [storedAt EXCEPT ![fresh[r]] = token_version + 1]
      /\ parent' = parent
  BY DEF Commit, RotateTokens, VersionMatches, teslaVars
<1>2. /\ status # "absent"
      /\ fresh[r] \in Tokens
      /\ storedAt \in [Tokens -> Nat] /\ storedAt[fresh[r]] = 0
      /\ token_version \in Nat /\ token_version > 0
      /\ parent[fresh[r]] = token
  BY CommitParent DEF Commit, CredentialInv, TypeOK, Stored
<1>3. Replaced' = [Replaced EXCEPT ![fresh[r]] = token]
  <2>1. storedAt'[fresh[r]] > 0
    BY <1>1, <1>2
  <2>2. \A t \in Tokens \ {fresh[r]} : storedAt'[t] = storedAt[t]
    BY <1>1, <1>2
  <2>3. Replaced' = [t \in Tokens |->
                       IF storedAt'[t] > 0 THEN parent[t] ELSE None]
    BY <1>1 DEF Replaced
  <2>4. Replaced' = [t \in Tokens |->
                       IF t = fresh[r] THEN token ELSE Replaced[t]]
    BY <1>2, <2>1, <2>2, <2>3 DEF Replaced
  <2> QED
    BY <2>4 DEF Replaced
<1> QED
  BY <1>1, <1>2, <1>3 DEF History!Rotate, History!Store

\* A reconnect continues it with the first token set of a new grant.
LEMMA SaveConnects ==
  ASSUME CredentialInv, NEW r \in Requests, Save(r)
  PROVE  History!Connect(fresh[r])
<1>1. NextVersion = token_version + 1
  BY DEF CredentialInv, ConnInv, NextVersion, FirstVersion
<1>2. /\ token_version' = token_version + 1
      /\ token' = fresh[r]
      /\ storedAt' = [storedAt EXCEPT ![fresh[r]] = token_version + 1]
      /\ parent' = parent
  BY <1>1 DEF Save, SaveConnection, teslaVars
<1>3. /\ fresh[r] \in Tokens
      /\ storedAt \in [Tokens -> Nat] /\ storedAt[fresh[r]] = 0
      /\ parent[fresh[r]] = None
  BY DEF Save, CredentialInv, RequestInv, Remembers, TypeOK, Stored
<1>4. Replaced' = Replaced
  BY <1>2, <1>3 DEF Replaced
<1> QED
  BY <1>2, <1>3, <1>4 DEF History!Connect, History!Store

\* Every step continues the history or leaves it alone.
LEMMA StepHistory ==
  ASSUME CredentialInv, [Next]_vars
  PROVE  \/ History!Next
         \/ UNCHANGED <<token_version, token, storedAt, Replaced>>
<1> DEFINE Kept == UNCHANGED <<token_version, token, storedAt, Replaced>>
<1> HIDE DEF Kept
<1>1. ASSUME NEW r \in Requests, Commit(r) PROVE History!Next
  <2>1. fresh[r] \in Tokens
    BY <1>1 DEF Commit, CredentialInv, ProgressInv
  <2> QED
    BY <1>1, <2>1, CommitRotates DEF History!Next
<1>2. ASSUME NEW r \in Requests, Save(r) PROVE History!Next
  <2>1. fresh[r] \in Tokens
    BY <1>2 DEF Save, CredentialInv, ProgressInv
  <2> QED
    BY <1>2, <2>1, SaveConnects DEF History!Next
<1>3. ASSUME NEW r \in Requests, Exchange(r) \/ ExchangeLost(r) PROVE Kept
  <2>1. PICK n \in Tokens : IssueFrom(seen[r].token, n)
    BY <1>3 DEF Exchange, ExchangeLost
  <2>2. seen[r].token \in Tokens
    BY <2>1 DEF IssueFrom, Live, CredentialInv, TypeOK
  <2>3. UNCHANGED <<token, token_version, storedAt>>
    BY <1>3 DEF Exchange, ExchangeLost, connVars, historyVars
  <2>4. n \in Tokens \ issued
        /\ parent' = [parent EXCEPT ![n] = seen[r].token]
    BY <2>1 DEF IssueFrom
  <2> QED
    BY <2>2, <2>3, <2>4, HistoryKept DEF Kept
<1>4. ASSUME NEW r \in Requests, ExchangeCode(r) PROVE Kept
  <2>1. parent' = parent /\ UNCHANGED <<token, token_version, storedAt>>
    BY <1>4 DEF ExchangeCode, IssueFirst, connVars
  <2> QED
    BY <2>1, HistoryKept DEF Kept
<1>5. ASSUME NEW r \in Requests,
             \/ \E k \in Kinds : Begin(r, k)
             \/ ForceRefresh(r) \/ ExchangeRefused(r) \/ Mark(r)
             \/ MarkAfter(r) \/ CommitLost(r) \/ Reread(r) \/ Call(r)
             \/ Abort(r) \/ Complete(r)
             \/ \E s \in States : Consume(r, s)
      PROVE  Kept
  <2>1. parent' = parent /\ UNCHANGED <<token, token_version, storedAt>>
    BY <1>5 DEF Begin, ForceRefresh, ExchangeRefused, Mark, MarkAfter,
       CommitLost, Reread, Call, Abort, Complete, Consume,
       MarkReauthorizationRequired, CompleteConnection, connVars, teslaVars,
       historyVars
  <2> QED
    BY <2>1, HistoryKept DEF Kept
<1>6. ASSUME \/ \E s \in States : Start(s) \/ Expire(s) \/ Decline(s)
             \/ \E t \in Tokens : Revoke(t)
             \/ UNCHANGED vars
      PROVE  Kept
  <2>1. parent' = parent /\ UNCHANGED <<token, token_version, storedAt>>
    BY <1>6 DEF Start, Expire, Decline, Revoke, vars, connVars, teslaVars,
       historyVars
  <2> QED
    BY <2>1, HistoryKept DEF Kept
<1>7. History!Next \/ Kept
  BY <1>1, <1>2, <1>3, <1>4, <1>5, <1>6, CallbacksAssumption
  DEF Next, Access, Callback
<1> QED
  BY <1>7 DEF Kept

\* The stored credentials implement the abstract history: whatever requests
\* overlap, fail or lose answers, versions are given out once and in order,
\* and each token set replaces the one it was refreshed with or opens a grant.
THEOREM ImplementsHistory == Spec => HistorySpec
<1>1. Init => History!Init
  BY DEF Init, History!Init, Replaced
<1> QED
  BY <1>1, CredentialChain, StepHistory, PTL
  DEF Spec, HistorySpec, History!Spec

(***************************************************************************)
(* OAuth states.                                                           *)
(***************************************************************************)

\* A state whose redirect is being served is used up, has no grant yet, and
\* belongs to one request; a state with a grant is used up.
CodeFacts(r) ==
    pc[r] = "code" =>
      /\ stateOf[r] \in States
      /\ oauthState[stateOf[r]] = "used"
      /\ grantOf[stateOf[r]] = None

RedeemInv ==
    /\ \A r \in Requests : CodeFacts(r)
    /\ \A r, q \in Requests :
         pc[r] = "code" /\ pc[q] = "code" /\ stateOf[r] = stateOf[q] => r = q
    /\ \A s \in States : grantOf[s] # None => oauthState[s] = "used"

\* The three ways in which a step can bear on OAuth states.
Redeems(r, s) ==
    /\ oauthState[s] = "pending"
    /\ oauthState' = [oauthState EXCEPT ![s] = "used"]
    /\ stateOf' = [stateOf EXCEPT ![r] = s]
    /\ grantOf' = grantOf
    /\ \A q \in Requests \ {r} : pc'[q] = pc[q]

Grants(r) ==
    /\ pc[r] = "code" /\ pc'[r] = "save"
    /\ oauthState' = oauthState
    /\ \E n \in Tokens : grantOf' = [grantOf EXCEPT ![stateOf[r]] = n]
    /\ \A q \in Requests \ {r} : pc'[q] = pc[q] /\ stateOf'[q] = stateOf[q]

Ignores ==
    /\ grantOf' = grantOf
    /\ \A s \in States : oauthState[s] = "used" => oauthState'[s] = "used"
    /\ \A q \in Requests : pc'[q] = "code" =>
         pc[q] = "code" /\ stateOf'[q] = stateOf[q]

\* A step takes a state, gives one its grant, or ignores OAuth states.
LEMMA RedeemSteps ==
  ASSUME TypeOK, [Next]_vars
  PROVE  \/ \E r \in Requests, s \in States : Redeems(r, s)
         \/ \E r \in Requests : Grants(r)
         \/ Ignores
<1>0. /\ pc \in [Requests -> Steps]
      /\ stateOf \in [Requests -> States \cup {None}]
      /\ oauthState \in [States -> {"none", "pending", "expired", "used"}]
  BY DEF TypeOK
<1> USE DEF Become, Finish, Goto, RaiseReauthorization, ProceedWith
<1>1. ASSUME NEW r \in Requests, NEW k \in Kinds, Begin(r, k)
      PROVE  Ignores
  BY <1>0, <1>1 DEF Ignores, Begin, GetConnection, historyVars
<1>2. ASSUME NEW r \in Requests, ForceRefresh(r)
      PROVE  Ignores
  BY <1>0, <1>2 DEF Ignores, ForceRefresh, GetConnection, historyVars
<1>3. ASSUME NEW r \in Requests, Exchange(r) \/ ExchangeLost(r) \/ ExchangeRefused(r)
      PROVE  Ignores
  BY <1>0, <1>3
  DEF Ignores, Exchange, ExchangeLost, ExchangeRefused, historyVars
<1>4. ASSUME NEW r \in Requests, Mark(r) \/ MarkAfter(r)
      PROVE  Ignores
  BY <1>0, <1>4 DEF Ignores, Mark, MarkAfter, historyVars
<1>5. ASSUME NEW r \in Requests, Commit(r) \/ CommitLost(r) \/ Reread(r)
      PROVE  Ignores
  BY <1>0, <1>5 DEF Ignores, Commit, CommitLost, Reread, historyVars
<1>6. ASSUME NEW r \in Requests, Call(r)
      PROVE  Ignores
  BY <1>0, <1>6 DEF Ignores, Call, historyVars
<1>7. ASSUME NEW s \in States, Start(s) \/ Expire(s) \/ Decline(s)
      PROVE  Ignores
  BY <1>0, <1>7
  DEF Ignores, Start, Expire, Decline, ConsumeState, requestVars, historyVars
<1>8. ASSUME NEW r \in Requests, NEW s \in States, Consume(r, s)
      PROVE  Redeems(r, s) \/ Ignores
  BY <1>0, <1>8
  DEF Redeems, Ignores, Consume, ConsumeState, requestVars, historyVars
<1>9. ASSUME NEW r \in Requests, ExchangeCode(r)
      PROVE  Grants(r)
  BY <1>0, <1>9 DEF Grants, ExchangeCode
<1>10. ASSUME NEW r \in Requests, Save(r) \/ Complete(r)
      PROVE  Ignores
  BY <1>0, <1>10 DEF Ignores, Save, Complete, historyVars
<1>11. ASSUME NEW r \in Requests, Abort(r)
      PROVE  Ignores
  BY <1>0, <1>11 DEF Ignores, Abort, historyVars
<1>12. ASSUME NEW t \in Tokens, Revoke(t)
      PROVE  Ignores
  BY <1>12 DEF Ignores, Revoke, requestVars, historyVars
<1>13. CASE UNCHANGED vars
  BY <1>13 DEF Ignores, vars, requestVars, historyVars
<1> QED
  BY <1>1, <1>2, <1>3, <1>4, <1>5, <1>6, <1>7, <1>8, <1>9, <1>10, <1>11,
     <1>12, <1>13, CallbacksAssumption DEF Next, Access, Callback

\* Every step keeps a state with one request and one grant.
LEMMA StepRedeem == TypeOK /\ RedeemInv /\ [Next]_vars => RedeemInv'
<1> SUFFICES ASSUME TypeOK, RedeemInv, [Next]_vars PROVE RedeemInv'
  OBVIOUS
<1>0. /\ pc \in [Requests -> Steps]
      /\ stateOf \in [Requests -> States \cup {None}]
      /\ oauthState \in [States -> {"none", "pending", "expired", "used"}]
      /\ grantOf \in [States -> MaybeToken]
  BY DEF TypeOK
<1>1. ASSUME NEW r \in Requests, NEW s \in States, Redeems(r, s)
      PROVE  RedeemInv'
  <2>1. stateOf'[r] = s /\ oauthState'[s] = "used" /\ grantOf[s] = None
    BY <1>0, <1>1 DEF Redeems, RedeemInv
  <2>2. \A q \in Requests \ {r} : pc'[q] = "code" =>
          /\ pc[q] = "code" /\ stateOf'[q] = stateOf[q] /\ stateOf[q] # s
          /\ oauthState'[stateOf[q]] = "used"
    BY <1>0, <1>1 DEF Redeems, RedeemInv, CodeFacts
  <2>3. \A q \in Requests : CodeFacts(q)'
    BY <1>1, <2>1, <2>2 DEF Redeems, RedeemInv, CodeFacts
  <2>4. \A p, q \in Requests :
          pc'[p] = "code" /\ pc'[q] = "code" /\ stateOf'[p] = stateOf'[q] => p = q
    BY <2>1, <2>2 DEF RedeemInv
  <2>5. \A u \in States : grantOf'[u] # None => oauthState'[u] = "used"
    BY <1>0, <1>1 DEF Redeems, RedeemInv
  <2> QED
    BY <2>3, <2>4, <2>5 DEF RedeemInv
<1>2. ASSUME NEW r \in Requests, Grants(r)
      PROVE  RedeemInv'
  <2>1. PICK n \in Tokens : grantOf' = [grantOf EXCEPT ![stateOf[r]] = n]
    BY <1>2 DEF Grants
  <2>2. \A q \in Requests : pc'[q] = "code" =>
          /\ pc[q] = "code" /\ stateOf'[q] = stateOf[q]
          /\ stateOf[q] # stateOf[r]
    BY <1>2 DEF Grants, RedeemInv
  <2>3. \A q \in Requests : CodeFacts(q)'
    BY <1>0, <1>2, <2>1, <2>2 DEF Grants, RedeemInv, CodeFacts
  <2>4. \A u \in States : grantOf'[u] # None => oauthState'[u] = "used"
    BY <1>0, <1>2, <2>1 DEF Grants, RedeemInv, CodeFacts
  <2> QED
    BY <2>2, <2>3, <2>4 DEF RedeemInv
<1>3. CASE Ignores
  BY <1>3 DEF Ignores, RedeemInv, CodeFacts
<1> QED
  BY <1>1, <1>2, <1>3, RedeemSteps

\* A state is redeemed for one grant: _consume_state marks it used in the
\* transaction that reads it, and only then is the code exchanged.
THEOREM RedeemedOnce == Spec => StateRedeemedOnce
<1>1. Init => RedeemInv
  BY DEF Init, RedeemInv, CodeFacts
<1>2. Spec => []RedeemInv
  BY <1>1, StepRedeem, TypeCorrect, PTL DEF Spec
<1>3. ASSUME TypeOK, RedeemInv, [Next]_vars
      PROVE  [\A s \in States : grantOf[s] # None => grantOf'[s] = grantOf[s]]_vars
  <2>1. ASSUME NEW r \in Requests, Grants(r),
               NEW s \in States, grantOf[s] # None
        PROVE  grantOf'[s] = grantOf[s]
    BY <1>3, <2>1 DEF TypeOK, Grants, RedeemInv, CodeFacts
  <2> QED
    BY <1>3, <2>1, RedeemSteps DEF Redeems, Ignores
<1> QED
  BY <1>2, <1>3, TypeCorrect, PTL DEF Spec, StateRedeemedOnce

(***************************************************************************)
(* Regions.                                                                *)
(***************************************************************************)

\* What a callback is about to complete is the grant it has opened.
RegionInv ==
    /\ region # None => status # "absent"
    /\ \A r \in Requests : pc[r] = "complete" =>
         fresh[r] \in issued /\ family[fresh[r]] = fresh[r]

\* What a step may do to the region, the stored token set and callbacks.
Rotates ==
    /\ region' = region /\ status # "absent" /\ status' # "absent"
    /\ token \in issued /\ token' \in issued
    /\ family'[token'] = family[token]

Discards == region' = None

Completes(r) ==
    /\ pc[r] = "complete" /\ pc'[r] = "idle"
    /\ region' = fresh[r] /\ token' = token /\ family' = family
    /\ status' # "absent"

Keeps ==
    /\ region' = region /\ token' = token
    /\ status # "absent" => status' # "absent"

\* A token set's grant never changes.
LEMMA FamilyKept ==
  ASSUME TypeOK, [Next]_vars
  PROVE  \A t \in issued : t \in issued' /\ family'[t] = family[t]
<1> SUFFICES ASSUME NEW t \in issued
             PROVE  t \in issued' /\ family'[t] = family[t]
  OBVIOUS
<1>0. issued \subseteq Tokens /\ family \in [Tokens -> MaybeToken]
  BY DEF TypeOK
<1>1. ASSUME NEW u, NEW n \in Tokens, IssueFrom(u, n)
      PROVE  t \in issued' /\ family'[t] = family[t]
  BY <1>0, <1>1 DEF IssueFrom
<1>2. ASSUME NEW n \in Tokens, IssueFirst(n)
      PROVE  t \in issued' /\ family'[t] = family[t]
  BY <1>0, <1>2 DEF IssueFirst
<1> QED
  BY <1>1, <1>2, CallbacksAssumption DEF Next, Access, Callback,
     Begin, ForceRefresh, Exchange, ExchangeLost, ExchangeRefused, Mark,
     MarkAfter, Commit, CommitLost, Reread, Call, Start, Expire, Decline,
     Consume, ExchangeCode, Save, Complete, Abort, Revoke, vars, teslaVars

\* A step rotates within a grant, discards the region, keeps it or completes.
LEMMA RegionSteps ==
  ASSUME CredentialInv, [Next]_vars
  PROVE  Rotates \/ Discards \/ Keeps \/ \E r \in Requests : Completes(r)
<1>0. pc \in [Requests -> Steps] /\ family \in [Tokens -> MaybeToken]
  BY DEF CredentialInv, TypeOK
<1>1. ASSUME NEW r \in Requests, Commit(r)
      PROVE  Rotates
  <2>1. /\ status # "absent" /\ fresh[r] \in issued
        /\ parent[fresh[r]] = token
    BY <1>1, CommitParent DEF Commit
  <2>2. token \in issued
    BY <2>1 DEF CredentialInv, ConnInv
  <2>3. family[fresh[r]] = family[token]
    BY <2>1, <2>2, NoneAssumption DEF CredentialInv, TypeOK, IssuedInv
  <2> QED
    BY <1>1, <2>1, <2>2, <2>3 DEF Rotates, Commit, RotateTokens, teslaVars
<1>2. ASSUME NEW r \in Requests, Save(r)
      PROVE  Discards
  BY <1>2 DEF Discards, Save, SaveConnection
<1>3. ASSUME NEW r \in Requests, Complete(r)
      PROVE  Completes(r)
  BY <1>0, <1>3
  DEF Completes, Complete, CompleteConnection, Finish, Become, teslaVars
<1> QED
  BY <1>1, <1>2, <1>3, CallbacksAssumption DEF Keeps, Next, Access, Callback,
     Begin, ForceRefresh, Exchange, ExchangeLost, ExchangeRefused, Mark,
     MarkAfter, CommitLost, Reread, Call, Start, Expire, Decline, Consume,
     ExchangeCode, Abort, Revoke, vars, connVars, MarkReauthorizationRequired

\* A callback that comes to complete() has just saved.
LEMMA CompletingSaved ==
  ASSUME CredentialInv, [Next]_vars, NEW q \in Requests, pc'[q] = "complete"
  PROVE  /\ fresh'[q] = fresh[q]
         /\ pc[q] = "complete" \/ pc[q] = "save"
<1>0. pc \in [Requests -> Steps] /\ fresh \in [Requests -> MaybeToken]
  BY DEF CredentialInv, TypeOK
<1> USE DEF Become, Finish, Goto, RaiseReauthorization, ProceedWith
<1>1. ASSUME NEW r \in Requests, NEW k \in Kinds, Begin(r, k)
      PROVE  fresh'[q] = fresh[q] /\ pc[q] = "complete"
  BY <1>0, <1>1 DEF Begin, GetConnection
<1>2. ASSUME NEW r \in Requests, ForceRefresh(r)
      PROVE  fresh'[q] = fresh[q] /\ pc[q] = "complete"
  BY <1>0, <1>2 DEF ForceRefresh, GetConnection
<1>3. ASSUME NEW r \in Requests, Exchange(r) \/ ExchangeLost(r) \/ ExchangeRefused(r)
      PROVE  fresh'[q] = fresh[q] /\ pc[q] = "complete"
  BY <1>0, <1>3 DEF Exchange, ExchangeLost, ExchangeRefused
<1>4. ASSUME NEW r \in Requests, Mark(r) \/ MarkAfter(r) \/ Commit(r)
      PROVE  fresh'[q] = fresh[q] /\ pc[q] = "complete"
  BY <1>0, <1>4 DEF Mark, MarkAfter, Commit
<1>5. ASSUME NEW r \in Requests, CommitLost(r) \/ Reread(r) \/ Call(r)
      PROVE  fresh'[q] = fresh[q] /\ pc[q] = "complete"
  BY <1>0, <1>5 DEF CommitLost, Reread, Call
<1>6. ASSUME NEW s \in States,
             Start(s) \/ Expire(s) \/ Decline(s) \/ \E r \in Requests : Consume(r, s)
      PROVE  fresh'[q] = fresh[q] /\ pc[q] = "complete"
  BY <1>0, <1>6 DEF Start, Expire, Decline, Consume, requestVars
<1>7. ASSUME NEW r \in Requests, ExchangeCode(r) \/ Complete(r) \/ Abort(r)
      PROVE  fresh'[q] = fresh[q] /\ pc[q] = "complete"
  BY <1>0, <1>7 DEF ExchangeCode, Complete, Abort
<1>8. ASSUME NEW r \in Requests, Save(r)
      PROVE  fresh'[q] = fresh[q] /\ pc[q] \in {"complete", "save"}
  BY <1>0, <1>8 DEF Save
<1>9. ASSUME NEW t \in Tokens, Revoke(t)
      PROVE  fresh'[q] = fresh[q] /\ pc[q] = "complete"
  BY <1>9 DEF Revoke, requestVars
<1>10. CASE UNCHANGED vars
  BY <1>10 DEF vars, requestVars
<1> QED
  BY <1>1, <1>2, <1>3, <1>4, <1>5, <1>6, <1>7, <1>8, <1>9, <1>10,
     CallbacksAssumption DEF Next, Access, Callback

\* Every step keeps what is known of regions and grants.
LEMMA StepRegion == CredentialInv /\ RegionInv /\ [Next]_vars => RegionInv'
<1> SUFFICES ASSUME CredentialInv, RegionInv, [Next]_vars PROVE RegionInv'
  OBVIOUS
<1>1. region' # None => status' # "absent"
  BY RegionSteps DEF RegionInv, Rotates, Discards, Keeps, Completes
<1>2. ASSUME NEW q \in Requests, pc'[q] = "complete"
      PROVE  fresh'[q] \in issued' /\ family'[fresh'[q]] = fresh'[q]
  <2>1. fresh[q] \in issued /\ family[fresh[q]] = fresh[q]
    <3>1. CASE pc[q] = "complete"
      BY <3>1 DEF RegionInv
    <3>2. CASE pc[q] = "save"
      BY <3>2 DEF CredentialInv, RequestInv, Remembers, IssuedInv
    <3> QED
      BY <1>2, <3>1, <3>2, CompletingSaved
  <2>2. fresh[q] \in issued' /\ family'[fresh[q]] = family[fresh[q]]
    BY <2>1, FamilyKept DEF CredentialInv
  <2> QED
    BY <1>2, <2>1, <2>2, CompletingSaved
<1> QED
  BY <1>1, <1>2 DEF RegionInv

\* The stored region belongs to the stored grant, but for a callback that
\* another one's _save_connection overtook: rotations stay in the grant, and
\* _save_connection takes the old region away.
THEOREM RegionFitsGrant == Spec => RegionOfStoredGrant
<1>1. Init => RegionInv
  BY DEF Init, RegionInv
<1>2. Spec => []RegionInv
  BY <1>1, StepRegion, CredentialChain, PTL DEF Spec
<1>3. ASSUME CredentialInv, RegionInv, [Next]_vars
      PROVE  [~Mismatched /\ Mismatched'
                => \E r \in Requests :
                     /\ pc[r] = "complete" /\ pc'[r] = "idle"
                     /\ token' = token /\ family[fresh[r]] # family[token]]_vars
  <2>1. CASE Rotates
    BY <2>1 DEF Rotates, Mismatched
  <2>2. CASE Discards
    BY <2>2 DEF Discards, Mismatched
  <2>3. CASE Keeps
    <3>1. region # None => family'[token] = family[token]
      BY <1>3, FamilyKept DEF RegionInv, CredentialInv, ConnInv
    <3> QED
      BY <2>3, <3>1 DEF Keeps, Mismatched
  <2>4. ASSUME NEW r \in Requests, Completes(r), Mismatched'
        PROVE  family[fresh[r]] # family[token]
    BY <1>3, <2>4 DEF RegionInv, Completes, Mismatched
  <2> QED
    BY <1>3, <2>1, <2>2, <2>3, <2>4, RegionSteps DEF Completes
<1> QED
  BY <1>2, <1>3, CredentialChain, PTL DEF Spec, RegionOfStoredGrant
=============================================================================
