------------------------- MODULE ContentLockProofs -------------------------
(***************************************************************************)
(* For any number of concurrent requests and engine events: the types, that *)
(* content leaves only within the grant that admitted it, that a slow       *)
(* reader never undoes what a user decided, that decisions are told, and    *)
(* that subscribers learn of every lock if statuses are told in turn.       *)
(***************************************************************************)
EXTENDS ContentLock, TLAPS

\* Whatever a task has learnt, it has learnt it of some generation.
LEMMA Generations ==
  ASSUME TypeOK, NEW t \in Task
  PROVE  seen[t].generation \in Nat /\ grant.generation \in Nat
  BY DEF TypeOK, Before, Reading, Status, Nothing

\* A caller returns to the idle watcher, to a second resolve_status or to
\* its end, and keeps nothing.
LEMMA Returns ==
  ASSUME TypeOK, NEW t \in Task, Return(t)
  PROVE  /\ pc' \in [Task -> Phase] /\ kind' \in [Task -> AllKinds \cup {"none", "watch"}]
         /\ seen' = [seen EXCEPT ![t] = Nothing]
         /\ pc'[t] \in {"idle", "snapshot", "done"}
         /\ pc'[t] = "idle" => kind'[t] = "watch"
         /\ kind'[t] # kind[t] => kind[t] \in {"unlock", "revoke"}
         /\ \A u \in Task \ {t} : pc'[u] = pc[u] /\ kind'[u] = kind[u]
  BY DEF TypeOK, Return, Learn, Goto, Phase, Querying, AllKinds

\* resolve_status hands its caller a status of the right type.
LEMMA Resolves ==
  ASSUME TypeOK, NEW t \in Task, NEW st \in Status, Resolved(t, st)
  PROVE  /\ pc' \in [Task -> Phase] /\ kind' \in [Task -> AllKinds \cup {"none", "watch"}]
         /\ \/ /\ pc'[t] = "handler" /\ kind'[t] = "read" /\ st.unlocked
               /\ seen' = [seen EXCEPT ![t] = st]
            \/ pc'[t] = "observe" /\ seen' = [seen EXCEPT ![t] = st]
            \/ pc'[t] \in {"snapshot", "done"} /\ seen' = [seen EXCEPT ![t] = Nothing]
         /\ kind'[t] = kind[t]
         /\ \A u \in Task \ {t} : pc'[u] = pc[u] /\ kind'[u] = kind[u]
  BY DEF TypeOK, Resolved, Return, Learn, Goto, Phase, Querying, AllKinds

\* A change of the grant is the next generation, and starts a new history.
LEMMA Changes ==
  ASSUME TypeOK, NEW v \in Value, GrantBecomes(v)
  PROVE  /\ grant' \in [value : Value, generation : Nat, published : SUBSET BOOLEAN]
         /\ grant'.value = v
         /\ grant'.generation = grant.generation + 1
         /\ grant'.published = grant.published
         /\ lapsed' = ~Usable(facts) /\ lapsed' \in BOOLEAN
  <1>1. grant' = [value |-> v, generation |-> grant.generation + 1, published |-> grant.published]
    BY DEF TypeOK, GrantBecomes
  <1>2. lapsed' = ~Usable(facts) /\ lapsed' \in BOOLEAN
    BY DEF GrantBecomes, Usable
  <1>3. grant.generation + 1 \in Nat /\ grant.published \in SUBSET BOOLEAN
    BY DEF TypeOK
  <1>4. QED BY <1>1, <1>2, <1>3

\* A change of the facts stays within their type.
LEMMA FactsChange ==
  ASSUME TypeOK, NEW f \in Facts, FactsBecome(f)
  PROVE  facts' \in Facts /\ lapsed' \in BOOLEAN
  BY DEF TypeOK, FactsBecome

\* A step of one task leaves the others where they are.
LEMMA OthersStay ==
  ASSUME TypeOK, NEW u \in Task, Arrive(u) \/ Step(u), NEW t \in Task \ {u}
  PROVE  pc'[t] = pc[t] /\ kind'[t] = kind[t]
  <1> USE DEF TypeOK, Goto
  <1>1. CASE Arrive(u)
    BY <1>1 DEF Arrive, Ask, AskToRevoke, OpenSession, CloseSession, ChangeRecovery, SetUp, Begin
  <1>2. CASE Announce(u) \/ Receive(u) \/ ChangeGrant(u) \/ Seed(u) \/ Reply(u)
    BY <1>2 DEF Announce, Receive, ChangeGrant, Seed, Reply
  <1>3. CASE Snapshot(u) \/ QueryRecovery(u) \/ QueryEncryption(u)
    BY <1>3 DEF Snapshot, QueryRecovery, QueryEncryption
  <1>4. CASE Reset(u) \/ ReadGrant(u)
    <2>1. \E st : Resolved(u, st) BY <1>4 DEF Reset, ReadGrant
    <2>2. QED BY <2>1 DEF Resolved, Return
  <1>5. CASE Fail(u) \/ Observe(u) \/ Publish(u) \/ RunHandler(u)
    BY <1>5 DEF Fail, Observe, Publish, RunHandler, Return
  <1>6. QED BY <1>1, <1>2, <1>3, <1>4, <1>5 DEF Step, Resolve

-----------------------------------------------------------------------------
(* Types and locals.                                                        *)

\* The locals of a task are those of its phase, through every step.
LEMMA FitStep ==
  ASSUME TypeOK, LocalsFit, [Next]_vars
  PROVE  TypeOK' /\ LocalsFit'
  <1> USE DEF Task
  <1>1. ASSUME NEW t \in Task, Ask(t) PROVE TypeOK' /\ LocalsFit'
    BY <1>1 DEF TypeOK, LocalsFit, Ask, Begin, Goto, Phase, Querying, AllKinds, engineVars
  <1>2. ASSUME NEW t \in Task, AskToRevoke(t) PROVE TypeOK' /\ LocalsFit'
    BY <1>2 DEF TypeOK, LocalsFit, AskToRevoke, Begin, Goto, Phase, Querying, AllKinds, engineVars
  <1>3. ASSUME NEW t \in Task, OpenSession(t) PROVE TypeOK' /\ LocalsFit'
    <2>1. facts' \in Facts /\ lapsed' \in BOOLEAN
      <3>1. [facts EXCEPT !.session = TRUE] \in Facts BY DEF TypeOK, Facts
      <3>2. QED BY <1>3, <3>1, FactsChange DEF OpenSession
    <2>2. QED BY <1>3, <2>1 DEF TypeOK, LocalsFit, OpenSession, Begin, Goto, Phase, Querying, AllKinds
  <1>4. ASSUME NEW t \in Task, CloseSession(t) PROVE TypeOK' /\ LocalsFit'
    <2>1. facts' \in Facts /\ lapsed' \in BOOLEAN
      <3>1. /\ [facts EXCEPT !.session = FALSE] \in Facts
            /\ [facts EXCEPT !.session = FALSE, !.initialized = FALSE] \in Facts
        BY DEF TypeOK, Facts
      <3>2. QED BY <1>4, <3>1, FactsChange DEF CloseSession
    <2>2. \E k \in {"lock", "reset"} : Begin(t, k)
      BY <1>4 DEF CloseSession
    <2>3. QED BY <1>4, <2>1, <2>2 DEF TypeOK, LocalsFit, CloseSession, Begin, Goto, Phase, Querying, AllKinds
  <1>5. ASSUME NEW t \in Task, ChangeRecovery(t) PROVE TypeOK' /\ LocalsFit'
    BY <1>5 DEF TypeOK, LocalsFit, ChangeRecovery, FactsBecome, Usable, Facts, Begin, Goto, Phase, Querying, AllKinds
  <1>6. ASSUME NEW t \in Task, SetUp(t) PROVE TypeOK' /\ LocalsFit'
    BY <1>6 DEF TypeOK, LocalsFit, SetUp, FactsBecome, Usable, Facts, Begin, Goto, Phase, Querying, AllKinds
  <1>7. ASSUME NEW t \in Task, Announce(t) PROVE TypeOK' /\ LocalsFit'
    BY <1>7 DEF TypeOK, LocalsFit, Announce, Goto, Phase, Querying
  <1>8. ASSUME NEW t \in Task, Receive(t) PROVE TypeOK' /\ LocalsFit'
    BY <1>8 DEF TypeOK, LocalsFit, Receive, Goto, Phase, Querying
  <1>9. ASSUME NEW t \in Task, ChangeGrant(t) PROVE TypeOK' /\ LocalsFit'
    <2>1. /\ grant' \in [value : Value, generation : Nat, published : SUBSET BOOLEAN]
          /\ lapsed' \in BOOLEAN
      BY <1>9, Changes DEF ChangeGrant, Value
    <2>2. QED BY <1>9, <2>1 DEF TypeOK, LocalsFit, ChangeGrant, Goto, Phase, Querying, engineVars
  <1>10. ASSUME NEW t \in Task, Snapshot(t) PROVE TypeOK' /\ LocalsFit'
    BY <1>10 DEF TypeOK, LocalsFit, Snapshot, Learn, Before, Goto, Phase, Querying, engineVars
  <1>11. ASSUME NEW t \in Task, QueryRecovery(t) PROVE TypeOK' /\ LocalsFit'
    BY <1>11 DEF TypeOK, LocalsFit, QueryRecovery, Goto, Phase, Querying, engineVars
  <1>12. ASSUME NEW t \in Task, QueryEncryption(t) PROVE TypeOK' /\ LocalsFit'
    BY <1>12, Generations DEF TypeOK, LocalsFit, QueryEncryption, Learn, Reading, Facts, Goto, Phase, Querying, engineVars
  <1>13. ASSUME NEW t \in Task, Reset(t) PROVE TypeOK' /\ LocalsFit'
    <2>1. /\ grant' \in [value : Value, generation : Nat, published : SUBSET BOOLEAN]
          /\ lapsed' \in BOOLEAN
      BY <1>13, Changes DEF Reset, Value, TypeOK
    <2> DEFINE st == [unlocked |-> FALSE, generation |-> grant.generation]
    <2>2. st \in Status BY Generations DEF Status
    <2>3. Resolved(t, st) BY <1>13 DEF Reset
    <2>4. UNCHANGED <<facts, events, told>> BY <1>13 DEF Reset, engineVars
    <2> HIDE DEF st
    <2>5. TypeOK' BY <2>1, <2>2, <2>3, <2>4, Resolves DEF TypeOK
    <2>6. LocalsFit' BY <2>2, <2>3, Resolves DEF TypeOK, LocalsFit
    <2>7. QED BY <2>5, <2>6
  <1>14. ASSUME NEW t \in Task, Seed(t) PROVE TypeOK' /\ LocalsFit'
    <2>1. /\ grant' \in [value : Value, generation : Nat, published : SUBSET BOOLEAN]
          /\ lapsed' \in BOOLEAN
      BY <1>14, Changes DEF Seed, Value, TypeOK
    <2>2. QED BY <1>14, <2>1 DEF TypeOK, LocalsFit, Seed, Goto, Phase, Querying, engineVars
  <1>15. ASSUME NEW t \in Task, ReadGrant(t) PROVE TypeOK' /\ LocalsFit'
    <2> DEFINE st == [unlocked |-> grant.value = "given" /\ seen[t].ready, generation |-> grant.generation]
    <2>1. seen[t] \in Reading BY <1>15 DEF ReadGrant, LocalsFit
    <2>2. st \in Status BY <2>1, Generations DEF Status, Reading
    <2>3. Resolved(t, st) BY <1>15 DEF ReadGrant
    <2>4. UNCHANGED <<facts, events, grant, told, lapsed>> BY <1>15 DEF ReadGrant, engineVars
    <2> HIDE DEF st
    <2>5. TypeOK' BY <2>2, <2>3, <2>4, Resolves DEF TypeOK
    <2>6. LocalsFit' BY <2>2, <2>3, Resolves DEF TypeOK, LocalsFit
    <2>7. QED BY <2>5, <2>6
  <1>16. ASSUME NEW t \in Task, Fail(t) PROVE TypeOK' /\ LocalsFit'
    BY <1>16, Returns DEF TypeOK, LocalsFit, Fail, engineVars
  <1>17. ASSUME NEW t \in Task, Observe(t) PROVE TypeOK' /\ LocalsFit'
    <2>1. seen[t] \in Status BY <1>17 DEF Observe, LocalsFit
    <2>2. CASE pc'[t] = "publish"
      <3>1. grant' \in [value : Value, generation : Nat, published : SUBSET BOOLEAN]
        <4>1. /\ grant.value \in Value /\ grant.generation \in Nat
              /\ {seen[t].unlocked} \in SUBSET BOOLEAN
          BY <2>1 DEF TypeOK, Status
        <4>2. \E n \in {grant.generation, grant.generation + 1} :
                grant' = [value |-> grant.value, generation |-> n, published |-> {seen[t].unlocked}]
          BY <1>17, <2>2, Returns DEF TypeOK, Observe
        <4>3. QED BY <4>1, <4>2
      <3>2. grant'.generation \in Nat BY <3>1
      <3>3. pc' = [pc EXCEPT ![t] = "publish"] /\ UNCHANGED kind
            /\ seen' = [seen EXCEPT ![t] = [seen[t] EXCEPT !.generation = grant'.generation]]
        BY <1>17, <2>2, Returns DEF Observe, Goto, Learn
      <3>4. [seen[t] EXCEPT !.generation = grant'.generation] \in Status
        BY <2>1, <3>2 DEF Status
      <3>5. UNCHANGED <<facts, events, told, lapsed>> BY <1>17 DEF Observe, engineVars
      <3>6. TypeOK' BY <3>1, <3>3, <3>4, <3>5 DEF TypeOK, Phase
      <3>7. LocalsFit' BY <3>3, <3>4 DEF TypeOK, LocalsFit
      <3>8. QED BY <3>6, <3>7
    <2>3. CASE pc'[t] # "publish"
      <3>1. Return(t) /\ UNCHANGED <<facts, events, told, lapsed, grant>>
        BY <1>17, <2>3 DEF Observe, Goto, TypeOK, engineVars
      <3>2. QED BY <3>1, Returns DEF TypeOK, LocalsFit
    <2>4. QED BY <2>2, <2>3
  <1>18. ASSUME NEW t \in Task, Publish(t) PROVE TypeOK' /\ LocalsFit'
    BY <1>18, Returns DEF TypeOK, LocalsFit, Publish, engineVars
  <1>19. ASSUME NEW t \in Task, RunHandler(t) PROVE TypeOK' /\ LocalsFit'
    BY <1>19, Returns DEF TypeOK, LocalsFit, RunHandler, Goto, Phase, Querying, engineVars
  <1>20. ASSUME NEW t \in Task, Reply(t) PROVE TypeOK' /\ LocalsFit'
    BY <1>20 DEF TypeOK, LocalsFit, Reply, Learn, Goto, Phase, Querying, engineVars
  <1>21. CASE UNCHANGED vars
    BY <1>21 DEF TypeOK, LocalsFit, vars, engineVars
  <1> QED
    BY <1>1, <1>2, <1>3, <1>4, <1>5, <1>6, <1>7, <1>8, <1>9, <1>10, <1>11, <1>12, <1>13, <1>14,
       <1>15, <1>16, <1>17, <1>18, <1>19, <1>20, <1>21
    DEF Next, Arrive, Step, Resolve

-----------------------------------------------------------------------------
(* Generations.                                                             *)

\* What one task does keeps the invariant if its own part of it holds after
\* and the generation tells every change of the value.
LEMMA Kept ==
  ASSUME TypeOK, TypeOK', StatusesAreCurrent, ResetsAreDue, NEW t \in Task,
         \A u \in Task \ {t} : pc'[u] = pc[u] /\ seen'[u] = seen[u],
         grant'.generation >= grant.generation,
         grant'.generation = grant.generation => grant'.value = grant.value /\ (lapsed => lapsed'),
         ~Usable(facts') => lapsed',
         seen'[t].generation <= grant'.generation,
         pc'[t] \in {"handler", "reply"} /\ seen'[t].generation = grant'.generation => grant'.value = "given",
         pc'[t] = "reset" /\ seen'[t].generation = grant'.generation => lapsed'
  PROVE  StatusesAreCurrent' /\ ResetsAreDue'
  <1>1. \A u \in Task : seen[u].generation \in Nat /\ grant.generation \in Nat /\ grant'.generation \in Nat
    BY Generations DEF TypeOK
  <1>2. StatusesAreCurrent' BY <1>1 DEF StatusesAreCurrent
  <1>3. ResetsAreDue'
    BY <1>1 DEF StatusesAreCurrent, ResetsAreDue
  <1>4. QED BY <1>2, <1>3

\* Generations only grow, and the value never changes under one.
LEMMA CurrentStep ==
  ASSUME TypeOK, LocalsFit, StatusesAreCurrent, ResetsAreDue, [Next]_vars
  PROVE  StatusesAreCurrent' /\ ResetsAreDue'
  <1>a. TypeOK' /\ LocalsFit' BY FitStep
  <1>b. /\ grant.generation \in Nat
        /\ \A u \in Task : seen[u].generation \in Nat /\ seen[u].generation <= grant.generation
    BY Generations DEF TypeOK, StatusesAreCurrent
  <1>c. ~Usable(facts) => lapsed BY DEF ResetsAreDue
  <1>d. Nothing.generation = 0 BY DEF Nothing
  <1>e. pc \in [Task -> Phase] /\ seen \in [Task -> Before \cup Reading \cup Status \cup {Nothing}]
    BY DEF TypeOK
  <1>1. ASSUME NEW t \in Task, Ask(t) PROVE StatusesAreCurrent' /\ ResetsAreDue'
    BY <1>1, <1>a, <1>b, <1>c, <1>d, <1>e, Kept DEF Ask, Begin, Goto, engineVars, StatusesAreCurrent, ResetsAreDue
  <1>2. ASSUME NEW t \in Task, AskToRevoke(t) PROVE StatusesAreCurrent' /\ ResetsAreDue'
    BY <1>2, <1>a, <1>b, <1>c, <1>d, <1>e, Kept DEF AskToRevoke, Begin, Goto, engineVars, StatusesAreCurrent, ResetsAreDue
  <1>3. ASSUME NEW t \in Task, OpenSession(t) PROVE StatusesAreCurrent' /\ ResetsAreDue'
    BY <1>3, <1>a, <1>b, <1>c, <1>d, <1>e, Kept DEF OpenSession, Begin, Goto, FactsBecome, StatusesAreCurrent, ResetsAreDue
  <1>4. ASSUME NEW t \in Task, CloseSession(t) PROVE StatusesAreCurrent' /\ ResetsAreDue'
    BY <1>4, <1>a, <1>b, <1>c, <1>d, <1>e, Kept DEF CloseSession, Begin, Goto, FactsBecome, StatusesAreCurrent, ResetsAreDue
  <1>5. ASSUME NEW t \in Task, ChangeRecovery(t) PROVE StatusesAreCurrent' /\ ResetsAreDue'
    BY <1>5, <1>a, <1>b, <1>c, <1>d, <1>e, Kept DEF ChangeRecovery, Begin, Goto, FactsBecome, StatusesAreCurrent, ResetsAreDue
  <1>6. ASSUME NEW t \in Task, SetUp(t) PROVE StatusesAreCurrent' /\ ResetsAreDue'
    BY <1>6, <1>a, <1>b, <1>c, <1>d, <1>e, Kept DEF SetUp, Begin, Goto, FactsBecome, StatusesAreCurrent, ResetsAreDue
  <1>7. ASSUME NEW t \in Task, Announce(t) PROVE StatusesAreCurrent' /\ ResetsAreDue'
    BY <1>7, <1>a, <1>b, <1>c, <1>d, <1>e, Kept DEF Announce, Goto, StatusesAreCurrent, ResetsAreDue
  <1>8. ASSUME NEW t \in Task, Receive(t) PROVE StatusesAreCurrent' /\ ResetsAreDue'
    BY <1>8, <1>a, <1>b, <1>c, <1>d, <1>e, Kept DEF Receive, Goto, StatusesAreCurrent, ResetsAreDue
  <1>9. ASSUME NEW t \in Task, ChangeGrant(t) PROVE StatusesAreCurrent' /\ ResetsAreDue'
    BY <1>9, <1>a, <1>b, <1>c, <1>d, <1>e, Changes, Kept DEF ChangeGrant, Goto, engineVars, Value, StatusesAreCurrent, ResetsAreDue
  <1>10. ASSUME NEW t \in Task, Snapshot(t) PROVE StatusesAreCurrent' /\ ResetsAreDue'
    BY <1>10, <1>a, <1>b, <1>c, <1>d, <1>e, Kept DEF Snapshot, Learn, Goto, engineVars, StatusesAreCurrent, ResetsAreDue
  <1>11. ASSUME NEW t \in Task, QueryRecovery(t) PROVE StatusesAreCurrent' /\ ResetsAreDue'
    BY <1>11, <1>a, <1>b, <1>c, <1>d, <1>e, Kept DEF QueryRecovery, Goto, Usable, engineVars, StatusesAreCurrent, ResetsAreDue
  <1>12. ASSUME NEW t \in Task, QueryEncryption(t) PROVE StatusesAreCurrent' /\ ResetsAreDue'
    BY <1>12, <1>a, <1>b, <1>c, <1>d, <1>e, Kept DEF QueryEncryption, Learn, Goto, Usable, engineVars, StatusesAreCurrent, ResetsAreDue
  <1>13. ASSUME NEW t \in Task, Reset(t) PROVE StatusesAreCurrent' /\ ResetsAreDue'
    <2> DEFINE st == [unlocked |-> FALSE, generation |-> grant.generation]
    <2>1. st \in Status /\ st.generation = grant.generation /\ ~st.unlocked
      BY <1>b DEF Status
    <2>2. Resolved(t, st) BY <1>13 DEF Reset
    <2> HIDE DEF st
    <2>3. /\ \A u \in Task \ {t} : pc'[u] = pc[u] /\ seen'[u] = seen[u]
          /\ pc'[t] \in {"observe", "snapshot", "done"} /\ seen'[t].generation <= grant.generation
      BY <2>1, <2>2, <1>b, <1>d, <1>e, Resolves
    <2>4. CASE GrantBecomes("unset")
      <3>1. /\ grant'.generation = grant.generation + 1
            /\ lapsed' = ~Usable(facts) /\ facts' = facts
        BY <1>13, <2>4, Changes DEF Value, Reset, engineVars
      <3>2. ~Usable(facts') => lapsed' BY <3>1
      <3>3. /\ grant'.generation >= grant.generation /\ grant'.generation # grant.generation
            /\ seen'[t].generation <= grant'.generation
        <4>1. seen'[t].generation \in Nat BY <1>a DEF TypeOK, Before, Reading, Status, Nothing
        <4>2. QED BY <4>1, <1>b, <2>3, <3>1
      <3>4. pc'[t] \notin {"handler", "reply", "reset"} BY <2>3
      <3>5. QED BY <1>a, <2>3, <3>2, <3>3, <3>4, Kept
    <2>5. CASE UNCHANGED <<grant, lapsed>>
      <3>1. facts' = facts BY <1>13 DEF Reset, engineVars
      <3>2. Usable(facts') = Usable(facts) BY <3>1
      <3>3. QED BY <1>a, <1>b, <1>c, <2>3, <2>5, <3>2, Kept
    <2>6. QED BY <1>13, <2>4, <2>5 DEF Reset
  <1>14. ASSUME NEW t \in Task, Seed(t) PROVE StatusesAreCurrent' /\ ResetsAreDue'
    BY <1>14, <1>a, <1>b, <1>c, <1>d, <1>e, Changes, Kept DEF Seed, Goto, engineVars, Value, StatusesAreCurrent, ResetsAreDue
  <1>15. ASSUME NEW t \in Task, ReadGrant(t) PROVE StatusesAreCurrent' /\ ResetsAreDue'
    <2> DEFINE st == [unlocked |-> grant.value = "given" /\ seen[t].ready, generation |-> grant.generation]
    <2>1. seen[t] \in Reading BY <1>15 DEF ReadGrant, LocalsFit
    <2>2. /\ st \in Status /\ st.generation = grant.generation
          /\ st.unlocked => grant.value = "given"
      BY <2>1, <1>b DEF Status, Reading
    <2>3. Resolved(t, st) BY <1>15 DEF ReadGrant
    <2>4. UNCHANGED <<facts, grant, lapsed>> BY <1>15 DEF ReadGrant, engineVars
    <2> HIDE DEF st
    <2>5. /\ \A u \in Task \ {t} : pc'[u] = pc[u] /\ seen'[u] = seen[u]
          /\ pc'[t] \in {"handler", "observe", "snapshot", "done"}
          /\ pc'[t] = "handler" => grant.value = "given"
          /\ seen'[t].generation <= grant.generation
      BY <2>2, <2>3, <1>b, <1>d, <1>e, Resolves
    <2>6. Usable(facts') = Usable(facts) BY <2>4
    <2>7. QED BY <1>a, <1>b, <1>c, <2>4, <2>5, <2>6, Kept
  <1>16. ASSUME NEW t \in Task, Fail(t) PROVE StatusesAreCurrent' /\ ResetsAreDue'
    BY <1>16, <1>a, <1>b, <1>c, <1>d, <1>e, Returns, Kept DEF Fail, engineVars, StatusesAreCurrent, ResetsAreDue
  <1>17. ASSUME NEW t \in Task, Observe(t) PROVE StatusesAreCurrent' /\ ResetsAreDue'
    <2>1. seen[t] \in Status BY <1>17 DEF Observe, LocalsFit
    <2>2. UNCHANGED <<facts, lapsed>> BY <1>17 DEF Observe, engineVars
    <2>3. Usable(facts') = Usable(facts) BY <2>2
    <2>4. CASE Return(t) /\ UNCHANGED grant
      BY <1>a, <1>b, <1>c, <1>d, <1>e, <2>2, <2>3, <2>4, Returns, Kept
    <2>5. CASE pc'[t] = "publish"
      <3>1. /\ pc' = [pc EXCEPT ![t] = "publish"]
            /\ seen' = [seen EXCEPT ![t] = [seen[t] EXCEPT !.generation = grant'.generation]]
        BY <1>17, <2>5, Returns DEF Observe, Goto, Learn
      <3>2. \E n \in {grant.generation, grant.generation + 1} :
              grant' = [grant EXCEPT !.generation = n, !.published = {seen[t].unlocked}]
        BY <1>17, <2>5, Returns DEF Observe
      <3>3. grant'.generation \in {grant.generation, grant.generation + 1} /\ grant'.value = grant.value
        BY <3>2 DEF TypeOK
      <3>4. seen'[t].generation = grant'.generation
        BY <2>1, <3>1, <1>e DEF Status
      <3>5. \A u \in Task \ {t} : pc'[u] = pc[u] /\ seen'[u] = seen[u]
        BY <3>1, <1>e
      <3>6. QED BY <1>a, <1>b, <1>c, <2>2, <2>3, <2>5, <3>3, <3>4, <3>5, Kept
    <2>6. QED BY <1>17, <1>e, <2>4, <2>5 DEF Observe, Goto
  <1>18. ASSUME NEW t \in Task, Publish(t) PROVE StatusesAreCurrent' /\ ResetsAreDue'
    BY <1>18, <1>a, <1>b, <1>c, <1>d, <1>e, Returns, Kept DEF Publish, engineVars, StatusesAreCurrent, ResetsAreDue
  <1>19. ASSUME NEW t \in Task, RunHandler(t) PROVE StatusesAreCurrent' /\ ResetsAreDue'
    BY <1>19, <1>a, <1>b, <1>c, <1>d, <1>e, Returns, Kept DEF RunHandler, Goto, engineVars, StatusesAreCurrent, ResetsAreDue
  <1>20. ASSUME NEW t \in Task, Reply(t) PROVE StatusesAreCurrent' /\ ResetsAreDue'
    BY <1>20, <1>a, <1>b, <1>c, <1>d, <1>e, Kept DEF Reply, Learn, Goto, engineVars, StatusesAreCurrent, ResetsAreDue
  <1>21. CASE UNCHANGED vars
    BY <1>21 DEF StatusesAreCurrent, ResetsAreDue, vars, engineVars
  <1> QED
    BY <1>1, <1>2, <1>3, <1>4, <1>5, <1>6, <1>7, <1>8, <1>9, <1>10, <1>11, <1>12, <1>13, <1>14,
       <1>15, <1>16, <1>17, <1>18, <1>19, <1>20, <1>21
    DEF Next, Arrive, Step, Resolve

-----------------------------------------------------------------------------
(* The theorems.                                                            *)

LEMMA InitialState == Init => TypeOK /\ LocalsFit /\ StatusesAreCurrent /\ ResetsAreDue
  <1> SUFFICES ASSUME Init PROVE TypeOK /\ LocalsFit /\ StatusesAreCurrent /\ ResetsAreDue
    OBVIOUS
  <1>1. /\ facts \in Facts /\ told = Nothing /\ events = 0 /\ lapsed = ~Usable(facts)
        /\ grant \in [value : Value, generation : Nat, published : SUBSET BOOLEAN]
        /\ grant.generation = 0
    BY ConstantsAssumption DEF Init, Value
  <1>2. \A t \in Task : pc[t] = "idle" /\ kind[t] = "none" /\ seen[t].generation = 0
    BY DEF Init, Nothing
  <1>3. /\ pc \in [Task -> Phase] /\ kind \in [Task -> AllKinds \cup {"none", "watch"}]
        /\ seen \in [Task -> Before \cup Reading \cup Status \cup {Nothing}]
    BY DEF Init, Phase
  <1>4. lapsed \in BOOLEAN BY <1>1 DEF Usable
  <1>5. TypeOK BY <1>1, <1>3, <1>4 DEF TypeOK
  <1>6. LocalsFit /\ StatusesAreCurrent BY <1>1, <1>2 DEF LocalsFit, StatusesAreCurrent
  <1>7. ResetsAreDue BY <1>1, <1>2 DEF ResetsAreDue
  <1>8. QED BY <1>5, <1>6, <1>7

\* resolve_status keeps its locals apart, no task knows a generation that has
\* not been, and only a reader of lapsed facts is about to forget a grant.
THEOREM Invariance == Spec => [](TypeOK /\ LocalsFit /\ StatusesAreCurrent /\ ResetsAreDue)
  <1>1. TypeOK /\ LocalsFit /\ StatusesAreCurrent /\ ResetsAreDue /\ [Next]_vars
          => (TypeOK /\ LocalsFit /\ StatusesAreCurrent /\ ResetsAreDue)'
    BY FitStep, CurrentStep
  <1>2. QED BY <1>1, InitialState, PTL DEF Spec

\* Every variable keeps its type, for any set of calls of any kinds.
THEOREM TypeCorrect == Spec => []TypeOK
  BY Invariance, PTL

\* Only the second check of the generation lets an answer out.
LEMMA OnlyReplies ==
  ASSUME TypeOK, Next, NEW t \in Task, pc[t] = "reply", pc'[t] = "answered"
  PROVE  grant.generation = seen[t].generation
  <1>1. PICK u \in Task : Arrive(u) \/ Step(u) BY DEF Next
  <1>2. CASE u = t
    <2>1. CASE Reply(t) BY <2>1 DEF Reply, Goto, TypeOK
    <2>2. CASE ~Reply(t)
      BY <1>1, <1>2, <2>2
      DEF Arrive, Step, Resolve, Ask, AskToRevoke, OpenSession, CloseSession, ChangeRecovery, SetUp, Begin,
          Announce, Receive, ChangeGrant, Snapshot, QueryRecovery, QueryEncryption, Reset, Seed, ReadGrant,
          Fail, Querying, Observe, Publish, RunHandler
    <2>3. QED BY <2>1, <2>2
  <1>3. CASE u # t
    BY <1>1, <1>3, OthersStay
  <1>4. QED BY <1>2, <1>3

\* Content leaves content_gate_middleware only while access is granted, for
\* any number of concurrent readers, unlocks, revocations and changes of the
\* engine's facts.
THEOREM AnswersWithinGrant == Spec => AnswersStayWithinGrant
  <1>1. TypeOK /\ StatusesAreCurrent /\ [Next]_vars
          => [\A t \in Task : Answered(t) => grant.value = "given"]_vars
    <2> SUFFICES ASSUME TypeOK, StatusesAreCurrent, Next, NEW t \in Task, Answered(t)
                 PROVE  grant.value = "given"
      OBVIOUS
    <2>1. grant.generation = seen[t].generation
      BY OnlyReplies DEF Answered, TypeOK
    <2>2. QED BY <2>1 DEF StatusesAreCurrent, Answered
  <1>2. QED BY <1>1, Invariance, PTL DEF Spec, AnswersStayWithinGrant

\* Only reset_if_generation forgets a grant, and only the one it saw.
LEMMA OnlyResets ==
  ASSUME TypeOK, ResetsAreDue, Next, grant.value # "unset", grant'.value = "unset"
  PROVE  lapsed
  <1>1. PICK u \in Task : Arrive(u) \/ Step(u) BY DEF Next
  <1>2. CASE Reset(u)
    BY <1>2 DEF Reset, ResetsAreDue
  <1>3. CASE Observe(u)
    BY <1>3 DEF Observe, TypeOK
  <1>4. CASE Seed(u)
    BY <1>4 DEF Seed, GrantBecomes, TypeOK
  <1>5. CASE ChangeGrant(u)
    BY <1>5 DEF ChangeGrant, GrantBecomes, TypeOK
  <1>6. CASE Arrive(u)
    BY <1>6 DEF Arrive, Ask, AskToRevoke, OpenSession, CloseSession, ChangeRecovery, SetUp
  <1>7. CASE Announce(u) \/ Receive(u) \/ Fail(u) \/ Publish(u) \/ RunHandler(u) \/ Reply(u)
    BY <1>7 DEF Announce, Receive, Fail, Publish, RunHandler, Reply
  <1>8. CASE Snapshot(u) \/ QueryRecovery(u) \/ QueryEncryption(u) \/ ReadGrant(u)
    BY <1>8 DEF Snapshot, QueryRecovery, QueryEncryption, ReadGrant
  <1>9. QED BY <1>1, <1>2, <1>3, <1>4, <1>5, <1>6, <1>7, <1>8 DEF Step, Resolve

\* reset_if_generation forgets a grant or a withdrawal only if the facts did
\* not allow content at some moment since it was made, for any number of
\* readers of any age.
THEOREM DecisionsOutlive == Spec => DecisionsOutliveReaders
  <1>1. TypeOK /\ ResetsAreDue /\ [Next]_vars
          => [grant.value # "unset" /\ grant'.value = "unset" => lapsed]_vars
    BY OnlyResets
  <1>2. QED BY <1>1, Invariance, PTL DEF Spec, DecisionsOutliveReaders

\* An unlock or a revocation gets past publish_current only through publish,
\* or without a status.
LEMMA OnlyPublishes ==
  ASSUME TypeOK, LocalsFit, Next, NEW t \in Task,
         kind[t] \in {"unlock", "revoke"}, kind'[t] = "status", pc[t] \notin Querying
  PROVE  told' = seen[t]
  <1>1. PICK u \in Task : Arrive(u) \/ Step(u) BY DEF Next
  <1>2. CASE u # t
    BY <1>1, <1>2, OthersStay
  <1>3. CASE u = t
    <2>1. pc[t] # "idle" /\ pc[t] \notin {"handler", "reply"} BY DEF LocalsFit
    <2>2. ~Arrive(t)
      BY <2>1 DEF Arrive, Ask, AskToRevoke, OpenSession, CloseSession, ChangeRecovery, SetUp, Begin
    <2>3. ~(Receive(t) \/ RunHandler(t) \/ Reply(t) \/ Fail(t))
      BY <2>1 DEF Receive, RunHandler, Reply, Fail
    <2>4. ~(Announce(t) \/ ChangeGrant(t) \/ Snapshot(t) \/ QueryRecovery(t) \/ QueryEncryption(t) \/ Seed(t))
      BY DEF Announce, ChangeGrant, Snapshot, QueryRecovery, QueryEncryption, Seed
    <2>5. ~(Reset(t) \/ ReadGrant(t))
      <3>1. ASSUME NEW st, Resolved(t, st) PROVE kind' = kind
        BY <3>1 DEF Resolved
      <3>2. QED BY <3>1 DEF Reset, ReadGrant
    <2>6. ~Observe(t)
      BY DEF Observe
    <2>7. Publish(t)
      BY <1>1, <1>3, <2>2, <2>3, <2>4, <2>5, <2>6 DEF Step, Resolve
    <2>8. QED BY <2>7 DEF Publish
  <1>4. QED BY <1>2, <1>3

\* Whoever unlocked or revoked gets an answer only after subscribers were sent
\* an event that is no older than what the request itself had learnt.
THEOREM DecisionsTold == Spec => DecisionsAreTold
  <1>1. TypeOK /\ LocalsFit /\ [Next]_vars
          => [\A t \in Call :
                kind[t] \in {"unlock", "revoke"} /\ kind'[t] = "status" /\ pc[t] \notin Querying
                  => told'.generation >= seen[t].generation]_vars
    <2> SUFFICES ASSUME TypeOK, LocalsFit, Next, NEW t \in Call,
                        kind[t] \in {"unlock", "revoke"}, kind'[t] = "status", pc[t] \notin Querying
                 PROVE  told'.generation >= seen[t].generation
      OBVIOUS
    <2>1. t \in Task BY DEF Task
    <2>2. told' = seen[t] BY <2>1, OnlyPublishes
    <2>3. seen[t].generation \in Nat BY <2>1, Generations
    <2>4. QED BY <2>2, <2>3
  <1>2. QED BY <1>1, Invariance, PTL DEF Spec, DecisionsAreTold

-----------------------------------------------------------------------------
(* Subscribers learn the lock when statuses are told in turn.              *)

\* An answer is not the absence of one.
LEMMA AnAnswer == \A b, n : [unlocked |-> b, generation |-> n] # Nothing
  <1> SUFFICES ASSUME NEW b, NEW n, [unlocked |-> b, generation |-> n] = Nothing PROVE FALSE
    OBVIOUS
  <1>1. "unlocked" \in DOMAIN [unlocked |-> b, generation |-> n]
    OBVIOUS
  <1>2. "unlocked" \notin DOMAIN Nothing
    BY DEF Nothing
  <1> QED BY <1>1, <1>2

\* A step of one task leaves what the others have learnt.
LEMMA OthersRemember ==
  ASSUME TypeOK, NEW u \in Task, Arrive(u) \/ Step(u), NEW t \in Task \ {u}
  PROVE  seen'[t] = seen[t]
  <1> USE DEF TypeOK, Learn
  <1>1. CASE Arrive(u)
    BY <1>1 DEF Arrive, Ask, AskToRevoke, OpenSession, CloseSession, ChangeRecovery, SetUp
  <1>2. CASE Announce(u) \/ Receive(u) \/ ChangeGrant(u) \/ Seed(u) \/ Reply(u)
    BY <1>2 DEF Announce, Receive, ChangeGrant, Seed, Reply
  <1>3. CASE Snapshot(u) \/ QueryRecovery(u) \/ QueryEncryption(u)
    BY <1>3 DEF Snapshot, QueryRecovery, QueryEncryption
  <1>4. CASE Reset(u) \/ ReadGrant(u)
    <2>1. \E st : Resolved(u, st) BY <1>4 DEF Reset, ReadGrant
    <2>2. QED BY <2>1 DEF Resolved, Return
  <1>5. CASE Fail(u) \/ Observe(u) \/ Publish(u) \/ RunHandler(u)
    BY <1>5 DEF Fail, Observe, Publish, RunHandler, Return
  <1>6. QED BY <1>1, <1>2, <1>3, <1>4, <1>5 DEF Step, Resolve

\* What was published and told changes only as one is observed or told.
LEMMA AnnouncedBySteps ==
  ASSUME TypeOK, NEW u \in Task, Arrive(u) \/ Step(u)
  PROVE  /\ ~Observe(u) => grant'.published = grant.published
         /\ ~Publish(u) => told' = told
         /\ grant'.generation \in Nat /\ grant'.generation >= grant.generation
         /\ facts.session /\ ~facts'.session => pc'[u] = "snapshot" /\ kind'[u] \in {"lock", "reset"}
  <1>0. grant.generation \in Nat /\ grant.generation + 1 \in Nat /\ u \in Task
    BY DEF TypeOK
  <1>1. CASE Arrive(u)
    <2>1. grant' = grant /\ told' = told
      BY <1>1 DEF Arrive, Ask, AskToRevoke, OpenSession, CloseSession, ChangeRecovery, SetUp
    <2>2. facts.session /\ ~facts'.session => CloseSession(u)
      BY <1>1 DEF Arrive, Ask, AskToRevoke, OpenSession, ChangeRecovery, SetUp, engineVars, FactsBecome, TypeOK, Facts
    <2>3. CloseSession(u) => pc'[u] = "snapshot" /\ kind'[u] \in {"lock", "reset"}
      BY DEF CloseSession, Begin, Goto, TypeOK
    <2> QED BY <1>0, <2>1, <2>2, <2>3
  <1>2. CASE Step(u)
    <2>1. facts' = facts
      BY <1>2 DEF Step, Resolve, Announce, Receive, ChangeGrant, Snapshot, QueryRecovery,
         QueryEncryption, Reset, Seed, ReadGrant, Fail, Observe, Publish, RunHandler, Reply, engineVars
    <2>2. ~Publish(u) => told' = told
      BY <1>2 DEF Step, Resolve, Announce, Receive, ChangeGrant, Snapshot, QueryRecovery,
         QueryEncryption, Reset, Seed, ReadGrant, Fail, Observe, RunHandler, Reply
    <2>3. CASE ChangeGrant(u) \/ Reset(u) \/ Seed(u)
      <3>1. grant' = grant \/ \E v \in Value : GrantBecomes(v)
        BY <2>3 DEF ChangeGrant, Reset, Seed, Value
      <3>2. grant'.published = grant.published /\ grant'.generation \in {grant.generation, grant.generation + 1}
        BY <3>1, Changes
      <3> QED BY <1>0, <2>1, <2>2, <3>2
    <2>4. CASE Observe(u)
      <3>1. grant'.generation \in {grant.generation, grant.generation + 1}
        BY <2>4 DEF Observe, TypeOK
      <3> QED BY <1>0, <2>1, <2>2, <2>4, <3>1
    <2>5. CASE ~(ChangeGrant(u) \/ Reset(u) \/ Seed(u) \/ Observe(u))
      <3>1. grant' = grant
        BY <1>2, <2>5 DEF Step, Resolve, Announce, Receive, Snapshot, QueryRecovery,
           QueryEncryption, ReadGrant, Fail, Publish, RunHandler, Reply
      <3> QED BY <1>0, <2>1, <2>2, <3>1
    <2> QED BY <2>3, <2>4, <2>5
  <1> QED BY <1>1, <1>2

\* Who is about to observe or to publish has resolved a status to tell.
LEMMA OnlyTellersObserve ==
  ASSUME TypeOK, LocalsFit, NEW u \in Task, Arrive(u) \/ Step(u),
         pc[u] \in {"observe", "publish"} => u \in Telling
  PROVE  /\ pc'[u] \in {"observe", "publish"} => u \in Telling'
         /\ pc'[u] = "publish" => Observe(u)
  <1>1. CASE Arrive(u)
    BY <1>1 DEF Arrive, Ask, AskToRevoke, OpenSession, CloseSession, ChangeRecovery, SetUp, Begin, Goto, TypeOK
  <1>2. CASE Announce(u) \/ Receive(u) \/ ChangeGrant(u) \/ Seed(u) \/ Reply(u)
    BY <1>2 DEF Announce, Receive, ChangeGrant, Seed, Reply, Goto, TypeOK
  <1>3. CASE Snapshot(u) \/ QueryRecovery(u) \/ QueryEncryption(u)
    BY <1>3 DEF Snapshot, QueryRecovery, QueryEncryption, Goto, TypeOK
  <1>4. CASE Reset(u) \/ ReadGrant(u)
    <2>1. \E st : Resolved(u, st) BY <1>4 DEF Reset, ReadGrant
    <2> QED BY <2>1 DEF Resolved, Return, Goto, Telling, TypeOK
  <1>5. CASE Fail(u) \/ Publish(u) \/ RunHandler(u)
    BY <1>5 DEF Fail, Publish, RunHandler, Return, Goto, TypeOK
  <1>6. CASE Observe(u)
    BY <1>6 DEF Observe, Return, Goto, Telling, TypeOK
  <1> QED BY <1>1, <1>2, <1>3, <1>4, <1>5, <1>6 DEF Step, Resolve

\* In turn, what is published is what was told last.
LEMMA PublishedStep ==
  ASSUME TypeOK, TypeOK', LocalsFit, StatusesAreCurrent, NoticesTakeTurns, PublishedIsTold, [Next]_vars
  PROVE  PublishedIsTold'
  <1>1. CASE UNCHANGED vars
    BY <1>1 DEF vars, engineVars, PublishedIsTold, Telling
  <1>2. CASE Next
    <2>1. PICK u \in Task : Arrive(u) \/ Step(u)
      BY <1>2 DEF Next
    <2>2. \A t \in Task \ {u} : pc'[t] = pc[t] /\ kind'[t] = kind[t] /\ seen'[t] = seen[t]
      BY <2>1, OthersStay, OthersRemember
    <2>3. \A t \in Task : pc'[t] \in {"observe", "publish"} => t \in Telling'
      BY <2>1, <2>2, OnlyTellersObserve DEF PublishedIsTold, Telling
    <2>4. /\ grant.generation \in Nat /\ grant'.generation \in Nat /\ grant'.generation >= grant.generation
          /\ told.generation \in Nat
      BY <2>1, AnnouncedBySteps DEF TypeOK, Status, Nothing
    <2>5. CASE Observe(u)
      <3>1. u \in Noticing /\ seen[u] \in Status /\ told' = told
        BY <2>5 DEF Observe, Noticing, PublishedIsTold, LocalsFit
      <3>2. \A t \in Task \ {u} : pc[t] # "publish"
        BY <3>1 DEF NoticesTakeTurns, Noticing, PublishedIsTold
      <3>3. CASE pc'[u] = "publish"
        <4>1. grant'.published = {seen[u].unlocked} /\ seen'[u].unlocked = seen[u].unlocked
          <5>1. /\ \E n \in Nat : grant' = [grant EXCEPT !.generation = n, !.published = {seen[u].unlocked}]
                /\ seen' = [seen EXCEPT ![u] = [seen[u] EXCEPT !.generation = grant'.generation]]
            BY <2>4, <2>5, <3>3, Returns DEF Observe, Learn, TypeOK
          <5> QED BY <3>1, <5>1 DEF TypeOK, Status
        <4> QED BY <2>2, <2>3, <2>4, <3>1, <3>2, <3>3, <4>1 DEF PublishedIsTold
      <3>4. CASE pc'[u] # "publish"
        <4>1. grant' = grant
          BY <2>5, <3>4 DEF Observe, Goto, TypeOK
        <4>2. \A t \in Task : pc[t] # "publish"
          BY <2>5, <3>2 DEF Observe
        <4> QED BY <2>2, <2>3, <2>4, <3>1, <3>4, <4>1, <4>2 DEF PublishedIsTold
      <3> QED BY <3>3, <3>4
    <2>6. CASE Publish(u)
      <3>1. u \in Noticing /\ told' = seen[u] /\ grant' = grant
        BY <2>6 DEF Publish, Noticing, PublishedIsTold
      <3>2. /\ grant.published = {seen[u].unlocked} /\ seen[u].generation <= grant.generation
            /\ pc'[u] # "publish"
        BY <2>1, <2>6, Returns DEF Publish, PublishedIsTold, StatusesAreCurrent
      <3> QED BY <2>2, <2>3, <3>1, <3>2 DEF PublishedIsTold
    <2>7. CASE ~(Observe(u) \/ Publish(u))
      <3>1. grant'.published = grant.published /\ told' = told
        BY <2>1, <2>7, AnnouncedBySteps
      <3>2. pc'[u] # "publish" /\ pc[u] # "publish"
        <4>1. pc'[u] # "publish"
          BY <2>1, <2>7, OnlyTellersObserve DEF PublishedIsTold
        <4>2. pc[u] # "publish"
          BY <2>1, <2>7 DEF Step, Resolve, Arrive, Ask, AskToRevoke, OpenSession, CloseSession,
             ChangeRecovery, SetUp, Begin, Announce, Receive, ChangeGrant, Snapshot, QueryRecovery,
             QueryEncryption, Reset, Seed, ReadGrant, Fail, Querying, RunHandler, Reply
        <4> QED BY <4>1, <4>2
      <3>3. told.generation <= grant'.generation
        BY <2>4 DEF PublishedIsTold
      <3> QED BY <2>2, <2>3, <3>1, <3>2, <3>3 DEF PublishedIsTold
    <2> QED BY <2>5, <2>6, <2>7
  <1> QED BY <1>1, <1>2

\* Without a session nobody comes to think there is one.
LEMMA NobodyHopes ==
  ASSUME TypeOK, LocalsFit, PublishedIsTold, NEW u \in Task, Arrive(u) \/ Step(u), ~facts.session,
         u \in MayTellUnlocked'
  PROVE  u \in MayTellUnlocked
  <1> USE DEF MayTellUnlocked, Telling
  <1>1. CASE Arrive(u)
    BY <1>1 DEF Arrive, Ask, AskToRevoke, OpenSession, CloseSession, ChangeRecovery, SetUp, Begin, Goto, TypeOK
  <1>2. CASE Announce(u) \/ Receive(u) \/ ChangeGrant(u) \/ Reply(u) \/ Snapshot(u) \/ QueryRecovery(u)
    BY <1>2 DEF Announce, Receive, ChangeGrant, Reply, Snapshot, QueryRecovery, Goto, TypeOK
  <1>3. CASE QueryEncryption(u)
    BY <1>3 DEF QueryEncryption, Goto, Learn, TypeOK
  <1>4. CASE Seed(u)
    BY <1>4 DEF Seed, Goto, TypeOK
  <1>5. CASE Reset(u)
    BY <1>5, Resolves DEF Reset, Resolved, Return, Goto, Learn, TypeOK
  <1>6. CASE ReadGrant(u)
    <2>1. seen[u] \in Reading
      BY <1>6 DEF ReadGrant, LocalsFit
    <2> QED BY <1>6, <2>1 DEF ReadGrant, Resolved, Return, Goto, Learn, TypeOK, Reading
  <1>7. CASE Fail(u) \/ Publish(u) \/ RunHandler(u)
    BY <1>7 DEF Fail, Publish, RunHandler, Return, Goto, TypeOK
  <1>8. CASE Observe(u)
    <2>1. seen[u] \in Status /\ u \in Telling
      BY <1>8 DEF Observe, LocalsFit, PublishedIsTold
    <2> QED BY <1>8, <2>1 DEF Observe, Return, Goto, Learn, TypeOK, Status
  <1> QED BY <1>1, <1>2, <1>3, <1>4, <1>5, <1>6, <1>7, <1>8 DEF Step, Resolve

\* Who will tell a lock goes on to tell it, when no query fails and the
\* session stays away, or has told it, or has found it told.
LEMMA LockersGoOn ==
  ASSUME TypeOK, LocalsFit, NoticesTakeTurns, PublishedIsTold, Failing = {}, NEW u \in Task, Arrive(u) \/ Step(u),
         ~facts.session, u \in WillTellLocked
  PROVE  \/ u \in WillTellLocked'
         \/ /\ u \in Noticing /\ u \notin MayTellUnlocked'
            /\ told' # [unlocked |-> TRUE, generation |-> grant'.generation]
  <1> DEFINE Done == /\ u \in Noticing /\ u \notin MayTellUnlocked'
                     /\ told' # [unlocked |-> TRUE, generation |-> grant'.generation]
  <1>0. u \in Telling
    BY DEF WillTellLocked
  <1>1. ~Arrive(u) /\ ~(Announce(u) \/ Receive(u) \/ ChangeGrant(u) \/ RunHandler(u) \/ Reply(u))
    BY DEF WillTellLocked, Arrive, Ask, AskToRevoke, OpenSession, CloseSession, ChangeRecovery, SetUp,
       Begin, Announce, Receive, ChangeGrant, RunHandler, Reply
  <1>2. CASE Snapshot(u) \/ QueryRecovery(u)
    BY <1>0, <1>2 DEF Snapshot, QueryRecovery, WillTellLocked, Telling, Goto, TypeOK
  <1>3. CASE QueryEncryption(u)
    BY <1>0, <1>3 DEF QueryEncryption, WillTellLocked, Telling, Goto, Learn, TypeOK
  <1>4. CASE Reset(u)
    BY <1>0, <1>4 DEF Reset, Resolved, WillTellLocked, Telling, Goto, Learn, TypeOK
  <1>5. CASE Seed(u)
    BY <1>0, <1>5 DEF Seed, WillTellLocked, Telling, Goto, TypeOK
  <1>6. CASE ReadGrant(u)
    <2>1. (grant.value = "given" /\ seen[u].ready) = FALSE
      BY <1>6 DEF ReadGrant, WillTellLocked
    <2>2. Resolved(u, [unlocked |-> FALSE, generation |-> grant.generation])
      BY <1>6, <2>1 DEF ReadGrant
    <2> QED BY <1>0, <2>2 DEF Resolved, WillTellLocked, Telling, Goto, Learn, TypeOK
  <1>7. ~Fail(u)
    BY DEF Fail
  <1>8. CASE Observe(u)
    <2>1. seen[u] \in Status /\ ~seen[u].unlocked
      BY <1>8 DEF Observe, WillTellLocked, LocalsFit
    <2>2. CASE pc'[u] = "publish"
      <3>1. kind'[u] = kind[u] /\ seen'[u].unlocked = seen[u].unlocked
        BY <1>8, <2>1, <2>2, Returns DEF Observe, Learn, TypeOK, Status
      <3> QED BY <1>0, <2>1, <2>2, <3>1 DEF WillTellLocked, Telling
    <2>3. CASE pc'[u] # "publish"
      <3>1. Return(u) /\ grant' = grant /\ told' = told /\ grant.published = {seen[u].unlocked}
        BY <1>8, <2>3 DEF Observe, Goto, TypeOK
      <3>2. pc'[u] \in {"idle", "snapshot", "done"}
        BY <3>1, Returns
      <3>3. u \in Noticing /\ u \notin MayTellUnlocked'
        BY <1>0, <1>8, <3>2 DEF Observe, Noticing, MayTellUnlocked
      <3>4. \A t \in Task : pc[t] # "publish"
        BY <1>8, <3>3 DEF Observe, NoticesTakeTurns, Noticing, PublishedIsTold
      <3>5. told # Nothing => told.unlocked = seen[u].unlocked
        BY <3>1, <3>4 DEF PublishedIsTold
      <3> QED BY <2>1, <3>1, <3>3, <3>5, AnAnswer
    <2> QED BY <2>2, <2>3
  <1>9. CASE Publish(u)
    BY <1>0, <1>9, Returns DEF Publish, WillTellLocked, Noticing, MayTellUnlocked
  <1> QED BY <1>1, <1>2, <1>3, <1>4, <1>5, <1>6, <1>7, <1>8, <1>9 DEF Step, Resolve

\* A lock goes on being on its way, or arrives.
LEMMA WordStep ==
  ASSUME TypeOK, TypeOK', LocalsFit, NoticesTakeTurns, PublishedIsTold, LockIsOnItsWay, Failing = {},
         [Next]_vars
  PROVE  LockIsOnItsWay'
  <1>1. CASE UNCHANGED vars
    BY <1>1 DEF vars, engineVars, LockIsOnItsWay, ToldUnlocked, MayTellUnlocked, WillTellLocked, Telling
  <1>2. CASE Next
    <2>1. PICK u \in Task : Arrive(u) \/ Step(u)
      BY <1>2 DEF Next
    <2>2. \A t \in Task \ {u} : pc'[t] = pc[t] /\ kind'[t] = kind[t] /\ seen'[t] = seen[t]
      BY <2>1, OthersStay, OthersRemember
    <2> SUFFICES ASSUME ~facts'.session, ToldUnlocked' \/ MayTellUnlocked' # {}
                 PROVE  WillTellLocked' # {}
      BY DEF LockIsOnItsWay
    <2>3. CASE facts.session
      <3>1. pc'[u] = "snapshot" /\ kind'[u] \in {"lock", "reset"}
        BY <2>1, <2>3, AnnouncedBySteps
      <3> QED BY <3>1 DEF WillTellLocked, Telling
    <2>4. CASE ~facts.session
      <3>1. \A t \in MayTellUnlocked' : t \in MayTellUnlocked
        <4> SUFFICES ASSUME NEW t \in MayTellUnlocked' PROVE t \in MayTellUnlocked
          OBVIOUS
        <4>1. CASE t = u
          BY <2>1, <2>4, <4>1, NobodyHopes
        <4>2. CASE t # u
          BY <2>2, <4>2 DEF MayTellUnlocked, Telling
        <4> QED BY <4>1, <4>2
      <3>2. ToldUnlocked' => ToldUnlocked \/ u \in MayTellUnlocked
        <4>1. CASE Publish(u)
          <5>1. told' = seen[u] /\ u \in Telling
            BY <4>1 DEF Publish, PublishedIsTold
          <5>2. ToldUnlocked' => told'.unlocked = TRUE
            BY DEF ToldUnlocked
          <5>3. ToldUnlocked' => seen[u].unlocked
            BY <5>1, <5>2
          <5> QED BY <4>1, <5>1, <5>3 DEF Publish, MayTellUnlocked
        <4>2. CASE ~Publish(u)
          <5>1. told' = told /\ grant'.generation >= grant.generation /\ grant'.generation \in Nat
            BY <2>1, <4>2, AnnouncedBySteps
          <5>2. told.generation <= grant.generation /\ grant.generation \in Nat
            BY DEF PublishedIsTold, TypeOK
          <5>3. ToldUnlocked' => told.generation = grant'.generation
            BY <5>1 DEF ToldUnlocked
          <5>4. ToldUnlocked' => grant'.generation = grant.generation
            BY <5>1, <5>2, <5>3
          <5> QED BY <5>1, <5>4 DEF ToldUnlocked
        <4> QED BY <4>1, <4>2
      <3>3. PICK w \in WillTellLocked : TRUE
        BY <2>4, <3>1, <3>2 DEF LockIsOnItsWay
      <3>4. CASE w # u
        BY <2>2, <3>4 DEF WillTellLocked, Telling
      <3>5. CASE w = u
        <4> SUFFICES ASSUME u \notin WillTellLocked' PROVE FALSE
          OBVIOUS
        <4>1. /\ u \in Noticing /\ u \notin MayTellUnlocked'
              /\ told' # [unlocked |-> TRUE, generation |-> grant'.generation]
          BY <2>1, <2>4, <3>5, LockersGoOn
        <4>2. PICK t \in MayTellUnlocked' : TRUE
          BY <4>1 DEF ToldUnlocked
        <4>3. t \in MayTellUnlocked /\ t # u
          BY <3>1, <4>1
        <4>4. t \in Noticing
          BY <4>3 DEF MayTellUnlocked, Noticing
        <4> QED BY <4>1, <4>3, <4>4 DEF NoticesTakeTurns
      <3> QED BY <3>4, <3>5
    <2> QED BY <2>3, <2>4
  <1> QED BY <1>1, <1>2

\* Statuses told out of turn are all that leaves subscribers with a session
\* that is gone: as long as whoever has resolved a status observes and tells
\* it before the next one is resolved, and the engine answers, they learn of
\* every lock, for any number of requests of all kinds.
THEOREM OnlyLateNoticesMislead ==
  Failing = {} => (Spec /\ []NoticesTakeTurns => []SubscribersLearnTheLock)
  <1> SUFFICES ASSUME Failing = {}
               PROVE  Spec /\ []NoticesTakeTurns => []SubscribersLearnTheLock
    OBVIOUS
  <1>1. Init => PublishedIsTold /\ LockIsOnItsWay
    <2> SUFFICES ASSUME Init PROVE PublishedIsTold /\ LockIsOnItsWay
      OBVIOUS
    <2>1. /\ told = Nothing /\ grant.generation = 0 /\ Nothing.generation = 0
          /\ \A t \in Task : pc[t] = "idle"
      BY DEF Init, Nothing
    <2> QED BY <2>1, AnAnswer DEF PublishedIsTold, LockIsOnItsWay, ToldUnlocked, MayTellUnlocked, Telling
  <1>2. /\ TypeOK /\ TypeOK' /\ LocalsFit /\ StatusesAreCurrent /\ NoticesTakeTurns
        /\ PublishedIsTold /\ LockIsOnItsWay /\ [Next]_vars
        => PublishedIsTold' /\ LockIsOnItsWay'
    BY PublishedStep, WordStep
  <1>3. LockIsOnItsWay => SubscribersLearnTheLock
    BY DEF LockIsOnItsWay, SubscribersLearnTheLock, Settled, ToldUnlocked, WillTellLocked, Telling, Task
  <1> QED BY <1>1, <1>2, <1>3, Invariance, PTL DEF Spec

=============================================================================
