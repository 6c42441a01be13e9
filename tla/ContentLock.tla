---------------------------- MODULE ContentLock ----------------------------
(***************************************************************************)
(* The content lock of the daemon: who may read history-derived content.    *)
(*                                                                         *)
(* A grant (unset, given or withdrawn) and a generation live behind one     *)
(* mutex; whether content may be shown also depends on facts only the       *)
(* engine knows.  resolve_status gathers both in several steps, and every   *)
(* request, the watcher of encryption events and the notifications spawned  *)
(* after a change of the facts run it concurrently.  A reply to a gated     *)
(* client is checked twice: the status before its handler runs, and the     *)
(* generation after.                                                        *)
(*                                                                         *)
(* Each element of Call is one HTTP request or engine event; a step is one  *)
(* access to the mutex, to a channel, or one answer of the engine.          *)
(***************************************************************************)
EXTENDS Integers

CONSTANTS
  Call,      \* requests and engine events; bounds how often anything happens
  Watcher,   \* the task of run_watcher
  Kind,      \* Kind[c]: what the call c may be
  Failing,   \* the kinds of tasks whose queries the engine may fail to answer
  Opened     \* the states of the engine a daemon may start with

AllKinds ==
  {"read", "status", "unlock", "revoke", "lock", "reset", "resume", "recovery", "setup"}

\* Whether the space is initialized, its session ready (which needs the space),
\* and the background ready, which it is not while the profile is in recovery.
Facts == [initialized : BOOLEAN, session : BOOLEAN, background : BOOLEAN]

ASSUME ConstantsAssumption ==
  /\ Watcher \notin Call
  /\ Kind \in [Call -> SUBSET AllKinds]
  /\ Failing \subseteq AllKinds \cup {"watch"}
  /\ Opened \subseteq {f \in Facts : f.session => f.initialized}

VARIABLES
  facts,    \* what the engine knows
  grant,    \* the fields of Grant; published is empty or holds one answer
  told,     \* the last content_lock.changed event
  events,   \* encryption events the watcher has not received yet
  pc,       \* where each task is
  kind,     \* what each task is
  seen,     \* what each task has learnt so far, see Before, Reading and Status
  lapsed    \* history: the facts did not allow content at some moment since
            \* the grant last changed; no decision of the code can see it

engineVars == <<facts, events>>
vars == <<engineVars, grant, told, pc, kind, seen, lapsed>>

-----------------------------------------------------------------------------

Task == Call \cup {Watcher}

\* The queries resolve_status sends to the engine.
Querying == {"recovery", "encryption", "seed"}

Phase ==
  {"idle", "announce", "grant", "snapshot", "reset", "now", "handler", "reply",
   "observe", "publish", "answered", "done"} \cup Querying

Value == {"unset", "given", "withdrawn"}

\* The locals of resolve_status: the grant as it was when it was called, with
\* the answer of the engine about the session, and its return value.
Before == [unset : BOOLEAN, generation : Nat]
Reading == [ready : BOOLEAN, generation : Nat]
Status == [unlocked : BOOLEAN, generation : Nat]
Nothing == [generation |-> 0]

TypeOK ==
  /\ facts \in Facts
  /\ grant \in [value : Value, generation : Nat, published : SUBSET BOOLEAN]
  /\ told \in Status \cup {Nothing}
  /\ events \in Nat
  /\ pc \in [Task -> Phase]
  /\ kind \in [Task -> AllKinds \cup {"none", "watch"}]
  /\ seen \in [Task -> Before \cup Reading \cup Status \cup {Nothing}]
  /\ lapsed \in BOOLEAN

\* The facts under which resolve_status leaves the grant alone.
Usable(f) == f.initialized /\ f.background

\* A daemon starts with no grant, whatever state the engine opened.
Init ==
  /\ facts \in Opened
  /\ grant = [value |-> "unset", generation |-> 0, published |-> {}]
  /\ told = Nothing
  /\ events = 0
  /\ pc = [t \in Task |-> "idle"]
  /\ kind = [t \in Task |-> "none"]
  /\ seen = [t \in Task |-> Nothing]
  /\ lapsed = ~Usable(facts)

-----------------------------------------------------------------------------
(* Helpers.                                                                 *)

Goto(t, phase) == pc' = [pc EXCEPT ![t] = phase]

FactsBecome(f) ==
  /\ facts' = f
  /\ lapsed' = (lapsed \/ ~Usable(f))

\* A change of the grant is a new generation.
GrantBecomes(value) ==
  /\ grant' = [grant EXCEPT !.value = value, !.generation = @ + 1]
  /\ lapsed' = ~Usable(facts)

Learn(t, what) == seen' = [seen EXCEPT ![t] = what]

\* The status a task got was published, or was no news, or could not be read:
\* unlock_handler and revoke_handler still resolve the status they reply.
Return(t) ==
  /\ Learn(t, Nothing)
  /\ \/ /\ kind[t] \in {"unlock", "revoke"} /\ Goto(t, "snapshot")
        /\ kind' = [kind EXCEPT ![t] = "status"]
     \/ kind[t] = "watch" /\ Goto(t, "idle") /\ UNCHANGED kind
     \/ kind[t] \notin {"unlock", "revoke", "watch"} /\ Goto(t, "done") /\ UNCHANGED kind

\* resolve_status returns to its caller.
Resolved(t, st) ==
  \/ kind[t] = "read" /\ st.unlocked /\ Goto(t, "handler") /\ Learn(t, st) /\ UNCHANGED kind
  \/ (kind[t] = "status" \/ (kind[t] = "read" /\ ~st.unlocked)) /\ Return(t)
  \/ kind[t] \notin {"read", "status"} /\ Goto(t, "observe") /\ Learn(t, st) /\ UNCHANGED kind

-----------------------------------------------------------------------------
(* How calls begin.                                                         *)

Begin(t, k) ==
  /\ t \in Call /\ pc[t] = "idle" /\ k \in Kind[t]
  /\ kind' = [kind EXCEPT ![t] = k]

\* The gate before a content route, or GET /content-lock.
Ask(t) ==
  /\ \E k \in {"read", "status"} : Begin(t, k)
  /\ Goto(t, "snapshot")
  /\ UNCHANGED <<engineVars, grant, told, seen, lapsed>>

AskToRevoke(t) ==
  /\ Begin(t, "revoke")
  /\ Goto(t, "grant")
  /\ UNCHANGED <<engineVars, grant, told, seen, lapsed>>

\* The engine opens the session, for the passphrase of an unlock or the key
\* of a resume; the space must exist.
OpenSession(t) ==
  /\ \E k \in {"unlock", "resume"} : Begin(t, k)
  /\ facts.initialized
  /\ FactsBecome([facts EXCEPT !.session = TRUE])
  /\ Goto(t, "announce")
  /\ UNCHANGED <<events, grant, told, seen>>

\* The engine locks the session or wipes the space; a notification runs.
CloseSession(t) ==
  /\ \/ Begin(t, "lock")  /\ FactsBecome([facts EXCEPT !.session = FALSE])
     \/ Begin(t, "reset") /\ FactsBecome([facts EXCEPT !.session = FALSE, !.initialized = FALSE])
  /\ Goto(t, "snapshot")
  /\ UNCHANGED <<events, grant, told, seen>>

\* The engine enters or leaves profile recovery and says so.
ChangeRecovery(t) ==
  /\ Begin(t, "recovery")
  /\ FactsBecome([facts EXCEPT !.background = ~@])
  /\ Goto(t, "announce")
  /\ UNCHANGED <<events, grant, told, seen>>

\* A space is created or joined; nothing tells the content lock.
SetUp(t) ==
  /\ Begin(t, "setup")
  /\ ~facts.initialized
  /\ FactsBecome([facts EXCEPT !.initialized = TRUE, !.session = TRUE])
  /\ Goto(t, "done")
  /\ UNCHANGED <<events, grant, told, seen>>

\* The encryption event is broadcast after the engine has acted.
Announce(t) ==
  /\ pc[t] = "announce"
  /\ events' = events + 1
  /\ Goto(t, IF kind[t] = "unlock" THEN "grant" ELSE "done")
  /\ UNCHANGED <<facts, grant, told, kind, seen, lapsed>>

\* A slip: the watcher does not wait for an event.
ReceiveAnyway(t) ==
  /\ t = Watcher /\ pc[t] = "idle"
  /\ events' = events - 1
  /\ kind' = [kind EXCEPT ![t] = "watch"]
  /\ Goto(t, "snapshot")
  /\ UNCHANGED <<facts, grant, told, seen, lapsed>>

\* run_watcher receives an event; it handles one at a time.
Receive(t) ==
  /\ t = Watcher /\ pc[t] = "idle" /\ events > 0
  /\ events' = events - 1
  /\ kind' = [kind EXCEPT ![t] = "watch"]
  /\ Goto(t, "snapshot")
  /\ UNCHANGED <<facts, grant, told, seen, lapsed>>

\* ContentLock::grant and ContentLock::revoke.
ChangeGrant(t) ==
  /\ pc[t] = "grant"
  /\ \/ kind[t] = "unlock" /\ GrantBecomes("given")
     \/ kind[t] = "revoke" /\ GrantBecomes("withdrawn")
  /\ Goto(t, "snapshot")
  /\ UNCHANGED <<engineVars, told, kind, seen>>

-----------------------------------------------------------------------------
(* resolve_status.                                                          *)

Snapshot(t) ==
  /\ pc[t] = "snapshot"
  /\ Learn(t, [unset |-> grant.value = "unset", generation |-> grant.generation])
  /\ Goto(t, "recovery")
  /\ UNCHANGED <<engineVars, grant, told, kind, lapsed>>

QueryRecovery(t) ==
  /\ pc[t] = "recovery"
  /\ Goto(t, IF facts.background THEN "encryption" ELSE "reset")
  /\ UNCHANGED <<engineVars, grant, told, kind, seen, lapsed>>

QueryEncryption(t) ==
  /\ pc[t] = "encryption"
  /\ Goto(t, IF ~facts.initialized THEN "reset" ELSE IF seen[t].unset THEN "seed" ELSE "now")
  /\ Learn(t, [ready |-> facts.session, generation |-> seen[t].generation])
  /\ UNCHANGED <<engineVars, grant, told, kind, lapsed>>

\* A slip: the grant is forgotten without comparing generations.
ResetAnyway(t) ==
  /\ pc[t] = "reset"
  /\ GrantBecomes("unset")
  /\ Resolved(t, [unlocked |-> FALSE, generation |-> grant.generation])
  /\ UNCHANGED <<engineVars, told>>

\* reset_if_generation.  Nobody uses the generation of a locked status.
Reset(t) ==
  /\ pc[t] = "reset"
  /\ \/ grant.generation = seen[t].generation /\ GrantBecomes("unset")
     \/ grant.generation # seen[t].generation /\ UNCHANGED <<grant, lapsed>>
  /\ Resolved(t, [unlocked |-> FALSE, generation |-> grant.generation])
  /\ UNCHANGED <<engineVars, told>>

\* QuerySettings and seed_if_generation; auto_unlock_enabled may be set
\* either way by then.
Seed(t) ==
  /\ pc[t] = "seed"
  /\ \/ /\ grant.generation = seen[t].generation /\ grant.value = "unset"
        /\ GrantBecomes("given") \/ GrantBecomes("withdrawn")
     \/ /\ ~(grant.generation = seen[t].generation /\ grant.value = "unset")
        /\ UNCHANGED <<grant, lapsed>>
  /\ Goto(t, "now")
  /\ UNCHANGED <<engineVars, told, kind, seen>>

ReadGrant(t) ==
  /\ pc[t] = "now"
  /\ Resolved(t, [unlocked |-> grant.value = "given" /\ seen[t].ready, generation |-> grant.generation])
  /\ UNCHANGED <<engineVars, grant, told, lapsed>>

\* Any query may fail; the caller replies 503, or logs and goes on.
Fail(t) ==
  /\ pc[t] \in Querying /\ kind[t] \in Failing
  /\ Return(t)
  /\ UNCHANGED <<engineVars, grant, told, lapsed>>

-----------------------------------------------------------------------------
(* What callers do with the status.                                         *)

\* A slip: an explicit change is announced only if the answer changed.
ObserveChanges(t) ==
  /\ pc[t] = "observe"
  /\ \/ /\ grant.published # {seen[t].unlocked}
        /\ grant' = [grant EXCEPT !.generation = @ + 1, !.published = {seen[t].unlocked}]
        /\ Learn(t, [seen[t] EXCEPT !.generation = grant'.generation])
        /\ Goto(t, "publish")
        /\ UNCHANGED kind
     \/ grant.published = {seen[t].unlocked} /\ Return(t) /\ UNCHANGED grant
  /\ UNCHANGED <<engineVars, told, lapsed>>

\* ContentLock::observe: an explicit change of the grant is always news.
Observe(t) ==
  /\ pc[t] = "observe"
  /\ LET changed == grant.published # {seen[t].unlocked}
         force   == kind[t] \in {"unlock", "revoke"}
     IN \/ /\ changed \/ force
           /\ grant' = [grant EXCEPT !.generation = IF force THEN @ ELSE @ + 1,
                                     !.published = {seen[t].unlocked}]
           /\ Learn(t, [seen[t] EXCEPT !.generation = grant'.generation])
           /\ Goto(t, "publish")
           /\ UNCHANGED kind
        \/ ~(changed \/ force) /\ Return(t) /\ UNCHANGED grant
  /\ UNCHANGED <<engineVars, told, lapsed>>

Publish(t) ==
  /\ pc[t] = "publish"
  /\ told' = seen[t]
  /\ Return(t)
  /\ UNCHANGED <<engineVars, grant, lapsed>>

\* The route's handler gets content from the engine only while the session
\* is ready; its error needs no second check.
RunHandler(t) ==
  /\ pc[t] = "handler"
  /\ \/ facts.session /\ Goto(t, "reply") /\ UNCHANGED <<kind, seen>>
     \/ ~facts.session /\ Return(t)
  /\ UNCHANGED <<engineVars, grant, told, lapsed>>

\* A slip: what the gate saw first decides.
ReplyUnchecked(t) ==
  /\ pc[t] = "reply"
  /\ Goto(t, "answered")
  /\ Learn(t, Nothing)
  /\ UNCHANGED <<engineVars, grant, told, kind, lapsed>>

\* The answer leaves if the generation is still the one the gate saw.
Reply(t) ==
  /\ pc[t] = "reply"
  /\ Goto(t, IF grant.generation = seen[t].generation THEN "answered" ELSE "done")
  /\ Learn(t, Nothing)
  /\ UNCHANGED <<engineVars, grant, told, kind, lapsed>>

-----------------------------------------------------------------------------

Arrive(t) ==
  Ask(t) \/ AskToRevoke(t) \/ OpenSession(t) \/ CloseSession(t) \/ ChangeRecovery(t) \/ SetUp(t)

Resolve(t) ==
  Snapshot(t) \/ QueryRecovery(t) \/ QueryEncryption(t) \/ Reset(t) \/ Seed(t) \/ ReadGrant(t)

Step(t) ==
  \/ Announce(t) \/ Receive(t) \/ ChangeGrant(t)
  \/ Resolve(t) \/ Fail(t) \/ Observe(t) \/ Publish(t) \/ RunHandler(t) \/ Reply(t)

Next == \E t \in Task : Arrive(t) \/ Step(t)

Spec == Init /\ [][Next]_vars

-----------------------------------------------------------------------------
(* Safety.                                                                  *)

Answered(t) == pc[t] = "reply" /\ pc'[t] = "answered"

\* "the answer must not outlive the grant" (content_gate_middleware): content
\* leaves the daemon only while access is granted, whatever was granted,
\* withdrawn, forgotten or seeded while the handler ran.
AnswersStayWithinGrant ==
  [][\A t \in Task : Answered(t) => grant.value = "given"]_vars

\* What a user decided stands: a grant or a withdrawal is forgotten only if
\* the space was gone or in recovery at some moment since that decision,
\* however long a resolve_status that saw it gone takes to say so.
DecisionsOutliveReaders ==
  [][grant.value # "unset" /\ grant'.value = "unset" => lapsed]_vars

\* A handler replies to an unlock or a revocation only after subscribers were
\* sent an event of that generation or a later one, also when the answer is
\* the one they knew; only a status nobody could read excuses it.
DecisionsAreTold ==
  [][\A t \in Call :
       kind[t] \in {"unlock", "revoke"} /\ kind'[t] = "status" /\ pc[t] \notin Querying
         => told'.generation >= seen[t].generation]_vars

-----------------------------------------------------------------------------
(* What makes the properties above inductive.                               *)

\* Which locals a task has in which phase, and what kinds get there.
LocalsFit ==
  \A t \in Task :
    /\ pc[t] \in {"recovery", "encryption"} => seen[t] \in Before
    /\ pc[t] \in {"seed", "now"} => seen[t] \in Reading
    /\ pc[t] \in {"observe", "publish", "handler", "reply"} => seen[t] \in Status
    /\ pc[t] \in {"handler", "reply"} => kind[t] = "read"
    /\ pc[t] = "idle" => kind[t] \notin {"unlock", "revoke"}

\* Nobody knows a generation that has not been, and the value is that of its
\* generation.
StatusesAreCurrent ==
  \A t \in Task :
    /\ seen[t].generation <= grant.generation
    /\ pc[t] \in {"handler", "reply"} /\ seen[t].generation = grant.generation => grant.value = "given"

\* Facts that do not allow content are in the history, and whoever is about
\* to forget a grant saw them since that grant was made.
ResetsAreDue ==
  /\ ~Usable(facts) => lapsed
  /\ \A t \in Task : pc[t] = "reset" /\ seen[t].generation = grant.generation => lapsed

-----------------------------------------------------------------------------
(* What the source's comments say and these steps do not keep.              *)

\* The last thing noticed is that content is locked, and nothing else waits
\* to be noticed.
NoticedLocked ==
  /\ grant.published = {FALSE}
  /\ events = 0 /\ pc[Watcher] = "idle"
  /\ \A t \in Call : pc[t] \in {"idle", "done", "answered"} \/ kind[t] \in {"read", "status"}

\* "A change of the underlying facts (session lost, recovery entered)
\* advances the generation too, so in-flight responses from before it are
\* recognisable" (ContentLock::observe): no content leaves a daemon that lost
\* its session and has noticed.
LostSessionStopsAnswers ==
  [][\A t \in Task : Answered(t) /\ NoticedLocked => facts.session /\ Usable(facts)]_vars

\* Nothing is under way: every change has had its turn to be noticed.
Settled ==
  /\ events = 0 /\ pc[Watcher] = "idle"
  /\ \A t \in Call : pc[t] \in {"idle", "done", "answered"}

\* "Losing the session takes content visibility with it; tell content-lock
\* subscribers" (lock_handler): once all is settled, subscribers do not take
\* content for unlocked in a daemon without a session.
SubscribersLearnTheLock ==
  Settled /\ ~facts.session => told # [unlocked |-> TRUE, generation |-> grant.generation]

\* Who has resolved a status it will tell, and has not told it yet.
Telling == {t \in Task : kind[t] \notin {"read", "status"}}
Noticing == {t \in Telling : pc[t] \in {"reset", "seed", "now", "observe", "publish"}}

\* No status is resolved while another waits to be observed and told.
NoticesTakeTurns == \A s, t \in Noticing : s = t

\* What a task will say, as far as it has looked at the session.
WillTellLocked ==
  {t \in Telling :
     \/ pc[t] \in {"snapshot", "recovery", "encryption", "reset"}
     \/ pc[t] \in {"seed", "now"} /\ ~seen[t].ready
     \/ pc[t] \in {"observe", "publish"} /\ ~seen[t].unlocked}

MayTellUnlocked ==
  {t \in Telling :
     \/ pc[t] \in {"seed", "now"} /\ seen[t].ready
     \/ pc[t] \in {"observe", "publish"} /\ seen[t].unlocked}

ToldUnlocked == told = [unlocked |-> TRUE, generation |-> grant.generation]

\* In turn, what is published is what was told, or what is about to be.
PublishedIsTold ==
  /\ \A t \in Task : pc[t] \in {"observe", "publish"} => t \in Telling
  /\ \A t \in Task : pc[t] = "publish" => grant.published = {seen[t].unlocked}
  /\ (\A t \in Task : pc[t] # "publish") /\ told # Nothing => grant.published = {told.unlocked}
  /\ told.generation <= grant.generation

\* Without a session, whoever was told of it or is about to be is told again.
LockIsOnItsWay ==
  ~facts.session /\ (ToldUnlocked \/ MayTellUnlocked # {}) => WillTellLocked # {}

=============================================================================
