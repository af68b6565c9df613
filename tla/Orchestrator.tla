---------------------------- MODULE Orchestrator ----------------------------
(***************************************************************************)
(* The dispatch loop (src/scripts/orchestrate.py) with the files it shares *)
(* with the Claude session that runs workers and bug scanners: MAP.md, the *)
(* REVISE entries of the task files, the intent and the result envelopes.  *)
(*                                                                         *)
(* One run of orchestrate.py is a cycle: heal stale workers, read MAP.md,  *)
(* apply worker results, apply scanner pairs, decide, carry the decision   *)
(* out, exit.  Every write to disk is a step of its own: a stage only sets *)
(* up `work', the writes it is about to make, and the next stage starts    *)
(* when all are made.  A crash, an uncaught exception or a lock timeout    *)
(* may come between any two writes; the next cycle starts from the files.  *)
(***************************************************************************)
EXTENDS ActionDecider, FiniteSets

CONSTANTS
  MaxReviseRounds,  \* MAX_REVISE_ROUNDS
  Breakable,        \* tasks whose file may stop and start to parse
  ExplicitLines,    \* may REVISE guidance carry a FAILING TASKS: line?
  ReAnswer,         \* does the session answer applied intents listed again?
  MaxIntents,       \* bound on the intents ever enqueued
  MaxCrashes,       \* bound on the cycles that stop half way
  MaxHeals,         \* bound on how often one task's heartbeat is found stale
  MaxErrors,        \* bound on the failing exit codes the session reports
  CanHold           \* may the user pause dispatch?

ASSUME BoundAssumption ==
  /\ Tasks \subseteq Nat /\ IsFiniteSet(Tasks)
  /\ MaxReviseRounds \in Nat
  /\ Breakable \subseteq Tasks
  /\ ExplicitLines \subseteq BOOLEAN
  /\ ReAnswer \in BOOLEAN /\ CanHold \in BOOLEAN
  /\ {MaxIntents, MaxCrashes, MaxHeals, MaxErrors} \subseteq Nat

VARIABLES
  status,    \* MAP.md: the status of every task
  regs,      \* REVISE entries in the Registers section of every task file
  intents,   \* .fsm-intents: envelopes, never deleted
  results,   \* .fsm-results: result envelopes not applied yet
  applied,   \* .fsm-results/applied: result envelopes applied
  broken,    \* tasks whose frontmatter does not parse at the moment
  hold,      \* checkpoint sentinel, paused session or skipped checkpoints
  closed,    \* session_close.py has reset the project
  pc,        \* stage of the running cycle
  snap,      \* the cycle's task list, as read
  dirty,     \* has a result been applied since the task list was read?
  pend,      \* results read and not yet considered
  work,      \* disk writes the current stage still has to make
  crashes,   \* cycles that stopped half way
  heals      \* how often the worker of every task was given up

files == <<status, regs, intents, results, applied>>
locals == <<pc, snap, dirty, pend, work>>
world == <<broken, hold, closed, crashes, heals>>
vars == <<files, locals, world>>

-----------------------------------------------------------------------------
(* Envelopes.  Two scanner intents of one gate share their pair key; a     *)
(* worker intent has none.  The uuid of an intent is a number here.        *)

Draft == [kind : {"worker", "advisor"}, paths : SUBSET Tasks,
          key : SUBSET Tasks, idx : {0, 1}]

Intent == [id : 1 .. MaxIntents, kind : {"worker", "advisor"},
           paths : SUBSET Tasks, key : SUBSET Tasks, idx : {0, 1}]

(* What the session reports: exit 0 with APPROVE (or a worker's success),  *)
(* a non-zero exit, or REVISE with the tasks its guidance names and        *)
(* whether it names them on a FAILING TASKS: line or in free text.         *)
Answer == [verdict : {"ok", "error", "revise"}, flagged : SUBSET Tasks,
           explicit : BOOLEAN]

Result == [of : Intent, ans : Answer]

Plain(v) == [verdict |-> v, flagged |-> {}, explicit |-> FALSE]

WorkerDraft(t) == [kind |-> "worker", paths |-> {t}, key |-> {}, idx |-> 0]

(* The two scanner shards: every second path of the sorted list, or the    *)
(* same single path twice.                                                 *)
Rank(T, t) == Cardinality({u \in T : u < t})

Shard(T, i) ==
  IF Cardinality(T) < 2 THEN T ELSE {t \in T : Rank(T, t) % 2 = i}

ScannerPair(T) ==
  {[kind |-> "advisor", paths |-> Shard(T, i), key |-> T, idx |-> i] : i \in {0, 1}}

(* An envelope is listed as pending while .fsm-results holds no result of  *)
(* it; a result that moved to applied/ no longer counts.                   *)
Listed(i) == \A r \in results : r.of # i

WasApplied(i) == \E r \in applied : r.of = i

-----------------------------------------------------------------------------
(* Work: first the flips to one status, then the REVISE flags, then the    *)
(* envelopes, then the results to move to applied/; scanner envelopes in   *)
(* the order of their index, tasks in any order MAP.md may list them.      *)

NoWork == [to |-> "PENDING", flip |-> {}, flag |-> {}, enq |-> {}, mark |-> {}]

Work == [to : TaskState, flip : SUBSET Tasks, flag : SUBSET Tasks,
         enq : SUBSET Draft, mark : SUBSET Result]

AtRest == work.flip = {} /\ work.flag = {} /\ work.enq = {} /\ work.mark = {}

Flips(to, T) == [NoWork EXCEPT !.to = to, !.flip = T]

(* MAP.md lists every task; one whose file does not parse is skipped.      *)
Read == [t \in Tasks \ broken |-> status[t]]

NoTasks == [t \in {} |-> "PENDING"]

TypeOK ==
  /\ status \in [Tasks -> TaskState]
  /\ regs \in [Tasks -> 0 .. MaxReviseRounds]
  /\ intents \subseteq Intent
  /\ results \subseteq Result
  /\ applied \subseteq Result
  /\ broken \subseteq Tasks
  /\ hold \in BOOLEAN /\ closed \in BOOLEAN /\ dirty \in BOOLEAN
  /\ pc \in {"idle", "heal", "check", "workers", "pairs", "decide", "act", "close"}
  /\ \E S \in SUBSET Tasks : snap \in [S -> TaskState]
  /\ pend \subseteq Result
  /\ work \in Work
  /\ crashes \in Nat /\ heals \in [Tasks -> Nat]

Init ==
  /\ status = [t \in Tasks |-> "PENDING"]
  /\ regs = [t \in Tasks |-> 0]
  /\ intents = {} /\ results = {} /\ applied = {}
  /\ broken = {} /\ hold = FALSE /\ closed = FALSE
  /\ pc = "idle" /\ snap = NoTasks
  /\ dirty = FALSE /\ pend = {} /\ work = NoWork
  /\ crashes = 0 /\ heals = [t \in Tasks |-> 0]

-----------------------------------------------------------------------------
(* The disk writes.  Each is one step, at whatever stage set it up.        *)

WriteFlip(t) ==
  /\ t \in work.flip
  /\ status' = [status EXCEPT ![t] = work.to]
  /\ work' = [work EXCEPT !.flip = @ \ {t}]
  /\ UNCHANGED <<regs, intents, results, applied,
                 pc, snap, dirty, pend, world>>

(* mutant: the last round is given up instead of started *)
OverLimitEarly(t) == regs[t] + 1 >= MaxReviseRounds
OverLimit(t) == regs[t] + 1 > MaxReviseRounds

(* A flagged task is BLOCKED at the round limit; otherwise its REVISE      *)
(* entry and repair role are written first and its status after.           *)
WriteFlag(t) ==
  /\ work.flip = {} /\ t \in work.flag
  /\ \/ /\ OverLimit(t)
        /\ status' = [status EXCEPT ![t] = "BLOCKED"]
        /\ work' = [work EXCEPT !.flag = @ \ {t}]
        /\ UNCHANGED regs
     \/ /\ ~ OverLimit(t)
        /\ regs' = [regs EXCEPT ![t] = @ + 1]
        /\ work' = [work EXCEPT !.flag = @ \ {t}, !.to = "PENDING", !.flip = {t}]
        /\ UNCHANGED status
  /\ UNCHANGED <<intents, results, applied,
                 pc, snap, dirty, pend, world>>

WriteIntent(d) ==
  /\ work.flip = {} /\ d \in work.enq
  /\ \A e \in work.enq : d.idx <= e.idx
  /\ \E n \in 1 .. MaxIntents :
       /\ n = Cardinality(intents) + 1
       /\ intents' = intents \cup
            {[id |-> n, kind |-> d.kind, paths |-> d.paths,
              key |-> d.key, idx |-> d.idx]}
  /\ work' = [work EXCEPT !.enq = @ \ {d}]
  /\ UNCHANGED <<status, regs, results, applied,
                 pc, snap, dirty, pend, world>>

(* mutant: an applied result stays in .fsm-results *)
MarkAppliedCopies(r) ==
  /\ work.flip = {} /\ work.flag = {} /\ r \in work.mark
  /\ \A q \in work.mark : r.of.idx <= q.of.idx
  /\ applied' = {q \in applied : q.of # r.of} \cup {r}
  /\ dirty' = TRUE
  /\ work' = [work EXCEPT !.mark = @ \ {r}]
  /\ UNCHANGED <<status, regs, intents, results, pc, snap, pend, world>>

MarkApplied(r) ==
  /\ work.flip = {} /\ work.flag = {} /\ r \in work.mark
  /\ \A q \in work.mark : r.of.idx <= q.of.idx
  /\ results' = results \ {r}
  /\ applied' = {q \in applied : q.of # r.of} \cup {r}
  /\ dirty' = TRUE
  /\ work' = [work EXCEPT !.mark = @ \ {r}]
  /\ UNCHANGED <<status, regs, intents, pc, snap, pend, world>>

Write ==
  \/ \E t \in Tasks : WriteFlip(t) \/ WriteFlag(t)
  \/ \E d \in work.enq : WriteIntent(d)
  \/ \E r \in work.mark : MarkApplied(r)

-----------------------------------------------------------------------------
(* The stages of a cycle.                                                  *)

(* The process ends and its memory with it.                                *)
Exit ==
  /\ pc' = "idle" /\ work' = NoWork /\ pend' = {} /\ dirty' = FALSE
  /\ snap' = NoTasks

(* Startup: every IN_PROGRESS task without a fresh heartbeat goes back to  *)
(* PENDING.  Which heartbeats are stale is up to the workers; a worker     *)
(* given up this way may be running still.                                 *)
MayBeStale(t) ==
  t \notin broken /\ status[t] = "IN_PROGRESS" /\ heals[t] < MaxHeals

HealStale ==
  /\ pc = "idle" /\ ~ closed
  /\ \E stale \in SUBSET {t \in Tasks : MayBeStale(t)} :
       /\ heals' = [t \in Tasks |-> IF t \in stale THEN heals[t] + 1 ELSE heals[t]]
       /\ work' = Flips("PENDING", stale)
  /\ pc' = "heal"
  /\ UNCHANGED <<files, broken, hold, closed, crashes, snap, dirty, pend>>

(* Startup compares every task file with MAP.md: one that does not parse   *)
(* at that moment ends the cycle with an error, the healing kept.          *)
StartupFails ==
  /\ pc = "heal" /\ AtRest /\ broken # {}
  /\ Exit
  /\ UNCHANGED <<files, world>>

StatesCompared ==
  /\ pc = "heal" /\ AtRest /\ broken = {}
  /\ work' = NoWork /\ pc' = "check"
  /\ UNCHANGED <<files, snap, dirty, pend, world>>

SkipHeld ==
  /\ pc \in {"check", "decide"} /\ AtRest /\ hold
  /\ Exit
  /\ UNCHANGED <<files, world>>

ReadState ==
  /\ pc = "check" /\ AtRest /\ ~ hold
  /\ snap' = Read /\ pend' = results /\ dirty' = FALSE
  /\ work' = NoWork /\ pc' = "workers"
  /\ UNCHANGED <<files, world>>

AppliesTo(t) == t \in DOMAIN snap /\ snap[t] = "IN_PROGRESS"

(* A worker result moves its task on if the task was IN_PROGRESS when the  *)
(* list was read; any other worker result stays where it is.               *)
ApplyWorkerResult(r) ==
  /\ pc = "workers" /\ AtRest /\ r \in pend /\ r.of.kind = "worker"
  /\ pend' = pend \ {r}
  /\ \E t \in r.of.paths :
       \/ /\ AppliesTo(t)
          /\ work' = [Flips(IF r.ans.verdict = "ok" THEN "REVIEW" ELSE "FAILED", {t})
                        EXCEPT !.mark = {r}]
       \/ ~ AppliesTo(t) /\ UNCHANGED work
  /\ UNCHANGED <<files, pc, snap, dirty, world>>

WorkersApplied ==
  /\ pc = "workers" /\ AtRest
  /\ \A r \in pend : r.of.kind = "advisor"
  /\ work' = NoWork /\ pc' = "pairs"
  /\ UNCHANGED <<files, snap, dirty, pend, world>>

Group(r) == {q \in pend : q.of.key = r.of.key}

(* The two results of a gate with the smallest scanner indices, in order.  *)
Selected(r, q) ==
  /\ r # q /\ r.of.key = q.of.key
  /\ r.of.idx <= q.of.idx
  /\ \A x \in Group(r) \ {r, q} : q.of.idx <= x.of.idx

Batch(r, q) == r.of.paths \cup q.of.paths

Pair(r, q) ==
  /\ pc = "pairs" /\ AtRest /\ {r, q} \subseteq pend /\ Selected(r, q)
  /\ pend' = pend \ Group(r)
  /\ UNCHANGED <<files, pc, snap, dirty, world>>

(* A path that belongs to no readable task: the pair is left alone.        *)
ApplyPairUnknown(r, q) ==
  /\ Pair(r, q) /\ ~ (Batch(r, q) \subseteq DOMAIN snap)
  /\ UNCHANGED work

ApplyPairError(r, q) ==
  /\ Pair(r, q) /\ Batch(r, q) \subseteq DOMAIN snap
  /\ "error" \in {r.ans.verdict, q.ans.verdict}
  /\ work' = [Flips("REVIEW", Batch(r, q)) EXCEPT !.mark = {r, q}]

(* mutant: one APPROVE is enough *)
BothApproveEither(r, q) == "ok" \in {r.ans.verdict, q.ans.verdict}
BothApprove(r, q) == r.ans.verdict = "ok" /\ q.ans.verdict = "ok"

ApplyPairApprove(r, q) ==
  /\ Pair(r, q) /\ Batch(r, q) \subseteq DOMAIN snap
  /\ "error" \notin {r.ans.verdict, q.ans.verdict}
  /\ BothApprove(r, q)
  /\ work' = [Flips("DONE", Batch(r, q)) EXCEPT !.mark = {r, q}]

(* The tasks the verdicts flag, each parsed on its own; and the tasks the  *)
(* combined guidance flags, where only the first FAILING TASKS: line       *)
(* counts and, if there is one, free text does not.                        *)
FlaggedEach(r, q) == (r.ans.flagged \cup q.ans.flagged) \cap Batch(r, q)

(* mutant: of two free texts only the first is looked at *)
FlaggedCombinedFirst(r, q) == Batch(r, q) \cap r.ans.flagged

FlaggedCombined(r, q) ==
  Batch(r, q) \cap
    IF r.ans.explicit THEN r.ans.flagged
    ELSE IF q.ans.explicit THEN q.ans.flagged
    ELSE r.ans.flagged \cup q.ans.flagged

OrAll(flagged, batch) == IF flagged = {} THEN batch ELSE flagged

(* mutant: the tasks nobody flagged are left in EXECUTING *)
RestoredNone(r, q) == {}
Restored(r, q) ==
  {t \in Batch(r, q) \ OrAll(FlaggedEach(r, q), Batch(r, q)) : snap[t] = "EXECUTING"}

ApplyPairRevise(r, q) ==
  /\ Pair(r, q) /\ Batch(r, q) \subseteq DOMAIN snap
  /\ "error" \notin {r.ans.verdict, q.ans.verdict}
  /\ ~ BothApprove(r, q)
  /\ work' = [Flips("REVIEW", Restored(r, q)) EXCEPT
                !.flag = OrAll(FlaggedCombined(r, q), Batch(r, q)), !.mark = {r, q}]

ApplyPair ==
  \E r, q \in pend :
    \/ ApplyPairUnknown(r, q) \/ ApplyPairError(r, q)
    \/ ApplyPairApprove(r, q) \/ ApplyPairRevise(r, q)

ReRead == IF dirty THEN Read ELSE snap

(* Gates with one answer so far wait; the list is read again if a result   *)
(* was applied.                                                            *)
PairsApplied ==
  /\ pc = "pairs" /\ AtRest
  /\ \A r, q \in pend : r.of.key = q.of.key => r = q
  /\ snap' = ReRead
  /\ pend' = {} /\ dirty' = FALSE
  /\ work' = NoWork /\ pc' = "decide"
  /\ UNCHANGED <<files, world>>

(* _build_pipeline_state copies every field but has_user_confirmation, so  *)
(* the cascade never sees a task that asks for a confirmation.             *)
ConfirmSeen == {}

Decision == Decide(snap, ConfirmSeen)

Room(drafts) == Cardinality(intents) + Cardinality(drafts) <= MaxIntents

StartWrites(to, T, drafts) ==
  /\ Room(drafts)
  /\ work' = [Flips(to, T) EXCEPT !.enq = drafts]
  /\ pc' = "act"

DispatchWave ==
  /\ pc = "decide" /\ AtRest /\ ~ hold /\ Decision.kind = "dispatch_wave"
  /\ StartWrites("IN_PROGRESS", Decision.tasks,
                 {WorkerDraft(t) : t \in Decision.tasks})
  /\ UNCHANGED <<files, snap, dirty, pend, world>>

DispatchAdvisor ==
  /\ pc = "decide" /\ AtRest /\ ~ hold /\ Decision.kind = "dispatch_advisor"
  /\ StartWrites("EXECUTING", Decision.tasks, ScannerPair(Decision.tasks))
  /\ UNCHANGED <<files, snap, dirty, pend, world>>

AllDone ==
  /\ pc = "decide" /\ AtRest /\ ~ hold /\ Decision.kind = "all_done"
  /\ work' = NoWork /\ pc' = "close"
  /\ UNCHANGED <<files, snap, dirty, pend, world>>

(* Escalation, waiting, an empty list: an exit code and nothing on disk.   *)
(* A dispatch beyond the bound on intents ends here too.                   *)
NothingToDo ==
  /\ pc = "decide" /\ AtRest /\ ~ hold
  /\ \/ Decision.kind \in {"error_no_tasks", "escalate_blocked", "waiting"}
     \/ Decision.kind = "dispatch_wave"
          /\ ~ Room({WorkerDraft(t) : t \in Decision.tasks})
     \/ Decision.kind = "dispatch_advisor" /\ ~ Room(ScannerPair(Decision.tasks))
  /\ Exit
  /\ UNCHANGED <<files, world>>

ActionTaken ==
  /\ pc = "act" /\ AtRest
  /\ Exit
  /\ UNCHANGED <<files, world>>

(* The audit gate and session_close.py either pass, and the project is     *)
(* reset, or fail, and the cycle exits.                                    *)
CloseSession ==
  /\ pc = "close"
  /\ closed' \in BOOLEAN
  /\ Exit
  /\ UNCHANGED <<files, broken, hold, crashes, heals>>

(* The process dies, or an exception ends the cycle, between two writes.   *)
Crash ==
  /\ pc # "idle" /\ crashes < MaxCrashes
  /\ crashes' = crashes + 1
  /\ Exit
  /\ UNCHANGED <<files, broken, hold, closed, heals>>

Cycle ==
  \/ HealStale \/ StartupFails \/ StatesCompared \/ SkipHeld \/ ReadState
  \/ \E r \in pend : ApplyWorkerResult(r)
  \/ WorkersApplied \/ ApplyPair \/ PairsApplied
  \/ DispatchWave \/ DispatchAdvisor \/ AllDone \/ NothingToDo \/ ActionTaken
  \/ CloseSession

-----------------------------------------------------------------------------
(* The Claude session: it answers listed intents in any order, at any      *)
(* moment of a cycle.  Nothing but the bound limits failing exit codes.    *)

AnswersTo(i) ==
  {Plain("ok"), Plain("error")} \cup
  (IF i.kind = "advisor"
     THEN [verdict : {"revise"}, flagged : SUBSET i.key, explicit : ExplicitLines]
     ELSE {})

Errors == {r \in results \cup applied : r.ans.verdict = "error"}

SessionAnswers(i) ==
  /\ ~ closed /\ Listed(i)
  /\ ReAnswer \/ ~ WasApplied(i)
  /\ \E a \in AnswersTo(i) :
       /\ a.verdict = "error" => Cardinality(Errors) < MaxErrors
       /\ results' = results \cup {[of |-> i, ans |-> a]}
  /\ UNCHANGED <<status, regs, intents, applied, locals, world>>

(* The user reaches a checkpoint, pauses the session, skips, or resumes.   *)
UserHolds ==
  /\ CanHold /\ ~ closed
  /\ hold' = ~ hold
  /\ UNCHANGED <<files, locals, broken, closed, crashes, heals>>

(* Workers and scanners edit task files in place: for a while one may not  *)
(* parse.                                                                  *)
TaskFileEdited(t) ==
  /\ t \in Breakable /\ ~ closed
  /\ broken' = IF t \in broken THEN broken \ {t} ELSE broken \cup {t}
  /\ UNCHANGED <<files, locals, hold, closed, crashes, heals>>

Closed == closed /\ pc = "idle" /\ UNCHANGED vars

Session == \E i \in intents : SessionAnswers(i)

Next == Write \/ Cycle \/ Crash \/ Session \/ UserHolds
  \/ (\E t \in Tasks : TaskFileEdited(t)) \/ Closed

Spec == Init /\ [][Next]_vars

(* The session drives the loop: it runs orchestrate.py again and again     *)
(* and, sooner or later, answers what is listed.  Nobody owes a crash, a   *)
(* stale heartbeat or a pause.                                             *)
FairSpec == Spec /\ WF_vars(Write \/ Cycle) /\ WF_vars(Session)

-----------------------------------------------------------------------------
(* Safety.                                                                 *)

Workers(t) == {i \in intents : i.kind = "worker" /\ t \in i.paths}

Answered == results \cup applied

(* Workers started for the task that have not answered yet, and those      *)
(* whose answer is not applied yet.                                        *)
AtWork(t) == {i \in Workers(t) : \A r \in Answered : r.of # i}

Waiting(t) == {i \in Workers(t) : ~ WasApplied(i)}

(* A task starts only from PENDING, and only while every dependency is     *)
(* DONE, or in REVIEW in its own wave, in MAP.md as it is at that write:   *)
(* the list the decision was taken on is never a stale one.                *)
DispatchRespectsDeps ==
  [][\A t \in Tasks :
       status[t] # "IN_PROGRESS" /\ status'[t] = "IN_PROGRESS" =>
         /\ status[t] = "PENDING"
         /\ \A d \in Deps[t] :
              status[d] = "DONE" \/ (status[d] = "REVIEW" /\ Wave[d] = Wave[t])]_vars

(* While bug scanners review a wave, none of its tasks that always parse   *)
(* is IN_PROGRESS, and no worker of such a task is at work on the files    *)
(* they read - but for one for each time startup gave the task's worker    *)
(* up, and one for each cycle that stopped half way.                       *)
ReviewIsolation ==
  \A t \in Tasks, u \in Tasks \ Breakable :
    Wave[t] = Wave[u] /\ status[t] = "EXECUTING" =>
      /\ crashes = 0 => status[u] # "IN_PROGRESS"
      /\ Cardinality(AtWork(u)) <= heals[u] + crashes

(* Both must APPROVE: a task is DONE only on an APPROVE of each of the two *)
(* scanners of one gate that was opened after the task's last dispatch.    *)
DoneIsReviewed ==
  \A t \in Tasks : status[t] = "DONE" =>
    \E r, q \in Answered :
      /\ {r.of.idx, q.of.idx} = {0, 1} /\ r.of.key = q.of.key /\ t \in r.of.key
      /\ r.ans.verdict = "ok" /\ q.ans.verdict = "ok"
      /\ \A i \in Workers(t) : i.id < r.of.id /\ i.id < q.of.id

(* DONE and BLOCKED are final: no later write of the loop revives a task.  *)
FinalIsFinal ==
  [][\A t \in Tasks : status[t] \in {"DONE", "BLOCKED"} => status'[t] = status[t]]_vars

(* A task under review between two cycles has a gate still to be answered  *)
(* or applied: two scanner intents, one per index, not applied.            *)
NoneStranded ==
  \A t \in Tasks : pc = "idle" /\ status[t] = "EXECUTING" =>
    \E i, j \in intents :
      /\ {i.idx, j.idx} = {0, 1} /\ i.key = j.key /\ t \in i.key
      /\ ~ WasApplied(i) /\ ~ WasApplied(j)

(* A task is given up only after MAX_REVISE_ROUNDS repairs were really     *)
(* dispatched, after the first attempt.  A cycle that stops half way may   *)
(* count a verdict twice, but no more than that: it costs a task one of    *)
(* its repairs at most.                                                    *)
BlockedAfterRounds ==
  \A t \in Tasks :
    status[t] = "BLOCKED" => Cardinality(Workers(t)) + crashes >= MaxReviseRounds + 1

(* At any moment one dispatch of a task, no more, is still to be answered  *)
(* and its answer applied - but for one more each time startup gave the    *)
(* task's worker up, or a cycle stopped half way: else no result is left   *)
(* over to be taken for the answer of a later dispatch.                    *)
OneLiveDispatch ==
  \A t \in Tasks : Cardinality(Waiting(t)) <= 1 + heals[t] + crashes

(* The session closes only when MAP.md says DONE for every task, those     *)
(* excepted whose file may not parse.                                      *)
ClosedMeansDone == closed => \A t \in Tasks \ Breakable : status[t] = "DONE"

(* The loop as ReviewPipeline sees it: a task is where the writes under    *)
(* way will leave it; a review is open from the decision to open it, and   *)
(* over when its two answers are being applied.                            *)
StageOf(t) ==
  IF t \in work.flag THEN IF OverLimit(t) THEN "BLOCKED" ELSE "PENDING"
  ELSE IF t \in work.flip THEN work.to
  ELSE status[t]

RoundsOf(t) == IF t \in work.flag /\ ~ OverLimit(t) THEN regs[t] + 1 ELSE regs[t]

Unapplied == intents \ {r.of : r \in applied \cup work.mark}

OpenGates == {d.key : d \in {e \in Unapplied \cup work.enq : e.kind = "advisor"}}

CastVotes ==
  {[gate |-> r.of.key, by |-> r.of.idx,
    verdict |-> r.ans.verdict, flagged |-> r.ans.flagged] :
     r \in {q \in results \ work.mark : q.of.kind = "advisor"}}

Pipeline == INSTANCE ReviewPipeline WITH
  MayHeal <- MaxHeals # 0,
  stage <- [t \in Tasks |-> StageOf(t)],
  rounds <- [t \in Tasks |-> RoundsOf(t)],
  gates <- OpenGates,
  votes <- CastVotes

(* Without crashes, late re-answers and FAILING TASKS: lines every step is *)
(* one of the pipeline's, or none: starting a wave, opening a review and   *)
(* judging it with two answers are each as good as one step.               *)
ReviewsAreAtomic == Pipeline!PSpec

-----------------------------------------------------------------------------
(* Liveness.                                                               *)

(* Every gate is eventually acted upon.                                    *)
GatesOpen ==
  \A t \in Tasks : status[t] = "EXECUTING" ~> status[t] # "EXECUTING"

(* When no worker fails, and from some cycle on none is given up by the    *)
(* startup healing, the pipeline ends: all tasks DONE, or one BLOCKED, for *)
(* which the cascade asks for a person.  Without the first condition the   *)
(* loop waits for ever on a FAILED task, which nobody restarts; without    *)
(* the second it may start the same worker over in every cycle.            *)
NobodyFails == [](\A t \in Tasks : status[t] # "FAILED")

HealingStops == <>[][UNCHANGED heals]_vars

Settles ==
  NobodyFails /\ HealingStops =>
    <>(\/ \A t \in Tasks : status[t] = "DONE"
       \/ \E t \in Tasks : status[t] = "BLOCKED")

-----------------------------------------------------------------------------
(* What the documentation promises and startup healing does not keep, with *)
(* MaxHeals = 1, and CanHold for the first (README, section 4).            *)

(* While dispatch is held - a checkpoint waits, the session is paused - a  *)
(* cycle changes nothing: it has nothing to write from its first step on.  *)
HeldIsNoOp ==
  [][hold /\ pc = "idle" => work'.flip = {}]_vars

(* A worker that has answered is not started over: no cycle puts a task    *)
(* back to PENDING while the answer to its last dispatch waits.            *)
AnsweredNotRestarted ==
  [][\A t \in Tasks :
       status[t] = "IN_PROGRESS" /\ status'[t] = "PENDING" =>
         \E i \in Workers(t) : /\ \A j \in Workers(t) : j.id <= i.id
                              /\ Listed(i)]_vars
=============================================================================
