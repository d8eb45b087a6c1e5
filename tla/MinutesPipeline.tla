-------------------------- MODULE MinutesPipeline ---------------------------
(***************************************************************************)
(* The minutes (MOM) of one completed meeting: the post-meeting worker     *)
(* that drafts them (post_meeting_worker.py), the requests that generate,  *)
(* edit, approve, delete and send them (minutes_service.py and its routes  *)
(* in main.py) and the automatic delivery of a draft nobody touched        *)
(* (calendar_automation.py).                                               *)
(*                                                                         *)
(* One process.  Coroutines (generate, send, the worker, the deliverer)    *)
(* give way only where they await; the routes that edit, approve, delete   *)
(* and correct speakers run in threads and interleave with everything at   *)
(* each database transaction.                                              *)
(***************************************************************************)
EXTENDS Naturals, Sequences

CONSTANTS Request,       \* slots for requests in flight at the same time
          Worker,        \* PostMeetingWorker, one at a time per meeting
          Deliverer,     \* CalendarAutomationService._deliver, likewise
          Automated,     \* whether the meeting has an automation row
          MaxAttempts,   \* five, for drafting and for delivering
          MaxStarts,     \* bound: requests people start
          MaxRevision,   \* bound: transcript revisions
          MaxCrashes     \* bound: process crashes

ASSUME ConstantsAssumption ==
    /\ Worker \notin Request /\ Deliverer \notin Request /\ Worker # Deliverer
    /\ Automated \in BOOLEAN
    /\ MaxAttempts \in Nat \ {0}
    /\ MaxStarts \in Nat /\ MaxRevision \in Nat /\ MaxCrashes \in Nat

VARIABLES
    \* --- the database
    revision,   \* transcript_review_states.revision
    minutes,    \* meeting_minutes: [st, v, origin, rev, ok], see Doc
    source,     \* minutes_source.transcript_revision (0: no row)
    job,        \* post_meeting_jobs: [done, attempts]
    auto,       \* meeting_automations: [suspended, print, rev]
    delivery,   \* automatic_minutes_deliveries: [st, attempts, ok]
    allowed,    \* what the owner's rule, the meeting's overrides and the policy say
    \* --- the mail provider
    mails,      \* e-mails it sent, oldest first: [to, doc]
    keys,       \* idempotency keys it remembers
    clock,      \* since the delivery row was made; 1: the 20 hour window is over,
                \* 2: the provider has forgotten the row's key
    \* --- the process
    op,         \* what each request, the worker and the deliverer are doing
    \* --- fresh names and bounds
    versions, approvals, starts, crashes

docRows  == <<revision, minutes, source>>
autoRows == <<auto, delivery, allowed>>
mailVars == <<mails, keys, clock>>
bounds   == <<versions, approvals, starts, crashes>>
vars == <<revision, minutes, source, job, auto, delivery, allowed, mails, keys, clock,
          op, versions, approvals, starts, crashes>>

Op == Request \cup {Worker, Deliverer}

(***************************************************************************)
(* A version of the minutes: its status, a number that stands for its text *)
(* (and its fingerprint), who wrote it, the transcript revision it was     *)
(* written from and its approval (approved_at, 0: not approved).           *)
(***************************************************************************)
Origin == {"none", "worker", "request", "edit"}
Doc == [st : {"none", "draft", "approved", "sent"}, v : Nat, origin : Origin, rev : Nat, ok : Nat]
NoDoc == [st |-> "none", v |-> 0, origin |-> "none", rev |-> 0, ok |-> 0]

\* What the code between two awaits does in several transactions: meanwhile
\* the event loop runs nothing else, but threads go on
Blocking == {"source", "drafted", "approving", "freezing", "attempt", "reading", "checking",
             "authorizing", "comparing", "closing", "failing"}
Waiting  == {"pulling", "writing", "posting", "accepted", "refused"}   \* at an await
Threads  == {"editing", "approveRead", "approveChecked"}
JobRow   == [done : BOOLEAN, attempts : Nat]
AutoRow  == [suspended : BOOLEAN, print : Nat, rev : Nat]
DeliveryRow == [st : {"none", "pending", "sending", "retry", "onhold", "held", "sent"},
                attempts : Nat, ok : Nat]
OpState  == [pc : Blocking \cup Waiting \cup Threads \cup {"idle"}, doc : Doc,
             rev : Nat, n : Nat]
Idle == [pc |-> "idle", doc |-> NoDoc, rev |-> 0, n |-> 0]

-----------------------------------------------------------------------------
(***************************************************************************)
(* Plausible bugs, one for each property                                   *)
(***************************************************************************)
HoldsWithoutARow       == [delivery EXCEPT !.st = "on hold"]
SealsWhatIsThere(d)    == [minutes EXCEPT !.st = "sent"]   \* SENT on the row as it is now
KeyPerRequest(o, d)    == <<d.ok, o>>                      \* a new key for every request
ChecksOnlyTheSource(o) == revision = op[o].rev             \* forgets the MOM sent meanwhile
CountsNothing(n)       == n                                \* the job's attempts as they were
NoBoundary(d)          == op[d].pc = "authorizing" /\ op' = [op EXCEPT ![d].pc = "posting"]
NoWindow               == FALSE                            \* delivers after the 20 hours
NoSuspendedCheck       == auto.print # 0                   \* delivers suspended meetings
CountsOnSuccess(n)     == n                                \* an attempt is not counted

-----------------------------------------------------------------------------
(***************************************************************************)
(* Operators over the current state                                        *)
(***************************************************************************)
LoopFree == \A o \in Op : op[o].pc \notin Blocking
To(o)    == IF o = Deliverer THEN "team" ELSE "all"

\* suspend(): a person touched the MOM, automatic delivery is held for good.
\* "held" stands for cancelled too, which the code treats alike.
Held == [delivery EXCEPT !.st = IF @ \in {"none", "sent"} THEN @ ELSE "held"]
Suspend == /\ auto' = [auto EXCEPT !.suspended = Automated]
           /\ delivery' = Held

\* _require_current_transcript()
SourceIsCurrent == source # 0 /\ source = revision

\* _invalidate_approved_minutes()
Invalidated == IF minutes.st = "approved"
               THEN [minutes EXCEPT !.st = "draft", !.ok = 0] ELSE minutes

\* generate() saves only when the transcript it read is still the current one
\* and the MOM was not sent meanwhile
MaySaveDraft(o) == revision = op[o].rev /\ minutes.st # "sent"

Drafted(o) == [st |-> "draft", v |-> versions + 1, rev |-> op[o].rev, ok |-> 0,
               origin |-> IF o = Worker THEN "worker" ELSE "request"]

\* send() writes the outcome to the copy of the MOM it read and e-mailed
Sealed(d) == [d EXCEPT !.st = "sent"]

\* The idempotency key: meeting, approved_at, recipients, include_transcript
Key(o, d) == <<d.ok, To(o)>>

FailedOnceMore(n) == n + 1
StartedOnceMore(n) == n + 1
Exhausted(n) == n >= MaxAttempts
WindowOver   == clock >= 1

\* _deliver() goes on only for a draft of the worker that nobody touched
MayDeliver == ~auto.suspended /\ auto.print # 0

\* _before_email(), with what it reads first and what it reads last
Authorized == /\ allowed = "yes" /\ ~auto.suspended
              /\ delivery.st \notin {"onhold", "held", "sent"}
TheFrozenMinutes == /\ minutes.st = "approved" /\ minutes.v = auto.print
                    /\ minutes.ok = delivery.ok /\ auto.rev = revision
-----------------------------------------------------------------------------
Init ==
    /\ revision = 1
    /\ minutes  = NoDoc
    /\ source   = 0
    /\ job      = [done |-> FALSE, attempts |-> 0]
    /\ auto     = [suspended |-> FALSE, print |-> 0, rev |-> 0]
    /\ delivery = [st |-> "none", attempts |-> 0, ok |-> 0]
    /\ allowed  = "yes"
    /\ mails = << >> /\ keys = {} /\ clock = 0
    /\ op = [o \in Op |-> Idle]
    /\ versions = 0 /\ approvals = 0 /\ starts = 0 /\ crashes = 0

\* A request a person starts in a free slot
Starts(r) == /\ op[r].pc = "idle" /\ starts < MaxStarts
             /\ starts' = starts + 1

-----------------------------------------------------------------------------
(***************************************************************************)
(* Generating                                                              *)
(***************************************************************************)
\* The generate route or job: refused for a sent MOM, else it pulls the transcript
GenerateStart(r) ==
    /\ LoopFree /\ Starts(r)
    /\ Suspend
    /\ op' = IF minutes.st = "sent" THEN op ELSE [op EXCEPT ![r] = [Idle EXCEPT !.pc = "pulling"]]
    /\ UNCHANGED <<docRows, job, allowed, mailVars, versions, approvals, crashes>>

\* generate() up to the provider call; the worker's does not suspend anything
GenerateRead(o) ==
    /\ op[o].pc = "pulling" /\ LoopFree /\ minutes.st # "sent"
    /\ IF o = Worker THEN UNCHANGED <<auto, delivery>> ELSE Suspend
    /\ op' = [op EXCEPT ![o] = [@ EXCEPT !.pc = "writing", !.rev = revision]]
    /\ UNCHANGED <<docRows, job, allowed, mailVars, bounds>>

\* The provider answered: a request saves the draft, then its source revision
GenerateSave(r) ==
    /\ r \in Request /\ op[r].pc = "writing" /\ LoopFree /\ MaySaveDraft(r)
    /\ minutes' = Drafted(r)
    /\ versions' = versions + 1
    /\ op' = [op EXCEPT ![r] = [@ EXCEPT !.pc = "source"]]
    /\ UNCHANGED <<revision, source, job, autoRows, mailVars, approvals, starts, crashes>>

SaveSource(r) ==
    /\ op[r].pc = "source"
    /\ source' = op[r].rev
    /\ op' = [op EXCEPT ![r] = Idle]
    /\ UNCHANGED <<revision, minutes, job, autoRows, mailVars, bounds>>

\* The worker's draft, its source and its provenance commit together
WorkerSave ==
    /\ op[Worker].pc = "writing" /\ LoopFree /\ MaySaveDraft(Worker)
    /\ minutes' = Drafted(Worker)
    /\ source'  = op[Worker].rev
    /\ auto' = IF Automated /\ ~auto.suspended
               THEN [auto EXCEPT !.print = versions + 1, !.rev = op[Worker].rev] ELSE auto
    /\ versions' = versions + 1
    /\ op' = [op EXCEPT ![Worker] = [@ EXCEPT !.pc = "drafted"]]
    /\ UNCHANGED <<revision, job, delivery, allowed, mailVars, approvals, starts, crashes>>

\* The provider fails, the transcript changed or the MOM was sent meanwhile
GenerateFails(r) ==
    /\ r \in Request /\ LoopFree
    /\ \/ op[r].pc = "pulling" /\ minutes.st = "sent"
       \/ op[r].pc = "writing"
    /\ op' = [op EXCEPT ![r] = Idle]
    /\ UNCHANGED <<docRows, job, autoRows, mailVars, bounds>>

-----------------------------------------------------------------------------
(***************************************************************************)
(* The post-meeting worker                                                 *)
(***************************************************************************)
Drafting(n) == [Idle EXCEPT !.pc = "pulling", !.n = n]

\* No MOM yet: draft one, unless that is done or was tried often enough
WorkerStart ==
    /\ op[Worker].pc = "idle" /\ LoopFree
    /\ minutes.st = "none" /\ ~job.done /\ ~Exhausted(job.attempts)
    /\ op' = [op EXCEPT ![Worker] = Drafting(job.attempts)]
    /\ UNCHANGED <<docRows, job, autoRows, mailVars, bounds>>

\* There is a MOM: never overwrite it, only close the job
WorkerCloses ==
    /\ op[Worker].pc = "idle" /\ LoopFree
    /\ minutes.st # "none" /\ ~job.done
    /\ job' = [job EXCEPT !.done = TRUE]
    /\ UNCHANGED <<docRows, autoRows, mailVars, op, bounds>>

\* retry(): a person starts drafting again from nothing
WorkerRetry ==
    /\ op[Worker].pc = "idle" /\ LoopFree /\ starts < MaxStarts
    /\ minutes.st = "none"
    /\ job' = [done |-> FALSE, attempts |-> 0]
    /\ op' = [op EXCEPT ![Worker] = Drafting(0)]
    /\ starts' = starts + 1
    /\ UNCHANGED <<docRows, autoRows, mailVars, versions, approvals, crashes>>

WorkerDone ==
    /\ op[Worker].pc = "drafted"
    /\ job' = [done |-> TRUE, attempts |-> op[Worker].n]
    /\ op' = [op EXCEPT ![Worker] = Idle]
    /\ UNCHANGED <<docRows, autoRows, mailVars, bounds>>

\* Anything raised: one attempt more, counted from the row read at the start
WorkerFails ==
    /\ op[Worker].pc \in {"pulling", "writing"} /\ LoopFree
    /\ job' = [done |-> FALSE, attempts |-> FailedOnceMore(op[Worker].n)]
    /\ op' = [op EXCEPT ![Worker] = Idle]
    /\ UNCHANGED <<docRows, autoRows, mailVars, bounds>>

-----------------------------------------------------------------------------
(***************************************************************************)
(* Requests that run in threads                                            *)
(***************************************************************************)
EditRead(r) ==
    /\ Starts(r)
    /\ Suspend
    /\ op' = IF minutes.st \in {"none", "sent"} THEN op
             ELSE [op EXCEPT ![r] = [Idle EXCEPT !.pc = "editing", !.doc = minutes]]
    /\ UNCHANGED <<docRows, job, allowed, mailVars, versions, approvals, crashes>>

EditSave(r) ==
    /\ op[r].pc = "editing"
    /\ minutes' = [op[r].doc EXCEPT !.st = "draft", !.ok = 0, !.v = versions + 1,
                                    !.origin = "edit"]
    /\ versions' = versions + 1
    /\ op' = [op EXCEPT ![r] = Idle]
    /\ UNCHANGED <<revision, source, job, autoRows, mailVars, approvals, starts, crashes>>

ApproveRead(r) ==
    /\ Starts(r)
    /\ Suspend
    /\ op' = IF minutes.st \in {"none", "sent"} THEN op
             ELSE [op EXCEPT ![r] = [Idle EXCEPT !.pc = "approveRead", !.doc = minutes]]
    /\ UNCHANGED <<docRows, job, allowed, mailVars, versions, approvals, crashes>>

ApproveCheck(r) ==
    /\ op[r].pc = "approveRead"
    /\ op' = [op EXCEPT ![r] = IF SourceIsCurrent THEN [@ EXCEPT !.pc = "approveChecked"]
                               ELSE Idle]
    /\ UNCHANGED <<docRows, job, autoRows, mailVars, bounds>>

Approved(d) == [d EXCEPT !.st = "approved", !.ok = approvals + 1]

ApproveSave(r) ==
    /\ op[r].pc = "approveChecked"
    /\ minutes' = Approved(op[r].doc)
    /\ approvals' = approvals + 1
    /\ op' = [op EXCEPT ![r] = Idle]
    /\ UNCHANGED <<revision, source, job, autoRows, mailVars, versions, starts, crashes>>

\* delete_minutes(): also tells the worker not to draft again
Delete ==
    /\ starts < MaxStarts /\ starts' = starts + 1
    /\ Suspend
    /\ IF minutes.st \in {"none", "sent"} THEN UNCHANGED <<minutes, source, job>>
       ELSE /\ minutes' = NoDoc
            /\ source' = 0
            /\ job' = [job EXCEPT !.done = TRUE]
    /\ UNCHANGED <<revision, allowed, mailVars, op, versions, approvals, crashes>>

\* correct_speaker() of a MOM not sent yet, and replace_transcript() when a new
\* snapshot differs: one more revision, and an approval is withdrawn
Revise ==
    /\ revision < MaxRevision
    /\ revision' = revision + 1
    /\ minutes' = Invalidated
    /\ UNCHANGED <<source, job, autoRows, mailVars, op, bounds>>

-----------------------------------------------------------------------------
(***************************************************************************)
(* Sending                                                                 *)
(***************************************************************************)
SendRead(r) ==
    /\ LoopFree /\ Starts(r)
    /\ Suspend
    /\ op' = IF minutes.st # "approved" THEN op
             ELSE [op EXCEPT ![r] = [Idle EXCEPT !.pc = "checking", !.doc = minutes]]
    /\ UNCHANGED <<docRows, job, allowed, mailVars, versions, approvals, crashes>>

SendCheck(r) ==
    /\ r \in Request /\ op[r].pc = "checking"
    /\ op' = [op EXCEPT ![r] = IF SourceIsCurrent THEN [@ EXCEPT !.pc = "posting"] ELSE Idle]
    /\ UNCHANGED <<docRows, job, autoRows, mailVars, bounds>>

\* The provider sends the e-mail unless it knows the key
Mail(o) == [to |-> To(o), doc |-> op[o].doc]
ProviderAccepts(o) ==
    /\ keys'  = keys \cup {Key(o, op[o].doc)}
    /\ mails' = IF Key(o, op[o].doc) \in keys THEN mails ELSE Append(mails, Mail(o))

\* It accepts, and the answer may be lost ...
Accepted(o) ==
    /\ op[o].pc = "posting"
    /\ ProviderAccepts(o)
    /\ \E pc \in {"accepted", "refused"} : op' = [op EXCEPT ![o] = [@ EXCEPT !.pc = pc]]
    /\ UNCHANGED <<docRows, job, autoRows, clock, bounds>>

\* ... or it does not
Refused(o) ==
    /\ op[o].pc = "posting"
    /\ op' = [op EXCEPT ![o] = [@ EXCEPT !.pc = "refused"]]
    /\ UNCHANGED <<docRows, job, autoRows, mailVars, bounds>>

\* send() saves the copy it read, as sent or still approved with an error
SendSave(o) ==
    /\ op[o].pc \in {"accepted", "refused"} /\ LoopFree
    /\ minutes' = IF op[o].pc = "accepted" THEN Sealed(op[o].doc) ELSE op[o].doc
    /\ op' = [op EXCEPT ![o] =
                 IF o # Deliverer THEN Idle
                 ELSE [@ EXCEPT !.pc = IF op[o].pc = "accepted" THEN "closing"
                                            ELSE "failing"]]
    /\ UNCHANGED <<revision, source, job, autoRows, mailVars, bounds>>

-----------------------------------------------------------------------------
(***************************************************************************)
(* Automatic delivery, one pass of _deliver()                              *)
(***************************************************************************)
\* What makes _deliver() give the meeting up instead of waiting
Refusal ==
    \/ minutes.v # auto.print
    \/ auto.rev # revision
    \/ minutes.st # "sent" /\
         \/ allowed = "revoked"
         \/ IF delivery.st = "none" THEN minutes.st # "draft"
            ELSE WindowOver \/ minutes.ok \notin {0, delivery.ok}

DeliverySt(s) == [delivery EXCEPT !.st = s]

\* The checks up to the approval: nothing to do, held, delivered, or go on
DeliverTick ==
    /\ Automated /\ op[Deliverer].pc = "idle" /\ LoopFree
    /\ delivery.st \notin {"onhold", "held", "sent"}
    /\ \/ /\ Exhausted(delivery.attempts) \/ allowed = "removed"
          /\ Suspend /\ UNCHANGED op
       \/ /\ ~Exhausted(delivery.attempts)
          /\ allowed \in {"yes", "revoked"} /\ MayDeliver /\ minutes.st # "none"
          /\ \/ Refusal /\ Suspend /\ UNCHANGED op
             \/ /\ ~Refusal /\ minutes.st = "sent" /\ delivery.st # "none"
                /\ delivery' = DeliverySt("sent")
                /\ UNCHANGED <<auto, op>>
             \/ /\ ~Refusal /\ minutes.st # "sent"
                /\ op' = [op EXCEPT ![Deliverer] =
                             [Idle EXCEPT !.pc = IF delivery.st = "none" THEN "approving"
                                                 ELSE "attempt",
                                          !.n = delivery.attempts]]
                /\ UNCHANGED <<auto, delivery>>
    /\ UNCHANGED <<docRows, job, allowed, mailVars, bounds>>

\* approve(automated=True) reads the MOM again and checks its source
AutoApproveRead ==
    /\ op[Deliverer].pc = "approving"
    /\ op' = [op EXCEPT ![Deliverer] =
                 IF SourceIsCurrent /\ minutes.st \notin {"none", "sent"}
                 THEN [@ EXCEPT !.pc = "freezing", !.doc = minutes] ELSE Idle]
    /\ UNCHANGED <<docRows, job, autoRows, mailVars, bounds>>

\* ... and saves it approved, with the delivery row, in one transaction
AutoApproveSave ==
    /\ op[Deliverer].pc = "freezing"
    /\ minutes' = Approved(op[Deliverer].doc)
    /\ delivery' = [st |-> "pending", attempts |-> 0, ok |-> approvals + 1]
    /\ approvals' = approvals + 1
    /\ op' = [op EXCEPT ![Deliverer] = [@ EXCEPT !.pc = "attempt", !.doc = NoDoc]]
    /\ UNCHANGED <<revision, source, job, auto, allowed, mailVars, versions, starts, crashes>>

\* The attempt is counted before any I/O, whatever the row says by now
Attempt ==
    /\ op[Deliverer].pc = "attempt"
    /\ delivery' = [delivery EXCEPT !.st = "sending",
                                    !.attempts = StartedOnceMore(op[Deliverer].n)]
    /\ op' = [op EXCEPT ![Deliverer] = [@ EXCEPT !.pc = "reading"]]
    /\ UNCHANGED <<docRows, job, auto, allowed, mailVars, bounds>>

\* send(automated=True)
AutoSendRead ==
    /\ op[Deliverer].pc = "reading"
    /\ op' = [op EXCEPT ![Deliverer] =
                 IF minutes.st = "approved" THEN [@ EXCEPT !.pc = "checking", !.doc = minutes]
                 ELSE [@ EXCEPT !.pc = "failing"]]
    /\ UNCHANGED <<docRows, job, autoRows, mailVars, bounds>>

AutoSendCheck ==
    /\ op[Deliverer].pc = "checking"
    /\ op' = [op EXCEPT ![Deliverer] =
                 [@ EXCEPT !.pc = IF SourceIsCurrent THEN "authorizing" ELSE "failing"]]
    /\ UNCHANGED <<docRows, job, autoRows, mailVars, bounds>>

\* _before_email(): a check that fails holds the delivery and sends nothing
Boundary(d) ==
    \/ op[d].pc = "authorizing" /\ Authorized /\ op' = [op EXCEPT ![d].pc = "comparing"]
    \/ op[d].pc = "comparing" /\ TheFrozenMinutes /\ op' = [op EXCEPT ![d].pc = "posting"]

BeforeEmail ==
    /\ Boundary(Deliverer)
    /\ UNCHANGED <<docRows, job, autoRows, mailVars, bounds>>

BeforeEmailRefuses ==
    /\ \/ op[Deliverer].pc = "authorizing" /\ ~Authorized
       \/ op[Deliverer].pc = "comparing" /\ ~TheFrozenMinutes
    /\ Suspend
    /\ op' = [op EXCEPT ![Deliverer] = Idle]
    /\ UNCHANGED <<docRows, job, allowed, mailVars, bounds>>

\* After send(): the row gets the outcome, unconditionally
DeliveryDone ==
    /\ op[Deliverer].pc \in {"closing", "failing"}
    /\ delivery' = DeliverySt(IF op[Deliverer].pc = "closing" THEN "sent"
                              ELSE IF Exhausted(op[Deliverer].n + 1) THEN "held" ELSE "retry")
    /\ op' = [op EXCEPT ![Deliverer] = Idle]
    /\ UNCHANGED <<docRows, job, auto, allowed, mailVars, bounds>>

-----------------------------------------------------------------------------
(***************************************************************************)
(* The owner's rule, the hold of one meeting, time and crashes             *)
(***************************************************************************)
Chooses == starts < MaxStarts /\ starts' = starts + 1

\* The rule no longer sends automatically, or sends again
Pause ==
    /\ Automated /\ Chooses
    /\ allowed' = CASE allowed = "yes" -> "paused" [] allowed = "paused" -> "yes"
                     [] OTHER -> allowed
    /\ UNCHANGED <<docRows, job, auto, delivery, mailVars, op, versions, approvals, crashes>>

\* The policy or the team no longer allow it, or the owner or the calendar is gone
Revoke ==
    /\ Automated /\ Chooses
    /\ allowed' \in {"revoked", "removed"}
    /\ UNCHANGED <<docRows, job, auto, delivery, mailVars, op, versions, approvals, crashes>>

\* save() with the rule disabled: the rule, then _cancel_pending()
Disable ==
    /\ Automated /\ Chooses /\ LoopFree
    /\ allowed' = IF allowed = "removed" THEN allowed ELSE "paused"
    /\ Suspend
    /\ UNCHANGED <<docRows, job, mailVars, op, versions, approvals, crashes>>

\* patch_meeting(hold_delivery)
Hold ==
    /\ Automated /\ Chooses /\ allowed = "yes"
    /\ allowed' = "hold"
    /\ delivery' = IF delivery.st \in {"none", "sent"} THEN delivery ELSE DeliverySt("onhold")
    /\ UNCHANGED <<docRows, job, auto, mailVars, op, versions, approvals, crashes>>

Release ==
    /\ Automated /\ Chooses /\ allowed = "hold"
    /\ allowed' = "yes"
    /\ delivery' = IF delivery.st = "onhold" THEN DeliverySt("retry") ELSE delivery
    /\ UNCHANGED <<docRows, job, auto, mailVars, op, versions, approvals, crashes>>

\* An attempt lasts 30 seconds at most, so none spans the four hours between
\* the end of the window and the day the provider keeps a key
AdvanceClock ==
    /\ delivery.st # "none" /\ clock < 2
    /\ clock = 1 => op[Deliverer].pc = "idle"
    /\ clock' = clock + 1
    /\ keys' = IF clock = 1 THEN {k \in keys : k[2] # "team"} ELSE keys
    /\ UNCHANGED <<docRows, job, autoRows, mails, op, bounds>>

Crash ==
    /\ crashes < MaxCrashes
    /\ crashes' = crashes + 1
    /\ op' = [o \in Op |-> Idle]
    /\ UNCHANGED <<docRows, job, autoRows, mailVars, versions, approvals, starts>>

-----------------------------------------------------------------------------
\* What the process does by itself once somebody asked
RequestStep(r) ==
    \/ GenerateRead(r) \/ GenerateSave(r) \/ SaveSource(r) \/ GenerateFails(r)
    \/ EditSave(r) \/ ApproveCheck(r) \/ ApproveSave(r)
    \/ SendCheck(r) \/ Accepted(r) \/ Refused(r) \/ SendSave(r)
WorkerStep ==
    \/ WorkerStart \/ WorkerCloses \/ GenerateRead(Worker) \/ WorkerSave
    \/ WorkerDone \/ WorkerFails
DelivererStep ==
    \/ DeliverTick \/ AutoApproveRead \/ AutoApproveSave \/ Attempt \/ AutoSendRead
    \/ AutoSendCheck \/ BeforeEmail \/ BeforeEmailRefuses
    \/ Accepted(Deliverer) \/ Refused(Deliverer) \/ SendSave(Deliverer) \/ DeliveryDone

UserStep(r) == GenerateStart(r) \/ EditRead(r) \/ ApproveRead(r) \/ SendRead(r)
Others == \/ WorkerRetry \/ Delete \/ Revise \/ Pause \/ Revoke \/ Disable
          \/ Hold \/ Release \/ AdvanceClock \/ Crash

Next == \/ \E r \in Request : UserStep(r) \/ RequestStep(r)
        \/ WorkerStep \/ DelivererStep \/ Others

Spec == Init /\ [][Next]_vars

\* run() of the worker and of the automation loop for ever; a request that has
\* begun goes on.  Nothing is assumed of people, of time or of faults.
FairSpec == /\ Spec
            /\ WF_vars(WorkerStep) /\ WF_vars(DelivererStep)
            /\ \A r \in Request : WF_vars(RequestStep(r))

-----------------------------------------------------------------------------
(***************************************************************************)
(* Properties                                                              *)
(***************************************************************************)
\* The rows and the coroutines hold what the columns and locals can hold.
TypeOK ==
    /\ revision \in Nat /\ minutes \in Doc /\ source \in Nat
    /\ job \in JobRow /\ auto \in AutoRow /\ delivery \in DeliveryRow
    /\ allowed \in {"yes", "paused", "hold", "revoked", "removed"}
    /\ mails \in Seq([to : {"team", "all"}, doc : Doc])
    /\ keys \subseteq Nat \X {"team", "all"} /\ clock \in 0..2
    /\ op \in [Op -> OpState]
    /\ versions \in Nat /\ approvals \in Nat /\ starts \in Nat /\ crashes \in Nat

\* A MOM that says it was sent has the text of an e-mail that went out: send()
\* writes SENT with the copy it e-mailed, whatever was saved while it waited.
SentIsWhatWasEmailed ==
    minutes.st = "sent" => \E i \in DOMAIN mails : mails[i].doc.v = minutes.v

\* However often people send one approval to one audience, concurrently or
\* again after a lost answer, it arrives once: the key names the approval.
OneMailPerApproval ==
    \A i, j \in DOMAIN mails :
        mails[i].to = "all" /\ mails[j].to = "all" /\ mails[i].doc.ok = mails[j].doc.ok
            => i = j

\* A generated draft never takes the place of a sent MOM: what was sent while
\* the provider was writing is looked at again before the draft is saved.
DraftsSpareTheSent ==
    [][minutes.st = "sent" /\ versions' # versions => minutes'.origin = "edit"]_vars

\* Drafting settles: the worker ends with a MOM to review or gives up after
\* MaxAttempts attempts, through crashes, deletions and new attempts.
DraftingSettles == <>[](job.done \/ Exhausted(job.attempts))

\* The e-mail that leaves without a person having seen it is a draft of the
\* worker, as it wrote it, of the transcript as it is when it leaves the process.
AutoMailIsUntouched ==
    [][op[Deliverer].pc # "posting" /\ op'[Deliverer].pc = "posting"
         => LET d == op'[Deliverer].doc
            IN  d.origin = "worker" /\ d.v = auto.print /\ d.rev = revision /\ d = minutes]_vars

\* The team gets at most one automatic e-mail, although attempts are retried
\* after lost answers and crashes and the provider forgets keys after a day.
OneAutomaticMail ==
    \A i, j \in DOMAIN mails : mails[i].to = "team" /\ mails[j].to = "team" => i = j

\* A delivery that is recorded as sent did reach the team: a MOM somebody sent
\* by hand is not taken for it.
DeliveredMeansMailed ==
    delivery.st = "sent" => \E i \in DOMAIN mails : mails[i].to = "team"

\* A delivery that was begun is sent, held for a person to look at, or not
\* allowed for now; a crash in the middle of it does not leave it hanging.
DeliveryConcludes ==
    delivery.st \in {"pending", "sending", "retry"}
        ~> (delivery.st \in {"sent", "held"} \/ auto.suspended \/ allowed # "yes")

\* The minutes of a call come to an end by themselves: the draft is there or was
\* given up, and a delivery that was begun is concluded.
MinutesConclude == DraftingSettles /\ DeliveryConcludes

(***************************************************************************)
(* What comments and messages of the code say and the code does not do     *)
(***************************************************************************)
\* post_meeting_worker.py: "Never overwrite a human-reviewed or approved draft."
WorkerSparesReviewed ==
    [][op[Worker].pc = "writing" /\ op'[Worker].pc = "drafted"
         => minutes.origin # "edit" /\ minutes.st # "approved"]_vars

\* minutes_service.py: "sent MOM is locked; a versioned correction workflow is
\* required".
SentIsLocked == [][minutes.st = "sent" => minutes' = minutes]_vars

=============================================================================
