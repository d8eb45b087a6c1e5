----------------------- MODULE MinutesPipelineProofs ------------------------
(***************************************************************************)
(* What MinutesPipeline guarantees for any number of requests in flight,   *)
(* revisions, attempts and crashes: an approval is mailed once and what is *)
(* sent was e-mailed; of the e-mail that leaves without a person having    *)
(* seen it, the team gets one at most, a delivery recorded as sent reached *)
(* it, and what it reads is the worker's draft as it was written.          *)
(***************************************************************************)
EXTENDS MinutesPipeline, TLAPS

Pc   == Blocking \cup Waiting \cup Threads \cup {"idle"}
MailType == [to : {"team", "all"}, doc : Doc]

-----------------------------------------------------------------------------
(***************************************************************************)
(* Types of the compound values the actions build                          *)
(***************************************************************************)
LEMMA EmptyTypes == NoDoc \in Doc /\ Idle \in OpState
<1>1. NoDoc \in Doc
  BY DEF NoDoc, Doc, Origin
<1> QED
  BY <1>1 DEF Idle, OpState

LEMMA OpTypes ==
  ASSUME NEW x \in OpState, NEW p \in Pc, NEW d \in Doc, NEW k \in Nat
  PROVE  /\ [x EXCEPT !.pc = p] \in OpState
         /\ [x EXCEPT !.pc = p, !.doc = d] \in OpState
         /\ [x EXCEPT !.pc = p, !.rev = k] \in OpState
         /\ [x EXCEPT !.pc = p, !.n = k] \in OpState
         /\ x.doc \in Doc /\ x.rev \in Nat /\ x.n \in Nat
  BY DEF OpState, Pc

LEMMA DocTypes ==
  ASSUME NEW d \in Doc, NEW k \in Nat
  PROVE  /\ [d EXCEPT !.st = "draft", !.ok = 0] \in Doc
         /\ [d EXCEPT !.st = "approved", !.ok = k] \in Doc
         /\ [d EXCEPT !.st = "sent"] \in Doc
         /\ [d EXCEPT !.st = "draft", !.ok = 0, !.v = k, !.origin = "edit"] \in Doc
  BY DEF Doc, Origin

LEMMA SuspendType ==
  ASSUME TypeOK, Suspend
  PROVE  auto' \in AutoRow /\ delivery' \in DeliveryRow
<1>1. auto' \in AutoRow
  BY ConstantsAssumption DEF Suspend, TypeOK, AutoRow
<1>2. delivery' \in DeliveryRow
  BY DEF Suspend, Held, TypeOK, DeliveryRow
<1> QED
  BY <1>1, <1>2

LEMMA OpTyped ==
  ASSUME TypeOK, NEW o \in Op
  PROVE  /\ op[o] \in OpState /\ op[o].doc \in Doc /\ op[o].rev \in Nat /\ op[o].n \in Nat
         /\ minutes \in Doc
<1>1. op[o] \in OpState /\ minutes \in Doc
  BY DEF TypeOK
<1> QED
  BY <1>1 DEF OpState

\* What one coroutine does next
LEMMA MoveType ==
  ASSUME TypeOK, NEW o \in Op, NEW x \in OpState, op' = [op EXCEPT ![o] = x]
  PROVE  op' \in [Op -> OpState]
  BY DEF TypeOK

-----------------------------------------------------------------------------
(***************************************************************************)
(* Type correctness, one step per action                                   *)
(***************************************************************************)
LEMMA UserTypes ==
  ASSUME TypeOK, NEW r \in Request, UserStep(r)
  PROVE  TypeOK'
<1> r \in Op
  BY DEF Op
<1>1. ASSUME NEW x \in OpState, op' = op \/ op' = [op EXCEPT ![r] = x],
             Suspend, starts' = starts + 1,
             UNCHANGED <<docRows, job, allowed, mailVars, versions, approvals, crashes>>
      PROVE  TypeOK'
  <2>1. op' \in [Op -> OpState]
    BY <1>1, MoveType DEF TypeOK
  <2> QED
    BY <1>1, <2>1, SuspendType DEF TypeOK, docRows, mailVars
<1>2. CASE GenerateStart(r)
  <2>1. [Idle EXCEPT !.pc = "pulling"] \in OpState
    BY EmptyTypes, OpTypes, OpTyped DEF Pc, Waiting
  <2> QED
    BY <1>1, <1>2, <2>1 DEF GenerateStart, Starts
<1>3. ASSUME NEW p \in Pc
      PROVE  [Idle EXCEPT !.pc = p, !.doc = minutes] \in OpState
  BY EmptyTypes, OpTypes, OpTyped
<1>4. CASE EditRead(r)
  <2>1. [Idle EXCEPT !.pc = "editing", !.doc = minutes] \in OpState
    BY <1>3 DEF Pc, Threads
  <2> QED
    BY <1>1, <1>4, <2>1 DEF EditRead, Starts
<1>5. CASE ApproveRead(r)
  <2>1. [Idle EXCEPT !.pc = "approveRead", !.doc = minutes] \in OpState
    BY <1>3 DEF Pc, Threads
  <2> QED
    BY <1>1, <1>5, <2>1 DEF ApproveRead, Starts
<1>6. CASE SendRead(r)
  <2>1. [Idle EXCEPT !.pc = "checking", !.doc = minutes] \in OpState
    BY <1>3 DEF Pc, Blocking
  <2> QED
    BY <1>1, <1>6, <2>1 DEF SendRead, Starts
<1> QED
  BY <1>2, <1>4, <1>5, <1>6 DEF UserStep

\* A step that moves one coroutine and writes nothing else
LEMMA OnlyMoves ==
  ASSUME TypeOK, NEW o \in Op, NEW x \in OpState, op' = [op EXCEPT ![o] = x],
         UNCHANGED <<docRows, job, autoRows, mailVars, bounds>>
  PROVE  TypeOK'
<1>1. op' \in [Op -> OpState]
  BY MoveType
<1> QED
  BY <1>1 DEF TypeOK, docRows, autoRows, mailVars, bounds

\* A coroutine that stays where it was but for its program counter
LEMMA PcMoves ==
  ASSUME TypeOK, NEW o \in Op, NEW p \in Pc
  PROVE  [op[o] EXCEPT !.pc = p] \in OpState
  BY OpTyped, OpTypes

LEMMA MinutesTypes ==
  ASSUME TypeOK, NEW o \in Op
  PROVE  /\ Drafted(o) \in Doc /\ Invalidated \in Doc
         /\ Approved(op[o].doc) \in Doc /\ Sealed(op[o].doc) \in Doc
         /\ [op[o].doc EXCEPT !.st = "draft", !.ok = 0, !.v = versions + 1,
                              !.origin = "edit"] \in Doc
<1>1. versions + 1 \in Nat /\ approvals + 1 \in Nat
  BY DEF TypeOK
<1>2. op[o].doc \in Doc /\ minutes \in Doc /\ op[o].rev \in Nat
  BY OpTyped
<1>3. Drafted(o) \in Doc
  BY <1>1, <1>2 DEF Drafted, Doc, Origin
<1>4. Invalidated \in Doc
  BY <1>2, DocTypes DEF Invalidated
<1> QED
  BY <1>1, <1>2, <1>3, <1>4, DocTypes DEF Approved, Sealed

LEMMA MailTypes ==
  ASSUME TypeOK, NEW o \in Op, ProviderAccepts(o)
  PROVE  /\ mails' \in Seq([to : {"team", "all"}, doc : Doc])
         /\ keys' \subseteq Nat \X {"team", "all"}
<1>1. op[o].doc \in Doc
  BY OpTyped
<1>2. To(o) \in {"team", "all"}
  BY DEF To
<1>3. Mail(o) \in [to : {"team", "all"}, doc : Doc]
  BY <1>1, <1>2 DEF Mail
<1>4. Append(mails, Mail(o)) \in Seq([to : {"team", "all"}, doc : Doc])
  BY <1>3 DEF TypeOK
<1>5. Key(o, op[o].doc) \in Nat \X {"team", "all"}
  <2>1. op[o].doc.ok \in Nat
    BY <1>1 DEF Doc
  <2> QED
    BY <1>2, <2>1 DEF Key
<1>6. keys' = keys \cup {Key(o, op[o].doc)} /\ mails' \in {mails, Append(mails, Mail(o))}
  BY DEF ProviderAccepts
<1>7. /\ keys \subseteq Nat \X {"team", "all"}
      /\ mails \in Seq([to : {"team", "all"}, doc : Doc])
  BY DEF TypeOK
<1>8. keys' \subseteq Nat \X {"team", "all"}
  BY <1>5, <1>6, <1>7
<1> QED
  BY <1>4, <1>6, <1>7, <1>8

LEMMA Counters ==
  ASSUME TypeOK
  PROVE  versions + 1 \in Nat /\ approvals + 1 \in Nat
  BY DEF TypeOK

\* The steps that requests, the worker and the deliverer share
LEMMA SharedTypes ==
  ASSUME TypeOK, NEW o \in Op,
         GenerateRead(o) \/ Accepted(o) \/ Refused(o) \/ SendSave(o)
  PROVE  TypeOK'
<1>1. CASE GenerateRead(o)
  <2>1. [op[o] EXCEPT !.pc = "writing", !.rev = revision] \in OpState
    BY OpTyped, OpTypes DEF TypeOK, Pc, Waiting
  <2>2. op' \in [Op -> OpState]
    BY <1>1, <2>1, MoveType DEF GenerateRead
  <2>3. auto' \in AutoRow /\ delivery' \in DeliveryRow
    BY <1>1, SuspendType DEF GenerateRead, TypeOK
  <2> QED
    BY <1>1, <2>2, <2>3 DEF GenerateRead, TypeOK, docRows, mailVars, bounds
<1>2. CASE Accepted(o)
  <2>1. \A p \in {"accepted", "refused"} : [op[o] EXCEPT !.pc = p] \in OpState
    BY PcMoves DEF Pc, Waiting
  <2>2. op' \in [Op -> OpState]
    BY <1>2, <2>1, MoveType DEF Accepted
  <2>3. ProviderAccepts(o)
    BY <1>2 DEF Accepted
  <2>4. /\ mails' \in Seq([to : {"team", "all"}, doc : Doc])
        /\ keys' \subseteq Nat \X {"team", "all"}
    BY <2>3, MailTypes
  <2>5. UNCHANGED <<docRows, job, autoRows, clock, bounds>>
    BY <1>2 DEF Accepted
  <2> QED
    BY <2>2, <2>4, <2>5 DEF TypeOK, docRows, autoRows, bounds
<1>3. CASE Refused(o)
  <2>1. [op[o] EXCEPT !.pc = "refused"] \in OpState
    BY PcMoves DEF Pc, Waiting
  <2> QED
    BY <1>3, <2>1, OnlyMoves DEF Refused
<1>4. CASE SendSave(o)
  <2>1. /\ minutes' \in {Sealed(op[o].doc), op[o].doc}
        /\ \/ op' = [op EXCEPT ![o] = Idle]
           \/ \E p \in {"closing", "failing"} : op' = [op EXCEPT ![o] = [@ EXCEPT !.pc = p]]
        /\ UNCHANGED <<revision, source, job, autoRows, mailVars, bounds>>
    BY <1>4 DEF SendSave
  <2>2. \A p \in {"closing", "failing"} : [op[o] EXCEPT !.pc = p] \in OpState
    BY PcMoves DEF Pc, Blocking
  <2>3. op' \in [Op -> OpState]
    BY <2>1, <2>2, EmptyTypes, MoveType
  <2>4. minutes' \in Doc
    BY <2>1, MinutesTypes, OpTyped
  <2> QED
    BY <2>1, <2>3, <2>4 DEF TypeOK, autoRows, mailVars, bounds
<1> QED
  BY <1>1, <1>2, <1>3, <1>4

\* A coroutine that ends
LEMMA Ends ==
  ASSUME TypeOK, NEW o \in Op, op' = [op EXCEPT ![o] = Idle]
  PROVE  op' \in [Op -> OpState]
  BY EmptyTypes, MoveType

LEMMA RequestTypes ==
  ASSUME TypeOK, NEW r \in Request, RequestStep(r)
  PROVE  TypeOK'
<1> r \in Op
  BY DEF Op
<1>1. CASE GenerateRead(r) \/ Accepted(r) \/ Refused(r) \/ SendSave(r)
  BY <1>1, SharedTypes
<1>2. CASE GenerateSave(r)
  <2>1. [op[r] EXCEPT !.pc = "source"] \in OpState
    BY PcMoves DEF Pc, Blocking
  <2>2. op' \in [Op -> OpState]
    BY <1>2, <2>1, MoveType DEF GenerateSave
  <2>3. minutes' \in Doc /\ versions' \in Nat
    <3>1. /\ minutes' = Drafted(r)
          /\ versions' = versions + 1
      BY <1>2 DEF GenerateSave
    <3> QED
      BY <3>1, MinutesTypes, Counters
  <2> QED
    BY <1>2, <2>2, <2>3 DEF GenerateSave, TypeOK, autoRows, mailVars
<1>3. CASE SaveSource(r)
  <2>1. op' \in [Op -> OpState] /\ source' \in Nat
    BY <1>3, Ends, OpTyped DEF SaveSource
  <2> QED
    BY <1>3, <2>1 DEF SaveSource, TypeOK, autoRows, mailVars, bounds
<1>4. CASE GenerateFails(r)
  BY <1>4, EmptyTypes, OnlyMoves DEF GenerateFails
<1>5. CASE EditSave(r)
  <2>1. op' \in [Op -> OpState]
    BY <1>5, Ends DEF EditSave
  <2>2. minutes' \in Doc /\ versions' \in Nat
    <3>1. /\ minutes' = [op[r].doc EXCEPT !.st = "draft", !.ok = 0, !.v = versions + 1,
                                           !.origin = "edit"]
          /\ versions' = versions + 1
      BY <1>5 DEF EditSave
    <3> QED
      BY <3>1, MinutesTypes, Counters
  <2> QED
    BY <1>5, <2>1, <2>2 DEF EditSave, TypeOK, autoRows, mailVars
<1>6. CASE ApproveCheck(r)
  <2>1. [op[r] EXCEPT !.pc = "approveChecked"] \in OpState
    BY PcMoves DEF Pc, Threads
  <2>2. \E x \in OpState : op' = [op EXCEPT ![r] = x]
    BY <1>6, <2>1, EmptyTypes DEF ApproveCheck
  <2> QED
    BY <1>6, <2>2, OnlyMoves DEF ApproveCheck
<1>7. CASE ApproveSave(r)
  <2>1. op' \in [Op -> OpState]
    BY <1>7, Ends DEF ApproveSave
  <2>2. minutes' \in Doc /\ approvals' \in Nat
    <3>1. /\ minutes' = Approved(op[r].doc)
          /\ approvals' = approvals + 1
      BY <1>7 DEF ApproveSave
    <3> QED
      BY <3>1, MinutesTypes, Counters
  <2> QED
    BY <1>7, <2>1, <2>2 DEF ApproveSave, TypeOK, autoRows, mailVars
<1>8. CASE SendCheck(r)
  <2>1. [op[r] EXCEPT !.pc = "posting"] \in OpState
    BY PcMoves DEF Pc, Waiting
  <2>2. \E x \in OpState : op' = [op EXCEPT ![r] = x]
    BY <1>8, <2>1, EmptyTypes DEF SendCheck
  <2> QED
    BY <1>8, <2>2, OnlyMoves DEF SendCheck
<1> QED
  BY <1>1, <1>2, <1>3, <1>4, <1>5, <1>6, <1>7, <1>8 DEF RequestStep

LEMMA WorkerTypes ==
  ASSUME TypeOK, WorkerStep
  PROVE  TypeOK'
<1> Worker \in Op
  BY DEF Op
<1>1. \A n \in Nat : Drafting(n) \in OpState
  <2>1. "pulling" \in Pc
    BY DEF Pc, Waiting
  <2> QED
    BY <2>1, EmptyTypes, OpTypes DEF Drafting
<1>2. job.attempts \in Nat /\ op[Worker].n \in Nat
  BY OpTyped DEF TypeOK, JobRow
<1>3. CASE WorkerStart
  BY <1>1, <1>2, <1>3, OnlyMoves DEF WorkerStart
<1>4. CASE WorkerCloses
  <2>1. job' \in JobRow
    BY <1>4 DEF WorkerCloses, TypeOK, JobRow
  <2> QED
    BY <1>4, <2>1 DEF WorkerCloses, TypeOK, docRows, autoRows, mailVars, bounds
<1>5. CASE GenerateRead(Worker)
  BY <1>5, SharedTypes
<1>6. CASE WorkerSave
  <2>1. [op[Worker] EXCEPT !.pc = "drafted"] \in OpState
    BY PcMoves DEF Pc, Blocking
  <2>2. op' \in [Op -> OpState]
    BY <1>6, <2>1, MoveType DEF WorkerSave
  <2>3. minutes' \in Doc /\ versions' \in Nat /\ source' \in Nat
    <3>1. minutes' = Drafted(Worker) /\ versions' = versions + 1 /\ source' = op[Worker].rev
      BY <1>6 DEF WorkerSave
    <3> QED
      BY <3>1, MinutesTypes, Counters, OpTyped
  <2>4. \A a \in AutoRow, i, j \in Nat : [a EXCEPT !.print = i, !.rev = j] \in AutoRow
    BY DEF AutoRow
  <2>5. auto \in AutoRow /\ versions + 1 \in Nat /\ op[Worker].rev \in Nat
    BY OpTyped DEF TypeOK
  <2>6. auto' \in AutoRow
    BY <1>6, <2>4, <2>5 DEF WorkerSave
  <2>7. UNCHANGED <<revision, job, delivery, allowed, mailVars, approvals, starts, crashes>>
    BY <1>6 DEF WorkerSave
  <2> QED
    BY <2>2, <2>3, <2>6, <2>7 DEF TypeOK, mailVars
<1>7. CASE WorkerDone
  <2>1. job' \in JobRow /\ op' \in [Op -> OpState]
    BY <1>2, <1>7, Ends DEF WorkerDone, JobRow
  <2> QED
    BY <1>7, <2>1 DEF WorkerDone, TypeOK, docRows, autoRows, mailVars, bounds
<1>8. CASE WorkerFails
  <2>1. job' \in JobRow
    <3>1. job' = [done |-> FALSE, attempts |-> op[Worker].n + 1]
      BY <1>8 DEF WorkerFails, FailedOnceMore
    <3> QED
      BY <1>2, <3>1 DEF JobRow
  <2>2. op' \in [Op -> OpState]
    BY <1>8, Ends DEF WorkerFails
  <2> QED
    BY <1>8, <2>1, <2>2 DEF WorkerFails, TypeOK, docRows, autoRows, mailVars, bounds
<1> QED
  BY <1>3, <1>4, <1>5, <1>6, <1>7, <1>8 DEF WorkerStep

LEMMA DeliveryTypes ==
  ASSUME TypeOK
  PROVE  /\ \A st \in {"pending", "sending", "retry", "onhold", "held", "sent"} :
               DeliverySt(st) \in DeliveryRow
         /\ delivery.attempts \in Nat
  BY DEF TypeOK, DeliverySt, DeliveryRow

LEMMA DelivererTypes ==
  ASSUME TypeOK, DelivererStep
  PROVE  TypeOK'
<1> Deliverer \in Op
  BY DEF Op
<1>1. CASE DeliverTick
  <2>1. \A p \in {"approving", "attempt"} :
          [Idle EXCEPT !.pc = p, !.n = delivery.attempts] \in OpState
    BY DeliveryTypes, EmptyTypes DEF OpState, Blocking
  <2>2. /\ \/ Suspend /\ op' = op
           \/ /\ delivery' = DeliverySt("sent")
              /\ UNCHANGED <<auto, op>>
           \/ /\ \E p \in {"approving", "attempt"} :
                     op' = [op EXCEPT ![Deliverer] =
                              [Idle EXCEPT !.pc = p, !.n = delivery.attempts]]
              /\ UNCHANGED <<auto, delivery>>
        /\ UNCHANGED <<docRows, job, allowed, mailVars, bounds>>
    BY <1>1 DEF DeliverTick
  <2>3. op' \in [Op -> OpState]
    BY <2>1, <2>2, MoveType DEF TypeOK
  <2>4. auto' \in AutoRow /\ delivery' \in DeliveryRow
    BY <2>2, SuspendType, DeliveryTypes DEF TypeOK
  <2> QED
    BY <2>2, <2>3, <2>4 DEF TypeOK, docRows, mailVars, bounds
<1>2. CASE AutoApproveRead
  <2>1. [op[Deliverer] EXCEPT !.pc = "freezing", !.doc = minutes] \in OpState
    BY OpTyped, OpTypes DEF Pc, Blocking
  <2>2. \E x \in OpState : op' = [op EXCEPT ![Deliverer] = x]
    BY <1>2, <2>1, EmptyTypes DEF AutoApproveRead
  <2> QED
    BY <1>2, <2>2, OnlyMoves DEF AutoApproveRead
<1>3. CASE AutoApproveSave
  <2>1. [op[Deliverer] EXCEPT !.pc = "attempt", !.doc = NoDoc] \in OpState
    BY OpTyped, OpTypes, EmptyTypes DEF Pc, Blocking
  <2>2. op' \in [Op -> OpState]
    BY <1>3, <2>1, MoveType DEF AutoApproveSave
  <2>3. /\ minutes' = Approved(op[Deliverer].doc)
        /\ delivery' = [st |-> "pending", attempts |-> 0, ok |-> approvals + 1]
        /\ approvals' = approvals + 1
        /\ UNCHANGED <<revision, source, job, auto, allowed, mailVars, versions, starts, crashes>>
    BY <1>3 DEF AutoApproveSave
  <2>4. minutes' \in Doc /\ approvals' \in Nat
    BY <2>3, MinutesTypes, Counters
  <2>5. delivery' \in DeliveryRow
    BY <2>3, Counters DEF DeliveryRow
  <2> QED
    BY <2>2, <2>3, <2>4, <2>5 DEF TypeOK, mailVars
<1>4. CASE Attempt
  <2>1. [op[Deliverer] EXCEPT !.pc = "reading"] \in OpState
    BY PcMoves DEF Pc, Blocking
  <2>2. op' \in [Op -> OpState]
    BY <1>4, <2>1, MoveType DEF Attempt
  <2>3. delivery' \in DeliveryRow
    <3>1. delivery' = [delivery EXCEPT !.st = "sending", !.attempts = op[Deliverer].n + 1]
      BY <1>4 DEF Attempt, StartedOnceMore
    <3>2. delivery \in DeliveryRow /\ op[Deliverer].n + 1 \in Nat
      BY OpTyped DEF TypeOK
    <3> QED
      BY <3>1, <3>2 DEF DeliveryRow
  <2> QED
    BY <1>4, <2>2, <2>3 DEF Attempt, TypeOK, docRows, mailVars, bounds
<1>5. CASE AutoSendRead
  <2>1. /\ [op[Deliverer] EXCEPT !.pc = "checking", !.doc = minutes] \in OpState
        /\ [op[Deliverer] EXCEPT !.pc = "failing"] \in OpState
    BY OpTyped, OpTypes DEF Pc, Blocking
  <2>2. \E x \in OpState : op' = [op EXCEPT ![Deliverer] = x]
    BY <1>5, <2>1 DEF AutoSendRead
  <2> QED
    BY <1>5, <2>2, OnlyMoves DEF AutoSendRead
<1>6. CASE AutoSendCheck
  <2>1. \A p \in {"authorizing", "failing"} : [op[Deliverer] EXCEPT !.pc = p] \in OpState
    BY PcMoves DEF Pc, Blocking
  <2>2. \E x \in OpState : op' = [op EXCEPT ![Deliverer] = x]
    BY <1>6, <2>1 DEF AutoSendCheck
  <2> QED
    BY <1>6, <2>2, OnlyMoves DEF AutoSendCheck
<1>7. CASE BeforeEmail
  <2>1. \A p \in {"comparing", "posting"} : [op[Deliverer] EXCEPT !.pc = p] \in OpState
    BY PcMoves DEF Pc, Blocking, Waiting
  <2>2. \E x \in OpState : op' = [op EXCEPT ![Deliverer] = x]
    BY <1>7, <2>1 DEF BeforeEmail, Boundary
  <2> QED
    BY <1>7, <2>2, OnlyMoves DEF BeforeEmail
<1>8. CASE BeforeEmailRefuses
  <2>1. op' \in [Op -> OpState]
    BY <1>8, Ends DEF BeforeEmailRefuses
  <2>2. auto' \in AutoRow /\ delivery' \in DeliveryRow
    BY <1>8, SuspendType DEF BeforeEmailRefuses
  <2> QED
    BY <1>8, <2>1, <2>2 DEF BeforeEmailRefuses, TypeOK, docRows, mailVars, bounds
<1>9. CASE DeliveryDone
  <2>1. op' \in [Op -> OpState]
    BY <1>9, Ends DEF DeliveryDone
  <2>2. delivery' \in DeliveryRow
    BY <1>9, DeliveryTypes DEF DeliveryDone
  <2> QED
    BY <1>9, <2>1, <2>2 DEF DeliveryDone, TypeOK, docRows, mailVars, bounds
<1>10. CASE Accepted(Deliverer) \/ Refused(Deliverer) \/ SendSave(Deliverer)
  BY <1>10, SharedTypes
<1> QED
  BY <1>1, <1>2, <1>3, <1>4, <1>5, <1>6, <1>7, <1>8, <1>9, <1>10 DEF DelivererStep

LEMMA OtherTypes ==
  ASSUME TypeOK, Others
  PROVE  TypeOK'
<1>1. CASE WorkerRetry
  <2>1. Drafting(0) \in OpState
    <3>1. "pulling" \in Pc
      BY DEF Pc, Waiting
    <3> QED
      BY <3>1, EmptyTypes, OpTypes DEF Drafting
  <2>2. op' \in [Op -> OpState]
    BY <1>1, <2>1, MoveType DEF WorkerRetry, Op
  <2>3. job' \in JobRow
    BY <1>1 DEF WorkerRetry, JobRow
  <2> QED
    BY <1>1, <2>2, <2>3 DEF WorkerRetry, TypeOK, docRows, autoRows, mailVars
<1>2. CASE Delete
  <2>1. job \in JobRow /\ minutes \in Doc /\ source \in Nat /\ starts \in Nat
    BY DEF TypeOK
  <2>2. [job EXCEPT !.done = TRUE] \in JobRow
    BY <2>1 DEF JobRow
  <2>3. minutes' \in Doc /\ source' \in Nat /\ job' \in JobRow
    <3>1. \/ minutes' = minutes /\ source' = source /\ job' = job
          \/ minutes' = NoDoc /\ source' = 0 /\ job' = [job EXCEPT !.done = TRUE]
      BY <1>2 DEF Delete
    <3>2. NoDoc \in Doc /\ 0 \in Nat
      BY EmptyTypes
    <3>3. CASE minutes' = minutes /\ source' = source /\ job' = job
      BY <2>1, <3>3
    <3>4. CASE minutes' = NoDoc /\ source' = 0 /\ job' = [job EXCEPT !.done = TRUE]
      BY <2>2, <3>2, <3>4
    <3> QED
      BY <3>1, <3>3, <3>4
  <2>4. auto' \in AutoRow /\ delivery' \in DeliveryRow /\ starts' \in Nat
    BY <1>2, <2>1, SuspendType DEF Delete
  <2> QED
    BY <1>2, <2>3, <2>4 DEF Delete, TypeOK, mailVars
<1>3. CASE Revise
  <2>1. minutes' \in Doc
    <3>1. PICK o : o \in Op
      BY DEF Op
    <3> QED
      BY <1>3, <3>1, MinutesTypes DEF Revise
  <2> QED
    BY <1>3, <2>1 DEF Revise, TypeOK, autoRows, mailVars, bounds
<1>4. CASE Pause
  <2>1. allowed' \in {"yes", "paused", "hold", "revoked", "removed"} /\ starts' \in Nat
    BY <1>4 DEF Pause, Chooses, TypeOK
  <2> QED
    BY <1>4, <2>1 DEF Pause, TypeOK, docRows, mailVars
<1>5. CASE Revoke
  BY <1>5 DEF Revoke, Chooses, TypeOK, docRows, mailVars
<1>6. CASE Disable
  <2>1. auto' \in AutoRow /\ delivery' \in DeliveryRow
    BY <1>6, SuspendType DEF Disable
  <2>2. allowed' \in {"yes", "paused", "hold", "revoked", "removed"} /\ starts' \in Nat
    BY <1>6 DEF Disable, Chooses, TypeOK
  <2> QED
    BY <1>6, <2>1, <2>2 DEF Disable, TypeOK, docRows, mailVars
<1>7. CASE Hold
  <2>1. delivery' \in DeliveryRow
    BY <1>7, DeliveryTypes DEF Hold, TypeOK
  <2> QED
    BY <1>7, <2>1 DEF Hold, Chooses, TypeOK, docRows, mailVars
<1>8. CASE Release
  <2>1. delivery' \in DeliveryRow
    BY <1>8, DeliveryTypes DEF Release, TypeOK
  <2> QED
    BY <1>8, <2>1 DEF Release, Chooses, TypeOK, docRows, mailVars
<1>9. CASE AdvanceClock
  <2>1. clock' \in 0..2 /\ keys' \subseteq Nat \X {"team", "all"}
    BY <1>9 DEF AdvanceClock, TypeOK
  <2> QED
    BY <1>9, <2>1 DEF AdvanceClock, TypeOK, docRows, autoRows, bounds
<1>10. CASE Crash
  <2>1. op' \in [Op -> OpState] /\ crashes' \in Nat
    BY <1>10, EmptyTypes DEF Crash, TypeOK
  <2> QED
    BY <1>10, <2>1 DEF Crash, TypeOK, docRows, autoRows, mailVars
<1> QED
  BY <1>1, <1>2, <1>3, <1>4, <1>5, <1>6, <1>7, <1>8, <1>9, <1>10 DEF Others

LEMMA TypeInit == Init => TypeOK
<1> SUFFICES ASSUME Init PROVE TypeOK
  OBVIOUS
<1>1. minutes \in Doc /\ op \in [Op -> OpState]
  BY EmptyTypes DEF Init
<1>2. job \in JobRow /\ auto \in AutoRow /\ delivery \in DeliveryRow
  BY DEF Init, JobRow, AutoRow, DeliveryRow
<1>3. mails \in Seq([to : {"team", "all"}, doc : Doc])
  BY DEF Init
<1> QED
  BY <1>1, <1>2, <1>3 DEF Init, TypeOK

LEMMA TypeStep == TypeOK /\ [Next]_vars => TypeOK'
<1> SUFFICES ASSUME TypeOK, [Next]_vars PROVE TypeOK'
  OBVIOUS
<1>1. CASE UNCHANGED vars
  BY <1>1 DEF vars, TypeOK
<1> QED
  BY <1>1, UserTypes, RequestTypes, WorkerTypes, DelivererTypes, OtherTypes DEF Next

\* The rows and the coroutines keep their types, whatever people, the provider
\* and crashes do.
THEOREM TypeCorrect == Spec => []TypeOK
  BY TypeInit, TypeStep, PTL DEF Spec

-----------------------------------------------------------------------------
(***************************************************************************)
(* What a step can do to the coroutines, the MOM and the mailbox: all that *)
(* the two invariants below need to know of the actions.                   *)
(***************************************************************************)
SendPc == {"checking", "authorizing", "comparing", "posting", "accepted", "refused"}

\* Coroutine o goes on as x
OpMove(o, x) ==
    /\ x.doc \in {op[o].doc, NoDoc, minutes}
    /\ x.pc \in SendPc => \/ op[o].pc \in SendPc /\ x.doc = op[o].doc
                          \/ x.doc = minutes /\ minutes.st = "approved"
    /\ x.pc = "accepted" => /\ x.doc = op[o].doc
                            /\ op[o].pc = "accepted" \/ ProviderAccepts(o)

OpEffect == \A o \in Op : OpMove(o, op'[o])

MinutesEffect ==
    \/ minutes' = minutes /\ approvals' = approvals
    \/ minutes'.ok = 0 /\ minutes'.st \in {"none", "draft"} /\ approvals' = approvals
    \/ \E o \in Op : minutes' = Approved(op[o].doc) /\ approvals' = approvals + 1
    \/ \E o \in Op : /\ approvals' = approvals
                     /\ \/ op[o].pc = "accepted" /\ minutes' = Sealed(op[o].doc)
                        \/ op[o].pc = "refused" /\ minutes' = op[o].doc

MailEffect ==
    \/ /\ mails' = mails /\ keys' \subseteq keys
       /\ \A k \in keys : k[2] = "all" => k \in keys'
    \/ \E o \in Op : op[o].pc = "posting" /\ ProviderAccepts(o)

LEMMA OneMoves ==
  ASSUME TypeOK, NEW o \in Op, NEW x, op' = [op EXCEPT ![o] = x], OpMove(o, x)
  PROVE  OpEffect
<1> SUFFICES ASSUME NEW p \in Op PROVE OpMove(p, op'[p])
  BY DEF OpEffect
<1>1. op \in [Op -> OpState]
  BY DEF TypeOK
<1>2. CASE p = o
  BY <1>1, <1>2
<1>3. CASE p # o
  <2>1. op'[p] = op[p]
    BY <1>1, <1>3
  <2> QED
    BY <2>1 DEF OpMove
<1> QED
  BY <1>2, <1>3

LEMMA NoneMoves ==
  ASSUME op' = op
  PROVE  OpEffect
  BY DEF OpEffect, OpMove

\* Going on from one program counter to another with the same copy of the MOM
LEMMA PcMove ==
  ASSUME TypeOK, NEW o \in Op, NEW p \in Pc, op' = [op EXCEPT ![o] = [@ EXCEPT !.pc = p]],
         p \in SendPc => op[o].pc \in SendPc,
         p = "accepted" => ProviderAccepts(o)
  PROVE  OpEffect
<1> DEFINE x == [op[o] EXCEPT !.pc = p]
<1>1. op[o] \in OpState
  BY OpTyped
<1>2. x.pc = p /\ x.doc = op[o].doc
  BY <1>1 DEF OpState
<1>3. OpMove(o, x)
  BY <1>2 DEF OpMove
<1> HIDE DEF x
<1>4. op' = [op EXCEPT ![o] = x]
  BY DEF x
<1> QED
  BY <1>3, <1>4, OneMoves

LEMMA EndMove ==
  ASSUME TypeOK, NEW o \in Op, op' = [op EXCEPT ![o] = Idle]
  PROVE  OpEffect
<1>1. OpMove(o, Idle)
  BY DEF OpMove, Idle, SendPc
<1> QED
  BY <1>1, OneMoves

\* A coroutine that reads the MOM: to send it only when it is approved
LEMMA ReadMove ==
  ASSUME TypeOK, NEW o \in Op, NEW x, op' = [op EXCEPT ![o] = x],
         x.doc = minutes, x.pc # "accepted", x.pc \in SendPc => minutes.st = "approved"
  PROVE  OpEffect
<1>1. OpMove(o, x)
  BY DEF OpMove
<1> QED
  BY <1>1, OneMoves

Effects == OpEffect /\ MinutesEffect /\ MailEffect

\* A step that leaves the MOM and the mailbox alone
LEMMA QuietEffects ==
  ASSUME OpEffect, UNCHANGED <<minutes, approvals, mails, keys>>
  PROVE  Effects
  BY DEF Effects, MinutesEffect, MailEffect

LEMMA UserEffects ==
  ASSUME TypeOK, NEW r \in Request, UserStep(r)
  PROVE  Effects
<1> r \in Op
  BY DEF Op
<1>1. CASE GenerateStart(r)
  <2>1. OpMove(r, [Idle EXCEPT !.pc = "pulling"])
    BY DEF OpMove, Idle, SendPc
  <2>2. OpEffect
    BY <1>1, <2>1, OneMoves, NoneMoves DEF GenerateStart
  <2> QED
    BY <1>1, <2>2, QuietEffects DEF GenerateStart, docRows, mailVars
<1>2. ASSUME NEW p \in {"editing", "approveRead", "checking"},
             p = "checking" => minutes.st = "approved",
             op' = op \/ op' = [op EXCEPT ![r] = [Idle EXCEPT !.pc = p, !.doc = minutes]]
      PROVE  OpEffect
  <2> DEFINE x == [Idle EXCEPT !.pc = p, !.doc = minutes]
  <2>1. x.pc = p /\ x.doc = minutes
    BY DEF Idle
  <2>2. OpMove(r, x)
    BY <1>2, <2>1 DEF OpMove, SendPc
  <2> HIDE DEF x
  <2>3. op' = op \/ op' = [op EXCEPT ![r] = x]
    BY <1>2 DEF x
  <2> QED
    BY <2>2, <2>3, OneMoves, NoneMoves
<1>3. CASE EditRead(r)
  <2>1. OpEffect
    BY <1>2, <1>3 DEF EditRead
  <2> QED
    BY <1>3, <2>1, QuietEffects DEF EditRead, docRows, mailVars
<1>4. CASE ApproveRead(r)
  <2>1. OpEffect
    BY <1>2, <1>4 DEF ApproveRead
  <2> QED
    BY <1>4, <2>1, QuietEffects DEF ApproveRead, docRows, mailVars
<1>5. CASE SendRead(r)
  <2>1. CASE minutes.st # "approved"
    BY <1>5, <2>1, NoneMoves, QuietEffects DEF SendRead, docRows, mailVars
  <2>2. CASE minutes.st = "approved"
    <3>1. OpEffect
      BY <1>2, <1>5, <2>2 DEF SendRead
    <3> QED
      BY <1>5, <3>1, QuietEffects DEF SendRead, docRows, mailVars
  <2> QED
    BY <2>1, <2>2
<1> QED
  BY <1>1, <1>3, <1>4, <1>5 DEF UserStep

LEMMA SharedEffects ==
  ASSUME TypeOK, NEW o \in Op,
         GenerateRead(o) \/ Accepted(o) \/ Refused(o) \/ SendSave(o)
  PROVE  Effects
<1>1. CASE GenerateRead(o)
  <2> DEFINE x == [op[o] EXCEPT !.pc = "writing", !.rev = revision]
  <2>1. x.pc = "writing" /\ x.doc = op[o].doc
    BY OpTyped DEF OpState
  <2>2. OpMove(o, x)
    BY <2>1 DEF OpMove, SendPc
  <2>3. OpEffect
    <3>1. op' = [op EXCEPT ![o] = x]
      BY <1>1 DEF GenerateRead
    <3> HIDE DEF x
    <3> QED
      BY <2>2, <3>1, OneMoves
  <2> QED
    BY <1>1, <2>3, QuietEffects DEF GenerateRead, docRows, mailVars, bounds
<1>2. CASE Accepted(o)
  <2>1. PICK p \in {"accepted", "refused"} : op' = [op EXCEPT ![o] = [@ EXCEPT !.pc = p]]
    BY <1>2 DEF Accepted
  <2>2. ProviderAccepts(o) /\ op[o].pc = "posting"
    BY <1>2 DEF Accepted
  <2>3. p \in Pc /\ (p \in SendPc => op[o].pc \in SendPc)
    BY <2>2 DEF Pc, Waiting, SendPc
  <2>4. OpEffect
    BY <2>1, <2>2, <2>3, PcMove
  <2>5. minutes' = minutes /\ approvals' = approvals
    BY <1>2 DEF Accepted, docRows, bounds
  <2> QED
    BY <2>2, <2>4, <2>5 DEF Effects, MinutesEffect, MailEffect
<1>3. CASE Refused(o)
  <2>1. "refused" \in Pc /\ op[o].pc \in SendPc
    BY <1>3 DEF Pc, Waiting, SendPc, Refused
  <2>2. OpEffect
    BY <1>3, <2>1, PcMove DEF Refused
  <2> QED
    BY <1>3, <2>2, QuietEffects DEF Refused, docRows, mailVars, bounds
<1>4. CASE SendSave(o)
  <2>1. \/ op' = [op EXCEPT ![o] = Idle]
        \/ \E p \in {"closing", "failing"} : op' = [op EXCEPT ![o] = [@ EXCEPT !.pc = p]]
    BY <1>4 DEF SendSave
  <2>2. \A p \in {"closing", "failing"} : p \in Pc /\ p \notin SendPc /\ p # "accepted"
    BY DEF Pc, Blocking, SendPc
  <2>3. OpEffect
    BY <2>1, <2>2, PcMove, EndMove
  <2>4. /\ \/ op[o].pc = "accepted" /\ minutes' = Sealed(op[o].doc)
           \/ op[o].pc = "refused" /\ minutes' = op[o].doc
        /\ UNCHANGED <<mails, keys, approvals>>
    BY <1>4 DEF SendSave, mailVars, bounds
  <2> QED
    BY <2>3, <2>4 DEF Effects, MinutesEffect, MailEffect
<1> QED
  BY <1>1, <1>2, <1>3, <1>4

\* A step that saves a draft, or takes the MOM away
LEMMA DraftEffects ==
  ASSUME OpEffect, minutes'.ok = 0, minutes'.st \in {"none", "draft"},
         UNCHANGED <<approvals, mails, keys>>
  PROVE  Effects
  BY DEF Effects, MinutesEffect, MailEffect

\* A step that approves the copy a coroutine read
LEMMA ApprovalEffects ==
  ASSUME OpEffect, NEW o \in Op, minutes' = Approved(op[o].doc),
         approvals' = approvals + 1, UNCHANGED <<mails, keys>>
  PROVE  Effects
  BY DEF Effects, MinutesEffect, MailEffect

LEMMA DraftedIsDraft ==
  ASSUME NEW o
  PROVE  Drafted(o).ok = 0 /\ Drafted(o).st = "draft"
  BY DEF Drafted

LEMMA RequestEffects ==
  ASSUME TypeOK, NEW r \in Request, RequestStep(r)
  PROVE  Effects
<1> r \in Op
  BY DEF Op
<1>1. CASE GenerateRead(r) \/ Accepted(r) \/ Refused(r) \/ SendSave(r)
  BY <1>1, SharedEffects
<1>2. CASE GenerateSave(r)
  <2>1. "source" \in Pc /\ "source" \notin SendPc /\ "source" # "accepted"
    BY DEF Pc, Blocking, SendPc
  <2>2. OpEffect
    BY <1>2, <2>1, PcMove DEF GenerateSave
  <2>3. minutes' = Drafted(r) /\ UNCHANGED <<approvals, mails, keys>>
    BY <1>2 DEF GenerateSave, mailVars
  <2> QED
    BY <2>2, <2>3, DraftedIsDraft, DraftEffects
<1>3. CASE SaveSource(r)
  BY <1>3, EndMove, QuietEffects DEF SaveSource, mailVars, bounds
<1>4. CASE GenerateFails(r)
  BY <1>4, EndMove, QuietEffects DEF GenerateFails, docRows, mailVars, bounds
<1>5. CASE EditSave(r)
  <2>1. OpEffect /\ UNCHANGED <<approvals, mails, keys>>
    BY <1>5, EndMove DEF EditSave, mailVars
  <2>2. minutes' = [op[r].doc EXCEPT !.st = "draft", !.ok = 0, !.v = versions + 1,
                                     !.origin = "edit"]
    BY <1>5 DEF EditSave
  <2>3. op[r].doc \in Doc
    BY OpTyped
  <2>4. minutes'.ok = 0 /\ minutes'.st = "draft"
    BY <2>2, <2>3 DEF Doc
  <2> QED
    BY <2>1, <2>4, DraftEffects
<1>6. CASE ApproveCheck(r)
  <2>1. \/ op' = [op EXCEPT ![r] = Idle]
        \/ op' = [op EXCEPT ![r] = [@ EXCEPT !.pc = "approveChecked"]]
    BY <1>6 DEF ApproveCheck
  <2>2. "approveChecked" \in Pc /\ "approveChecked" \notin SendPc
    BY DEF Pc, Threads, SendPc
  <2>3. OpEffect
    BY <2>1, <2>2, EndMove, PcMove
  <2> QED
    BY <1>6, <2>3, QuietEffects DEF ApproveCheck, docRows, mailVars, bounds
<1>7. CASE ApproveSave(r)
  BY <1>7, EndMove, ApprovalEffects DEF ApproveSave, mailVars
<1>8. CASE SendCheck(r)
  <2>1. \/ op' = [op EXCEPT ![r] = Idle]
        \/ op' = [op EXCEPT ![r] = [@ EXCEPT !.pc = "posting"]]
    BY <1>8 DEF SendCheck
  <2>2. "posting" \in Pc /\ op[r].pc \in SendPc
    BY <1>8 DEF Pc, Waiting, SendPc, SendCheck
  <2>3. OpEffect
    BY <2>1, <2>2, EndMove, PcMove
  <2> QED
    BY <1>8, <2>3, QuietEffects DEF SendCheck, docRows, mailVars, bounds
<1> QED
  BY <1>1, <1>2, <1>3, <1>4, <1>5, <1>6, <1>7, <1>8 DEF RequestStep

LEMMA DraftingMoves ==
  ASSUME TypeOK, NEW n, op' = [op EXCEPT ![Worker] = Drafting(n)]
  PROVE  OpEffect
<1>1. Drafting(n).pc = "pulling" /\ Drafting(n).doc = NoDoc
  BY DEF Drafting, Idle
<1>2. OpMove(Worker, Drafting(n))
  BY <1>1 DEF OpMove, SendPc
<1> QED
  BY <1>2, OneMoves DEF Op

LEMMA WorkerEffects ==
  ASSUME TypeOK, WorkerStep
  PROVE  Effects
<1> Worker \in Op
  BY DEF Op
<1>1. CASE WorkerStart
  BY <1>1, DraftingMoves, QuietEffects DEF WorkerStart, docRows, mailVars, bounds
<1>2. CASE WorkerCloses
  BY <1>2, NoneMoves, QuietEffects DEF WorkerCloses, docRows, mailVars, bounds
<1>3. CASE GenerateRead(Worker)
  BY <1>3, SharedEffects
<1>4. CASE WorkerSave
  <2>1. "drafted" \in Pc /\ "drafted" \notin SendPc /\ "drafted" # "accepted"
    BY DEF Pc, Blocking, SendPc
  <2>2. OpEffect
    BY <1>4, <2>1, PcMove DEF WorkerSave
  <2>3. minutes' = Drafted(Worker) /\ UNCHANGED <<approvals, mails, keys>>
    BY <1>4 DEF WorkerSave, mailVars
  <2> QED
    BY <2>2, <2>3, DraftedIsDraft, DraftEffects
<1>5. CASE WorkerDone
  BY <1>5, EndMove, QuietEffects DEF WorkerDone, docRows, mailVars, bounds
<1>6. CASE WorkerFails
  BY <1>6, EndMove, QuietEffects DEF WorkerFails, docRows, mailVars, bounds
<1> QED
  BY <1>1, <1>2, <1>3, <1>4, <1>5, <1>6 DEF WorkerStep

LEMMA DelivererEffects ==
  ASSUME TypeOK, DelivererStep
  PROVE  Effects
<1> Deliverer \in Op
  BY DEF Op
<1>1. CASE DeliverTick
  <2>1. \/ op' = op
        \/ \E p \in {"approving", "attempt"} :
             op' = [op EXCEPT ![Deliverer] = [Idle EXCEPT !.pc = p, !.n = delivery.attempts]]
    BY <1>1 DEF DeliverTick
  <2>2. ASSUME NEW p \in {"approving", "attempt"}
        PROVE  OpMove(Deliverer, [Idle EXCEPT !.pc = p, !.n = delivery.attempts])
    BY DEF OpMove, Idle, SendPc
  <2>3. OpEffect
    BY <2>1, <2>2, OneMoves, NoneMoves
  <2> QED
    BY <1>1, <2>3, QuietEffects DEF DeliverTick, docRows, mailVars, bounds
<1>2. CASE AutoApproveRead
  <2> DEFINE x == [op[Deliverer] EXCEPT !.pc = "freezing", !.doc = minutes]
  <2>1. x.pc = "freezing" /\ x.doc = minutes
    BY OpTyped DEF OpState
  <2>2. op' = [op EXCEPT ![Deliverer] = x] \/ op' = [op EXCEPT ![Deliverer] = Idle]
    BY <1>2 DEF AutoApproveRead
  <2> HIDE DEF x
  <2>3. OpEffect
    BY <2>1, <2>2, ReadMove, EndMove DEF SendPc
  <2> QED
    BY <1>2, <2>3, QuietEffects DEF AutoApproveRead, docRows, mailVars, bounds
<1>3. CASE AutoApproveSave
  <2> DEFINE x == [op[Deliverer] EXCEPT !.pc = "attempt", !.doc = NoDoc]
  <2>1. x.pc = "attempt" /\ x.doc = NoDoc
    BY OpTyped DEF OpState
  <2>2. op' = [op EXCEPT ![Deliverer] = x]
    BY <1>3 DEF AutoApproveSave
  <2> HIDE DEF x
  <2>3. OpMove(Deliverer, x)
    BY <2>1 DEF OpMove, SendPc
  <2>4. OpEffect
    BY <2>2, <2>3, OneMoves
  <2>5. /\ minutes' = Approved(op[Deliverer].doc) /\ approvals' = approvals + 1
        /\ UNCHANGED <<mails, keys>>
    BY <1>3 DEF AutoApproveSave, mailVars
  <2> QED
    BY <2>4, <2>5, ApprovalEffects
<1>4. CASE Attempt
  <2>1. "reading" \in Pc /\ "reading" \notin SendPc /\ "reading" # "accepted"
    BY DEF Pc, Blocking, SendPc
  <2>2. OpEffect
    BY <1>4, <2>1, PcMove DEF Attempt
  <2> QED
    BY <1>4, <2>2, QuietEffects DEF Attempt, docRows, mailVars, bounds
<1>5. CASE AutoSendRead
  <2> DEFINE x == [op[Deliverer] EXCEPT !.pc = "checking", !.doc = minutes]
  <2>1. x.pc = "checking" /\ x.doc = minutes
    BY OpTyped DEF OpState
  <2>2. \/ minutes.st = "approved" /\ op' = [op EXCEPT ![Deliverer] = x]
        \/ op' = [op EXCEPT ![Deliverer] = [@ EXCEPT !.pc = "failing"]]
    BY <1>5 DEF AutoSendRead
  <2> HIDE DEF x
  <2>3. "failing" \in Pc /\ "failing" \notin SendPc /\ "failing" # "accepted"
    BY DEF Pc, Blocking, SendPc
  <2>4. OpEffect
    BY <2>1, <2>2, <2>3, ReadMove, PcMove
  <2> QED
    BY <1>5, <2>4, QuietEffects DEF AutoSendRead, docRows, mailVars, bounds
<1>6. CASE AutoSendCheck
  <2>1. \E p \in {"authorizing", "failing"} :
          op' = [op EXCEPT ![Deliverer] = [@ EXCEPT !.pc = p]]
    BY <1>6 DEF AutoSendCheck
  <2>2. /\ op[Deliverer].pc \in SendPc
        /\ \A p \in {"authorizing", "failing"} : p \in Pc /\ p # "accepted"
    BY <1>6 DEF AutoSendCheck, Pc, Blocking, SendPc
  <2>3. OpEffect
    BY <2>1, <2>2, PcMove
  <2> QED
    BY <1>6, <2>3, QuietEffects DEF AutoSendCheck, docRows, mailVars, bounds
<1>7. CASE BeforeEmail
  <2>1. /\ \E p \in {"comparing", "posting"} :
             op' = [op EXCEPT ![Deliverer] = [@ EXCEPT !.pc = p]]
        /\ op[Deliverer].pc \in {"authorizing", "comparing"}
    BY <1>7 DEF BeforeEmail, Boundary
  <2>2. /\ op[Deliverer].pc \in SendPc
        /\ \A p \in {"comparing", "posting"} : p \in Pc /\ p # "accepted"
    BY <2>1 DEF Pc, Blocking, Waiting, SendPc
  <2>3. OpEffect
    BY <2>1, <2>2, PcMove
  <2> QED
    BY <1>7, <2>3, QuietEffects DEF BeforeEmail, docRows, mailVars, bounds
<1>8. CASE BeforeEmailRefuses
  BY <1>8, EndMove, QuietEffects DEF BeforeEmailRefuses, docRows, mailVars, bounds
<1>9. CASE DeliveryDone
  BY <1>9, EndMove, QuietEffects DEF DeliveryDone, docRows, mailVars, bounds
<1>10. CASE Accepted(Deliverer) \/ Refused(Deliverer) \/ SendSave(Deliverer)
  BY <1>10, SharedEffects
<1> QED
  BY <1>1, <1>2, <1>3, <1>4, <1>5, <1>6, <1>7, <1>8, <1>9, <1>10 DEF DelivererStep

LEMMA OtherEffects ==
  ASSUME TypeOK, Others
  PROVE  Effects
<1>1. CASE WorkerRetry
  BY <1>1, DraftingMoves, QuietEffects DEF WorkerRetry, docRows, mailVars
<1>2. CASE Delete
  <2>1. OpEffect /\ UNCHANGED <<approvals, mails, keys>>
    BY <1>2, NoneMoves DEF Delete, mailVars
  <2>2. minutes' = minutes \/ minutes' = NoDoc
    BY <1>2 DEF Delete
  <2>3. CASE minutes' = minutes
    BY <2>1, <2>3, QuietEffects
  <2>4. CASE minutes' = NoDoc
    BY <2>1, <2>4, DraftEffects DEF NoDoc
  <2> QED
    BY <2>2, <2>3, <2>4
<1>3. CASE Revise
  <2>1. OpEffect /\ UNCHANGED <<approvals, mails, keys>>
    BY <1>3, NoneMoves DEF Revise, mailVars, bounds
  <2>2. \/ minutes' = minutes
        \/ minutes' = [minutes EXCEPT !.st = "draft", !.ok = 0]
    BY <1>3 DEF Revise, Invalidated
  <2>3. CASE minutes' = minutes
    BY <2>1, <2>3, QuietEffects
  <2>4. CASE minutes' = [minutes EXCEPT !.st = "draft", !.ok = 0]
    <3>1. minutes \in Doc
      BY DEF TypeOK
    <3>2. minutes'.ok = 0 /\ minutes'.st = "draft"
      BY <2>4, <3>1 DEF Doc
    <3> QED
      BY <2>1, <3>2, DraftEffects
  <2> QED
    BY <2>2, <2>3, <2>4
<1>4. CASE Pause \/ Revoke \/ Disable \/ Hold \/ Release
  BY <1>4, NoneMoves, QuietEffects
     DEF Pause, Revoke, Disable, Hold, Release, docRows, mailVars
<1>5. CASE AdvanceClock
  <2>1. OpEffect /\ UNCHANGED <<minutes, approvals, mails>>
    BY <1>5, NoneMoves DEF AdvanceClock, docRows, bounds
  <2>2. keys' = keys \/ keys' = {k \in keys : k[2] # "team"}
    BY <1>5 DEF AdvanceClock
  <2>3. MailEffect
    BY <2>1, <2>2 DEF MailEffect
  <2> QED
    BY <2>1, <2>3 DEF Effects, MinutesEffect
<1>6. CASE Crash
  <2>1. OpEffect
    BY <1>6 DEF Crash, OpEffect, OpMove, Idle, SendPc
  <2> QED
    BY <1>6, <2>1, QuietEffects DEF Crash, docRows, mailVars
<1> QED
  BY <1>1, <1>2, <1>3, <1>4, <1>5, <1>6 DEF Others

LEMMA StepEffects ==
  ASSUME TypeOK, [Next]_vars
  PROVE  Effects
<1>1. CASE UNCHANGED vars
  BY <1>1, NoneMoves, QuietEffects DEF vars
<1> QED
  BY <1>1, UserEffects, RequestEffects, WorkerEffects, DelivererEffects, OtherEffects DEF Next

-----------------------------------------------------------------------------
(***************************************************************************)
(* One e-mail per approval: the provider knows the key of every e-mail     *)
(* people had it send.                                                     *)
(***************************************************************************)
KeysKnown == \A i \in DOMAIN mails :
                 mails[i].to = "all" => <<mails[i].doc.ok, "all">> \in keys
MailInv == OneMailPerApproval /\ KeysKnown

\* What the provider does with a request: nothing new, or one more e-mail
LEMMA ProviderStep ==
  ASSUME TypeOK, NEW o \in Op, ProviderAccepts(o)
  PROVE  /\ keys' = keys \cup {<<op[o].doc.ok, To(o)>>}
         /\ \/ <<op[o].doc.ok, To(o)>> \in keys /\ mails' = mails
            \/ /\ <<op[o].doc.ok, To(o)>> \notin keys
               /\ DOMAIN mails' = DOMAIN mails \cup {Len(mails) + 1}
               /\ Len(mails) + 1 \notin DOMAIN mails
               /\ \A i \in DOMAIN mails : mails'[i] = mails[i]
               /\ mails'[Len(mails) + 1].to = To(o)
               /\ mails'[Len(mails) + 1].doc = op[o].doc
<1>1. /\ keys' = keys \cup {<<op[o].doc.ok, To(o)>>}
      /\ \/ <<op[o].doc.ok, To(o)>> \in keys /\ mails' = mails
         \/ /\ <<op[o].doc.ok, To(o)>> \notin keys
            /\ mails' = Append(mails, Mail(o))
  BY DEF ProviderAccepts, Key
<1>2. CASE mails' = Append(mails, Mail(o))
  <2>1. op[o].doc \in Doc /\ To(o) \in {"team", "all"}
    BY OpTyped DEF To
  <2>2. Mail(o) \in MailType /\ Mail(o).to = To(o) /\ Mail(o).doc = op[o].doc
    BY <2>1 DEF Mail, MailType
  <2>3. mails \in Seq(MailType)
    BY DEF TypeOK, MailType
  <2>4. /\ DOMAIN mails' = DOMAIN mails \cup {Len(mails) + 1}
        /\ Len(mails) + 1 \notin DOMAIN mails
        /\ \A i \in DOMAIN mails : mails'[i] = mails[i]
        /\ mails'[Len(mails) + 1] = Mail(o)
    BY <1>2, <2>2, <2>3
  <2> QED
    BY <1>1, <2>2, <2>4
<1> QED
  BY <1>1, <1>2

LEMMA MailStep ==
  ASSUME TypeOK, MailInv, MailEffect
  PROVE  MailInv'
<1>1. CASE /\ mails' = mails /\ keys' \subseteq keys
           /\ \A k \in keys : k[2] = "all" => k \in keys'
  BY <1>1 DEF MailInv, OneMailPerApproval, KeysKnown
<1>2. ASSUME NEW o \in Op, ProviderAccepts(o) PROVE MailInv'
  <2>1. CASE mails' = mails
    <3>1. keys \subseteq keys'
      BY <1>2, ProviderStep
    <3> QED
      BY <2>1, <3>1 DEF MailInv, OneMailPerApproval, KeysKnown
  <2>2. CASE mails' # mails
    <3> DEFINE n == Len(mails) + 1
    <3>1. /\ keys' = keys \cup {<<op[o].doc.ok, To(o)>>}
          /\ <<op[o].doc.ok, To(o)>> \notin keys
          /\ DOMAIN mails' = DOMAIN mails \cup {n} /\ n \notin DOMAIN mails
          /\ \A i \in DOMAIN mails : mails'[i] = mails[i]
          /\ mails'[n].to = To(o) /\ mails'[n].doc = op[o].doc
      BY <1>2, <2>2, ProviderStep
    <3> HIDE DEF n
    <3>2. KeysKnown'
      BY <3>1 DEF MailInv, KeysKnown
    <3>3. \A i \in DOMAIN mails : mails'[i].to = "all" /\ mails'[n].to = "all"
                                   => mails'[i].doc.ok # mails'[n].doc.ok
      BY <3>1 DEF MailInv, KeysKnown
    <3>4. OneMailPerApproval'
      BY <3>1, <3>3 DEF MailInv, OneMailPerApproval
    <3> QED
      BY <3>2, <3>4 DEF MailInv
  <2> QED
    BY <2>1, <2>2
<1> QED
  BY <1>1, <1>2 DEF MailEffect

\* For any number of concurrent and repeated requests, lost answers and
\* crashes, an approval reaches the audience people send it to at most once.
THEOREM PeopleMailOnce == Spec => []OneMailPerApproval
<1>1. Init => MailInv
  BY DEF Init, MailInv, OneMailPerApproval, KeysKnown
<1>2. TypeOK /\ MailInv /\ [Next]_vars => MailInv'
  BY StepEffects, MailStep DEF Effects
<1>3. MailInv => OneMailPerApproval
  BY DEF MailInv
<1> QED
  BY <1>1, <1>2, <1>3, TypeCorrect, PTL DEF Spec

-----------------------------------------------------------------------------
(***************************************************************************)
(* What is sent was e-mailed: an approval names one text, and the e-mail   *)
(* of an accepted request carries its approval.                            *)
(***************************************************************************)
DocsIn == {minutes} \cup {op[o].doc : o \in Op} \cup {mails[i].doc : i \in DOMAIN mails}

ApprovalsUsed == \A d \in DocsIn : d \in Doc /\ d.ok <= approvals
ApprovalsNameTexts == \A d, e \in DocsIn : d.ok = e.ok /\ d.ok # 0 => d.v = e.v
ApprovedHaveOne ==
    /\ minutes.st = "approved" => minutes.ok # 0
    /\ \A o \in Op : op[o].pc \in SendPc => op[o].doc.st = "approved" /\ op[o].doc.ok # 0
KeysHaveMails == \A k \in keys : \E i \in DOMAIN mails : mails[i].doc.ok = k[1]
AcceptedHaveMails ==
    \A o \in Op : op[o].pc = "accepted" =>
        \E i \in DOMAIN mails : mails[i].doc.ok = op[o].doc.ok

SentInv == /\ ApprovalsUsed /\ ApprovalsNameTexts /\ ApprovedHaveOne
           /\ KeysHaveMails /\ AcceptedHaveMails /\ SentIsWhatWasEmailed

\* No e-mail is ever unsent
LEMMA MailsStay ==
  ASSUME TypeOK, MailEffect
  PROVE  \A i \in DOMAIN mails : i \in DOMAIN mails' /\ mails'[i] = mails[i]
<1>1. CASE mails' = mails
  BY <1>1
<1>2. ASSUME NEW o \in Op, ProviderAccepts(o), mails' # mails
      PROVE  \A i \in DOMAIN mails : i \in DOMAIN mails' /\ mails'[i] = mails[i]
  BY <1>2, ProviderStep
<1> QED
  BY <1>1, <1>2 DEF MailEffect

\* New e-mails carry the copy of a coroutine
LEMMA MailDocs ==
  ASSUME TypeOK, MailEffect, NEW i \in DOMAIN mails'
  PROVE  mails'[i].doc \in DocsIn
<1>1. CASE mails' = mails
  BY <1>1 DEF DocsIn
<1>2. ASSUME NEW o \in Op, ProviderAccepts(o), mails' # mails
      PROVE  mails'[i].doc \in DocsIn
  <2>1. \/ i \in DOMAIN mails /\ mails'[i] = mails[i]
        \/ mails'[i].doc = op[o].doc
    BY <1>2, ProviderStep
  <2> QED
    BY <2>1 DEF DocsIn
<1> QED
  BY <1>1, <1>2 DEF MailEffect

\* Where a text and its approval come from
LEMMA DocsStep ==
  ASSUME TypeOK, Effects, NEW d \in DocsIn'
  PROVE  d = minutes' \/ d \in DocsIn \/ d = NoDoc
<1>1. CASE d = minutes'
  BY <1>1
<1>2. ASSUME NEW o \in Op, d = op'[o].doc PROVE d \in DocsIn \/ d = NoDoc
  BY <1>2 DEF Effects, OpEffect, OpMove, DocsIn
<1>3. ASSUME NEW i \in DOMAIN mails', d = mails'[i].doc PROVE d \in DocsIn
  BY <1>3, MailDocs DEF Effects
<1> QED
  BY <1>1, <1>2, <1>3 DEF DocsIn

LEMMA MinutesStep ==
  ASSUME TypeOK, TypeOK', SentInv, Effects
  PROVE  \/ /\ approvals' = approvals
            /\ \/ minutes'.ok = 0
               \/ \E e \in DocsIn : e.ok = minutes'.ok /\ e.v = minutes'.v
         \/ approvals' = approvals + 1 /\ minutes'.ok = approvals'
<1>1. CASE minutes' = minutes /\ approvals' = approvals
  BY <1>1 DEF DocsIn
<1>2. CASE minutes'.ok = 0 /\ approvals' = approvals
  BY <1>2
<1>3. ASSUME NEW o \in Op, minutes' = Approved(op[o].doc), approvals' = approvals + 1
      PROVE  minutes'.ok = approvals'
  BY <1>3, OpTyped DEF Approved, Doc
<1>4. ASSUME NEW o \in Op, approvals' = approvals,
             minutes' = Sealed(op[o].doc) \/ minutes' = op[o].doc
      PROVE  \E e \in DocsIn : e.ok = minutes'.ok /\ e.v = minutes'.v
  <2>1. minutes'.ok = op[o].doc.ok /\ minutes'.v = op[o].doc.v
    BY <1>4, OpTyped DEF Sealed, Doc
  <2>2. op[o].doc \in DocsIn
    BY DEF DocsIn
  <2> QED
    BY <2>1, <2>2
<1> QED
  BY <1>1, <1>2, <1>3, <1>4 DEF Effects, MinutesEffect

LEMMA TextsStep ==
  ASSUME TypeOK, TypeOK', SentInv, Effects
  PROVE  ApprovalsUsed' /\ ApprovalsNameTexts'
<1>0. approvals \in Nat /\ minutes' \in Doc /\ NoDoc \in Doc /\ NoDoc.ok = 0
  BY EmptyTypes DEF TypeOK, NoDoc
<1>1. \A d \in DocsIn : d \in Doc /\ d.ok \in Nat /\ d.ok <= approvals
  BY DEF SentInv, ApprovalsUsed, Doc
<1>2. minutes'.ok \in Nat
  BY <1>0 DEF Doc
<1>3. approvals' \in {approvals, approvals + 1} /\ minutes'.ok <= approvals'
  BY <1>0, <1>1, <1>2, MinutesStep
<1>4. ApprovalsUsed'
  <2> SUFFICES ASSUME NEW d \in DocsIn' PROVE d \in Doc /\ d.ok <= approvals'
    BY DEF ApprovalsUsed
  <2> QED
    BY <1>0, <1>1, <1>3, DocsStep
<1>5. ASSUME NEW d \in DocsIn', d.ok # 0
      PROVE  \/ \E e \in DocsIn : e.ok = d.ok /\ e.v = d.v
             \/ d = minutes' /\ d.ok = approvals + 1
  BY <1>0, <1>5, DocsStep, MinutesStep
<1>6. ApprovalsNameTexts'
  <2> SUFFICES ASSUME NEW d \in DocsIn', NEW e \in DocsIn', d.ok = e.ok, d.ok # 0
               PROVE  d.v = e.v
    BY DEF ApprovalsNameTexts
  <2>1. \A x \in DocsIn : x.ok # approvals + 1
    BY <1>0, <1>1
  <2>2. CASE d.ok = approvals + 1
    <3>1. d = minutes'
      <4>1. \/ \E x \in DocsIn : x.ok = d.ok /\ x.v = d.v
            \/ d = minutes' /\ d.ok = approvals + 1
        BY <1>5
      <4> QED
        BY <2>1, <2>2, <4>1
    <3>2. e = minutes'
      <4>1. e.ok # 0 /\ e.ok = approvals + 1
        BY <2>2
      <4>2. \/ \E x \in DocsIn : x.ok = e.ok /\ x.v = e.v
            \/ e = minutes' /\ e.ok = approvals + 1
        BY <1>5, <4>1
      <4> QED
        BY <2>1, <4>1, <4>2
    <3> QED
      BY <3>1, <3>2
  <2>3. CASE d.ok # approvals + 1
    <3>1. PICK x \in DocsIn : x.ok = d.ok /\ x.v = d.v
      BY <1>5, <2>3
    <3>2. PICK y \in DocsIn : y.ok = e.ok /\ y.v = e.v
      BY <1>5, <2>3
    <3> QED
      BY <3>1, <3>2 DEF SentInv, ApprovalsNameTexts
  <2> QED
    BY <2>2, <2>3
<1> QED
  BY <1>4, <1>6

LEMMA ApprovedStep ==
  ASSUME TypeOK, SentInv, Effects
  PROVE  ApprovedHaveOne'
<1>1. \A o \in Op : op'[o].pc \in SendPc
                      => op'[o].doc.st = "approved" /\ op'[o].doc.ok # 0
  BY DEF Effects, OpEffect, OpMove, SentInv, ApprovedHaveOne
<1>2. minutes'.st = "approved" => minutes'.ok # 0
  <2>1. CASE minutes' = minutes
    BY <2>1 DEF SentInv, ApprovedHaveOne
  <2>2. CASE minutes'.st \in {"none", "draft"}
    BY <2>2
  <2>3. ASSUME NEW o \in Op, minutes' = Approved(op[o].doc)
        PROVE  minutes'.ok # 0
    <3>1. minutes'.ok = approvals + 1
      BY <2>3, OpTyped DEF Approved, Doc
    <3> QED
      BY <3>1 DEF TypeOK
  <2>4. ASSUME NEW o \in Op, minutes' = Sealed(op[o].doc)
        PROVE  minutes'.st = "sent"
    BY <2>4, OpTyped DEF Sealed, Doc
  <2>5. ASSUME NEW o \in Op, op[o].pc = "refused", minutes' = op[o].doc
        PROVE  minutes'.ok # 0
    BY <2>5 DEF SentInv, ApprovedHaveOne, SendPc
  <2> QED
    BY <2>1, <2>2, <2>3, <2>4, <2>5 DEF Effects, MinutesEffect
<1> QED
  BY <1>1, <1>2 DEF ApprovedHaveOne

LEMMA AcceptedStep ==
  ASSUME TypeOK, SentInv, Effects
  PROVE  KeysHaveMails' /\ AcceptedHaveMails'
<1>1. \A i \in DOMAIN mails : i \in DOMAIN mails' /\ mails'[i] = mails[i]
  BY MailsStay DEF Effects
<1>2. ASSUME NEW k \in keys PROVE \E i \in DOMAIN mails' : mails'[i].doc.ok = k[1]
  BY <1>1 DEF SentInv, KeysHaveMails
<1>3. ASSUME NEW o \in Op, ProviderAccepts(o)
      PROVE  /\ keys' = keys \cup {<<op[o].doc.ok, To(o)>>}
             /\ \E i \in DOMAIN mails' : mails'[i].doc.ok = op[o].doc.ok
  <2> DEFINE k == <<op[o].doc.ok, To(o)>>
  <2>1. k[1] = op[o].doc.ok
    OBVIOUS
  <2>2. CASE k \in keys
    <3>1. \E i \in DOMAIN mails' : mails'[i].doc.ok = k[1]
      BY <1>2, <2>2
    <3> QED
      BY <1>3, <2>1, <3>1, ProviderStep
  <2>3. CASE k \notin keys
    BY <1>3, <2>3, ProviderStep
  <2> QED
    BY <2>2, <2>3
<1>4. KeysHaveMails'
  <2>1. CASE keys' \subseteq keys
    BY <1>2, <2>1 DEF KeysHaveMails
  <2>2. ASSUME NEW o \in Op, ProviderAccepts(o) PROVE KeysHaveMails'
    BY <1>2, <1>3, <2>2 DEF KeysHaveMails
  <2> QED
    BY <2>1, <2>2 DEF Effects, MailEffect
<1>5. AcceptedHaveMails'
  <2> SUFFICES ASSUME NEW o \in Op, op'[o].pc = "accepted"
               PROVE  \E i \in DOMAIN mails' : mails'[i].doc.ok = op'[o].doc.ok
    BY DEF AcceptedHaveMails
  <2>1. /\ op'[o].doc = op[o].doc
        /\ op[o].pc = "accepted" \/ ProviderAccepts(o)
    BY DEF Effects, OpEffect, OpMove
  <2>2. CASE op[o].pc = "accepted"
    BY <1>1, <2>1, <2>2 DEF SentInv, AcceptedHaveMails
  <2>3. CASE ProviderAccepts(o)
    BY <1>3, <2>1, <2>3
  <2> QED
    BY <2>1, <2>2, <2>3
<1> QED
  BY <1>4, <1>5

LEMMA SentStep ==
  ASSUME TypeOK, SentInv, Effects
  PROVE  SentIsWhatWasEmailed'
<1> SUFFICES ASSUME minutes'.st = "sent"
             PROVE  \E i \in DOMAIN mails' : mails'[i].doc.v = minutes'.v
  BY DEF SentIsWhatWasEmailed
<1>1. \A i \in DOMAIN mails : i \in DOMAIN mails' /\ mails'[i] = mails[i]
  BY MailsStay DEF Effects
<1>2. CASE minutes' = minutes
  BY <1>1, <1>2 DEF SentInv, SentIsWhatWasEmailed
<1>3. ASSUME NEW o \in Op, minutes' = Approved(op[o].doc) PROVE FALSE
  BY <1>3, OpTyped DEF Approved, Doc
<1>4. ASSUME NEW o \in Op, op[o].pc = "refused", minutes' = op[o].doc PROVE FALSE
  BY <1>4 DEF SentInv, ApprovedHaveOne, SendPc
<1>5. ASSUME NEW o \in Op, op[o].pc = "accepted", minutes' = Sealed(op[o].doc)
      PROVE  \E i \in DOMAIN mails' : mails'[i].doc.v = minutes'.v
  <2>1. PICK i \in DOMAIN mails : mails[i].doc.ok = op[o].doc.ok
    BY <1>5 DEF SentInv, AcceptedHaveMails
  <2>2. op[o].doc.ok # 0
    BY <1>5 DEF SentInv, ApprovedHaveOne, SendPc
  <2>3. mails[i].doc \in DocsIn /\ op[o].doc \in DocsIn
    BY <2>1 DEF DocsIn
  <2>4. mails[i].doc.v = op[o].doc.v
    BY <2>1, <2>2, <2>3 DEF SentInv, ApprovalsNameTexts
  <2>5. minutes'.v = op[o].doc.v
    BY <1>5, OpTyped DEF Sealed, Doc
  <2> QED
    BY <1>1, <2>1, <2>4, <2>5
<1> QED
  BY <1>2, <1>3, <1>4, <1>5 DEF Effects, MinutesEffect

LEMMA SentInit == Init => SentInv
<1> SUFFICES ASSUME Init PROVE SentInv
  OBVIOUS
<1>1. DocsIn = {NoDoc}
  BY DEF Init, DocsIn, Idle, Op
<1>2. NoDoc \in Doc /\ NoDoc.ok = 0 /\ NoDoc.st = "none"
  BY EmptyTypes DEF NoDoc
<1>3. ApprovalsUsed /\ ApprovalsNameTexts
  BY <1>1, <1>2 DEF Init, ApprovalsUsed, ApprovalsNameTexts
<1>4. ApprovedHaveOne /\ AcceptedHaveMails
  BY <1>2 DEF Init, ApprovedHaveOne, AcceptedHaveMails, Idle, SendPc
<1>5. KeysHaveMails /\ SentIsWhatWasEmailed
  BY <1>2 DEF Init, KeysHaveMails, SentIsWhatWasEmailed
<1> QED
  BY <1>3, <1>4, <1>5 DEF SentInv

\* A MOM that says it was sent has the text of an e-mail that went out, for any
\* number of edits, approvals and sends that overlap.
THEOREM SentWasEmailed == Spec => []SentIsWhatWasEmailed
<1>1. TypeOK /\ TypeOK' /\ SentInv /\ [Next]_vars => SentInv'
  BY StepEffects, TextsStep, ApprovedStep, AcceptedStep, SentStep DEF SentInv
<1>2. SentInv => SentIsWhatWasEmailed
  BY DEF SentInv
<1> QED
  BY SentInit, <1>1, <1>2, TypeCorrect, PTL DEF Spec

-----------------------------------------------------------------------------
(***************************************************************************)
(* The e-mail that leaves without a person having seen it.                  *)
(***************************************************************************)

\* The stages of one pass of _deliver(): before the delivery row is made, and
\* after; between the copy it sends and the provider it crosses boundaries
BeforeTheRow == {"approving", "freezing"}
WithTheRow   == {"attempt", "reading", "checking", "authorizing", "comparing", "posting",
                 "accepted", "refused", "closing", "failing"}
Boundaries   == {"checking", "authorizing", "comparing"}

-----------------------------------------------------------------------------
(***************************************************************************)
(* The inductive invariant of OneAutomaticMail.  One approval is frozen     *)
(* with the delivery row and never replaced; a copy that passes the last    *)
(* check carries it, because whatever changes the MOM meanwhile carries     *)
(* another; so every e-mail to the team has the key of the first.  When the *)
(* provider forgets that key, the window is over and no pass is under way.  *)
(***************************************************************************)
OneRow ==
    /\ op[Deliverer].pc \in BeforeTheRow \cup WithTheRow \cup {"idle"}
    /\ op[Deliverer].pc \in BeforeTheRow => delivery.st = "none"
    /\ op[Deliverer].pc \in WithTheRow \/ clock > 0 => delivery.st # "none"
    /\ clock = 2 => op[Deliverer].pc = "idle"
    /\ delivery.st # "none" => delivery.ok \in 1 .. approvals

BoundToTheApproval ==
    /\ op[Deliverer].pc \in Boundaries =>
           op[Deliverer].doc = minutes \/ minutes.ok # delivery.ok
    /\ op[Deliverer].pc \in {"posting", "accepted", "refused"} =>
           op[Deliverer].doc.ok = delivery.ok

TeamMails ==
    \A i \in DOMAIN mails : mails[i].to = "team" =>
        /\ delivery.st # "none" /\ mails[i].doc.ok = delivery.ok
        /\ clock < 2 => <<delivery.ok, "team">> \in keys

OneMailInv == OneRow /\ BoundToTheApproval /\ TeamMails /\ OneAutomaticMail

-----------------------------------------------------------------------------
(***************************************************************************)
(* What everybody but the deliverer and time can do to a delivery           *)
(***************************************************************************)
\* The row is there or not as before, for the same approval; and nobody but the
\* deliverer says that it is sent
SameRow ==
    /\ delivery'.ok = delivery.ok
    /\ delivery'.st = "none" <=> delivery.st = "none"
RowKept == SameRow /\ (delivery'.st = "sent" => delivery.st = "sent")

OthersAct ==
    /\ op'[Deliverer] \in {op[Deliverer], Idle} /\ RowKept /\ clock' = clock
    /\ op[Deliverer].pc \in Boundaries => minutes' = minutes \/ minutes'.ok \in {0, approvals + 1}
    /\ \/ mails' = mails /\ keys' = keys
       \/ \E r \in Request : ProviderAccepts(r)

LEMMA SuspendKeeps ==
  ASSUME TypeOK, Suspend
  PROVE  /\ RowKept
         /\ auto'.print = auto.print /\ auto'.rev = auto.rev /\ auto'.suspended = Automated
<1>1. delivery \in DeliveryRow /\ auto \in AutoRow
  BY DEF TypeOK
<1> QED
  BY <1>1 DEF Suspend, Held, RowKept, SameRow, DeliveryRow, AutoRow

LEMMA RowUnchanged ==
  ASSUME UNCHANGED delivery
  PROVE  RowKept
  BY DEF RowKept, SameRow

\* A blocking deliverer keeps the event loop
LEMMA LoopIsHeld ==
  ASSUME LoopFree
  PROVE  op[Deliverer].pc \notin Boundaries
<1>1. Deliverer \in Op /\ Boundaries \subseteq Blocking
  BY DEF Op, Boundaries, Blocking
<1> QED
  BY <1>1 DEF LoopFree

\* A step that does not move the deliverer and has no business with the row
LEMMA OtherCoroutine ==
  ASSUME op'[Deliverer] = op[Deliverer], RowKept, clock' = clock,
         LoopFree \/ minutes' = minutes \/ minutes'.ok \in {0, approvals + 1},
         \/ mails' = mails /\ keys' = keys
         \/ \E r \in Request : ProviderAccepts(r)
  PROVE  OthersAct
  BY LoopIsHeld DEF OthersAct

LEMMA UsersAct ==
  ASSUME TypeOK, NEW r \in Request, UserStep(r)
  PROVE  OthersAct
<1>1. r \in Op \ {Deliverer} /\ Deliverer \in Op /\ op \in [Op -> OpState]
  BY ConstantsAssumption DEF Op, TypeOK
<1>2. op'[Deliverer] = op[Deliverer]
  BY <1>1 DEF UserStep, GenerateStart, EditRead, ApproveRead, SendRead
<1>3. Suspend /\ UNCHANGED <<docRows, mailVars>>
  BY DEF UserStep, GenerateStart, EditRead, ApproveRead, SendRead
<1>4. minutes' = minutes /\ mails' = mails /\ keys' = keys /\ clock' = clock
  BY <1>3 DEF docRows, mailVars
<1> QED
  BY <1>2, <1>3, <1>4, SuspendKeeps, OtherCoroutine

LEMMA RequestsMove ==
  ASSUME TypeOK, NEW r \in Request, RequestStep(r)
  PROVE  op'[Deliverer] = op[Deliverer]
<1>1. r \in Op \ {Deliverer} /\ Deliverer \in Op /\ op \in [Op -> OpState]
  BY ConstantsAssumption DEF Op, TypeOK
<1>2. CASE GenerateRead(r)
  BY <1>1, <1>2 DEF GenerateRead
<1>3. CASE GenerateSave(r)
  BY <1>1, <1>3 DEF GenerateSave
<1>4. CASE SaveSource(r) \/ GenerateFails(r) \/ EditSave(r) \/ ApproveSave(r)
  BY <1>1, <1>4 DEF SaveSource, GenerateFails, EditSave, ApproveSave
<1>5. CASE ApproveCheck(r) \/ SendCheck(r)
  BY <1>1, <1>5 DEF ApproveCheck, SendCheck
<1>6. CASE Accepted(r)
  BY <1>1, <1>6 DEF Accepted
<1>7. CASE Refused(r)
  BY <1>1, <1>7 DEF Refused
<1>8. CASE SendSave(r)
  BY <1>1, <1>8 DEF SendSave
<1> QED
  BY <1>2, <1>3, <1>4, <1>5, <1>6, <1>7, <1>8 DEF RequestStep

LEMMA RequestsAct ==
  ASSUME TypeOK, NEW r \in Request, RequestStep(r)
  PROVE  OthersAct
<1> r \in Op /\ r # Worker
  BY ConstantsAssumption DEF Op
<1>0. op'[Deliverer] = op[Deliverer]
  BY RequestsMove
<1>1. CASE GenerateRead(r)
  <2>1. Suspend /\ UNCHANGED <<docRows, mailVars>>
    BY <1>1 DEF GenerateRead
  <2>2. minutes' = minutes /\ mails' = mails /\ keys' = keys /\ clock' = clock
    BY <2>1 DEF docRows, mailVars
  <2> QED
    BY <1>0, <2>1, <2>2, SuspendKeeps, OtherCoroutine
<1>2. CASE GenerateSave(r) \/ SendSave(r)
  <2>1. LoopFree /\ UNCHANGED <<delivery, mails, keys, clock>>
    BY <1>2 DEF GenerateSave, SendSave, autoRows, mailVars
  <2> QED
    BY <1>0, <2>1, RowUnchanged, OtherCoroutine
<1>3. CASE SaveSource(r) \/ GenerateFails(r) \/ ApproveCheck(r) \/ SendCheck(r) \/ Refused(r)
  <2>1. UNCHANGED <<minutes, delivery, mails, keys, clock>>
    BY <1>3 DEF SaveSource, GenerateFails, ApproveCheck, SendCheck, Refused, docRows,
                autoRows, mailVars
  <2> QED
    BY <1>0, <2>1, RowUnchanged, OtherCoroutine
<1>4. CASE EditSave(r)
  <2>1. /\ minutes' = [op[r].doc EXCEPT !.st = "draft", !.ok = 0, !.v = versions + 1,
                                        !.origin = "edit"]
        /\ UNCHANGED <<delivery, mails, keys, clock>>
    BY <1>4 DEF EditSave, autoRows, mailVars
  <2>2. op[r].doc \in Doc
    BY OpTyped
  <2>3. minutes'.ok = 0
    BY <2>1, <2>2 DEF Doc
  <2> QED
    BY <1>0, <2>1, <2>3, RowUnchanged, OtherCoroutine
<1>5. CASE ApproveSave(r)
  <2>1. minutes' = Approved(op[r].doc) /\ UNCHANGED <<delivery, mails, keys, clock>>
    BY <1>5 DEF ApproveSave, autoRows, mailVars
  <2>2. minutes'.ok = approvals + 1
    BY <2>1, OpTyped DEF Approved, Doc
  <2> QED
    BY <1>0, <2>1, <2>2, RowUnchanged, OtherCoroutine
<1>6. CASE Accepted(r)
  <2>1. ProviderAccepts(r) /\ UNCHANGED <<minutes, delivery, clock>>
    BY <1>6 DEF Accepted, docRows, autoRows
  <2> QED
    BY <1>0, <2>1, RowUnchanged, OtherCoroutine
<1> QED
  BY <1>1, <1>2, <1>3, <1>4, <1>5, <1>6 DEF RequestStep

LEMMA WorkersAct ==
  ASSUME TypeOK, WorkerStep
  PROVE  OthersAct
<1>1. Worker \in Op \ {Deliverer} /\ Deliverer \in Op /\ op \in [Op -> OpState]
  BY ConstantsAssumption DEF Op, TypeOK
<1>2. op'[Deliverer] = op[Deliverer]
  <2>1. CASE WorkerStart \/ WorkerCloses \/ WorkerDone \/ WorkerFails
    BY <1>1, <2>1 DEF WorkerStart, WorkerCloses, WorkerDone, WorkerFails
  <2>2. CASE GenerateRead(Worker)
    BY <1>1, <2>2 DEF GenerateRead
  <2>3. CASE WorkerSave
    BY <1>1, <2>3 DEF WorkerSave
  <2> QED
    BY <2>1, <2>2, <2>3 DEF WorkerStep
<1>3. LoopFree \/ minutes' = minutes
  BY DEF WorkerStep, WorkerStart, WorkerCloses, GenerateRead, WorkerSave, WorkerDone,
         WorkerFails, docRows
<1>4. UNCHANGED <<delivery, mails, keys, clock>>
  <2>1. CASE WorkerSave
    BY <2>1 DEF WorkerSave, mailVars
  <2>2. CASE ~WorkerSave
    BY <2>2 DEF WorkerStep, WorkerStart, WorkerCloses, GenerateRead, WorkerDone,
                WorkerFails, autoRows, mailVars
  <2> QED
    BY <2>1, <2>2
<1> QED
  BY <1>2, <1>3, <1>4, RowUnchanged, OtherCoroutine

\* People and faults; time is a case of its own
LEMMA PeopleAct ==
  ASSUME TypeOK, Others, ~AdvanceClock
  PROVE  OthersAct
<1>0. Deliverer \in Op /\ Worker \in Op \ {Deliverer} /\ op \in [Op -> OpState]
  BY ConstantsAssumption DEF Op, TypeOK
<1>1. CASE WorkerRetry
  <2>1. op'[Deliverer] = op[Deliverer] /\ UNCHANGED <<minutes, delivery, mails, keys, clock>>
    BY <1>0, <1>1 DEF WorkerRetry, docRows, autoRows, mailVars
  <2> QED
    BY <2>1, RowUnchanged, OtherCoroutine
<1>2. CASE Delete
  <2>1. Suspend /\ UNCHANGED <<op, mails, keys, clock>> /\ minutes' \in {minutes, NoDoc}
    BY <1>2 DEF Delete, mailVars
  <2>2. minutes' = minutes \/ minutes'.ok = 0
    BY <2>1 DEF NoDoc
  <2> QED
    BY <2>1, <2>2, SuspendKeeps, OtherCoroutine
<1>3. CASE Revise
  <2>1. minutes' = Invalidated /\ UNCHANGED <<op, delivery, mails, keys, clock>>
    BY <1>3 DEF Revise, autoRows, mailVars
  <2>2. minutes' = minutes \/ minutes'.ok = 0
    <3>1. minutes \in Doc
      BY DEF TypeOK
    <3> QED
      BY <2>1, <3>1 DEF Invalidated, Doc
  <2> QED
    BY <2>1, <2>2, RowUnchanged, OtherCoroutine
<1>4. CASE Pause \/ Revoke
  <2>1. UNCHANGED <<op, minutes, delivery, mails, keys, clock>>
    BY <1>4 DEF Pause, Revoke, docRows, mailVars
  <2> QED
    BY <2>1, RowUnchanged, OtherCoroutine
<1>5. CASE Disable
  <2>1. Suspend /\ UNCHANGED <<op, minutes, mails, keys, clock>>
    BY <1>5 DEF Disable, docRows, mailVars
  <2> QED
    BY <2>1, SuspendKeeps, OtherCoroutine
<1>6. CASE Hold \/ Release
  <2>1. /\ delivery' = delivery \/ \E s \in {"onhold", "retry"} : delivery' = DeliverySt(s)
        /\ delivery' # delivery => delivery.st # "none"
        /\ UNCHANGED <<op, minutes, mails, keys, clock>>
    BY <1>6 DEF Hold, Release, docRows, mailVars
  <2>2. RowKept
    <3>1. delivery \in DeliveryRow
      BY DEF TypeOK
    <3> QED
      BY <2>1, <3>1 DEF RowKept, SameRow, DeliverySt, DeliveryRow
  <2> QED
    BY <2>1, <2>2, OtherCoroutine
<1>7. CASE Crash
  <2>1. op'[Deliverer] = Idle /\ UNCHANGED <<minutes, delivery, mails, keys, clock>>
    BY <1>0, <1>7 DEF Crash, docRows, autoRows, mailVars
  <2> QED
    BY <2>1, RowUnchanged DEF OthersAct
<1> QED
  BY <1>1, <1>2, <1>3, <1>4, <1>5, <1>6, <1>7 DEF Others

\* E-mails to the team come from the deliverer
LEMMA TeamMailsStay ==
  ASSUME TypeOK, OthersAct, NEW i \in DOMAIN mails', mails'[i].to = "team"
  PROVE  i \in DOMAIN mails /\ mails'[i] = mails[i]
<1>1. CASE mails' = mails
  BY <1>1
<1>2. ASSUME NEW r \in Request, ProviderAccepts(r)
      PROVE  i \in DOMAIN mails /\ mails'[i] = mails[i]
  <2>1. r \in Op /\ To(r) = "all"
    BY ConstantsAssumption DEF Op, To
  <2> QED
    BY <1>2, <2>1, ProviderStep
<1> QED
  BY <1>1, <1>2 DEF OthersAct

LEMMA KeysGrow ==
  ASSUME TypeOK, OthersAct
  PROVE  keys \subseteq keys'
<1>1. ASSUME NEW r \in Request, ProviderAccepts(r) PROVE keys \subseteq keys'
  BY <1>1 DEF ProviderAccepts
<1> QED
  BY <1>1 DEF OthersAct

LEMMA ApprovalsGrow ==
  ASSUME TypeOK, Effects
  PROVE  approvals \in Nat /\ approvals' \in {approvals, approvals + 1}
  BY DEF TypeOK, Effects, MinutesEffect

LEMMA OthersKeepOneMail ==
  ASSUME TypeOK, OneMailInv, Effects, OthersAct
  PROVE  OneMailInv'
<1> USE DEF OneMailInv
<1>0. op'[Deliverer] \in {op[Deliverer], Idle} /\ RowKept /\ clock' = clock
  BY DEF OthersAct
<1>1. OneRow'
  <2>1. delivery'.ok \in 1 .. approvals' \/ delivery'.st = "none"
    BY <1>0, ApprovalsGrow DEF OneRow, RowKept, SameRow
  <2> QED
    BY <1>0, <2>1 DEF OneRow, RowKept, SameRow, Idle, BeforeTheRow, WithTheRow
<1>2. BoundToTheApproval'
  <2>1. CASE op'[Deliverer] = Idle
    BY <2>1 DEF BoundToTheApproval, Idle, Boundaries
  <2>2. CASE op'[Deliverer] = op[Deliverer]
    <3>1. delivery'.ok = delivery.ok
      BY <1>0 DEF RowKept, SameRow
    <3>2. ASSUME op[Deliverer].pc \in Boundaries
          PROVE  op[Deliverer].doc = minutes' \/ minutes'.ok # delivery.ok
      <4>1. delivery.ok \in 1 .. approvals /\ approvals \in Nat
        BY <3>2, ApprovalsGrow DEF OneRow, Boundaries, WithTheRow
      <4>2. CASE minutes' = minutes
        BY <3>2, <4>2 DEF BoundToTheApproval
      <4>3. CASE minutes'.ok \in {0, approvals + 1}
        BY <4>1, <4>3
      <4> QED
        BY <3>2, <4>2, <4>3 DEF OthersAct
    <3> QED
      BY <2>2, <3>1, <3>2 DEF BoundToTheApproval
  <2> QED
    BY <1>0, <2>1, <2>2
<1>3. TeamMails'
  BY <1>0, TeamMailsStay, KeysGrow DEF TeamMails, RowKept, SameRow
<1>4. OneAutomaticMail'
  BY TeamMailsStay DEF OneAutomaticMail
<1> QED
  BY <1>1, <1>2, <1>3, <1>4

-----------------------------------------------------------------------------
(***************************************************************************)
(* The deliverer and time                                                   *)
(***************************************************************************)
\* A step of the deliverer that leaves the row, the mailbox and the clock alone
\* and stays bound to the approval
LEMMA QuietDeliverer ==
  ASSUME OneMailInv, SameRow, UNCHANGED <<mails, keys, clock, approvals>>,
         clock < 2 \/ op'[Deliverer].pc = "idle",
         \/ op'[Deliverer].pc = "idle"
         \/ op'[Deliverer].pc \in BeforeTheRow /\ delivery.st = "none"
         \/ op'[Deliverer].pc \in WithTheRow /\ delivery.st # "none",
         BoundToTheApproval'
  PROVE  OneMailInv'
<1>1. OneRow'
  BY DEF OneMailInv, OneRow, SameRow, BeforeTheRow, WithTheRow
<1>2. TeamMails'
  BY DEF OneMailInv, TeamMails, SameRow
<1>3. OneAutomaticMail'
  BY DEF OneMailInv, OneAutomaticMail
<1> QED
  BY <1>1, <1>2, <1>3 DEF OneMailInv

\* The deliverer goes on with the same copy, or with another state
LEMMA DelivererGoes ==
  ASSUME TypeOK, NEW p, op' = [op EXCEPT ![Deliverer] = [@ EXCEPT !.pc = p]]
  PROVE  op'[Deliverer].pc = p /\ op'[Deliverer].doc = op[Deliverer].doc
<1>1. Deliverer \in Op /\ op \in [Op -> OpState] /\ op[Deliverer] \in OpState
  BY OpTyped DEF Op, TypeOK
<1> DEFINE x == [op[Deliverer] EXCEPT !.pc = p]
<1>2. x.pc = p /\ x.doc = op[Deliverer].doc
  BY <1>1 DEF OpState
<1>3. op'[Deliverer] = x
  BY <1>1
<1> QED
  BY <1>2, <1>3

LEMMA DelivererBecomes ==
  ASSUME TypeOK, NEW x, op' = [op EXCEPT ![Deliverer] = x]
  PROVE  op'[Deliverer] = x
<1>1. Deliverer \in Op /\ op \in [Op -> OpState]
  BY DEF Op, TypeOK
<1> QED
  BY <1>1

LEMMA DelivererReads ==
  ASSUME TypeOK
  PROVE  /\ AutoApproveRead => op'[Deliverer].pc \in {"idle", "freezing"}
         /\ AutoApproveSave => op'[Deliverer].pc = "attempt"
         /\ AutoSendRead => \/ op'[Deliverer].pc = "failing"
                            \/ op'[Deliverer].pc = "checking" /\ op'[Deliverer].doc = minutes
<1>1. op[Deliverer] \in OpState /\ Idle.pc = "idle"
  BY OpTyped DEF Op, Idle
<1>2. ASSUME NEW p, NEW d, op' = [op EXCEPT ![Deliverer] = [@ EXCEPT !.pc = p, !.doc = d]]
      PROVE  op'[Deliverer].pc = p /\ op'[Deliverer].doc = d
  <2> DEFINE x == [op[Deliverer] EXCEPT !.pc = p, !.doc = d]
  <2>1. x.pc = p /\ x.doc = d
    BY <1>1 DEF OpState
  <2>2. op'[Deliverer] = x
    BY <1>2, DelivererBecomes
  <2> QED
    BY <2>1, <2>2
<1>3. AutoApproveRead => op'[Deliverer].pc \in {"idle", "freezing"}
  BY <1>1, <1>2, DelivererBecomes DEF AutoApproveRead
<1>4. AutoApproveSave => op'[Deliverer].pc = "attempt"
  BY <1>2 DEF AutoApproveSave
<1>5. ASSUME AutoSendRead
      PROVE  \/ op'[Deliverer].pc = "failing"
             \/ op'[Deliverer].pc = "checking" /\ op'[Deliverer].doc = minutes
  <2>1. CASE minutes.st = "approved"
    <3>1. op' = [op EXCEPT ![Deliverer] = [@ EXCEPT !.pc = "checking", !.doc = minutes]]
      BY <1>5, <2>1 DEF AutoSendRead
    <3> QED
      BY <1>2, <3>1
  <2>2. CASE minutes.st # "approved"
    <3>1. op' = [op EXCEPT ![Deliverer] = [@ EXCEPT !.pc = "failing"]]
      BY <1>5, <2>2 DEF AutoSendRead
    <3> QED
      BY <3>1, DelivererGoes
  <2> QED
    BY <2>1, <2>2
<1> QED
  BY <1>3, <1>4, <1>5

\* Stages in which nothing is bound yet, or nothing any more
Unbound == {"idle", "approving", "freezing", "attempt", "reading", "closing", "failing"}
LEMMA NothingBound ==
  ASSUME op'[Deliverer].pc \in Unbound
  PROVE  BoundToTheApproval'
  BY DEF BoundToTheApproval, Unbound, Boundaries

LEMMA TickKeepsOneMail ==
  ASSUME TypeOK, OneMailInv, DeliverTick
  PROVE  OneMailInv'
<1>1. UNCHANGED <<mails, keys, clock, approvals>> /\ op[Deliverer].pc = "idle"
  BY DEF DeliverTick, mailVars, bounds
<1>2. delivery \in DeliveryRow /\ clock \in 0 .. 2
  BY DEF TypeOK
<1>3. CASE Suspend /\ UNCHANGED op
  <2>1. SameRow
    BY <1>3, SuspendKeeps DEF RowKept
  <2> QED
    BY <1>1, <1>3, <2>1, QuietDeliverer, NothingBound DEF Unbound
<1>4. CASE delivery.st # "none" /\ delivery' = DeliverySt("sent") /\ UNCHANGED op
  <2>1. SameRow
    BY <1>2, <1>4 DEF SameRow, DeliverySt, DeliveryRow
  <2> QED
    BY <1>1, <1>4, <2>1, QuietDeliverer, NothingBound DEF Unbound
<1>5. CASE /\ ~Refusal /\ minutes.st # "sent" /\ UNCHANGED delivery
           /\ op' = [op EXCEPT ![Deliverer] =
                        [Idle EXCEPT !.pc = IF delivery.st = "none" THEN "approving"
                                            ELSE "attempt",
                                     !.n = delivery.attempts]]
  <2>1. op'[Deliverer] = [Idle EXCEPT !.pc = IF delivery.st = "none" THEN "approving"
                                             ELSE "attempt",
                                      !.n = delivery.attempts]
    BY <1>5, DelivererBecomes
  <2>2. op'[Deliverer].pc = IF delivery.st = "none" THEN "approving" ELSE "attempt"
    BY <2>1 DEF Idle
  <2>3. clock < 2
    BY <1>2, <1>5 DEF OneMailInv, OneRow, Refusal, WindowOver
  <2>4. SameRow
    BY <1>5 DEF SameRow
  <2> QED
    BY <1>1, <2>2, <2>3, <2>4, QuietDeliverer, NothingBound
       DEF Unbound, BeforeTheRow, WithTheRow
<1> QED
  BY <1>3, <1>4, <1>5 DEF DeliverTick

LEMMA FreezeKeepsOneMail ==
  ASSUME TypeOK, OneMailInv, AutoApproveSave
  PROVE  OneMailInv'
<1>1. /\ op[Deliverer].pc = "freezing" /\ approvals' = approvals + 1
      /\ delivery' = [st |-> "pending", attempts |-> 0, ok |-> approvals + 1]
      /\ UNCHANGED <<mails, keys, clock>>
  BY DEF AutoApproveSave, mailVars
<1>2. op'[Deliverer].pc = "attempt"
  BY DelivererReads
<1>3. delivery.st = "none" /\ clock = 0 /\ approvals \in Nat
  BY <1>1 DEF OneMailInv, OneRow, BeforeTheRow, TypeOK
<1>4. OneRow'
  BY <1>1, <1>2, <1>3 DEF OneRow, BeforeTheRow, WithTheRow
<1>5. TeamMails'
  BY <1>1, <1>3 DEF OneMailInv, TeamMails
<1>6. OneAutomaticMail'
  BY <1>1 DEF OneMailInv, OneAutomaticMail
<1> QED
  BY <1>2, <1>4, <1>5, <1>6, NothingBound DEF OneMailInv, Unbound

LEMMA AcceptKeepsOneMail ==
  ASSUME TypeOK, OneMailInv, Accepted(Deliverer)
  PROVE  OneMailInv'
<1>1. /\ op[Deliverer].pc = "posting" /\ ProviderAccepts(Deliverer)
      /\ UNCHANGED <<delivery, clock, approvals>>
  BY DEF Accepted, autoRows, bounds
<1>2. op'[Deliverer].pc \in {"accepted", "refused"} /\ op'[Deliverer].doc = op[Deliverer].doc
  BY DelivererGoes DEF Accepted
<1>3. op[Deliverer].doc.ok = delivery.ok /\ delivery.st # "none" /\ clock < 2
  BY <1>1 DEF OneMailInv, OneRow, BoundToTheApproval, WithTheRow, TypeOK
<1>4. To(Deliverer) = "team" /\ Deliverer \in Op
  BY DEF To, Op
<1>5. OneRow' /\ BoundToTheApproval'
  BY <1>1, <1>2, <1>3 DEF OneMailInv, OneRow, BoundToTheApproval, BeforeTheRow, WithTheRow,
                          Boundaries
<1>6. keys' = keys \cup {<<delivery.ok, "team">>}
  BY <1>1, <1>3, <1>4, ProviderStep
<1>7. CASE mails' = mails
  BY <1>1, <1>5, <1>6, <1>7 DEF OneMailInv, TeamMails, OneAutomaticMail
<1>8. CASE mails' # mails
  <2> DEFINE k == Len(mails) + 1
  <2>1. /\ <<delivery.ok, "team">> \notin keys
        /\ DOMAIN mails' = DOMAIN mails \cup {k}
        /\ \A i \in DOMAIN mails : mails'[i] = mails[i]
        /\ mails'[k].doc = op[Deliverer].doc
    BY <1>1, <1>3, <1>4, <1>8, ProviderStep
  <2> HIDE DEF k
  <2>2. \A i \in DOMAIN mails : mails[i].to # "team"
    BY <1>3, <2>1 DEF OneMailInv, TeamMails
  <2> QED
    BY <1>1, <1>3, <1>5, <1>6, <2>1, <2>2 DEF OneMailInv, TeamMails, OneAutomaticMail
<1> QED
  BY <1>7, <1>8

\* A step with a bound copy and one quiet step after another
LEMMA QuietStepsKeepOneMail ==
  ASSUME TypeOK, OneMailInv,
         \/ AutoApproveRead \/ Attempt \/ AutoSendRead \/ AutoSendCheck \/ BeforeEmail
         \/ BeforeEmailRefuses \/ Refused(Deliverer) \/ SendSave(Deliverer) \/ DeliveryDone
  PROVE  OneMailInv'
<1>0. /\ delivery \in DeliveryRow /\ clock \in 0 .. 2
      /\ op[Deliverer].pc # "idle" => clock < 2
  BY DEF TypeOK, OneMailInv, OneRow
<1>1. UNCHANGED <<mails, keys, clock, approvals>> /\ op[Deliverer].pc # "idle"
  <2>1. CASE \/ AutoApproveRead \/ Attempt \/ AutoSendRead \/ AutoSendCheck
    BY <2>1 DEF AutoApproveRead, Attempt, AutoSendRead, AutoSendCheck, mailVars, bounds
  <2>2. CASE BeforeEmail \/ BeforeEmailRefuses
    BY <2>2 DEF BeforeEmail, Boundary, BeforeEmailRefuses, mailVars, bounds
  <2>3. CASE Refused(Deliverer) \/ SendSave(Deliverer) \/ DeliveryDone
    BY <2>3 DEF Refused, SendSave, DeliveryDone, mailVars, bounds
  <2> QED
    BY <2>1, <2>2, <2>3
<1>2. ASSUME SameRow, op[Deliverer].pc \in WithTheRow,
             op'[Deliverer].pc \in WithTheRow \cup {"idle"}, BoundToTheApproval'
      PROVE  OneMailInv'
  BY <1>0, <1>1, <1>2, QuietDeliverer DEF OneMailInv, OneRow
<1>3. CASE AutoApproveRead
  <2>1. op[Deliverer].pc = "approving" /\ SameRow
    BY <1>3 DEF AutoApproveRead, autoRows, SameRow
  <2>2. op'[Deliverer].pc \in {"idle", "freezing"}
    BY <1>3, DelivererReads
  <2> QED
    BY <1>0, <1>1, <2>1, <2>2, QuietDeliverer, NothingBound
       DEF OneMailInv, OneRow, BeforeTheRow, Unbound
<1>4. CASE Attempt
  <2>1. op[Deliverer].pc = "attempt" /\ op'[Deliverer].pc = "reading"
    BY <1>4, DelivererGoes DEF Attempt
  <2>2. SameRow
    BY <1>0, <1>4, <2>1 DEF Attempt, SameRow, DeliveryRow, OneMailInv, OneRow, WithTheRow
  <2> QED
    BY <1>2, <2>1, <2>2, NothingBound DEF WithTheRow, Unbound
<1>5. CASE AutoSendRead
  <2>1. op[Deliverer].pc = "reading" /\ SameRow /\ minutes' = minutes
    BY <1>5 DEF AutoSendRead, autoRows, docRows, SameRow
  <2>2. \/ op'[Deliverer].pc = "failing"
        \/ op'[Deliverer].pc = "checking" /\ op'[Deliverer].doc = minutes
    BY <1>5, DelivererReads
  <2>3. BoundToTheApproval'
    BY <2>1, <2>2 DEF BoundToTheApproval, Boundaries
  <2> QED
    BY <1>2, <2>1, <2>2, <2>3 DEF WithTheRow
<1>6. CASE AutoSendCheck
  <2>1. op[Deliverer].pc = "checking" /\ SameRow /\ minutes' = minutes /\ delivery' = delivery
    BY <1>6 DEF AutoSendCheck, autoRows, docRows, SameRow
  <2>2. /\ op'[Deliverer].pc \in {"authorizing", "failing"}
        /\ op'[Deliverer].doc = op[Deliverer].doc
    BY <1>6, DelivererGoes DEF AutoSendCheck
  <2>3. BoundToTheApproval'
    BY <2>1, <2>2 DEF OneMailInv, BoundToTheApproval, Boundaries
  <2> QED
    BY <1>2, <2>1, <2>2, <2>3 DEF WithTheRow
<1>7. CASE BeforeEmail
  <2>1. SameRow /\ minutes' = minutes /\ delivery' = delivery
    BY <1>7 DEF BeforeEmail, autoRows, docRows, SameRow
  <2>2. CASE /\ op[Deliverer].pc = "authorizing"
             /\ op' = [op EXCEPT ![Deliverer] = [@ EXCEPT !.pc = "comparing"]]
    <3>1. op'[Deliverer].pc = "comparing" /\ op'[Deliverer].doc = op[Deliverer].doc
      BY <2>2, DelivererGoes
    <3>2. BoundToTheApproval'
      BY <2>1, <2>2, <3>1 DEF OneMailInv, BoundToTheApproval, Boundaries
    <3> QED
      BY <1>2, <2>1, <2>2, <3>1, <3>2 DEF WithTheRow
  <2>3. CASE /\ op[Deliverer].pc = "comparing" /\ TheFrozenMinutes
             /\ op' = [op EXCEPT ![Deliverer] = [@ EXCEPT !.pc = "posting"]]
    <3>1. op'[Deliverer].pc = "posting" /\ op'[Deliverer].doc = op[Deliverer].doc
      BY <2>3, DelivererGoes
    <3>2. op[Deliverer].doc.ok = delivery.ok
      BY <2>3 DEF OneMailInv, BoundToTheApproval, Boundaries, TheFrozenMinutes
    <3>3. BoundToTheApproval'
      BY <2>1, <3>1, <3>2 DEF BoundToTheApproval, Boundaries
    <3> QED
      BY <1>2, <2>1, <2>3, <3>1, <3>3 DEF WithTheRow
  <2> QED
    BY <1>7, <2>2, <2>3 DEF BeforeEmail, Boundary
<1>8. CASE BeforeEmailRefuses
  <2>1. op[Deliverer].pc \in {"authorizing", "comparing"} /\ SameRow
    BY <1>8, SuspendKeeps DEF BeforeEmailRefuses, RowKept
  <2>2. op'[Deliverer].pc = "idle"
    BY <1>8, DelivererBecomes DEF BeforeEmailRefuses, Idle
  <2> QED
    BY <1>2, <2>1, <2>2, NothingBound DEF WithTheRow, Unbound
<1>9. CASE Refused(Deliverer)
  <2>1. op[Deliverer].pc = "posting" /\ SameRow /\ delivery' = delivery
    BY <1>9 DEF Refused, autoRows, SameRow
  <2>2. op'[Deliverer].pc = "refused" /\ op'[Deliverer].doc = op[Deliverer].doc
    BY <1>9, DelivererGoes DEF Refused
  <2>3. BoundToTheApproval'
    BY <2>1, <2>2 DEF OneMailInv, BoundToTheApproval, Boundaries
  <2> QED
    BY <1>2, <2>1, <2>2, <2>3 DEF WithTheRow
<1>10. CASE SendSave(Deliverer)
  <2>1. op[Deliverer].pc \in {"accepted", "refused"} /\ SameRow
    BY <1>10 DEF SendSave, autoRows, SameRow
  <2>2. op'[Deliverer].pc \in {"closing", "failing"}
    <3>1. \E p \in {"closing", "failing"} :
            op' = [op EXCEPT ![Deliverer] = [@ EXCEPT !.pc = p]]
      BY <1>10 DEF SendSave
    <3> QED
      BY <3>1, DelivererGoes
  <2> QED
    BY <1>2, <2>1, <2>2, NothingBound DEF WithTheRow, Unbound
<1>11. CASE DeliveryDone
  <2>1. op[Deliverer].pc \in {"closing", "failing"}
    BY <1>11 DEF DeliveryDone
  <2>2. op'[Deliverer].pc = "idle"
    BY <1>11, DelivererBecomes DEF DeliveryDone, Idle
  <2>3. SameRow
    <3>1. delivery.st # "none"
      BY <2>1 DEF OneMailInv, OneRow, WithTheRow
    <3>2. \E s \in {"sent", "held", "retry"} : delivery' = DeliverySt(s)
      BY <1>11 DEF DeliveryDone
    <3> QED
      BY <1>0, <3>1, <3>2 DEF SameRow, DeliverySt, DeliveryRow
  <2> QED
    BY <1>2, <2>1, <2>2, <2>3, NothingBound DEF WithTheRow, Unbound
<1> QED
  BY <1>3, <1>4, <1>5, <1>6, <1>7, <1>8, <1>9, <1>10, <1>11

\* The provider forgets the keys of the team only after the window
LEMMA TimeKeepsOneMail ==
  ASSUME TypeOK, OneMailInv, AdvanceClock
  PROVE  OneMailInv'
<1>1. /\ delivery.st # "none" /\ clock < 2 /\ clock' = clock + 1
      /\ clock = 1 => op[Deliverer].pc = "idle"
      /\ clock = 0 => keys' = keys
      /\ UNCHANGED <<minutes, delivery, mails, op, approvals>>
  BY DEF AdvanceClock, docRows, autoRows, bounds
<1>2. clock \in 0 .. 2
  BY DEF TypeOK
<1>3. OneRow'
  BY <1>1, <1>2 DEF OneMailInv, OneRow
<1>4. BoundToTheApproval' /\ OneAutomaticMail'
  BY <1>1 DEF OneMailInv, BoundToTheApproval, OneAutomaticMail
<1>5. TeamMails'
  BY <1>1, <1>2 DEF OneMailInv, TeamMails
<1> QED
  BY <1>3, <1>4, <1>5 DEF OneMailInv

LEMMA StepKeepsOneMail ==
  ASSUME TypeOK, OneMailInv, [Next]_vars
  PROVE  OneMailInv'
<1>1. CASE UNCHANGED vars
  BY <1>1 DEF vars, OneMailInv, OneRow, BoundToTheApproval, TeamMails, OneAutomaticMail
<1>2. ASSUME NEW r \in Request, UserStep(r) \/ RequestStep(r) PROVE OneMailInv'
  <2>1. [Next]_vars
    OBVIOUS
  <2> QED
    BY <1>2, <2>1, StepEffects, UsersAct, RequestsAct, OthersKeepOneMail
<1>3. CASE WorkerStep
  BY <1>3, StepEffects, WorkersAct, OthersKeepOneMail
<1>4. CASE DelivererStep
  BY <1>4, TickKeepsOneMail, FreezeKeepsOneMail, AcceptKeepsOneMail, QuietStepsKeepOneMail
     DEF DelivererStep
<1>5. CASE Others
  BY <1>5, StepEffects, PeopleAct, OthersKeepOneMail, TimeKeepsOneMail
<1> QED
  BY <1>1, <1>2, <1>3, <1>4, <1>5 DEF Next

LEMMA OneMailInit == Init => OneMailInv
<1> SUFFICES ASSUME Init PROVE OneMailInv
  OBVIOUS
<1>1. Deliverer \in Op /\ op[Deliverer] = Idle
  BY DEF Init, Op
<1>2. OneRow /\ BoundToTheApproval
  BY <1>1 DEF Init, OneRow, BoundToTheApproval, Idle, BeforeTheRow, WithTheRow, Boundaries
<1>3. TeamMails /\ OneAutomaticMail
  BY DEF Init, TeamMails, OneAutomaticMail
<1> QED
  BY <1>2, <1>3 DEF OneMailInv

\* The team gets at most one automatic e-mail, for any number of attempts, lost
\* answers, crashes, people who send or edit meanwhile and keys the provider
\* forgets.
THEOREM TeamMailedOnce == Spec => []OneAutomaticMail
<1>1. TypeOK /\ OneMailInv /\ [Next]_vars => OneMailInv'
  BY StepKeepsOneMail
<1>2. OneMailInv => OneAutomaticMail
  BY DEF OneMailInv
<1> QED
  BY OneMailInit, <1>1, <1>2, TypeCorrect, PTL DEF Spec

-----------------------------------------------------------------------------
(***************************************************************************)
(* A delivery recorded as sent reached the team.  The row says sent after   *)
(* the provider accepted, or because the MOM of a meeting nobody suspended  *)
(* is sent; whoever sends by hand suspends it first, so that it can only be *)
(* the deliverer that did.                                                  *)
(***************************************************************************)
TeamMailed == \E i \in DOMAIN mails : mails[i].to = "team"
Untouched  == Automated /\ ~auto.suspended

TeamKeys == \A k \in keys : k[2] = "team" => TeamMailed
Reached ==
    /\ op[Deliverer].pc \in {"accepted", "closing"} => TeamMailed
    /\ Untouched => \A r \in Request : op[r].pc = "idle"
    /\ Untouched /\ minutes.st = "sent" => TeamMailed

MailedInv == TeamKeys /\ Reached /\ DeliveredMeansMailed

\* What a step can do to bring a delivery closer to its end
Toward ==
    /\ Untouched' => Untouched /\ \A r \in Request : op'[r].pc = "idle"
    /\ minutes'.st = "sent" => \/ minutes.st = "sent" \/ op[Deliverer].pc = "accepted"
                               \/ \E r \in Request : op[r].pc # "idle"
    /\ op'[Deliverer].pc = "closing" => op[Deliverer].pc \in {"accepted", "closing"}
    /\ delivery'.st = "sent" => \/ delivery.st = "sent" \/ op[Deliverer].pc = "closing"
                                \/ Untouched /\ minutes.st = "sent"

LEMMA TowardKeepsMailed ==
  ASSUME TypeOK, MailedInv, Effects, Toward
  PROVE  MailedInv'
<1>1. TeamMailed => TeamMailed'
  BY MailsStay DEF Effects, TeamMailed
<1>2. ASSUME ProviderAccepts(Deliverer) PROVE TeamMailed'
  <2>1. Deliverer \in Op /\ To(Deliverer) = "team"
    BY DEF Op, To
  <2>2. CASE <<op[Deliverer].doc.ok, "team">> \in keys
    BY <1>1, <2>2 DEF MailedInv, TeamKeys
  <2>3. CASE <<op[Deliverer].doc.ok, "team">> \notin keys
    BY <1>2, <2>1, <2>3, ProviderStep DEF TeamMailed
  <2> QED
    BY <2>2, <2>3
<1>3. TeamKeys'
  <2>1. CASE keys' \subseteq keys
    BY <1>1, <2>1 DEF MailedInv, TeamKeys
  <2>2. ASSUME NEW o \in Op, ProviderAccepts(o) PROVE TeamKeys'
    <3>1. CASE o = Deliverer
      BY <1>2, <2>2, <3>1 DEF TeamKeys
    <3>2. CASE o # Deliverer
      <4>1. keys' = keys \cup {<<op[o].doc.ok, "all">>}
        BY <2>2, <3>2 DEF ProviderAccepts, Key, To
      <4> QED
        BY <1>1, <4>1 DEF MailedInv, TeamKeys
    <3> QED
      BY <3>1, <3>2
  <2> QED
    BY <2>1, <2>2 DEF Effects, MailEffect
<1>4. op'[Deliverer].pc \in {"accepted", "closing"} => TeamMailed'
  <2>1. OpMove(Deliverer, op'[Deliverer])
    BY DEF Effects, OpEffect, Op
  <2> QED
    BY <1>1, <1>2, <2>1 DEF OpMove, MailedInv, Reached, Toward
<1>5. Reached'
  BY <1>1, <1>4 DEF MailedInv, Reached, Toward
<1>6. DeliveredMeansMailed'
  <2>1. delivery'.st = "sent" => TeamMailed'
    BY <1>1 DEF MailedInv, Reached, Toward, DeliveredMeansMailed, TeamMailed
  <2> QED
    BY <2>1 DEF DeliveredMeansMailed, TeamMailed
<1> QED
  BY <1>3, <1>5, <1>6 DEF MailedInv

LEMMA UsersToward ==
  ASSUME TypeOK, NEW r \in Request, UserStep(r)
  PROVE  Toward
<1>1. Suspend /\ UNCHANGED docRows
  BY DEF UserStep, GenerateStart, EditRead, ApproveRead, SendRead
<1>2. ~Untouched' /\ minutes' = minutes
  BY <1>1, SuspendKeeps DEF Untouched, docRows
<1> QED
  BY <1>2, UsersAct DEF Toward, OthersAct, RowKept, Idle

LEMMA RequestsToward ==
  ASSUME TypeOK, MailedInv, NEW r \in Request, RequestStep(r)
  PROVE  Toward
<1>1. op[r].pc # "idle"
  BY DEF RequestStep, GenerateRead, GenerateSave, SaveSource, GenerateFails, EditSave,
         ApproveCheck, ApproveSave, SendCheck, Accepted, Refused, SendSave
<1>2. ~Untouched'
  <2>1. CASE GenerateRead(r)
    <3>1. Suspend
      BY <2>1, ConstantsAssumption DEF GenerateRead
    <3> QED
      BY <3>1, SuspendKeeps DEF Untouched
  <2>2. CASE ~GenerateRead(r)
    <3>1. auto' = auto
      BY <2>2 DEF RequestStep, GenerateSave, SaveSource, GenerateFails, EditSave,
         ApproveCheck, ApproveSave, SendCheck, Accepted, Refused, SendSave, autoRows
    <3> QED
      BY <1>1, <3>1 DEF MailedInv, Reached, Untouched
  <2> QED
    BY <2>1, <2>2
<1> QED
  BY <1>1, <1>2, RequestsAct DEF Toward, OthersAct, RowKept, Idle

LEMMA WorkersToward ==
  ASSUME TypeOK, MailedInv, WorkerStep
  PROVE  Toward
<1>1. Worker \in Op \ Request /\ op \in [Op -> OpState] /\ Request \subseteq Op
  BY ConstantsAssumption DEF Op, TypeOK
<1>2. \A r \in Request : op'[r] = op[r]
  <2>1. CASE WorkerStart \/ WorkerCloses \/ WorkerDone \/ WorkerFails
    BY <1>1, <2>1 DEF WorkerStart, WorkerCloses, WorkerDone, WorkerFails
  <2>2. CASE GenerateRead(Worker)
    BY <1>1, <2>2 DEF GenerateRead
  <2>3. CASE WorkerSave
    BY <1>1, <2>3 DEF WorkerSave
  <2> QED
    BY <2>1, <2>2, <2>3 DEF WorkerStep
<1>3. auto'.suspended = auto.suspended
  <2>1. CASE WorkerSave
    <3>1. auto \in AutoRow
      BY DEF TypeOK
    <3> QED
      BY <2>1, <3>1 DEF WorkerSave, AutoRow
  <2>2. CASE ~WorkerSave
    BY <2>2 DEF WorkerStep, WorkerStart, WorkerCloses, GenerateRead, WorkerDone, WorkerFails,
                autoRows
  <2> QED
    BY <2>1, <2>2
<1>4. minutes' = minutes \/ minutes'.st = "draft"
  <2>1. CASE WorkerSave
    BY <2>1, DraftedIsDraft DEF WorkerSave
  <2>2. CASE ~WorkerSave
    BY <2>2 DEF WorkerStep, WorkerStart, WorkerCloses, GenerateRead, WorkerDone, WorkerFails,
                docRows
  <2> QED
    BY <2>1, <2>2
<1> QED
  BY <1>2, <1>3, <1>4, WorkersAct
     DEF Toward, OthersAct, RowKept, Idle, Untouched, MailedInv, Reached

LEMMA PeopleToward ==
  ASSUME TypeOK, MailedInv, Others
  PROVE  Toward
<1>1. Worker \in Op \ Request /\ op \in [Op -> OpState] /\ Request \subseteq Op
  BY ConstantsAssumption DEF Op, TypeOK
<1>2. Untouched' => Untouched
  <2>1. CASE Delete \/ Disable
    <3>1. Suspend
      BY <2>1 DEF Delete, Disable
    <3> QED
      BY <3>1, SuspendKeeps DEF Untouched
  <2>2. CASE ~(Delete \/ Disable)
    <3>1. auto' = auto
      BY <2>2 DEF Others, WorkerRetry, Revise, Pause, Revoke, Hold, Release, AdvanceClock,
                  Crash, autoRows
    <3> QED
      BY <3>1 DEF Untouched
  <2> QED
    BY <2>1, <2>2
<1>3. \A r \in Request : op'[r] \in {op[r], Idle}
  <2>1. CASE WorkerRetry
    BY <1>1, <2>1 DEF WorkerRetry
  <2>2. CASE Crash
    BY <1>1, <2>2 DEF Crash
  <2>3. CASE ~(WorkerRetry \/ Crash)
    <3>1. op' = op
      BY <2>3 DEF Others, Delete, Revise, Pause, Revoke, Disable, Hold, Release, AdvanceClock
    <3> QED
      BY <3>1
  <2> QED
    BY <2>1, <2>2, <2>3
<1>4. minutes' = minutes \/ minutes'.st \in {"none", "draft"}
  <2>1. CASE Delete
    BY <2>1 DEF Delete, NoDoc
  <2>2. CASE Revise
    <3>1. minutes \in Doc /\ minutes' = Invalidated
      BY <2>2 DEF TypeOK, Revise
    <3> QED
      BY <3>1 DEF Invalidated, Doc
  <2>3. CASE ~(Delete \/ Revise)
    BY <2>3 DEF Others, WorkerRetry, Pause, Revoke, Disable, Hold, Release, AdvanceClock,
                Crash, docRows
  <2> QED
    BY <2>1, <2>2, <2>3
<1>5. /\ op'[Deliverer] \in {op[Deliverer], Idle}
      /\ delivery'.st = "sent" => delivery.st = "sent"
  <2>1. CASE AdvanceClock
    BY <2>1 DEF AdvanceClock, autoRows
  <2>2. CASE ~AdvanceClock
    BY <2>2, PeopleAct DEF OthersAct, RowKept
  <2> QED
    BY <2>1, <2>2
<1> QED
  BY <1>2, <1>3, <1>4, <1>5 DEF Toward, Idle, MailedInv, Reached

LEMMA DelivererToward ==
  ASSUME TypeOK, SentInv, MailedInv, DelivererStep
  PROVE  Toward
<1>1. /\ Deliverer \in Op \ Request /\ op \in [Op -> OpState] /\ Request \subseteq Op
      /\ op[Deliverer] \in OpState /\ delivery \in DeliveryRow
  BY ConstantsAssumption, OpTyped DEF Op, TypeOK
<1>2. \A r \in Request : op'[r] = op[r]
  <2>1. CASE DeliverTick
    BY <1>1, <2>1 DEF DeliverTick
  <2>2. CASE AutoApproveRead \/ AutoApproveSave
    BY <1>1, <2>2 DEF AutoApproveRead, AutoApproveSave
  <2>3. CASE Attempt \/ AutoSendRead \/ AutoSendCheck
    BY <1>1, <2>3 DEF Attempt, AutoSendRead, AutoSendCheck
  <2>4. CASE BeforeEmail \/ BeforeEmailRefuses \/ DeliveryDone
    BY <1>1, <2>4 DEF BeforeEmail, Boundary, BeforeEmailRefuses, DeliveryDone
  <2>5. CASE Accepted(Deliverer)
    BY <1>1, <2>5 DEF Accepted
  <2>6. CASE Refused(Deliverer) \/ SendSave(Deliverer)
    BY <1>1, <2>6 DEF Refused, SendSave
  <2> QED
    BY <2>1, <2>2, <2>3, <2>4, <2>5, <2>6 DEF DelivererStep
<1>3. Untouched' => Untouched
  <2>1. auto' = auto \/ Suspend
    BY DEF DelivererStep, DeliverTick, AutoApproveRead, AutoApproveSave, Attempt,
           AutoSendRead, AutoSendCheck, BeforeEmail, BeforeEmailRefuses, Accepted, Refused,
           SendSave, DeliveryDone, autoRows
  <2> QED
    BY <2>1, SuspendKeeps DEF Untouched
<1>4. minutes'.st = "sent" => minutes.st = "sent" \/ op[Deliverer].pc = "accepted"
  <2>1. CASE AutoApproveSave
    <3>1. minutes' = Approved(op[Deliverer].doc)
      BY <2>1 DEF AutoApproveSave
    <3> QED
      BY <3>1, <1>1, OpTyped DEF Approved, Doc
  <2>2. CASE SendSave(Deliverer)
    <3>1. op[Deliverer].pc = "refused" => op[Deliverer].doc.st = "approved"
      BY <1>1 DEF SentInv, ApprovedHaveOne, SendPc
    <3> QED
      BY <2>2, <3>1 DEF SendSave
  <2>3. CASE ~(AutoApproveSave \/ SendSave(Deliverer))
    BY <2>3 DEF DelivererStep, DeliverTick, AutoApproveRead, Attempt, AutoSendRead,
           AutoSendCheck, BeforeEmail, BeforeEmailRefuses, Accepted, Refused, DeliveryDone,
           docRows
  <2> QED
    BY <2>1, <2>2, <2>3
<1>5. op'[Deliverer].pc = "closing" => op[Deliverer].pc \in {"accepted", "closing"}
  <2>1. CASE SendSave(Deliverer)
    <3>1. op[Deliverer].pc = "refused" =>
            op' = [op EXCEPT ![Deliverer] = [@ EXCEPT !.pc = "failing"]]
      BY <2>1 DEF SendSave
    <3>2. op[Deliverer].pc \in {"accepted", "refused"}
      BY <2>1 DEF SendSave
    <3> QED
      BY <3>1, <3>2, DelivererGoes
  <2>2. CASE DeliverTick
    BY <1>1, <2>2 DEF DeliverTick, Idle
  <2>3. CASE AutoApproveRead \/ AutoApproveSave \/ AutoSendRead
    BY <2>3, DelivererReads
  <2>4. CASE Attempt \/ AutoSendCheck
    BY <2>4, DelivererGoes DEF Attempt, AutoSendCheck
  <2>5. CASE BeforeEmail \/ BeforeEmailRefuses \/ DeliveryDone
    BY <1>1, <2>5 DEF BeforeEmail, Boundary, BeforeEmailRefuses, DeliveryDone, Idle, OpState
  <2>6. CASE Accepted(Deliverer) \/ Refused(Deliverer)
    BY <2>6, DelivererGoes DEF Accepted, Refused
  <2> QED
    BY <2>1, <2>2, <2>3, <2>4, <2>5, <2>6 DEF DelivererStep
<1>6. delivery'.st = "sent" => \/ delivery.st = "sent" \/ op[Deliverer].pc = "closing"
                               \/ Untouched /\ minutes.st = "sent"
  <2>1. CASE DeliverTick
    <3>1. CASE Suspend
      BY <3>1, SuspendKeeps DEF RowKept
    <3>2. CASE ~Suspend
      BY <2>1, <3>2 DEF DeliverTick, MayDeliver, Untouched
    <3> QED
      BY <3>1, <3>2
  <2>2. CASE BeforeEmailRefuses
    BY <2>2, SuspendKeeps DEF BeforeEmailRefuses, RowKept
  <2>3. CASE AutoApproveSave
    BY <2>3 DEF AutoApproveSave
  <2>4. CASE Attempt
    <3> DEFINE n == StartedOnceMore(op[Deliverer].n)
    <3>1. delivery' = [delivery EXCEPT !.st = "sending", !.attempts = n]
      BY <2>4 DEF Attempt
    <3> HIDE DEF n
    <3> QED
      BY <1>1, <3>1 DEF DeliveryRow
  <2>5. CASE DeliveryDone
    <3>1. op[Deliverer].pc # "closing" =>
            delivery' = DeliverySt("held") \/ delivery' = DeliverySt("retry")
      BY <2>5 DEF DeliveryDone
    <3>2. \A st \in {"held", "retry"} : DeliverySt(st).st = st
      BY <1>1 DEF DeliverySt, DeliveryRow
    <3> QED
      BY <3>1, <3>2
  <2>6. CASE ~(DeliverTick \/ BeforeEmailRefuses \/ AutoApproveSave \/ Attempt \/ DeliveryDone)
    BY <2>6 DEF DelivererStep, AutoApproveRead, AutoSendRead, AutoSendCheck, BeforeEmail,
                Accepted, Refused, SendSave, autoRows
  <2> QED
    BY <2>1, <2>2, <2>3, <2>4, <2>5, <2>6
<1> QED
  BY <1>2, <1>3, <1>4, <1>5, <1>6 DEF Toward, MailedInv, Reached

LEMMA StepKeepsMailed ==
  ASSUME TypeOK, SentInv, MailedInv, [Next]_vars
  PROVE  MailedInv'
<1>1. CASE UNCHANGED vars
  BY <1>1 DEF vars, MailedInv, TeamKeys, Reached, Untouched, TeamMailed, DeliveredMeansMailed
<1>2. CASE Next
  <2>1. Toward
    BY <1>2, UsersToward, RequestsToward, WorkersToward, DelivererToward, PeopleToward DEF Next
  <2> QED
    BY <2>1, StepEffects, TowardKeepsMailed
<1> QED
  BY <1>1, <1>2

\* A delivery that is recorded as sent reached the team, whatever people send by
\* hand meanwhile and however often an attempt is repeated.
THEOREM DeliveriesReachTheTeam == Spec => []DeliveredMeansMailed
<1>1. Init => MailedInv
  BY DEF Init, MailedInv, TeamKeys, Reached, Untouched, TeamMailed, DeliveredMeansMailed,
         Idle, Op, NoDoc
<1>2. TypeOK /\ SentInv /\ MailedInv /\ [Next]_vars => MailedInv'
  BY StepKeepsMailed
<1>3. MailedInv => DeliveredMeansMailed
  BY DEF MailedInv
<1>4. TypeOK /\ TypeOK' /\ SentInv /\ [Next]_vars => SentInv'
  BY StepEffects, TextsStep, ApprovedStep, AcceptedStep, SentStep DEF SentInv
<1> QED
  BY SentInit, <1>1, <1>2, <1>3, <1>4, TypeCorrect, PTL DEF Spec

-----------------------------------------------------------------------------
(***************************************************************************)
(* What the automatic e-mail reads.  Texts are numbered; the number in the  *)
(* automation row belongs to one draft of the worker, wherever its copies   *)
(* are, so a MOM with that number is that draft.                            *)
(***************************************************************************)
Texts == {minutes} \cup {op[o].doc : o \in Op}
SameText(d, e) == d.v = e.v /\ d.origin = e.origin /\ d.rev = e.rev

NumberedTexts ==
    \A d \in Texts :
        /\ d.v <= versions
        /\ auto.print # 0 /\ d.v = auto.print => d.origin = "worker" /\ d.rev = auto.rev
TextInv ==
    /\ NumberedTexts
    /\ auto.print <= versions
    /\ op[Deliverer].pc # "idle" => auto.print # 0

\* What a step can do to the text of the MOM and the number in the automation row
SamePrint == auto'.print = auto.print /\ auto'.rev = auto.rev
OldText   == /\ versions' = versions /\ SamePrint
             /\ \E d \in Texts \cup {NoDoc} : SameText(minutes', d)
NewText   == /\ versions' = versions + 1 /\ minutes'.v = versions + 1
             /\ \/ SamePrint
                \/ /\ auto'.print = versions + 1
                   /\ minutes'.origin = "worker" /\ auto'.rev = minutes'.rev
             /\ minutes.st = "sent" => minutes'.origin = "edit"
TextEffect == OldText \/ NewText

LEMMA NoNewText ==
  ASSUME versions' = versions, SamePrint, minutes' = minutes
  PROVE  TextEffect
<1>1. minutes \in Texts /\ SameText(minutes', minutes)
  BY DEF Texts, SameText
<1> QED
  BY <1>1 DEF TextEffect, OldText

LEMMA PrintUnchanged ==
  ASSUME TypeOK, UNCHANGED auto \/ Suspend
  PROVE  SamePrint
  BY SuspendKeeps DEF SamePrint

LEMMA CopyOfText ==
  ASSUME TypeOK, NEW o \in Op, versions' = versions, SamePrint,
         minutes' \in {op[o].doc, Sealed(op[o].doc), Approved(op[o].doc)}
  PROVE  TextEffect
<1>1. op[o].doc \in Doc /\ op[o].doc \in Texts
  BY OpTyped DEF Texts
<1>2. SameText(minutes', op[o].doc)
  BY <1>1 DEF SameText, Sealed, Approved, Doc
<1> QED
  BY <1>1, <1>2 DEF TextEffect, OldText

LEMMA RequestsText ==
  ASSUME TypeOK, NEW r \in Request, RequestStep(r)
  PROVE  TextEffect
<1> r \in Op /\ r # Worker /\ r # Deliverer
  BY ConstantsAssumption DEF Op
<1>1. SamePrint
  <2>1. UNCHANGED auto \/ Suspend
    BY DEF RequestStep, GenerateRead, GenerateSave, SaveSource, GenerateFails, EditSave,
           ApproveCheck, ApproveSave, SendCheck, Accepted, Refused, SendSave, autoRows
  <2> QED
    BY <2>1, PrintUnchanged
<1>2. CASE GenerateSave(r)
  <2>1. minutes' = Drafted(r) /\ versions' = versions + 1 /\ minutes.st # "sent"
    BY <1>2 DEF GenerateSave, MaySaveDraft
  <2> QED
    BY <1>1, <2>1 DEF TextEffect, NewText, Drafted
<1>3. CASE EditSave(r)
  <2>1. /\ minutes' = [op[r].doc EXCEPT !.st = "draft", !.ok = 0, !.v = versions + 1,
                                        !.origin = "edit"]
        /\ versions' = versions + 1
    BY <1>3 DEF EditSave
  <2>2. minutes'.v = versions + 1 /\ minutes'.origin = "edit"
    <3>1. op[r].doc \in Doc
      BY OpTyped
    <3> QED
      BY <2>1, <3>1 DEF Doc
  <2> QED
    BY <1>1, <2>1, <2>2 DEF TextEffect, NewText
<1>4. CASE ApproveSave(r) \/ SendSave(r)
  BY <1>1, <1>4, CopyOfText DEF ApproveSave, SendSave, bounds
<1>5. CASE ~(GenerateSave(r) \/ EditSave(r) \/ ApproveSave(r) \/ SendSave(r))
  BY <1>1, <1>5, NoNewText
     DEF RequestStep, GenerateRead, SaveSource, GenerateFails, ApproveCheck, SendCheck,
         Accepted, Refused, docRows, bounds
<1> QED
  BY <1>2, <1>3, <1>4, <1>5

LEMMA WorkersText ==
  ASSUME TypeOK, WorkerStep
  PROVE  TextEffect
<1>1. CASE WorkerSave
  <2>1. /\ minutes' = Drafted(Worker) /\ versions' = versions + 1 /\ minutes.st # "sent"
        /\ \/ auto' = auto
           \/ auto' = [auto EXCEPT !.print = versions + 1, !.rev = op[Worker].rev]
    BY <1>1 DEF WorkerSave, MaySaveDraft
  <2>2. /\ minutes'.v = versions + 1 /\ minutes'.origin = "worker"
        /\ minutes'.rev = op[Worker].rev
    BY <2>1 DEF Drafted
  <2>3. \/ SamePrint
        \/ auto'.print = versions + 1 /\ auto'.rev = op[Worker].rev
    <3>1. auto \in AutoRow
      BY DEF TypeOK
    <3> QED
      BY <2>1, <3>1 DEF SamePrint, AutoRow
  <2> QED
    BY <2>1, <2>2, <2>3 DEF TextEffect, NewText
<1>2. CASE ~WorkerSave
  <2>1. UNCHANGED <<versions, auto, minutes>>
    BY <1>2 DEF WorkerStep, WorkerStart, WorkerCloses, GenerateRead, WorkerDone, WorkerFails,
                docRows, autoRows, bounds
  <2> QED
    BY <2>1, PrintUnchanged, NoNewText
<1> QED
  BY <1>1, <1>2

LEMMA DelivererText ==
  ASSUME TypeOK, DelivererStep
  PROVE  TextEffect
<1>1. Deliverer \in Op
  BY DEF Op
<1>2. SamePrint /\ versions' = versions
  <2>1. UNCHANGED auto \/ Suspend
    BY DEF DelivererStep, DeliverTick, AutoApproveRead, AutoApproveSave, Attempt,
           AutoSendRead, AutoSendCheck, BeforeEmail, BeforeEmailRefuses, Accepted, Refused,
           SendSave, DeliveryDone, autoRows
  <2>2. versions' = versions
    BY DEF DelivererStep, DeliverTick, AutoApproveRead, AutoApproveSave, Attempt,
           AutoSendRead, AutoSendCheck, BeforeEmail, BeforeEmailRefuses, Accepted, Refused,
           SendSave, DeliveryDone, bounds
  <2> QED
    BY <2>1, <2>2, PrintUnchanged
<1>3. CASE AutoApproveSave \/ SendSave(Deliverer)
  BY <1>1, <1>2, <1>3, CopyOfText DEF AutoApproveSave, SendSave
<1>4. CASE ~(AutoApproveSave \/ SendSave(Deliverer))
  BY <1>2, <1>4, NoNewText
     DEF DelivererStep, DeliverTick, AutoApproveRead, Attempt, AutoSendRead, AutoSendCheck,
         BeforeEmail, BeforeEmailRefuses, Accepted, Refused, DeliveryDone, docRows
<1> QED
  BY <1>3, <1>4

LEMMA PeopleText ==
  ASSUME TypeOK, Others
  PROVE  TextEffect
<1>1. SamePrint /\ versions' = versions
  <2>1. UNCHANGED auto \/ Suspend
    BY DEF Others, WorkerRetry, Delete, Revise, Pause, Revoke, Disable, Hold, Release,
           AdvanceClock, Crash, autoRows
  <2>2. versions' = versions
    BY DEF Others, WorkerRetry, Delete, Revise, Pause, Revoke, Disable, Hold, Release,
           AdvanceClock, Crash, bounds
  <2> QED
    BY <2>1, <2>2, PrintUnchanged
<1>2. CASE Delete
  <2>1. minutes' = minutes \/ minutes' = NoDoc
    BY <1>2 DEF Delete
  <2>2. SameText(NoDoc, NoDoc)
    BY DEF SameText
  <2> QED
    BY <1>1, <2>1, <2>2, NoNewText DEF TextEffect, OldText
<1>3. CASE Revise
  <2>1. minutes \in Doc /\ minutes \in Texts /\ minutes' = Invalidated
    BY <1>3 DEF TypeOK, Texts, Revise
  <2>2. SameText(minutes', minutes)
    BY <2>1 DEF SameText, Invalidated, Doc
  <2> QED
    BY <1>1, <2>1, <2>2 DEF TextEffect, OldText
<1>4. CASE ~(Delete \/ Revise)
  BY <1>1, <1>4, NoNewText
     DEF Others, WorkerRetry, Pause, Revoke, Disable, Hold, Release, AdvanceClock, Crash,
         docRows
<1> QED
  BY <1>2, <1>3, <1>4

LEMMA StepText ==
  ASSUME TypeOK, [Next]_vars
  PROVE  TextEffect
<1>1. CASE UNCHANGED vars
  BY <1>1, NoNewText DEF vars, SamePrint
<1>2. ASSUME NEW r \in Request, UserStep(r) PROVE TextEffect
  <2>1. Suspend /\ versions' = versions /\ minutes' = minutes
    BY <1>2 DEF UserStep, GenerateStart, EditRead, ApproveRead, SendRead, docRows
  <2> QED
    BY <2>1, PrintUnchanged, NoNewText
<1> QED
  BY <1>1, <1>2, RequestsText, WorkersText, DelivererText, PeopleText DEF Next

\* The deliverer is at work only when there is a draft of the worker
LEMMA StepStarts ==
  ASSUME TypeOK, [Next]_vars, op[Deliverer].pc = "idle", op'[Deliverer].pc # "idle"
  PROVE  auto.print # 0
<1>1. ASSUME OthersAct PROVE FALSE
  BY <1>1 DEF OthersAct, Idle
<1>2. op' # op
  OBVIOUS
<1>3. CASE DelivererStep
  <2>1. DeliverTick
    BY <1>3 DEF DelivererStep, AutoApproveRead, AutoApproveSave, Attempt, AutoSendRead,
       AutoSendCheck, BeforeEmail, Boundary, BeforeEmailRefuses, Accepted, Refused, SendSave,
       DeliveryDone
  <2> QED
    BY <1>2, <2>1 DEF DeliverTick, MayDeliver
<1>4. CASE AdvanceClock
  BY <1>2, <1>4 DEF AdvanceClock
<1> QED
  BY <1>1, <1>2, <1>3, <1>4, UsersAct, RequestsAct, WorkersAct, PeopleAct DEF Next, vars

LEMMA StepKeepsTexts ==
  ASSUME TypeOK, TypeOK', TextInv, [Next]_vars
  PROVE  TextInv'
<1>0. /\ versions \in Nat /\ auto.print \in Nat /\ minutes' \in Doc /\ minutes'.v \in Nat
      /\ \A d \in Texts : d.v \in Nat
  <2>1. auto \in AutoRow /\ minutes' \in Doc /\ versions \in Nat
    BY DEF TypeOK
  <2>2. \A d \in Texts : d \in Doc
    BY OpTyped DEF Texts, TypeOK
  <2> QED
    BY <2>1, <2>2 DEF Doc, AutoRow
<1>1. TextEffect
  BY StepText
<1>2. \A d \in Texts' : d = minutes' \/ d \in Texts \/ d = NoDoc
  <2>1. OpEffect
    BY StepEffects DEF Effects
  <2> QED
    BY <2>1 DEF OpEffect, OpMove, Texts
<1>3. NumberedTexts'
  <2> SUFFICES ASSUME NEW d \in Texts'
               PROVE  /\ d.v <= versions'
                      /\ auto'.print # 0 /\ d.v = auto'.print
                           => d.origin = "worker" /\ d.rev = auto'.rev
    BY DEF NumberedTexts
  <2>1. CASE OldText
    <3>1. PICK e \in Texts \cup {NoDoc} : SameText(minutes', e)
      BY <2>1 DEF OldText
    <3>2. d.v = 0 \/ \E e2 \in Texts : SameText(d, e2)
      BY <1>2, <3>1 DEF SameText, NoDoc
    <3> QED
      BY <1>0, <2>1, <3>2 DEF OldText, SamePrint, SameText, TextInv, NumberedTexts
  <2>2. CASE NewText
    <3>1. CASE d = minutes'
      BY <1>0, <2>2, <3>1 DEF NewText, SamePrint, TextInv
    <3>2. CASE d \in Texts \/ d = NoDoc
      <4>1. d.v <= versions /\ d.v \in Nat
        BY <1>0, <3>2 DEF TextInv, NumberedTexts, NoDoc
      <4>2. CASE SamePrint
        BY <1>0, <2>2, <3>2, <4>1, <4>2
           DEF NewText, SamePrint, TextInv, NumberedTexts, NoDoc
      <4>3. CASE auto'.print = versions + 1
        BY <1>0, <2>2, <4>1, <4>3 DEF NewText
      <4> QED
        BY <2>2, <4>2, <4>3 DEF NewText
    <3> QED
      BY <1>2, <3>1, <3>2
  <2> QED
    BY <1>1, <2>1, <2>2 DEF TextEffect
<1>4. auto'.print <= versions' /\ (auto.print # 0 => auto'.print # 0)
  BY <1>0, <1>1 DEF TextEffect, OldText, NewText, SamePrint, TextInv
<1>5. op'[Deliverer].pc # "idle" => auto'.print # 0
  BY <1>4, StepStarts DEF TextInv
<1> QED
  BY <1>3, <1>4, <1>5 DEF TextInv

LEMMA TextInit == Init => TextInv
<1> SUFFICES ASSUME Init PROVE TextInv
  OBVIOUS
<1>1. Texts = {NoDoc} /\ op[Deliverer].pc = "idle"
  BY DEF Init, Texts, Idle, Op
<1> QED
  BY <1>1 DEF Init, TextInv, NumberedTexts, NoDoc

\* The deliverer reaches the provider through the last check alone
LEMMA Posts ==
  ASSUME TypeOK, [Next]_vars, op[Deliverer].pc # "posting", op'[Deliverer].pc = "posting"
  PROVE  /\ op[Deliverer].pc = "comparing" /\ TheFrozenMinutes
         /\ op'[Deliverer].doc = op[Deliverer].doc
<1>1. ASSUME OthersAct PROVE FALSE
  BY <1>1 DEF OthersAct, Idle
<1>2. op' # op
  OBVIOUS
<1>3. CASE DelivererStep
  <2>1. ~DeliverTick
    <3> SUFFICES ASSUME DeliverTick PROVE FALSE
      OBVIOUS
    <3>1. op' = [op EXCEPT ![Deliverer] =
                    [Idle EXCEPT !.pc = IF delivery.st = "none" THEN "approving" ELSE "attempt",
                                 !.n = delivery.attempts]]
      BY <1>2 DEF DeliverTick
    <3>2. op'[Deliverer] =
            [Idle EXCEPT !.pc = IF delivery.st = "none" THEN "approving" ELSE "attempt",
                         !.n = delivery.attempts]
      BY <3>1, DelivererBecomes
    <3> QED
      BY <3>2 DEF Idle
  <2>2. ~(AutoApproveRead \/ AutoApproveSave \/ AutoSendRead)
    BY DelivererReads
  <2>3. ~(Attempt \/ AutoSendCheck \/ Accepted(Deliverer) \/ Refused(Deliverer))
    BY DelivererGoes DEF Attempt, AutoSendCheck, Accepted, Refused
  <2>4. ~(BeforeEmailRefuses \/ DeliveryDone)
    BY DelivererBecomes DEF BeforeEmailRefuses, DeliveryDone, Idle
  <2>5. ~SendSave(Deliverer)
    <3>1. SendSave(Deliverer) => \E p \in {"closing", "failing"} :
            op' = [op EXCEPT ![Deliverer] = [@ EXCEPT !.pc = p]]
      BY DEF SendSave
    <3> QED
      BY <3>1, DelivererGoes
  <2>6. BeforeEmail
    BY <1>3, <2>1, <2>2, <2>3, <2>4, <2>5 DEF DelivererStep
  <2>7. CASE op' = [op EXCEPT ![Deliverer] = [@ EXCEPT !.pc = "comparing"]]
    BY <2>7, DelivererGoes
  <2>8. CASE /\ op[Deliverer].pc = "comparing" /\ TheFrozenMinutes
             /\ op' = [op EXCEPT ![Deliverer] = [@ EXCEPT !.pc = "posting"]]
    BY <2>8, DelivererGoes
  <2> QED
    BY <2>6, <2>7, <2>8 DEF BeforeEmail, Boundary
<1>4. CASE AdvanceClock
  BY <1>2, <1>4 DEF AdvanceClock
<1> QED
  BY <1>1, <1>2, <1>3, <1>4, UsersAct, RequestsAct, WorkersAct, PeopleAct DEF Next, vars

\* The e-mail that leaves without a person having seen it is a draft of the worker
\* as it wrote it, of the transcript as it is then, whoever edits, approves,
\* deletes or corrects meanwhile.
THEOREM AutomaticMailIsTheDraft == Spec => AutoMailIsUntouched
<1> DEFINE Untampered ==
             op[Deliverer].pc # "posting" /\ op'[Deliverer].pc = "posting"
               => LET d == op'[Deliverer].doc
                  IN  d.origin = "worker" /\ d.v = auto.print /\ d.rev = revision /\ d = minutes
<1>1. TypeOK /\ OneMailInv /\ TextInv /\ [Next]_vars => Untampered
  <2> SUFFICES ASSUME TypeOK, OneMailInv, TextInv, [Next]_vars,
                      op[Deliverer].pc # "posting", op'[Deliverer].pc = "posting"
               PROVE  LET d == op'[Deliverer].doc
                      IN  /\ d.origin = "worker" /\ d.v = auto.print
                          /\ d.rev = revision /\ d = minutes
    OBVIOUS
  <2>1. /\ op[Deliverer].pc = "comparing" /\ TheFrozenMinutes
        /\ op'[Deliverer].doc = op[Deliverer].doc
    BY Posts
  <2>2. op[Deliverer].doc = minutes
    BY <2>1 DEF OneMailInv, BoundToTheApproval, Boundaries, TheFrozenMinutes
  <2>3. minutes.origin = "worker" /\ minutes.rev = auto.rev
    BY <2>1 DEF TextInv, NumberedTexts, Texts, TheFrozenMinutes
  <2> QED
    BY <2>1, <2>2, <2>3 DEF TheFrozenMinutes
<1>2. TypeOK /\ OneMailInv /\ [Next]_vars => OneMailInv'
  BY StepKeepsOneMail
<1>3. TypeOK /\ TypeOK' /\ TextInv /\ [Next]_vars => TextInv'
  BY StepKeepsTexts
<1>4. [][Untampered]_vars => AutoMailIsUntouched
  BY DEF AutoMailIsUntouched
<1> QED
  BY OneMailInit, TextInit, <1>1, <1>2, <1>3, <1>4, TypeCorrect, PTL DEF Spec

\* A draft never takes the place of a sent MOM, however long the provider took to
\* write it: the one text that follows a sent one is an edit read before.
THEOREM SentIsNotDraftedOver == Spec => DraftsSpareTheSent
<1> DEFINE Spared == minutes.st = "sent" /\ versions' # versions => minutes'.origin = "edit"
<1>1. TypeOK /\ [Next]_vars => Spared
  BY StepText DEF TextEffect, OldText, NewText
<1>2. [][Spared]_vars => DraftsSpareTheSent
  BY DEF DraftsSpareTheSent
<1> QED
  BY <1>1, <1>2, TypeCorrect, PTL DEF Spec

=============================================================================
