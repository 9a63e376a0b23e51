-------------------------------- MODULE Alerts --------------------------------
(***************************************************************************)
(* Alert rules, the notifications evaluate_alerts makes of them, and their  *)
(* e-mails: macrolens_worker/tasks/notifications.py and email.py, with the  *)
(* endpoints of macrolens_api/routers/workspace.py that own the rules.      *)
(*                                                                          *)
(* Time goes in ticks of the scheduler's quarter of an hour.  A document    *)
(* (or a revision) is stamped when its transaction begins and is seen once  *)
(* it has committed.  The scheduler enqueues an evaluation per tick; those  *)
(* left over by workers that were away may run side by side.                *)
(***************************************************************************)
EXTENDS Integers, FiniteSets, Nulls

CONSTANTS
    Rules,
    Evaluators,     \* how many evaluations may be at work at once
    Documents,
    Kinds,          \* the alert types of this instance
    Mailed,         \* the kinds whose rules have the e-mail channel
    Cooldown,       \* kind -> ticks
    Day,            \* ticks of a day
    DigestAt,       \* the tick of the day a digest is scheduled for
    ReleaseAt,      \* when the release of a reminder is due
    Lead,           \* how long before it the reminder is wanted
    MailAttempts,   \* max_attempts of an e-mail's job
    MaxTime         \* bound of the model on the clock

ASSUME NoneAssumption == None \notin 0..MaxTime
ASSUME CooldownAssumption == Cooldown \in [Kinds -> Nat] /\ Day \in Nat \ {0} /\ Lead \in Nat
ASSUME BoundsAssumption == MaxTime \in Nat /\ MailAttempts \in Nat /\ IsFiniteSet(Evaluators)

Times == 0..MaxTime

VARIABLES
    clock,
    kind,       \* alert_type of each rule
    rule,       \* its row
    first,      \* when its first evaluation was committed (history)
    above,      \* whether the latest value meets the threshold
    stamp,      \* document -> created_at
    seen,       \* documents that have committed
    overtaken,  \* documents in flight when an evaluation began (history)
    eval,       \* evaluations at work
    mail        \* notification -> the job of its e-mail

alertVars == <<clock, kind, rule, first, above, stamp, seen, overtaken, eval, mail>>

NoEvaluation == [at |-> "idle", now |-> 0, rows |-> {}, read |-> [r \in Rules |-> None], due |-> {}]
Notes == DOMAIN mail
Note == [rule : Rules, at : Times, by : Evaluators]

\* The job of its e-mail; bound of the model: one e-mail is followed.
Unsent(r) ==
    [status |-> IF kind[r] \in Mailed /\ \A n \in Notes : mail[n].status = "none"
                THEN "queued" ELSE "none",
     attempts |-> 0, sent |-> 0]

AlertsInit ==
    /\ clock = 0
    /\ kind \in [Rules -> Kinds]
    /\ rule = [r \in Rules |-> [status |-> "absent", evaluated |-> None]]
    /\ first = [r \in Rules |-> None]
    /\ above = FALSE
    /\ stamp = [d \in Documents |-> None]
    /\ seen = {} /\ overtaken = {}
    /\ eval = [e \in Evaluators |-> NoEvaluation]
    /\ mail = <<>>

-----------------------------------------------------------------------------
(* The rules' endpoints *)

SetStatus(r, status) ==
    /\ rule' = [rule EXCEPT ![r].status = status]
    /\ UNCHANGED <<clock, kind, first, above, stamp, seen, overtaken, eval, mail>>

CreateAlert(r) == rule[r].status = "absent" /\ SetStatus(r, "active")
ToggleAlert(r) ==
    \/ rule[r].status = "active" /\ SetStatus(r, "paused")
    \/ rule[r].status = "paused" /\ SetStatus(r, "active")
DeleteAlert(r) == rule[r].status \in {"active", "paused"} /\ SetStatus(r, "deleted")

-----------------------------------------------------------------------------
(* evaluate_alerts *)

Active == {r \in Rules : rule[r].status = "active"}
InFlight == {d \in Documents : stamp[d] # None} \ seen

\* Takes the time and reads the rules.
BeginEvaluation(e) ==
    /\ eval[e].at = "idle"
    /\ Active # {}
    /\ eval' = [eval EXCEPT ![e] = [at |-> "read", now |-> clock, rows |-> Active, due |-> {},
                                    read |-> [r \in Rules |-> rule[r].evaluated]]]
    /\ overtaken' = overtaken \cup InFlight
    /\ UNCHANGED <<clock, kind, rule, first, above, stamp, seen, mail>>

DayOf(t) == t \div Day

\* _digest_due: never twice on the day of the last evaluation, and in the slot.
DigestDue(now, last) ==
    /\ last # None => DayOf(last) # DayOf(now)
    /\ now % Day = DigestAt

\* What the rule looks for is there.
Triggered(r, now, last) ==
    \/ kind[r] = "threshold" /\ above
    \/ kind[r] = "new_document" /\ last # None /\ \E d \in seen : stamp[d] > last
    \/ kind[r] = "release_reminder" /\ now <= ReleaseAt /\ ReleaseAt <= now + Lead
    \/ kind[r] = "digest" /\ DigestDue(now, last)

DuplicateToday(r, now) == \E n \in Notes : n.rule = r /\ n.at = now
Duplicate(r, now) == \E n \in Notes : n.rule = r /\ n.at >= now - Cooldown[kind[r]]

Decide(e) ==
    /\ eval[e].at = "read"
    /\ LET now == eval[e].now IN
        eval' = [eval EXCEPT ![e].at = "decided",
                             ![e].due = {r \in eval[e].rows : /\ Triggered(r, now, eval[e].read[r])
                                                                 /\ ~Duplicate(r, now)}]
    /\ UNCHANGED <<clock, kind, rule, first, above, stamp, seen, overtaken, mail>>

EvaluatedAtCommit(e) ==
    [r \in Rules |-> IF r \in eval[e].rows THEN [rule[r] EXCEPT !.evaluated = clock] ELSE rule[r]]
\* The watermark of every rule that was read, triggered or not.
Evaluated(e) ==
    [r \in Rules |-> IF r \in eval[e].rows THEN [rule[r] EXCEPT !.evaluated = eval[e].now] ELSE rule[r]]

\* Notifications, their e-mails' jobs and the watermarks are one commit.  A row
\* that was deleted since it was read makes it fail.
CommitEvaluation(e) ==
    /\ eval[e].at = "decided"
    /\ \A r \in eval[e].rows : rule[r].status # "deleted"
    /\ LET new == {[rule |-> r, at |-> eval[e].now, by |-> e] : r \in eval[e].due} IN
        mail' = [n \in Notes \cup new |-> IF n \in Notes THEN mail[n] ELSE Unsent(n.rule)]
    /\ rule' = Evaluated(e)
    /\ first' = [r \in Rules |-> IF r \in eval[e].rows /\ first[r] = None THEN clock ELSE first[r]]
    /\ eval' = [eval EXCEPT ![e] = NoEvaluation]
    /\ UNCHANGED <<clock, kind, above, stamp, seen, overtaken>>

\* It raises, or its worker dies: everything is rolled back.
LoseEvaluation(e) ==
    /\ eval[e].at # "idle"
    /\ eval' = [eval EXCEPT ![e] = NoEvaluation]
    /\ UNCHANGED <<clock, kind, rule, first, above, stamp, seen, overtaken, mail>>

-----------------------------------------------------------------------------
(* send_email_notification *)

SetMail(n, job) ==
    /\ mail' = [mail EXCEPT ![n] = job]
    /\ UNCHANGED <<clock, kind, rule, first, above, stamp, seen, overtaken, eval>>

\* A worker that died leaves the job "running"; its stale row is claimed again.
ClaimMailUnlimited(n) ==
    /\ mail[n].status \in {"queued", "lost"}
    /\ SetMail(n, [mail[n] EXCEPT !.status = "running", !.attempts = (@ + 1) % (MailAttempts + 2)])
ClaimMail(n) ==
    /\ mail[n].status \in {"queued", "lost"}
    /\ mail[n].attempts < MailAttempts
    /\ SetMail(n, [mail[n] EXCEPT !.status = "running", !.attempts = @ + 1])

\* The SMTP server takes it; nothing is written in the database.
Deliver(n) ==
    /\ mail[n].status = "running"
    /\ SetMail(n, [mail[n] EXCEPT !.status = "delivered", !.sent = @ + 1])

FinishMail(n) == mail[n].status = "delivered" /\ SetMail(n, [mail[n] EXCEPT !.status = "succeeded"])

AfterFailure(n) == IF mail[n].attempts >= MailAttempts THEN "failed" ELSE "queued"
FailMail(n) ==
    /\ mail[n].status \in {"running", "delivered"}
    /\ SetMail(n, [mail[n] EXCEPT !.status = AfterFailure(n)])

LoseMail(n) ==
    /\ mail[n].status \in {"running", "delivered"}
    /\ SetMail(n, [mail[n] EXCEPT !.status = "lost"])

-----------------------------------------------------------------------------
(* What rules look at *)

Tick ==
    /\ clock < MaxTime
    /\ clock' = clock + 1
    /\ UNCHANGED <<kind, rule, first, above, stamp, seen, overtaken, eval, mail>>

ValueMoves ==
    /\ \E r \in Rules : kind[r] = "threshold"
    /\ above' = ~above
    /\ UNCHANGED <<clock, kind, rule, first, stamp, seen, overtaken, eval, mail>>

\* No two clock readings are the same: it is stamped after any evaluation that
\* began before it.
BeginDocument(d) ==
    /\ \E r \in Rules : kind[r] = "new_document"
    /\ stamp[d] = None /\ clock < MaxTime
    /\ clock' = clock + 1
    /\ stamp' = [stamp EXCEPT ![d] = clock + 1]
    /\ UNCHANGED <<kind, rule, first, above, seen, overtaken, eval, mail>>

CommitDocument(d) ==
    /\ d \in InFlight
    /\ seen' = seen \cup {d}
    /\ UNCHANGED <<clock, kind, rule, first, above, stamp, overtaken, eval, mail>>

AlertsNext ==
    \/ Tick
    \/ \E r \in Rules : CreateAlert(r) \/ ToggleAlert(r) \/ DeleteAlert(r)
    \/ \E e \in Evaluators : BeginEvaluation(e) \/ Decide(e) \/ CommitEvaluation(e) \/ LoseEvaluation(e)
    \/ \E n \in Notes : ClaimMail(n) \/ Deliver(n) \/ FinishMail(n) \/ FailMail(n) \/ LoseMail(n)
    \/ ValueMoves
    \/ \E d \in Documents : BeginDocument(d) \/ CommitDocument(d)

AlertsSpec == AlertsInit /\ [][AlertsNext]_alertVars

-----------------------------------------------------------------------------
(* Properties *)

AlertsTypeOK ==
    /\ clock \in Times
    /\ rule \in [Rules -> [status : {"absent", "active", "paused", "deleted"}, evaluated : Times \cup {None}]]
    /\ stamp \in [Documents -> Times \cup {None}]
    /\ seen \subseteq Documents
    /\ Notes \subseteq Note
    /\ \A n \in Notes : mail[n].attempts \in 0..MailAttempts

\* However evaluations overlap, commit late, die and start again, no rule makes
\* more notifications within its cooldown than evaluations can be at work.
NotFlooded ==
    \A r \in Rules, t \in Times :
        Cardinality({n \in Notes : n.rule = r /\ t <= n.at /\ n.at <= t + Cooldown[kind[r]]})
            <= Cardinality(Evaluators)

\* Pausing a rule, evaluations that die and watermarks that go back lose no
\* document: once a rule has been evaluated past one that was stamped after its
\* first evaluation was committed, it has notified within its cooldown before that, or since.
\* This needs that no evaluation began while the document's transaction was open.
NoDocumentLost ==
    \A r \in Rules, d \in seen \ overtaken :
        (/\ kind[r] = "new_document" /\ first[r] # None
         /\ first[r] < stamp[d] /\ stamp[d] < rule[r].evaluated) =>
                \E n \in Notes : n.rule = r /\ n.at + Cooldown[kind[r]] >= stamp[d]
=============================================================================
