------------------------------ MODULE ReaderProofs ------------------------------
(***************************************************************************)
(* Theorems of Alerts, Readings, Browser and Quality.                       *)
(*                                                                          *)
(* Alerts, for any rules, evaluations, documents and cooldowns: one         *)
(* evaluation at a time keeps the cooldown, since it begins after what it   *)
(* made before was committed, so every evaluator adds at most one           *)
(* notification of a rule to a cooldown.  And an evaluation whose time is   *)
(* past a document has seen it, if it was not in flight when it began.      *)
(*                                                                          *)
(* Readings, for any finite set of periods, any syncs and any window: what  *)
(* was known at a cutoff stays known, so the newest vintage of a period     *)
(* that a later answer has is no older; and a windowed answer leaves a      *)
(* period out only for a window full of later ones.                         *)
(*                                                                          *)
(* Browser, for any catalog and request: the rows kept for the order have   *)
(* the metric of all rows, if it is shown; series that are ordered have one *)
(* of each place; and what is denied enters neither.                        *)
(*                                                                          *)
(* Quality, for any units, frequencies and revisions: the row of a period   *)
(* that is judged is the one that readers are shown, so no complaint is     *)
(* left if and only if the series is whole.                                 *)
(***************************************************************************)
EXTENDS Alerts, Readings, Browser, Quality, Functions, FiniteSetTheorems, FunctionTheorems, WellFoundedInduction, TLAPS

-----------------------------------------------------------------------------
(* The inductive invariant *)

RuleRow == [status : {"absent", "active", "paused", "deleted"}, evaluated : Times \cup {None}]
Evaluation ==
    [at : {"idle", "read", "decided"}, now : Times, rows : SUBSET Rules,
     read : [Rules -> Times \cup {None}], due : SUBSET Rules]
MailStatus == {"none", "queued", "running", "delivered", "succeeded", "failed", "lost"}
MailJob == [status : MailStatus, attempts : 0..MailAttempts, sent : Nat]

Types ==
    /\ clock \in Times
    /\ kind \in [Rules -> Kinds]
    /\ rule \in [Rules -> RuleRow]
    /\ first \in [Rules -> Times \cup {None}]
    /\ stamp \in [Documents -> Times \cup {None}]
    /\ seen \subseteq Documents
    /\ eval \in [Evaluators -> Evaluation]
    /\ Notes \subseteq Note
    /\ \A n \in Notes : mail[n] \in MailJob

Cool(r) == Cooldown[kind[r]]

\* Nothing is later than the clock, and a rule has a watermark from its first
\* evaluation on.
RuleTimes(r) ==
    /\ first[r] = None <=> rule[r].evaluated = None
    /\ first[r] # None => first[r] <= clock
    /\ rule[r].evaluated # None => rule[r].evaluated <= clock
DocumentTimes(d) ==
    /\ stamp[d] # None => stamp[d] <= clock
    /\ d \in seen => stamp[d] # None
EvaluationTimes(e) ==
    /\ eval[e].now <= clock
    /\ eval[e].due \subseteq eval[e].rows
    /\ \A r \in Rules : eval[e].read[r] # None => eval[e].read[r] <= eval[e].now
    /\ \A r \in eval[e].rows :
            eval[e].at # "idle" /\ first[r] # None /\ first[r] < eval[e].now => eval[e].read[r] # None
TimeInv ==
    /\ \A r \in Rules : RuleTimes(r)
    /\ \A d \in Documents : DocumentTimes(d)
    /\ \A e \in Evaluators : EvaluationTimes(e)

\* What one evaluator has made of a rule lies further apart than the cooldown,
\* also from what it is about to make.
SpacedInv ==
    /\ \A n, k \in Notes :
            n.rule = k.rule /\ n.by = k.by /\ n # k =>
                n.at + Cool(n.rule) < k.at \/ k.at + Cool(n.rule) < n.at
    /\ \A e \in Evaluators : eval[e].at = "decided" =>
            \A n \in Notes : n.by = e /\ n.rule \in eval[e].due => n.at + Cool(n.rule) < eval[e].now

\* A document of the past has been seen, unless an evaluation overtook it.
SeenInv ==
    \A e \in Evaluators, d \in Documents \ overtaken :
        eval[e].at # "idle" /\ stamp[d] # None /\ stamp[d] <= eval[e].now => d \in seen

Noted(r, d) == \E n \in Notes : n.rule = r /\ n.at + Cool(r) >= stamp[d]

\* A rule that must not lose the document.
Awaits(r, d) == kind[r] = "new_document" /\ first[r] # None /\ stamp[d] # None /\ first[r] < stamp[d]

NotedInv ==
    \A r \in Rules, d \in Documents \ overtaken : Awaits(r, d) =>
        /\ rule[r].evaluated >= stamp[d] => Noted(r, d)
        /\ \A e \in Evaluators : eval[e].at # "idle" /\ r \in eval[e].rows =>
            /\ eval[e].read[r] # None /\ eval[e].read[r] >= stamp[d] => Noted(r, d)
            /\ eval[e].at = "decided" /\ eval[e].now >= stamp[d] => r \in eval[e].due \/ Noted(r, d)

Inv == Types /\ TimeInv /\ SpacedInv /\ SeenInv /\ NotedInv


-----------------------------------------------------------------------------
(* Steps outside the evaluations *)

LEMMA Numbers ==
    /\ Times \subseteq Nat /\ 0 \in Times /\ None \notin Times /\ MaxTime \in Nat /\ MailAttempts \in Nat
    /\ \A t \in Times : t <= MaxTime
    /\ \A t \in Nat : t <= MaxTime => t \in Times
BY NoneAssumption, BoundsAssumption DEF Times

LEMMA CoolTypes ==
    ASSUME Inv, NEW r \in Rules
    PROVE  Cool(r) \in Nat
BY CooldownAssumption DEF Inv, Types, Cool

LEMMA NoteTypes ==
    ASSUME Inv, NEW n \in Notes
    PROVE  n.rule \in Rules /\ n.at \in Times /\ n.by \in Evaluators
BY DEF Inv, Types, Note

LEMMA EvaluationTypes ==
    ASSUME Inv, NEW e \in Evaluators
    PROVE  /\ eval[e].at \in {"idle", "read", "decided"} /\ eval[e].now \in Times
           /\ eval[e].rows \subseteq Rules /\ eval[e].due \subseteq Rules
           /\ eval[e].read \in [Rules -> Times \cup {None}]
<1>1. eval[e] \in Evaluation
  BY DEF Inv, Types
<1> QED
  BY <1>1 DEF Evaluation

LEMMA RuleTypes ==
    ASSUME Inv, NEW r \in Rules
    PROVE  /\ rule[r] \in RuleRow /\ rule[r].evaluated \in Times \cup {None}
           /\ rule[r].status \in {"absent", "active", "paused", "deleted"}
           /\ first[r] \in Times \cup {None}
<1>1. rule[r] \in RuleRow /\ first[r] \in Times \cup {None}
  BY DEF Inv, Types
<1> QED
  BY <1>1 DEF RuleRow

LEMMA SeenStamped ==
    ASSUME Inv
    PROVE  \A d \in seen : stamp[d] # None
BY DEF Inv, Types, TimeInv, DocumentTimes

\* A step that adds no notification, moves no watermark and begins no evaluation.
LEMMA Frame ==
    ASSUME Inv, Types', UNCHANGED <<kind, first, stamp, overtaken, eval>>, seen \subseteq seen', Notes' = Notes,
           \A d \in seen' : stamp[d] # None, clock <= clock', \A r \in Rules : rule'[r].evaluated = rule[r].evaluated
    PROVE  Inv'
<1>1. TimeInv'
  <2>1. clock \in Nat /\ clock' \in Nat
    BY Numbers DEF Inv, Types
  <2>2. \A r \in Rules : RuleTimes(r)'
    <3> SUFFICES ASSUME NEW r \in Rules PROVE RuleTimes(r)'
      OBVIOUS
    <3>1. RuleTimes(r)
      BY DEF Inv, TimeInv
    <3>2. rule[r].evaluated \in Nat \cup {None} /\ first[r] \in Nat \cup {None}
      BY RuleTypes, Numbers
    <3> QED
      BY <2>1, <3>1, <3>2 DEF RuleTimes
  <2>3. \A d \in Documents : DocumentTimes(d)'
    <3> SUFFICES ASSUME NEW d \in Documents PROVE DocumentTimes(d)'
      OBVIOUS
    <3>1. DocumentTimes(d) /\ stamp[d] \in Nat \cup {None}
      BY Numbers DEF Inv, TimeInv, Types
    <3> QED
      BY <2>1, <3>1 DEF DocumentTimes
  <2>4. \A e \in Evaluators : EvaluationTimes(e)'
    <3> SUFFICES ASSUME NEW e \in Evaluators PROVE EvaluationTimes(e)'
      OBVIOUS
    <3>1. EvaluationTimes(e) /\ eval[e].now \in Nat
      BY EvaluationTypes, Numbers DEF Inv, TimeInv
    <3> QED
      BY <2>1, <3>1 DEF EvaluationTimes
  <2> QED
    BY <2>2, <2>3, <2>4 DEF TimeInv
<1>2. SpacedInv'
  BY DEF Inv, SpacedInv, Cool
<1>3. SeenInv'
  BY DEF Inv, SeenInv
<1>4. NotedInv'
  <2>1. \A r \in Rules, d \in Documents : (Awaits(r, d)' <=> Awaits(r, d)) /\ (Noted(r, d)' <=> Noted(r, d))
    BY DEF Awaits, Noted, Cool
  <2> QED
    BY <2>1 DEF Inv, NotedInv
<1> QED
  BY <1>1, <1>2, <1>3, <1>4 DEF Inv

LEMMA RuleKeeps ==
    ASSUME Inv, NEW r \in Rules, CreateAlert(r) \/ ToggleAlert(r) \/ DeleteAlert(r)
    PROVE  Inv'
<1>1. PICK status \in {"active", "paused", "deleted"} : SetStatus(r, status)
  BY DEF CreateAlert, ToggleAlert, DeleteAlert
<1>2. rule' = [rule EXCEPT ![r] = [rule[r] EXCEPT !.status = status]]
  BY <1>1 DEF SetStatus
<1>3. /\ rule'[r] = [rule[r] EXCEPT !.status = status] /\ \A q \in Rules \ {r} : rule'[q] = rule[q]
      /\ rule' = [q \in Rules |-> rule'[q]]
  BY <1>2 DEF Inv, Types
<1>4. rule'[r] \in RuleRow /\ rule'[r].evaluated = rule[r].evaluated
  BY <1>3, RuleTypes DEF RuleRow
<1>5. rule' \in [Rules -> RuleRow]
  BY <1>3, <1>4, RuleTypes
<1>6. Types' /\ Notes' = Notes
  BY <1>1, <1>5 DEF Inv, Types, SetStatus, Notes
<1>7. clock <= clock'
  BY <1>1, Numbers DEF Inv, Types, SetStatus
<1> QED
  BY <1>1, <1>3, <1>4, <1>6, <1>7, SeenStamped, Frame DEF SetStatus

LEMMA MailKeeps ==
    ASSUME Inv, NEW n \in Notes, NEW job \in MailJob, SetMail(n, job)
    PROVE  Inv'
<1>1. DOMAIN mail' = DOMAIN mail /\ mail'[n] = job /\ \A k \in Notes \ {n} : mail'[k] = mail[k]
  BY DEF SetMail, Notes
<1>2. Types' /\ Notes' = Notes
  BY <1>1 DEF Inv, Types, SetMail, Notes, Note
<1>3. clock <= clock'
  BY Numbers DEF Inv, Types, SetMail
<1> QED
  BY <1>2, <1>3, SeenStamped, Frame DEF SetMail


LEMMA JobKeeps ==
    ASSUME Inv, NEW n \in Notes, ClaimMail(n) \/ Deliver(n) \/ FinishMail(n) \/ FailMail(n) \/ LoseMail(n)
    PROVE  Inv'
<1>1. /\ mail[n] \in MailJob /\ mail[n].attempts \in Nat /\ mail[n].attempts \in 0..MailAttempts /\ mail[n].sent \in Nat
      /\ MailAttempts \in Nat
  BY Numbers DEF Inv, Types, MailJob
<1>2. ASSUME NEW status \in MailStatus, SetMail(n, [mail[n] EXCEPT !.status = status])
      PROVE  Inv'
  <2>1. PICK job : job = [mail[n] EXCEPT !.status = status]
    OBVIOUS
  <2>2. job \in MailJob
    BY <1>1, <2>1 DEF MailJob
  <2> QED
    BY <1>2, <2>1, <2>2, MailKeeps
<1>3. CASE ClaimMail(n)
  <2>1. PICK job : job = [mail[n] EXCEPT !.status = "running", !.attempts = mail[n].attempts + 1]
    OBVIOUS
  <2>2. mail[n].attempts + 1 \in 0..MailAttempts
    BY <1>1, <1>3 DEF ClaimMail
  <2>3. job \in MailJob
    BY <1>1, <2>1, <2>2 DEF MailJob, MailStatus
  <2>4. SetMail(n, job)
    BY <1>3, <2>1 DEF ClaimMail
  <2> QED
    BY <2>3, <2>4, MailKeeps
<1>4. CASE Deliver(n)
  <2>1. PICK job : job = [mail[n] EXCEPT !.status = "delivered", !.sent = mail[n].sent + 1]
    OBVIOUS
  <2>2. mail[n].sent + 1 \in Nat
    BY <1>1
  <2>3. job \in MailJob
    BY <1>1, <2>1, <2>2 DEF MailJob, MailStatus
  <2>4. SetMail(n, job)
    BY <1>4, <2>1 DEF Deliver
  <2> QED
    BY <2>3, <2>4, MailKeeps
<1>5. CASE FinishMail(n)
  BY <1>2, <1>5 DEF FinishMail, MailStatus
<1>6. CASE FailMail(n)
  <2>1. AfterFailure(n) \in MailStatus
    BY DEF AfterFailure, MailStatus
  <2> QED
    BY <1>2, <1>6, <2>1 DEF FailMail
<1>7. CASE LoseMail(n)
  BY <1>2, <1>7 DEF LoseMail, MailStatus
<1> QED
  BY <1>3, <1>4, <1>5, <1>6, <1>7

LEMMA WorldKeeps ==
    ASSUME Inv, Tick \/ ValueMoves \/ \E d \in Documents : CommitDocument(d)
    PROVE  Inv'
<1>1. clock \in Nat /\ clock' \in Times /\ clock <= clock'
  BY Numbers DEF Inv, Types, Tick, ValueMoves, CommitDocument
<1>2. UNCHANGED <<kind, rule, first, stamp, overtaken, eval, mail>> /\ seen \subseteq seen' /\ seen' \subseteq Documents
  BY DEF Tick, ValueMoves, CommitDocument, InFlight, Inv, Types
<1>3. \A d \in seen' : stamp[d] # None
  BY SeenStamped DEF Tick, ValueMoves, CommitDocument, InFlight
<1>4. Types' /\ Notes' = Notes
  BY <1>1, <1>2 DEF Inv, Types, Notes
<1> QED
  BY <1>1, <1>2, <1>3, <1>4, Frame

\* A document is stamped later than any evaluation has begun.
LEMMA StampKeeps ==
    ASSUME Inv, NEW d \in Documents, BeginDocument(d)
    PROVE  Inv'
<1>1. /\ clock \in Nat /\ clock' = clock + 1 /\ clock' \in Times
      /\ UNCHANGED <<kind, rule, first, seen, overtaken, eval, mail>> /\ Notes' = Notes
  BY Numbers DEF Inv, Types, BeginDocument, Notes
<1>2. /\ stamp[d] = None /\ stamp'[d] = clock + 1 /\ \A k \in Documents \ {d} : stamp'[k] = stamp[k]
      /\ stamp' \in [Documents -> Times \cup {None}]
  BY <1>1 DEF Inv, Types, BeginDocument
<1>3. Types'
  BY <1>1, <1>2 DEF Inv, Types
<1>4. TimeInv'
  <2>1. \A r \in Rules : RuleTimes(r)'
    <3> SUFFICES ASSUME NEW r \in Rules PROVE RuleTimes(r)'
      OBVIOUS
    <3>1. RuleTimes(r)
      BY DEF Inv, TimeInv
    <3>2. rule[r].evaluated \in Nat \cup {None} /\ first[r] \in Nat \cup {None}
      BY RuleTypes, Numbers
    <3> QED
      BY <1>1, <3>1, <3>2 DEF RuleTimes
  <2>2. \A k \in Documents : DocumentTimes(k)'
    <3> SUFFICES ASSUME NEW k \in Documents PROVE DocumentTimes(k)'
      OBVIOUS
    <3>1. DocumentTimes(k) /\ stamp[k] \in Nat \cup {None}
      BY Numbers DEF Inv, TimeInv, Types
    <3> QED
      BY <1>1, <1>2, <3>1 DEF DocumentTimes
  <2>3. \A e \in Evaluators : EvaluationTimes(e)'
    <3> SUFFICES ASSUME NEW e \in Evaluators PROVE EvaluationTimes(e)'
      OBVIOUS
    <3>1. EvaluationTimes(e) /\ eval[e].now \in Nat
      BY EvaluationTypes, Numbers DEF Inv, TimeInv
    <3> QED
      BY <1>1, <3>1 DEF EvaluationTimes
  <2> QED
    BY <2>1, <2>2, <2>3 DEF TimeInv
<1>5. SpacedInv'
  BY <1>1 DEF Inv, SpacedInv, Cool
<1>6. \A e \in Evaluators : eval[e].now \in Nat /\ eval[e].now <= clock
  BY EvaluationTypes, Numbers DEF Inv, TimeInv, EvaluationTimes
<1>7. SeenInv'
  <2> SUFFICES ASSUME NEW e \in Evaluators, NEW k \in Documents \ overtaken, eval[e].at # "idle",
                      stamp'[k] # None, stamp'[k] <= eval[e].now
               PROVE  k \in seen
    BY <1>1 DEF SeenInv
  <2>1. k # d
    BY <1>1, <1>2, <1>6
  <2> QED
    BY <1>2, <2>1 DEF Inv, SeenInv
<1>8. NotedInv'
  <2> SUFFICES ASSUME NEW r \in Rules, NEW k \in Documents \ overtaken, Awaits(r, k)'
               PROVE  /\ rule[r].evaluated >= stamp'[k] => Noted(r, k)'
                      /\ \A e \in Evaluators : eval[e].at # "idle" /\ r \in eval[e].rows =>
                            /\ eval[e].read[r] # None /\ eval[e].read[r] >= stamp'[k] => Noted(r, k)'
                            /\ eval[e].at = "decided" /\ eval[e].now >= stamp'[k] => r \in eval[e].due \/ Noted(r, k)'
    BY <1>1 DEF NotedInv
  <2>1. CASE k = d
    <3>1. ~(rule[r].evaluated >= stamp'[k])
      <4>1. RuleTimes(r) /\ rule[r].evaluated \in Nat \cup {None} /\ first[r] # None
        BY <1>1, RuleTypes, Numbers DEF Inv, TimeInv, Awaits
      <4> QED
        BY <1>1, <1>2, <2>1, <4>1 DEF RuleTimes
    <3>2. \A e \in Evaluators : ~(eval[e].now >= stamp'[k])
      BY <1>1, <1>2, <1>6, <2>1
    <3>3. ASSUME NEW e \in Evaluators, eval[e].read[r] # None
          PROVE  ~(eval[e].read[r] >= stamp'[k])
      <4>1. eval[e].read[r] \in Nat
        BY <3>3, EvaluationTypes, Numbers
      <4>2. eval[e].read[r] <= eval[e].now
        BY <3>3 DEF Inv, TimeInv, EvaluationTimes
      <4> QED
        BY <1>1, <1>2, <1>6, <2>1, <4>1, <4>2
    <3> QED
      BY <3>1, <3>2, <3>3
  <2>2. CASE k # d
    <3>1. stamp'[k] = stamp[k] /\ Awaits(r, k) /\ (Noted(r, k)' <=> Noted(r, k))
      BY <1>1, <1>2, <2>2 DEF Awaits, Noted, Cool
    <3> QED
      BY <3>1 DEF Inv, NotedInv
  <2> QED
    BY <2>1, <2>2
<1> QED
  BY <1>3, <1>4, <1>5, <1>7, <1>8 DEF Inv


-----------------------------------------------------------------------------
(* The steps of an evaluation *)

LEMMA EvaluationMoves ==
    ASSUME Inv, NEW e \in Evaluators, NEW next \in Evaluation, eval' = [eval EXCEPT ![e] = next],
           UNCHANGED <<clock, kind, rule, first, stamp, seen, mail>>, overtaken \subseteq overtaken',
           next.now <= clock, next.due \subseteq next.rows,
           \A r \in Rules : next.read[r] # None => next.read[r] <= next.now,
           \A r \in next.rows :
                next.at # "idle" /\ first[r] # None /\ first[r] < next.now => next.read[r] # None,
           next.at = "decided" =>
                \A n \in Notes : n.by = e /\ n.rule \in next.due => n.at + Cool(n.rule) < next.now,
           \A d \in Documents \ overtaken' :
                next.at # "idle" /\ stamp[d] # None /\ stamp[d] <= next.now => d \in seen,
           \A d \in Documents \ overtaken', r \in next.rows : next.at # "idle" /\ Awaits(r, d) =>
                /\ next.read[r] # None /\ next.read[r] >= stamp[d] => Noted(r, d)
                /\ next.at = "decided" /\ next.now >= stamp[d] => r \in next.due \/ Noted(r, d)
    PROVE  Inv'
<1>1. /\ eval' \in [Evaluators -> Evaluation] /\ eval'[e] = next
      /\ \A i \in Evaluators \ {e} : eval'[i] = eval[i]
  BY DEF Inv, Types
<1>2. Types' /\ Notes' = Notes
  BY <1>1 DEF Inv, Types, Notes
<1>3. TimeInv'
  <2>1. \A r \in Rules : RuleTimes(r)'
    BY DEF Inv, TimeInv, RuleTimes
  <2>2. \A d \in Documents : DocumentTimes(d)'
    BY DEF Inv, TimeInv, DocumentTimes
  <2>3. \A i \in Evaluators : EvaluationTimes(i)'
    <3> SUFFICES ASSUME NEW i \in Evaluators PROVE EvaluationTimes(i)'
      OBVIOUS
    <3>1. CASE i = e
      BY <1>1, <3>1 DEF EvaluationTimes
    <3>2. CASE i # e
      BY <1>1, <3>2 DEF EvaluationTimes, Inv, TimeInv
    <3> QED
      BY <3>1, <3>2
  <2> QED
    BY <2>1, <2>2, <2>3 DEF TimeInv
<1>4. SpacedInv'
  <2>1. \A r \in Rules : Cool(r)' = Cool(r)
    BY DEF Cool
  <2>2. \A n, k \in Notes :
            n.rule = k.rule /\ n.by = k.by /\ n # k =>
                n.at + Cool(n.rule) < k.at \/ k.at + Cool(n.rule) < n.at
    BY DEF Inv, SpacedInv
  <2>3. ASSUME NEW i \in Evaluators, eval'[i].at = "decided",
               NEW n \in Notes, n.by = i, n.rule \in eval'[i].due
        PROVE  n.at + Cool(n.rule) < eval'[i].now
    BY <1>1, <2>3 DEF Inv, SpacedInv
  <2> QED
    BY <1>2, <2>1, <2>2, <2>3, NoteTypes DEF SpacedInv
<1>5. SeenInv'
  BY <1>1 DEF Inv, SeenInv
<1>6. NotedInv'
  <2>1. \A r \in Rules, d \in Documents : (Awaits(r, d)' <=> Awaits(r, d)) /\ (Noted(r, d)' <=> Noted(r, d))
    BY <1>2 DEF Awaits, Noted, Cool
  <2> SUFFICES ASSUME NEW r \in Rules, NEW d \in Documents \ overtaken', Awaits(r, d)
               PROVE  /\ rule[r].evaluated >= stamp[d] => Noted(r, d)
                      /\ \A i \in Evaluators : eval'[i].at # "idle" /\ r \in eval'[i].rows =>
                            /\ eval'[i].read[r] # None /\ eval'[i].read[r] >= stamp[d] => Noted(r, d)
                            /\ eval'[i].at = "decided" /\ eval'[i].now >= stamp[d] => r \in eval'[i].due \/ Noted(r, d)
    BY <2>1 DEF NotedInv
  <2>2. rule[r].evaluated >= stamp[d] => Noted(r, d)
    BY DEF Inv, NotedInv
  <2>3. ASSUME NEW i \in Evaluators, eval'[i].at # "idle", r \in eval'[i].rows
        PROVE  /\ eval'[i].read[r] # None /\ eval'[i].read[r] >= stamp[d] => Noted(r, d)
               /\ eval'[i].at = "decided" /\ eval'[i].now >= stamp[d] => r \in eval'[i].due \/ Noted(r, d)
    <3>1. CASE i = e
      BY <1>1, <2>3, <3>1
    <3>2. CASE i # e
      BY <1>1, <2>3, <3>2 DEF Inv, NotedInv
    <3> QED
      BY <3>1, <3>2
  <2> QED
    BY <2>2, <2>3
<1> QED
  BY <1>2, <1>3, <1>4, <1>5, <1>6 DEF Inv

LEMMA IdleTypes ==
    /\ NoEvaluation \in Evaluation /\ NoEvaluation.at = "idle" /\ NoEvaluation.now = 0
    /\ NoEvaluation.due = {} /\ NoEvaluation.rows = {}
    /\ \A r \in Rules : NoEvaluation.read[r] = None
BY Numbers DEF NoEvaluation, Evaluation

LEMMA LoseKeeps ==
    ASSUME Inv, NEW e \in Evaluators, LoseEvaluation(e)
    PROVE  Inv'
<1>1. PICK next : next = NoEvaluation
  OBVIOUS
<1>2. /\ next \in Evaluation /\ next.at = "idle" /\ next.now = 0 /\ next.due = {} /\ next.rows = {}
      /\ \A r \in Rules : next.read[r] = None
  BY <1>1, IdleTypes
<1>3. next.now <= clock
  BY <1>2, Numbers DEF Inv, Types
<1>4. /\ eval' = [eval EXCEPT ![e] = next] /\ UNCHANGED <<clock, kind, rule, first, stamp, seen, mail>>
      /\ overtaken \subseteq overtaken'
  BY <1>1 DEF LoseEvaluation
<1> QED
  BY <1>2, <1>3, <1>4, EvaluationMoves

\* What is in flight now is overtaken; what is stamped has been seen otherwise.
LEMMA BeginKeeps ==
    ASSUME Inv, NEW e \in Evaluators, BeginEvaluation(e)
    PROVE  Inv'
<1>1. PICK reads : reads = [r \in Rules |-> rule[r].evaluated]
  OBVIOUS
<1>2. reads \in [Rules -> Times \cup {None}] /\ \A r \in Rules : reads[r] = rule[r].evaluated
  BY <1>1, RuleTypes
<1>3. PICK next : next = [at |-> "read", now |-> clock, rows |-> Active, due |-> {}, read |-> reads]
  OBVIOUS
<1>4. /\ next.at = "read" /\ next.now = clock /\ next.rows = Active /\ next.due = {} /\ next.read = reads
      /\ Active \subseteq Rules
  BY <1>3 DEF Active
<1>5. next \in Evaluation
  BY <1>2, <1>3, <1>4 DEF Evaluation, Inv, Types
<1>6. /\ eval' = [eval EXCEPT ![e] = next] /\ UNCHANGED <<clock, kind, rule, first, stamp, seen, mail>>
      /\ overtaken' = overtaken \cup InFlight
  BY <1>1, <1>3 DEF BeginEvaluation
<1>7. next.now <= clock /\ next.due \subseteq next.rows /\ overtaken \subseteq overtaken'
  BY <1>4, <1>6, Numbers DEF Inv, Types
<1>8. \A r \in Rules : next.read[r] # None => next.read[r] <= next.now
  BY <1>2, <1>4 DEF Inv, TimeInv, RuleTimes
<1>9. \A r \in next.rows : next.at # "idle" /\ first[r] # None /\ first[r] < next.now => next.read[r] # None
  BY <1>2, <1>4 DEF Inv, TimeInv, RuleTimes
<1>10. \A d \in Documents \ overtaken' :
            next.at # "idle" /\ stamp[d] # None /\ stamp[d] <= next.now => d \in seen
  BY <1>6 DEF InFlight
<1>11. \A d \in Documents \ overtaken', r \in next.rows : next.at # "idle" /\ Awaits(r, d) =>
            /\ next.read[r] # None /\ next.read[r] >= stamp[d] => Noted(r, d)
            /\ next.at = "decided" /\ next.now >= stamp[d] => r \in next.due \/ Noted(r, d)
  BY <1>2, <1>4, <1>6 DEF Inv, NotedInv
<1> QED
  BY <1>4, <1>5, <1>6, <1>7, <1>8, <1>9, <1>10, <1>11, EvaluationMoves

\* A document the rule awaits and that is not past its watermark triggers it; it
\* is due, or has a notification within the cooldown.
LEMMA DecideKeeps ==
    ASSUME Inv, NEW e \in Evaluators, Decide(e)
    PROVE  Inv'
<1>1. PICK due : due = {r \in eval[e].rows : /\ Triggered(r, eval[e].now, eval[e].read[r])
                                            /\ ~Duplicate(r, eval[e].now)}
  OBVIOUS
<1>2. PICK next : next = [eval[e] EXCEPT !.at = "decided", !.due = due]
  OBVIOUS
<1>3. eval[e] \in Evaluation
  BY DEF Inv, Types
<1>4. due \subseteq eval[e].rows /\ due \subseteq Rules
  BY <1>1, EvaluationTypes
<1>5. /\ next \in Evaluation /\ next.at = "decided" /\ next.due = due /\ next.now = eval[e].now
      /\ next.rows = eval[e].rows /\ next.read = eval[e].read
  BY <1>2, <1>3, <1>4 DEF Evaluation
<1>6. /\ eval' = [eval EXCEPT ![e] = next] /\ UNCHANGED <<clock, kind, rule, first, stamp, seen, mail>>
      /\ overtaken' = overtaken /\ eval[e].at = "read"
  BY <1>1, <1>2 DEF Decide
<1>7. /\ next.now <= clock /\ next.due \subseteq next.rows /\ overtaken \subseteq overtaken'
      /\ \A r \in Rules : next.read[r] # None => next.read[r] <= next.now
      /\ \A r \in next.rows : next.at # "idle" /\ first[r] # None /\ first[r] < next.now => next.read[r] # None
  BY <1>4, <1>5, <1>6 DEF Inv, TimeInv, EvaluationTimes
<1>8. next.now \in Nat
  BY <1>5, EvaluationTypes, Numbers
<1>9. \A n \in Notes : n.by = e /\ n.rule \in next.due => n.at + Cool(n.rule) < next.now
  <2> SUFFICES ASSUME NEW n \in Notes, n.rule \in due PROVE n.at + Cool(n.rule) < next.now
    BY <1>5
  <2>1. ~(n.at >= next.now - Cool(n.rule))
    BY <1>1, <1>5 DEF Duplicate, Cool
  <2>2. n.at \in Nat /\ Cool(n.rule) \in Nat
    BY NoteTypes, CoolTypes, Numbers
  <2> QED
    BY <1>8, <2>1, <2>2
<1>10. \A d \in Documents \ overtaken' :
            next.at # "idle" /\ stamp[d] # None /\ stamp[d] <= next.now => d \in seen
  BY <1>5, <1>6 DEF Inv, SeenInv
<1>11. \A d \in Documents \ overtaken', r \in next.rows : next.at # "idle" /\ Awaits(r, d) =>
            /\ next.read[r] # None /\ next.read[r] >= stamp[d] => Noted(r, d)
            /\ next.at = "decided" /\ next.now >= stamp[d] => r \in next.due \/ Noted(r, d)
  <2> SUFFICES ASSUME NEW d \in Documents \ overtaken, NEW r \in Rules, r \in eval[e].rows, Awaits(r, d)
               PROVE  /\ eval[e].read[r] # None /\ eval[e].read[r] >= stamp[d] => Noted(r, d)
                      /\ eval[e].now >= stamp[d] => r \in due \/ Noted(r, d)
    BY <1>5, <1>6, EvaluationTypes
  <2>1. eval[e].read[r] # None /\ eval[e].read[r] >= stamp[d] => Noted(r, d)
    BY <1>6 DEF Inv, NotedInv
  <2>2. ASSUME eval[e].now >= stamp[d], r \notin due, ~Noted(r, d) PROVE FALSE
    <3>1. /\ stamp[d] \in Nat /\ first[r] \in Nat /\ eval[e].now \in Nat /\ Cool(r) \in Nat /\ first[r] < stamp[d]
      BY RuleTypes, EvaluationTypes, CoolTypes, Numbers DEF Awaits, Inv, Types
    <3>2. d \in seen
      BY <1>6, <2>2, <3>1 DEF Inv, SeenInv, Awaits
    <3>3. eval[e].read[r] # None
      BY <1>6, <2>2, <3>1 DEF Inv, TimeInv, EvaluationTimes, Awaits
    <3>4. stamp[d] > eval[e].read[r]
      <4>1. eval[e].read[r] \in Nat
        BY <3>3, EvaluationTypes, Numbers
      <4> QED
        BY <2>1, <2>2, <3>1, <3>3, <4>1
    <3>5. Triggered(r, eval[e].now, eval[e].read[r])
      BY <3>2, <3>3, <3>4 DEF Triggered, Awaits
    <3>6. PICK n \in Notes : n.rule = r /\ n.at >= eval[e].now - Cool(r)
      BY <1>1, <2>2, <3>5 DEF Duplicate, Cool
    <3>7. n.at \in Nat
      BY NoteTypes, Numbers
    <3>8. n.at + Cool(r) >= stamp[d]
      BY <2>2, <3>1, <3>6, <3>7
    <3> QED
      BY <2>2, <3>6, <3>8 DEF Noted
  <2> QED
    BY <2>1, <2>2
<1> QED
  BY <1>5, <1>6, <1>7, <1>9, <1>10, <1>11, EvaluationMoves


\* A commit adds what is due to the notifications and moves the watermarks.
LEMMA CommitKeeps ==
    ASSUME Inv, NEW e \in Evaluators, CommitEvaluation(e)
    PROVE  Inv'
<1>1. PICK now : now = eval[e].now
  OBVIOUS
<1>2. PICK new : new = {[rule |-> r, at |-> now, by |-> e] : r \in eval[e].due}
  OBVIOUS
<1>3. /\ now \in Times /\ now \in Nat /\ clock \in Times /\ clock \in Nat /\ now <= clock
      /\ eval[e].due \subseteq Rules /\ eval[e].rows \subseteq Rules
      /\ eval[e].due \subseteq eval[e].rows /\ eval[e].at = "decided"
  BY <1>1, EvaluationTypes, Numbers DEF Inv, Types, TimeInv, EvaluationTimes, CommitEvaluation
<1>4. \A n \in new : n \in Note /\ n.rule \in eval[e].due /\ n.at = now /\ n.by = e
  BY <1>2, <1>3 DEF Note
<1>5. /\ mail' = [n \in Notes \cup new |-> IF n \in Notes THEN mail[n] ELSE Unsent(n.rule)]
      /\ UNCHANGED <<clock, kind, stamp, seen, overtaken>>
  BY <1>1, <1>2 DEF CommitEvaluation
<1>6. Notes' = Notes \cup new
  BY <1>5 DEF Notes
<1>7. /\ eval' \in [Evaluators -> Evaluation] /\ eval'[e] = NoEvaluation
      /\ \A i \in Evaluators \ {e} : eval'[i] = eval[i]
  BY IdleTypes DEF Inv, Types, CommitEvaluation
<1>8. /\ eval'[e].at = "idle" /\ eval'[e].now = 0 /\ eval'[e].due = {} /\ eval'[e].rows = {}
      /\ \A r \in Rules : eval'[e].read[r] = None
  BY <1>7, IdleTypes
<1>9. \A r \in Rules : /\ r \in eval[e].rows => rule'[r] = [rule[r] EXCEPT !.evaluated = now]
                       /\ r \notin eval[e].rows => rule'[r] = rule[r]
  BY <1>1 DEF CommitEvaluation, Evaluated
<1>10. \A r \in Rules : /\ rule'[r] \in RuleRow
                        /\ r \in eval[e].rows => rule'[r].evaluated = now
                        /\ r \notin eval[e].rows => rule'[r].evaluated = rule[r].evaluated
  BY <1>3, <1>9, RuleTypes DEF RuleRow
<1>11. rule' \in [Rules -> RuleRow]
  BY <1>10 DEF CommitEvaluation, Evaluated
<1>12. /\ first' \in [Rules -> Times \cup {None}]
       /\ \A r \in Rules : first'[r] = IF r \in eval[e].rows /\ first[r] = None THEN clock ELSE first[r]
  BY <1>3, RuleTypes DEF CommitEvaluation
<1>13. Types'
  <2>1. \A r \in Rules : Unsent(r) \in MailJob
    BY Numbers DEF Unsent, MailJob, MailStatus
  <2>2. \A n \in Notes' : n \in Note /\ mail'[n] \in MailJob
    BY <1>4, <1>5, <1>6, <2>1 DEF Inv, Types, Note
  <2> QED
    BY <1>5, <1>7, <1>11, <1>12, <2>2 DEF Inv, Types
<1>14. TimeInv'
  <2>1. ASSUME NEW r \in Rules PROVE RuleTimes(r)'
    <3>1. RuleTimes(r)
      BY DEF Inv, TimeInv
    <3>2. None \notin Nat \/ None \notin Times
      BY Numbers
    <3>3. CASE r \in eval[e].rows
      <4>1. rule'[r].evaluated = now /\ now # None
        BY <1>3, <1>10, <3>3, Numbers
      <4>2. first'[r] # None /\ first'[r] <= clock
        <5>1. CASE first[r] = None
          BY <1>3, <1>12, <3>3, <5>1, Numbers
        <5>2. CASE first[r] # None
          BY <1>12, <3>1, <5>2 DEF RuleTimes
        <5> QED
          BY <5>1, <5>2
      <4> QED
        BY <1>3, <1>5, <4>1, <4>2 DEF RuleTimes
    <3>4. CASE r \notin eval[e].rows
      BY <1>5, <1>10, <1>12, <3>1, <3>4 DEF RuleTimes
    <3> QED
      BY <3>3, <3>4
  <2>2. \A d \in Documents : DocumentTimes(d)'
    BY <1>5 DEF Inv, TimeInv, DocumentTimes
  <2>3. ASSUME NEW i \in Evaluators PROVE EvaluationTimes(i)'
    <3>1. CASE i = e
      BY <1>3, <1>5, <1>8, <3>1 DEF EvaluationTimes
    <3>2. CASE i # e
      <4>1. eval'[i] = eval[i] /\ EvaluationTimes(i) /\ eval[i].now \in Nat /\ eval[i].now <= clock
        BY <1>7, <3>2, EvaluationTypes, Numbers DEF Inv, TimeInv, EvaluationTimes
      <4>2. ASSUME NEW r \in eval[i].rows, eval[i].at # "idle", first'[r] # None, first'[r] < eval[i].now
            PROVE  eval[i].read[r] # None
        <5>1. r \in Rules
          BY EvaluationTypes
        <5>2. first[r] # None
          BY <1>3, <1>12, <4>1, <4>2, <5>1
        <5> QED
          BY <1>12, <4>1, <4>2, <5>1, <5>2 DEF EvaluationTimes
      <4> QED
        BY <1>5, <4>1, <4>2 DEF EvaluationTimes
    <3> QED
      BY <3>1, <3>2
  <2> QED
    BY <2>1, <2>2, <2>3 DEF TimeInv
<1>15. \A r \in Rules : Cool(r)' = Cool(r) /\ Cool(r) \in Nat
  BY <1>5, CoolTypes DEF Cool
<1>16. SpacedInv'
  <2>1. \A n \in Notes, k \in new : n.rule = k.rule /\ n.by = k.by => n.at + Cool(n.rule) < k.at
    BY <1>1, <1>3, <1>4 DEF Inv, SpacedInv
  <2>2. \A n, k \in new : n.rule = k.rule => n = k
    BY <1>2
  <2>3. \A n, k \in Notes :
            n.rule = k.rule /\ n.by = k.by /\ n # k =>
                n.at + Cool(n.rule) < k.at \/ k.at + Cool(n.rule) < n.at
    BY DEF Inv, SpacedInv
  <2>4. \A n \in Notes \cup new : n.rule \in Rules
    BY <1>3, <1>4, NoteTypes
  <2>5. ASSUME NEW n \in Notes', NEW k \in Notes', n.rule = k.rule, n.by = k.by, n # k
        PROVE  n.at + Cool(n.rule) < k.at \/ k.at + Cool(n.rule) < n.at
    <3>1. CASE n \in Notes /\ k \in Notes
      BY <2>3, <2>5, <3>1
    <3>2. CASE n \in Notes /\ k \in new
      BY <2>1, <2>5, <3>2
    <3>3. CASE n \in new /\ k \in Notes
      BY <2>1, <2>5, <3>3
    <3>4. CASE n \in new /\ k \in new
      BY <2>2, <2>5, <3>4
    <3> QED
      BY <1>6, <3>1, <3>2, <3>3, <3>4
  <2>6. ASSUME NEW i \in Evaluators, eval'[i].at = "decided",
               NEW n \in Notes', n.by = i, n.rule \in eval'[i].due
        PROVE  n.at + Cool(n.rule) < eval'[i].now
    <3>1. i # e
      BY <1>8, <2>6
    <3>2. n \in Notes /\ eval'[i] = eval[i]
      BY <1>4, <1>6, <1>7, <2>6, <3>1
    <3> QED
      BY <2>6, <3>2 DEF Inv, SpacedInv
  <2> QED
    BY <1>6, <1>15, <2>4, <2>5, <2>6 DEF SpacedInv
<1>17. SeenInv'
  <2> SUFFICES ASSUME NEW i \in Evaluators, NEW d \in Documents \ overtaken, eval'[i].at # "idle",
                      stamp[d] # None, stamp[d] <= eval'[i].now
               PROVE  d \in seen
    BY <1>5 DEF SeenInv
  <2>1. eval'[i] = eval[i]
    BY <1>7, <1>8
  <2> QED
    BY <2>1 DEF Inv, SeenInv
<1>18. NotedInv'
  <2> SUFFICES ASSUME NEW r \in Rules, NEW d \in Documents \ overtaken, Awaits(r, d)'
               PROVE  /\ rule'[r].evaluated >= stamp[d] => Noted(r, d)'
                      /\ \A i \in Evaluators : eval'[i].at # "idle" /\ r \in eval'[i].rows =>
                            /\ eval'[i].read[r] # None /\ eval'[i].read[r] >= stamp[d] => Noted(r, d)'
                            /\ eval'[i].at = "decided" /\ eval'[i].now >= stamp[d] => r \in eval'[i].due \/ Noted(r, d)'
    BY <1>5 DEF NotedInv
  <2>1. stamp[d] \in Nat /\ stamp[d] <= clock
    BY <1>5, Numbers DEF Awaits, Inv, Types, TimeInv, DocumentTimes
  <2>2. first[r] # None /\ Awaits(r, d)
    BY <1>3, <1>5, <1>12, <2>1 DEF Awaits
  <2>3. Noted(r, d) => Noted(r, d)'
    BY <1>5, <1>6, <1>15 DEF Noted
  <2>4. ASSUME rule'[r].evaluated >= stamp[d] PROVE Noted(r, d)'
    <3>1. CASE r \notin eval[e].rows
      BY <1>10, <2>2, <2>3, <2>4, <3>1 DEF Inv, NotedInv
    <3>2. CASE r \in eval[e].rows
      <4>1. now >= stamp[d]
        BY <1>10, <2>4, <3>2
      <4>2. r \in eval[e].due \/ Noted(r, d)
        BY <1>1, <1>3, <2>2, <3>2, <4>1 DEF Inv, NotedInv
      <4>3. CASE r \in eval[e].due
        <5>1. PICK n : n = [rule |-> r, at |-> now, by |-> e]
          OBVIOUS
        <5>2. n \in Notes' /\ n.rule = r /\ n.at = now
          BY <1>2, <1>6, <4>3, <5>1
        <5>3. n.at + Cool(r)' >= stamp[d]
          BY <1>3, <1>15, <2>1, <4>1, <5>2
        <5> QED
          BY <1>5, <5>2, <5>3 DEF Noted
      <4> QED
        BY <2>3, <4>2, <4>3
    <3> QED
      BY <3>1, <3>2
  <2>5. ASSUME NEW i \in Evaluators, eval'[i].at # "idle", r \in eval'[i].rows
        PROVE  /\ eval'[i].read[r] # None /\ eval'[i].read[r] >= stamp[d] => Noted(r, d)'
               /\ eval'[i].at = "decided" /\ eval'[i].now >= stamp[d] => r \in eval'[i].due \/ Noted(r, d)'
    <3>1. eval'[i] = eval[i]
      BY <1>7, <1>8, <2>5
    <3> QED
      BY <2>2, <2>3, <2>5, <3>1 DEF Inv, NotedInv
  <2> QED
    BY <2>4, <2>5
<1> QED
  BY <1>13, <1>14, <1>16, <1>17, <1>18 DEF Inv

-----------------------------------------------------------------------------
(* Theorems *)

LEMMA InitInv ==
    ASSUME AlertsInit
    PROVE  Inv
<1>1. Notes = {}
  BY DEF AlertsInit, Notes
<1>2. \A r \in Rules : first[r] = None /\ rule[r].evaluated = None
  BY DEF AlertsInit
<1>3. \A e \in Evaluators : eval[e] = NoEvaluation
  BY DEF AlertsInit
<1>4. Types
  <2>1. rule \in [Rules -> RuleRow]
    BY DEF AlertsInit, RuleRow
  <2>2. eval \in [Evaluators -> Evaluation]
    BY IdleTypes DEF AlertsInit
  <2> QED
    BY <1>1, <2>1, <2>2, Numbers DEF AlertsInit, Types
<1>5. TimeInv
  <2>1. \A e \in Evaluators : EvaluationTimes(e)
    BY <1>3, IdleTypes, Numbers DEF AlertsInit, EvaluationTimes
  <2> QED
    BY <1>2, <2>1 DEF AlertsInit, TimeInv, RuleTimes, DocumentTimes
<1>6. SpacedInv
  BY <1>1 DEF SpacedInv
<1>7. SeenInv
  BY <1>3, IdleTypes DEF SeenInv
<1>8. NotedInv
  BY <1>2 DEF NotedInv, Awaits
<1> QED
  BY <1>4, <1>5, <1>6, <1>7, <1>8 DEF Inv

LEMMA NextKeeps ==
    ASSUME Inv, AlertsNext
    PROVE  Inv'
<1>1. ASSUME NEW e \in Evaluators, BeginEvaluation(e) \/ Decide(e) \/ CommitEvaluation(e) \/ LoseEvaluation(e)
      PROVE  Inv'
  BY <1>1, BeginKeeps, DecideKeeps, CommitKeeps, LoseKeeps
<1> QED
  BY <1>1, RuleKeeps, JobKeeps, WorldKeeps, StampKeeps DEF AlertsNext

LEMMA StutterKeeps ==
    ASSUME Inv, UNCHANGED alertVars
    PROVE  Inv'
<1>1. Types' /\ Notes' = Notes /\ clock <= clock'
  BY Numbers DEF Inv, alertVars, Types, Notes
<1> QED
  BY <1>1, SeenStamped, Frame DEF alertVars

LEMMA InvHolds == AlertsSpec => []Inv
<1>1. Inv /\ [AlertsNext]_alertVars => Inv'
  BY NextKeeps, StutterKeeps
<1>2. AlertsInit => Inv
  BY InitInv
<1> QED
  BY <1>1, <1>2, PTL DEF AlertsSpec

\* The rules, watermarks, stamps and notifications have their types, and no
\* e-mail is tried more often than its job allows.
THEOREM AlertTypes == AlertsSpec => []AlertsTypeOK
<1>1. Inv => AlertsTypeOK
  BY DEF Inv, Types, AlertsTypeOK, RuleRow, MailJob
<1> QED
  BY <1>1, InvHolds, PTL

\* However evaluations overlap, commit late, die and start again, and whatever
\* the cooldown is, a rule makes no more notifications within it than evaluations
\* can be at work.
THEOREM CooldownKept == AlertsSpec => []NotFlooded
<1>1. Inv => NotFlooded
  <2> SUFFICES ASSUME Inv, NEW r \in Rules, NEW t \in Times
               PROVE  Cardinality({n \in Notes : n.rule = r /\ t <= n.at /\ n.at <= t + Cooldown[kind[r]]})
                        <= Cardinality(Evaluators)
    BY DEF NotFlooded
  <2>1. PICK S : S = {n \in Notes : n.rule = r /\ t <= n.at /\ n.at <= t + Cooldown[kind[r]]}
    OBVIOUS
  <2>2. PICK by : by = [n \in S |-> n.by]
    OBVIOUS
  <2>3. \A n, k \in S : by[n] = by[k] => n = k
    <3> SUFFICES ASSUME NEW n \in S, NEW k \in S, n.by = k.by, n # k PROVE FALSE
      BY <2>2
    <3>1. /\ n \in Notes /\ k \in Notes /\ n.rule = r /\ k.rule = r
          /\ t <= n.at /\ n.at <= t + Cool(r) /\ t <= k.at /\ k.at <= t + Cool(r)
      BY <2>1 DEF Cool
    <3>2. n.at + Cool(r) < k.at \/ k.at + Cool(r) < n.at
      BY <3>1 DEF Inv, SpacedInv
    <3>3. n.at \in Nat /\ k.at \in Nat /\ t \in Nat /\ Cool(r) \in Nat
      BY <3>1, NoteTypes, CoolTypes, Numbers
    <3> QED
      BY <3>1, <3>2, <3>3
  <2>4. by \in Injection(S, Evaluators)
    BY <2>1, <2>2, <2>3, NoteTypes DEF Injection, IsInjective
  <2>5. IsFiniteSet(Evaluators)
    BY BoundsAssumption
  <2> QED
    BY <2>1, <2>4, <2>5, FS_Injection
<1> QED
  BY <1>1, InvHolds, PTL

\* Pausing a rule, evaluations that die or commit out of order and watermarks
\* that go back lose no document that was stamped after the rule's first
\* evaluation was committed, unless an evaluation began while the document's
\* transaction was open.
THEOREM DocumentsNotified == AlertsSpec => []NoDocumentLost
<1>1. Inv => NoDocumentLost
  <2> SUFFICES ASSUME Inv, NEW r \in Rules, NEW d \in seen \ overtaken, kind[r] = "new_document",
                      first[r] # None, first[r] < stamp[d], stamp[d] < rule[r].evaluated
               PROVE  \E n \in Notes : n.rule = r /\ n.at + Cooldown[kind[r]] >= stamp[d]
    BY DEF NoDocumentLost
  <2>1. d \in Documents /\ stamp[d] \in Nat /\ stamp[d] # None /\ rule[r].evaluated \in Nat /\ first[r] \in Nat
    BY RuleTypes, SeenStamped, Numbers DEF Inv, Types, TimeInv, RuleTimes
  <2>2. Awaits(r, d) /\ rule[r].evaluated >= stamp[d]
    BY <2>1 DEF Awaits
  <2> QED
    BY <2>1, <2>2 DEF Inv, NotedInv, Noted, Cool
<1> QED
  BY <1>1, InvHolds, PTL

-----------------------------------------------------------------------------
(* Readings: the inductive invariant *)

\* What an answer at a cutoff was made of has stayed in the archive.
AnswerInv ==
    answer # None =>
        /\ answer.cutoff \in 0..time
        /\ answer.known \subseteq Until(answer.cutoff)
        /\ answer.shown # None => answer.shown \subseteq Row
        /\ AtCutoff(answer) => answer.shown \subseteq LatestOf(answer.known)
RowsTyped ==
    /\ time \in 0..LastTime /\ replayed \in BOOLEAN
    /\ archive \subseteq Row /\ started \subseteq Syncs
    /\ sync \in [Syncs -> (SUBSET Row) \cup {None}]
ReadingsInv == RowsTyped /\ AnswerInv

LEMMA PointsAreRows ==
    ASSUME RowsTyped, NEW reader, NEW cutoff
    PROVE  /\ Points(reader, cutoff) \subseteq Row
           /\ reader # "first_release" => Points(reader, cutoff) \subseteq LatestOf(Until(cutoff))
  BY DEF Points, EarliestOf, LastPeriods, LatestOf, Until, RowsTyped

\* An answer stays what it is, and nothing it was made of leaves the archive.
LEMMA AnswerStays ==
    ASSUME AnswerInv, answer' = answer, time \in Nat, time' \in Nat, time <= time', archive \subseteq archive'
    PROVE  AnswerInv'
<1>1. \A c : Until(c) \subseteq Until(c)'
  BY DEF Until
<1> QED
  BY <1>1 DEF AnswerInv, AtCutoff, LatestOf

LEMMA ReadingsStep ==
    ASSUME ReadingsInv, [ReadingsNext]_readingVars
    PROVE  ReadingsInv'
<1> USE PeriodsOfReadings
<1> USE DEF ReadingsInv, RowsTyped
<1>1. ASSUME NEW t \in Syncs, NEW rows \in SUBSET Row, Fetch(t, rows) \/ FetchVintages(t, rows)
      PROVE  ReadingsInv'
  <2>1. RowsTyped' /\ answer' = answer /\ time' = time /\ archive' = archive
    BY <1>1 DEF Fetch, FetchVintages
  <2> QED
    BY <2>1, AnswerStays
<1>2. ASSUME NEW t \in Syncs, Commit(t) PROVE ReadingsInv'
  <2>1. sync[t] \in SUBSET Row
    BY <1>2 DEF Commit
  <2>2. RowsTyped' /\ answer' = answer /\ time' = time /\ archive \subseteq archive'
    BY <1>2, <2>1 DEF Commit
  <2> QED
    BY <2>2, AnswerStays
<1>3. ASSUME NEW t \in Syncs, Lose(t) PROVE ReadingsInv'
  <2>1. RowsTyped' /\ answer' = answer /\ time' = time /\ archive' = archive
    BY <1>3 DEF Lose
  <2> QED
    BY <2>1, AnswerStays
<1>4. CASE TimePasses
  <2>1. RowsTyped' /\ answer' = answer /\ time <= time' /\ archive' = archive
    BY <1>4 DEF TimePasses
  <2> QED
    BY <2>1, AnswerStays
<1>5. ASSUME NEW reader \in Readers, NEW cutoff \in 0..LastTime, ReadAt(reader, cutoff)
      PROVE  ReadingsInv'
  <2>1. PICK denied \in BOOLEAN : answer' = Answered(reader, cutoff, denied)
    BY <1>5 DEF ReadAt, Denied
  <2>2. cutoff <= time /\ UNCHANGED <<time, archive, sync, started, replayed>>
    BY <1>5 DEF ReadAt
  <2>3. /\ answer'.reader = reader /\ answer'.cutoff = cutoff /\ answer'.known = Until(cutoff)
        /\ answer'.shown = None \/ answer'.shown = Points(reader, cutoff)
    BY <2>1 DEF Answered
  <2>4. AnswerInv'
    <3>1. answer'.cutoff \in 0..time'
      BY <2>2, <2>3
    <3>2. (answer.known \subseteq Until(answer.cutoff))'
      BY <2>2, <2>3 DEF Until
    <3>3. answer'.shown # None => answer'.shown \subseteq Row
      BY <2>3, PointsAreRows
    <3>4. AtCutoff(answer)' => answer'.shown \subseteq LatestOf(answer'.known)
      BY <2>3, PointsAreRows DEF AtCutoff
    <3> QED
      BY <3>1, <3>2, <3>3, <3>4 DEF AnswerInv, AtCutoff, LatestOf
  <2> QED
    BY <2>2, <2>4
<1>6. CASE UNCHANGED readingVars
  <2>1. RowsTyped' /\ answer' = answer /\ time' = time /\ archive' = archive
    BY <1>6 DEF readingVars
  <2> QED
    BY <2>1, AnswerStays
<1> QED
  BY <1>1, <1>2, <1>3, <1>4, <1>5, <1>6 DEF ReadingsNext

LEMMA ReadingsInvariant == ReadingsSpec => []ReadingsInv
<1>1. ReadingsInit => ReadingsInv
  <2> SUFFICES ASSUME ReadingsInit PROVE ReadingsInv
    OBVIOUS
  <2>1. RowsTyped
    <3>1. time \in 0..LastTime
      BY PeriodsOfReadings DEF ReadingsInit
    <3>2. sync = [t \in Syncs |-> None] /\ archive = {} /\ started = {} /\ replayed = FALSE
      BY DEF ReadingsInit
    <3> QED
      BY <3>1, <3>2 DEF RowsTyped
  <2>2. AnswerInv
    BY DEF ReadingsInit, AnswerInv
  <2> QED
    BY <2>1, <2>2 DEF ReadingsInv
<1>2. ReadingsInv /\ [ReadingsNext]_readingVars => ReadingsInv'
  BY ReadingsStep
<1> QED
  BY <1>1, <1>2, PTL DEF ReadingsSpec

-----------------------------------------------------------------------------
(* Newest vintages and last periods *)

LEMMA LeastNatural ==
    ASSUME NEW T, T \subseteq Nat, T # {}
    PROVE  \E n \in T : \A k \in T : n <= k
<1> DEFINE less == {ss \in Nat \X Nat : ss[1] < ss[2]}
<1>1. \A k, n \in Nat : <<k, n>> \in less <=> k < n
  OBVIOUS
<1>2. IsWellFoundedOn(less, Nat)
  BY NatLessThanWellFounded DEF OpToRel
<1> HIDE DEF less
<1>3. PICK n \in T : \A k \in T : ~ (<<k, n>> \in less)
  BY <1>2, WFMin
<1>4. n \in Nat /\ \A k \in T : k \in Nat /\ ~ (k < n)
  BY <1>1, <1>3
<1> QED
  BY <1>4

\* What is known of a period at a cutoff has a newest vintage.
LEMMA NewestKnown ==
    ASSUME RowsTyped, NEW cutoff \in 0..time, NEW r \in Until(cutoff)
    PROVE  \E q \in LatestOf(Until(cutoff)) : q.period = r.period /\ q.vintage \in r.vintage..cutoff
<1> USE PeriodsOfReadings DEF RowsTyped
<1> DEFINE Known == {q \in Until(cutoff) : q.period = r.period}
           ages == {cutoff - q.vintage : q \in Known}
<1>1. \A q \in Until(cutoff) : q.period \in Periods /\ q.vintage \in Nat /\ q.vintage <= cutoff
  BY DEF Until, Row
<1>2. ages \subseteq Nat /\ ages # {}
  BY <1>1
<1>3. PICK n \in ages : \A k \in ages : n <= k
  BY <1>2, LeastNatural
<1>4. PICK q \in Known : n = cutoff - q.vintage
  BY <1>3
<1>5. \A w \in Known : w.vintage <= q.vintage
  <2> TAKE w \in Known
  <2>1. cutoff - q.vintage <= cutoff - w.vintage
    BY <1>3, <1>4
  <2> QED
    BY <1>1, <2>1
<1>6. q \in LatestOf(Until(cutoff))
  BY <1>4, <1>5 DEF LatestOf
<1>7. q.vintage \in r.vintage..cutoff
  BY <1>1, <1>4, <1>5
<1> QED
  BY <1>4, <1>6, <1>7

LEMMA OneLatest ==
    ASSUME NEW rows, rows \subseteq Row, NEW q \in LatestOf(rows), NEW w \in LatestOf(rows), q.period = w.period
    PROVE  q = w
<1>1. q \in Row /\ w \in Row /\ q.vintage <= w.vintage /\ w.vintage <= q.vintage
  BY DEF LatestOf
<1>2. q.vintage = w.vintage
  BY <1>1 DEF Row
<1> QED
  BY <1>1, <1>2 DEF Row

\* Of a window's worth of numbers, a window's worth are among the last.
Above(D, d) == {e \in D : e > d}
LastOf(D) == {d \in D : Cardinality(Above(D, d)) < Window}

LEMMA AboveShrinks ==
    ASSUME NEW D, D \subseteq Nat, NEW m \in D, NEW e \in Above(D, m)
    PROVE  e \in D /\ Above(D, e) \subseteq Above(D, m) /\ Above(D, e) # Above(D, m)
<1>1. e \in Nat /\ m \in Nat /\ e > m
  BY DEF Above
<1>2. ASSUME NEW d \in Above(D, e) PROVE d \in Above(D, m)
  BY <1>1, <1>2 DEF Above
<1>3. e \notin Above(D, e)
  BY <1>1 DEF Above
<1> QED
  BY <1>2, <1>3 DEF Above

LEMMA WindowIsFull ==
    ASSUME NEW D, IsFiniteSet(D), D \subseteq Nat, Cardinality(D) >= Window
    PROVE  Cardinality(LastOf(D)) >= Window
<1> USE PeriodsOfReadings
<1>1. \A S \in SUBSET D : IsFiniteSet(S) /\ Cardinality(S) \in Nat
  <2> TAKE S \in SUBSET D
  <2>1. IsFiniteSet(S)
    BY FS_Subset
  <2> QED
    BY <2>1, FS_CardinalityType
<1>2. LastOf(D) \in SUBSET D /\ \A d \in D : Above(D, d) \in SUBSET D
  BY DEF LastOf, Above
<1> SUFFICES ASSUME Cardinality(LastOf(D)) < Window PROVE FALSE
  BY <1>1, <1>2
<1> DEFINE Rest == D \ LastOf(D)
           sizes == {Cardinality(Above(D, d)) : d \in Rest}
<1>3. Rest # {}
  <2> SUFFICES ASSUME Rest = {} PROVE FALSE
    OBVIOUS
  <2>1. LastOf(D) = D
    BY <1>2
  <2> QED
    BY <1>1, <2>1
<1>4. sizes \subseteq Nat /\ sizes # {}
  BY <1>1, <1>2, <1>3
<1>5. PICK n \in sizes : \A k \in sizes : n <= k
  BY <1>4, LeastNatural
<1>6. PICK m \in Rest : n = Cardinality(Above(D, m))
  BY <1>5
<1>7. Above(D, m) \subseteq LastOf(D)
  <2> SUFFICES ASSUME NEW e \in Above(D, m), e \notin LastOf(D) PROVE FALSE
    OBVIOUS
  <2>1. e \in Rest /\ Above(D, e) \subseteq Above(D, m) /\ Above(D, e) # Above(D, m)
    BY AboveShrinks
  <2>2. IsFiniteSet(Above(D, m)) /\ Above(D, e) \in SUBSET Above(D, m)
    BY <1>1, <1>2, <2>1
  <2>3. Cardinality(Above(D, e)) <= Cardinality(Above(D, m)) /\ Cardinality(Above(D, e)) # Cardinality(Above(D, m))
    BY <2>1, <2>2, FS_Subset
  <2>4. n <= Cardinality(Above(D, e))
    BY <1>5, <2>1
  <2>5. Cardinality(Above(D, e)) \in Nat /\ Cardinality(Above(D, m)) \in Nat
    BY <1>1, <1>2, <2>1
  <2> QED
    BY <1>6, <2>3, <2>4, <2>5
<1>8. Cardinality(Above(D, m)) <= Cardinality(LastOf(D))
  <2>1. IsFiniteSet(LastOf(D)) /\ Above(D, m) \in SUBSET LastOf(D)
    BY <1>1, <1>2, <1>7
  <2> QED
    BY <2>1, FS_Subset
<1>9. Cardinality(Above(D, m)) < Window
  BY <1>1, <1>2, <1>8
<1> QED
  BY <1>6, <1>9 DEF LastOf

\* A windowed answer leaves a period out only for a window full of later ones.
LEMMA LeftOutForLater ==
    ASSUME NEW rows, rows \subseteq Row, NEW q \in LatestOf(rows), q \notin LastPeriods(LatestOf(rows))
    PROVE  Cardinality({w \in LastPeriods(LatestOf(rows)) : w.period > q.period}) >= Window
<1> USE PeriodsOfReadings
<1> DEFINE L == LatestOf(rows)
           Later(w) == {v.period : v \in {u \in L : u.period > w.period}}
           D == Later(q)
           Shown == {w \in LastPeriods(L) : w.period > q.period}
           PeriodOf == [w \in Shown |-> w.period]
<1>1. L \subseteq Row /\ \A w \in L : w.period \in Periods /\ w.period \in Nat
  BY DEF LatestOf, Row
<1>2. D \in SUBSET Periods /\ D \subseteq Nat
  BY <1>1
<1>3. \A S \in SUBSET Periods : IsFiniteSet(S) /\ Cardinality(S) \in Nat
  <2> TAKE S \in SUBSET Periods
  <2>1. IsFiniteSet(S)
    BY FS_Subset
  <2> QED
    BY <2>1, FS_CardinalityType
<1>4. Cardinality(D) >= Window
  <2>1. ~(Cardinality(D) < Window)
    BY DEF LastPeriods
  <2>2. Cardinality(D) \in Nat
    BY <1>2, <1>3
  <2> QED
    BY <2>1, <2>2
<1>5. Cardinality(LastOf(D)) >= Window
  BY <1>2, <1>3, <1>4, WindowIsFull
<1>6. ASSUME NEW w \in L, w.period > q.period
      PROVE  Later(w) = Above(D, w.period) /\ w.period \in D
  <2>1. \A u \in L : u.period > w.period => u.period > q.period
    BY <1>1, <1>6
  <2> QED
    BY <1>6, <2>1 DEF Above
<1>7. \A w \in Shown : w \in L /\ w.period \in LastOf(D)
  <2> TAKE w \in Shown
  <2>1. w \in L /\ w.period > q.period /\ Cardinality(Later(w)) < Window
    BY DEF LastPeriods
  <2> QED
    BY <1>6, <2>1 DEF LastOf
<1>8. \A d \in LastOf(D) : \E w \in Shown : w.period = d
  <2> TAKE d \in LastOf(D)
  <2>1. d \in D /\ Cardinality(Above(D, d)) < Window
    BY DEF LastOf
  <2>2. PICK w \in L : w.period > q.period /\ w.period = d
    BY <2>1
  <2>3. w \in LastPeriods(L)
    BY <1>6, <2>1, <2>2 DEF LastPeriods
  <2> QED
    BY <2>2, <2>3
<1>9. PeriodOf \in Bijection(Shown, LastOf(D))
  <2>1. \A v, w \in Shown : v.period = w.period => v = w
    BY <1>7, OneLatest
  <2> HIDE DEF Shown, D
  <2> QED
    BY <1>7, <1>8, <2>1 DEF Bijection, Injection, Surjection, IsInjective
<1>10. IsFiniteSet(Shown) /\ Cardinality(Shown) = Cardinality(LastOf(D))
  <2>1. IsFiniteSet(LastOf(D))
    <3>1. LastOf(D) \in SUBSET Periods
      BY <1>2 DEF LastOf
    <3> QED
      BY <1>3, <3>1
  <2> HIDE DEF Shown, D, PeriodOf
  <2> QED
    BY <1>9, <2>1, FS_Injection DEF Bijection
<1> QED
  BY <1>5, <1>10

\* Every variable of the readings keeps its type.
THEOREM ReadingTypes == ReadingsSpec => []ReadingsTypeOK
<1>1. ReadingsInv => ReadingsTypeOK
  BY DEF ReadingsInv, RowsTyped, AnswerInv, ReadingsTypeOK
<1> QED
  BY <1>1, ReadingsInvariant, PTL

\* Whatever is committed after an answer at a cutoff, an answer at that cutoff or
\* a later one has every period it had, at the same vintage if nothing older
\* than the cutoff was committed and at one as new otherwise, save a period that
\* a window full of later ones has pushed out.
THEOREM CutoffAnswersAgree == ReadingsSpec => []CutoffIsKept
<1> USE PeriodsOfReadings
<1>1. ASSUME ReadingsInv PROVE CutoffIsKept
  <2> USE <1>1 DEF ReadingsInv
  <2> SUFFICES ASSUME AtCutoff(answer), NEW b \in Answers, AtCutoff(b), answer.cutoff <= b.cutoff,
                      NEW r \in answer.shown
               PROVE  \/ \E q \in b.shown :
                            /\ q.period = r.period /\ q.vintage \in r.vintage..b.cutoff
                            /\ b.known = answer.known => q = r
                      \/ b.reader \in {"browser", "context"}
                         /\ Cardinality({q \in b.shown : q.period > r.period}) >= Window
    BY DEF CutoffIsKept
  <2> PICK reader \in Readers, cutoff \in 0..time : b = Answered(reader, cutoff, FALSE)
    BY DEF Answers
  <2>1. /\ b.reader = reader /\ b.cutoff = cutoff /\ b.known = Until(cutoff)
        /\ b.shown # None => b.shown = Points(reader, cutoff)
    BY DEF Answered
  <2>2. b.shown = Points(reader, cutoff) /\ reader # "first_release"
    BY <2>1 DEF AtCutoff
  <2>3. answer # None /\ answer.cutoff \in 0..time /\ r \in LatestOf(answer.known)
        /\ answer.known \subseteq Until(answer.cutoff)
    BY DEF AnswerInv, AtCutoff
  <2>4. Until(answer.cutoff) \subseteq Until(cutoff)
    <3>1. \A v \in archive : v.vintage \in Nat
      BY DEF RowsTyped, Row
    <3>2. answer.cutoff <= cutoff
      BY <2>1
    <3>3. answer.cutoff \in Nat /\ cutoff \in Nat
      BY <2>3
    <3> QED
      BY <3>1, <3>2, <3>3 DEF Until
  <2>5. r \in Until(cutoff)
    BY <2>3, <2>4 DEF LatestOf
  <2>6. PICK q \in LatestOf(Until(cutoff)) : q.period = r.period /\ q.vintage \in r.vintage..cutoff
    BY <2>5, NewestKnown
  <2>7. Until(cutoff) \subseteq Row
    BY DEF Until, RowsTyped
  <2>8. b.known = answer.known => q = r
    BY <2>1, <2>3, <2>6, <2>7, OneLatest
  <2>9. CASE q \in b.shown
    BY <2>1, <2>6, <2>8, <2>9
  <2>10. CASE q \notin b.shown
    <3>1. reader \in {"browser", "context"} /\ b.shown = LastPeriods(LatestOf(Until(cutoff)))
      BY <2>2, <2>6, <2>10 DEF Points
    <3>2. Cardinality({w \in b.shown : w.period > q.period}) >= Window
      BY <2>7, <2>10, <3>1, LeftOutForLater
    <3> QED
      BY <2>1, <2>6, <3>1, <3>2
  <2> QED
    BY <2>9, <2>10
<1> QED
  BY <1>1, ReadingsInvariant, PTL

-----------------------------------------------------------------------------
(* Browser: sets of numbers, and places *)

\* A finite set of numbers has a largest.
LEMMA LargestNumber ==
    ASSUME NEW D, IsFiniteSet(D), D \subseteq Nat, D # {}
    PROVE  \E m \in D : \A d \in D : d <= m
<1> DEFINE counts == {Cardinality(Above(D, d)) : d \in D}
<1>1. \A d \in D : IsFiniteSet(Above(D, d)) /\ Cardinality(Above(D, d)) \in Nat
  <2> TAKE d \in D
  <2>1. Above(D, d) \in SUBSET D
    BY DEF Above
  <2>2. IsFiniteSet(Above(D, d))
    BY <2>1, FS_Subset
  <2> QED
    BY <2>2, FS_CardinalityType
<1>2. counts \subseteq Nat /\ counts # {}
  BY <1>1
<1>3. PICK n \in counts : \A k \in counts : n <= k
  BY <1>2, LeastNatural
<1>4. PICK m \in D : n = Cardinality(Above(D, m))
  BY <1>3
<1>5. ASSUME NEW e \in Above(D, m) PROVE FALSE
  <2>1. e \in D /\ Above(D, e) \in SUBSET Above(D, m) /\ Above(D, e) # Above(D, m)
    BY AboveShrinks
  <2>2. /\ Cardinality(Above(D, e)) <= Cardinality(Above(D, m))
        /\ Cardinality(Above(D, e)) # Cardinality(Above(D, m))
    BY <1>1, <2>1, FS_Subset
  <2> QED
    BY <1>1, <1>3, <1>4, <2>1, <2>2
<1>6. \A d \in D : d <= m
  BY <1>5 DEF Above
<1> QED
  BY <1>6

LEMMA LargestIs ==
    ASSUME NEW D, IsFiniteSet(D), D \subseteq Nat
    PROVE  /\ D = {} => Largest(D) = None
           /\ D # {} => Largest(D) \in D /\ Largest(D) = Max(D) /\ \A d \in D : d <= Largest(D)
           /\ \A m \in D : (\A d \in D : d <= m) => Largest(D) = m /\ Max(D) = m
<1>1. CASE D = {}
  BY <1>1 DEF Largest
<1>2. CASE D # {}
  <2>1. PICK m \in D : \A d \in D : d <= m
    BY <1>2, LargestNumber
  <2>2. Max(D) \in D /\ \A d \in D : Max(D) >= d
    BY <2>1 DEF Max
  <2>3. Largest(D) = Max(D)
    BY <1>2 DEF Largest
  <2>4. ASSUME NEW n \in D, \A d \in D : d <= n PROVE n = Max(D)
    <3>1. Max(D) \in Nat /\ n \in Nat /\ Max(D) <= n /\ n <= Max(D)
      BY <2>2, <2>4
    <3> QED
      BY <3>1
  <2> QED
    BY <1>2, <2>2, <2>3, <2>4
<1> QED
  BY <1>1, <1>2

\* What is ordered has one of each place.
Strict(S, R) ==
    /\ R \subseteq S \X S
    /\ \A s \in S : <<s, s>> \notin R
    /\ \A s, t, u \in S : <<s, t>> \in R /\ <<t, u>> \in R => <<s, u>> \in R
    /\ \A s, t \in S : s # t => <<s, t>> \in R \/ <<t, s>> \in R
Rank(S, R, s) == Cardinality({t \in S : <<t, s>> \in R}) + 1

LEMMA RankGrows ==
    ASSUME NEW S, IsFiniteSet(S), NEW R, Strict(S, R), NEW s \in S, NEW t \in S
    PROVE  /\ Rank(S, R, s) \in 1..Cardinality(S)
           /\ <<s, t>> \in R <=> Rank(S, R, s) < Rank(S, R, t)
<1> DEFINE Below(u) == {w \in S : <<w, u>> \in R}
<1>1. \A u \in S : /\ Below(u) \in SUBSET S /\ IsFiniteSet(Below(u)) /\ Cardinality(Below(u)) \in Nat
                   /\ Cardinality(Below(u)) < Cardinality(S)
  <2> TAKE u \in S
  <2>1. Below(u) \in SUBSET S /\ u \notin Below(u)
    BY DEF Strict
  <2>2. IsFiniteSet(Below(u)) /\ Cardinality(Below(u)) <= Cardinality(S) /\ Cardinality(Below(u)) # Cardinality(S)
    BY <2>1, FS_Subset
  <2>3. Cardinality(Below(u)) \in Nat /\ Cardinality(S) \in Nat
    BY <2>2, FS_CardinalityType
  <2> QED
    BY <2>1, <2>2, <2>3
<1>2. ASSUME NEW u \in S, NEW w \in S, <<u, w>> \in R PROVE Cardinality(Below(u)) < Cardinality(Below(w))
  <2> HIDE DEF Below
  <2>1. Below(u) \in SUBSET Below(w) /\ u \in Below(w) /\ u \notin Below(u)
    BY <1>2 DEF Strict, Below
  <2>2. Cardinality(Below(u)) <= Cardinality(Below(w)) /\ Cardinality(Below(u)) # Cardinality(Below(w))
    BY <1>1, <2>1, FS_Subset
  <2> QED
    BY <1>1, <2>2
<1>3. \A u \in S : Rank(S, R, u) = Cardinality(Below(u)) + 1
  BY DEF Rank
<1>4. Cardinality(S) \in Nat
  BY FS_CardinalityType
<1>5. s = t \/ <<s, t>> \in R \/ <<t, s>> \in R
  BY DEF Strict
<1> HIDE DEF Below
<1>6. <<s, t>> \in R => Cardinality(Below(s)) < Cardinality(Below(t))
  BY <1>2
<1>7. <<t, s>> \in R => Cardinality(Below(t)) < Cardinality(Below(s))
  BY <1>2
<1>8. <<s, s>> \notin R
  BY DEF Strict
<1> QED
  BY <1>1, <1>3, <1>4, <1>5, <1>6, <1>7, <1>8

LEMMA EveryRank ==
    ASSUME NEW S, IsFiniteSet(S), NEW R, Strict(S, R), NEW i \in 1..Cardinality(S)
    PROVE  \E s \in S : Rank(S, R, s) = i
<1> DEFINE ranks == [s \in S |-> Rank(S, R, s)]
           all == 1..Cardinality(S)
<1>1. ranks \in [S -> all]
  BY RankGrows
<1>3. Cardinality(S) \in Nat
  BY FS_CardinalityType
<1>2. \A s, t \in S : ranks[s] = ranks[t] => s = t
  <2> TAKE s, t \in S
  <2>1. s # t => <<s, t>> \in R \/ <<t, s>> \in R
    BY DEF Strict
  <2>2. Rank(S, R, s) \in Nat /\ Rank(S, R, t) \in Nat
    BY <1>1, <1>3
  <2>3. /\ <<s, t>> \in R => Rank(S, R, s) < Rank(S, R, t)
        /\ <<t, s>> \in R => Rank(S, R, t) < Rank(S, R, s)
    BY RankGrows
  <2> QED
    BY <2>1, <2>2, <2>3
<1>4. IsFiniteSet(all) /\ Cardinality(all) = Cardinality(S)
  BY <1>3, FS_Interval
<1> HIDE DEF ranks, all
<1>5. ranks \in Injection(S, all)
  BY <1>1, <1>2, Fun_IsInj
<1>6. ranks \in Surjection(S, all)
  BY <1>4, <1>5, FS_Injection
<1>7. \A k \in all : \E s \in S : ranks[s] = k
  BY <1>6, Fun_SurjectionProperties
<1> QED
  BY <1>7 DEF ranks, all

-----------------------------------------------------------------------------
(* Browser: the metric of the rows kept for the order *)

PointRows(rows) ==
    /\ DOMAIN rows \subseteq Nat /\ IsFiniteSet(DOMAIN rows)
    /\ rows \in [DOMAIN rows -> PointValues \cup {None}]

LEMMA LargestKept ==
    ASSUME NEW D, IsFiniteSet(D), D \subseteq Nat, NEW E \in SUBSET D, Largest(D) \in E
    PROVE  Largest(E) = Largest(D)
<1>1. IsFiniteSet(E) /\ E \subseteq Nat
  BY FS_Subset
<1>2. \A e \in E : e <= Largest(D)
  BY LargestIs
<1> QED
  BY <1>1, <1>2, LargestIs

LEMMA PercentIsInt ==
    ASSUME NEW v \in Int, NEW b \in Int, b # 0
    PROVE  Percent(v, b) \in Int
  BY DEF Percent

LEMMA GrowthOf ==
    ASSUME NEW rows, PointRows(rows), DOMAIN rows # {}, NEW base \in DOMAIN rows \cup {None}
    PROVE  /\ Growth(rows, base) \in Int \cup {None}
           /\ Growth(rows, base) # None =>
                 /\ base \in DOMAIN rows /\ rows[base] # None /\ rows[base] # 0 /\ rows[Max(DOMAIN rows)] # None
                 /\ Growth(rows, base) = Percent(rows[Max(DOMAIN rows)], rows[base]) - 100
<1> DEFINE last == Max(DOMAIN rows)
<1>1. last \in DOMAIN rows
  BY LargestIs DEF PointRows
<1>2. \A p \in DOMAIN rows : rows[p] \in Int \cup {None}
  BY PointsAssumption DEF PointRows
<1>3. CASE base = None \/ rows[last] = None
  BY <1>3 DEF Growth
<1>4. CASE ~(base = None \/ rows[last] = None)
  <2>1. base \in DOMAIN rows /\ rows[base] \in Int \cup {None} /\ rows[last] \in Int
    BY <1>1, <1>2, <1>4
  <2>2. CASE rows[base] \in {None, 0}
    BY <1>4, <2>2 DEF Growth
  <2>3. CASE rows[base] \notin {None, 0}
    <3>1. Growth(rows, base) = Percent(rows[last], rows[base]) - 100
      BY <1>4, <2>3 DEF Growth
    <3>2. Percent(rows[last], rows[base]) \in Int
      BY <2>1, <2>3, PercentIsInt
    <3> QED
      BY <1>4, <2>1, <2>3, <3>1, <3>2
  <2> QED
    BY <2>2, <2>3
<1> QED
  BY <1>3, <1>4

\* What the last row is compared with.
Bases(rows, frequency, metric) ==
    LET last == Max(DOMAIN rows) IN
    IF metric = "yoy" THEN {q \in DOMAIN rows : q <= last - 2 /\ q >= (last - 2) - (IF frequency = "weekly" THEN 1 ELSE 0)}
    ELSE IF frequency = "weekly" THEN {q \in DOMAIN rows : q < last}
    ELSE {q \in DOMAIN rows : q <= last - 1 /\ q >= (last - 1) - 0}

LEMMA MetricIsGrowth ==
    ASSUME NEW rows, PointRows(rows), DOMAIN rows # {}, NEW frequency, NEW metric \in {"period_change", "yoy"}
    PROVE  /\ Metric(rows, frequency, metric) = Growth(rows, Largest(Bases(rows, frequency, metric)))
           /\ Bases(rows, frequency, metric) \in SUBSET DOMAIN rows
           /\ Largest(Bases(rows, frequency, metric)) \in DOMAIN rows \cup {None}
<1> DEFINE bases == Bases(rows, frequency, metric)
<1>1. bases \in SUBSET DOMAIN rows
  BY DEF Bases
<1>2. IsFiniteSet(bases) /\ bases \subseteq Nat
  BY <1>1, FS_Subset DEF PointRows
<1>3. Largest(bases) \in DOMAIN rows \cup {None}
  BY <1>1, <1>2, LargestIs
<1>4. metric = "yoy" => Metric(rows, frequency, metric) = Growth(rows, Lagged(rows, Max(DOMAIN rows), frequency, 2))
  BY DEF Metric
<1>5. metric = "yoy" => Lagged(rows, Max(DOMAIN rows), frequency, 2) = Largest(bases)
  BY DEF Lagged, Bases
<1>6. metric = "period_change" =>
        Metric(rows, frequency, metric)
            = Growth(rows, IF frequency = "weekly" THEN Neighbour(rows, Max(DOMAIN rows))
                           ELSE Lagged(rows, Max(DOMAIN rows), frequency, 1))
  BY DEF Metric
<1>7. metric = "period_change" /\ frequency = "weekly" => Neighbour(rows, Max(DOMAIN rows)) = Largest(bases)
  BY DEF Neighbour, Bases
<1>8. metric = "period_change" /\ frequency # "weekly" =>
        Lagged(rows, Max(DOMAIN rows), frequency, 1) = Largest(bases)
  BY DEF Lagged, Bases
<1> HIDE DEF bases
<1>9. Metric(rows, frequency, metric) = Growth(rows, Largest(bases))
  BY <1>4, <1>5, <1>6, <1>7, <1>8
<1> QED
  BY <1>1, <1>3, <1>9 DEF bases

LEMMA ValuedOf ==
    ASSUME NEW rows, PointRows(rows)
    PROVE  /\ Valued(rows) \in SUBSET DOMAIN rows /\ IsFiniteSet(Valued(rows)) /\ Valued(rows) \subseteq Nat
           /\ \A p \in Valued(rows) : rows[p] \in Int /\ rows[p] # None
           /\ \A x : Valued(rows) \ {x} \in SUBSET Valued(rows) /\ IsFiniteSet(Valued(rows) \ {x})
<1>1. Valued(rows) \in SUBSET DOMAIN rows
  BY DEF Valued
<1>2. IsFiniteSet(Valued(rows)) /\ Valued(rows) \subseteq Nat
  BY <1>1, FS_Subset DEF PointRows
<1>3. \A p \in Valued(rows) : rows[p] \in Int /\ rows[p] # None
  BY PointsAssumption DEF Valued, PointRows
<1>4. \A x : Valued(rows) \ {x} \in SUBSET Valued(rows)
  OBVIOUS
<1>5. \A x : IsFiniteSet(Valued(rows) \ {x})
  BY <1>2, <1>4, FS_Subset
<1> QED
  BY <1>1, <1>2, <1>3, <1>4, <1>5

LEMMA MetricType ==
    ASSUME NEW rows, PointRows(rows), NEW frequency, NEW metric \in Metrics
    PROVE  Metric(rows, frequency, metric) \in Int \cup {None}
<1> DEFINE V == Valued(rows)
           current == Largest(V)
           previous == Largest(V \ {current})
<1>1. CASE DOMAIN rows = {}
  BY <1>1 DEF Metric
<1>2. CASE DOMAIN rows # {} /\ metric \in {"period_change", "yoy"}
  BY <1>2, MetricIsGrowth, GrowthOf
<1>3. V \subseteq Nat /\ IsFiniteSet(V) /\ V \ {current} \subseteq V /\ IsFiniteSet(V \ {current})
  BY ValuedOf
<1>4. \A p \in V : rows[p] \in Int
  BY ValuedOf
<1>5. current \in V \cup {None}
  BY <1>3, LargestIs
<1>6. previous \in V \cup {None}
  <2>1. V \ {current} \subseteq Nat
    BY <1>3
  <2> QED
    BY <1>3, <2>1, LargestIs
<1>7. CASE DOMAIN rows # {} /\ metric = "current_period"
  <2>1. Metric(rows, frequency, metric) = current
    BY <1>7 DEF Metric
  <2> QED
    BY <1>3, <1>5, <2>1
<1>8. CASE DOMAIN rows # {} /\ metric = "current"
  <2>1. Metric(rows, frequency, metric) = IF current = None THEN None ELSE rows[current]
    BY <1>8 DEF Metric
  <2> QED
    BY <1>4, <1>5, <2>1
<1>9. CASE DOMAIN rows # {} /\ metric = "change"
  <2>1. Metric(rows, frequency, metric) = IF previous = None THEN None ELSE rows[current] - rows[previous]
    BY <1>9 DEF Metric
  <2>2. CASE previous = None
    BY <2>1, <2>2
  <2>3. CASE previous # None
    <3>1. previous \in V /\ V # {}
      BY <1>6, <2>3
    <3>2. current \in V
      BY <1>3, <3>1, LargestIs
    <3> QED
      BY <1>4, <2>1, <2>3, <3>1, <3>2
  <2> QED
    BY <2>2, <2>3
<1> QED
  BY <1>1, <1>2, <1>7, <1>8, <1>9 DEF Metrics

LEMMA SortRowsOf ==
    ASSUME NEW c, PointRows(c.points)
    PROVE  /\ DOMAIN SortRows(c) \in SUBSET Valued(c.points) /\ PointRows(SortRows(c))
           /\ \A p \in DOMAIN SortRows(c) : SortRows(c)[p] = c.points[p]
           /\ Valued(SortRows(c)) = DOMAIN SortRows(c)
           /\ \A p \in Valued(c.points) : \A x :
                 Above(Valued(c.points), p) \subseteq {x} => p \in DOMAIN SortRows(c)
           /\ \A p \in Valued(c.points) :
                 LET last == Max(Valued(c.points)) IN
                 p \in (IF c.frequency = "weekly" THEN {last - 2, last - 3} ELSE {last - 1, last - 2})
                    => p \in DOMAIN SortRows(c)
<1> DEFINE V == Valued(c.points)
           W == SortRows(c)
           last == Max(V)
           compared == IF c.frequency = "weekly" THEN {last - 2, last - 3} ELSE {last - 1, last - 2}
           kept == {p \in V : Cardinality(Above(V, p)) < 2 \/ p \in compared}
<1>1. W = [p \in kept |-> c.points[p]]
  BY DEF SortRows, Restrict, Above
<1>2. /\ V \in SUBSET DOMAIN c.points /\ IsFiniteSet(V) /\ V \subseteq Nat
      /\ \A p \in V : c.points[p] \in Int /\ c.points[p] # None
  BY ValuedOf
<1>3. \A p \in V : \A x : Above(V, p) \subseteq {x} => Cardinality(Above(V, p)) < 2
  <2> SUFFICES ASSUME NEW p \in V, NEW x, Above(V, p) \subseteq {x} PROVE Cardinality(Above(V, p)) < 2
    OBVIOUS
  <2>1. IsFiniteSet({x}) /\ Cardinality({x}) = 1
    BY FS_Singleton
  <2>2. IsFiniteSet(Above(V, p)) /\ Cardinality(Above(V, p)) <= 1
    BY <2>1, FS_Subset
  <2>3. Cardinality(Above(V, p)) \in Nat
    BY <2>2, FS_CardinalityType
  <2> QED
    BY <2>2, <2>3
<1> HIDE DEF V, W
<1>4. kept \in SUBSET V /\ IsFiniteSet(kept)
  BY <1>2, FS_Subset
<1>5. DOMAIN W = kept /\ \A p \in kept : W[p] = c.points[p]
  BY <1>1
<1>6. PointRows(W)
  BY <1>1, <1>2, <1>4 DEF PointRows
<1>7. Valued(W) = DOMAIN W
  BY <1>2, <1>4, <1>5 DEF Valued
<1>8. \A p \in V : \A x : Above(V, p) \subseteq {x} => p \in kept
  BY <1>3
<1>9. \A p \in V : p \in compared => p \in kept
  OBVIOUS
<1> QED
  BY <1>4, <1>5, <1>6, <1>7, <1>8, <1>9 DEF V, W

\* What the order is made of a series by is the metric it shows, if it shows one
\* (_sort_points_by_source against build_browser_item): the rows left out are
\* neither the last two with a value nor the one the last is compared with.
THEOREM SortKeyIsMetric ==
    ASSUME NEW c, PointRows(c.points), NEW metric \in Metrics,
           Metric(c.points, c.frequency, metric) # None
    PROVE  Metric(SortRows(c), c.frequency, metric) = Metric(c.points, c.frequency, metric)
<1> DEFINE rows == c.points
           V == Valued(rows)
           W == SortRows(c)
           current == Largest(V)
           previous == Largest(V \ {current})
<1>1. /\ DOMAIN W \in SUBSET V /\ PointRows(W) /\ Valued(W) = DOMAIN W
      /\ \A p \in DOMAIN W : W[p] = rows[p]
      /\ \A p \in V : \A x : Above(V, p) \subseteq {x} => p \in DOMAIN W
  BY SortRowsOf
<1>2. /\ V \in SUBSET DOMAIN rows /\ IsFiniteSet(V) /\ V \subseteq Nat
      /\ \A p \in V : rows[p] \in Int /\ rows[p] # None
      /\ V \ {current} \in SUBSET V /\ IsFiniteSet(V \ {current}) /\ V \ {current} \subseteq Nat
  BY ValuedOf
<1>3. \A p \in V : \A q \in V : q > p => ~(q <= p)
  BY <1>2
<1>4. V # {} => current \in V /\ current = Max(V) /\ current \in DOMAIN W
  <2> SUFFICES ASSUME V # {} PROVE current \in V /\ current = Max(V) /\ current \in DOMAIN W
    OBVIOUS
  <2>1. current \in V /\ current = Max(V) /\ \A p \in V : p <= current
    BY <1>2, LargestIs
  <2>2. Above(V, current) \subseteq {current}
    BY <1>3, <2>1 DEF Above
  <2> QED
    BY <1>1, <2>1, <2>2
<1>5. V # {} => Largest(DOMAIN W) = current /\ Max(DOMAIN W) = current /\ DOMAIN W # {}
  <2>1. V # {} => Largest(DOMAIN W) = current
    BY <1>1, <1>2, <1>4, LargestKept
  <2>2. DOMAIN W # {} => Largest(DOMAIN W) = Max(DOMAIN W)
    BY <1>1, LargestIs DEF PointRows
  <2> QED
    BY <1>4, <2>1, <2>2
<1>6. V \ {current} # {} => previous \in DOMAIN W \ {current} /\ Largest(DOMAIN W \ {current}) = previous
  <2> SUFFICES ASSUME V \ {current} # {}
               PROVE  previous \in DOMAIN W \ {current} /\ Largest(DOMAIN W \ {current}) = previous
    OBVIOUS
  <2>1. previous \in V \ {current} /\ \A p \in V \ {current} : p <= previous
    BY <1>2, LargestIs
  <2>2. Above(V, previous) \subseteq {current}
    BY <1>3, <2>1 DEF Above
  <2>3. previous \in DOMAIN W \ {current}
    BY <1>1, <2>1, <2>2
  <2> QED
    BY <1>1, <1>2, <2>3, LargestKept
<1>7. V \ {current} = {} => DOMAIN W \ {current} = {}
  BY <1>1
<1>8. DOMAIN rows # {}
  BY DEF Metric
<1>9. CASE metric = "current_period"
  <2>1. Metric(rows, c.frequency, metric) = current
    BY <1>8, <1>9 DEF Metric
  <2>2. V # {}
    BY <1>2, <2>1, LargestIs
  <2>3. Metric(W, c.frequency, metric) = Largest(DOMAIN W)
    BY <1>1, <1>5, <1>9, <2>2 DEF Metric
  <2> QED
    BY <1>5, <2>1, <2>2, <2>3
<1>10. CASE metric = "current"
  <2>1. Metric(rows, c.frequency, metric) = IF current = None THEN None ELSE rows[current]
    BY <1>8, <1>10 DEF Metric
  <2>2. V # {}
    BY <1>2, <2>1, LargestIs
  <2>3. Metric(W, c.frequency, metric) = IF current = None THEN None ELSE W[current]
    BY <1>1, <1>5, <1>10, <2>2 DEF Metric
  <2> QED
    BY <1>1, <1>4, <2>1, <2>2, <2>3
<1>11. CASE metric = "change"
  <2>1. Metric(rows, c.frequency, metric) = IF previous = None THEN None ELSE rows[current] - rows[previous]
    BY <1>8, <1>11 DEF Metric
  <2>2. V \ {current} # {} /\ V # {}
    BY <1>2, <2>1, LargestIs
  <2>3. Metric(W, c.frequency, metric) = IF previous = None THEN None ELSE W[current] - W[previous]
    BY <1>1, <1>5, <1>6, <1>11, <2>2 DEF Metric
  <2> QED
    BY <1>1, <1>4, <1>6, <2>1, <2>2, <2>3
<1>12. CASE metric \in {"period_change", "yoy"}
  <2> DEFINE bases == Bases(rows, c.frequency, metric)
             kept == Bases(W, c.frequency, metric)
             base == Largest(bases)
             last == Max(DOMAIN rows)
  <2>1. Metric(rows, c.frequency, metric) = Growth(rows, base) /\ base \in DOMAIN rows \cup {None} /\ bases \in SUBSET DOMAIN rows
    BY <1>8, <1>12, MetricIsGrowth
  <2>2. /\ base \in DOMAIN rows /\ rows[base] # None /\ rows[last] # None
        /\ Growth(rows, base) = Percent(rows[last], rows[base]) - 100
    BY <1>8, <2>1, GrowthOf
  <2>3. last \in DOMAIN rows /\ \A p \in DOMAIN rows : p <= last
    BY <1>8, LargestIs DEF PointRows
  <2>4. base \in V /\ last \in V
    BY <2>2, <2>3 DEF Valued
  <2>5. last = current /\ last = Max(DOMAIN W) /\ last = Max(V)
    BY <1>2, <1>4, <1>5, <2>3, <2>4, LargestIs
  <2>6. base \in bases
    <3>1. IsFiniteSet(bases) /\ bases \subseteq Nat
      BY <2>1, FS_Subset DEF PointRows
    <3>2. base \notin {None}
      BY <2>2, PointsAssumption DEF PointRows
    <3> QED
      BY <3>1, <3>2, LargestIs
  <2>7. base \in DOMAIN W
    <3>1. CASE metric = "period_change" /\ c.frequency = "weekly"
      <4>1. \A p \in V : p < last => p <= base
        <5>1. \A p \in bases : p <= base
          <6>1. IsFiniteSet(bases) /\ bases \subseteq Nat
            BY <2>1, FS_Subset DEF PointRows
          <6> QED
            BY <2>6, <6>1, LargestIs
        <5>2. bases = {q \in DOMAIN rows : q < last}
          BY <3>1 DEF Bases
        <5> QED
          BY <1>2, <5>1, <5>2
      <4>2. \A p \in V : p # last => p < last
        BY <1>2, <2>3, <2>4
      <4>3. Above(V, base) \subseteq {last}
        BY <1>3, <2>4, <4>1, <4>2 DEF Above
      <4> QED
        BY <1>1, <2>4, <4>3
    <3>2. CASE ~(metric = "period_change" /\ c.frequency = "weekly")
      <4>1. base \in (IF c.frequency = "weekly" THEN {last - 2, last - 3} ELSE {last - 1, last - 2})
        <5>1. base \in Nat /\ last \in Nat
          BY <1>2, <2>4
        <5>2. CASE metric = "yoy" /\ c.frequency = "weekly"
          <6>1. base <= last - 2 /\ base >= (last - 2) - 1
            BY <2>6, <5>2 DEF Bases
          <6> QED
            BY <5>1, <5>2, <6>1
        <5>3. CASE metric = "yoy" /\ c.frequency # "weekly"
          <6>1. base <= last - 2 /\ base >= (last - 2) - 0
            BY <2>6, <5>3 DEF Bases
          <6> QED
            BY <5>1, <5>3, <6>1
        <5>4. CASE metric # "yoy" /\ c.frequency # "weekly"
          <6>1. base <= last - 1 /\ base >= (last - 1) - 0
            BY <2>6, <5>4 DEF Bases
          <6> QED
            BY <5>1, <5>4, <6>1
        <5> QED
          BY <1>12, <3>2, <5>2, <5>3, <5>4
      <4> QED
        BY <2>4, <2>5, <4>1, SortRowsOf
    <3> QED
      BY <3>1, <3>2
  <2>8. Largest(kept) = base
    <3>1. kept = {q \in bases : q \in DOMAIN W}
      BY <1>1, <1>2, <2>5 DEF Bases
    <3>2. IsFiniteSet(bases) /\ bases \subseteq Nat
      BY <2>1, FS_Subset DEF PointRows
    <3> QED
      BY <2>6, <2>7, <3>1, <3>2, LargestKept
  <2>9. Metric(W, c.frequency, metric) = Growth(W, base)
    BY <1>1, <1>12, <2>7, <2>8, MetricIsGrowth
  <2>10. last \in DOMAIN W /\ W[last] = rows[last] /\ W[base] = rows[base]
    BY <1>1, <1>4, <2>4, <2>5, <2>7
  <2>11. Growth(rows, base) = Growth(W, base)
    BY <2>5, <2>10 DEF Growth
  <2> QED
    BY <2>1, <2>9, <2>11
<1> QED
  BY <1>9, <1>10, <1>11, <1>12 DEF Metrics

-----------------------------------------------------------------------------
(* Browser: the order, and the answer *)

LEMMA KeyType ==
    ASSUME NEW c, PointRows(c.points), NEW q, q.sort \in Metrics
    PROVE  SortKey(c, q) \in Int \cup {None}
<1>1. PointRows(SortRows(c))
  BY SortRowsOf
<1> QED
  BY <1>1, MetricType DEF SortKey, MetricOf

Order(of, q) == {pair \in Hits(of, q) \X Hits(of, q) : Leads(of, q, pair[1], pair[2])}

LEMMA OrderIsStrict ==
    ASSUME NEW of, NEW q, \A s \in Hits(of, q) : PointRows(of[s].points),
           q.sort \in Metrics \cup {"place"}
    PROVE  Strict(Hits(of, q), Order(of, q))
<1> DEFINE set == Hits(of, q)
           key == [s \in set |-> SortKey(of[s], q)]
           R == Order(of, q)
<1>1. \A s, t \in set : <<s, t>> \in R <=> Precedes(q, s, t, key[s], key[t])
  BY DEF Order, Leads
<1>2. R \subseteq set \X set
  BY DEF Order
<1>3. q.sort # "place" => \A s \in set : key[s] \in Int \cup {None}
  BY KeyType
<1>4. \A s \in set : s \in Nat
  BY ListedAssumption DEF Hits, Matched
<1> HIDE DEF key, R, set
<1> SUFFICES Strict(set, R)
  BY DEF R, set
<1>5. CASE q.sort = "place"
  <2>1. \A s, t \in set : <<s, t>> \in R <=> Sooner(q, s, t)
    BY <1>1, <1>5, Zenon DEF Precedes
  <2> QED
    BY <1>2, <1>4, <2>1 DEF Strict, Sooner
<1>6. CASE q.sort # "place"
  <2>1. \A s, t \in set : <<s, t>> \in R <=>
            \/ key[s] # None /\ key[t] = None
            \/ key[s] # None /\ key[t] # None /\ Sooner(q, key[s], key[t])
            \/ key[s] = key[t] /\ s < t
    BY <1>1, <1>6, Zenon DEF Precedes
  <2>2. None \notin Int /\ \A s \in set : key[s] \in Int \cup {None}
    BY <1>3, <1>6, PointsAssumption
  <2> QED
    BY <1>2, <1>4, <2>1, <2>2 DEF Strict, Sooner
<1> QED
  BY <1>5, <1>6

LEMMA PageOf ==
    ASSUME NEW of, NEW q, \A s \in Hits(of, q) : PointRows(of[s].points),
           q.sort \in Metrics \cup {"place"}, q.limit \in Nat
    PROVE  LET page == Page(of, q) IN
           /\ page = [i \in DOMAIN page |-> page[i]] /\ DOMAIN page \subseteq Nat
           /\ \A i \in DOMAIN page : page[i] \in Hits(of, q)
           /\ \A i, j \in DOMAIN page : i < j => Leads(of, q, page[i], page[j])
<1> DEFINE page == Page(of, q)
           set == Hits(of, q)
           n == Cardinality(set)
<1>1. IsFiniteSet(set) /\ n \in Nat
  <2>1. set \in SUBSET Listed
    BY DEF Hits, Matched
  <2>2. IsFiniteSet(set)
    BY <2>1, ListedAssumption, FS_Subset
  <2> QED
    BY <2>2, FS_CardinalityType
<1>2. Strict(set, Order(of, q))
  BY OrderIsStrict
<1>3. \A s \in set : Place(of, q, s) = Rank(set, Order(of, q), s)
  <2> TAKE s \in set
  <2>1. {t \in set : Leads(of, q, t, s)} = {t \in set : <<t, s>> \in Order(of, q)}
    BY DEF Order
  <2> QED
    BY <2>1 DEF Place, Rank
<1>4. Min({q.limit, n}) \in Nat /\ Min({q.limit, n}) <= n
  <2>1. PICK m \in {q.limit, n} : \A k \in {q.limit, n} : m <= k
    BY <1>1
  <2>2. Min({q.limit, n}) \in {q.limit, n} /\ \A k \in {q.limit, n} : Min({q.limit, n}) <= k
    BY <2>1 DEF Min
  <2> QED
    BY <1>1, <2>2
<1>5. DOMAIN page \subseteq 1..n /\ page = [i \in DOMAIN page |-> page[i]]
  BY <1>1, <1>4 DEF Page
<1>6. \A i \in DOMAIN page : page[i] \in set /\ Rank(set, Order(of, q), page[i]) = i
  <2> TAKE i \in DOMAIN page
  <2>1. \E s \in set : Place(of, q, s) = i
    BY <1>1, <1>2, <1>3, <1>5, EveryRank
  <2>2. page[i] = CHOOSE s \in set : Place(of, q, s) = i
    BY DEF Page
  <2>3. page[i] \in set /\ Place(of, q, page[i]) = i
    BY <2>1, <2>2
  <2> QED
    BY <1>3, <2>3
<1>7. ASSUME NEW i \in DOMAIN page, NEW j \in DOMAIN page, i < j PROVE Leads(of, q, page[i], page[j])
  <2>1. <<page[i], page[j]>> \in Order(of, q)
    BY <1>1, <1>2, <1>6, <1>7, RankGrows
  <2> QED
    BY <2>1 DEF Order
<1> QED
  BY <1>1, <1>5, <1>6, <1>7

\* What is asked is well formed, and an answer is the page and the counts of it.
BrowserInv ==
    /\ catalog = [s \in Listed |-> catalog[s]] /\ \A s \in Listed : CatalogRow(catalog[s])
    /\ BrowserRequest(query)
    /\ shown # None =>
          /\ shown.facets = [facet \in Facets |-> Counts(catalog, query, facet)]
          /\ shown.items = Items(catalog, query)

LEMMA BrowserInvariant == BrowserSpec => []BrowserInv
<1>1. BrowserInit => BrowserInv
  BY CasesAssumption DEF BrowserInit, BrowserInv
<1>2. ASSUME BrowserInv, [BrowserNext]_browserVars PROVE BrowserInv'
  <2>1. CASE Browse
    BY <1>2, <2>1 DEF Browse, BrowserInv
  <2>2. CASE UNCHANGED browserVars
    BY <1>2, <2>2 DEF browserVars, BrowserInv
  <2> QED
    BY <1>2, <2>1, <2>2 DEF BrowserNext
<1> QED
  BY <1>1, <1>2, PTL DEF BrowserSpec

\* The page of an answer.
LEMMA PageShown ==
    ASSUME BrowserInv, shown # None
    PROVE  LET page == Page(catalog, query) IN
           /\ page = [i \in DOMAIN page |-> page[i]] /\ DOMAIN page \subseteq Nat
           /\ DOMAIN shown.items = DOMAIN page
           /\ \A i \in DOMAIN page :
                 /\ page[i] \in Hits(catalog, query) /\ page[i] \in Listed
                 /\ PointRows(catalog[page[i]].points)
                 /\ shown.items[i] = Item(catalog, page[i])
           /\ \A i, j \in DOMAIN page : i < j => Leads(catalog, query, page[i], page[j])
<1>1. \A s \in Listed : PointRows(catalog[s].points)
  BY DEF BrowserInv, CatalogRow, PointRows
<1>2. Hits(catalog, query) \subseteq Listed
  BY DEF Hits, Matched
<1>3. query.limit \in Nat /\ query.sort \in Metrics \cup {"place"}
  BY DEF BrowserInv, BrowserRequest
<1>4. shown.items = [i \in DOMAIN Page(catalog, query) |-> Item(catalog, Page(catalog, query)[i])]
  BY DEF BrowserInv, Items
<1> QED
  BY <1>1, <1>2, <1>3, <1>4, PageOf

Having(of, set, facet, value) == {s \in set : FacetValue(of[s], facet) = value}

LEMMA CountsAreFound ==
    ASSUME NEW of, NEW set, IsFiniteSet(set), NEW facet, NEW value, value # None
    PROVE  LET counts == CountIn(of, set, facet) IN
           /\ Cardinality(Having(of, set, facet, value)) = (IF value \in DOMAIN counts THEN counts[value] ELSE 0)
           /\ \A v \in DOMAIN counts : counts[v] \in Nat \ {0}
<1> DEFINE open == {s \in set : FacetValue(of[s], facet) # None}
           Of(v) == {s \in open : FacetValue(of[s], facet) = v}
           counts == CountIn(of, set, facet)
<1>1. /\ DOMAIN counts = {FacetValue(of[s], facet) : s \in open}
      /\ \A v \in DOMAIN counts : counts[v] = Cardinality(Of(v))
  BY DEF CountIn
<1>2. Having(of, set, facet, value) = Of(value)
  BY DEF Having
<1>3. value \notin DOMAIN counts => Of(value) = {}
  BY <1>1
<1>4. \A v \in DOMAIN counts : counts[v] \in Nat \ {0}
  <2> TAKE v \in DOMAIN counts
  <2>1. Of(v) \in SUBSET set /\ Of(v) # {}
    BY <1>1
  <2>2. IsFiniteSet(Of(v))
    BY <2>1, FS_Subset
  <2> QED
    BY <1>1, <2>1, <2>2, FS_CardinalityType, FS_EmptySet
<1> HIDE DEF Of, counts
<1>5. Cardinality(Of(value)) = (IF value \in DOMAIN counts THEN counts[value] ELSE 0)
  BY <1>1, <1>3, FS_EmptySet
<1> QED
  BY <1>2, <1>4, <1>5 DEF counts

\* For any catalog and request: what is counted of a facet is what the request
\* finds with that value chosen.
THEOREM FacetsCounted == BrowserSpec => []FacetsPredict
<1>1. ASSUME BrowserInv PROVE FacetsPredict
  <2> SUFFICES ASSUME shown # None, query.since = None, NEW facet \in Facets,
                      NEW value \in {FacetValue(catalog[s], facet) : s \in Listed} \ {None}
               PROVE  Cardinality(Hits(catalog, [query EXCEPT !.filters[facet] = value]))
                        = (IF value \in DOMAIN shown.facets[facet] THEN shown.facets[facet][value] ELSE 0)
    BY DEF FacetsPredict
  <2> DEFINE chosen == [query EXCEPT !.filters[facet] = value]
             freed == [query.filters EXCEPT ![facet] = None]
             open == Matched(catalog, freed)
  <2>1. /\ query = [filters |-> query.filters, since |-> query.since, sort |-> query.sort, order |-> query.order,
                    limit |-> query.limit]
        /\ query.filters = [f \in Facets |-> query.filters[f]]
    BY <1>1 DEF BrowserInv, BrowserRequest
  <2>2. /\ chosen.since = None
        /\ chosen.filters = [query.filters EXCEPT ![facet] = value]
    BY <2>1
  <2>3. \A f \in Facets : /\ chosen.filters[f] = (IF f = facet THEN value ELSE query.filters[f])
                          /\ freed[f] = (IF f = facet THEN None ELSE query.filters[f])
    BY <2>1, <2>2
  <2> HIDE DEF chosen, freed
  <2>4. \A c : Fits(c, chosen.filters) <=> Fits(c, freed) /\ FacetValue(c, facet) = value
    BY <2>3 DEF Fits
  <2>5. Hits(catalog, chosen) = Having(catalog, open, facet, value)
    BY <2>2, <2>4 DEF Hits, Matched, Published, Having
  <2>6. IsFiniteSet(open)
    <3>1. open \in SUBSET Listed
      BY DEF Matched
    <3> QED
      BY <3>1, ListedAssumption, FS_Subset
  <2>7. shown.facets[facet] = CountIn(catalog, open, facet)
    BY <1>1 DEF BrowserInv, Counts, freed
  <2> HIDE DEF open
  <2>8. value # None
    OBVIOUS
  <2>9. Cardinality(Having(catalog, open, facet, value))
            = (IF value \in DOMAIN CountIn(catalog, open, facet) THEN CountIn(catalog, open, facet)[value] ELSE 0)
    BY <2>6, <2>8, CountsAreFound
  <2> QED
    BY <2>5, <2>7, <2>9 DEF chosen
<1> QED
  BY <1>1, BrowserInvariant, PTL

\* The type invariant of Browser.
THEOREM BrowserTypes == BrowserSpec => []BrowserTypeOK
<1>1. ASSUME BrowserInv PROVE BrowserTypeOK
  <2>1. DOMAIN catalog = Listed
    BY <1>1 DEF BrowserInv
  <2>2. ASSUME shown # None, NEW i \in DOMAIN shown.items PROVE shown.items[i].series \in Listed
    <3> DEFINE page == Page(catalog, query)
    <3>1. /\ DOMAIN shown.items = DOMAIN page
          /\ \A k \in DOMAIN page : page[k] \in Listed /\ shown.items[k] = Item(catalog, page[k])
      BY <1>1, <2>2, PageShown
    <3> HIDE DEF page
    <3>2. shown.items[i] = Item(catalog, page[i]) /\ page[i] \in Listed
      BY <2>2, <3>1
    <3>3. Item(catalog, page[i]).series = page[i]
      BY DEF Item
    <3> QED
      BY <3>2, <3>3
  <2>3. ASSUME shown # None, NEW facet \in Facets, NEW value \in DOMAIN shown.facets[facet]
        PROVE  shown.facets[facet][value] \in Nat \ {0}
    <3> DEFINE open == Matched(catalog, [query.filters EXCEPT ![facet] = None])
    <3>1. shown.facets[facet] = CountIn(catalog, open, facet)
      BY <1>1, <2>3 DEF BrowserInv, Counts
    <3>2. open \in SUBSET Listed
      BY DEF Matched
    <3>3. IsFiniteSet(open)
      BY <3>2, ListedAssumption, FS_Subset
    <3> HIDE DEF open
    <3>4. 0 # None
      BY PointsAssumption
    <3>5. \A v \in DOMAIN CountIn(catalog, open, facet) : CountIn(catalog, open, facet)[v] \in Nat \ {0}
      BY <3>3, <3>4, CountsAreFound
    <3> QED
      BY <2>3, <3>1, <3>5
  <2> QED
    BY <2>1, <2>2, <2>3 DEF BrowserTypeOK
<1> QED
  BY <1>1, BrowserInvariant, PTL

LEMMA ShownKey ==
    ASSUME NEW c, PointRows(c.points), NEW q, q.sort \in Metrics, MetricOf(c, c.points, q.sort) # None
    PROVE  SortKey(c, q) = MetricOf(c, c.points, q.sort) /\ SortKey(c, q) \in Int
<1>1. Bound(c) /\ Allowed(c) /\ MetricOf(c, c.points, q.sort) = Metric(c.points, c.frequency, q.sort)
  BY DEF MetricOf
<1>2. SortKey(c, q) = Metric(SortRows(c), c.frequency, q.sort)
  BY <1>1 DEF SortKey, MetricOf
<1>3. Metric(SortRows(c), c.frequency, q.sort) = Metric(c.points, c.frequency, q.sort)
  BY <1>1, SortKeyIsMetric
<1>4. SortKey(c, q) \in Int \cup {None}
  BY KeyType
<1> QED
  BY <1>1, <1>2, <1>3, <1>4

\* What does not depend on the points of a series.
LEMMA PointsApart ==
    ASSUME NEW c, NEW d, c.sources = d.sources, c.theme = d.theme, c.published = d.published, NEW q
    PROVE  /\ Bound(c) <=> Bound(d)
           /\ \A facet : FacetValue(c, facet) = FacetValue(d, facet)
           /\ Published(c, q) <=> Published(d, q)
<1>1. Verified(c) = Verified(d)
  BY DEF Verified
<1>2. Bound(c) <=> Bound(d)
  BY <1>1 DEF Bound
<1>3. BoundProvider(c) = BoundProvider(d)
  BY <1>1, <1>2 DEF BoundProvider
<1>4. Provider(c) = Provider(d)
  BY <1>3 DEF Provider
<1>5. \A facet : FacetValue(c, facet) = FacetValue(d, facet)
  BY <1>4 DEF FacetValue
<1>6. Published(c, q) <=> Published(d, q)
  BY <1>2 DEF Published
<1> QED
  BY <1>2, <1>5, <1>6

LEMMA SamePage ==
    ASSUME NEW of, NEW other, NEW q, \A s \in Listed : SortKey(of[s], q) = SortKey(other[s], q),
           Hits(of, q) = Hits(other, q)
    PROVE  Page(of, q) = Page(other, q)
<1> DEFINE set == Hits(of, q)
<1>1. \A s, t \in set : Leads(of, q, t, s) <=> Leads(other, q, t, s)
  <2>1. set \subseteq Listed
    BY DEF Hits, Matched
  <2> QED
    BY <2>1 DEF Leads
<1>2. \A s \in set : Place(of, q, s) = Place(other, q, s)
  <2> TAKE s \in set
  <2>1. {t \in Hits(of, q) : Leads(of, q, t, s)} = {t \in Hits(other, q) : Leads(other, q, t, s)}
    BY <1>1
  <2> QED
    BY <2>1 DEF Place
<1>3. \A i : (CHOOSE s \in Hits(of, q) : Place(of, q, s) = i) = (CHOOSE s \in Hits(other, q) : Place(other, q, s) = i)
  BY <1>2
<1> QED
  BY <1>3 DEF Page

LEMMA DeniedUnseen ==
    ASSUME BrowserInv, NEW s \in Listed, ~Allowed(catalog[s]), NEW value
    PROVE  Page([catalog EXCEPT ![s].points = [p \in DOMAIN @ |-> value]], query) = Page(catalog, query)
<1> DEFINE other == [catalog EXCEPT ![s].points = [p \in DOMAIN @ |-> value]]
<1>1. catalog = [t \in Listed |-> catalog[t]] /\ CatalogRow(catalog[s])
  BY DEF BrowserInv
<1>2. \A t \in Listed \ {s} : other[t] = catalog[t]
  BY <1>1
<1>3. other[s] = [catalog[s] EXCEPT !.points = [p \in DOMAIN @ |-> value]]
  BY <1>1
<1>4. /\ other[s].sources = catalog[s].sources /\ other[s].theme = catalog[s].theme
      /\ other[s].published = catalog[s].published /\ other[s].licence = catalog[s].licence
  BY <1>1, <1>3 DEF CatalogRow
<1> HIDE DEF other
<1>5. \A t \in Listed : /\ other[t].sources = catalog[t].sources /\ other[t].theme = catalog[t].theme
                        /\ other[t].published = catalog[t].published /\ other[t].licence = catalog[t].licence
  BY <1>2, <1>4
<1>6. \A t \in Listed : /\ \A facet : FacetValue(other[t], facet) = FacetValue(catalog[t], facet)
                        /\ Published(other[t], query) <=> Published(catalog[t], query)
  BY <1>5, PointsApart
<1>7. Hits(catalog, query) = Hits(other, query)
  <2>1. \A t \in Listed : Fits(other[t], query.filters) <=> Fits(catalog[t], query.filters)
    BY <1>6 DEF Fits
  <2> QED
    BY <1>6, <2>1 DEF Hits, Matched
<1>8. \A t \in Listed : SortKey(catalog[t], query) = SortKey(other[t], query)
  <2>1. ~Allowed(other[s])
    BY <1>4 DEF Allowed
  <2>2. SortKey(catalog[s], query) = None /\ SortKey(other[s], query) = None
    BY <2>1 DEF SortKey, MetricOf
  <2> QED
    BY <1>2, <2>2
<1> QED
  BY <1>7, <1>8, SamePage DEF other

\* For any catalog and request: series whose metric is shown are in its order,
\* and what a licence denies cannot be told from the answer.
THEOREM RankedByShown == BrowserSpec => []RankedAsShown
<1>1. ASSUME BrowserInv, shown # None PROVE RankedAsShown
  <2> DEFINE page == Page(catalog, query)
  <2>1. /\ page = [i \in DOMAIN page |-> page[i]] /\ DOMAIN page \subseteq Nat
        /\ DOMAIN shown.items = DOMAIN page
        /\ \A i \in DOMAIN page : PointRows(catalog[page[i]].points) /\ shown.items[i] = Item(catalog, page[i])
        /\ \A i, j \in DOMAIN page : i < j => Leads(catalog, query, page[i], page[j])
    BY <1>1, PageShown
  <2> HIDE DEF page
  <2>2. \A s : /\ Item(catalog, s).series = s
               /\ \A metric \in Metrics :
                    Item(catalog, s).metrics[metric] = MetricOf(catalog[s], catalog[s].points, metric)
    BY DEF Item
  <2>3. \A i \in DOMAIN page :
            /\ shown.items[i].series = page[i]
            /\ \A metric \in Metrics :
                  shown.items[i].metrics[metric] = MetricOf(catalog[page[i]], catalog[page[i]].points, metric)
    BY <2>1, <2>2
  <2>4. ASSUME NEW i \in DOMAIN shown.items, NEW j \in DOMAIN shown.items, query.sort \in Metrics, i < j,
               shown.items[i].metrics[query.sort] # None, shown.items[j].metrics[query.sort] # None
        PROVE  IF query.order = "asc" THEN shown.items[i].metrics[query.sort] <= shown.items[j].metrics[query.sort]
               ELSE shown.items[i].metrics[query.sort] >= shown.items[j].metrics[query.sort]
    <3> DEFINE c == catalog[page[i]]
               d == catalog[page[j]]
    <3>1. /\ shown.items[i].metrics[query.sort] = MetricOf(c, c.points, query.sort) /\ PointRows(c.points)
          /\ shown.items[j].metrics[query.sort] = MetricOf(d, d.points, query.sort) /\ PointRows(d.points)
          /\ Leads(catalog, query, page[i], page[j])
      BY <2>1, <2>3, <2>4
    <3>2. /\ SortKey(c, query) = shown.items[i].metrics[query.sort] /\ SortKey(c, query) \in Int
          /\ SortKey(d, query) = shown.items[j].metrics[query.sort] /\ SortKey(d, query) \in Int
      BY <2>4, <3>1, ShownKey
    <3>3. query.sort # "place"
      BY <2>4 DEF Metrics
    <3>4. \/ Sooner(query, SortKey(c, query), SortKey(d, query))
          \/ SortKey(c, query) = SortKey(d, query)
      <4>1. None \notin Int
        BY PointsAssumption
      <4> QED
        BY <3>1, <3>2, <3>3, <4>1 DEF Leads, Precedes
    <3> HIDE DEF c, d
    <3> QED
      BY <3>2, <3>4 DEF Sooner
  <2>5. ASSUME NEW s \in Listed, ~Allowed(catalog[s]), NEW value
        PROVE  /\ Page([catalog EXCEPT ![s].points = [p \in DOMAIN @ |-> value]], query)
                    = [i \in DOMAIN shown.items |-> shown.items[i].series]
               /\ \A i \in DOMAIN shown.items : shown.items[i].series = s =>
                    \A metric \in Metrics : shown.items[i].metrics[metric] = None
    <3>1. page = [i \in DOMAIN shown.items |-> shown.items[i].series]
      BY <2>1, <2>3
    <3>2. \A metric \in Metrics : MetricOf(catalog[s], catalog[s].points, metric) = None
      BY <2>5 DEF MetricOf
    <3>3. Page([catalog EXCEPT ![s].points = [p \in DOMAIN @ |-> value]], query) = page
      BY <1>1, <2>5, DeniedUnseen DEF page
    <3>4. \A i \in DOMAIN shown.items : shown.items[i].series = s =>
            \A metric \in Metrics : shown.items[i].metrics[metric] = None
      BY <2>1, <2>3, <3>2
    <3> QED
      BY <3>1, <3>3, <3>4
  <2> QED
    BY <2>4, <2>5 DEF RankedAsShown
<1>2. ASSUME BrowserInv PROVE RankedAsShown
  BY <1>1, <1>2 DEF RankedAsShown
<1> QED
  BY <1>2, BrowserInvariant, PTL

-----------------------------------------------------------------------------
(* Ingestion quality *)

LEMMA Extremes ==
    ASSUME NEW D, IsFiniteSet(D), D \subseteq Nat, D # {}
    PROVE  /\ Max(D) \in D /\ \A d \in D : d <= Max(D)
           /\ Min(D) \in D /\ \A d \in D : Min(D) <= d
<1>1. PICK m \in D : \A d \in D : m >= d
  <2>1. PICK m \in D : \A d \in D : d <= m
    BY LargestNumber
  <2> QED
    BY <2>1
<1>2. PICK n \in D : \A d \in D : n <= d
  BY LeastNatural
<1>3. Max(D) \in D /\ \A d \in D : Max(D) >= d
  BY <1>1 DEF Max
<1>4. Min(D) \in D /\ \A d \in D : Min(D) <= d
  BY <1>2 DEF Min
<1> QED
  BY <1>3, <1>4

RowsOf(rows, p) == {r \in rows : r.period = p}
VintagesOf(rows, p) == {q.vintage : q \in RowsOf(rows, p)}

\* The newest row of a period is the one whose value readers are shown.
LEMMA NewestRow ==
    ASSUME NEW rows \in Snapshots, NEW p \in PeriodsOf(rows)
    PROVE  /\ \E r \in LatestRows(rows) : r.period = p
           /\ \A r \in LatestRows(rows) : r.period = p => r.value = ValueNow(rows, p)
<1> DEFINE top == Max(VintagesOf(rows, p))
           last == CHOOSE r \in RowsOf(rows, p) : r.vintage = top
<1>1. /\ \A r \in rows : r.vintage \in {1, 2}
      /\ \A r, q \in rows : r.period = q.period /\ r.vintage = q.vintage => r = q
  BY DEF Snapshots, Observation
<1>2. /\ top \in VintagesOf(rows, p)
      /\ \A v \in VintagesOf(rows, p) : v <= top
  <2>1. VintagesOf(rows, p) \in SUBSET (1..2) /\ VintagesOf(rows, p) # {}
    BY <1>1 DEF VintagesOf, RowsOf, PeriodsOf
  <2>2. IsFiniteSet(1..2)
    <3>1. 1 \in Int /\ 2 \in Int
      OBVIOUS
    <3> QED
      BY <3>1, FS_Interval, Zenon
  <2>3. IsFiniteSet(VintagesOf(rows, p)) /\ VintagesOf(rows, p) \subseteq Nat
    BY <2>1, <2>2, FS_Subset
  <2> QED
    BY <2>1, <2>3, Extremes
<1>3. ValueNow(rows, p) = last.value
  BY DEF ValueNow, RowsOf, VintagesOf
<1> HIDE DEF top
<1>4. last \in RowsOf(rows, p) /\ last.vintage = top
  <2>1. \E r \in RowsOf(rows, p) : r.vintage = top
    BY <1>2 DEF VintagesOf
  <2> QED
    BY <2>1
<1> HIDE DEF last
<1>5. last \in LatestRows(rows) /\ last.period = p
  BY <1>2, <1>4 DEF LatestRows, RowsOf, VintagesOf
<1>6. ASSUME NEW r \in LatestRows(rows), r.period = p PROVE r = last
  <2>1. r \in rows /\ last \in rows /\ last.period = p
    BY <1>4 DEF LatestRows, RowsOf
  <2>2. last.vintage <= r.vintage /\ r.vintage <= last.vintage
    BY <1>5, <1>6, <2>1 DEF LatestRows
  <2>3. r.vintage = last.vintage
    BY <1>1, <2>1, <2>2
  <2> QED
    BY <1>1, <1>6, <2>1, <2>3
<1> QED
  BY <1>3, <1>5, <1>6

\* What the check counts is what there is after the revisions.
Filled(rows) == {p \in PeriodsOf(rows) : ValueNow(rows, p) # None}

LEMMA CountedAsShown ==
    ASSUME NEW rows \in Snapshots
    PROVE  /\ NonNull(rows) = Filled(rows)
           /\ NullPeriods(rows) = PeriodsOf(rows) \ Filled(rows)
           /\ Seen(rows) = PeriodsOf(rows)
<1>1. \A r \in LatestRows(rows) : r.period \in PeriodsOf(rows)
  BY DEF LatestRows, PeriodsOf
<1>2. NonNull(rows) = Filled(rows)
  BY <1>1, NewestRow DEF NonNull, Filled
<1>3. NullPeriods(rows) = PeriodsOf(rows) \ Filled(rows)
  BY <1>1, NewestRow DEF NullPeriods, Filled
<1> QED
  BY <1>2, <1>3 DEF Seen, Filled

LEMMA PeriodsTyped ==
    ASSUME NEW rows \in Snapshots
    PROVE  /\ PeriodsOf(rows) \subseteq Units /\ PeriodsOf(rows) \subseteq Nat /\ IsFiniteSet(PeriodsOf(rows))
           /\ Filled(rows) \subseteq PeriodsOf(rows) /\ IsFiniteSet(Filled(rows))
           /\ rows # {} <=> PeriodsOf(rows) # {}
<1>1. PeriodsOf(rows) \subseteq Units /\ Filled(rows) \subseteq PeriodsOf(rows) /\ (rows # {} <=> PeriodsOf(rows) # {})
  BY DEF PeriodsOf, Filled, Snapshots, Observation
<1>2. PeriodsOf(rows) \in SUBSET Units /\ IsFiniteSet(Units) /\ Units \subseteq Nat
  BY <1>1, UnitsAssumption
<1>3. IsFiniteSet(PeriodsOf(rows)) /\ Filled(rows) \in SUBSET PeriodsOf(rows)
  BY <1>1, <1>2, FS_Subset
<1>4. IsFiniteSet(Filled(rows))
  BY <1>3, FS_Subset
<1> QED
  BY <1>1, <1>2, <1>3, <1>4

\* A difference has no value at its start.
Starts(m, rows) == m.derived => \A r \in rows : r.period = Min(PeriodsOf(rows)) => r.value = None

LEMMA NullsExcused ==
    ASSUME NEW rows \in Snapshots, rows # {}, NEW m \in Requirement, Starts(m, rows)
    PROVE  Candidates(m, rows) \subseteq m.excused
             <=> \A p \in PeriodsOf(rows) \ Filled(rows) :
                    p \in m.excused \/ (m.derived /\ p = Min(PeriodsOf(rows)))
<1> DEFINE nulls == PeriodsOf(rows) \ Filled(rows)
           from == Min(PeriodsOf(rows))
<1>1. NullPeriods(rows) = nulls
  BY CountedAsShown
<1>2. from \in PeriodsOf(rows) /\ \A p \in PeriodsOf(rows) : from \in Nat /\ p \in Nat /\ from <= p
  BY PeriodsTyped, Extremes
<1>3. CASE m.derived
  <2>1. from \in nulls
    <3>1. PICK r \in LatestRows(rows) : r.period = from /\ r.value = ValueNow(rows, from)
      BY <1>2, NewestRow
    <3>2. r \in rows
      BY DEF LatestRows
    <3>3. r.value = None
      BY <1>3, <3>1, <3>2 DEF Starts
    <3> QED
      BY <1>2, <3>1, <3>3 DEF Filled
  <2>2. Min(nulls) = from
    <3>1. IsFiniteSet(nulls) /\ nulls \subseteq Nat /\ nulls # {}
      <4>1. nulls \in SUBSET PeriodsOf(rows)
        OBVIOUS
      <4> QED
        BY <2>1, <4>1, PeriodsTyped, FS_Subset
    <3> HIDE DEF nulls
    <3>2. Min(nulls) \in nulls /\ Min(nulls) <= from
      BY <2>1, <3>1, Extremes
    <3>3. from <= Min(nulls) /\ from \in Nat /\ Min(nulls) \in Nat
      BY <1>2, <3>2 DEF nulls
    <3> HIDE DEF from
    <3> QED
      BY <3>2, <3>3
  <2>3. Candidates(m, rows) = nulls \ {from}
    BY <1>1, <1>3, <2>1, <2>2 DEF Candidates
  <2> HIDE DEF nulls, from
  <2> QED
    BY <1>3, <2>3 DEF nulls, from
<1>4. CASE ~ m.derived
  BY <1>1, <1>4 DEF Candidates
<1> QED
  BY <1>3, <1>4

\* Two periods of a grid are a number of steps apart.
LEMMA OnTheGrid ==
    ASSUME NEW step \in Nat \ {0}, NEW from \in Nat \ {0}, NEW p \in Nat \ {0}, NEW to \in Nat \ {0},
           from <= p, p <= to, (p - 1) % step = 0, (from - 1) % step = 0
    PROVE  \E k \in 0..((to - from) \div step) : p = from + k * step
<1> DEFINE a == (p - 1) \div step
           b == (from - 1) \div step
           d == (to - from) \div step
           r == (to - from) % step
<1>1. a \in Int /\ p - 1 = step * a
  OBVIOUS
<1>2. b \in Int /\ from - 1 = step * b
  OBVIOUS
<1>3. d \in Int /\ r \in 0..(step - 1) /\ to - from = step * d + r
  OBVIOUS
<1> HIDE DEF a, b, d, r
<1>4. p = from + (a - b) * step
  BY <1>1, <1>2
<1>5. a - b >= 0
  <2>1. CASE a - b <= -1
    <3>1. step * (a - b) <= step * (-1)
      BY <1>1, <1>2, <2>1
    <3> QED
      BY <1>1, <1>2, <1>4, <3>1
  <2> QED
    BY <1>1, <1>2, <2>1
<1>6. a - b <= d
  <2>1. CASE a - b >= d + 1
    <3>1. step * (a - b) >= step * (d + 1)
      BY <1>1, <1>2, <1>3, <2>1
    <3>2. step * (d + 1) = step * d + step
      BY <1>3
    <3> QED
      BY <1>1, <1>2, <1>3, <1>4, <3>1, <3>2
  <2> QED
    BY <1>1, <1>2, <1>3, <2>1
<1>7. a - b \in 0..d
  BY <1>1, <1>2, <1>3, <1>5, <1>6
<1> QED
  BY <1>4, <1>7 DEF d

\* The periods of a grid are among those from the first to the last.
LEMMA GridIsWalked ==
    ASSUME NEW rows \in Snapshots, rows # {}, NEW m \in Requirement,
           \A p \in PeriodsOf(rows) : OnGrid(p, m.step)
    PROVE  PeriodsOf(rows) \subseteq Whole(Min(PeriodsOf(rows)), Max(PeriodsOf(rows)), m.step)
<1> DEFINE P == PeriodsOf(rows)
           from == Min(P)
           to == Max(P)
           step == m.step
<1>1. P # {} /\ IsFiniteSet(P) /\ P \subseteq Nat \ {0} /\ step \in Nat \ {0}
  BY PeriodsTyped, UnitsAssumption DEF Requirement
<1>2. from \in P /\ to \in P /\ \A p \in P : from <= p /\ p <= to
  BY <1>1, Extremes
<1>3. \A p \in P : (p - 1) % step = 0
  BY DEF OnGrid
<1> SUFFICES ASSUME NEW p \in P PROVE p \in Whole(from, to, step)
  OBVIOUS
<1> HIDE DEF P, from, to, step
<1>4. PICK k \in 0..((to - from) \div step) : p = from + k * step
  <2>1. p \in Nat \ {0} /\ from \in Nat \ {0} /\ to \in Nat \ {0} /\ step \in Nat \ {0}
    BY <1>1, <1>2
  <2>2. from <= p /\ p <= to /\ (p - 1) % step = 0 /\ (from - 1) % step = 0
    BY <1>2, <1>3
  <2> QED
    BY <2>1, <2>2, OnTheGrid
<1> QED
  BY <1>4 DEF Whole

\* None is missing if the steps from the first period to the last are all there.
LEMMA WholeOrMissing ==
    ASSUME NEW rows \in Snapshots, rows # {}, NEW m \in Requirement
    PROVE  Cardinality(PeriodsOf(rows)) >= 2 /\ Missing(rows, m.step) # {}
             <=> ~ (Whole(Min(PeriodsOf(rows)), Max(PeriodsOf(rows)), m.step) \subseteq PeriodsOf(rows))
<1> DEFINE P == PeriodsOf(rows)
           from == Min(P)
           to == Max(P)
           step == m.step
<1>1. P # {} /\ IsFiniteSet(P) /\ P \subseteq Nat \ {0} /\ step \in Nat \ {0} /\ Seen(rows) = P
  BY PeriodsTyped, CountedAsShown, UnitsAssumption DEF Requirement
<1>2. from \in P /\ to \in P
  BY <1>1, Extremes
<1>3. Missing(rows, step) = Whole(from, to, step) \ P
  BY <1>1 DEF Missing
<1> HIDE DEF P, from, to, step
<1>4. Cardinality(P) \in Nat /\ Cardinality(P) # 0
  BY <1>1, FS_CardinalityType, FS_EmptySet
<1>5. CASE Cardinality(P) = 1
  <2>1. PICK p : P = {p}
    BY <1>1, <1>5, FS_Singleton
  <2>2. from = p /\ to = p /\ p \in Nat
    BY <1>1, <1>2, <2>1
  <2>3. Whole(from, to, step) = {p}
    BY <1>1, <2>2 DEF Whole
  <2> QED
    BY <1>5, <2>1, <2>3 DEF P, from, to, step
<1>6. CASE Cardinality(P) # 1
  <2>1. Cardinality(P) >= 2
    BY <1>4, <1>6
  <2>2. Missing(rows, step) # {} <=> ~ (Whole(from, to, step) \subseteq P)
    BY <1>3
  <2> QED
    BY <2>1, <2>2 DEF P, from, to, step
<1> QED
  BY <1>5, <1>6

\* What is asked of a series and leaves no complaint.
Passing(m, asked, rows) ==
    /\ rows # {}
    /\ NonNull(rows) # {}
    /\ Candidates(m, rows) \subseteq m.excused
    /\ ~ (asked = "backfill" /\ m.first \notin {None, Min(Seen(rows))})
    /\ \A p \in Seen(rows) : Aligned(p, m)
    /\ ~ (Cardinality(NonNull(rows)) < m.minimum)
    /\ ~ (m.contiguous /\ Cardinality(Seen(rows)) >= 2 /\ Missing(rows, m.step) # {})
    /\ ~ (Today - Newest(rows) > Staleness)

LEMMA FaultlessPasses ==
    ASSUME NEW m, NEW asked, NEW rows
    PROVE  Faults(m, asked, rows) = {} <=> Passing(m, asked, rows)
BY DEF Faults, Passing

LEMMA PassingIsReliable ==
    ASSUME NEW rows \in Snapshots, NEW m \in Requirement, NEW asked, Starts(m, rows)
    PROVE  Passing(m, asked, rows) <=> Reliable(m, asked, rows)
<1> DEFINE P == PeriodsOf(rows)
           from == Min(P)
           to == Max(P)
           valued == Filled(rows)
           WholeNow ==
             /\ m.gridded => \A p \in P : OnGrid(p, m.step)
             /\ m.contiguous => IF m.gridded THEN P = Whole(from, to, m.step) ELSE Whole(from, to, m.step) \subseteq P
             /\ asked = "backfill" /\ m.first # None => from = m.first
             /\ valued # {} /\ Cardinality(valued) >= m.minimum
             /\ Today - Max(valued) <= Staleness
             /\ \A p \in P \ valued : p \in m.excused \/ (m.derived /\ p = from)
<1>1. CASE rows = {}
  <2>1. P = {}
    BY <1>1, PeriodsTyped
  <2> QED
    BY <1>1, <2>1 DEF Passing, Reliable
<1>2. CASE rows # {}
  <2>1. P # {} /\ from \in Units /\ to \in Units
    BY <1>2, PeriodsTyped, Extremes
  <2>2. Reliable(m, asked, rows) <=> WholeNow
    BY <2>1 DEF Reliable, Filled
  <2>3. NonNull(rows) = valued /\ Seen(rows) = P
    BY CountedAsShown
  <2>4. (\A p \in Seen(rows) : Aligned(p, m)) <=> (m.gridded => \A p \in P : OnGrid(p, m.step))
    BY <2>3 DEF Aligned
  <2>5. (m.gridded => \A p \in P : OnGrid(p, m.step))
          => (~ (m.contiguous /\ Cardinality(Seen(rows)) >= 2 /\ Missing(rows, m.step) # {})
                <=> (m.contiguous => IF m.gridded THEN P = Whole(from, to, m.step)
                                     ELSE Whole(from, to, m.step) \subseteq P))
    <3>1. Cardinality(P) >= 2 /\ Missing(rows, m.step) # {} <=> ~ (Whole(from, to, m.step) \subseteq P)
      BY <1>2, WholeOrMissing
    <3>2. (\A p \in P : OnGrid(p, m.step)) => P \subseteq Whole(from, to, m.step)
      BY <1>2, GridIsWalked
    <3> HIDE DEF P, from, to
    <3> QED
      BY <2>3, <3>1, <3>2
  <2>6. ~ (asked = "backfill" /\ m.first \notin {None, Min(Seen(rows))})
          <=> (asked = "backfill" /\ m.first # None => from = m.first)
    BY <2>3
  <2>7. Cardinality(valued) \in Int /\ m.minimum \in Int
    BY PeriodsTyped, FS_CardinalityType DEF Requirement
  <2>8. ~ (Cardinality(NonNull(rows)) < m.minimum) <=> Cardinality(valued) >= m.minimum
    BY <2>3, <2>7
  <2>9. NonNull(rows) # {} => (~ (Today - Newest(rows) > Staleness) <=> Today - Max(valued) <= Staleness)
    <3>1. Today \in Int /\ Staleness \in Int
      <4>1. IsFiniteSet(Units) /\ Units \subseteq Nat /\ Units # {} /\ Staleness \in Nat
        BY UnitsAssumption
      <4>2. Max(Units) \in Nat
        BY <4>1, Extremes
      <4> QED
        BY <4>1, <4>2 DEF Today
    <3>2. valued # {} => Max(valued) \in Int
      <4>1. valued \subseteq Nat /\ IsFiniteSet(valued)
        BY PeriodsTyped
      <4> QED
        BY <4>1, Extremes
    <3>3. NonNull(rows) # {} => Newest(rows) = Max(valued)
      BY <2>3 DEF Newest
    <3> QED
      BY <2>3, <3>1, <3>2, <3>3
  <2>10. Candidates(m, rows) \subseteq m.excused
           <=> \A p \in P \ valued : p \in m.excused \/ (m.derived /\ p = from)
    BY <1>2, NullsExcused
  <2>11. Passing(m, asked, rows) <=> WholeNow
    <3> HIDE DEF P, from, to, valued
    <3> QED
      BY <1>2, <2>3, <2>4, <2>5, <2>6, <2>8, <2>9, <2>10 DEF Passing
  <2> QED
    BY <2>2, <2>11
<1> QED
  BY <1>1, <1>2

QualityInv ==
    /\ required \in Requirement /\ snapshot \in Snapshots /\ Starts(required, snapshot)
    /\ issues # None => issues = Faults(required, mode, snapshot)

LEMMA QualityInvariant == QualitySpec => []QualityInv
<1>1. QualityInit => QualityInv
  BY DEF QualityInit, QualityInv, Starts
<1>2. QualityInv /\ [QualityNext]_qualityVars => QualityInv'
  BY DEF QualityInv, QualityNext, Validate, qualityVars, Starts
<1> QED
  BY <1>1, <1>2, PTL DEF QualitySpec

\* Types of validate_ingestion_completeness: the requirement and the snapshot are
\* what they were, and the verdict is one of its complaints.
THEOREM QualityTypes == QualitySpec => []QualityTypeOK
<1>1. QualityInv => QualityTypeOK
  BY DEF QualityInv, QualityTypeOK, Snapshots, Faults
<1> QED
  BY <1>1, QualityInvariant, PTL

\* A snapshot passes validate_ingestion_completeness if and only if the series that
\* readers are shown of it, after its revisions, is on its grid if it has one, begins
\* where the mapping says, misses no step, is recent and lacks no value but those
\* excused.
THEOREM PassesMeansWhole == QualitySpec => []PassesWhenWhole
<1>1. QualityInv => PassesWhenWhole
  <2> SUFFICES ASSUME QualityInv, issues # None PROVE issues = {} <=> Reliable(required, mode, snapshot)
    BY DEF PassesWhenWhole
  <2>1. issues = Faults(required, mode, snapshot) /\ required \in Requirement
        /\ snapshot \in Snapshots /\ Starts(required, snapshot)
    BY DEF QualityInv
  <2> QED
    BY <2>1, FaultlessPasses, PassingIsReliable
<1> QED
  BY <1>1, QualityInvariant, PTL

===============================================================================
