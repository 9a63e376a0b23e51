----------------------------- MODULE ServingStore -----------------------------
(***************************************************************************)
(* What publication promises to the readers of a series, with no            *)
(* transactions, locks or sessions: a batch is published in one piece, the  *)
(* archive keeps each vintage once and for good, and the row served of a    *)
(* period only moves on to newer vintages, save that withdrawing a batch    *)
(* puts the newest of the others back.  Publication is shown to implement   *)
(* it while no rollback overlaps a sync or another rollback.                *)
(***************************************************************************)
EXTENDS Naturals

CONSTANTS Batches, Periods, None

VARIABLES
    archive,        \* vintages: period, vintage, value and the batch they came with
    serving,        \* period -> the row served: vintage, value and the batch that served it
    published       \* batches

storeVars == <<archive, serving, published>>

Init ==
    /\ archive = {}
    /\ serving = [p \in Periods |-> None]
    /\ published = {}

Of(rows, p) == {v \in rows : v.period = p}
Shows(row, v) == row.vintage = v.vintage /\ row.value = v.value

\* Each vintage that is new to the archive is of the batch and under a key of
\* its own.
Archives(b) ==
    /\ archive \subseteq archive'
    /\ \A v \in archive' \ archive :
          /\ v.batch = b
          /\ \A w \in archive' : w.period = v.period /\ w.vintage = v.vintage => w = v

\* The row of a period stays or becomes a newer one, which is archived.
Advances(b, p) ==
    \/ serving'[p] = serving[p]
    \/ /\ serving'[p] # None /\ serving'[p].batch = b
       /\ serving[p] # None => serving[p].vintage < serving'[p].vintage
       /\ \E v \in Of(archive', p) : Shows(serving'[p], v)

\* What is new in the archive is served, or something at least as new is.
Publish(b) ==
    /\ b \notin published
    /\ Archives(b)
    /\ DOMAIN serving' = Periods
    /\ \A p \in Periods :
          /\ Advances(b, p)
          /\ \A v \in Of(archive' \ archive, p) :
                serving'[p] # None /\ v.vintage <= serving'[p].vintage
    /\ published' = published \cup {b}

Others(b, p) == {v \in Of(archive, p) : v.batch # b}
Newest(rows) == {v \in rows : \A w \in rows : w.vintage <= v.vintage}

\* The periods the batch has a vintage of go back to the newest of the others,
\* those withdrawn before among them.
Withdraw(b) ==
    /\ b \in published
    /\ DOMAIN serving' = Periods
    /\ \A p \in Periods :
          IF \A v \in Of(archive, p) : v.batch # b THEN serving'[p] = serving[p]
          ELSE IF Others(b, p) = {} THEN serving'[p] = None
          ELSE /\ serving'[p] # None
               /\ \E v \in Newest(Others(b, p)) : Shows(serving'[p], v) /\ serving'[p].batch = v.batch
    /\ UNCHANGED <<archive, published>>

Next == \E b \in Batches : Publish(b) \/ Withdraw(b)

Spec == Init /\ [][Next]_storeVars
=============================================================================
