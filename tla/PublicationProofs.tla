-------------------------- MODULE PublicationProofs --------------------------
(***************************************************************************)
(* Theorems of Publication, for any finite sets of syncs, periods and       *)
(* vintages, any fetches and any regimes.  The argument: PostgreSQL's locks *)
(* let one sync at a time hold a serving row or a key, what a sync has      *)
(* decided stays right because nobody else can make a serving row older,    *)
(* and the guard of the upsert is evaluated on the row it then locks.       *)
(***************************************************************************)
EXTENDS Publication, FiniteSetTheorems, WellFoundedInduction, TLAPS

-----------------------------------------------------------------------------
(* Largest and smallest numbers *)

LEMMA LeastNatural ==
    ASSUME NEW T, T \subseteq Nat, T # {}
    PROVE  \E n \in T : \A k \in T : n <= k
<1> DEFINE less == OpToRel(<, Nat)
<1>1. \A k, n \in Nat : <<k, n>> \in less <=> k < n
  BY DEF OpToRel
<1>2. IsWellFoundedOn(less, Nat)
  BY NatLessThanWellFounded
<1> HIDE DEF less
<1>3. PICK n \in T : \A k \in T : ~ (<<k, n>> \in less)
  BY <1>2, WFMin
<1>4. n \in Nat /\ \A k \in T : k \in Nat /\ ~ (k < n)
  BY <1>1, <1>3
<1> QED
  BY <1>4

LEMMA LargestExists ==
    ASSUME NEW S, IsFiniteSet(S), S \subseteq Nat, S # {}
    PROVE  \E x \in S : \A y \in S : y <= x
<1> DEFINE Unbounded == {U \in SUBSET S : U # {} /\ ~\E x \in U : \A y \in U : y <= x}
           sizes == {Cardinality(U) : U \in Unbounded}
<1>1. SUFFICES ASSUME S \in Unbounded PROVE FALSE
  OBVIOUS
<1>2. \A U \in SUBSET S : IsFiniteSet(U) /\ Cardinality(U) \in Nat
  <2> TAKE U \in SUBSET S
  <2>1. IsFiniteSet(U)
    BY FS_Subset
  <2> QED
    BY <2>1, FS_CardinalityType
<1> HIDE DEF sizes
<1>3. PICK n \in sizes : \A k \in sizes : n <= k
  <2>1. sizes \in SUBSET Nat /\ sizes # {}
    BY <1>1, <1>2 DEF sizes
  <2> QED
    BY <2>1, LeastNatural
<1>4. PICK U \in Unbounded : n = Cardinality(U)
  BY <1>3 DEF sizes
<1>5. PICK x \in U : TRUE
  BY <1>4
<1>6. Cardinality(U \ {x}) = Cardinality(U) - 1 /\ U \ {x} \in SUBSET S
  BY <1>2, <1>4, <1>5, FS_RemoveElement
<1>7. U \ {x} \notin Unbounded
  <2>1. Cardinality(U \ {x}) < n
    BY <1>2, <1>4, <1>6
  <2>2. U \ {x} \in Unbounded => Cardinality(U \ {x}) \in sizes
    BY DEF sizes
  <2>3. n \in Nat /\ Cardinality(U \ {x}) \in Nat
    BY <1>2, <1>4, <1>6
  <2> QED
    BY <1>3, <2>1, <2>2, <2>3
<1>8. U \subseteq Nat /\ ~\E u \in U : \A y \in U : y <= u
  BY <1>4
<1>9. CASE U \ {x} = {}
  <2>1. \A y \in U : y = x
    BY <1>9
  <2> QED
    BY <1>5, <1>8, <2>1
<1>10. CASE U \ {x} # {}
  <2>1. PICK m \in U \ {x} : \A y \in U \ {x} : y <= m
    BY <1>6, <1>7, <1>10
  <2>2. CASE x <= m
    BY <1>8, <2>1, <2>2
  <2>3. CASE ~(x <= m)
    <3>1. \A y \in U : y <= x
      BY <1>5, <1>8, <2>1, <2>3
    <3> QED
      BY <1>5, <1>8, <3>1
  <2> QED
    BY <2>2, <2>3
<1> QED
  BY <1>9, <1>10

LEMMA MaxIsLargest ==
    ASSUME NEW S, IsFiniteSet(S), S \subseteq Nat, S # {}
    PROVE  Max(S) \in S /\ \A y \in S : y <= Max(S)
<1>1. PICK x \in S : \A y \in S : y <= x
  BY LargestExists
<1>2. \A y \in S : x >= y
  BY <1>1
<1> QED
  BY <1>2 DEF Max

LEMMA MinIsSmallest ==
    ASSUME NEW S, S \subseteq Nat, S # {}
    PROVE  Min(S) \in S /\ \A y \in S : Min(S) <= y
<1>1. PICK x \in S : \A y \in S : x <= y
  BY LeastNatural
<1> QED
  BY <1>1 DEF Min

-----------------------------------------------------------------------------
(* The inductive invariant *)

Stages == {"idle", "fetching", "merging", "writing", "settled", "over"}
Settling == [at : Nat, seen : Bounds, new : Bounds]

\* TypeOK, and a decision where one is to be written.
LocalsTyped ==
    /\ stage \in [Syncs -> Stages]
    /\ todo \in [Syncs -> SUBSET Observation]
    /\ merging \in [Syncs -> Decision \cup {NoMerge}]
    /\ drafts \in [Syncs -> SUBSET VintageRow]
    /\ dirty \in [Syncs -> [Periods -> LatestRow \cup {NoRow}]]
    /\ spoiled \in [Syncs -> BOOLEAN]
    /\ previous \in [Syncs -> Syncs \cup {NoBatch}]
    /\ settling \in [Syncs -> Settling]
    /\ \A r \in Syncs : stage[r] = "writing" => merging[r] \in Decision
TablesTyped ==
    /\ run \in [Syncs -> {"none", "quarantined", "succeeded"}]
    /\ batch \in [Syncs -> BatchRow]
    /\ archive \subseteq VintageRow
    /\ latest \in [Periods -> LatestRow \cup {NoRow}]
    /\ bounds \in Bounds
UndoTyped == undo \in [Syncs -> Undo \cup {NoUndo}]
Types == LocalsTyped /\ TablesTyped /\ UndoTyped

LEMMA TypesGiveTypeOK == Types => TypeOK
  BY DEF Types, TypeOK, LocalsTyped, TablesTyped, UndoTyped, Stages, Settling

\* Only a sync that is merging or settled has written anything.
Resting(r) == stage[r] \in {"idle", "fetching", "over"}
OwnInv ==
    \A r \in Syncs :
        /\ \A d \in drafts[r] : d.batch = r
        /\ \A p \in Periods : dirty[r][p] # NoRow => dirty[r][p].batch = r
        /\ Resting(r) => drafts[r] = {} /\ dirty[r] = NothingDirty /\ previous[r] = NoBatch
        /\ stage[r] # "over" => run[r] = "none" /\ batch[r].status = "none"

\* A batch that something refers to has been finished.
PastInv ==
    \A r \in Syncs :
        /\ previous[r] # NoBatch => batch[previous[r]].status # "none"
        /\ batch[r].previous # NoBatch => batch[batch[r].previous].status # "none"
        /\ undo[r] # NoUndo => batch[r].status # "none"

\* A business key has one sync at a time, and one that has left a run.
RunInv ==
    \A r, s \in Syncs : r # s /\ BusinessKey(r) = BusinessKey(s) =>
        /\ InFlight(r) => ~InFlight(s) /\ run[s] = "none"
        /\ run[r] # "none" => run[s] = "none"

\* A key is archived or drafted once, and a serving row is held by one sync.
KeyInv ==
    /\ \A v \in archive : run[v.batch] = "succeeded"
    /\ \A v, w \in archive : SameKey(v, w) => v = w
    /\ \A r \in Syncs : \A d \in drafts[r] :
          /\ \A v \in archive : ~SameKey(v, d)
          /\ \A s \in Syncs : \A e \in drafts[s] : SameKey(e, d) => e = d
    /\ \A r \in Syncs : stage[r] = "writing" /\ merging[r].inserts =>
          \A d \in drafts[r] : ~SameKey(d, merging[r].observation)
LockInv ==
    \A r, s \in Syncs, p \in Periods : dirty[r][p] # NoRow /\ dirty[s][p] # NoRow => r = s

\* What is written, or is to be written without an insert, is archived or drafted.
Has(rows, p, row) == \E v \in rows : v.period = p /\ v.vintage = row.vintage /\ v.value = row.value
SourceInv ==
    \A r \in Syncs :
        /\ \A p \in Periods : dirty[r][p] # NoRow => Has(Archived(r), p, dirty[r][p])
        /\ stage[r] = "writing" /\ ~merging[r].inserts =>
              Has(Archived(r), merging[r].observation.period, merging[r].observation)

\* No rollback is under way while a sync is, or has read what is not so any more.
QuietInv ==
    Undisturbed => \A b \in Syncs : undo[b] # NoUndo =>
        /\ Rollbacks # {}
        /\ \A s \in Syncs : ~InFlight(s) /\ (s # b => undo[s] = NoUndo)
        /\ undo[b].touched = Touched(b)
        /\ undo[b].seen = latest
        /\ undo[b].restored = [p \in Periods |-> Before(b, p)]

\* What has been rolled back stays on record.
UntouchedInv ==
    /\ Rollbacks = {} => Untouched
    /\ Undisturbed => \A r \in Syncs :
          InFlight(r) /\ previous[r] # NoBatch => batch[previous[r]].status # "rolled_back"

\* The rows a sync would serve are newer than those it replaces, and at least as
\* new as what it has drafted or decided not to serve.
AsNew(row, vintage) == row # NoRow /\ row.vintage >= vintage
Newer(r) ==
    /\ \A p \in Periods : dirty[r][p] # NoRow /\ latest[p] # NoRow => latest[p].vintage < dirty[r][p].vintage
    /\ \A d \in drafts[r] : AsNew(Serving(r, d.period), d.vintage)
    /\ stage[r] = "writing" /\ ~merging[r].updates =>
          AsNew(Serving(r, merging[r].observation.period), merging[r].observation.vintage)
NewerInv == Undisturbed => \A r \in Syncs : Newer(r)

\* Until something is rolled back, a serving row is the newest of its period, and
\* its batch is the one that archived it.
Origin(rows, p, row) == \E v \in rows : v.period = p /\ v.vintage = row.vintage /\ v.batch = row.batch
NewestInv ==
    Undisturbed /\ Untouched =>
        /\ \A v \in archive : AsNew(latest[v.period], v.vintage)
        /\ \A p \in Periods : latest[p] # NoRow => Origin(archive, p, latest[p])
        /\ \A r \in Syncs, p \in Periods : dirty[r][p] # NoRow => Origin(drafts[r], p, dirty[r][p])

\* One serialised sync at a time, and the bounds it has read are the bounds.
SerialInv ==
    Serialised =>
        /\ \A r, s \in Syncs : InFlight(r) /\ InFlight(s) => r = s
        /\ Undisturbed => \A r \in Syncs : stage[r] = "settled" =>
              /\ settling[r].seen = bounds
              /\ settling[r].new = IF Served(r) = {} THEN bounds
                                   ELSE [first |-> Min(Served(r)), last |-> Max(Served(r))]

RowsInv == OwnInv /\ PastInv /\ RunInv /\ KeyInv /\ LockInv /\ SourceInv
ServingInv == QuietInv /\ UntouchedInv /\ NewerInv /\ NewestInv /\ ServedIsArchived /\ SerialInv /\ BoundsMatchServed

-----------------------------------------------------------------------------
(* What the queries return *)

LEMMA ImageIsFinite ==
    ASSUME NEW S, IsFiniteSet(S), NEW f, DOMAIN f = S
    PROVE  IsFiniteSet({f[x] : x \in S})
<1> DEFINE T == {f[x] : x \in S}
           g == [x \in S |-> f[x]]
<1>1. g \in Surjection(S, T)
  BY DEF Surjection
<1> QED
  BY <1>1, FS_Surjection

LEMMA NewestExists ==
    ASSUME Types, NEW S, S \subseteq archive, S # {}
    PROVE  \E v \in S : \A w \in S : w.vintage <= v.vintage
<1> DEFINE T == {v.vintage : v \in S}
<1>1. \A v \in S : v.vintage \in Vintages
  BY DEF Types, LocalsTyped, TablesTyped, VintageRow
<1>2. T \subseteq Nat /\ T # {} /\ IsFiniteSet(T)
  <2>1. T \in SUBSET Vintages /\ T # {}
    BY <1>1
  <2> HIDE DEF T
  <2>2. IsFiniteSet(T)
    BY <2>1, FS_Subset, FiniteAssumption
  <2> QED
    BY <2>1, <2>2, PeriodsAssumption
<1>3. PICK x \in T : \A y \in T : y <= x
  BY <1>2, LargestExists
<1> QED
  BY <1>3

\* The row Before returns, when it returns one.
LEMMA BeforeIsNewest ==
    ASSUME Types, NEW b, NEW p
    PROVE  LET others == {v \in archive : v.period = p /\ v.batch # b} IN
           IF others = {} THEN Before(b, p) = NoRow
           ELSE \E v \in others :
                   /\ \A w \in others : w.vintage <= v.vintage
                   /\ Before(b, p) = [vintage |-> v.vintage, value |-> v.value,
                                      status |-> v.status, batch |-> v.batch]
                   /\ Before(b, p) \in LatestRow
<1> DEFINE others == {v \in archive : v.period = p /\ v.batch # b}
           v == CHOOSE v \in others : \A w \in others : w.vintage <= v.vintage
<1>1. CASE others = {}
  BY <1>1 DEF Before
<1>2. CASE others # {}
  <2>1. v \in others /\ \A w \in others : w.vintage <= v.vintage
    BY <1>2, NewestExists
  <2>2. Before(b, p) = [vintage |-> v.vintage, value |-> v.value, status |-> v.status, batch |-> v.batch]
    BY <1>2 DEF Before
  <2>3. v \in VintageRow
    BY <2>1 DEF Types, LocalsTyped, TablesTyped
  <2>4. Before(b, p) \in LatestRow
    BY <2>2, <2>3 DEF VintageRow, LatestRow
  <2> HIDE DEF v
  <2> QED
    BY <1>2, <2>1, <2>2, <2>4
<1> QED
  BY <1>1, <1>2

LEMMA LastActivatedType ==
    ASSUME Types
    PROVE  \/ LastActivated = NoBatch
           \/ LastActivated \in Syncs /\ batch[LastActivated].status = "active"
<1> DEFINE f == [b \in ActiveBatches |-> batch[b].activated]
           T == {f[b] : b \in ActiveBatches}
<1>1. CASE ActiveBatches = {}
  BY <1>1 DEF LastActivated
<1>2. CASE ActiveBatches # {}
  <2>1. ActiveBatches \in SUBSET Syncs /\ IsFiniteSet(ActiveBatches)
    BY FS_Subset, FiniteAssumption DEF ActiveBatches
  <2>2. T \subseteq Nat /\ T # {} /\ IsFiniteSet(T)
    <3>1. IsFiniteSet(T)
      BY <2>1, ImageIsFinite
    <3>2. \A b \in ActiveBatches : f[b] \in Nat
      BY DEF ActiveBatches, Types, LocalsTyped, TablesTyped, BatchRow
    <3> QED
      BY <1>2, <3>1, <3>2
  <2>3. PICK x \in T : \A y \in T : y <= x
    BY <2>2, LargestExists
  <2>4. \E b \in ActiveBatches : \A c \in ActiveBatches : batch[c].activated <= batch[b].activated
    BY <2>3
  <2>5. LastActivated \in ActiveBatches
    BY <1>2, <2>4 DEF LastActivated
  <2> QED
    BY <2>5 DEF ActiveBatches
<1> QED
  BY <1>1, <1>2

LEMMA NowType ==
    ASSUME Types, Syncs # {}
    PROVE  Now \in Nat
<1> DEFINE f == [b \in Syncs |-> batch[b].activated]
           g == [r \in Syncs |-> settling[r].at]
           S == {batch[b].activated : b \in Syncs}
           T == {settling[r].at : r \in Syncs}
<1>1. S = {f[b] : b \in Syncs} /\ T = {g[r] : r \in Syncs}
  OBVIOUS
<1>2. IsFiniteSet(S) /\ IsFiniteSet(T)
  <2>1. IsFiniteSet({f[b] : b \in Syncs}) /\ IsFiniteSet({g[r] : r \in Syncs})
    BY ImageIsFinite, FiniteAssumption
  <2> QED
    BY <1>1, <2>1
<1>3. S \cup T \subseteq Nat /\ S \cup T # {}
  <2>1. \A b \in Syncs : batch[b].activated \in Nat /\ settling[b].at \in Nat
    BY DEF Types, LocalsTyped, TablesTyped, BatchRow, Settling
  <2> QED
    BY <2>1
<1>4. Now = 1 + Max(S \cup T)
  BY DEF Now
<1> HIDE DEF S, T
<1>5. IsFiniteSet(S \cup T)
  BY <1>2, FS_Union
<1>6. Max(S \cup T) \in Nat
  BY <1>3, <1>5, MaxIsLargest
<1> QED
  BY <1>4, <1>6

LEMMA ServedBounds ==
    ASSUME NEW S \in SUBSET Periods, S # {}
    PROVE  Min(S) \in Periods /\ Max(S) \in Periods
<1>1. S \subseteq Nat /\ IsFiniteSet(S)
  BY FS_Subset, FiniteAssumption, PeriodsAssumption
<1> QED
  BY <1>1, MaxIsLargest, MinIsSmallest

LEMMA ServingType ==
    ASSUME Types, NEW r \in Syncs, NEW p \in Periods
    PROVE  Serving(r, p) \in LatestRow \cup {NoRow}
  BY DEF Types, LocalsTyped, TablesTyped, Serving

-----------------------------------------------------------------------------
(* Types *)

\* What a step of r leaves to the other syncs.
OthersStay(r) ==
    \A s \in Syncs : s # r =>
        /\ stage'[s] = stage[s] /\ todo'[s] = todo[s] /\ merging'[s] = merging[s]
        /\ drafts'[s] = drafts[s] /\ dirty'[s] = dirty[s] /\ spoiled'[s] = spoiled[s]
        /\ previous'[s] = previous[s] /\ settling'[s] = settling[s]

LEMMA EndStep ==
    ASSUME Types, NEW r \in Syncs, End(r)
    PROVE  /\ LocalsTyped' /\ OthersStay(r)
           /\ stage'[r] = "over" /\ drafts'[r] = {} /\ dirty'[r] = NothingDirty
<1> USE DEF Types, LocalsTyped
<1>1. NothingDirty \in [Periods -> LatestRow \cup {NoRow}]
  BY DEF NothingDirty
<1>2. Unsettled \in Settling
  BY DEF Unsettled, NoBounds, Bounds, Settling
<1>3. stage' \in [Syncs -> Stages] /\ stage'[r] = "over" /\ \A s \in Syncs : s # r => stage'[s] = stage[s]
  BY DEF End, Stages
<1>4. todo' \in [Syncs -> SUBSET Observation] /\ \A s \in Syncs : s # r => todo'[s] = todo[s]
  BY DEF End
<1>5. /\ merging' \in [Syncs -> Decision \cup {NoMerge}]
      /\ \A s \in Syncs : s # r => merging'[s] = merging[s]
  BY DEF End
<1>6. /\ drafts' \in [Syncs -> SUBSET VintageRow] /\ drafts'[r] = {}
      /\ \A s \in Syncs : s # r => drafts'[s] = drafts[s]
  BY DEF End
<1>7. /\ dirty' \in [Syncs -> [Periods -> LatestRow \cup {NoRow}]] /\ dirty'[r] = NothingDirty
      /\ \A s \in Syncs : s # r => dirty'[s] = dirty[s]
  BY <1>1 DEF End
<1>8. spoiled' \in [Syncs -> BOOLEAN] /\ \A s \in Syncs : s # r => spoiled'[s] = spoiled[s]
  BY DEF End
<1>9. previous' \in [Syncs -> Syncs \cup {NoBatch}] /\ \A s \in Syncs : s # r => previous'[s] = previous[s]
  BY DEF End
<1>10. settling' \in [Syncs -> Settling] /\ \A s \in Syncs : s # r => settling'[s] = settling[s]
  BY <1>2 DEF End
<1>11. \A s \in Syncs : stage'[s] = "writing" => merging'[s] \in Decision
  <2> SUFFICES ASSUME NEW s \in Syncs, stage'[s] = "writing" PROVE merging'[s] \in Decision
    OBVIOUS
  <2>1. s # r
    BY <1>3
  <2> QED
    BY <1>3, <1>5, <2>1
<1> QED
  BY <1>3, <1>4, <1>5, <1>6, <1>7, <1>8, <1>9, <1>10, <1>11 DEF OthersStay

LEMMA TablesStay ==
    ASSUME Types, UNCHANGED <<run, batch, archive, latest, bounds, undo>>
    PROVE  TablesTyped' /\ UndoTyped'
  BY DEF Types, TablesTyped, UndoTyped

\* A step that writes no locals but r's, and those to values of their types.
Writes(r) ==
    /\ stage' = [stage EXCEPT ![r] = stage'[r]] /\ todo' = [todo EXCEPT ![r] = todo'[r]]
    /\ merging' = [merging EXCEPT ![r] = merging'[r]] /\ drafts' = [drafts EXCEPT ![r] = drafts'[r]]
    /\ dirty' = [dirty EXCEPT ![r] = dirty'[r]] /\ spoiled' = [spoiled EXCEPT ![r] = spoiled'[r]]
    /\ previous' = [previous EXCEPT ![r] = previous'[r]] /\ settling' = [settling EXCEPT ![r] = settling'[r]]
LocalTypes(r) ==
    /\ stage[r] \in Stages /\ todo[r] \in SUBSET Observation
    /\ merging[r] \in Decision \cup {NoMerge} /\ drafts[r] \in SUBSET VintageRow
    /\ dirty[r] \in [Periods -> LatestRow \cup {NoRow}] /\ spoiled[r] \in BOOLEAN
    /\ previous[r] \in Syncs \cup {NoBatch} /\ settling[r] \in Settling
    /\ stage[r] = "writing" => merging[r] \in Decision

LEMMA LocalsOf ==
    ASSUME Types, NEW r \in Syncs
    PROVE  LocalTypes(r)
  BY DEF Types, LocalsTyped, LocalTypes

LEMMA LocalStep ==
    ASSUME Types, NEW r \in Syncs, Writes(r), LocalTypes(r)',
           UNCHANGED <<run, batch, archive, latest, bounds, undo>>
    PROVE  Types' /\ OthersStay(r)
<1>1. OthersStay(r)
  BY DEF Types, LocalsTyped, Writes, OthersStay
<1>2. LocalsTyped'
  <2>1. stage' \in [Syncs -> Stages] /\ todo' \in [Syncs -> SUBSET Observation]
    BY DEF Types, LocalsTyped, Writes, LocalTypes
  <2>2. merging' \in [Syncs -> Decision \cup {NoMerge}] /\ drafts' \in [Syncs -> SUBSET VintageRow]
    BY DEF Types, LocalsTyped, Writes, LocalTypes
  <2>3. dirty' \in [Syncs -> [Periods -> LatestRow \cup {NoRow}]] /\ spoiled' \in [Syncs -> BOOLEAN]
    BY DEF Types, LocalsTyped, Writes, LocalTypes
  <2>4. previous' \in [Syncs -> Syncs \cup {NoBatch}] /\ settling' \in [Syncs -> Settling]
    BY DEF Types, LocalsTyped, Writes, LocalTypes
  <2>5. ASSUME NEW s \in Syncs, stage'[s] = "writing"
        PROVE  merging'[s] \in Decision
    <3>1. CASE s = r
      BY <2>5, <3>1 DEF LocalTypes
    <3>2. CASE s # r
      BY <1>1, <2>5, <3>2 DEF Types, LocalsTyped, OthersStay
    <3> QED
      BY <3>1, <3>2
  <2> QED
    BY <2>1, <2>2, <2>3, <2>4, <2>5 DEF LocalsTyped
<1> QED
  BY <1>1, <1>2, TablesStay DEF Types

\* A step that leaves r's rows and the tables alone, too.
Unwritten(r) == OthersStay(r) /\ UNCHANGED <<run, batch, archive, latest, bounds, undo, drafts, dirty>>

LEMMA BeginTypes ==
    ASSUME Types, NEW r \in Syncs, Begin(r)
    PROVE  /\ Types' /\ Unwritten(r)
           /\ stage'[r] \in {"over", "fetching"} /\ previous'[r] = previous[r]
<1>1. PICK at \in {"over", "fetching"} : stage' = [stage EXCEPT ![r] = at]
  BY DEF Begin
<1>2. UNCHANGED <<run, batch, archive, latest, bounds, undo,
                  todo, merging, drafts, dirty, spoiled, previous, settling>>
  BY DEF Begin, tables, locals
<1>3. stage'[r] = at /\ at \in Stages /\ Writes(r)
  BY <1>1, <1>2 DEF Types, LocalsTyped, Stages, Writes
<1>4. LocalTypes(r)'
  BY <1>2, <1>3, LocalsOf DEF LocalTypes
<1> QED
  BY <1>2, <1>3, <1>4, LocalStep DEF Unwritten

LEMMA StageTypes ==
    ASSUME Types, NEW r \in Syncs, NEW staged \in Stagings, Stage(r, staged)
    PROVE  /\ Types' /\ Unwritten(r)
           /\ stage'[r] = "merging"
           /\ previous'[r] = NoBatch \/ (previous'[r] \in Syncs /\ batch[previous'[r]].status = "active")
<1>1. staged \in SUBSET Observation /\ (staged = {}) \in BOOLEAN /\ "merging" \in Stages
  BY StagingsAssumption DEF Stages
<1>2. LastActivated \in Syncs \cup {NoBatch}
  BY LastActivatedType
<1>3. UNCHANGED <<run, batch, archive, latest, bounds, undo, merging, drafts, dirty, settling>>
  BY DEF Stage, tables
<1>4. /\ Writes(r) /\ stage'[r] = "merging" /\ previous'[r] = LastActivated
      /\ todo'[r] = staged /\ spoiled'[r] = (staged = {})
  BY <1>3 DEF Types, LocalsTyped, Writes, Stage
<1>5. LocalTypes(r)'
  BY <1>1, <1>2, <1>3, <1>4, LocalsOf DEF LocalTypes
<1> QED
  BY <1>3, <1>4, <1>5, LocalStep, LastActivatedType DEF Unwritten

LEMMA SkipTypes ==
    ASSUME Types, NEW r \in Syncs, NEW o, MergeRejects(r, o) \/ MergeReplays(r, o)
    PROVE  /\ Types' /\ Unwritten(r)
           /\ stage'[r] = "merging" /\ stage[r] = "merging" /\ previous'[r] = previous[r]
<1>1. UNCHANGED <<run, batch, archive, latest, bounds, undo, stage, merging, drafts, dirty, previous, settling>>
  BY DEF MergeRejects, MergeReplays, tables
<1>2. /\ stage[r] = "merging" /\ todo' = [todo EXCEPT ![r] = todo[r] \ {o}]
      /\ spoiled' \in {spoiled, [spoiled EXCEPT ![r] = TRUE]}
  BY DEF MergeRejects, MergeReplays, Leave
<1>3. Writes(r)
  BY <1>1, <1>2 DEF Types, LocalsTyped, Writes
<1>4. todo'[r] \subseteq Observation /\ spoiled'[r] \in BOOLEAN
  BY <1>2 DEF Types, LocalsTyped
<1>5. LocalTypes(r)'
  BY <1>1, <1>2, <1>4, LocalsOf DEF LocalTypes
<1> QED
  BY <1>1, <1>2, <1>3, <1>5, LocalStep DEF Unwritten

\* What a decision says of the rows it was made from.
Decided(r, m) ==
    /\ m.inserts => \A row \in Archived(r) : ~SameKey(row, m.observation)
    /\ ~m.inserts => Has(Archived(r), m.observation.period, m.observation)
    /\ ~m.updates => AsNew(Serving(r, m.observation.period), m.observation.vintage)

LEMMA DecideTypes ==
    ASSUME Types, NEW r \in Syncs, NEW o \in todo[r], MergeDecides(r, o)
    PROVE  /\ Types' /\ Unwritten(r)
           /\ stage'[r] = "writing" /\ stage[r] = "merging" /\ previous'[r] = previous[r]
           /\ merging'[r] \in Decision /\ Decided(r, merging'[r])
<1> DEFINE m == [observation   |-> o,
                 inserts       |-> ~\E row \in Archived(r) : SameKey(row, o),
                 updates       |-> UpdatesLatest(o, Serving(r, o.period)),
                 vintageStatus |-> VintageStatus(o, Serving(r, o.period)),
                 latestStatus  |-> LatestStatus(o, Serving(r, o.period))]
<1>1. o \in Observation /\ o.period \in Periods
  BY DEF Types, LocalsTyped, Observation
<1>2. Serving(r, o.period) \in LatestRow \cup {NoRow}
  BY <1>1, ServingType
<1>3. m \in Decision
  <2>1. VintageStatus(o, Serving(r, o.period)) \in ObservationStatus
    BY DEF VintageStatus, ObservationStatus
  <2>2. LatestStatus(o, Serving(r, o.period)) \in ObservationStatus
    BY <1>2 DEF LatestStatus, ObservationStatus, LatestRow
  <2>3. UpdatesLatest(o, Serving(r, o.period)) \in BOOLEAN
    BY DEF UpdatesLatest
  <2> QED
    BY <1>1, <2>1, <2>2, <2>3 DEF Decision
<1>4. Decided(r, m)
  <2>1. m.observation = o /\ (m.inserts <=> ~\E row \in Archived(r) : SameKey(row, o))
    OBVIOUS
  <2>2. m.updates <=> UpdatesLatest(o, Serving(r, o.period))
    OBVIOUS
  <2>3. ~m.inserts => Has(Archived(r), o.period, o)
    BY <2>1 DEF MergeDecides, Rewritten, SameKey, SameValue, Has
  <2>4. ~UpdatesLatest(o, Serving(r, o.period)) => AsNew(Serving(r, o.period), o.vintage)
    <3>1. /\ o.vintage \in Nat
          /\ Serving(r, o.period) # NoRow => Serving(r, o.period).vintage \in Nat
      BY <1>1, <1>2, PeriodsAssumption DEF Observation, LatestRow
    <3> QED
      BY <3>1 DEF UpdatesLatest, AsNew
  <2> HIDE DEF m
  <2> QED
    BY <2>1, <2>2, <2>3, <2>4 DEF Decided
<1>5. /\ stage' = [stage EXCEPT ![r] = "writing"] /\ merging' = [merging EXCEPT ![r] = m]
      /\ todo' = [todo EXCEPT ![r] = todo[r] \ {o}] /\ stage[r] = "merging"
      /\ UNCHANGED <<run, batch, archive, latest, bounds, undo, drafts, dirty, spoiled, previous, settling>>
  BY DEF MergeDecides, Leave, tables
<1> HIDE DEF m
<1>6. Writes(r) /\ stage'[r] = "writing" /\ merging'[r] = m /\ todo'[r] \subseteq Observation
  BY <1>5 DEF Types, LocalsTyped, Writes
<1>7. LocalTypes(r)'
  BY <1>3, <1>5, <1>6, LocalsOf DEF LocalTypes, Stages
<1> QED
  BY <1>1, <1>3, <1>4, <1>5, <1>6, <1>7, LocalStep DEF Unwritten

\* Whether a decision is to overwrite the serving row it now finds.
Overwrites(r, m) == m.updates /\ UpdatesLatest(m.observation, Serving(r, m.observation.period))

LEMMA WriteTypes ==
    ASSUME Types, NEW r \in Syncs, MergeWrites(r), NEW m, m = merging[r]
    PROVE  /\ Types' /\ OthersStay(r) /\ UNCHANGED <<run, batch, archive, latest, bounds, undo>>
           /\ stage[r] = "writing" /\ stage'[r] = "merging" /\ previous'[r] = previous[r]
           /\ m \in Decision /\ m.observation \in Observation /\ m.observation.period \in Periods
           /\ drafts'[r] = IF m.inserts THEN drafts[r] \cup {Draft(r, m)} ELSE drafts[r]
           /\ Overwrites(r, m) => dirty'[r][m.observation.period] = Upserted(r, m)
           /\ \A p \in Periods : ~Overwrites(r, m) \/ p # m.observation.period => dirty'[r][p] = dirty[r][p]
           /\ Upserted(r, m) \in LatestRow /\ Draft(r, m) \in VintageRow
<1>1. /\ stage[r] = "writing" /\ stage' = [stage EXCEPT ![r] = "merging"]
      /\ merging' = [merging EXCEPT ![r] = NoMerge] /\ dirty' = Upsert(r, m)
      /\ drafts' = IF m.inserts THEN [drafts EXCEPT ![r] = drafts[r] \cup {Draft(r, m)}] ELSE drafts
      /\ UNCHANGED <<run, batch, archive, latest, bounds, undo, todo, spoiled, previous, settling>>
  BY DEF MergeWrites, tables
<1>2. m \in Decision
  BY <1>1 DEF Types, LocalsTyped
<1>3. m.observation \in Observation /\ m.observation.period \in Periods
  BY <1>2 DEF Decision, Observation
<1>4. Upserted(r, m) \in LatestRow /\ Draft(r, m) \in VintageRow
  <2>1. /\ m.observation.period \in Periods /\ m.observation.vintage \in Vintages
        /\ m.observation.value \in Values /\ m.observation.raw \in Raws
    BY <1>3 DEF Observation
  <2>2. m.latestStatus \in ObservationStatus /\ m.vintageStatus \in ObservationStatus
    BY <1>2 DEF Decision
  <2> QED
    BY <2>1, <2>2 DEF Upserted, Draft, LatestRow, VintageRow
<1>5. /\ drafts' = [drafts EXCEPT ![r] = drafts'[r]] /\ drafts'[r] \subseteq VintageRow
      /\ drafts'[r] = IF m.inserts THEN drafts[r] \cup {Draft(r, m)} ELSE drafts[r]
  <2>1. drafts \in [Syncs -> SUBSET VintageRow]
    BY DEF Types, LocalsTyped
  <2> QED
    BY <1>1, <1>4, <2>1
<1>6. /\ dirty' = [dirty EXCEPT ![r] = dirty'[r]]
      /\ dirty'[r] \in [Periods -> LatestRow \cup {NoRow}]
      /\ Overwrites(r, m) => dirty'[r][m.observation.period] = Upserted(r, m)
      /\ \A p \in Periods : ~Overwrites(r, m) \/ p # m.observation.period => dirty'[r][p] = dirty[r][p]
  <2> DEFINE row == Upserted(r, m)
             q == m.observation.period
  <2>0. dirty \in [Syncs -> [Periods -> LatestRow \cup {NoRow}]]
    BY DEF Types, LocalsTyped
  <2>1. CASE Overwrites(r, m)
    <3>1. dirty' = [dirty EXCEPT ![r] = [dirty[r] EXCEPT ![q] = row]]
      BY <1>1, <2>1 DEF Upsert, Overwrites
    <3> HIDE DEF row, q
    <3>2. row \in LatestRow /\ q \in Periods
      BY <1>3, <1>4 DEF row, q
    <3>3. /\ dirty'[r] = [dirty[r] EXCEPT ![q] = row]
          /\ dirty' = [dirty EXCEPT ![r] = dirty'[r]]
      BY <2>0, <3>1
    <3>4. /\ dirty'[r] \in [Periods -> LatestRow \cup {NoRow}] /\ dirty'[r][q] = row
          /\ \A p \in Periods : p # q => dirty'[r][p] = dirty[r][p]
      BY <2>0, <3>2, <3>3
    <3> QED
      BY <2>1, <3>3, <3>4 DEF row, q
  <2>2. CASE ~Overwrites(r, m)
    <3>1. dirty' = dirty
      BY <1>1, <2>2 DEF Upsert, Overwrites
    <3> QED
      BY <2>0, <2>2, <3>1
  <2> QED
    BY <2>1, <2>2
<1>7. Writes(r) /\ stage'[r] = "merging" /\ merging'[r] = NoMerge
  BY <1>1, <1>5, <1>6 DEF Types, LocalsTyped, Writes
<1>8. LocalTypes(r)'
  BY <1>1, <1>5, <1>6, <1>7, LocalsOf DEF LocalTypes, Stages
<1> QED
  BY <1>1, <1>2, <1>3, <1>4, <1>5, <1>6, <1>7, <1>8, LocalStep

LEMMA FailsTypes ==
    ASSUME Types, NEW r \in Syncs, MergeFails(r)
    PROVE  /\ Types' /\ Unwritten(r)
           /\ stage'[r] = "merging" /\ stage[r] = "writing" /\ previous'[r] = previous[r]
<1>1. /\ stage[r] = "writing" /\ stage' = [stage EXCEPT ![r] = "merging"]
      /\ merging' = [merging EXCEPT ![r] = NoMerge] /\ spoiled' = [spoiled EXCEPT ![r] = TRUE]
      /\ UNCHANGED <<run, batch, archive, latest, bounds, undo, todo, drafts, dirty, previous, settling>>
  BY DEF MergeFails, tables
<1>2. Writes(r) /\ stage'[r] = "merging" /\ merging'[r] = NoMerge /\ spoiled'[r] = TRUE
  BY <1>1 DEF Types, LocalsTyped, Writes
<1>3. LocalTypes(r)'
  BY <1>1, <1>2, LocalsOf DEF LocalTypes, Stages
<1> QED
  BY <1>1, <1>2, <1>3, LocalStep DEF Unwritten

\* The bounds of what a sync would serve.
BoundsOf(r) == IF Served(r) = {} THEN bounds ELSE [first |-> Min(Served(r)), last |-> Max(Served(r))]

LEMMA SettleTypes ==
    ASSUME Types, NEW r \in Syncs, Settle(r)
    PROVE  /\ Types' /\ Unwritten(r)
           /\ stage'[r] = "settled" /\ stage[r] = "merging" /\ previous'[r] = previous[r]
           /\ settling'[r].seen = bounds /\ settling'[r].new = BoundsOf(r)
<1> DEFINE z == [at |-> Now, seen |-> bounds, new |-> BoundsOf(r)]
<1>1. /\ stage[r] = "merging" /\ stage' = [stage EXCEPT ![r] = "settled"]
      /\ settling' = [settling EXCEPT ![r] = z]
      /\ UNCHANGED <<run, batch, archive, latest, bounds, undo, todo, merging, drafts, dirty, spoiled, previous>>
  BY DEF Settle, Merged, tables, BoundsOf
<1>2. BoundsOf(r) \in Bounds
  <2>1. Served(r) \in SUBSET Periods
    BY DEF Served
  <2>2. CASE Served(r) = {}
    BY <2>2 DEF BoundsOf, Types, TablesTyped
  <2>3. CASE Served(r) # {}
    <3>1. Min(Served(r)) \in Periods /\ Max(Served(r)) \in Periods
      BY <2>1, <2>3, ServedBounds
    <3> QED
      BY <2>3, <3>1 DEF BoundsOf, Bounds
  <2> QED
    BY <2>2, <2>3
<1>3. z \in Settling /\ z.seen = bounds /\ z.new = BoundsOf(r)
  BY <1>2, NowType DEF Types, TablesTyped, Settling
<1> HIDE DEF z
<1>4. Writes(r) /\ stage'[r] = "settled" /\ settling'[r] = z
  BY <1>1 DEF Types, LocalsTyped, Writes
<1>5. LocalTypes(r)'
  BY <1>1, <1>3, <1>4, LocalsOf DEF LocalTypes, Stages
<1> QED
  BY <1>1, <1>3, <1>4, <1>5, LocalStep DEF Unwritten

-----------------------------------------------------------------------------
(* The steps that end a sync, and those of the operator *)

\* A sync ends without publishing anything.
Withdraws(r) ==
    /\ InFlight(r) /\ OthersStay(r)
    /\ stage'[r] = "over" /\ drafts'[r] = {} /\ dirty'[r] = NothingDirty /\ previous'[r] = NoBatch
    /\ UNCHANGED <<archive, latest, bounds, undo>>
    /\ run'[r] \in {run[r], "quarantined"}
    /\ \/ batch'[r] = batch[r]
       \/ batch'[r].status = "failed" /\ batch'[r].previous = previous[r]
    /\ \A s \in Syncs : s # r => run'[s] = run[s] /\ batch'[s] = batch[s]

LEMMA WithdrawTypes ==
    ASSUME Types, NEW r \in Syncs, Quarantine(r) \/ Fail(r) \/ Die(r)
    PROVE  Types' /\ Withdraws(r)
<1> USE DEF Types, TablesTyped
<1>1. End(r) /\ InFlight(r) /\ UNCHANGED <<archive, latest, bounds, undo>>
  BY DEF Quarantine, Fail, Die, InFlight, Merged, tables
<1>2. /\ LocalsTyped' /\ OthersStay(r)
      /\ stage'[r] = "over" /\ drafts'[r] = {} /\ dirty'[r] = NothingDirty
  BY <1>1, EndStep
<1>3. previous'[r] = NoBatch
  BY <1>1 DEF End, LocalsTyped
<1>4. /\ run' \in [Syncs -> {"none", "quarantined", "succeeded"}] /\ run'[r] \in {run[r], "quarantined"}
      /\ \A s \in Syncs : s # r => run'[s] = run[s]
  BY DEF Quarantine, Fail, Die, tables
<1>5. /\ batch' \in [Syncs -> BatchRow] /\ \A s \in Syncs : s # r => batch'[s] = batch[s]
      /\ \/ batch'[r] = batch[r]
         \/ batch'[r].status = "failed" /\ batch'[r].previous = previous[r]
  <2>1. CASE batch' = batch
    BY <2>1
  <2>2. CASE Fail(r)
    <3> DEFINE new == [batch[r] EXCEPT !.status = "failed", !.previous = previous[r]]
    <3>1. batch' = [batch EXCEPT ![r] = new]
      BY <2>2 DEF Fail
    <3>2. new \in BatchRow /\ new.status = "failed" /\ new.previous = previous[r]
      BY DEF BatchRow, BatchStatus, LocalsTyped
    <3> HIDE DEF new
    <3> QED
      BY <3>1, <3>2
  <2> QED
    BY <2>1, <2>2 DEF Quarantine, Die, tables
<1> QED
  BY <1>1, <1>2, <1>3, <1>4, <1>5 DEF Withdraws, UndoTyped

\* A sync publishes what it has written.
Publishes(r) ==
    /\ stage[r] = "settled" /\ OthersStay(r)
    /\ stage'[r] = "over" /\ drafts'[r] = {} /\ dirty'[r] = NothingDirty /\ previous'[r] = NoBatch
    /\ run'[r] = "succeeded" /\ batch'[r].status = "active" /\ batch'[r].previous = previous[r]
    /\ \A s \in Syncs : s # r =>
          /\ run'[s] = run[s] /\ batch'[s].previous = batch[s].previous
          /\ batch'[s].status = IF s = previous[r] THEN "superseded" ELSE batch[s].status
    /\ archive' = archive \cup drafts[r]
    /\ \A p \in Periods : latest'[p] = Serving(r, p)
    /\ bounds' = [first |-> Put(bounds.first, settling[r].seen.first, settling[r].new.first),
                  last |-> Put(bounds.last, settling[r].seen.last, settling[r].new.last)]
    /\ undo' = undo

LEMMA PublishTypes ==
    ASSUME Types, NEW r \in Syncs, Commit(r)
    PROVE  Types' /\ Publishes(r)
<1> USE DEF Types, TablesTyped
<1>1. End(r) /\ UNCHANGED undo /\ stage[r] = "settled"
  BY DEF Commit
<1>2. /\ LocalsTyped' /\ OthersStay(r)
      /\ stage'[r] = "over" /\ drafts'[r] = {} /\ dirty'[r] = NothingDirty
  BY <1>1, EndStep
<1>3. previous'[r] = NoBatch
  BY <1>1 DEF End, LocalsTyped
<1>4. /\ run' \in [Syncs -> {"none", "quarantined", "succeeded"}] /\ run'[r] = "succeeded"
      /\ \A s \in Syncs : s # r => run'[s] = run[s]
  BY DEF Commit
<1>5. /\ batch' \in [Syncs -> BatchRow]
      /\ batch'[r].status = "active" /\ batch'[r].previous = previous[r]
      /\ \A s \in Syncs : s # r =>
            /\ batch'[s].previous = batch[s].previous
            /\ batch'[s].status = IF s = previous[r] THEN "superseded" ELSE batch[s].status
  <2>1. batch' = Activated(r)
    BY DEF Commit
  <2>2. batch' = [s \in Syncs |-> batch'[s]]
    BY <2>1 DEF Activated
  <2>3. /\ batch'[r] \in BatchRow
        /\ batch'[r].status = "active" /\ batch'[r].previous = previous[r]
    BY <2>1 DEF Activated, BatchRow, BatchStatus, LocalsTyped, Settling
  <2>4. ASSUME NEW s \in Syncs, s # r
        PROVE  /\ batch'[s] \in BatchRow /\ batch'[s].previous = batch[s].previous
               /\ batch'[s].status = IF s = previous[r] THEN "superseded" ELSE batch[s].status
    <3> DEFINE new == [batch[s] EXCEPT !.status = "superseded"]
    <3>1. /\ new \in BatchRow /\ new.previous = batch[s].previous /\ new.status = "superseded"
      BY DEF BatchRow, BatchStatus
    <3>2. batch'[s] = IF s = previous[r] THEN new ELSE batch[s]
      BY <2>1, <2>4 DEF Activated
    <3> HIDE DEF new
    <3> QED
      BY <3>1, <3>2
  <2> QED
    BY <2>2, <2>3, <2>4
<1>6. archive' = archive \cup drafts[r] /\ archive' \subseteq VintageRow
  BY DEF Commit, LocalsTyped
<1>7. latest' \in [Periods -> LatestRow \cup {NoRow}] /\ \A p \in Periods : latest'[p] = Serving(r, p)
  BY ServingType DEF Commit
<1>8. /\ bounds' = [first |-> Put(bounds.first, settling[r].seen.first, settling[r].new.first),
                    last |-> Put(bounds.last, settling[r].seen.last, settling[r].new.last)]
      /\ bounds' \in Bounds
  <2>1. settling[r].seen \in Bounds /\ settling[r].new \in Bounds
    BY DEF LocalsTyped, Settling
  <2> QED
    BY <2>1 DEF Commit, Put, Bounds
<1> QED
  BY <1>1, <1>2, <1>3, <1>4, <1>5, <1>6, <1>7, <1>8 DEF Publishes, UndoTyped

LEMMA ReadTypes ==
    ASSUME Types, NEW b \in Syncs, RollbackReads(b)
    PROVE  /\ Types' /\ UNCHANGED <<run, batch, archive, latest, bounds, stage, locals>>
           /\ b \in Rollbacks /\ batch[b].status = "active"
           /\ OperatorWaits => \A s \in Syncs : ~InFlight(s) /\ undo[s] = NoUndo
           /\ undo'[b].touched = Touched(b) /\ undo'[b].seen = latest
           /\ undo'[b].restored = [p \in Periods |-> Before(b, p)]
           /\ \A c \in Syncs : c # b => undo'[c] = undo[c]
<1> DEFINE new == [touched  |-> Touched(b),
                   statuses |-> [c \in Syncs |-> batch[c].status],
                   seen     |-> latest,
                   restored |-> [p \in Periods |-> Before(b, p)]]
<1>1. Touched(b) \in SUBSET Periods
  BY DEF Types, TablesTyped, Touched, VintageRow
<1>2. [c \in Syncs |-> batch[c].status] \in [Syncs -> BatchStatus]
  BY DEF Types, TablesTyped, BatchRow
<1>3. latest \in [Periods -> LatestRow \cup {NoRow}]
  BY DEF Types, TablesTyped
<1>4. [p \in Periods |-> Before(b, p)] \in [Periods -> LatestRow \cup {NoRow}]
  <2>1. \A p \in Periods : Before(b, p) \in LatestRow \cup {NoRow}
    BY BeforeIsNewest
  <2> QED
    BY <2>1
<1>5. /\ new \in Undo /\ new.touched = Touched(b) /\ new.seen = latest
      /\ new.restored = [p \in Periods |-> Before(b, p)]
  BY <1>1, <1>2, <1>3, <1>4 DEF Undo
<1>6. undo' = [undo EXCEPT ![b] = new]
  BY DEF RollbackReads
<1> HIDE DEF new
<1>7. undo' \in [Syncs -> Undo \cup {NoUndo}] /\ undo'[b] = new /\ \A c \in Syncs : c # b => undo'[c] = undo[c]
  BY <1>5, <1>6 DEF Types, UndoTyped
<1>8. UNCHANGED <<run, batch, archive, latest, bounds, stage, locals>>
  BY DEF RollbackReads, tables
<1>9. LocalsTyped' /\ TablesTyped'
  BY <1>8 DEF Types, LocalsTyped, TablesTyped, locals
<1> QED
  BY <1>5, <1>7, <1>8, <1>9 DEF Types, UndoTyped, RollbackReads

\* A step after which the operator's request about b is over.
Undone(b) ==
    /\ undo[b] # NoUndo /\ undo'[b] = NoUndo /\ \A c \in Syncs : c # b => undo'[c] = undo[c]
    /\ UNCHANGED <<run, archive, bounds, stage, locals>>

LEMMA UnreadTypes ==
    ASSUME Types, NEW b \in Syncs, RollbackFails(b)
    PROVE  Types' /\ Undone(b) /\ UNCHANGED <<batch, latest>>
<1>1. undo' \in [Syncs -> Undo \cup {NoUndo}] /\ undo'[b] = NoUndo /\ \A c \in Syncs : c # b => undo'[c] = undo[c]
  BY DEF Types, UndoTyped, RollbackFails
<1>2. UNCHANGED <<run, batch, archive, latest, bounds, stage, locals>> /\ undo[b] # NoUndo
  BY DEF RollbackFails, tables
<1>3. LocalsTyped' /\ TablesTyped'
  BY <1>2 DEF Types, LocalsTyped, TablesTyped, locals
<1> QED
  BY <1>1, <1>2, <1>3 DEF Types, UndoTyped, Undone

LEMMA RestoredType ==
    ASSUME NEW current \in LatestRow \cup {NoRow}, NEW seen \in LatestRow \cup {NoRow},
           NEW new \in LatestRow \cup {NoRow}, new # NoRow => (seen = NoRow <=> current = NoRow)
    PROVE  Restored(current, seen, new) \in LatestRow \cup {NoRow}
<1>1. CASE new = NoRow
  BY <1>1 DEF Restored
<1>2. CASE new # NoRow /\ seen = NoRow
  BY <1>2 DEF Restored
<1>3. CASE new # NoRow /\ seen # NoRow
  <2>1. current \in LatestRow /\ seen \in LatestRow /\ new \in LatestRow
    BY <1>3
  <2> QED
    BY <1>3, <2>1 DEF Restored, Put, LatestRow
<1> QED
  BY <1>1, <1>2, <1>3

\* A row that has not changed since it was read becomes the one restored.
LEMMA RestoredSame ==
    ASSUME NEW seen \in LatestRow \cup {NoRow}, NEW new \in LatestRow \cup {NoRow}
    PROVE  Restored(seen, seen, new) = new
<1>1. CASE new = NoRow
  BY <1>1 DEF Restored
<1>2. CASE new # NoRow /\ seen = NoRow
  BY <1>2 DEF Restored
<1>3. CASE new # NoRow /\ seen # NoRow
  <2>1. Restored(seen, seen, new) =
          [vintage |-> new.vintage, value |-> new.value, status |-> new.status, batch |-> new.batch]
    BY <1>3 DEF Restored, Put
  <2> QED
    BY <1>3, <2>1 DEF LatestRow
<1> QED
  BY <1>1, <1>2, <1>3

LEMMA RollbackTypes ==
    ASSUME Types, NEW b \in Syncs, RollbackCommits(b)
    PROVE  /\ Types' /\ Undone(b)
           /\ batch'[b].status = "rolled_back"
           /\ \A c \in Syncs :
                 /\ batch'[c].previous = batch[c].previous
                 /\ c # b => batch'[c].status \in {batch[c].status, "active"}
                 /\ c # b /\ c # batch[b].previous => batch'[c].status = batch[c].status
           /\ \A p \in Periods :
                 latest'[p] = IF p \in undo[b].touched
                              THEN Restored(latest[p], undo[b].seen[p], undo[b].restored[p])
                              ELSE latest[p]
<1>1. undo[b] \in Undo /\ undo[b] # NoUndo
  BY DEF Types, UndoTyped, RollbackCommits
<1>2. undo' \in [Syncs -> Undo \cup {NoUndo}] /\ undo'[b] = NoUndo /\ \A c \in Syncs : c # b => undo'[c] = undo[c]
  BY DEF Types, UndoTyped, RollbackCommits
<1>3. UNCHANGED <<run, archive, bounds, stage, locals>>
  BY DEF RollbackCommits
<1>4. /\ \A p \in Periods :
            /\ latest'[p] = IF p \in undo[b].touched
                            THEN Restored(latest[p], undo[b].seen[p], undo[b].restored[p])
                            ELSE latest[p]
            /\ latest'[p] \in LatestRow \cup {NoRow}
      /\ latest' = [p \in Periods |-> latest'[p]]
  <2>1. latest' = [p \in Periods |->
                     IF p \in undo[b].touched
                     THEN Restored(latest[p], undo[b].seen[p], undo[b].restored[p])
                     ELSE latest[p]]
    BY DEF RollbackCommits
  <2>2. ASSUME NEW p \in Periods, p \in undo[b].touched
        PROVE  Restored(latest[p], undo[b].seen[p], undo[b].restored[p]) \in LatestRow \cup {NoRow}
    <3>1. /\ undo[b].seen[p] \in LatestRow \cup {NoRow} /\ undo[b].restored[p] \in LatestRow \cup {NoRow}
          /\ latest[p] \in LatestRow \cup {NoRow}
      BY <1>1 DEF Undo, Types, TablesTyped
    <3>2. undo[b].restored[p] # NoRow => (undo[b].seen[p] = NoRow <=> latest[p] = NoRow)
      BY <2>2 DEF RollbackCommits
    <3> QED
      BY <3>1, <3>2, RestoredType
  <2>3. \A p \in Periods : latest[p] \in LatestRow \cup {NoRow}
    BY DEF Types, TablesTyped
  <2> QED
    BY <2>1, <2>2, <2>3
<1>5. /\ batch' = [c \in Syncs |-> batch'[c]]
      /\ \A c \in Syncs :
            /\ batch'[c] \in BatchRow /\ batch'[c].previous = batch[c].previous
            /\ c = b => batch'[c].status = "rolled_back"
            /\ c # b => batch'[c].status \in {batch[c].status, "active"}
            /\ c # b /\ c # batch[b].previous => batch'[c].status = batch[c].status
  <2>1. batch' = [c \in Syncs |->
                    IF c = b THEN [batch[c] EXCEPT !.status = "rolled_back"]
                    ELSE IF c = batch[b].previous
                         THEN [batch[c] EXCEPT
                                 !.status = Put(batch[c].status, undo[b].statuses[c], "active"),
                                 !.activated = Now]
                    ELSE batch[c]]
    BY DEF RollbackCommits
  <2>2. Now \in Nat
    BY NowType
  <2>3. ASSUME NEW c \in Syncs
        PROVE  /\ batch'[c] \in BatchRow /\ batch'[c].previous = batch[c].previous
               /\ c = b => batch'[c].status = "rolled_back"
               /\ c # b => batch'[c].status \in {batch[c].status, "active"}
               /\ c # b /\ c # batch[b].previous => batch'[c].status = batch[c].status
    <3> DEFINE gone == [batch[c] EXCEPT !.status = "rolled_back"]
               back == [batch[c] EXCEPT !.status = Put(batch[c].status, undo[b].statuses[c], "active"),
                                        !.activated = Now]
    <3>0. batch[c] \in BatchRow
      BY DEF Types, TablesTyped
    <3>1. gone \in BatchRow /\ gone.previous = batch[c].previous /\ gone.status = "rolled_back"
      BY <3>0 DEF BatchRow, BatchStatus
    <3>2. Put(batch[c].status, undo[b].statuses[c], "active") \in {batch[c].status, "active"}
      BY DEF Put
    <3>3. back \in BatchRow /\ back.previous = batch[c].previous /\ back.status \in {batch[c].status, "active"}
      <4> HIDE DEF Put
      <4> QED
        BY <2>2, <3>0, <3>2 DEF BatchRow, BatchStatus
    <3>4. batch'[c] = IF c = b THEN gone ELSE IF c = batch[b].previous THEN back ELSE batch[c]
      BY <2>1
    <3> HIDE DEF gone, back
    <3> QED
      BY <3>0, <3>1, <3>3, <3>4
  <2> QED
    BY <2>1, <2>3
<1>6. LocalsTyped' /\ TablesTyped'
  <2>1. run' = run /\ archive' = archive /\ bounds' = bounds /\ UNCHANGED <<stage, locals>>
    BY <1>3
  <2> QED
    BY <1>4, <1>5, <2>1 DEF Types, LocalsTyped, TablesTyped, locals
<1> QED
  BY <1>1, <1>2, <1>3, <1>4, <1>5, <1>6 DEF Types, UndoTyped, Undone

-----------------------------------------------------------------------------
(* Rows *)

\* What a sync waits for to begin.
KeyFree(r) == \A s \in Syncs : s # r /\ BusinessKey(s) = BusinessKey(r) => ~InFlight(s) /\ run[s] = "none"
Free(r) ==
    /\ KeyFree(r)
    /\ Serialised => \A s \in Syncs : ~InFlight(s)
    /\ OperatorWaits => \A b \in Syncs : undo[b] = NoUndo

\* A sync begins, or goes on without writing a row.
Goes(r) ==
    /\ Unwritten(r)
    /\ Resting(r)' => Resting(r) /\ previous'[r] = NoBatch
    /\ stage'[r] # "over" => stage[r] # "over"
    /\ InFlight(r)' => InFlight(r) \/ Free(r)
    /\ stage'[r] = "writing" => Decided(r, merging'[r])
    /\ \/ previous'[r] = NoBatch
       \/ previous'[r] = previous[r] /\ InFlight(r)
       \/ batch[previous'[r]].status = "active"
    /\ stage'[r] = "settled" => settling'[r].seen = bounds /\ settling'[r].new = BoundsOf(r)

LEMMA GoesKeepsRows ==
    ASSUME Types, RowsInv, NEW r \in Syncs, Goes(r)
    PROVE  RowsInv'
<1> USE DEF RowsInv
<1>1. UNCHANGED <<run, batch, archive, latest, bounds, undo, drafts, dirty>> /\ OthersStay(r)
  BY DEF Goes, Unwritten
<1>2. OwnInv'
  <2> SUFFICES ASSUME NEW s \in Syncs
               PROVE  /\ Resting(s)' => Resting(s) /\ previous'[s] = NoBatch
                      /\ stage'[s] # "over" => stage[s] # "over"
    BY <1>1 DEF OwnInv
  <2>1. CASE s = r
    BY <2>1 DEF Goes
  <2>2. CASE s # r
    BY <1>1, <2>2 DEF OthersStay, OwnInv, Resting
  <2> QED
    BY <2>1, <2>2
<1>3. PastInv'
  <2> SUFFICES ASSUME NEW s \in Syncs
               PROVE  previous'[s] # NoBatch => batch[previous'[s]].status # "none"
    BY <1>1 DEF PastInv
  <2>1. CASE s = r
    BY <2>1 DEF Goes, PastInv
  <2>2. CASE s # r
    BY <1>1, <2>2 DEF OthersStay, PastInv
  <2> QED
    BY <2>1, <2>2
<1>4. RunInv'
  <2> SUFFICES ASSUME NEW s \in Syncs, NEW q \in Syncs, s # q, BusinessKey(s) = BusinessKey(q), InFlight(s)'
               PROVE  ~InFlight(q)' /\ run[q] = "none"
    BY <1>1 DEF RunInv
  <2>1. CASE s = r
    BY <1>1, <2>1 DEF Goes, Free, KeyFree, RunInv, OthersStay, InFlight
  <2>2. CASE s # r
    <3>1. InFlight(s) /\ ~InFlight(q) /\ run[q] = "none"
      BY <1>1, <2>2 DEF RunInv, OthersStay, InFlight
    <3>2. InFlight(q)' => q = r
      BY <1>1, <3>1 DEF OthersStay, InFlight
    <3> QED
      BY <3>1, <3>2 DEF Goes, Free, KeyFree
  <2> QED
    BY <2>1, <2>2
<1>5. KeyInv'
  <2> SUFFICES ASSUME NEW s \in Syncs, stage'[s] = "writing", merging'[s].inserts, NEW d \in drafts[s]
               PROVE  ~SameKey(d, merging'[s].observation)
    BY <1>1 DEF KeyInv, SameKey
  <2>1. CASE s = r
    BY <2>1 DEF Goes, Decided, Archived
  <2>2. CASE s # r
    BY <1>1, <2>2 DEF OthersStay, KeyInv
  <2> QED
    BY <2>1, <2>2
<1>6. LockInv'
  BY <1>1 DEF LockInv
<1>7. SourceInv'
  <2> SUFFICES ASSUME NEW s \in Syncs, stage'[s] = "writing", ~merging'[s].inserts
               PROVE  Has(Archived(s), merging'[s].observation.period, merging'[s].observation)
    BY <1>1 DEF SourceInv, Has, Archived
  <2>1. CASE s = r
    BY <2>1 DEF Goes, Decided
  <2>2. CASE s # r
    BY <1>1, <2>2 DEF OthersStay, SourceInv
  <2> QED
    BY <2>1, <2>2
<1> QED
  BY <1>2, <1>3, <1>4, <1>5, <1>6, <1>7

\* What a write finds: neither the key nor the row is another sync's.
Finds(r, m) ==
    /\ m.inserts => \A s \in Syncs : s # r => \A row \in drafts[s] : ~SameKey(row, m.observation)
    /\ m.inserts => \A row \in archive : ~SameKey(row, m.observation)
    /\ m.updates => \A s \in Syncs : s # r => dirty[s][m.observation.period] = NoRow
\* What it leaves.
Wrote(r, m) ==
    /\ OthersStay(r) /\ UNCHANGED <<run, batch, archive, latest, bounds, undo>>
    /\ stage[r] = "writing" /\ stage'[r] = "merging" /\ previous'[r] = previous[r]
    /\ m = merging[r] /\ m \in Decision /\ m.observation \in Observation /\ m.observation.period \in Periods
    /\ drafts'[r] = IF m.inserts THEN drafts[r] \cup {Draft(r, m)} ELSE drafts[r]
    /\ Overwrites(r, m) => dirty'[r][m.observation.period] = Upserted(r, m)
    /\ \A p \in Periods : ~Overwrites(r, m) \/ p # m.observation.period => dirty'[r][p] = dirty[r][p]
    /\ Upserted(r, m) \in LatestRow /\ Draft(r, m) \in VintageRow

LEMMA WriteEffect ==
    ASSUME Types, NEW r \in Syncs, MergeWrites(r)
    PROVE  Types' /\ Wrote(r, merging[r]) /\ Finds(r, merging[r])
<1>1. Types' /\ Wrote(r, merging[r])
  BY WriteTypes DEF Wrote
<1>2. Finds(r, merging[r])
  BY DEF MergeWrites, KeyLocked, RowLocked, Finds
<1> QED
  BY <1>1, <1>2

LEMMA WroteKeepsRows ==
    ASSUME Types, RowsInv, NEW r \in Syncs, NEW m, Wrote(r, m), Finds(r, m)
    PROVE  RowsInv'
<1> USE DEF RowsInv
<1> DEFINE o == m.observation
           q == m.observation.period
           d == Draft(r, m)
           u == Upserted(r, m)
<1>1. UNCHANGED <<run, batch, archive, latest, bounds, undo>> /\ OthersStay(r)
  BY DEF Wrote
<1>2. /\ stage[r] = "writing" /\ stage'[r] = "merging" /\ previous'[r] = previous[r]
      /\ m = merging[r] /\ q \in Periods
  BY DEF Wrote
<1>3. /\ d.batch = r /\ d.period = q /\ d.vintage = o.vintage /\ d.value = o.value
      /\ u.batch = r /\ u.vintage = o.vintage /\ u.value = o.value /\ u \in LatestRow
      /\ SameKey(d, o)
  BY DEF Wrote, Draft, Upserted, SameKey
<1>4. drafts'[r] = IF m.inserts THEN drafts[r] \cup {d} ELSE drafts[r]
  BY DEF Wrote
<1>5. /\ Overwrites(r, m) => dirty'[r][q] = u
      /\ \A p \in Periods : ~Overwrites(r, m) \/ p # q => dirty'[r][p] = dirty[r][p]
  BY DEF Wrote
<1>6. Finds(r, m)
  OBVIOUS
<1> HIDE DEF d, u
<1>7. OwnInv'
  <2>1. ASSUME NEW s \in Syncs, s # r
        PROVE  /\ \A e \in drafts'[s] : e.batch = s
               /\ \A p \in Periods : dirty'[s][p] # NoRow => dirty'[s][p].batch = s
               /\ Resting(s)' => drafts'[s] = {} /\ dirty'[s] = NothingDirty /\ previous'[s] = NoBatch
               /\ stage'[s] # "over" => run'[s] = "none" /\ batch'[s].status = "none"
    BY <1>1, <2>1 DEF OwnInv, OthersStay, Resting
  <2>2. \A e \in drafts'[r] : e.batch = r
    BY <1>3, <1>4 DEF OwnInv
  <2>3. \A p \in Periods : dirty'[r][p] # NoRow => dirty'[r][p].batch = r
    BY <1>3, <1>5 DEF OwnInv
  <2>4. ~Resting(r)' /\ run'[r] = "none" /\ batch'[r].status = "none"
    BY <1>1, <1>2 DEF OwnInv, Resting
  <2> QED
    BY <2>1, <2>2, <2>3, <2>4 DEF OwnInv, NothingDirty
<1>8. PastInv'
  BY <1>1, <1>2 DEF PastInv, OthersStay
<1>9. RunInv'
  <2>1. \A s \in Syncs : InFlight(s)' <=> InFlight(s)
    BY <1>1, <1>2 DEF OthersStay, InFlight
  <2> QED
    BY <1>1, <2>1 DEF RunInv
<1>10. KeyInv'
  <2>1. \A v \in archive : run[v.batch] = "succeeded"
    BY DEF KeyInv
  <2>2. \A v, w \in archive : SameKey(v, w) => v = w
    BY DEF KeyInv
  <2>3. ASSUME m.inserts
        PROVE  /\ \A v \in archive : ~SameKey(v, d)
               /\ \A s \in Syncs : \A e \in drafts[s] : ~SameKey(e, d) /\ ~SameKey(d, e)
    <3>1. \A v \in archive : ~SameKey(v, o)
      BY <1>6, <2>3 DEF Finds
    <3>2. ASSUME NEW s \in Syncs, NEW e \in drafts[s] PROVE ~SameKey(e, o)
      <4>1. CASE s = r
        BY <1>2, <2>3, <4>1 DEF KeyInv
      <4>2. CASE s # r
        BY <1>6, <2>3, <4>2 DEF Finds
      <4> QED
        BY <4>1, <4>2
    <3> QED
      BY <1>3, <3>1, <3>2 DEF SameKey
  <2>4. \A s \in Syncs : \A e \in drafts'[s] : e \in drafts[s] \/ (s = r /\ m.inserts /\ e = d)
    BY <1>1, <1>4 DEF OthersStay
  <2>5. ASSUME NEW s \in Syncs, NEW e \in drafts'[s]
        PROVE  /\ \A v \in archive : ~SameKey(v, e)
               /\ \A t \in Syncs : \A f \in drafts'[t] : SameKey(f, e) => f = e
    <3>1. CASE e \in drafts[s]
      <4>1. /\ \A v \in archive : ~SameKey(v, e)
            /\ \A t \in Syncs : \A f \in drafts[t] : SameKey(f, e) => f = e
        BY <3>1 DEF KeyInv
      <4>2. m.inserts => ~SameKey(d, e)
        BY <2>3, <3>1
      <4> QED
        BY <2>4, <4>1, <4>2
    <3>2. CASE s = r /\ m.inserts /\ e = d
      BY <2>3, <2>4, <3>2
    <3> QED
      BY <2>4, <3>1, <3>2
  <2>6. ASSUME NEW s \in Syncs, stage'[s] = "writing", merging'[s].inserts
        PROVE  \A e \in drafts'[s] : ~SameKey(e, merging'[s].observation)
    <3>1. s # r
      BY <1>2, <2>6
    <3> QED
      BY <1>1, <2>6, <3>1 DEF OthersStay, KeyInv
  <2> QED
    BY <1>1, <2>1, <2>2, <2>5, <2>6 DEF KeyInv, SameKey
<1>11. LockInv'
  <2> SUFFICES ASSUME NEW s \in Syncs, NEW t \in Syncs, NEW p \in Periods,
                      dirty'[s][p] # NoRow, dirty'[t][p] # NoRow, s # t
               PROVE  FALSE
    BY DEF LockInv
  <2>1. \A x \in Syncs : dirty'[x][p] = dirty[x][p] \/ (x = r /\ p = q /\ m.updates)
    BY <1>1, <1>5 DEF OthersStay, Overwrites
  <2>2. m.updates => \A x \in Syncs : x # r => dirty[x][q] = NoRow
    BY <1>6 DEF Finds
  <2> QED
    BY <2>1, <2>2 DEF LockInv
<1>12. SourceInv'
  <2>1. \A s \in Syncs : Archived(s) \subseteq Archived(s)'
    BY <1>1, <1>4 DEF OthersStay, Archived
  <2>2. ASSUME NEW s \in Syncs, NEW p \in Periods, dirty'[s][p] # NoRow
        PROVE  Has(Archived(s)', p, dirty'[s][p])
    <3>1. CASE dirty'[s][p] = dirty[s][p]
      BY <2>1, <2>2, <3>1 DEF SourceInv, Has
    <3>2. CASE s = r /\ p = q /\ Overwrites(r, m)
      <4>1. CASE m.inserts
        <5>1. d \in Archived(r)'
          BY <1>4, <4>1 DEF Archived
        <5> QED
          BY <1>3, <1>5, <3>2, <5>1 DEF Has
      <4>2. CASE ~m.inserts
        <5>1. Has(Archived(r), q, o)
          BY <1>2, <4>2 DEF SourceInv
        <5> QED
          BY <1>3, <1>5, <2>1, <3>2, <5>1 DEF Has
      <4> QED
        BY <4>1, <4>2
    <3> QED
      BY <1>1, <1>5, <3>1, <3>2 DEF OthersStay
  <2>3. ASSUME NEW s \in Syncs, stage'[s] = "writing", ~merging'[s].inserts
        PROVE  Has(Archived(s)', merging'[s].observation.period, merging'[s].observation)
    <3>1. s # r
      BY <1>2, <2>3
    <3>2. Has(Archived(s), merging'[s].observation.period, merging'[s].observation)
      BY <1>1, <2>3, <3>1 DEF OthersStay, SourceInv
    <3> QED
      BY <2>1, <3>2 DEF Has
  <2> QED
    BY <2>2, <2>3 DEF SourceInv, Has
<1> QED
  BY <1>7, <1>8, <1>9, <1>10, <1>11, <1>12

LEMMA WithdrawKeepsRows ==
    ASSUME Types, RowsInv, NEW r \in Syncs, Withdraws(r)
    PROVE  RowsInv'
<1> USE DEF RowsInv
<1>1. /\ UNCHANGED <<archive, latest, bounds, undo>> /\ OthersStay(r)
      /\ stage'[r] = "over" /\ drafts'[r] = {} /\ dirty'[r] = NothingDirty /\ previous'[r] = NoBatch
      /\ InFlight(r) /\ stage[r] # "over"
  BY DEF Withdraws, InFlight
<1>2. \A s \in Syncs : s # r => run'[s] = run[s] /\ batch'[s] = batch[s]
  BY DEF Withdraws
<1>3. \A s \in Syncs : drafts'[s] \subseteq drafts[s]
  BY <1>1 DEF OthersStay
<1>4. \A s \in Syncs, p \in Periods : dirty'[s][p] # NoRow => s # r /\ dirty'[s][p] = dirty[s][p]
  BY <1>1 DEF OthersStay, NothingDirty
<1>5. run[r] = "none" /\ batch[r].status = "none"
  BY <1>1 DEF OwnInv
<1>6. OwnInv'
  <2> SUFFICES ASSUME NEW s \in Syncs
               PROVE  /\ \A e \in drafts'[s] : e.batch = s
                      /\ \A p \in Periods : dirty'[s][p] # NoRow => dirty'[s][p].batch = s
                      /\ Resting(s)' => drafts'[s] = {} /\ dirty'[s] = NothingDirty /\ previous'[s] = NoBatch
                      /\ stage'[s] # "over" => run'[s] = "none" /\ batch'[s].status = "none"
    BY DEF OwnInv, NothingDirty
  <2>1. CASE s = r
    BY <1>1, <1>4, <2>1
  <2>2. CASE s # r
    BY <1>1, <1>2, <2>2 DEF OthersStay, OwnInv, Resting
  <2> QED
    BY <2>1, <2>2
<1>7. PastInv'
  <2>1. \A s \in Syncs : batch[s].status # "none" => batch'[s].status # "none"
    BY <1>2, <1>5
  <2>2. ASSUME NEW s \in Syncs, previous'[s] # NoBatch
        PROVE  batch'[previous'[s]].status # "none"
    <3>1. s # r /\ previous'[s] = previous[s]
      BY <1>1, <2>2 DEF OthersStay
    <3>2. previous[s] \in Syncs /\ batch[previous[s]].status # "none"
      BY <2>2, <3>1 DEF PastInv, Types, LocalsTyped
    <3> QED
      BY <2>1, <3>1, <3>2
  <2>3. ASSUME NEW s \in Syncs, batch'[s].previous # NoBatch
        PROVE  batch'[batch'[s].previous].status # "none"
    <3>1. batch'[s].previous = batch[s].previous \/ batch'[s].previous = previous[s]
      BY <1>2 DEF Withdraws
    <3>2. batch'[s].previous \in Syncs /\ batch[batch'[s].previous].status # "none"
      BY <2>3, <3>1 DEF PastInv, Types, LocalsTyped, TablesTyped, BatchRow
    <3> QED
      BY <2>1, <3>2
  <2>4. \A s \in Syncs : undo'[s] # NoUndo => batch'[s].status # "none"
    BY <1>1, <2>1 DEF PastInv
  <2> QED
    BY <2>2, <2>3, <2>4 DEF PastInv
<1>8. RunInv'
  <2> SUFFICES ASSUME NEW s \in Syncs, NEW q \in Syncs, s # q, BusinessKey(s) = BusinessKey(q)
               PROVE  /\ InFlight(s)' => ~InFlight(q)' /\ run'[q] = "none"
                      /\ run'[s] # "none" => run'[q] = "none"
    BY DEF RunInv
  <2>1. CASE s = r
    <3>1. ~InFlight(s)' /\ run[q] = "none" /\ run'[q] = run[q]
      BY <1>1, <1>2, <2>1 DEF RunInv, InFlight
    <3> QED
      BY <3>1
  <2>2. CASE q = r
    <3>1. ~InFlight(s) /\ run[s] = "none" /\ run'[s] = run[s] /\ stage'[s] = stage[s]
      BY <1>1, <1>2, <2>2 DEF RunInv, OthersStay
    <3> QED
      BY <3>1 DEF InFlight
  <2>3. CASE s # r /\ q # r
    BY <1>1, <1>2, <2>3 DEF RunInv, OthersStay, InFlight
  <2> QED
    BY <2>1, <2>2, <2>3
<1>9. KeyInv'
  <2>1. \A v \in archive : run'[v.batch] = "succeeded"
    <3> SUFFICES ASSUME NEW v \in archive PROVE run'[v.batch] = "succeeded"
      OBVIOUS
    <3>1. run[v.batch] = "succeeded" /\ v.batch \in Syncs
      BY DEF KeyInv, Types, TablesTyped, VintageRow
    <3> QED
      BY <1>2, <1>5, <3>1
  <2>2. \A v, w \in archive : SameKey(v, w) => v = w
    BY DEF KeyInv
  <2>3. ASSUME NEW s \in Syncs, NEW d \in drafts'[s]
        PROVE  /\ \A v \in archive : ~SameKey(v, d)
               /\ \A t \in Syncs : \A e \in drafts'[t] : SameKey(e, d) => e = d
    BY <1>3 DEF KeyInv
  <2>4. ASSUME NEW s \in Syncs, stage'[s] = "writing", merging'[s].inserts
        PROVE  \A e \in drafts'[s] : ~SameKey(e, merging'[s].observation)
    BY <1>1, <2>4 DEF OthersStay, KeyInv
  <2> QED
    BY <1>1, <2>1, <2>2, <2>3, <2>4 DEF KeyInv, SameKey
<1>10. LockInv'
  BY <1>4 DEF LockInv
<1>11. SourceInv'
  <2>1. \A s \in Syncs : s # r => Archived(s)' = Archived(s)
    BY <1>1 DEF OthersStay, Archived
  <2>2. ASSUME NEW s \in Syncs, NEW p \in Periods, dirty'[s][p] # NoRow
        PROVE  Has(Archived(s)', p, dirty'[s][p])
    BY <1>4, <2>1, <2>2 DEF SourceInv
  <2>3. ASSUME NEW s \in Syncs, stage'[s] = "writing", ~merging'[s].inserts
        PROVE  Has(Archived(s)', merging'[s].observation.period, merging'[s].observation)
    BY <1>1, <2>1, <2>3 DEF OthersStay, SourceInv
  <2> QED
    BY <2>2, <2>3 DEF SourceInv, Has
<1> QED
  BY <1>6, <1>7, <1>8, <1>9, <1>10, <1>11

LEMMA PublishKeepsRows ==
    ASSUME Types, RowsInv, NEW r \in Syncs, Publishes(r)
    PROVE  RowsInv'
<1> USE DEF RowsInv
<1>1. /\ undo' = undo /\ OthersStay(r)
      /\ stage'[r] = "over" /\ drafts'[r] = {} /\ dirty'[r] = NothingDirty /\ previous'[r] = NoBatch
      /\ InFlight(r) /\ stage[r] # "over"
      /\ archive' = archive \cup drafts[r]
  BY DEF Publishes, InFlight
<1>2. /\ run'[r] = "succeeded" /\ batch'[r].status = "active" /\ batch'[r].previous = previous[r]
      /\ \A s \in Syncs : s # r =>
            /\ run'[s] = run[s] /\ batch'[s].previous = batch[s].previous
            /\ batch'[s].status \in {"superseded", batch[s].status}
            /\ s # previous[r] => batch'[s].status = batch[s].status
  BY DEF Publishes
<1>3. \A s \in Syncs : drafts'[s] \subseteq drafts[s] /\ (s = r => drafts'[s] = {})
  BY <1>1 DEF OthersStay
<1>4. \A s \in Syncs, p \in Periods : dirty'[s][p] # NoRow => s # r /\ dirty'[s][p] = dirty[s][p]
  BY <1>1 DEF OthersStay, NothingDirty
<1>5. run[r] = "none" /\ batch[r].status = "none"
  BY <1>1 DEF OwnInv
<1>6. OwnInv'
  <2> SUFFICES ASSUME NEW s \in Syncs
               PROVE  /\ \A e \in drafts'[s] : e.batch = s
                      /\ \A p \in Periods : dirty'[s][p] # NoRow => dirty'[s][p].batch = s
                      /\ Resting(s)' => drafts'[s] = {} /\ dirty'[s] = NothingDirty /\ previous'[s] = NoBatch
                      /\ stage'[s] # "over" => run'[s] = "none" /\ batch'[s].status = "none"
    BY DEF OwnInv, NothingDirty
  <2>1. CASE s = r
    BY <1>1, <1>4, <2>1
  <2>2. CASE s # r
    <3>1. stage[s] # "over" => s # previous[r]
      <4>1. previous[r] # NoBatch => batch[previous[r]].status # "none"
        BY DEF PastInv
      <4> QED
        BY <4>1, NoneAssumption DEF OwnInv
    <3> QED
      BY <1>1, <1>2, <2>2, <3>1 DEF OthersStay, OwnInv, Resting
  <2> QED
    BY <2>1, <2>2
<1>7. PastInv'
  <2>1. \A s \in Syncs : batch[s].status # "none" => batch'[s].status # "none"
    BY <1>2
  <2>2. ASSUME NEW s \in Syncs, previous'[s] # NoBatch
        PROVE  batch'[previous'[s]].status # "none"
    <3>1. s # r /\ previous'[s] = previous[s]
      BY <1>1, <2>2 DEF OthersStay
    <3>2. previous[s] \in Syncs /\ batch[previous[s]].status # "none"
      BY <2>2, <3>1 DEF PastInv, Types, LocalsTyped
    <3> QED
      BY <2>1, <3>1, <3>2
  <2>3. ASSUME NEW s \in Syncs, batch'[s].previous # NoBatch
        PROVE  batch'[batch'[s].previous].status # "none"
    <3>1. batch'[s].previous = batch[s].previous \/ batch'[s].previous = previous[s]
      BY <1>2
    <3>2. batch'[s].previous \in Syncs /\ batch[batch'[s].previous].status # "none"
      BY <2>3, <3>1 DEF PastInv, Types, LocalsTyped, TablesTyped, BatchRow
    <3> QED
      BY <2>1, <3>2
  <2>4. \A s \in Syncs : undo'[s] # NoUndo => batch'[s].status # "none"
    BY <1>1, <2>1 DEF PastInv
  <2> QED
    BY <2>2, <2>3, <2>4 DEF PastInv
<1>8. RunInv'
  <2> SUFFICES ASSUME NEW s \in Syncs, NEW q \in Syncs, s # q, BusinessKey(s) = BusinessKey(q)
               PROVE  /\ InFlight(s)' => ~InFlight(q)' /\ run'[q] = "none"
                      /\ run'[s] # "none" => run'[q] = "none"
    BY DEF RunInv
  <2>1. CASE s = r
    <3>1. ~InFlight(s)' /\ run[q] = "none" /\ run'[q] = run[q]
      BY <1>1, <1>2, <2>1 DEF RunInv, InFlight
    <3> QED
      BY <3>1
  <2>2. CASE q = r
    <3>1. ~InFlight(s) /\ run[s] = "none" /\ run'[s] = run[s] /\ stage'[s] = stage[s]
      BY <1>1, <1>2, <2>2 DEF RunInv, OthersStay
    <3> QED
      BY <3>1 DEF InFlight
  <2>3. CASE s # r /\ q # r
    BY <1>1, <1>2, <2>3 DEF RunInv, OthersStay, InFlight
  <2> QED
    BY <2>1, <2>2, <2>3
<1>9. KeyInv'
  <2>1. \A v \in archive' : run'[v.batch] = "succeeded"
    <3>1. ASSUME NEW v \in archive PROVE run'[v.batch] = "succeeded"
      <4>1. run[v.batch] = "succeeded" /\ v.batch \in Syncs
        BY DEF KeyInv, Types, TablesTyped, VintageRow
      <4> QED
        BY <1>2, <1>5, <4>1
    <3>2. \A v \in drafts[r] : v.batch = r
      BY DEF OwnInv
    <3> QED
      BY <1>1, <1>2, <3>1, <3>2
  <2>2. \A v, w \in archive' : SameKey(v, w) => v = w
    BY <1>1 DEF KeyInv, SameKey
  <2>3. ASSUME NEW s \in Syncs, NEW d \in drafts'[s]
        PROVE  /\ \A v \in archive' : ~SameKey(v, d)
               /\ \A t \in Syncs : \A e \in drafts'[t] : SameKey(e, d) => e = d
    <3>1. s # r /\ d \in drafts[s]
      BY <1>3, <2>3
    <3>2. \A v \in archive : ~SameKey(v, d)
      BY <3>1 DEF KeyInv
    <3>3. ASSUME NEW v \in drafts[r] PROVE ~SameKey(v, d)
      <4>1. v.batch = r /\ d.batch = s
        BY <3>1 DEF OwnInv
      <4>2. SameKey(v, d) => v = d
        BY <3>1 DEF KeyInv
      <4> QED
        BY <3>1, <4>1, <4>2
    <3>4. \A t \in Syncs : \A e \in drafts'[t] : SameKey(e, d) => e = d
      BY <1>3, <3>1 DEF KeyInv
    <3> QED
      BY <1>1, <3>2, <3>3, <3>4
  <2>4. ASSUME NEW s \in Syncs, stage'[s] = "writing", merging'[s].inserts
        PROVE  \A e \in drafts'[s] : ~SameKey(e, merging'[s].observation)
    BY <1>1, <2>4 DEF OthersStay, KeyInv
  <2> QED
    BY <2>1, <2>2, <2>3, <2>4 DEF KeyInv, SameKey
<1>10. LockInv'
  BY <1>4 DEF LockInv
<1>11. SourceInv'
  <2>1. \A s \in Syncs : s # r => Archived(s) \subseteq Archived(s)'
    BY <1>1 DEF OthersStay, Archived
  <2>2. ASSUME NEW s \in Syncs, NEW p \in Periods, dirty'[s][p] # NoRow
        PROVE  Has(Archived(s)', p, dirty'[s][p])
    <3>1. s # r /\ Has(Archived(s), p, dirty'[s][p])
      BY <1>4, <2>2 DEF SourceInv
    <3> QED
      BY <2>1, <3>1 DEF Has
  <2>3. ASSUME NEW s \in Syncs, stage'[s] = "writing", ~merging'[s].inserts
        PROVE  Has(Archived(s)', merging'[s].observation.period, merging'[s].observation)
    <3>1. s # r
      BY <1>1, <2>3
    <3>2. Has(Archived(s), merging'[s].observation.period, merging'[s].observation)
      BY <1>1, <2>3, <3>1 DEF OthersStay, SourceInv
    <3> QED
      BY <2>1, <3>1, <3>2 DEF Has
  <2> QED
    BY <2>2, <2>3 DEF SourceInv, Has
<1> QED
  BY <1>6, <1>7, <1>8, <1>9, <1>10, <1>11

\* The operator writes no runs, vintages or rows of a sync.
LEMMA OperatorKeepsRows ==
    ASSUME Types, RowsInv, UNCHANGED <<run, archive, stage, locals>>,
           \A c \in Syncs :
              /\ batch'[c].previous = batch[c].previous
              /\ batch[c].status = "none" => batch'[c].status = "none"
              /\ batch[c].status # "none" => batch'[c].status # "none"
              /\ undo'[c] # NoUndo => batch[c].status # "none"
    PROVE  RowsInv'
<1> USE DEF RowsInv
<1>1. UNCHANGED <<run, archive, stage, todo, merging, drafts, dirty, spoiled, previous, settling>>
  BY DEF locals
<1>2. OwnInv'
  BY <1>1 DEF OwnInv, Resting, NothingDirty
<1>3. PastInv'
  <2>1. \A s \in Syncs : previous[s] \in Syncs \cup {NoBatch} /\ batch[s].previous \in Syncs \cup {NoBatch}
    BY DEF Types, LocalsTyped, TablesTyped, BatchRow
  <2> QED
    BY <1>1, <2>1 DEF PastInv
<1>4. RunInv'
  BY <1>1 DEF RunInv, InFlight
<1>5. KeyInv'
  BY <1>1 DEF KeyInv, SameKey
<1>6. LockInv' /\ SourceInv'
  BY <1>1 DEF LockInv, SourceInv, Archived, Has
<1> QED
  BY <1>2, <1>3, <1>4, <1>5, <1>6

LEMMA ReadKeepsRows ==
    ASSUME Types, RowsInv, NEW b \in Syncs, RollbackReads(b)
    PROVE  RowsInv'
<1>1. /\ UNCHANGED <<run, batch, archive, stage, locals>> /\ batch[b].status = "active"
      /\ \A c \in Syncs : c # b => undo'[c] = undo[c]
  BY ReadTypes
<1> QED
  BY <1>1, OperatorKeepsRows DEF RowsInv, PastInv

LEMMA UndoneKeepsRows ==
    ASSUME Types, RowsInv, NEW b \in Syncs, RollbackCommits(b) \/ RollbackFails(b)
    PROVE  RowsInv'
<1>1. CASE RollbackFails(b)
  <2>1. Undone(b) /\ batch' = batch
    BY <1>1, UnreadTypes
  <2> QED
    BY <2>1, OperatorKeepsRows DEF RowsInv, PastInv, Undone
<1>2. CASE RollbackCommits(b)
  <2>1. /\ Undone(b) /\ batch'[b].status = "rolled_back"
        /\ \A c \in Syncs :
              /\ batch'[c].previous = batch[c].previous
              /\ c # b => batch'[c].status \in {batch[c].status, "active"}
              /\ c # b /\ c # batch[b].previous => batch'[c].status = batch[c].status
    BY <1>2, RollbackTypes
  <2>2. batch[b].status # "none" /\ batch[b].previous \in Syncs => batch[batch[b].previous].status # "none"
    BY <2>1, NoneAssumption DEF RowsInv, PastInv, Undone
  <2>3. batch[b].status # "none"
    BY <2>1 DEF RowsInv, PastInv, Undone
  <2>4. ASSUME NEW c \in Syncs
        PROVE  /\ batch[c].status = "none" => batch'[c].status = "none"
               /\ batch[c].status # "none" => batch'[c].status # "none"
               /\ undo'[c] # NoUndo => batch[c].status # "none"
    BY <2>1, <2>2, <2>3 DEF RowsInv, PastInv, Undone
  <2> QED
    BY <2>1, <2>4, OperatorKeepsRows DEF Undone
<1> QED
  BY <1>1, <1>2

\* Every step of a sync is of one of four kinds.
LEMMA SyncStepKinds ==
    ASSUME Types, RowsInv, NEW r \in Syncs, SyncStep(r)
    PROVE  /\ Types'
           /\ \/ Goes(r)
              \/ Wrote(r, merging[r]) /\ Finds(r, merging[r])
              \/ Withdraws(r)
              \/ Publishes(r)
<1>1. CASE Begin(r)
  <2>1. Types' /\ Unwritten(r) /\ stage'[r] \in {"over", "fetching"} /\ previous'[r] = previous[r]
    BY <1>1, BeginTypes
  <2>2. stage[r] = "idle" /\ previous[r] = NoBatch
    BY <1>1 DEF Begin, RowsInv, OwnInv, Resting
  <2>3. stage'[r] = "fetching" => Free(r)
    BY <1>1, <2>2 DEF Begin, Free, KeyFree, Types, LocalsTyped, TablesTyped
  <2> QED
    BY <2>1, <2>2, <2>3 DEF Goes, Resting, InFlight
<1>2. ASSUME NEW staged \in Stagings, Stage(r, staged) PROVE Types' /\ Goes(r)
  <2>1. /\ Types' /\ Unwritten(r) /\ stage'[r] = "merging"
        /\ previous'[r] = NoBatch \/ (previous'[r] \in Syncs /\ batch[previous'[r]].status = "active")
    BY <1>2, StageTypes
  <2>2. stage[r] = "fetching"
    BY <1>2 DEF Stage
  <2> QED
    BY <2>1, <2>2 DEF Goes, Resting, InFlight
<1>3. ASSUME NEW o \in todo[r], MergeRejects(r, o) \/ MergeReplays(r, o) PROVE Types' /\ Goes(r)
  <2>1. Types' /\ Unwritten(r) /\ stage'[r] = "merging" /\ stage[r] = "merging" /\ previous'[r] = previous[r]
    BY <1>3, SkipTypes
  <2> QED
    BY <2>1 DEF Goes, Resting, InFlight
<1>4. ASSUME NEW o \in todo[r], MergeDecides(r, o) PROVE Types' /\ Goes(r)
  <2>1. /\ Types' /\ Unwritten(r) /\ stage'[r] = "writing" /\ stage[r] = "merging"
        /\ previous'[r] = previous[r] /\ Decided(r, merging'[r])
    BY <1>4, DecideTypes
  <2> QED
    BY <2>1 DEF Goes, Resting, InFlight
<1>5. CASE MergeWrites(r)
  BY <1>5, WriteEffect
<1>6. CASE MergeFails(r)
  <2>1. Types' /\ Unwritten(r) /\ stage'[r] = "merging" /\ stage[r] = "writing" /\ previous'[r] = previous[r]
    BY <1>6, FailsTypes
  <2> QED
    BY <2>1 DEF Goes, Resting, InFlight
<1>7. CASE Settle(r)
  <2>1. /\ Types' /\ Unwritten(r) /\ stage'[r] = "settled" /\ stage[r] = "merging"
        /\ previous'[r] = previous[r]
        /\ settling'[r].seen = bounds /\ settling'[r].new = BoundsOf(r)
    BY <1>7, SettleTypes
  <2> QED
    BY <2>1 DEF Goes, Resting, InFlight
<1>8. CASE Quarantine(r) \/ Fail(r) \/ Die(r)
  BY <1>8, WithdrawTypes
<1>9. CASE Commit(r)
  BY <1>9, PublishTypes
<1> QED
  BY <1>1, <1>2, <1>3, <1>4, <1>5, <1>6, <1>7, <1>8, <1>9 DEF SyncStep, MergeStep

LEMMA NextKeepsRows ==
    ASSUME Types, RowsInv, Next
    PROVE  Types' /\ RowsInv'
<1>1. ASSUME NEW r \in Syncs, SyncStep(r) PROVE Types' /\ RowsInv'
  BY <1>1, SyncStepKinds, GoesKeepsRows, WroteKeepsRows, WithdrawKeepsRows, PublishKeepsRows
<1>2. ASSUME NEW b \in Syncs, RollbackStep(b) PROVE Types' /\ RowsInv'
  <2>1. CASE RollbackReads(b)
    BY <2>1, ReadTypes, ReadKeepsRows
  <2>2. CASE RollbackCommits(b) \/ RollbackFails(b)
    BY <2>2, RollbackTypes, UnreadTypes, UndoneKeepsRows
  <2> QED
    BY <1>2, <2>1, <2>2 DEF RollbackStep
<1> QED
  BY <1>1, <1>2 DEF Next

LEMMA InitRows ==
    ASSUME Init
    PROVE  Types /\ RowsInv
<1> USE DEF Init, NothingDirty, NoBounds, Unsettled
<1>1. LocalsTyped
  BY DEF LocalsTyped, Stages, Settling, Bounds
<1>2. TablesTyped /\ UndoTyped
  BY DEF TablesTyped, UndoTyped, BatchRow, BatchStatus, Bounds
<1>3. OwnInv /\ PastInv /\ RunInv
  BY DEF OwnInv, PastInv, RunInv, InFlight, Resting
<1>4. KeyInv /\ LockInv /\ SourceInv
  BY DEF KeyInv, LockInv, SourceInv
<1> QED
  BY <1>1, <1>2, <1>3, <1>4 DEF Types, RowsInv

-----------------------------------------------------------------------------
(* Serving *)

LEMMA VintagesAreNumbers ==
    ASSUME Types
    PROVE  /\ \A p \in Periods : latest[p] # NoRow => latest[p].vintage \in Nat
           /\ \A r \in Syncs, p \in Periods : dirty[r][p] # NoRow => dirty[r][p].vintage \in Nat
           /\ \A v \in archive : v.period \in Periods /\ v.vintage \in Nat
           /\ \A r \in Syncs : \A d \in drafts[r] : d.period \in Periods /\ d.vintage \in Nat
           /\ \A r \in Syncs : stage[r] = "writing" =>
                 /\ merging[r].observation.period \in Periods
                 /\ merging[r].observation.vintage \in Nat
<1> USE PeriodsAssumption DEF Types
<1>1. \A p \in Periods : latest[p] # NoRow => latest[p].vintage \in Nat
  BY DEF TablesTyped, LatestRow
<1>2. \A r \in Syncs, p \in Periods : dirty[r][p] # NoRow => dirty[r][p].vintage \in Nat
  <2> SUFFICES ASSUME NEW r \in Syncs, NEW p \in Periods, dirty[r][p] # NoRow
               PROVE  dirty[r][p].vintage \in Nat
    OBVIOUS
  <2>1. dirty[r] \in [Periods -> LatestRow \cup {NoRow}]
    BY DEF LocalsTyped
  <2>2. dirty[r][p] \in LatestRow
    BY <2>1
  <2> QED
    BY <2>2 DEF LatestRow
<1>3. \A v \in archive : v.period \in Periods /\ v.vintage \in Nat
  BY DEF TablesTyped, VintageRow
<1>4. \A r \in Syncs : \A d \in drafts[r] : d.period \in Periods /\ d.vintage \in Nat
  <2> SUFFICES ASSUME NEW r \in Syncs, NEW d \in drafts[r]
               PROVE  d.period \in Periods /\ d.vintage \in Nat
    OBVIOUS
  <2>1. d \in VintageRow
    BY DEF LocalsTyped
  <2> QED
    BY <2>1 DEF VintageRow
<1>5. ASSUME NEW r \in Syncs, stage[r] = "writing"
      PROVE  merging[r].observation.period \in Periods /\ merging[r].observation.vintage \in Nat
  <2>1. merging[r] \in Decision
    BY <1>5 DEF LocalsTyped
  <2> QED
    BY <2>1 DEF Decision, Observation
<1> QED
  BY <1>1, <1>2, <1>3, <1>4, <1>5

LEMMA RegimeStays ==
    ASSUME UNCHANGED regime
    PROVE  /\ Serialised' = Serialised /\ Rollbacks' = Rollbacks /\ OperatorWaits' = OperatorWaits
           /\ Undisturbed' <=> Undisturbed
  BY DEF Serialised, Rollbacks, OperatorWaits, Undisturbed

\* Nothing is being rolled back while a sync is under way.
LEMMA NoRequest ==
    ASSUME QuietInv, Undisturbed, NEW r \in Syncs, InFlight(r)
    PROVE  \A b \in Syncs : undo[b] = NoUndo
  BY DEF QuietInv

LEMMA OnlyOneSerialised ==
    ASSUME SerialInv, Serialised, NEW r \in Syncs, InFlight(r) \/ Free(r)
    PROVE  \A s \in Syncs : s # r => ~InFlight(s)
  BY DEF SerialInv, Free

LEMMA GoesKeepsServing ==
    ASSUME Types, RowsInv, ServingInv, UNCHANGED regime, NEW r \in Syncs, Goes(r)
    PROVE  ServingInv'
<1> USE RegimeStays DEF ServingInv
<1>1. UNCHANGED <<run, batch, archive, latest, bounds, undo, drafts, dirty>> /\ OthersStay(r)
  BY DEF Goes, Unwritten
<1>2. QuietInv'
  <2> SUFFICES ASSUME Undisturbed, NEW b \in Syncs, undo[b] # NoUndo
               PROVE  /\ Rollbacks # {}
                      /\ \A s \in Syncs : ~InFlight(s)' /\ (s # b => undo[s] = NoUndo)
                      /\ undo[b].touched = Touched(b)'
                      /\ undo[b].seen = latest
                      /\ undo[b].restored = [p \in Periods |-> Before(b, p)']
    BY <1>1 DEF QuietInv
  <2>1. Touched(b)' = Touched(b)
    BY <1>1 DEF Touched
  <2>2. \A p \in Periods : Before(b, p)' = Before(b, p)
    BY <1>1 DEF Before
  <2>3. /\ Rollbacks # {}
        /\ \A s \in Syncs : ~InFlight(s) /\ (s # b => undo[s] = NoUndo)
        /\ undo[b].touched = Touched(b)
        /\ undo[b].seen = latest
        /\ undo[b].restored = [p \in Periods |-> Before(b, p)]
    BY DEF QuietInv
  <2>4. \A s \in Syncs : s # r => ~InFlight(s)'
    BY <1>1, <2>3 DEF OthersStay, InFlight
  <2>5. OperatorWaits
    BY <2>3 DEF Undisturbed
  <2>6. ~InFlight(r)'
    BY <2>3, <2>5 DEF Goes, Free
  <2> QED
    BY <2>1, <2>2, <2>3, <2>4, <2>6
<1>3. UntouchedInv'
  <2>1. Untouched' <=> Untouched
    BY <1>1 DEF Untouched
  <2>2. ASSUME Undisturbed, NEW s \in Syncs, InFlight(s)', previous'[s] # NoBatch
        PROVE  batch[previous'[s]].status # "rolled_back"
    <3>1. CASE s = r
      BY <2>2, <3>1 DEF Goes, UntouchedInv
    <3>2. CASE s # r
      BY <1>1, <2>2, <3>2 DEF OthersStay, UntouchedInv, InFlight
    <3> QED
      BY <3>1, <3>2
  <2> QED
    BY <1>1, <2>1, <2>2 DEF UntouchedInv
<1>4. NewerInv'
  <2> SUFFICES ASSUME Undisturbed, NEW s \in Syncs, stage'[s] = "writing", ~merging'[s].updates
               PROVE  AsNew(Serving(s, merging'[s].observation.period), merging'[s].observation.vintage)
    BY <1>1 DEF NewerInv, Newer, Serving, AsNew
  <2>1. CASE s = r
    BY <2>1 DEF Goes, Decided
  <2>2. CASE s # r
    BY <1>1, <2>2 DEF OthersStay, NewerInv, Newer
  <2> QED
    BY <2>1, <2>2
<1>5. NewestInv'
  BY <1>1 DEF NewestInv, AsNew, Origin, Untouched
<1>6. ServedIsArchived'
  BY <1>1 DEF ServedIsArchived
<1>7. SerialInv'
  <2>1. ASSUME Serialised, NEW s \in Syncs, NEW t \in Syncs, InFlight(s)', InFlight(t)'
        PROVE  s = t
    <3>1. InFlight(r)' => InFlight(r) \/ Free(r)
      BY DEF Goes
    <3>2. \A x \in Syncs : x # r => (InFlight(x)' <=> InFlight(x))
      BY <1>1 DEF OthersStay, InFlight
    <3>3. \A x, y \in Syncs : InFlight(x) /\ InFlight(y) => x = y
      BY <2>1 DEF SerialInv
    <3> QED
      BY <2>1, <3>1, <3>2, <3>3 DEF Free
  <2>2. ASSUME Serialised, Undisturbed, NEW s \in Syncs, stage'[s] = "settled"
        PROVE  settling'[s].seen = bounds /\ settling'[s].new = BoundsOf(s)
    <3>1. CASE s = r
      BY <2>2, <3>1 DEF Goes
    <3>2. CASE s # r
      BY <1>1, <2>2, <3>2 DEF OthersStay, SerialInv, BoundsOf
    <3> QED
      BY <3>1, <3>2
  <2>3. \A s \in Syncs : Served(s)' = Served(s)
    BY <1>1 DEF Served, Serving
  <2> QED
    BY <1>1, <2>1, <2>2, <2>3 DEF SerialInv, BoundsOf
<1>8. BoundsMatchServed'
  BY <1>1 DEF BoundsMatchServed, Untouched
<1> QED
  BY <1>2, <1>3, <1>4, <1>5, <1>6, <1>7, <1>8

\* Requests are read when no sync is under way, and stay what they are.
LEMMA StepKeepsQuiet ==
    ASSUME QuietInv, UNCHANGED <<regime, undo>>, NEW r \in Syncs, InFlight(r)
    PROVE  QuietInv'
<1>1. Undisturbed => \A b \in Syncs : undo[b] = NoUndo
  BY NoRequest
<1> QED
  BY <1>1, RegimeStays DEF QuietInv

\* The upsert replaces a row by a newer one, or finds one at least as new.
LEMMA OverwrittenIsOlder ==
    ASSUME Types, NEW r \in Syncs, NEW m \in Decision, m.updates,
           m.observation \in Observation, m.observation.period \in Periods
    PROVE  /\ Overwrites(r, m) => \/ Serving(r, m.observation.period) = NoRow
                                  \/ Serving(r, m.observation.period).vintage < m.observation.vintage
           /\ ~Overwrites(r, m) => AsNew(Serving(r, m.observation.period), m.observation.vintage)
<1>1. m.observation.vintage \in Nat
  BY PeriodsAssumption DEF Observation
<1>2. \/ Serving(r, m.observation.period) = NoRow
      \/ Serving(r, m.observation.period).vintage \in Nat
  BY ServingType, PeriodsAssumption DEF LatestRow
<1> QED
  BY <1>1, <1>2 DEF Overwrites, UpdatesLatest, AsNew

\* What a sync has drafted keeps a row at least as new when the row is replaced.
LEMMA WroteKeepsNewer ==
    ASSUME Types, RowsInv, NewerInv, UNCHANGED regime, NEW r \in Syncs, NEW m, Wrote(r, m)
    PROVE  NewerInv'
<1> DEFINE o == m.observation
           q == m.observation.period
           u == Upserted(r, m)
<1>1. UNCHANGED <<run, batch, archive, latest, bounds, undo>> /\ OthersStay(r)
  BY DEF Wrote
<1>2. /\ stage[r] = "writing" /\ stage'[r] = "merging" /\ m = merging[r]
      /\ m \in Decision /\ o \in Observation /\ q \in Periods
  BY DEF Wrote
<1>3. /\ u.vintage = o.vintage /\ u \in LatestRow /\ u # NoRow
      /\ Draft(r, m).vintage = o.vintage /\ Draft(r, m).period = q
  BY NoneAssumption DEF Wrote, Draft, Upserted
<1>4. drafts'[r] = IF m.inserts THEN drafts[r] \cup {Draft(r, m)} ELSE drafts[r]
  BY DEF Wrote
<1>5. /\ Overwrites(r, m) => dirty'[r][q] = u
      /\ \A p \in Periods : ~Overwrites(r, m) \/ p # q => dirty'[r][p] = dirty[r][p]
  BY DEF Wrote
<1> HIDE DEF u
<1> SUFFICES ASSUME Undisturbed, \A s \in Syncs : Newer(s)
             PROVE  \A s \in Syncs : Newer(s)'
  BY RegimeStays DEF NewerInv
<1>6. /\ \A s \in Syncs, p \in Periods : dirty[s][p] # NoRow /\ latest[p] # NoRow
                                           => latest[p].vintage < dirty[s][p].vintage
      /\ \A s \in Syncs : \A d \in drafts[s] : AsNew(Serving(s, d.period), d.vintage)
      /\ \A s \in Syncs : stage[s] = "writing" /\ ~merging[s].updates =>
            AsNew(Serving(s, merging[s].observation.period), merging[s].observation.vintage)
  BY DEF Newer
<1>7. \A p \in Periods : latest[p] # NoRow => latest[p].vintage \in Nat
  BY PeriodsAssumption DEF Types, TablesTyped, LatestRow
<1>8. o.vintage \in Nat /\ \A d \in drafts[r] : d.vintage \in Nat /\ d.period \in Periods
  BY <1>2, PeriodsAssumption DEF Observation, Types, LocalsTyped, VintageRow
<1>9. \A p \in Periods : Serving(r, p) # NoRow => Serving(r, p).vintage \in Nat
  BY ServingType, PeriodsAssumption DEF LatestRow
<1>10. ASSUME NEW s \in Syncs, s # r PROVE Newer(s)'
  BY <1>1, <1>10 DEF OthersStay, Newer, Serving, AsNew
<1>11. ~Overwrites(r, m) => \A p \in Periods : Serving(r, p)' = Serving(r, p)
  BY <1>1, <1>5 DEF Serving
<1>12. \A p \in Periods : p # q => Serving(r, p)' = Serving(r, p)
  BY <1>1, <1>5 DEF Serving
<1>13. CASE Overwrites(r, m)
  <2>1. Serving(r, q) = NoRow \/ Serving(r, q).vintage < o.vintage
    BY <1>2, <1>13, OverwrittenIsOlder DEF Overwrites
  <2>2. dirty'[r][q] = u /\ Serving(r, q)' = u
    BY <1>3, <1>5, <1>13 DEF Serving
  <2>3. latest[q] # NoRow => latest[q].vintage < o.vintage
    <3> SUFFICES ASSUME latest[q] # NoRow PROVE latest[q].vintage < o.vintage
      OBVIOUS
    <3>1. CASE dirty[r][q] = NoRow
      BY <2>1, <3>1 DEF Serving
    <3>2. CASE dirty[r][q] # NoRow
      <4>1. latest[q].vintage < dirty[r][q].vintage /\ Serving(r, q) = dirty[r][q]
        BY <1>2, <1>6, <3>2 DEF Serving
      <4>2. latest[q].vintage \in Nat /\ Serving(r, q).vintage \in Nat /\ Serving(r, q) # NoRow
        BY <1>2, <1>7, <1>9, <3>2, <4>1
      <4> QED
        BY <1>8, <2>1, <4>1, <4>2
    <3> QED
      BY <3>1, <3>2
  <2>4. \A p \in Periods : dirty'[r][p] # NoRow /\ latest'[p] # NoRow => latest'[p].vintage < dirty'[r][p].vintage
    BY <1>1, <1>3, <1>5, <1>6, <2>2, <2>3
  <2>5. ASSUME NEW d \in drafts[r] PROVE AsNew(Serving(r, d.period)', d.vintage)
    <3>1. CASE d.period # q
      BY <1>6, <1>8, <1>12, <3>1 DEF AsNew
    <3>2. CASE d.period = q
      <4>1. Serving(r, q) # NoRow /\ Serving(r, q).vintage >= d.vintage
        BY <1>6, <3>2 DEF AsNew
      <4>2. o.vintage >= d.vintage
        BY <1>2, <1>8, <1>9, <2>1, <4>1
      <4> QED
        BY <1>3, <2>2, <3>2, <4>2 DEF AsNew
    <3> QED
      BY <3>1, <3>2
  <2>6. AsNew(Serving(r, q)', o.vintage)
    BY <1>3, <1>8, <2>2 DEF AsNew
  <2>7. \A d \in drafts'[r] : AsNew(Serving(r, d.period)', d.vintage)
    BY <1>3, <1>4, <2>5, <2>6
  <2> QED
    BY <1>2, <1>10, <2>4, <2>7 DEF Newer
<1>14. CASE ~Overwrites(r, m)
  <2>1. AsNew(Serving(r, q), o.vintage)
    BY <1>2, <1>6, <1>14, OverwrittenIsOlder
  <2>2. \A d \in drafts'[r] : d.period \in Periods /\ AsNew(Serving(r, d.period), d.vintage)
    BY <1>2, <1>3, <1>4, <1>6, <1>8, <2>1
  <2>3. \A d \in drafts'[r] : AsNew(Serving(r, d.period)', d.vintage)
    BY <1>11, <1>14, <2>2 DEF AsNew
  <2>4. \A p \in Periods : dirty'[r][p] # NoRow /\ latest'[p] # NoRow => latest'[p].vintage < dirty'[r][p].vintage
    BY <1>1, <1>5, <1>6, <1>14
  <2> QED
    BY <1>2, <1>10, <2>3, <2>4 DEF Newer
<1> QED
  BY <1>13, <1>14

LEMMA WroteKeepsServing ==
    ASSUME Types, RowsInv, ServingInv, UNCHANGED regime, NEW r \in Syncs, NEW m, Wrote(r, m)
    PROVE  ServingInv'
<1> USE RegimeStays DEF ServingInv
<1> DEFINE o == m.observation
           q == m.observation.period
           u == Upserted(r, m)
<1>1. UNCHANGED <<run, batch, archive, latest, bounds, undo>> /\ OthersStay(r)
  BY DEF Wrote
<1>2. /\ stage[r] = "writing" /\ stage'[r] = "merging" /\ m = merging[r] /\ InFlight(r)
      /\ m \in Decision /\ o \in Observation /\ q \in Periods /\ previous'[r] = previous[r]
  BY DEF Wrote, InFlight
<1>3. QuietInv'
  BY <1>1, <1>2, StepKeepsQuiet
<1>4. UntouchedInv'
  <2>1. \A s \in Syncs : previous'[s] = previous[s] /\ (InFlight(s)' <=> InFlight(s))
    BY <1>1, <1>2 DEF OthersStay, InFlight
  <2> QED
    BY <1>1, <2>1 DEF UntouchedInv, Untouched
<1>5. NewerInv'
  BY WroteKeepsNewer
<1>6. NewestInv'
  <2>1. \A s \in Syncs : drafts[s] \subseteq drafts'[s]
    BY <1>1 DEF Wrote, OthersStay
  <2>2. ASSUME Undisturbed, Untouched, NEW s \in Syncs, NEW p \in Periods, dirty'[s][p] # NoRow
        PROVE  Origin(drafts'[s], p, dirty'[s][p])
    <3>1. CASE dirty'[s][p] = dirty[s][p]
      BY <2>1, <2>2, <3>1 DEF NewestInv, Origin
    <3>2. CASE s = r /\ p = q /\ Overwrites(r, m)
      <4>1. dirty'[r][q] = u /\ u.vintage = o.vintage /\ u.batch = r
        BY <3>2 DEF Wrote, Upserted
      <4>2. m.inserts
        <5> SUFFICES ASSUME ~m.inserts PROVE FALSE
          BY <1>2 DEF Decision
        <5>1. PICK v \in Archived(r) : v.period = q /\ v.vintage = o.vintage
          BY <1>2 DEF RowsInv, SourceInv, Has
        <5>2. Serving(r, q) = NoRow \/ Serving(r, q).vintage < o.vintage
          BY <1>2, <3>2, OverwrittenIsOlder DEF Overwrites
        <5>3. AsNew(Serving(r, q), o.vintage)
          <6>1. CASE v \in drafts[r]
            BY <2>2, <5>1, <6>1 DEF NewerInv, Newer
          <6>2. CASE v \in archive
            <7>1. AsNew(latest[q], o.vintage)
              BY <2>2, <5>1, <6>2 DEF NewestInv
            <7>2. dirty[r][q] # NoRow => latest[q].vintage < dirty[r][q].vintage
              BY <1>2, <2>2, <7>1 DEF NewerInv, Newer, AsNew
            <7>3. /\ latest[q].vintage \in Nat /\ o.vintage \in Nat
                  /\ dirty[r][q] # NoRow => dirty[r][q].vintage \in Nat
              BY <1>2, <7>1, PeriodsAssumption
                 DEF Types, TablesTyped, LocalsTyped, LatestRow, Observation, AsNew
            <7> QED
              BY <7>1, <7>2, <7>3 DEF Serving, AsNew
          <6> QED
            BY <5>1, <6>1, <6>2 DEF Archived
        <5>4. o.vintage \in Nat /\ (Serving(r, q) # NoRow => Serving(r, q).vintage \in Nat)
          BY <1>2, ServingType, PeriodsAssumption DEF LatestRow, Observation
        <5> QED
          BY <5>2, <5>3, <5>4 DEF AsNew
      <4>3. Draft(r, m) \in drafts'[r]
        BY <4>2 DEF Wrote
      <4> QED
        BY <3>2, <4>1, <4>3 DEF Origin, Draft
    <3> QED
      BY <1>1, <3>1, <3>2 DEF Wrote, OthersStay
  <2>3. Untouched' <=> Untouched
    BY <1>1 DEF Untouched
  <2> QED
    BY <1>1, <2>2, <2>3 DEF NewestInv, AsNew, Origin
<1>7. ServedIsArchived'
  BY <1>1 DEF ServedIsArchived
<1>8. SerialInv'
  <2>1. \A s \in Syncs : InFlight(s)' <=> InFlight(s)
    BY <1>1, <1>2 DEF OthersStay, InFlight
  <2>2. \A s \in Syncs : stage'[s] = "settled" => Served(s)' = Served(s) /\ settling'[s] = settling[s] /\ stage[s] = "settled"
    BY SMTT(30), <1>1, <1>2 DEF OthersStay, Served, Serving
  <2> QED
    BY ZenonT(40), <1>1, <2>1, <2>2 DEF SerialInv
<1>9. BoundsMatchServed'
  BY <1>1 DEF BoundsMatchServed, Untouched
<1> QED
  BY <1>3, <1>4, <1>5, <1>6, <1>7, <1>8, <1>9

LEMMA WithdrawKeepsServing ==
    ASSUME Types, RowsInv, ServingInv, UNCHANGED regime, NEW r \in Syncs, Withdraws(r)
    PROVE  ServingInv'
<1> USE RegimeStays DEF ServingInv
<1>1. /\ UNCHANGED <<archive, latest, bounds, undo>> /\ OthersStay(r)
      /\ stage'[r] = "over" /\ drafts'[r] = {} /\ dirty'[r] = NothingDirty /\ previous'[r] = NoBatch
      /\ InFlight(r) /\ stage[r] # "over" /\ ~InFlight(r)'
  BY DEF Withdraws, InFlight
<1>2. run[r] = "none" /\ batch[r].status = "none"
  BY <1>1 DEF RowsInv, OwnInv
<1>3. \A s \in Syncs : s # r => run'[s] = run[s] /\ batch'[s] = batch[s]
  BY DEF Withdraws
<1>4. \A s \in Syncs : batch'[s].status # batch[s].status => s = r /\ batch'[s].status = "failed"
  BY <1>3 DEF Withdraws
<1>5. Untouched' <=> Untouched
  BY <1>2, <1>4 DEF Untouched
<1>6. QuietInv'
  BY <1>1, StepKeepsQuiet
<1>7. UntouchedInv'
  <2>1. ASSUME Undisturbed, NEW s \in Syncs, InFlight(s)', previous'[s] # NoBatch
        PROVE  batch'[previous'[s]].status # "rolled_back"
    <3>1. s # r /\ InFlight(s) /\ previous'[s] = previous[s]
      BY <1>1, <2>1 DEF OthersStay, InFlight
    <3>2. batch[previous[s]].status # "rolled_back" /\ previous[s] \in Syncs
      BY <2>1, <3>1 DEF UntouchedInv, Types, LocalsTyped
    <3> QED
      BY <1>4, <3>1, <3>2
  <2> QED
    BY <1>5, <2>1 DEF UntouchedInv
<1>8. NewerInv'
  <2> SUFFICES ASSUME Undisturbed, NEW s \in Syncs PROVE Newer(s)'
    BY DEF NewerInv
  <2>1. CASE s = r
    BY <1>1, <2>1 DEF Newer, NothingDirty
  <2>2. CASE s # r
    BY <1>1, <2>2 DEF OthersStay, NewerInv, Newer, Serving, AsNew
  <2> QED
    BY <2>1, <2>2
<1>9. NewestInv'
  <2>1. ASSUME NEW s \in Syncs, NEW p \in Periods, dirty'[s][p] # NoRow
        PROVE  dirty'[s][p] = dirty[s][p] /\ drafts'[s] = drafts[s]
    BY <1>1, <2>1 DEF OthersStay, NothingDirty
  <2> QED
    BY <1>1, <1>5, <2>1 DEF NewestInv, AsNew, Origin
<1>10. ServedIsArchived'
  <2>1. \A s : s \in Syncs /\ run[s] = "succeeded" => run'[s] = "succeeded"
    BY <1>2, <1>3
  <2>2. \A p \in Periods : latest[p] # NoRow => latest[p].batch \in Syncs
    BY DEF Types, TablesTyped, LatestRow
  <2>3. \A v \in archive : v.batch \in Syncs
    BY DEF Types, TablesTyped, VintageRow
  <2> QED
    BY <1>1, <2>1, <2>2, <2>3 DEF ServedIsArchived
<1>11. SerialInv'
  <2>1. \A s \in Syncs : InFlight(s)' => InFlight(s)
    BY <1>1 DEF OthersStay, InFlight
  <2>2. ASSUME Serialised, NEW s \in Syncs PROVE stage'[s] # "settled"
    <3>1. s # r => ~InFlight(s)
      BY <1>1, <2>2, OnlyOneSerialised
    <3> QED
      BY <1>1, <3>1 DEF OthersStay, InFlight
  <2> QED
    BY <2>1, <2>2 DEF SerialInv
<1>12. BoundsMatchServed'
  BY <1>1, <1>5 DEF BoundsMatchServed
<1> QED
  BY <1>6, <1>7, <1>8, <1>9, <1>10, <1>11, <1>12

LEMMA PublishKeepsServing ==
    ASSUME Types, RowsInv, RowsInv', ServingInv, UNCHANGED regime, NEW r \in Syncs, Publishes(r)
    PROVE  ServingInv'
<1> USE RegimeStays DEF ServingInv
<1>1. /\ undo' = undo /\ OthersStay(r) /\ archive' = archive \cup drafts[r]
      /\ stage'[r] = "over" /\ drafts'[r] = {} /\ dirty'[r] = NothingDirty /\ previous'[r] = NoBatch
      /\ stage[r] = "settled" /\ InFlight(r) /\ stage[r] # "over" /\ ~InFlight(r)'
      /\ \A p \in Periods : latest'[p] = Serving(r, p)
  BY DEF Publishes, InFlight
<1>2. run[r] = "none" /\ batch[r].status = "none"
  BY <1>1 DEF RowsInv, OwnInv
<1>3. /\ run'[r] = "succeeded" /\ batch'[r].status = "active"
      /\ \A s \in Syncs : s # r =>
            run'[s] = run[s] /\ batch'[s].status = IF s = previous[r] THEN "superseded" ELSE batch[s].status
  BY DEF Publishes
<1>4. Undisturbed => (Untouched' => Untouched)
  <2> SUFFICES ASSUME Undisturbed, NEW s \in Syncs, batch[s].status = "rolled_back"
               PROVE  batch'[s].status = "rolled_back"
    BY DEF Untouched
  <2>1. s # r
    BY <1>2
  <2>2. s # previous[r]
    BY <1>1, NoneAssumption DEF UntouchedInv
  <2> QED
    BY <1>3, <2>1, <2>2
<1>5. \A s \in Syncs : batch'[s].status = "rolled_back" => batch[s].status = "rolled_back"
  BY <1>3
<1>6. QuietInv'
  BY <1>1, StepKeepsQuiet
<1>7. UntouchedInv'
  <2>1. ASSUME Undisturbed, NEW s \in Syncs, InFlight(s)', previous'[s] # NoBatch
        PROVE  batch'[previous'[s]].status # "rolled_back"
    <3>1. s # r /\ InFlight(s) /\ previous'[s] = previous[s]
      BY <1>1, <2>1 DEF OthersStay, InFlight
    <3>2. batch[previous[s]].status # "rolled_back" /\ previous[s] \in Syncs
      BY <2>1, <3>1 DEF UntouchedInv, Types, LocalsTyped
    <3> QED
      BY <1>5, <3>1, <3>2
  <2>2. Rollbacks = {} => Untouched'
    BY <1>5 DEF UntouchedInv, Untouched
  <2> QED
    BY <2>1, <2>2 DEF UntouchedInv
<1>8. Undisturbed => \A p \in Periods, vintage \in Nat : AsNew(latest[p], vintage) => AsNew(latest'[p], vintage)
  <2> SUFFICES ASSUME Undisturbed, NEW p \in Periods, NEW vintage \in Nat, AsNew(latest[p], vintage)
               PROVE  AsNew(latest'[p], vintage)
    OBVIOUS
  <2>1. CASE dirty[r][p] = NoRow
    <3>1. latest'[p] = latest[p]
      BY <1>1, <2>1 DEF Serving
    <3> QED
      BY <3>1
  <2>2. CASE dirty[r][p] # NoRow
    <3>1. latest'[p] = dirty[r][p]
      BY <1>1, <2>2 DEF Serving
    <3>2. latest[p].vintage < dirty[r][p].vintage /\ latest[p].vintage >= vintage
      BY <2>2 DEF NewerInv, Newer, AsNew
    <3>3. latest[p].vintage \in Nat /\ dirty[r][p].vintage \in Nat
      BY <2>2, VintagesAreNumbers DEF AsNew
    <3>4. dirty[r][p].vintage >= vintage
      BY <3>2, <3>3
    <3> QED
      BY <2>2, <3>1, <3>4 DEF AsNew
  <2> QED
    BY <2>1, <2>2
<1>9. NewerInv'
  <2> SUFFICES ASSUME Undisturbed, NEW s \in Syncs PROVE Newer(s)'
    BY DEF NewerInv
  <2>1. CASE s = r
    BY <1>1, <2>1 DEF Newer, NothingDirty
  <2>2. CASE s # r
    <3>1. /\ stage'[s] = stage[s] /\ merging'[s] = merging[s]
          /\ drafts'[s] = drafts[s] /\ dirty'[s] = dirty[s]
      BY <1>1, <2>2 DEF OthersStay
    <3>2. ASSUME NEW p \in Periods, dirty[s][p] # NoRow PROVE latest'[p] = latest[p]
      <4>1. dirty[r][p] = NoRow
        BY <2>2, <3>2 DEF RowsInv, LockInv
      <4> QED
        BY <1>1, <4>1 DEF Serving
    <3>3. ASSUME NEW p \in Periods, NEW vintage \in Nat, AsNew(Serving(s, p), vintage)
          PROVE  AsNew(Serving(s, p)', vintage)
      <4>1. CASE dirty[s][p] # NoRow
        <5>1. Serving(s, p)' = Serving(s, p)
          BY <3>1, <4>1 DEF Serving
        <5> QED
          BY <3>3, <5>1
      <4>2. CASE dirty[s][p] = NoRow
        <5>1. Serving(s, p) = latest[p] /\ Serving(s, p)' = latest'[p]
          BY <3>1, <4>2 DEF Serving
        <5>2. AsNew(latest'[p], vintage)
          BY <1>8, <3>3, <5>1
        <5> QED
          BY <5>1, <5>2
      <4> QED
        BY <4>1, <4>2
    <3>4. Newer(s)
      BY DEF NewerInv
    <3>5. \A p \in Periods : dirty'[s][p] # NoRow /\ latest'[p] # NoRow => latest'[p].vintage < dirty'[s][p].vintage
      BY <3>1, <3>2, <3>4 DEF Newer
    <3>6. \A d \in drafts[s] : d.period \in Periods /\ d.vintage \in Nat
      BY VintagesAreNumbers
    <3>7. \A d \in drafts'[s] : AsNew(Serving(s, d.period)', d.vintage)
      BY <3>1, <3>3, <3>4, <3>6 DEF Newer, AsNew
    <3>8. ASSUME stage[s] = "writing", ~merging[s].updates, NEW p, p = merging[s].observation.period
          PROVE  AsNew(Serving(s, p)', merging[s].observation.vintage)
      <4>1. AsNew(Serving(s, p), merging[s].observation.vintage)
        BY <3>4, <3>8 DEF Newer
      <4>2. p \in Periods /\ merging[s].observation.vintage \in Nat
        BY <3>8, VintagesAreNumbers
      <4> QED
        BY <3>3, <4>1, <4>2
    <3>9. stage'[s] = "writing" /\ ~merging'[s].updates =>
             AsNew(Serving(s, merging[s].observation.period), merging[s].observation.vintage)'
      BY <3>1, <3>8 DEF Serving
    <3> QED
      BY <3>5, <3>7, <3>9 DEF Newer
  <2> QED
    BY <2>1, <2>2
<1>10. NewestInv'
  <2> SUFFICES ASSUME Undisturbed, Untouched
               PROVE  /\ \A v \in archive' : AsNew(latest'[v.period], v.vintage)
                      /\ \A p \in Periods : latest'[p] # NoRow => Origin(archive', p, latest'[p])
                      /\ \A s \in Syncs, p \in Periods : dirty'[s][p] # NoRow => Origin(drafts'[s], p, dirty'[s][p])
    BY <1>4 DEF NewestInv, Origin
  <2>1. \A v \in archive : v.period \in Periods /\ v.vintage \in Nat
    BY VintagesAreNumbers
  <2>2. \A v \in drafts[r] : v.period \in Periods
    BY VintagesAreNumbers
  <2>3. ASSUME NEW v \in archive' PROVE AsNew(latest'[v.period], v.vintage)
    <3>1. CASE v \in archive
      BY <1>8, <2>1, <3>1 DEF NewestInv
    <3>2. CASE v \in drafts[r]
      <4>1. AsNew(Serving(r, v.period), v.vintage)
        BY <3>2 DEF NewerInv, Newer
      <4> QED
        BY <1>1, <2>2, <3>2, <4>1
    <3> QED
      BY <1>1, <3>1, <3>2
  <2>4. ASSUME NEW p \in Periods, latest'[p] # NoRow
        PROVE  Origin(archive', p, latest'[p])
    <3>1. CASE dirty[r][p] = NoRow
      BY <1>1, <2>4, <3>1 DEF NewestInv, Origin, Serving
    <3>2. CASE dirty[r][p] # NoRow
      BY <1>1, <2>4, <3>2 DEF NewestInv, Origin, Serving
    <3> QED
      BY <3>1, <3>2
  <2>5. ASSUME NEW s \in Syncs, NEW p \in Periods, dirty'[s][p] # NoRow
        PROVE  Origin(drafts'[s], p, dirty'[s][p])
    <3>1. dirty'[s][p] = dirty[s][p] /\ drafts'[s] = drafts[s]
      BY <1>1, <2>5 DEF OthersStay, NothingDirty
    <3> QED
      BY <2>5, <3>1 DEF NewestInv
  <2> QED
    BY <2>3, <2>4, <2>5
<1>11. ServedIsArchived'
  <2> SUFFICES ASSUME Undisturbed, NEW p \in Periods, latest'[p] # NoRow
               PROVE  /\ run'[latest'[p].batch] = "succeeded"
                      /\ \E row \in archive' :
                            /\ row.period = p /\ row.vintage = latest'[p].vintage
                            /\ row.value = latest'[p].value
                            /\ run'[row.batch] = "succeeded"
    BY DEF ServedIsArchived
  <2>1. \A row \in archive' : run'[row.batch] = "succeeded"
    BY DEF RowsInv, KeyInv
  <2>2. CASE dirty[r][p] # NoRow
    <3>1. latest'[p] = dirty[r][p] /\ dirty[r][p].batch = r
      BY <1>1, <2>2 DEF Serving, RowsInv, OwnInv
    <3>2. Has(archive', p, dirty[r][p])
      BY <1>1, <2>2 DEF RowsInv, SourceInv, Archived
    <3> QED
      BY <1>3, <2>1, <3>1, <3>2 DEF Has
  <2>3. CASE dirty[r][p] = NoRow
    <3>1. latest'[p] = latest[p] /\ latest[p] # NoRow /\ latest[p].batch \in Syncs
      BY <1>1, <2>3 DEF Serving, Types, TablesTyped, LatestRow
    <3>2. run[latest[p].batch] = "succeeded"
      BY <3>1 DEF ServedIsArchived
    <3>3. run'[latest[p].batch] = "succeeded"
      BY <1>3, <3>1, <3>2
    <3>4. \E row \in archive : row.period = p /\ row.vintage = latest[p].vintage /\ row.value = latest[p].value
      BY <3>1 DEF ServedIsArchived
    <3> QED
      BY <1>1, <2>1, <3>1, <3>3, <3>4
  <2> QED
    BY <2>2, <2>3
<1>12. SerialInv'
  <2>1. \A s \in Syncs : InFlight(s)' => InFlight(s)
    BY <1>1 DEF OthersStay, InFlight
  <2>2. ASSUME Serialised, NEW s \in Syncs PROVE stage'[s] # "settled"
    <3>1. s # r => ~InFlight(s)
      BY <1>1, <2>2, OnlyOneSerialised
    <3> QED
      BY <1>1, <3>1 DEF OthersStay, InFlight
  <2> QED
    BY <2>1, <2>2 DEF SerialInv
<1>13. BoundsMatchServed'
  <2> DEFINE before == {p \in Periods : latest[p] # NoRow}
             after == {p \in Periods : latest'[p] # NoRow}
  <2> SUFFICES ASSUME Serialised, Undisturbed, Untouched
               PROVE  bounds' = IF after = {} THEN NoBounds ELSE [first |-> Min(after), last |-> Max(after)]
    BY <1>4 DEF BoundsMatchServed, NoBounds
  <2>1. after = Served(r)
    BY <1>1 DEF Served
  <2>2. settling[r].seen = bounds /\ settling[r].new = BoundsOf(r)
    BY <1>1 DEF SerialInv, BoundsOf
  <2>3. settling[r].new \in Bounds
    BY DEF Types, LocalsTyped, Settling
  <2>4. bounds' = settling[r].new
    BY <2>2, <2>3 DEF Publishes, Put, Bounds
  <2>5. after = {} => before = {}
    BY <1>1, NoneAssumption DEF Serving
  <2>6. bounds = IF before = {} THEN NoBounds ELSE [first |-> Min(before), last |-> Max(before)]
    BY DEF BoundsMatchServed
  <2> HIDE DEF before, after
  <2>7. CASE after = {}
    BY <2>1, <2>2, <2>4, <2>5, <2>6, <2>7 DEF BoundsOf
  <2>8. CASE after # {}
    BY <2>1, <2>2, <2>4, <2>8 DEF BoundsOf
  <2> QED
    BY <2>7, <2>8
<1> QED
  BY <1>6, <1>7, <1>9, <1>10, <1>11, <1>12, <1>13

\* A request changes what is served only by what it commits.
LEMMA RequestKeepsServing ==
    ASSUME ServingInv, UNCHANGED <<regime, run, batch, archive, latest, bounds, stage, locals>>, QuietInv'
    PROVE  ServingInv'
<1> USE RegimeStays DEF ServingInv
<1>1. UNCHANGED <<run, batch, archive, latest, bounds, stage, merging, drafts, dirty, previous, settling>>
  BY DEF locals
<1>2. UntouchedInv'
  BY <1>1 DEF UntouchedInv, Untouched, InFlight
<1>3. NewerInv'
  BY <1>1 DEF NewerInv, Newer, Serving, AsNew
<1>4. NewestInv'
  BY <1>1 DEF NewestInv, Untouched, AsNew, Origin
<1>5. ServedIsArchived'
  BY <1>1 DEF ServedIsArchived
<1>6. SerialInv'
  BY <1>1 DEF SerialInv, InFlight, Served, Serving
<1>7. BoundsMatchServed'
  BY <1>1 DEF BoundsMatchServed, Untouched
<1> QED
  BY <1>2, <1>3, <1>4, <1>5, <1>6, <1>7

LEMMA ReadKeepsServing ==
    ASSUME Types, ServingInv, UNCHANGED regime, NEW b \in Syncs, RollbackReads(b)
    PROVE  ServingInv'
<1>1. /\ UNCHANGED <<run, batch, archive, latest, bounds, stage, locals>>
      /\ b \in Rollbacks
      /\ OperatorWaits => \A s \in Syncs : ~InFlight(s) /\ undo[s] = NoUndo
      /\ undo'[b].touched = Touched(b) /\ undo'[b].seen = latest
      /\ undo'[b].restored = [p \in Periods |-> Before(b, p)]
      /\ \A c \in Syncs : c # b => undo'[c] = undo[c]
  BY ReadTypes
<1>2. QuietInv'
  <2> SUFFICES ASSUME Undisturbed, NEW c \in Syncs, undo'[c] # NoUndo
               PROVE  /\ Rollbacks # {}
                      /\ \A s \in Syncs : ~InFlight(s)' /\ (s # c => undo'[s] = NoUndo)
                      /\ undo'[c].touched = Touched(c)'
                      /\ undo'[c].seen = latest'
                      /\ undo'[c].restored = [p \in Periods |-> Before(c, p)']
    BY RegimeStays DEF QuietInv
  <2>1. \A s \in Syncs : ~InFlight(s) /\ undo[s] = NoUndo
    BY <1>1 DEF Undisturbed
  <2>2. c = b
    BY <1>1, <2>1
  <2>3. Touched(b)' = Touched(b)
    BY <1>1 DEF Touched
  <2>4. \A p \in Periods : Before(b, p)' = Before(b, p)
    BY <1>1 DEF Before
  <2>5. \A s \in Syncs : ~InFlight(s)' /\ (s # b => undo'[s] = NoUndo)
    BY <1>1, <2>1 DEF InFlight
  <2> QED
    BY <1>1, <2>2, <2>3, <2>4, <2>5
<1> QED
  BY <1>1, <1>2, RequestKeepsServing

\* No other request is pending once one is over.
LEMMA UndoneIsQuiet ==
    ASSUME QuietInv, UNCHANGED regime, NEW b \in Syncs, Undone(b)
    PROVE  QuietInv'
<1>1. Undisturbed => \A c \in Syncs : undo'[c] = NoUndo
  BY DEF QuietInv, Undone
<1> QED
  BY <1>1, RegimeStays DEF QuietInv

\* What an undisturbed rollback commits is what it has read.
LEMMA RollbackRestores ==
    ASSUME Types, QuietInv, Undisturbed, NEW b \in Syncs, RollbackCommits(b)
    PROVE  \A p \in Periods : latest'[p] = IF p \in Touched(b) THEN Before(b, p) ELSE latest[p]
<1> SUFFICES ASSUME NEW p \in Periods
             PROVE  latest'[p] = IF p \in Touched(b) THEN Before(b, p) ELSE latest[p]
  OBVIOUS
<1>1. undo[b] # NoUndo /\ latest'[p] = IF p \in undo[b].touched
                                       THEN Restored(latest[p], undo[b].seen[p], undo[b].restored[p])
                                       ELSE latest[p]
  BY RollbackTypes DEF Undone
<1>2. undo[b].touched = Touched(b) /\ undo[b].seen[p] = latest[p] /\ undo[b].restored[p] = Before(b, p)
  BY <1>1 DEF QuietInv
<1>3. Before(b, p) \in LatestRow \cup {NoRow} /\ latest[p] \in LatestRow \cup {NoRow}
  BY BeforeIsNewest DEF Types, TablesTyped
<1>4. Restored(latest[p], latest[p], Before(b, p)) = Before(b, p)
  BY <1>3, RestoredSame
<1> QED
  BY <1>1, <1>2, <1>4

LEMMA UndoneKeepsServing ==
    ASSUME Types, RowsInv, ServingInv, UNCHANGED regime, NEW b \in Syncs, RollbackCommits(b) \/ RollbackFails(b)
    PROVE  ServingInv'
<1>1. CASE RollbackFails(b)
  <2>1. Undone(b) /\ UNCHANGED <<batch, latest>>
    BY <1>1, UnreadTypes
  <2> QED
    BY <2>1, UndoneIsQuiet, RequestKeepsServing DEF Undone, ServingInv
<1>2. CASE RollbackCommits(b)
  <2> USE RegimeStays DEF ServingInv
  <2>1. /\ Undone(b) /\ batch'[b].status = "rolled_back" /\ undo[b] # NoUndo
        /\ UNCHANGED <<run, archive, bounds, stage, merging, drafts, dirty, previous, settling>>
    BY <1>2, RollbackTypes DEF Undone, locals
  <2>2. Undisturbed => Rollbacks # {} /\ \A s \in Syncs : ~InFlight(s)
    BY <2>1 DEF QuietInv
  <2>3. ~Untouched'
    BY <2>1 DEF Untouched
  <2>4. QuietInv'
    BY <2>1, UndoneIsQuiet
  <2>5. UntouchedInv'
    BY <2>1, <2>2 DEF UntouchedInv, InFlight, Undisturbed
  <2>6. NewerInv'
    <3> SUFFICES ASSUME Undisturbed, NEW s \in Syncs PROVE Newer(s)'
      BY DEF NewerInv
    <3>1. Resting(s) /\ stage'[s] # "writing"
      BY <2>1, <2>2 DEF InFlight, Resting
    <3>2. drafts'[s] = {} /\ dirty'[s] = NothingDirty
      BY <2>1, <3>1 DEF RowsInv, OwnInv
    <3> QED
      BY <3>1, <3>2 DEF Newer, NothingDirty
  <2>7. NewestInv' /\ BoundsMatchServed'
    BY <2>3 DEF NewestInv, BoundsMatchServed
  <2>8. ServedIsArchived'
    <3> SUFFICES ASSUME Undisturbed, NEW p \in Periods, latest'[p] # NoRow
                 PROVE  /\ run[latest'[p].batch] = "succeeded"
                        /\ \E row \in archive :
                              /\ row.period = p /\ row.vintage = latest'[p].vintage
                              /\ row.value = latest'[p].value
                              /\ run[row.batch] = "succeeded"
      BY <2>1 DEF ServedIsArchived
    <3>1. latest'[p] = IF p \in Touched(b) THEN Before(b, p) ELSE latest[p]
      BY <1>2, RollbackRestores
    <3>2. CASE p \notin Touched(b)
      BY <3>1, <3>2 DEF ServedIsArchived
    <3>3. CASE p \in Touched(b)
      <4> DEFINE others == {v \in archive : v.period = p /\ v.batch # b}
      <4>1. Before(b, p) # NoRow
        BY <3>1, <3>3
      <4>2. PICK v \in others :
               Before(b, p) = [vintage |-> v.vintage, value |-> v.value, status |-> v.status, batch |-> v.batch]
        BY <4>1, BeforeIsNewest
      <4>3. v \in archive /\ v.period = p /\ run[v.batch] = "succeeded"
        BY DEF RowsInv, KeyInv
      <4> QED
        BY <3>1, <3>3, <4>2, <4>3
    <3> QED
      BY <3>2, <3>3
  <2>9. SerialInv'
    <3>1. Undisturbed => \A s \in Syncs : stage'[s] # "settled"
      BY <2>1, <2>2 DEF InFlight
    <3> QED
      BY <2>1, <3>1 DEF SerialInv, InFlight
  <2> QED
    BY <2>4, <2>5, <2>6, <2>7, <2>8, <2>9
<1> QED
  BY <1>1, <1>2

-----------------------------------------------------------------------------
(* The theorems *)

LEMMA NextKeepsServing ==
    ASSUME Types, RowsInv, ServingInv, Next
    PROVE  ServingInv'
<1>1. UNCHANGED regime
  BY DEF Next
<1>2. ASSUME NEW r \in Syncs, SyncStep(r) PROVE ServingInv'
  <2>1. RowsInv'
    BY NextKeepsRows
  <2> QED
    BY <1>1, <1>2, <2>1, SyncStepKinds, GoesKeepsServing, WroteKeepsServing,
       WithdrawKeepsServing, PublishKeepsServing
<1>3. ASSUME NEW b \in Syncs, RollbackStep(b) PROVE ServingInv'
  BY <1>1, <1>3, ReadKeepsServing, UndoneKeepsServing DEF RollbackStep
<1> QED
  BY <1>2, <1>3 DEF Next

LEMMA InitServing ==
    ASSUME Init
    PROVE  ServingInv
<1> USE DEF Init, NothingDirty, Untouched
<1>1. QuietInv /\ UntouchedInv
  BY DEF QuietInv, UntouchedInv, InFlight
<1>2. NewerInv /\ NewestInv /\ ServedIsArchived
  BY DEF NewerInv, Newer, NewestInv, ServedIsArchived
<1>3. SerialInv /\ BoundsMatchServed
  BY DEF SerialInv, BoundsMatchServed, InFlight
<1> QED
  BY <1>1, <1>2, <1>3 DEF ServingInv

LEMMA StutterKeeps ==
    ASSUME Types, RowsInv, ServingInv, UNCHANGED vars
    PROVE  Types' /\ RowsInv' /\ ServingInv'
<1> USE DEF vars, tables, locals
<1>1. Types'
  BY DEF Types, LocalsTyped, TablesTyped, UndoTyped
<1>2. OwnInv' /\ PastInv' /\ RunInv'
  BY DEF RowsInv, OwnInv, PastInv, RunInv, InFlight, Resting, NothingDirty
<1>3. KeyInv' /\ LockInv' /\ SourceInv'
  BY DEF RowsInv, KeyInv, LockInv, SourceInv, SameKey, Has, Archived
<1>4. QuietInv'
  <2>1. \A b \in Syncs : Touched(b)' = Touched(b)
    BY DEF Touched
  <2>2. \A b \in Syncs, p \in Periods : Before(b, p)' = Before(b, p)
    BY DEF Before
  <2> QED
    BY <2>1, <2>2, RegimeStays DEF ServingInv, QuietInv, InFlight
<1> QED
  BY <1>1, <1>2, <1>3, <1>4, RequestKeepsServing DEF RowsInv

\* The invariant, from which the theorems follow.
LEMMA PublicationInvariant == Spec => [](Types /\ RowsInv /\ ServingInv)
<1>1. Init => Types /\ RowsInv /\ ServingInv
  BY InitRows, InitServing
<1>2. Types /\ RowsInv /\ ServingInv /\ [Next]_vars => (Types /\ RowsInv /\ ServingInv)'
  BY NextKeepsRows, NextKeepsServing, StutterKeeps
<1> QED
  BY <1>1, <1>2, PTL DEF Spec

\* Every variable keeps its type, Now and the bounds being those of finite sets.
THEOREM PublicationTypes == Spec => []TypeOK
<1>1. Types => TypeOK
  BY TypesGiveTypeOK
<1> QED
  BY <1>1, PublicationInvariant, PTL

\* No vintage is published twice, and no job publishes by two of its syncs that
\* find the same mappings, however they overlap and whatever is rolled back.
THEOREM PublishedJustOnce == Spec => []PublishedOnce
<1>1. ASSUME RowsInv, Types PROVE PublishedOnce
  <2> SUFFICES ASSUME NEW v \in archive, NEW w \in archive
               PROVE  /\ v.period = w.period /\ v.vintage = w.vintage => v = w
                      /\ BusinessKey(v.batch) = BusinessKey(w.batch) => v.batch = w.batch
    BY DEF PublishedOnce
  <2>1. v.period = w.period /\ v.vintage = w.vintage => v = w
    BY <1>1 DEF RowsInv, KeyInv, SameKey
  <2>2. /\ v.batch \in Syncs /\ run[v.batch] = "succeeded"
        /\ w.batch \in Syncs /\ run[w.batch] = "succeeded"
    BY <1>1 DEF RowsInv, KeyInv, Types, TablesTyped, VintageRow
  <2>3. BusinessKey(v.batch) = BusinessKey(w.batch) => v.batch = w.batch
    BY <1>1, <2>2 DEF RowsInv, RunInv
  <2> QED
    BY <2>1, <2>3
<1> QED
  BY <1>1, PublicationInvariant, PTL

\* Without rollbacks no archived vintage is newer than the one served, although
\* overlapping syncs decide from rows that are replaced before they write.
THEOREM NewestAlwaysServed == Spec => []NewestServed
<1>1. ASSUME ServingInv PROVE NewestServed
  <2>1. Rollbacks = {} => Undisturbed /\ Untouched
    BY <1>1 DEF ServingInv, UntouchedInv, Undisturbed
  <2> QED
    BY <1>1, <2>1 DEF ServingInv, NewestInv, NewestServed, AsNew
<1> QED
  BY <1>1, PublicationInvariant, PTL

\* Every row served is a vintage that a sync which succeeded has archived.
THEOREM ServingFromArchive == Spec => []ServedIsArchived
<1>1. ServingInv => ServedIsArchived
  BY DEF ServingInv
<1> QED
  BY <1>1, PublicationInvariant, PTL

\* Serialised syncs leave the bounds of the rows they serve.
THEOREM BoundsFollow == Spec => []BoundsMatchServed
<1>1. ServingInv => BoundsMatchServed
  BY DEF ServingInv
<1> QED
  BY <1>1, PublicationInvariant, PTL

\* The newest of some vintages is their maximum.
LEMMA NewestIsMax ==
    ASSUME Types, NEW S, S \subseteq archive, NEW v \in S, \A w \in S : w.vintage <= v.vintage
    PROVE  v.vintage = Max({w.vintage : w \in S})
<1> DEFINE T == {w.vintage : w \in S}
<1>1. \A w \in S : w.vintage \in Vintages /\ w.vintage \in Nat
  BY PeriodsAssumption DEF Types, TablesTyped, VintageRow
<1>2. T \in SUBSET Vintages /\ T \subseteq Nat /\ v.vintage \in T /\ \A x \in T : x <= v.vintage
  BY <1>1
<1> HIDE DEF T
<1>3. IsFiniteSet(T)
  BY <1>2, FS_Subset, FiniteAssumption
<1>4. Max(T) \in T /\ v.vintage <= Max(T)
  BY <1>2, <1>3, MaxIsLargest
<1>5. Max(T) = v.vintage
  <2>1. Max(T) \in Nat /\ v.vintage \in Nat /\ Max(T) <= v.vintage
    BY <1>2, <1>4
  <2> QED
    BY <1>4, <2>1
<1> QED
  BY <1>5 DEF T

\* The first rollback serves the newest of the other batches' vintages again:
\* what it reads is restored, and what it leaves was the newest before.
THEOREM FirstRollback == Spec => FirstRollbackRestores
<1> DEFINE Restores ==
             \A b \in Syncs :
               /\ OperatorWaits
               /\ batch'[b].status = "rolled_back"
               /\ Untouched
               => \A p \in Periods :
                    LET others == {v \in archive : v.period = p /\ v.batch # b} IN
                    IF others = {} THEN latest'[p] = NoRow
                    ELSE /\ latest'[p] # NoRow
                         /\ latest'[p].vintage = Max({v.vintage : v \in others})
                         /\ latest'[p].batch # b
<1>1. ASSUME Types, RowsInv, ServingInv, [Next]_vars PROVE Restores
  <2> SUFFICES ASSUME NEW b \in Syncs, OperatorWaits, batch'[b].status = "rolled_back", Untouched,
                      NEW p \in Periods
               PROVE  LET others == {v \in archive : v.period = p /\ v.batch # b} IN
                      IF others = {} THEN latest'[p] = NoRow
                      ELSE /\ latest'[p] # NoRow
                           /\ latest'[p].vintage = Max({v.vintage : v \in others})
                           /\ latest'[p].batch # b
    OBVIOUS
  <2> DEFINE others == {v \in archive : v.period = p /\ v.batch # b}
  <2>1. Undisturbed /\ batch[b].status # "rolled_back"
    BY DEF Undisturbed, Untouched
  <2>2. RollbackCommits(b)
    <3>1. batch' # batch
      BY <2>1
    <3>2. ASSUME NEW r \in Syncs, SyncStep(r) PROVE FALSE
      <4>1. Goes(r) \/ Wrote(r, merging[r]) \/ Withdraws(r) \/ Publishes(r)
        BY <1>1, <3>2, SyncStepKinds
      <4>2. ~Goes(r) /\ ~Wrote(r, merging[r])
        BY <3>1 DEF Goes, Unwritten, Wrote
      <4>3. CASE Withdraws(r)
        <5>1. b # r => batch'[b] = batch[b]
          BY <4>3 DEF Withdraws
        <5>2. batch'[r] = batch[r] \/ batch'[r].status = "failed"
          BY <4>3 DEF Withdraws
        <5> QED
          BY <2>1, <5>1, <5>2
      <4>4. CASE Publishes(r)
        BY <2>1, <4>4 DEF Publishes
      <4> QED
        BY <4>1, <4>2, <4>3, <4>4
    <3>3. PICK c \in Syncs : RollbackStep(c)
      BY <1>1, <3>1, <3>2 DEF Next, vars, tables
    <3>4. RollbackCommits(c)
      BY <1>1, <3>1, <3>3, ReadTypes, UnreadTypes DEF RollbackStep
    <3>5. c # b => batch'[b].status \in {batch[b].status, "active"}
      BY <1>1, <3>4, RollbackTypes
    <3> QED
      BY <2>1, <3>4, <3>5
  <2>3. latest'[p] = IF p \in Touched(b) THEN Before(b, p) ELSE latest[p]
    BY <1>1, <2>1, <2>2, RollbackRestores DEF ServingInv
  <2>4. CASE p \in Touched(b)
    <3>1. CASE others = {}
      BY <1>1, <2>3, <2>4, <3>1, BeforeIsNewest
    <3>2. CASE others # {}
      <4>1. PICK v \in others :
               /\ \A w \in others : w.vintage <= v.vintage
               /\ Before(b, p) = [vintage |-> v.vintage, value |-> v.value,
                                  status |-> v.status, batch |-> v.batch]
               /\ Before(b, p) \in LatestRow
        BY <1>1, <3>2, BeforeIsNewest
      <4>2. v.vintage = Max({w.vintage : w \in others})
        BY <1>1, <4>1, NewestIsMax
      <4>3. latest'[p] # NoRow /\ latest'[p].vintage = v.vintage /\ latest'[p].batch = v.batch
        BY <2>3, <2>4, <4>1, NoneAssumption
      <4>4. v.batch # b
        OBVIOUS
      <4> QED
        BY <3>2, <4>2, <4>3, <4>4
    <3> QED
      BY <3>1, <3>2
  <2>5. CASE p \notin Touched(b)
    <3>1. latest'[p] = latest[p] /\ others = {v \in archive : v.period = p}
      BY <2>3, <2>5 DEF Touched
    <3>2. latest[p] # NoRow => \E v \in archive : v.period = p /\ v.vintage = latest[p].vintage /\ v.batch = latest[p].batch
      BY <1>1, <2>1 DEF ServingInv, NewestInv, Origin
    <3>3. \A v \in others : latest[p] # NoRow /\ latest[p].vintage >= v.vintage
      BY <1>1, <2>1 DEF ServingInv, NewestInv, AsNew
    <3>4. CASE others = {}
      BY <3>1, <3>2, <3>4
    <3>5. CASE others # {}
      <4>1. PICK v \in others : v.vintage = latest[p].vintage /\ v.batch = latest[p].batch
        BY <3>1, <3>2, <3>3, <3>5
      <4>2. \A w \in others : w.vintage <= v.vintage
        <5>1. \A w \in others : w.vintage \in Nat
          BY <1>1, VintagesAreNumbers
        <5> QED
          BY <3>3, <4>1, <5>1
      <4>3. v.vintage = Max({w.vintage : w \in others})
        BY <1>1, <4>2, NewestIsMax
      <4> QED
        BY <3>1, <3>3, <3>5, <4>1, <4>3
    <3> QED
      BY <3>4, <3>5
  <2> QED
    BY <2>4, <2>5
<1>2. (Types /\ RowsInv /\ ServingInv) /\ [Next]_vars => [Restores]_vars
  BY <1>1
<1> QED
  BY <1>2, PublicationInvariant, PTL DEF Spec, FirstRollbackRestores

-----------------------------------------------------------------------------
(* The refinement of ServingStore *)

Succeeded == {r \in Syncs : run[r] = "succeeded"}

LEMMA StoreStutter ==
    ASSUME UNCHANGED regime, Undisturbed => UNCHANGED <<archive, latest>> /\ Succeeded' = Succeeded
    PROVE  UNCHANGED Store!storeVars
  BY RegimeStays DEF Stored, Store!storeVars, NothingDirty, Succeeded

\* The store as a step finds and leaves it, when there is something to be said of it.
LEMMA StoreStates ==
    ASSUME UNCHANGED regime, Undisturbed
    PROVE  /\ Stored(archive) = archive /\ Stored(archive)' = archive'
           /\ (IF Undisturbed THEN latest ELSE NothingDirty) = latest
           /\ (IF Undisturbed THEN latest ELSE NothingDirty)' = latest'
           /\ Stored({r \in Syncs : run[r] = "succeeded"}) = Succeeded
           /\ Stored({r \in Syncs : run[r] = "succeeded"})' = Succeeded'
  BY RegimeStays DEF Stored, Succeeded

LEMMA CommitArchives ==
    ASSUME Types, RowsInv, UNCHANGED regime, Undisturbed, NEW r \in Syncs, Publishes(r)
    PROVE  Store!Archives(r)
<1>1. archive' = archive \cup drafts[r]
  BY DEF Publishes
<1>2. ASSUME NEW v \in archive' \ archive
      PROVE  /\ v.batch = r
             /\ \A w \in archive' : w.period = v.period /\ w.vintage = v.vintage => w = v
  <2>1. v \in drafts[r]
    BY <1>1
  <2>2. v.batch = r
    BY <2>1 DEF RowsInv, OwnInv
  <2>3. ASSUME NEW w \in archive', w.period = v.period, w.vintage = v.vintage PROVE w = v
    <3>1. SameKey(w, v)
      BY <2>3 DEF SameKey
    <3>2. w \notin archive
      BY <2>1, <3>1 DEF RowsInv, KeyInv
    <3> QED
      BY <1>1, <2>1, <3>1, <3>2 DEF RowsInv, KeyInv
  <2> QED
    BY <2>2, <2>3
<1> QED
  BY <1>1, <1>2, StoreStates DEF Store!Archives

LEMMA CommitAdvances ==
    ASSUME Types, RowsInv, ServingInv, UNCHANGED regime, Undisturbed,
           NEW r \in Syncs, Publishes(r), NEW p \in Periods
    PROVE  /\ Store!Advances(r, p)
           /\ \A v \in archive' \ archive : v.period = p =>
                 latest'[p] # NoRow /\ v.vintage <= latest'[p].vintage
<1>1. archive' = archive \cup drafts[r] /\ latest'[p] = Serving(r, p)
  BY DEF Publishes
<1>2. Newer(r)
  BY DEF ServingInv, NewerInv
<1>3. CASE dirty[r][p] = NoRow
  <2>1. latest'[p] = latest[p]
    BY <1>1, <1>3 DEF Serving
  <2> QED
    BY <1>1, <1>2, <2>1, StoreStates DEF Store!Advances, Newer, AsNew, RegimeStays
<1>4. CASE dirty[r][p] # NoRow
  <2>1. latest'[p] = dirty[r][p]
    BY <1>1, <1>4 DEF Serving
  <2>2. latest'[p].batch = r
    BY <1>4, <2>1 DEF RowsInv, OwnInv
  <2>3. latest[p] # NoRow => latest[p].vintage < latest'[p].vintage
    BY <1>2, <1>4, <2>1 DEF Newer
  <2>4. \E v \in archive' : v.period = p /\ v.vintage = latest'[p].vintage /\ v.value = latest'[p].value
    BY <1>1, <1>4, <2>1 DEF RowsInv, SourceInv, Has, Archived
  <2>5. Store!Advances(r, p)
    <3>1. \E v \in Store!Of(Stored(archive)', p) : Store!Shows(latest'[p], v)
      BY <2>4, StoreStates DEF Store!Of, Store!Shows
    <3> QED
      BY <1>4, <2>1, <2>2, <2>3, <3>1, StoreStates DEF Store!Advances
  <2> QED
    BY <1>1, <1>2, <2>5 DEF Newer, AsNew
<1> QED
  BY <1>3, <1>4

LEMMA CommitPublishes ==
    ASSUME Types, Types', RowsInv, ServingInv, UNCHANGED regime, Undisturbed, NEW r \in Syncs, Publishes(r)
    PROVE  Store!Publish(r)
<1>1. run[r] = "none" /\ run'[r] = "succeeded" /\ \A s \in Syncs : s # r => run'[s] = run[s]
  BY DEF Publishes, RowsInv, OwnInv
<1>2. r \notin Succeeded /\ Succeeded' = Succeeded \cup {r}
  BY <1>1 DEF Succeeded
<1>3. DOMAIN latest' = Periods
  BY DEF Types, TablesTyped
<1>4. \A p \in Periods : \A v \in Store!Of(archive' \ archive, p) :
         latest'[p] # NoRow /\ v.vintage <= latest'[p].vintage
  BY CommitAdvances DEF Store!Of
<1> QED
  BY <1>2, <1>3, <1>4, CommitArchives, CommitAdvances, StoreStates DEF Store!Publish

LEMMA RollbackWithdraws ==
    ASSUME Types, Types', RowsInv, ServingInv, UNCHANGED regime, Undisturbed,
           NEW b \in Syncs, RollbackCommits(b)
    PROVE  UNCHANGED Store!storeVars \/ Store!Withdraw(b)
<1>1. \A p \in Periods : latest'[p] = IF p \in Touched(b) THEN Before(b, p) ELSE latest[p]
  BY RollbackRestores DEF ServingInv
<1>2. UNCHANGED <<run, archive>> /\ Succeeded' = Succeeded
  BY RollbackTypes DEF Undone, Succeeded
<1>3. latest \in [Periods -> LatestRow \cup {NoRow}] /\ latest' \in [Periods -> LatestRow \cup {NoRow}]
  BY DEF Types, TablesTyped
<1>4. CASE Touched(b) = {}
  <2>1. latest' = latest
    BY <1>1, <1>3, <1>4
  <2> QED
    BY <1>2, <2>1, StoreStutter
<1>5. CASE Touched(b) # {}
  <2>1. b \in Succeeded
    BY <1>5 DEF Touched, RowsInv, KeyInv, Succeeded
  <2>2. ASSUME NEW p \in Periods, p \notin Touched(b)
        PROVE  latest'[p] = latest[p] /\ \A v \in Store!Of(archive, p) : v.batch # b
    BY <1>1, <2>2 DEF Touched, Store!Of
  <2>3. ASSUME NEW p \in Periods, p \in Touched(b)
        PROVE  /\ ~\A v \in Store!Of(archive, p) : v.batch # b
               /\ Store!Others(b, p) = {} => latest'[p] = NoRow
               /\ Store!Others(b, p) # {} =>
                     /\ latest'[p] # NoRow
                     /\ \E v \in Store!Newest(Store!Others(b, p)) :
                           Store!Shows(latest'[p], v) /\ latest'[p].batch = v.batch
    <3> DEFINE others == {v \in archive : v.period = p /\ v.batch # b}
    <3>1. Store!Others(b, p) = others
      BY StoreStates DEF Store!Others, Store!Of
    <3>2. ~\A v \in Store!Of(archive, p) : v.batch # b
      BY <2>3 DEF Touched, Store!Of
    <3>3. latest'[p] = Before(b, p)
      BY <1>1, <2>3
    <3>4. CASE others = {}
      BY <3>1, <3>2, <3>3, <3>4, BeforeIsNewest
    <3>5. CASE others # {}
      <4>1. PICK v \in others :
               /\ \A w \in others : w.vintage <= v.vintage
               /\ Before(b, p) = [vintage |-> v.vintage, value |-> v.value,
                                  status |-> v.status, batch |-> v.batch]
               /\ Before(b, p) \in LatestRow
        BY <3>5, BeforeIsNewest
      <4>2. v \in Store!Newest(others)
        BY <4>1 DEF Store!Newest
      <4>3. Store!Shows(latest'[p], v) /\ latest'[p].batch = v.batch /\ latest'[p] # NoRow
        BY <3>3, <4>1, NoneAssumption DEF Store!Shows
      <4> QED
        BY <3>1, <3>2, <3>5, <4>2, <4>3
    <3> QED
      BY <3>4, <3>5
  <2> QED
    BY <1>2, <1>3, <2>1, <2>2, <2>3, StoreStates DEF Store!Withdraw
<1> QED
  BY <1>4, <1>5

\* Every step publishes or withdraws a batch, or leaves the store as it is.
LEMMA StoreStep ==
    ASSUME Types, RowsInv, ServingInv, [Next]_vars
    PROVE  [Store!Next]_(Store!storeVars)
<1>1. CASE UNCHANGED vars
  <2>1. UNCHANGED <<regime, archive, latest, run>>
    BY <1>1 DEF vars, tables
  <2> QED
    BY <2>1, StoreStutter DEF Succeeded
<1>2. CASE Next
  <2>1. Types' /\ UNCHANGED regime
    BY <1>2, NextKeepsRows DEF Next
  <2>2. CASE ~Undisturbed
    BY <2>1, <2>2, StoreStutter
  <2>3. ASSUME Undisturbed, NEW r \in Syncs, SyncStep(r)
        PROVE  [Store!Next]_(Store!storeVars)
    <3>1. Goes(r) \/ Wrote(r, merging[r]) \/ Withdraws(r) \/ Publishes(r)
      BY <2>3, SyncStepKinds
    <3>2. CASE Publishes(r)
      BY <2>1, <2>3, <3>2, CommitPublishes DEF Store!Next
    <3>3. CASE Goes(r) \/ Wrote(r, merging[r])
      <4>1. UNCHANGED <<archive, latest, run>>
        BY <3>3 DEF Goes, Unwritten, Wrote
      <4> QED
        BY <2>1, <4>1, StoreStutter DEF Succeeded
    <3>4. CASE Withdraws(r)
      <4>1. UNCHANGED <<archive, latest>> /\ run'[r] \in {run[r], "quarantined"}
            /\ \A s \in Syncs : s # r => run'[s] = run[s]
        BY <3>4 DEF Withdraws
      <4>2. run[r] = "none"
        BY <3>4 DEF Withdraws, InFlight, RowsInv, OwnInv
      <4>3. Succeeded' = Succeeded
        BY <4>1, <4>2 DEF Succeeded
      <4> QED
        BY <2>1, <4>1, <4>3, StoreStutter
    <3> QED
      BY <3>1, <3>2, <3>3, <3>4
  <2>4. ASSUME Undisturbed, NEW b \in Syncs, RollbackStep(b)
        PROVE  [Store!Next]_(Store!storeVars)
    <3>1. CASE RollbackReads(b) \/ RollbackFails(b)
      <4>1. UNCHANGED <<archive, latest, run>>
        BY <3>1, ReadTypes, UnreadTypes DEF Undone
      <4> QED
        BY <2>1, <4>1, StoreStutter DEF Succeeded
    <3>2. CASE RollbackCommits(b)
      BY <2>1, <2>4, <3>2, RollbackWithdraws DEF Store!Next
    <3> QED
      BY <2>4, <3>1, <3>2 DEF RollbackStep
  <2> QED
    BY <1>2, <2>2, <2>3, <2>4 DEF Next
<1> QED
  BY <1>1, <1>2

\* While no rollback overlaps anything, readers see the publications of a store
\* without transactions, locks or sessions: batches in one piece, an archive that
\* only grows, and serving rows that only move on to newer vintages or, when a
\* batch is withdrawn, to the newest of the others.
THEOREM PublicationImplementsStore == Spec => ImplementsServingStore
<1>1. Init => Store!Init
  BY DEF Init, Stored, NothingDirty, Store!Init
<1>2. Types /\ RowsInv /\ ServingInv /\ [Next]_vars => [Store!Next]_(Store!storeVars)
  BY StoreStep
<1> QED
  BY <1>1, <1>2, PublicationInvariant, PTL DEF Spec, ImplementsServingStore, Store!Spec
=============================================================================
