------------------------------ MODULE SessionProofs ------------------------------
(***************************************************************************)
(* Theorems of Sessions, for any requests and bounds.                       *)
(*                                                                          *)
(* The rows of one login are a chain: each but the last was rotated into    *)
(* the next, so only the last can be live.  A request that revokes the      *)
(* family goes down that chain, and what is live lies ahead of it, is among *)
(* what it will revoke, or was made behind its back.                        *)
(***************************************************************************)
EXTENDS Sessions, FiniteSetTheorems, TLAPS

-----------------------------------------------------------------------------
(* The inductive invariant *)

\* Rows are numbered in the order they are made.
InOrder == \A s \in Rows, t \in Ids : t < s => t \in Rows

\* The login of a row is where its chain of parents begins.
Descends(s) ==
    /\ session[s].login \in Rows /\ session[s].login <= s
    /\ session[s].from = None => session[s].login = s
    /\ session[s].from # None =>
        /\ session[s].from \in Rows /\ session[s].from < s
        /\ session[session[s].from].login = session[s].login

Kin(s, t) == session[s].login = session[t].login

\* A row is rotated once, and all but the last of a login have been.
ChildIn(f, t) == \E c \in Rows : session[c].from = f /\ c <= t
ChainInv ==
    /\ InOrder
    /\ \A s \in Rows : Descends(s)
    /\ \A s, t \in Rows : session[s].from = session[t].from => session[s].from = None \/ s = t
    /\ \A f, t \in Rows : f < t /\ Kin(f, t) => ChildIn(f, t)
    /\ \A s \in Live, t \in Rows : Kin(s, t) => t <= s

\* refresh holds the lock of a row nobody else has revoked.
RotationInv ==
    \A r \in Requests : Doing(r, "refresh") =>
        /\ request[r].of \in Live
        /\ \A q \in Requests \ {r} : Doing(q, "refresh") => request[q].of # request[r].of

\* A request that revokes a family has one row to go on from, below which it has
\* seen all, and reaches what is live from there.
Ahead(r, t) == \E f \in request[r].frontier : f <= t
Reached(r, t) == t \in escaped.walks \/ t \in request[r].rows \/ Ahead(r, t)
WalkOK(r) ==
    /\ request[r].of \in Rows
    /\ request[r].seen \cup request[r].frontier \subseteq Family(request[r].of)
    /\ request[r].rows \subseteq request[r].seen \cup request[r].frontier
    /\ \A f, g \in request[r].frontier : f = g
    /\ \A f \in request[r].frontier, s \in request[r].seen : s < f
    /\ \A t \in Family(request[r].of) \cap Live : Reached(r, t)
WalkInv == \A r \in Requests : Doing(r, "walk") => WalkOK(r)

EndedInv == ended \subseteq Rows /\ EndedLoginIsOver

\* An edit has read all that is live, save what was made meanwhile.
EditInv ==
    /\ \A r \in Requests : Doing(r, "edit") =>
        request[r].rows \subseteq Rows /\ Live \subseteq request[r].rows \cup escaped.edits
    /\ \A s \in Live : session[s].edits = user.edits \/ s \in escaped.edits

Inv == SessionsTypeOK /\ ChainInv /\ RotationInv /\ WalkInv /\ EndedInv /\ EditInv

-----------------------------------------------------------------------------
(* The operators *)

LEMMA IdsAreNumbers == Ids \subseteq Nat /\ None \notin Ids
BY SessionsAssumption DEF Ids

LEMMA RowTypes ==
    ASSUME SessionsTypeOK, NEW s \in Ids
    PROVE  /\ session[s].state \in {"absent", "live", "revoked"}
           /\ session[s].from \in Ids \cup {None}
           /\ session[s].login \in Ids \cup {None}
           /\ session[s].edits \in Nat
BY DEF SessionsTypeOK, SessionRow

LEMMA RequestTypes ==
    ASSUME SessionsTypeOK, NEW r \in Requests
    PROVE  /\ Doing(r, "login") => request[r].edits \in Nat
           /\ Doing(r, "refresh") => request[r].of \in Ids /\ request[r].active \in BOOLEAN
           /\ Doing(r, "walk") =>
                /\ request[r].of \in Ids
                /\ request[r].frontier \subseteq Ids /\ request[r].seen \subseteq Ids
                /\ request[r].rows \subseteq Ids /\ request[r].held \subseteq Ids
           /\ Doing(r, "edit") => request[r].rows \subseteq Ids
<1>1. request[r] \in Request
  BY DEF SessionsTypeOK
<1>2. CASE request[r] \in {NoRequest}
  BY <1>2 DEF NoRequest, Doing
<1>3. CASE request[r] \in [at : {"login"}, edits : Nat]
  BY <1>3 DEF Doing
<1>4. CASE request[r] \in [at : {"refresh"}, of : Ids, active : BOOLEAN]
  BY <1>4 DEF Doing
<1>5. CASE request[r] \in [at : {"walk"}, of : Ids, frontier : SUBSET Ids, seen : SUBSET Ids,
                           rows : SUBSET Ids, held : SUBSET Ids]
  BY <1>5 DEF Doing
<1>6. CASE request[r] \in [at : {"edit"}, rows : SUBSET Ids]
  BY <1>6 DEF Doing
<1> QED
  BY <1>1, <1>2, <1>3, <1>4, <1>5, <1>6 DEF Request

\* A request that goes on leaves the others where they are.
LEMMA GoesAlone ==
    ASSUME SessionsTypeOK, NEW r \in Requests, NEW next \in Request, Go(r, next)
    PROVE  /\ request' \in [Requests -> Request]
           /\ request'[r] = next
           /\ \A q \in Requests \ {r} : request'[q] = request[q]
BY DEF SessionsTypeOK, Go

\* The next row is the first number that is not taken.
LEMMA FreshIsNext ==
    ASSUME InOrder
    PROVE  /\ Fresh \in Nat
           /\ Fresh \notin Rows
           /\ \A t \in Ids : t < Fresh <=> t \in Rows
<1>1. /\ IsFiniteSet(Ids)
      /\ Rows \subseteq Ids
  BY SessionsAssumption, FS_Interval DEF Ids, Rows
<1>2. IsFiniteSet(Rows) /\ Cardinality(Rows) \in Nat
  BY <1>1, FS_Subset, FS_CardinalityType
<1>3. Fresh \in Nat
  BY <1>2 DEF Fresh
<1>4. Fresh \notin Rows
  <2> SUFFICES ASSUME Fresh \in Rows PROVE FALSE
    OBVIOUS
  <2>1. 1..Fresh \subseteq Rows
    BY SessionsAssumption, <1>1, <1>3 DEF InOrder, Ids
  <2>2. Cardinality(1..Fresh) <= Cardinality(Rows)
    BY <1>2, <2>1, FS_Subset
  <2>3. Cardinality(1..Fresh) = Fresh
    BY <1>2, <1>3, FS_Interval DEF Fresh
  <2> QED
    BY <1>2, <2>2, <2>3 DEF Fresh
<1>5. \A t \in Ids : t < Fresh => t \in Rows
  <2> SUFFICES ASSUME NEW t \in Ids, t < Fresh, t \notin Rows PROVE FALSE
    OBVIOUS
  <2>1. t \in Nat /\ t > 0
    BY DEF Ids
  <2>2. Rows \subseteq 1..(t - 1)
    BY <1>1, <2>1 DEF InOrder, Ids
  <2>3. IsFiniteSet(1..(t - 1)) /\ Cardinality(1..(t - 1)) = t - 1
    BY <2>1, FS_Interval
  <2>4. Cardinality(Rows) <= t - 1
    BY <2>2, <2>3, FS_Subset
  <2> QED
    BY <1>2, <2>1, <2>4 DEF Fresh
<1>6. \A t \in Rows : t < Fresh
  <2> SUFFICES ASSUME NEW t \in Rows, ~(t < Fresh) PROVE FALSE
    OBVIOUS
  <2>1. t \in Nat /\ t > Fresh
    BY <1>1, <1>3, <1>4 DEF Ids
  <2>2. Fresh \in Ids
    BY SessionsAssumption, <1>1, <1>2, <2>1 DEF Ids, Fresh
  <2> QED
    BY <2>1, <2>2, <1>4 DEF InOrder
<1> QED
  BY <1>1, <1>3, <1>4, <1>5, <1>6

-----------------------------------------------------------------------------
(* The rows *)

\* What a step does to the rows: none, or it ends some, or it adds one.
SameChains == Rows' = Rows /\ \A s \in Rows : session'[s].from = session[s].from
                            /\ session'[s].login = session[s].login /\ session'[s].edits = session[s].edits
Ends(S) == SameChains /\ Live' = Live \ S
Adds(n, S) ==
    /\ n \notin Rows /\ n \in Ids /\ Rows' = Rows \cup {n} /\ Live' = (Live \ S) \cup {n}
    /\ \A s \in Rows : session'[s].from = session[s].from
                    /\ session'[s].login = session[s].login /\ session'[s].edits = session[s].edits

LEMMA RevokedEnds ==
    ASSUME SessionsTypeOK, NEW S, S \subseteq Rows, session' = RevokedRows(S)
    PROVE  Ends(S) /\ session' \in [Ids -> SessionRow]
<1>1. \A s \in Ids : session'[s] = IF s \in S THEN [session[s] EXCEPT !.state = "revoked"] ELSE session[s]
  BY DEF RevokedRows
<1>0. \A s \in Ids : session[s] \in SessionRow
  BY DEF SessionsTypeOK
<1>2. \A s \in Ids : /\ session'[s].state = IF s \in S THEN "revoked" ELSE session[s].state
                     /\ session'[s].from = session[s].from
                     /\ session'[s].login = session[s].login
                     /\ session'[s].edits = session[s].edits
  BY <1>0, <1>1 DEF SessionRow
<1>3. session' \in [Ids -> SessionRow]
  <2>1. \A s \in Ids : session'[s] \in SessionRow
    BY <1>0, <1>1 DEF SessionRow
  <2> QED
    BY <2>1 DEF RevokedRows
<1>4. Rows' = Rows /\ Live' = Live \ S
  BY <1>2 DEF Rows, Live
<1> QED
  BY <1>2, <1>3, <1>4 DEF Ends, SameChains, Rows

LEMMA EndsKeepChains ==
    ASSUME SessionsTypeOK, ChainInv, NEW S, Ends(S)
    PROVE  ChainInv'
<1>1. InOrder'
  BY DEF Ends, SameChains, ChainInv, InOrder
<1>2. Rows' = Rows /\ Live' \subseteq Live /\ Live \subseteq Rows
  BY DEF Ends, SameChains, Live, Rows
<1>3. \A s \in Rows : session'[s].from = session[s].from /\ session'[s].login = session[s].login
  BY DEF Ends, SameChains
<1>4. \A s \in Rows' : Descends(s)'
  BY <1>2, <1>3 DEF ChainInv, Descends
<1>5. \A s, t \in Rows' : session'[s].from = session'[t].from => session'[s].from = None \/ s = t
  BY <1>2, <1>3 DEF ChainInv
<1>6. \A f, t \in Rows' : f < t /\ Kin(f, t)' => ChildIn(f, t)'
  BY <1>2, <1>3 DEF ChainInv, Kin, ChildIn
<1>7. \A s \in Live', t \in Rows' : Kin(s, t)' => t <= s
  BY <1>2, <1>3 DEF ChainInv, Kin
<1> QED
  BY <1>1, <1>4, <1>5, <1>6, <1>7 DEF ChainInv

LEMMA LoginAdds ==
    ASSUME SessionsTypeOK, ChainInv, NEW n \in Ids, n = Fresh, NEW e \in Nat,
           session' = [session EXCEPT ![n] = [state |-> "live", from |-> None, login |-> n, edits |-> e]]
    PROVE  /\ Adds(n, {}) /\ session' \in [Ids -> SessionRow]
           /\ session'[n].from = None /\ session'[n].login = n /\ session'[n].edits = e
<1>1. n \notin Rows
  BY FreshIsNext DEF ChainInv
<1>2. session' \in [Ids -> SessionRow]
  BY DEF SessionsTypeOK, SessionRow
<1>3. /\ session'[n].state = "live" /\ session'[n].from = None
      /\ session'[n].login = n /\ session'[n].edits = e
      /\ \A s \in Ids : s # n => session'[s] = session[s]
  BY DEF SessionsTypeOK
<1>4. Rows' = Rows \cup {n} /\ Live' = (Live \ {}) \cup {n}
  BY <1>3 DEF Rows, Live
<1> QED
  BY <1>1, <1>2, <1>3, <1>4 DEF Adds, Rows

LEMMA RotatedAdds ==
    ASSUME NEW n \in Ids \ Rows, NEW s \in Live,
           session'[n].state = "live", session'[s].state = "revoked",
           session'[s].from = session[s].from, session'[s].login = session[s].login,
           session'[s].edits = session[s].edits,
           \A t \in Ids : t # n /\ t # s => session'[t] = session[t]
    PROVE  Adds(n, {s})
<1>1. s \in Rows /\ s \in Ids /\ n # s
  BY DEF Live, Rows
<1>2. \A t \in Ids : t # n /\ t # s => session'[t].state = session[t].state
  OBVIOUS
<1>3. Rows' = Rows \cup {n}
  BY <1>1, <1>2 DEF Rows
<1>4. Live' = (Live \ {s}) \cup {n}
  BY <1>1, <1>2 DEF Live
<1>5. \A t \in Rows : /\ session'[t].from = session[t].from /\ session'[t].login = session[t].login
                       /\ session'[t].edits = session[t].edits
  BY <1>1 DEF Rows
<1> QED
  BY <1>3, <1>4, <1>5 DEF Adds

LEMMA RefreshAdds ==
    ASSUME SessionsTypeOK, ChainInv, NEW n \in Ids, n = Fresh, NEW s \in Live,
           session' = [session EXCEPT ![s].state = "revoked",
                                      ![n] = [session[s] EXCEPT !.state = "live", !.from = s]]
    PROVE  /\ Adds(n, {s}) /\ session' \in [Ids -> SessionRow]
           /\ session'[n].from = s /\ session'[n].login = session[s].login
           /\ session'[n].edits = session[s].edits
<1>1. n \notin Rows
  BY FreshIsNext DEF ChainInv
<1>2. s \in Ids /\ session[s] \in SessionRow
  BY DEF SessionsTypeOK, Live
<1>3. PICK row : row = [session[s] EXCEPT !.state = "live", !.from = s]
  OBVIOUS
<1>4. PICK old : old = [session[s] EXCEPT !.state = "revoked"]
  OBVIOUS
<1>5. /\ row \in SessionRow /\ row.state = "live" /\ row.from = s
      /\ row.login = session[s].login /\ row.edits = session[s].edits
  BY <1>2, <1>3 DEF SessionRow
<1>6. /\ old \in SessionRow /\ old.state = "revoked" /\ old.from = session[s].from
      /\ old.login = session[s].login /\ old.edits = session[s].edits
  BY <1>2, <1>4 DEF SessionRow
<1>7. session' = [session EXCEPT ![s] = old, ![n] = row]
  BY <1>3, <1>4
<1>8. session \in [Ids -> SessionRow] /\ n # s /\ n \in Ids \ Rows
  BY <1>1 DEF SessionsTypeOK, Live, Rows
<1>9. /\ session' \in [Ids -> SessionRow] /\ session'[n] = row /\ session'[s] = old
      /\ \A t \in Ids : t # n /\ t # s => session'[t] = session[t]
  BY <1>2, <1>5, <1>6, <1>7, <1>8
<1>10. Adds(n, {s})
  <2>1. /\ session'[n].state = "live" /\ session'[s].state = "revoked"
        /\ session'[s].from = session[s].from /\ session'[s].login = session[s].login
        /\ session'[s].edits = session[s].edits
    BY <1>5, <1>6, <1>9
  <2> QED
    BY <1>8, <1>9, <2>1, RotatedAdds
<1> QED
  BY <1>5, <1>9, <1>10

LEMMA AddedInOrder ==
    ASSUME InOrder, NEW n \in Ids, n = Fresh, Rows' = Rows \cup {n}
    PROVE  InOrder' /\ \A t \in Rows : t < n
BY FreshIsNext, IdsAreNumbers DEF InOrder, Rows

\* A login begins a chain.
LEMMA LoginKeepsChains ==
    ASSUME SessionsTypeOK, ChainInv, NEW n \in Ids, n = Fresh, Adds(n, {}),
           session'[n].from = None, session'[n].login = n
    PROVE  ChainInv'
<1>1. InOrder' /\ \A t \in Rows : t < n
  BY AddedInOrder DEF ChainInv, Adds
<1>2. /\ n \notin Rows /\ Rows' = Rows \cup {n} /\ Live' = Live \cup {n} /\ Live \subseteq Rows
      /\ Rows \subseteq Nat /\ n \in Nat /\ n # None
      /\ \A s \in Rows : session'[s].from = session[s].from /\ session'[s].login = session[s].login
  BY IdsAreNumbers DEF Adds, Live, Rows
<1>3. \A s \in Rows : Descends(s)
  BY DEF ChainInv
<1>4. \A s \in Rows : ~Kin(s, n)' /\ ~Kin(n, s)'
  BY <1>2, <1>3 DEF Descends, Kin
<1>5. \A s \in Rows' : Descends(s)'
  <2>1. Descends(n)'
    BY <1>2 DEF Descends
  <2>2. \A s \in Rows : Descends(s)'
    <3> SUFFICES ASSUME NEW s \in Rows PROVE Descends(s)'
      OBVIOUS
    <3>1. session[s].from # None => session'[session'[s].from].login = session[session[s].from].login
      BY <1>2, <1>3 DEF Descends
    <3>2. session'[s].from = session[s].from /\ session'[s].login = session[s].login
      BY <1>2
    <3>3. Descends(s) /\ Rows \subseteq Rows'
      BY <1>2, <1>3
    <3> QED
      BY <3>1, <3>2, <3>3 DEF Descends
  <2> QED
    BY <1>2, <2>1, <2>2
<1>6. \A s, t \in Rows' : session'[s].from = session'[t].from => session'[s].from = None \/ s = t
  <2>1. \A s, t \in Rows : session'[s].from = session'[t].from => session'[s].from = None \/ s = t
    BY <1>2 DEF ChainInv
  <2> QED
    BY <1>2, <2>1
<1>7. \A f, t \in Rows' : f < t /\ Kin(f, t)' => ChildIn(f, t)'
  <2>1. \A f, t \in Rows : f < t /\ Kin(f, t)' => ChildIn(f, t)'
    BY <1>2 DEF ChainInv, Kin, ChildIn
  <2>2. ~(n < n)
    BY <1>2
  <2> QED
    BY <1>2, <1>4, <2>1, <2>2
<1>8. \A s \in Live', t \in Rows' : Kin(s, t)' => t <= s
  <2>1. \A s \in Live, t \in Rows : Kin(s, t)' => t <= s
    BY <1>2 DEF ChainInv, Kin
  <2>2. n <= n
    BY <1>2
  <2>3. \A s \in Live : ~Kin(s, n)'
    BY <1>2, <1>4
  <2> QED
    BY ZenonT(40), <1>2, <1>4, <2>1, <2>2, <2>3
<1> QED
  BY <1>1, <1>5, <1>6, <1>7, <1>8 DEF ChainInv

\* A rotation makes the last of a chain its last but one.
LEMMA RefreshKeepsChains ==
    ASSUME SessionsTypeOK, ChainInv, NEW n \in Ids, n = Fresh, NEW s \in Live, Adds(n, {s}),
           session'[n].from = s, session'[n].login = session[s].login
    PROVE  ChainInv'
<1>1. InOrder' /\ \A t \in Rows : t < n
  BY AddedInOrder DEF ChainInv, Adds
<1>2. /\ n \notin Rows /\ Rows' = Rows \cup {n} /\ Live' = (Live \ {s}) \cup {n}
      /\ Live \subseteq Rows /\ s \in Rows
      /\ Rows \subseteq Nat /\ None \notin Rows /\ n \in Nat /\ s # None /\ n # s
      /\ \A t \in Rows : session'[t].from = session[t].from /\ session'[t].login = session[t].login
  BY IdsAreNumbers DEF Adds, Live, Rows
<1>3. \A t \in Rows : Descends(t)
  BY DEF ChainInv
<1>4. \A t \in Rows : Kin(s, t) => t <= s
  BY DEF ChainInv
<1>5. \A t \in Rows : session[t].from # s
  BY <1>2, <1>3, <1>4 DEF Descends, Kin
<1>6. \A t \in Rows' : Descends(t)'
  <2>1. Descends(n)'
    <3>1. session[s].login \in Rows /\ session[s].login <= s /\ s < n
      BY <1>1, <1>2, <1>3 DEF Descends
    <3>2. session[s].login <= n
      BY <1>2, <3>1
    <3> QED
      BY <1>2, <3>1, <3>2 DEF Descends
  <2>2. \A t \in Rows : Descends(t)'
    <3> SUFFICES ASSUME NEW t \in Rows PROVE Descends(t)'
      OBVIOUS
    <3>1. session[t].from # None => session'[session'[t].from].login = session[session[t].from].login
      BY <1>2, <1>3 DEF Descends
    <3>2. session'[t].from = session[t].from /\ session'[t].login = session[t].login
      BY <1>2
    <3>3. Descends(t) /\ Rows \subseteq Rows'
      BY <1>2, <1>3
    <3> QED
      BY <3>1, <3>2, <3>3 DEF Descends
  <2> QED
    BY <1>2, <2>1, <2>2
<1>7. \A u, t \in Rows' : session'[u].from = session'[t].from => session'[u].from = None \/ u = t
  BY <1>2, <1>5 DEF ChainInv
<1>8. \A f, t \in Rows' : f < t /\ Kin(f, t)' => ChildIn(f, t)'
  <2>1. \A f, t \in Rows : f < t /\ Kin(f, t)' => ChildIn(f, t)'
    BY <1>2 DEF ChainInv, Kin, ChildIn
  <2>2. \A f \in Rows : Kin(f, n)' => ChildIn(f, n)'
    <3> SUFFICES ASSUME NEW f \in Rows, Kin(f, n)' PROVE ChildIn(f, n)'
      OBVIOUS
    <3>1. Kin(f, s) /\ f <= s
      BY <1>2, <1>4 DEF Kin
    <3>2. CASE f = s
      BY <1>2, <3>2 DEF ChildIn
    <3>3. CASE f # s
      <4>1. ChildIn(f, s)
        BY <1>2, <3>1, <3>3 DEF ChainInv
      <4> QED
        BY <1>1, <1>2, <4>1 DEF ChildIn
    <3> QED
      BY <3>2, <3>3
  <2> QED
    BY <1>1, <1>2, <2>1, <2>2
<1>9. \A u \in Live', t \in Rows' : Kin(u, t)' => t <= u
  <2>1. \A u \in Live \ {s}, t \in Rows : Kin(u, t)' => t <= u
    BY <1>2 DEF ChainInv, Kin
  <2>2. \A u \in Live \ {s} : ~Kin(u, n)'
    <3> SUFFICES ASSUME NEW u \in Live \ {s}, Kin(u, n)' PROVE FALSE
      OBVIOUS
    <3>1. Kin(u, s) /\ Kin(s, u) /\ u \in Rows
      BY <1>2 DEF Kin
    <3>2. u <= s /\ s <= u
      BY <1>2, <3>1 DEF ChainInv
    <3> QED
      BY <1>2, <3>1, <3>2
  <2>3. \A t \in Rows' : t <= n
    BY <1>1, <1>2, IdsAreNumbers
  <2> QED
    BY <1>2, <2>1, <2>2, <2>3
<1> QED
  BY <1>1, <1>6, <1>7, <1>8, <1>9 DEF ChainInv

-----------------------------------------------------------------------------
(* The requests *)

LEMMA RestEnds ==
    ASSUME UNCHANGED session
    PROVE  Ends({})
BY DEF Ends, SameChains, Rows, Live

LEMMA Unlocked ==
    ASSUME NEW r \in Requests, NEW S, ~Locked(r, S)
    PROVE  \A q \in Requests \ {r} : Doing(q, "refresh") => request[q].of \notin S
BY DEF Locked, Held, Doing

\* A request that revokes a family is not disturbed by what leaves it the rows of
\* its family, if it still reaches those that are live.
LEMMA WalkAbides ==
    ASSUME NEW r \in Requests, WalkOK(r), request'[r] = request[r], Rows \subseteq Rows',
           \A s \in Rows : session'[s].login = session[s].login,
           escaped.walks \subseteq escaped'.walks,
           \A t \in Family(request[r].of)' \cap Live' :
                t \in Family(request[r].of) \cap Live \/ Reached(r, t)'
    PROVE  WalkOK(r)'
<1>1. request'[r].of = request[r].of /\ request[r].of \in Rows
  BY DEF WalkOK
<1>2. Family(request[r].of) \subseteq Family(request[r].of)'
  BY <1>1 DEF Family
<1>3. \A t \in Family(request[r].of)' \cap Live' : Reached(r, t)'
  BY DEF WalkOK, Reached, Ahead
<1> QED
  BY <1>1, <1>2, <1>3 DEF WalkOK

LEMMA EndsLeaveWalk ==
    ASSUME NEW r \in Requests, WalkOK(r), NEW S, Ends(S), request'[r] = request[r], UNCHANGED escaped
    PROVE  WalkOK(r)'
<1>1. /\ Rows \subseteq Rows' /\ Live' \subseteq Live
      /\ \A s \in Rows : session'[s].login = session[s].login
  BY DEF Ends, SameChains
<1>2. request[r].of \in Rows
  BY DEF WalkOK
<1>3. Family(request[r].of)' = Family(request[r].of)
  BY <1>2 DEF Ends, SameChains, Family
<1> QED
  BY <1>1, <1>3, WalkAbides

\* Who begins at a row reaches what is live of its family, the last row.
LEMMA WalkBegins ==
    ASSUME ChainInv, NEW r \in Requests, NEW s \in Rows, NEW held,
           request'[r] = Walk(s, held), UNCHANGED <<session, escaped>>
    PROVE  WalkOK(r)'
<1>1. /\ request'[r].of = s /\ request'[r].frontier = {s}
      /\ request'[r].seen = {} /\ request'[r].rows = {}
  BY DEF Walk
<1>2. Rows' = Rows /\ Live' = Live /\ Family(s)' = Family(s) /\ s \in Family(s)
  BY DEF Rows, Live, Family
<1>3. \A t \in Family(s) \cap Live : s <= t
  BY DEF ChainInv, Family, Kin
<1>4. \A t \in Family(s) \cap Live : Reached(r, t)'
  BY <1>1, <1>3 DEF Reached, Ahead
<1> QED
  BY <1>1, <1>2, <1>4 DEF WalkOK

LEMMA DescendTypes ==
    ASSUME SessionsTypeOK, NEW r \in Requests, Descend(r)
    PROVE  /\ request'[r] \in Request /\ request'[r].at = "walk" /\ Go(r, request'[r])
           /\ LET found == request[r].frontier \cup Children(request[r].frontier)
              IN  /\ request'[r].of = request[r].of
                  /\ request'[r].rows = request[r].rows \cup (found \cap Live)
                  /\ request'[r].seen = request[r].seen \cup request[r].frontier
                  /\ request'[r].frontier = (found \ request[r].seen) \ request[r].frontier
<1>1. PICK found : found = request[r].frontier \cup Children(request[r].frontier)
  OBVIOUS
<1>2. PICK q : q = request[r]
  OBVIOUS
<1>3. PICK next : next = [q EXCEPT !.held = @ \cup q.rows, !.rows = @ \cup (found \cap Live),
                                   !.seen = @ \cup q.frontier, !.frontier = (found \ q.seen) \ q.frontier]
  OBVIOUS
<1>4. q \in [at : {"walk"}, of : Ids, frontier : SUBSET Ids, seen : SUBSET Ids,
             rows : SUBSET Ids, held : SUBSET Ids]
  <2>1. q \in Request /\ q.at = "walk"
    BY <1>2 DEF SessionsTypeOK, Descend, Doing
  <2> QED
    BY <2>1 DEF Request, NoRequest
<1>5. found \subseteq Ids
  BY <1>1, <1>2, <1>4 DEF Children, Rows
<1>6. /\ next.at = "walk" /\ next.of = q.of
      /\ next.held = q.held \cup q.rows /\ next.rows = q.rows \cup (found \cap Live)
      /\ next.seen = q.seen \cup q.frontier /\ next.frontier = (found \ q.seen) \ q.frontier
      /\ next \in [at : {"walk"}, of : Ids, frontier : SUBSET Ids, seen : SUBSET Ids,
                    rows : SUBSET Ids, held : SUBSET Ids]
  BY <1>3, <1>4, <1>5
<1>7. Go(r, next)
  BY <1>1, <1>2, <1>3 DEF Descend
<1>8. request'[r] = next
  BY <1>7 DEF Go, SessionsTypeOK
<1>9. next \in Request
  BY <1>6 DEF Request
<1> QED
  BY <1>1, <1>2, <1>6, <1>7, <1>8, <1>9

\* One step down the chain: the children of the row it is at are at most one, and
\* every later row lies at that child or beyond.
LEMMA WalkDescends ==
    ASSUME SessionsTypeOK, ChainInv, NEW r \in Requests, WalkOK(r), Descend(r)
    PROVE  WalkOK(r)'
<1>1. PICK f : f \in request[r].frontier
  BY DEF Descend
<1>2. request[r].frontier = {f}
  BY <1>1 DEF WalkOK
<1>3. PICK found : found = {f} \cup Children({f})
  OBVIOUS
<1>4. PICK q : q = request'[r]
  OBVIOUS
<1>5. /\ q.of = request[r].of
      /\ q.rows = request[r].rows \cup (found \cap Live)
      /\ q.seen = request[r].seen \cup {f}
      /\ q.frontier = (found \ request[r].seen) \ {f}
  BY <1>2, <1>3, <1>4, DescendTypes
<1>6. UNCHANGED <<session, escaped>>
  BY DEF Descend
<1>7. /\ f \in Rows /\ f \in Family(q.of) /\ Rows \subseteq Nat /\ None \notin Rows
      /\ request[r].seen \subseteq Family(q.of) /\ request[r].rows \subseteq request[r].seen \cup {f}
      /\ \A s \in request[r].seen : s < f
      /\ q.of \in Rows
  BY <1>1, <1>2, <1>5, IdsAreNumbers DEF WalkOK, Family, Rows
<1>8. \A c \in Children({f}) : c \in Rows /\ session[c].from = f /\ f < c /\ c \in Family(q.of)
  <2> SUFFICES ASSUME NEW c \in Children({f}) PROVE c \in Rows /\ session[c].from = f /\ f < c /\ c \in Family(q.of)
    OBVIOUS
  <2>1. c \in Rows /\ session[c].from = f
    BY DEF Children
  <2>2. f < c /\ session[f].login = session[c].login
    BY <1>7, <2>1 DEF ChainInv, Descends
  <2> QED
    BY <1>7, <2>1, <2>2 DEF Family
<1>9. \A c, d \in Children({f}) : c = d
  BY <1>7, <1>8 DEF ChainInv
<1>10. q.frontier = Children({f})
  <2>1. \A c \in Children({f}) : c # f /\ c \notin request[r].seen
    <3> SUFFICES ASSUME NEW c \in Children({f}) PROVE c # f /\ ~(c < f)
      BY <1>7
    <3>1. c \in Nat /\ f \in Nat /\ f < c
      BY <1>7, <1>8
    <3> QED
      BY <3>1
  <2> QED
    BY <1>3, <1>5, <2>1
<1>11. \A t \in Family(q.of) \cap Live : t \in escaped.walks \/ t \in q.rows \/ \E c \in q.frontier : c <= t
  <2> SUFFICES ASSUME NEW t \in Family(q.of) \cap Live, t \notin escaped.walks, t \notin q.rows
               PROVE  \E c \in q.frontier : c <= t
    OBVIOUS
  <2>1. f <= t
    BY <1>2, <1>5 DEF WalkOK, Reached, Ahead
  <2>2. t # f /\ t \in Rows /\ f < t
    BY <1>3, <1>5, <1>7, <2>1 DEF Family
  <2>3. ChildIn(f, t)
    BY <1>7, <2>2 DEF ChainInv, Kin, Family
  <2> QED
    BY <1>10, <2>3 DEF ChildIn, Children
<1>12. q.seen \cup q.frontier \subseteq Family(q.of)
  BY <1>5, <1>7, <1>8, <1>10
<1>13. q.rows \subseteq q.seen \cup q.frontier
  BY <1>3, <1>5, <1>7, <1>10
<1>14. \A c \in q.frontier, s \in q.seen : s < c
  <2> SUFFICES ASSUME NEW c \in q.frontier, NEW s \in q.seen PROVE s < c
    OBVIOUS
  <2>1. f < c /\ c \in Nat /\ f \in Nat
    BY <1>7, <1>8, <1>10
  <2>2. s \in Nat /\ s <= f
    <3>1. s = f \/ (s \in Rows /\ s < f)
      BY <1>5, <1>7 DEF Family
    <3>2. s \in Nat
      BY <1>7, <2>1, <3>1
    <3> QED
      BY <2>1, <3>1, <3>2
  <2> QED
    BY <2>1, <2>2
<1>15. \A c, d \in q.frontier : c = d
  BY <1>9, <1>10
<1>16. Rows' = Rows /\ Live' = Live /\ escaped' = escaped /\ Family(request[r].of)' = Family(q.of)
  BY <1>4, <1>6 DEF Rows, Live, Family
<1>17. request'[r].of \in Rows'
  BY <1>4, <1>7, <1>16
<1>18. \A t \in Family(request[r].of)' \cap Live' : Reached(r, t)'
  BY <1>4, <1>11, <1>16 DEF Reached, Ahead
<1> QED
  BY <1>4, <1>12, <1>13, <1>14, <1>15, <1>16, <1>17, <1>18 DEF WalkOK

\* A request that goes on and writes nothing keeps the invariant, if what it has
\* read or locked is so.
LEMMA Goes ==
    ASSUME Inv, NEW r \in Requests, NEW next \in Request, Go(r, next),
           UNCHANGED <<user, session, escaped, ended>>,
           next.at = "refresh" =>
                /\ next.of \in Live
                /\ \A q \in Requests \ {r} : Doing(q, "refresh") => request[q].of # next.of,
           next.at = "walk" => WalkOK(r)',
           next.at = "edit" => next.rows = Live
    PROVE  Inv'
<1>1. /\ request' \in [Requests -> Request]
      /\ request'[r] = next
      /\ \A q \in Requests \ {r} : request'[q] = request[q]
  BY GoesAlone DEF Inv
<1>2. Ends({}) /\ Rows' = Rows /\ Live' = Live
  BY RestEnds DEF Ends, SameChains
<1>3. SessionsTypeOK'
  BY <1>1 DEF Inv, SessionsTypeOK
<1>4. ChainInv'
  BY <1>2, EndsKeepChains DEF Inv
<1>5. RotationInv'
  BY <1>1, <1>2 DEF Inv, RotationInv, Doing
<1>6. WalkInv'
  <2> SUFFICES ASSUME NEW q \in Requests, Doing(q, "walk")' PROVE WalkOK(q)'
    BY DEF WalkInv
  <2>1. CASE q = r
    BY <2>1, <1>1 DEF Doing
  <2>2. CASE q # r
    <3>1. request'[q] = request[q] /\ WalkOK(q)
      BY <2>2, <1>1 DEF Inv, WalkInv, Doing
    <3> QED
      BY <3>1, <1>2, EndsLeaveWalk
  <2> QED
    BY <2>1, <2>2
<1>7. EndedInv'
  BY <1>2 DEF Inv, EndedInv, EndedLoginIsOver
<1>8. EditInv'
  BY <1>1, <1>2 DEF Inv, EditInv, Doing, Live, Rows
<1> QED
  BY <1>3, <1>4, <1>5, <1>6, <1>7, <1>8 DEF Inv

LEMMA StepsGo ==
    ASSUME Inv, NEW r \in Requests,
           \/ BeginLogin(r) \/ Descend(r) \/ BeginEdit(r) \/ Abandon(r)
           \/ \E s \in Ids : BeginRefresh(r, s) \/ BeginLogout(r, s)
    PROVE  Inv'
<1> USE DEF Inv
<1>1. CASE BeginLogin(r)
  <2> DEFINE next == [at |-> "login", edits |-> user.edits]
  <2>1. next \in Request /\ next.at = "login"
    BY DEF Request, SessionsTypeOK
  <2> QED
    BY <1>1, <2>1, Goes DEF BeginLogin
<1>2. CASE Descend(r)
  <2>1. request'[r] \in Request /\ Go(r, request'[r]) /\ request'[r].at = "walk"
    BY <1>2, DescendTypes
  <2>2. WalkOK(r)'
    BY <1>2, WalkDescends DEF WalkInv, Descend
  <2> QED
    BY <1>2, <2>1, <2>2, Goes DEF Descend
<1>3. CASE BeginEdit(r)
  <2> DEFINE next == [at |-> "edit", rows |-> Live]
  <2>1. next \in Request /\ next.at = "edit" /\ next.rows = Live
    BY DEF Request, Live
  <2> QED
    BY <1>3, <2>1, Goes DEF BeginEdit, ToRevoke
<1>4. CASE Abandon(r)
  <2>1. NoRequest \in Request /\ NoRequest.at = "idle"
    BY DEF Request, NoRequest
  <2> QED
    BY <1>4, <2>1, Goes DEF Abandon
<1>5. ASSUME NEW s \in Rows, NEW held \in SUBSET Ids, Go(r, Walk(s, held)),
             UNCHANGED <<user, session, escaped, ended>>
      PROVE  Inv'
  <2>1. Walk(s, held) \in Request /\ Walk(s, held).at = "walk"
    BY DEF Request, Walk, Rows
  <2>2. request'[r] = Walk(s, held)
    BY <1>5, <2>1, GoesAlone
  <2>3. WalkOK(r)'
    BY <1>5, <2>2, WalkBegins
  <2> QED
    BY <1>5, <2>1, <2>3, Goes
<1>6. ASSUME NEW s \in Ids, BeginRefresh(r, s)
      PROVE  Inv'
  <2>1. s \in Rows /\ ~Locked(r, {s}) /\ Go(r, Answer(s)) /\ UNCHANGED <<user, session, escaped, ended>>
    BY <1>6 DEF BeginRefresh
  <2>2. CASE s \in Live
    <3> DEFINE next == [at |-> "refresh", of |-> s, active |-> user.active]
    <3>1. next \in Request /\ next.at = "refresh" /\ next.of = s
      BY DEF Request, SessionsTypeOK
    <3>2. \A q \in Requests \ {r} : Doing(q, "refresh") => request[q].of # s
      BY <2>1, Unlocked
    <3>3. Go(r, next)
      BY <2>1, <2>2 DEF Answer
    <3> HIDE DEF next
    <3> QED
      BY <2>1, <2>2, <3>1, <3>2, <3>3, Goes
  <2>3. CASE s \notin Live
    <3>1. Go(r, Walk(s, {s}))
      BY <2>1, <2>3 DEF Answer
    <3> QED
      BY <1>5, <2>1, <3>1
  <2> QED
    BY <2>2, <2>3
<1>7. ASSUME NEW s \in Ids, BeginLogout(r, s)
      PROVE  Inv'
  BY <1>5, <1>7 DEF BeginLogout
<1> QED
  BY <1>1, <1>2, <1>3, <1>4, <1>6, <1>7

-----------------------------------------------------------------------------
(* The steps that write *)

\* What a request that ends leaves to the others.
LEMMA Done ==
    ASSUME SessionsTypeOK, NEW r \in Requests, Go(r, NoRequest)
    PROVE  /\ request' \in [Requests -> Request]
           /\ \A at \in {"login", "refresh", "walk", "edit"} : ~Doing(r, at)'
           /\ \A q \in Requests \ {r} : request'[q] = request[q]
<1>1. NoRequest \in Request /\ NoRequest.at = "idle"
  BY DEF Request, NoRequest
<1>2. request' \in [Requests -> Request] /\ request'[r] = NoRequest /\ \A q \in Requests \ {r} : request'[q] = request[q]
  BY <1>1, GoesAlone
<1> QED
  BY <1>1, <1>2 DEF Doing

\* A commit that revokes rows nobody is rotating.
LEMMA RevokingKeeps ==
    ASSUME Inv, NEW r \in Requests, Go(r, NoRequest), NEW S, S \subseteq Rows, ~Locked(r, S),
           ~Doing(r, "refresh"), session' = RevokedRows(S), UNCHANGED escaped
    PROVE  /\ ChainInv' /\ RotationInv' /\ WalkInv' /\ Ends(S)
           /\ session' \in [Ids -> SessionRow] /\ request' \in [Requests -> Request]
           /\ \A q \in Requests : Doing(q, "edit")' => Doing(q, "edit") /\ request'[q] = request[q]
<1>1. Ends(S) /\ session' \in [Ids -> SessionRow]
  BY RevokedEnds DEF Inv
<1>2. ChainInv'
  BY <1>1, EndsKeepChains DEF Inv
<1>3. /\ request' \in [Requests -> Request]
      /\ \A at \in {"login", "refresh", "walk", "edit"} : ~Doing(r, at)'
      /\ \A q \in Requests \ {r} : request'[q] = request[q]
  BY Done DEF Inv
<1>4. \A q \in Requests \ {r} : Doing(q, "refresh") => request[q].of \notin S
  BY Unlocked
<1>5. RotationInv'
  BY <1>1, <1>3, <1>4 DEF Inv, RotationInv, Doing, Ends
<1>6. WalkInv'
  <2> SUFFICES ASSUME NEW q \in Requests, Doing(q, "walk")' PROVE WalkOK(q)'
    BY DEF WalkInv
  <2>1. q # r /\ request'[q] = request[q] /\ WalkOK(q)
    BY <1>3 DEF Inv, WalkInv, Doing
  <2> QED
    BY <1>1, <2>1, EndsLeaveWalk
<1>7. \A q \in Requests : Doing(q, "edit")' => Doing(q, "edit") /\ request'[q] = request[q]
  BY <1>3 DEF Doing
<1> QED
  BY <1>1, <1>2, <1>3, <1>5, <1>6, <1>7

LEMMA EndWalkKeeps ==
    ASSUME Inv, NEW r \in Requests, EndWalk(r)
    PROVE  Inv'
<1>1. PICK S : S = request[r].rows
  OBVIOUS
<1>2. PICK of : of = request[r].of
  OBVIOUS
<1>3. /\ WalkOK(r) /\ request[r].frontier = {} /\ ~Locked(r, S) /\ ~Doing(r, "refresh")
      /\ session' = RevokedRows(S) /\ ended' = ended \cup {session[of].login}
      /\ Go(r, NoRequest) /\ UNCHANGED <<user, escaped>>
  BY <1>1, <1>2 DEF EndWalk, Inv, WalkInv, Doing
<1>4. of \in Rows /\ S \subseteq Rows
  BY <1>1, <1>2, <1>3 DEF WalkOK, Family
<1>5. /\ ChainInv' /\ RotationInv' /\ WalkInv' /\ Ends(S)
      /\ session' \in [Ids -> SessionRow] /\ request' \in [Requests -> Request]
      /\ \A q \in Requests : Doing(q, "edit")' => Doing(q, "edit") /\ request'[q] = request[q]
  BY <1>3, <1>4, RevokingKeeps
<1>6. Rows' = Rows /\ Live' = Live \ S /\ Live \subseteq Rows /\ Rows \subseteq Ids
  BY <1>5 DEF Ends, SameChains, Live, Rows
<1>7. /\ \A s \in Live' : session'[s].login = session[s].login /\ session'[s].edits = session[s].edits
      /\ session[of].login \in Rows
  BY <1>4, <1>5, <1>6 DEF Ends, SameChains, Inv, ChainInv, Descends
<1>8. SessionsTypeOK'
  BY <1>3, <1>5, <1>6, <1>7 DEF Inv, SessionsTypeOK
<1>9. EndedInv'
  <2>1. \A s \in Live' : session[s].login = session[of].login => s \in escaped.walks
    <3> SUFFICES ASSUME NEW s \in Live', session[s].login = session[of].login PROVE s \in escaped.walks
      OBVIOUS
    <3>1. s \in Family(of) \cap Live /\ s \notin S
      BY <1>6 DEF Family
    <3> QED
      BY <1>1, <1>2, <1>3, <3>1 DEF WalkOK, Reached, Ahead
  <2>2. EndedLoginIsOver'
    BY <1>3, <1>6, <1>7, <2>1 DEF Inv, EndedInv, EndedLoginIsOver
  <2>3. (ended \subseteq Rows)'
    BY <1>3, <1>6, <1>7 DEF Inv, EndedInv
  <2> QED
    BY <2>2, <2>3 DEF EndedInv
<1>10. EditInv'
  BY <1>3, <1>5, <1>6, <1>7 DEF Inv, EditInv
<1> QED
  BY <1>5, <1>8, <1>9, <1>10 DEF Inv

LEMMA EndEditKeeps ==
    ASSUME Inv, NEW r \in Requests, EndEdit(r)
    PROVE  Inv'
<1>1. PICK S : S = request[r].rows
  OBVIOUS
<1>2. /\ S \subseteq Rows /\ Live \subseteq S \cup escaped.edits /\ ~Locked(r, S) /\ ~Doing(r, "refresh")
      /\ session' = RevokedRows(S) /\ Go(r, NoRequest) /\ UNCHANGED <<escaped, ended>>
      /\ user' \in [active : BOOLEAN, edits : Nat]
  <2>1. user' \in [active : BOOLEAN, edits : Nat]
    <3>1. user.active \in BOOLEAN /\ user.edits + 1 \in Nat
      BY DEF Inv, SessionsTypeOK
    <3>2. PICK active \in {user.active, FALSE} : user' = [active |-> active, edits |-> user.edits + 1]
      BY DEF EndEdit
    <3> QED
      BY <3>1, <3>2
  <2> QED
    BY <1>1, <2>1 DEF EndEdit, Inv, EditInv, Doing
<1>3. /\ ChainInv' /\ RotationInv' /\ WalkInv' /\ Ends(S)
      /\ session' \in [Ids -> SessionRow] /\ request' \in [Requests -> Request]
      /\ \A q \in Requests : Doing(q, "edit")' => Doing(q, "edit") /\ request'[q] = request[q]
  BY <1>2, RevokingKeeps
<1>4. Rows' = Rows /\ Live' = Live \ S /\ Live \subseteq Rows
  BY <1>3 DEF Ends, SameChains, Live, Rows
<1>5. \A s \in Live' : session'[s].login = session[s].login
  BY <1>3, <1>4 DEF Ends, SameChains
<1>6. SessionsTypeOK'
  BY <1>2, <1>3 DEF Inv, SessionsTypeOK
<1>7. EndedInv'
  BY <1>2, <1>4, <1>5 DEF Inv, EndedInv, EndedLoginIsOver
<1>8. Live' \subseteq escaped.edits
  BY <1>2, <1>4
<1>9. EditInv'
  BY <1>2, <1>3, <1>4, <1>8 DEF Inv, EditInv
<1> QED
  BY <1>3, <1>6, <1>7, <1>9 DEF Inv

LEMMA LoginKeeps ==
    ASSUME Inv, NEW r \in Requests, Login(r)
    PROVE  Inv'
<1>1. PICK n \in Ids : n = Fresh
  BY DEF Login
<1>2. PICK e \in Nat : e = request[r].edits
  BY RequestTypes DEF Inv, Login
<1>3. /\ session' = [session EXCEPT ![n] = [state |-> "live", from |-> None, login |-> n, edits |-> e]]
      /\ escaped' = IF Editing \/ e # user.edits
                    THEN [escaped EXCEPT !.edits = @ \cup {n}] ELSE escaped
      /\ Go(r, NoRequest) /\ UNCHANGED <<user, ended>>
  BY <1>1, <1>2 DEF Login
<1>4. /\ Adds(n, {}) /\ session' \in [Ids -> SessionRow]
      /\ session'[n].from = None /\ session'[n].login = n /\ session'[n].edits = e
  BY <1>1, <1>3, LoginAdds DEF Inv
<1>5. ChainInv'
  BY <1>1, <1>4, LoginKeepsChains DEF Inv
<1>6. /\ request' \in [Requests -> Request]
      /\ \A at \in {"login", "refresh", "walk", "edit"} : ~Doing(r, at)'
      /\ \A q \in Requests \ {r} : request'[q] = request[q]
  BY <1>3, Done DEF Inv
<1>7. /\ n \notin Rows /\ Rows' = Rows \cup {n} /\ Live' = Live \cup {n} /\ Live \subseteq Rows /\ Rows \subseteq Ids
      /\ \A s \in Rows : session'[s].login = session[s].login /\ session'[s].edits = session[s].edits
  BY <1>4 DEF Adds, Live, Rows
<1>8. /\ escaped' \in [edits : SUBSET Ids, walks : SUBSET Ids]
      /\ escaped'.walks = escaped.walks /\ escaped.edits \subseteq escaped'.edits
      /\ Editing \/ e # user.edits => n \in escaped'.edits
  BY <1>3 DEF Inv, SessionsTypeOK
<1>9. \A s \in Rows : session[s].login \in Rows
  BY DEF Inv, ChainInv, Descends
<1>10. SessionsTypeOK'
  BY <1>3, <1>4, <1>6, <1>8 DEF Inv, SessionsTypeOK
<1>11. RotationInv'
  BY <1>6, <1>7 DEF Inv, RotationInv, Doing
<1>12. WalkInv'
  <2> SUFFICES ASSUME NEW q \in Requests, Doing(q, "walk")' PROVE WalkOK(q)'
    BY DEF WalkInv
  <2>1. q # r /\ request'[q] = request[q] /\ WalkOK(q)
    BY <1>6 DEF Inv, WalkInv, Doing
  <2>2. request[q].of \in Rows /\ session[request[q].of].login \in Rows
    BY <2>1, <1>9 DEF WalkOK
  <2>3. \A t \in Family(request[q].of)' \cap Live' : t \in Family(request[q].of) \cap Live
    BY <2>1, <2>2, <1>4, <1>7 DEF Family
  <2> QED
    BY <2>1, <2>3, <1>7, <1>8, WalkAbides
<1>13. EndedInv'
  <2>1. session'[n].login \notin ended' /\ ended' \subseteq Rows
    BY <1>3, <1>4, <1>7 DEF Inv, EndedInv
  <2>2. EndedLoginIsOver'
    BY <2>1, <1>3, <1>7, <1>8 DEF Inv, EndedInv, EndedLoginIsOver
  <2> QED
    BY <2>1, <2>2, <1>7 DEF EndedInv
<1>14. EditInv'
  <2>1. \A q \in Requests : Doing(q, "edit")' =>
            request'[q].rows \subseteq Rows' /\ Live' \subseteq request'[q].rows \cup escaped'.edits
    <3> SUFFICES ASSUME NEW q \in Requests, Doing(q, "edit")'
                 PROVE  request'[q].rows \subseteq Rows' /\ Live' \subseteq request'[q].rows \cup escaped'.edits
      OBVIOUS
    <3>1. request'[q] = request[q] /\ Doing(q, "edit")
      BY <1>6 DEF Doing
    <3>2. n \in escaped'.edits
      BY <3>1, <1>8 DEF Editing
    <3> QED
      BY <3>1, <3>2, <1>7, <1>8 DEF Inv, EditInv
  <2>2. \A s \in Live' : session'[s].edits = user'.edits \/ s \in escaped'.edits
    BY <1>3, <1>4, <1>7, <1>8 DEF Inv, EditInv
  <2> QED
    BY <2>1, <2>2 DEF EditInv
<1> QED
  BY <1>5, <1>10, <1>11, <1>12, <1>13, <1>14 DEF Inv

\* What a rotation adds was made behind the back of a request that is past its
\* parent; the others reach it where they reach the parent.
LEMMA RefreshKeeps ==
    ASSUME Inv, NEW r \in Requests, Refresh(r)
    PROVE  Inv'
<1>1. PICK n \in Ids : n = Fresh
  BY DEF Refresh
<1>2. PICK s \in Live : s = request[r].of
  BY DEF Inv, RotationInv, Refresh
<1>3. /\ session' = [session EXCEPT ![s].state = "revoked",
                                    ![n] = [session[s] EXCEPT !.state = "live", !.from = s]]
      /\ escaped' = [edits |-> escaped.edits \cup Made(n, Editing \/ s \in escaped.edits),
                     walks |-> escaped.walks \cup Made(n, Walked(s) \/ s \in escaped.walks)]
      /\ Go(r, NoRequest) /\ UNCHANGED <<user, ended>>
  BY <1>1, <1>2 DEF Refresh
<1>4. /\ Adds(n, {s}) /\ session' \in [Ids -> SessionRow]
      /\ session'[n].from = s /\ session'[n].login = session[s].login
      /\ session'[n].edits = session[s].edits
  BY <1>1, <1>3, RefreshAdds DEF Inv
<1>5. ChainInv'
  BY <1>1, <1>4, RefreshKeepsChains DEF Inv
<1>6. /\ request' \in [Requests -> Request]
      /\ \A at \in {"login", "refresh", "walk", "edit"} : ~Doing(r, at)'
      /\ \A q \in Requests \ {r} : request'[q] = request[q]
  BY <1>3, Done DEF Inv
<1>7. /\ n \notin Rows /\ s \in Rows /\ Rows' = Rows \cup {n} /\ Live' = (Live \ {s}) \cup {n}
      /\ Live \subseteq Rows /\ Rows \subseteq Ids
      /\ \A t \in Rows : session'[t].login = session[t].login /\ session'[t].edits = session[t].edits
  BY <1>4 DEF Adds, Live, Rows
<1>8. /\ escaped' \in [edits : SUBSET Ids, walks : SUBSET Ids]
      /\ escaped.walks \subseteq escaped'.walks /\ escaped.edits \subseteq escaped'.edits
      /\ Editing \/ s \in escaped.edits => n \in escaped'.edits
      /\ Walked(s) \/ s \in escaped.walks => n \in escaped'.walks
  BY <1>3 DEF Inv, SessionsTypeOK, Made
<1>9. \A t \in Rows : t < n
  BY <1>1, <1>4, AddedInOrder DEF Adds, Inv, ChainInv
<1>10. SessionsTypeOK'
  BY <1>3, <1>4, <1>6, <1>8 DEF Inv, SessionsTypeOK
<1>11. RotationInv'
  <2>1. \A q \in Requests \ {r} : Doing(q, "refresh") => request[q].of # s
    BY <1>2 DEF Inv, RotationInv, Refresh
  <2> QED
    BY <2>1, <1>6, <1>7 DEF Inv, RotationInv, Doing
<1>12. WalkInv'
  <2> SUFFICES ASSUME NEW q \in Requests, Doing(q, "walk")' PROVE WalkOK(q)'
    BY DEF WalkInv
  <2>1. q # r /\ request'[q] = request[q] /\ WalkOK(q) /\ Doing(q, "walk")
    BY <1>6 DEF Inv, WalkInv, Doing
  <2>2. request[q].of \in Rows /\ request[q].seen \cup request[q].frontier \subseteq Rows
    BY <2>1 DEF WalkOK, Family
  <2>3. n \in Family(request[q].of)' => Reached(q, n)'
    <3> SUFFICES ASSUME n \in Family(request[q].of)' PROVE Reached(q, n)'
      OBVIOUS
    <3>1. s \in Family(request[q].of) \cap Live
      BY <2>1, <2>2, <1>4, <1>7 DEF Family
    <3>2. CASE s \in escaped.walks \/ s \in request[q].seen
      BY <2>1, <3>2, <1>8 DEF Reached, Walked
    <3>3. CASE s \notin escaped.walks /\ s \notin request[q].seen
      <4>1. s \in request[q].frontier \/ Ahead(q, s)
        BY <2>1, <3>1, <3>3 DEF WalkOK, Reached
      <4>2. PICK f \in request[q].frontier : f <= s
        BY <4>1, <1>7, IdsAreNumbers DEF Ahead
      <4>3. f <= n
        <5>1. f \in Nat /\ s \in Nat /\ n \in Nat /\ s < n
          BY <2>2, <4>2, <1>7, <1>9, IdsAreNumbers
        <5> QED
          BY <4>2, <5>1
      <4> QED
        BY <2>1, <4>3 DEF Reached, Ahead
    <3> QED
      BY <3>2, <3>3
  <2>4. \A t \in Family(request[q].of)' \cap Live' :
            t \in Family(request[q].of) \cap Live \/ Reached(q, t)'
    BY <2>1, <2>2, <2>3, <1>7 DEF Family
  <2> QED
    BY <2>1, <2>4, <1>7, <1>8, WalkAbides
<1>13. EndedInv'
  <2>1. \A t \in Live' : session'[t].login \in ended => t \in escaped'.walks
    BY <1>4, <1>7, <1>8 DEF Inv, EndedInv, EndedLoginIsOver
  <2> QED
    BY <2>1, <1>3, <1>7 DEF Inv, EndedInv, EndedLoginIsOver
<1>14. EditInv'
  <2>1. \A q \in Requests : Doing(q, "edit")' =>
            request'[q].rows \subseteq Rows' /\ Live' \subseteq request'[q].rows \cup escaped'.edits
    <3> SUFFICES ASSUME NEW q \in Requests, Doing(q, "edit")'
                 PROVE  request'[q].rows \subseteq Rows' /\ Live' \subseteq request'[q].rows \cup escaped'.edits
      OBVIOUS
    <3>1. request'[q] = request[q] /\ Doing(q, "edit")
      BY <1>6 DEF Doing
    <3>2. n \in escaped'.edits
      BY <3>1, <1>8 DEF Editing
    <3> QED
      BY <3>1, <3>2, <1>7, <1>8 DEF Inv, EditInv
  <2>2. \A t \in Live' : session'[t].edits = user'.edits \/ t \in escaped'.edits
    BY <1>3, <1>4, <1>7, <1>8 DEF Inv, EditInv
  <2> QED
    BY <2>1, <2>2 DEF EditInv
<1> QED
  BY <1>5, <1>10, <1>11, <1>12, <1>13, <1>14 DEF Inv

-----------------------------------------------------------------------------
(* The theorems *)

LEMMA InitInv == SessionsInit => Inv
<1> SUFFICES ASSUME SessionsInit PROVE Inv
  OBVIOUS
<1>1. \A s \in Ids : session[s] = Absent
  BY DEF SessionsInit
<1>2. Rows = {} /\ Live = {}
  BY <1>1 DEF Rows, Live, Absent
<1>3. \A r \in Requests : \A at \in {"refresh", "walk", "edit"} : ~Doing(r, at)
  BY DEF SessionsInit, NoRequest, Doing
<1>4. SessionsTypeOK
  <2>1. Absent \in SessionRow /\ NoRequest \in Request
    BY DEF Absent, SessionRow, Request
  <2> QED
    BY <2>1 DEF SessionsInit, SessionsTypeOK
<1>5. ChainInv
  BY <1>2 DEF ChainInv, InOrder
<1>6. RotationInv /\ WalkInv
  BY <1>3 DEF RotationInv, WalkInv
<1>7. EndedInv /\ EditInv
  BY <1>2, <1>3 DEF SessionsInit, EndedInv, EndedLoginIsOver, EditInv
<1> QED
  BY <1>4, <1>5, <1>6, <1>7 DEF Inv

\* Setting the user active again, and a step of something else.
LEMMA RestKeeps ==
    ASSUME Inv, UNCHANGED <<session, request, escaped, ended>>,
           user' = user \/ user' = [user EXCEPT !.active = TRUE]
    PROVE  Inv'
<1>1. user' \in [active : BOOLEAN, edits : Nat] /\ user'.edits = user.edits
  BY DEF Inv, SessionsTypeOK
<1>2. SessionsTypeOK'
  BY <1>1 DEF Inv, SessionsTypeOK
<1>3. Ends({}) /\ Rows' = Rows /\ Live' = Live
  BY RestEnds DEF Ends, SameChains
<1>4. ChainInv'
  BY <1>3, EndsKeepChains DEF Inv
<1>5. RotationInv'
  BY <1>3 DEF Inv, RotationInv, Doing
<1>6. WalkInv'
  BY <1>3, EndsLeaveWalk DEF Inv, WalkInv, Doing
<1>7. EndedInv'
  BY <1>3 DEF Inv, EndedInv, EndedLoginIsOver
<1>8. EditInv'
  BY <1>1, <1>3 DEF Inv, EditInv, Doing
<1> QED
  BY <1>2, <1>4, <1>5, <1>6, <1>7, <1>8 DEF Inv

LEMMA NextKeeps ==
    ASSUME Inv, [SessionsNext]_sessionVars
    PROVE  Inv'
<1>1. CASE Reactivate
  BY <1>1, RestKeeps DEF Reactivate
<1>2. CASE UNCHANGED sessionVars
  BY <1>2, RestKeeps DEF sessionVars
<1>3. ASSUME NEW r \in Requests,
             \/ BeginLogin(r) \/ Login(r) \/ Refresh(r) \/ Descend(r) \/ EndWalk(r)
             \/ BeginEdit(r) \/ EndEdit(r) \/ Abandon(r)
             \/ \E s \in Ids : BeginRefresh(r, s) \/ BeginLogout(r, s)
      PROVE  Inv'
  BY <1>3, StepsGo, LoginKeeps, RefreshKeeps, EndWalkKeeps, EndEditKeeps
<1> QED
  BY <1>1, <1>2, <1>3 DEF SessionsNext

LEMMA InvHolds == SessionsSpec => []Inv
BY InitInv, NextKeeps, PTL DEF SessionsSpec

\* Every reachable state of the sessions has its type.
THEOREM SessionTypes == SessionsSpec => []SessionsTypeOK
<1>1. Inv => SessionsTypeOK
  BY DEF Inv
<1> QED
  BY <1>1, InvHolds, PTL

\* However many requests rotate, replay, log out or edit, and in whatever order
\* their transactions wait for one another, one session of a login can be used.
THEOREM OneLive == SessionsSpec => []OneLivePerLogin
<1>1. Inv => OneLivePerLogin
  <2> SUFFICES ASSUME Inv, NEW s \in Rows PROVE Cardinality(Family(s) \cap Live) <= 1
    BY DEF OneLivePerLogin
  <2>1. \A t, u \in Family(s) \cap Live : t = u
    <3> SUFFICES ASSUME NEW t \in Family(s) \cap Live, NEW u \in Family(s) \cap Live PROVE t = u
      OBVIOUS
    <3>1. t \in Rows /\ u \in Rows /\ t \in Live /\ u \in Live /\ Kin(t, u) /\ Kin(u, t)
      BY DEF Family, Kin
    <3>2. t <= u /\ u <= t
      BY <3>1 DEF Inv, ChainInv
    <3>3. t \in Nat /\ u \in Nat
      BY <3>1, IdsAreNumbers DEF Rows
    <3> QED
      BY <3>2, <3>3
  <2>2. CASE Family(s) \cap Live = {}
    <3>1. Cardinality({}) = 0
      BY FS_EmptySet
    <3>2. Cardinality(Family(s) \cap Live) = 0
      BY <2>2, <3>1
    <3> QED
      BY <3>2
  <2>3. CASE Family(s) \cap Live # {}
    <3>1. PICK t : t \in Family(s) \cap Live
      BY <2>3
    <3>2. Family(s) \cap Live = {t}
      BY <2>1, <3>1
    <3>3. Cardinality({t}) = 1
      BY FS_Singleton
    <3> QED
      BY <3>2, <3>3
  <2> QED
    BY <2>2, <2>3
<1> QED
  BY <1>1, InvHolds, PTL

\* After a logout or a replay no session of the login can be used, save one that
\* descends from what a refresh made of a session whose children had been read.
THEOREM EndedIsOver == SessionsSpec => []EndedLoginIsOver
<1>1. Inv => EndedLoginIsOver
  BY DEF Inv, EndedInv
<1> QED
  BY <1>1, InvHolds, PTL

\* What is admitted was logged in after the last edit that ended the sessions of
\* the user, save what a login or refresh that overlapped with an edit made.
THEOREM AdmittedIsRecent == SessionsSpec => []AdmittedSinceEdit
<1>1. Inv => AdmittedSinceEdit
  BY DEF Inv, EditInv, AdmittedSinceEdit, Admitted
<1> QED
  BY <1>1, InvHolds, PTL
=============================================================================
