------------------------- MODULE Collaboration_proofs -------------------------
(***************************************************************************)
(* Proofs about Collaboration for any number of sockets, savers and        *)
(* updates, any bundle size and any compaction period.                     *)
(***************************************************************************)
EXTENDS Collaboration, WellFoundedInduction, TLAPS

-----------------------------------------------------------------------------
(* The inductive invariants.                                               *)

\* A number that was handed out is not the one that means "never".
Numbered == \A w \in Writers : at[w] = "numbered" => seq[w] # 0

\* What a handler is about to broadcast has been inserted; a saved document
\* brings no updates; a handler joined with updates that were inserted.
DurableInv ==
  /\ DeliveredIsDurable
  /\ \A w \in Writers : at[w] # "numbered" => hand[w] \subseteq Accepted
  /\ \A s \in Sockets : basis[s].doc \subseteq Accepted

\* Whoever has joined and is not broken is in the group of the project.
Joined(s) == at[s] \notin {"new", "closed"} /\ s \notin broken

LiveInv ==
  /\ LiveDelivery
  /\ \A s \in Sockets : Joined(s) => s \in group
  /\ \A v \in Savers : hand[v] = {}

\* While the anchor has not moved back, every accepted update is in the row it
\* was inserted with or covered by the anchor, and a compaction that was
\* allowed still is.
LogInv ==
  ~backwards =>
    /\ \A u \in Accepted :
         \/ accepted[u] \in DOMAIN events /\ u \in events[accepted[u]]
         \/ accepted[u] <= anchor.seq
    /\ \A v \in Savers : at[v] = "checked" => anchor.seq >= KeepAfter(seq[v])

\* JoinIsGapless for a handler at any step after its replay.
Replayed(s) == at[s] \in {"open", "numbered", "appended"} /\ s \notin broken

GaplessInv ==
  ~backwards =>
    \A s \in Sockets : Replayed(s) =>
      \A u \in Accepted \ got[s] :
        \/ InFlight(u)
        \/ accepted[u] <= basis[s].seq
        \/ accepted[u] <= anchor.seq

-----------------------------------------------------------------------------
(* Max of the sequence numbers.                                            *)

\* A set of naturals that is not empty has a least element.
LEMMA LeastExists ==
  ASSUME NEW T, T \subseteq Nat, T # {}
  PROVE  \E x \in T : \A y \in T : x <= y
<1> DEFINE less == {p \in Nat \X Nat : p[1] < p[2]}
<1>1. IsWellFoundedOn(less, Nat)
  BY NatLessThanWellFounded DEF OpToRel
<1>2. PICK x \in T : \A y \in T : ~(<<y, x>> \in less)
  <2> HIDE DEF less
  <2> QED BY <1>1, WFMin
<1>3. ASSUME NEW y \in T PROVE x <= y
  <2>1. x \in Nat /\ y \in Nat /\ <<y, x>> \in Nat \X Nat
    OBVIOUS
  <2>2. ~(y < x)
    BY <1>2, <2>1
  <2> QED BY <2>1, <2>2
<1> QED BY <1>3

\* MAX(seq) over rows that there are is one of them, and none is greater.
LEMMA MaxIsGreatest ==
  ASSUME NEW n \in Nat, NEW S \in SUBSET (0..n), S # {}
  PROVE  Max(S) \in S /\ \A x \in S : x <= Max(S)
<1> DEFINE below == {d \in 0..n : n - d \in S}
<1>1. below \subseteq Nat
  OBVIOUS
<1>2. below # {}
  <2>1. PICK x \in S : x \in 0..n
    OBVIOUS
  <2>2. n - x \in 0..n /\ n - (n - x) = x
    BY <2>1
  <2> QED BY <2>1, <2>2
<1>3. PICK d \in below : \A e \in below : d <= e
  <2> HIDE DEF below
  <2> QED BY <1>1, <1>2, LeastExists
<1>4. d \in 0..n /\ n - d \in S
  OBVIOUS
<1>5. ASSUME NEW y \in S PROVE n - d >= y
  <2>1. y \in 0..n /\ n - y \in 0..n /\ n - (n - y) = y
    OBVIOUS
  <2>2. n - y \in below
    BY <2>1
  <2>3. d <= n - y
    <3> HIDE DEF below
    <3> QED BY <1>3, <2>2
  <2> QED BY <1>4, <2>1, <2>3
<1>6. Max(S) \in S /\ \A y \in S : Max(S) >= y
  BY <1>4, <1>5 DEF Max
<1> QED BY <1>6

\* The number an append computes is after every row and the anchor, and never 0.
LEMMA NextSeqTyped ==
  ASSUME TypeOK
  PROVE  NextSeq \in Nat /\ NextSeq # 0
<1>1. DOMAIN events \cup {anchor.seq} \in SUBSET (0..MaxSeq)
  BY CollaborationAssumption DEF TypeOK, Anchors, Seqs
<1>2. Max(DOMAIN events \cup {anchor.seq}) \in DOMAIN events \cup {anchor.seq}
  BY <1>1, MaxIsGreatest, CollaborationAssumption
<1>3. Max(DOMAIN events \cup {anchor.seq}) \in 0..MaxSeq
  BY <1>1, <1>2
<1> QED BY <1>3, CollaborationAssumption DEF NextSeq

\* The last event a Git mutation finds is one that fits the log.
LEMMA LastSeqTyped ==
  ASSUME TypeOK
  PROVE  LastSeq \in Seqs
<1>1. DOMAIN events \cup {0} \in SUBSET (0..MaxSeq)
  BY CollaborationAssumption DEF TypeOK, Seqs
<1>2. Max(DOMAIN events \cup {0}) \in DOMAIN events \cup {0}
  BY <1>1, MaxIsGreatest, CollaborationAssumption
<1> QED BY <1>1, <1>2 DEF LastSeq, Seqs

\* The first row a compaction keeps has a number.
LEMMA KeepAfterTyped ==
  ASSUME NEW q \in Seqs
  PROVE  KeepAfter(q) \in Int
<1>1. 1 \in Int /\ q - Period \in Int
  BY CollaborationAssumption DEF Seqs
<1>2. \E x \in {1, q - Period} : \A y \in {1, q - Period} : x >= y
  BY <1>1
<1>3. Max({1, q - Period}) \in {1, q - Period}
  BY <1>2 DEF Max
<1> QED BY <1>1, <1>3 DEF KeepAfter

-----------------------------------------------------------------------------
(* Every variable keeps its type.                                          *)

\* An empty log without clients has the types.
LEMMA TypeInit == Init => TypeOK
<1> SUFFICES ASSUME Init PROVE TypeOK
  OBVIOUS
<1>1. 0 \in Seqs /\ gitRuns \in 0..MaxGit
  BY CollaborationAssumption DEF Init, Seqs
<1>2. NoAnchor \in Anchors
  BY <1>1 DEF NoAnchor, Anchors
<1>3. DOMAIN events \subseteq 1..MaxSeq /\ \A q \in DOMAIN events : events[q] \subseteq Updates
  BY DEF Init
<1>4. /\ DOMAIN at = Writers
      /\ \A s \in Sockets : at[s] \in SocketSteps
      /\ \A v \in Savers : at[v] \in SaverSteps
  BY CollaborationAssumption DEF Init, Writers, SocketSteps, SaverSteps
<1> QED BY <1>1, <1>2, <1>3, <1>4 DEF Init, TypeOK

\* A handler moves to a step that it has.
LEMMA AtTyped ==
  ASSUME TypeOK, NEW w \in Writers, NEW step, at' = [at EXCEPT ![w] = step],
         w \in Sockets => step \in SocketSteps, w \in Savers => step \in SaverSteps
  PROVE  /\ DOMAIN at' = Writers
         /\ \A s \in Sockets : at'[s] \in SocketSteps
         /\ \A v \in Savers : at'[v] \in SaverSteps
BY DEF TypeOK, Writers

\* A snapshot that is written is a snapshot.
LEMMA AnchorTyped ==
  ASSUME TypeOK, NEW q \in Seqs, NEW doc \in SUBSET Updates, Anchor(q, doc)
  PROVE  anchor' \in Anchors /\ backwards' \in BOOLEAN
BY DEF Anchor, Anchors, TypeOK

\* A broadcast reaches sockets only.
LEMMA DeliverTyped ==
  ASSUME TypeOK, NEW targets \in SUBSET Sockets, NEW brought \in SUBSET Updates,
         Deliver(targets, brought)
  PROVE  group' \subseteq Sockets /\ got' \in [Sockets -> SUBSET Updates]
BY DEF Deliver, TypeOK

\* The rows of a typed log bring updates.
LEMMA BringsTyped ==
  ASSUME NEW rows, \A q \in DOMAIN rows : rows[q] \subseteq Updates
  PROVE  Brings(rows) \subseteq Updates
BY DEF Brings

\* A deletion leaves the rows from some number on as they were.
LEMMA FromIs ==
  ASSUME NEW rows, NEW q
  PROVE  /\ DOMAIN From(rows, q) = {k \in DOMAIN rows : k >= q}
         /\ \A k \in DOMAIN From(rows, q) : From(rows, q)[k] = rows[k]
BY DEF From, Restrict

\* What is left of a typed log is a typed log.
LEMMA FromTyped ==
  ASSUME NEW rows, NEW q, DOMAIN rows \subseteq 1..MaxSeq,
         \A k \in DOMAIN rows : rows[k] \subseteq Updates
  PROVE  /\ DOMAIN From(rows, q) \subseteq 1..MaxSeq
         /\ \A k \in DOMAIN From(rows, q) : From(rows, q)[k] \subseteq Updates
BY FromIs

\* An insert adds its row, and a bundle takes rows away.
LEMMA InsertTyped ==
  ASSUME TypeOK, NEW q \in Seqs, q # 0, NEW brought \in SUBSET Updates, Insert(q, brought)
  PROVE  /\ DOMAIN events' \subseteq 1..MaxSeq
         /\ \A k \in DOMAIN events' : events'[k] \subseteq Updates
         /\ anchor' \in Anchors /\ backwards' \in BOOLEAN
         /\ accepted' \in [Updates -> Seqs]
<1> DEFINE rows == [k \in DOMAIN events \cup {q} |-> IF k = q THEN brought ELSE events[k]]
<1>1. q \in 1..MaxSeq
  BY CollaborationAssumption DEF Seqs
<1>2. /\ DOMAIN rows \subseteq 1..MaxSeq
      /\ \A k \in DOMAIN rows : rows[k] \subseteq Updates
  BY <1>1 DEF TypeOK
<1>3. accepted' \in [Updates -> Seqs]
  BY DEF Insert, TypeOK
<1>4. \/ Anchor(q, Brings(rows)) /\ events' = From(rows, q + 1)
      \/ events' = rows /\ UNCHANGED <<anchor, backwards>>
  BY DEF Insert
<1> HIDE DEF rows
<1>5. Brings(rows) \subseteq Updates
  BY <1>2, BringsTyped
<1>6. CASE Anchor(q, Brings(rows)) /\ events' = From(rows, q + 1)
  <2>1. anchor' \in Anchors /\ backwards' \in BOOLEAN
    BY <1>5, <1>6, AnchorTyped
  <2> QED BY <1>2, <1>3, <1>6, <2>1, FromTyped
<1>7. CASE events' = rows /\ UNCHANGED <<anchor, backwards>>
  BY <1>2, <1>3, <1>7 DEF TypeOK
<1> QED BY <1>4, <1>6, <1>7

\* Every step of a handler, a save or a Git mutation keeps the types.
LEMMA TypeStep == TypeOK /\ Numbered /\ [Next]_vars => TypeOK'
<1> SUFFICES ASSUME TypeOK, Numbered, [Next]_vars PROVE TypeOK'
  OBVIOUS
<1> USE CollaborationAssumption
<1>1. ASSUME NEW s \in Sockets, Join(s) PROVE TypeOK'
  <2>1. group' \subseteq Sockets /\ got' \in [Sockets -> SUBSET Updates]
    <3>1. group \cup {s} \in SUBSET Sockets
      BY DEF TypeOK
    <3> QED BY <1>1, <3>1, DeliverTyped DEF Join
  <2>2. /\ DOMAIN at' = Writers
        /\ \A t \in Sockets : at'[t] \in SocketSteps
        /\ \A v \in Savers : at'[v] \in SaverSteps
    BY <1>1, AtTyped DEF Join, Writers, SocketSteps
  <2>3. before' \in [Sockets -> SUBSET Updates]
    BY <1>1 DEF Join, TypeOK, Accepted
  <2> QED BY <1>1, <2>1, <2>2, <2>3 DEF Join, TypeOK, store, git
<1>2. ASSUME NEW s \in Sockets, Abort(s) PROVE TypeOK'
  <2>1. /\ DOMAIN at' = Writers
        /\ \A t \in Sockets : at'[t] \in SocketSteps
        /\ \A v \in Savers : at'[v] \in SaverSteps
    BY <1>2, AtTyped DEF Abort, Writers, SocketSteps
  <2>2. basis' \in [Sockets -> Anchors]
    BY <1>2 DEF Abort, TypeOK, Anchors, NoAnchor, Seqs
  <2> QED BY <1>2, <2>1, <2>2 DEF Abort, TypeOK, store, git
<1>3. ASSUME NEW s \in Sockets, ReadAnchor(s) PROVE TypeOK'
  <2>1. /\ DOMAIN at' = Writers
        /\ \A t \in Sockets : at'[t] \in SocketSteps
        /\ \A v \in Savers : at'[v] \in SaverSteps
    BY <1>3, AtTyped DEF ReadAnchor, Writers, SocketSteps
  <2>2. basis' \in [Sockets -> Anchors] /\ got' \in [Sockets -> SUBSET Updates]
    BY <1>3 DEF ReadAnchor, TypeOK, Anchors
  <2> QED BY <1>3, <2>1, <2>2 DEF ReadAnchor, TypeOK, store, git
<1>4. ASSUME NEW s \in Sockets, ReadEvents(s) PROVE TypeOK'
  <2>1. /\ DOMAIN at' = Writers
        /\ \A t \in Sockets : at'[t] \in SocketSteps
        /\ \A v \in Savers : at'[v] \in SaverSteps
    BY <1>4, AtTyped DEF ReadEvents, Writers, SocketSteps
  <2>2. Replay(basis[s].seq) \subseteq Updates
    <3>1. \A k \in DOMAIN From(events, basis[s].seq + 1) :
            From(events, basis[s].seq + 1)[k] \subseteq Updates
      BY FromTyped DEF TypeOK
    <3> QED BY <3>1, BringsTyped DEF Replay
  <2>3. got' \in [Sockets -> SUBSET Updates]
    BY <1>4, <2>2 DEF ReadEvents, TypeOK
  <2> QED BY <1>4, <2>1, <2>3 DEF ReadEvents, TypeOK, store, git
<1>5. ASSUME NEW s \in Sockets, Leave(s) PROVE TypeOK'
  <2>1. group' \subseteq Sockets /\ got' \in [Sockets -> SUBSET Updates]
    <3>1. group \ {s} \in SUBSET Sockets
      BY DEF TypeOK
    <3> QED BY <1>5, <3>1, DeliverTyped DEF Leave
  <2>2. /\ DOMAIN at' = Writers
        /\ \A t \in Sockets : at'[t] \in SocketSteps
        /\ \A v \in Savers : at'[v] \in SaverSteps
    BY <1>5, AtTyped DEF Leave, Writers, SocketSteps
  <2>3. basis' \in [Sockets -> Anchors] /\ broken' \subseteq Sockets
    BY <1>5 DEF Leave, TypeOK, Anchors, NoAnchor, Seqs
  <2> QED BY <1>5, <2>1, <2>2, <2>3 DEF Leave, TypeOK, store, git
<1>6. ASSUME NEW w \in Writers, Number(w) PROVE seq' \in [Writers -> Seqs]
  BY <1>6, NextSeqTyped DEF Number, TypeOK, Seqs
<1>7. ASSUME NEW s \in Sockets, Edit(s) PROVE TypeOK'
  <2>1. /\ DOMAIN at' = Writers
        /\ \A t \in Sockets : at'[t] \in SocketSteps
        /\ \A v \in Savers : at'[v] \in SaverSteps
    BY <1>7, AtTyped DEF Edit, Writers, SocketSteps
  <2>2. basis[s].doc \subseteq Updates
    BY DEF TypeOK, Anchors
  <2>3. hand' \in [Writers -> SUBSET Updates]
    BY <1>7, <2>2 DEF Edit, TypeOK, Writers
  <2> QED BY <1>6, <1>7, <2>1, <2>3 DEF Edit, TypeOK, store, git, Writers
<1>8. ASSUME NEW s \in Sockets, Break(s) PROVE TypeOK'
  BY <1>8 DEF Break, TypeOK, store, git
<1>9. ASSUME NEW w \in Writers, Append(w) PROVE TypeOK'
  <2>1. seq[w] \in Seqs /\ seq[w] # 0 /\ hand[w] \in SUBSET Updates
    BY <1>9 DEF Append, Numbered, TypeOK
  <2>2. /\ DOMAIN at' = Writers
        /\ \A t \in Sockets : at'[t] \in SocketSteps
        /\ \A v \in Savers : at'[v] \in SaverSteps
    BY <1>9, AtTyped DEF Append, SocketSteps, SaverSteps
  <2> QED BY <1>9, <2>1, <2>2, InsertTyped DEF Append, TypeOK, git
<1>10. ASSUME NEW w \in Writers, Conflict(w) PROVE TypeOK'
  <2>1. /\ DOMAIN at' = Writers
        /\ \A t \in Sockets : at'[t] \in SocketSteps
        /\ \A v \in Savers : at'[v] \in SaverSteps
    BY <1>10, AtTyped DEF Conflict, SocketSteps, SaverSteps
  <2>2. hand' \in [Writers -> SUBSET Updates] /\ seq' \in [Writers -> Seqs]
    BY <1>10 DEF Conflict, TypeOK, Seqs
  <2> QED BY <1>10, <2>1, <2>2 DEF Conflict, TypeOK, store, git
<1>11. ASSUME NEW w \in Writers, Broadcast(w) PROVE TypeOK'
  <2>1. group' \subseteq Sockets /\ got' \in [Sockets -> SUBSET Updates]
    <3>1. group \in SUBSET Sockets /\ hand[w] \in SUBSET Updates
      BY DEF TypeOK
    <3> QED BY <1>11, <3>1, DeliverTyped DEF Broadcast
  <2>2. /\ DOMAIN at' = Writers
        /\ \A t \in Sockets : at'[t] \in SocketSteps
        /\ \A v \in Savers : at'[v] \in SaverSteps
    BY <1>11, AtTyped DEF Broadcast, SocketSteps, SaverSteps
  <2>3. hand' \in [Writers -> SUBSET Updates] /\ seq' \in [Writers -> Seqs]
    BY <1>11 DEF Broadcast, TypeOK, Seqs
  <2> QED BY <1>11, <2>1, <2>2, <2>3 DEF Broadcast, TypeOK, store, git
<1>12. ASSUME NEW v \in Savers, Save(v) PROVE TypeOK'
  <2>1. /\ DOMAIN at' = Writers
        /\ \A t \in Sockets : at'[t] \in SocketSteps
        /\ \A u \in Savers : at'[u] \in SaverSteps
    BY <1>12, AtTyped DEF Save, Writers, SaverSteps
  <2> QED BY <1>6, <1>12, <2>1 DEF Save, TypeOK, store, git, Writers
<1>13. ASSUME NEW v \in Savers, SaveAnchor(v) PROVE TypeOK'
  <2>1. /\ DOMAIN at' = Writers
        /\ \A t \in Sockets : at'[t] \in SocketSteps
        /\ \A u \in Savers : at'[u] \in SaverSteps
    BY <1>13, AtTyped DEF SaveAnchor, Writers, SaverSteps
  <2>2. seq[v] \in Seqs
    BY DEF TypeOK, Writers
  <2>3. anchor' \in Anchors /\ backwards' \in BOOLEAN
    BY <1>13, <2>2, AnchorTyped DEF SaveAnchor
  <2> QED BY <1>13, <2>1, <2>3 DEF SaveAnchor, TypeOK, git
<1>14. ASSUME NEW v \in Savers, CheckAnchor(v) PROVE TypeOK'
  <2>1. /\ DOMAIN at' = Writers
        /\ \A t \in Sockets : at'[t] \in SocketSteps
        /\ \A u \in Savers : at'[u] \in SaverSteps
    BY <1>14, AtTyped DEF CheckAnchor, Writers, SaverSteps
  <2> QED BY <1>14, <2>1 DEF CheckAnchor, TypeOK, store, git
<1>15. ASSUME NEW v \in Savers, Compact(v) PROVE TypeOK'
  <2>1. /\ DOMAIN at' = Writers
        /\ \A t \in Sockets : at'[t] \in SocketSteps
        /\ \A u \in Savers : at'[u] \in SaverSteps
    BY <1>15, AtTyped DEF Compact, Writers, SaverSteps
  <2>2. /\ DOMAIN events' \subseteq 1..MaxSeq
        /\ \A k \in DOMAIN events' : events'[k] \subseteq Updates
    BY <1>15, FromTyped DEF Compact, TypeOK
  <2> QED BY <1>15, <2>1, <2>2 DEF Compact, TypeOK, git
<1>16. CASE GitRead
  BY <1>16, LastSeqTyped DEF GitRead, TypeOK, store, sockets
<1>17. CASE GitAnchor
  <2>1. gitSeq \in Seqs
    BY <1>17 DEF GitAnchor, TypeOK
  <2>2. anchor' \in Anchors /\ backwards' \in BOOLEAN
    BY <1>17, <2>1, AnchorTyped DEF GitAnchor
  <2> QED BY <1>17, <2>2 DEF GitAnchor, TypeOK, sockets
<1>18. CASE UNCHANGED vars
  BY <1>18 DEF vars, TypeOK, store, sockets, git
<1> QED
  BY <1>1, <1>2, <1>3, <1>4, <1>5, <1>7, <1>8, <1>9, <1>10, <1>11, <1>12, <1>13, <1>14,
     <1>15, <1>16, <1>17, <1>18
  DEF Next, Handle, Persist, Finish
\* No handler has a number at first.
LEMMA NumberedInit == Init => Numbered
BY DEF Init, Numbered

\* A handler gets its number with the step that makes it numbered.
LEMMA NumberedStep == TypeOK /\ Numbered /\ [Next]_vars => Numbered'
<1> SUFFICES ASSUME TypeOK, Numbered, [Next]_vars PROVE Numbered'
  OBVIOUS
<1>1. ASSUME NEW s \in Sockets, Edit(s) PROVE Numbered'
  BY <1>1, NextSeqTyped DEF Edit, Number, Numbered, TypeOK, Writers
<1>2. ASSUME NEW v \in Savers, Save(v) PROVE Numbered'
  BY <1>2, NextSeqTyped DEF Save, Number, Numbered, TypeOK, Writers
<1>3. ASSUME NEW s \in Sockets,
             Join(s) \/ Abort(s) \/ ReadAnchor(s) \/ ReadEvents(s) \/ Leave(s) \/ Break(s)
      PROVE  Numbered'
  BY <1>3 DEF Join, Abort, ReadAnchor, ReadEvents, Leave, Break, Numbered, TypeOK, Writers
<1>4. ASSUME NEW w \in Writers, Append(w) \/ Conflict(w) \/ Broadcast(w) PROVE Numbered'
  BY <1>4 DEF Append, Conflict, Broadcast, Numbered, TypeOK
<1>5. ASSUME NEW v \in Savers, SaveAnchor(v) \/ CheckAnchor(v) \/ Compact(v) PROVE Numbered'
  BY <1>5 DEF SaveAnchor, CheckAnchor, Compact, Numbered, TypeOK, Writers
<1>6. CASE GitRead \/ GitAnchor \/ UNCHANGED vars
  BY <1>6 DEF GitRead, GitAnchor, vars, sockets, Numbered
<1> QED BY <1>1, <1>2, <1>3, <1>4, <1>5, <1>6 DEF Next, Handle, Persist, Finish

\* The log, the anchor and what the handlers hold keep their types.
THEOREM TypeCorrect == Spec => []TypeOK
BY TypeInit, NumberedInit, TypeStep, NumberedStep, PTL DEF Spec

-----------------------------------------------------------------------------
(* What was accepted stays accepted.                                       *)

\* An insert gives new updates its number and leaves the others theirs.
LEMMA InsertAccepts ==
  ASSUME TypeOK, NEW q \in Seqs, q # 0, NEW brought \in SUBSET Updates, Insert(q, brought)
  PROVE  /\ Accepted' = Accepted \cup brought
         /\ \A u \in Accepted : accepted'[u] = accepted[u]
         /\ \A u \in brought \ Accepted : accepted'[u] = q
BY DEF Insert, Accepted, TypeOK

\* Only an append accepts updates; no step takes one back.
LEMMA AcceptedGrows ==
  ASSUME TypeOK, Numbered, [Next]_vars
  PROVE  /\ Accepted \subseteq Accepted'
         /\ \A u \in Accepted : accepted'[u] = accepted[u]
         /\ \/ accepted' = accepted
            \/ \E w \in Writers : Append(w)
<1>1. ASSUME NEW w \in Writers, Append(w)
      PROVE  Accepted \subseteq Accepted' /\ \A u \in Accepted : accepted'[u] = accepted[u]
  <2>1. seq[w] \in Seqs /\ seq[w] # 0 /\ hand[w] \in SUBSET Updates /\ Insert(seq[w], hand[w])
    BY <1>1 DEF Append, Numbered, TypeOK
  <2> QED BY <2>1, InsertAccepts
<1>2. ASSUME accepted' = accepted PROVE Accepted' = Accepted
  BY <1>2 DEF Accepted
<1>3. accepted' = accepted \/ \E w \in Writers : Append(w)
  BY DEF Next, Handle, Persist, Finish, vars, store, Join, Abort, ReadAnchor, ReadEvents, Leave,
         Edit, Break, Conflict, Broadcast, Save, SaveAnchor, CheckAnchor, Compact, GitRead, GitAnchor
<1> QED BY <1>1, <1>2, <1>3

-----------------------------------------------------------------------------
(* What is shared was accepted.                                            *)

\* Nothing is shared at first.
LEMMA DurableInit == Init => DurableInv
BY DEF Init, DurableInv, DeliveredIsDurable, Brings, NoAnchor

\* The rows that a deletion leaves bring nothing new.
LEMMA FromBrings ==
  ASSUME NEW rows, NEW q
  PROVE  Brings(From(rows, q)) \subseteq Brings(rows)
<1> SUFFICES ASSUME NEW k \in DOMAIN From(rows, q), NEW u \in From(rows, q)[k]
             PROVE  u \in Brings(rows)
  BY DEF Brings
<1>1. k \in DOMAIN rows /\ u \in rows[k]
  BY FromIs
<1> QED BY <1>1 DEF Brings

\* What an append shares it has accepted.
LEMMA InsertDurable ==
  ASSUME TypeOK, NEW q \in Seqs, q # 0, NEW brought \in SUBSET Updates, Insert(q, brought),
         Brings(events) \cup anchor.doc \subseteq Accepted
  PROVE  (Brings(events) \cup anchor.doc \subseteq Accepted)'
<1> DEFINE rows == [k \in DOMAIN events \cup {q} |-> IF k = q THEN brought ELSE events[k]]
<1>1. Brings(rows) \subseteq Brings(events) \cup brought
  BY DEF Brings
<1>2. \/ Anchor(q, Brings(rows)) /\ events' = From(rows, q + 1)
      \/ events' = rows /\ UNCHANGED <<anchor, backwards>>
  BY DEF Insert
<1> HIDE DEF rows
<1>3. Brings(events') \subseteq Brings(rows)
  BY <1>2, FromBrings
<1>4. anchor'.doc \subseteq Brings(rows) \cup anchor.doc
  BY <1>2 DEF Anchor
<1> QED BY <1>1, <1>3, <1>4, InsertAccepts DEF Brings

\* Every step shares only what was accepted.
LEMMA DurableStep == TypeOK /\ Numbered /\ DurableInv /\ [Next]_vars => DurableInv'
<1> SUFFICES ASSUME TypeOK, Numbered, DurableInv, [Next]_vars PROVE DurableInv'
  OBVIOUS
<1> USE DEF DurableInv, DeliveredIsDurable
<1>0. Accepted \subseteq Accepted'
  BY AcceptedGrows
<1>1. ASSUME NEW s \in Sockets, Join(s) \/ Break(s) PROVE DurableInv'
  BY <1>0, <1>1 DEF Join, Break, Deliver, TypeOK, store, Brings
<1>2. ASSUME NEW s \in Sockets, Abort(s) \/ Leave(s) PROVE DurableInv'
  <2>1. /\ UNCHANGED <<store, seq, hand>> /\ \A t \in Sockets : got'[t] \subseteq got[t]
        /\ basis' = [basis EXCEPT ![s] = NoAnchor]
        /\ \A w \in Writers : at[w] = "numbered" => at'[w] = "numbered"
    BY <1>2 DEF Abort, Leave, Deliver, TypeOK, Writers
  <2>2. NoAnchor.doc = {}
    BY DEF NoAnchor
  <2> QED BY <1>0, <2>1, <2>2 DEF store, TypeOK, Brings
<1>3. ASSUME NEW s \in Sockets, ReadAnchor(s) PROVE DurableInv'
  BY <1>0, <1>3 DEF ReadAnchor, TypeOK, store, Writers, Brings
<1>4. ASSUME NEW s \in Sockets, ReadEvents(s) PROVE DurableInv'
  <2>1. Replay(basis[s].seq) \subseteq Accepted
    BY FromBrings DEF Replay
  <2> QED BY <1>0, <1>4, <2>1 DEF ReadEvents, TypeOK, store, Writers, Brings
<1>5. ASSUME NEW s \in Sockets, Edit(s) PROVE DurableInv'
  BY <1>0, <1>5 DEF Edit, TypeOK, store, Writers, Brings
<1>6. ASSUME NEW w \in Writers, Append(w) PROVE DurableInv'
  <2>1. seq[w] \in Seqs /\ seq[w] # 0 /\ hand[w] \in SUBSET Updates /\ Insert(seq[w], hand[w])
    BY <1>6 DEF Append, Numbered, TypeOK
  <2>2. (Brings(events) \cup anchor.doc \subseteq Accepted)'
    BY <2>1, InsertDurable
  <2>3. hand[w] \subseteq Accepted'
    BY <2>1, InsertAccepts
  <2> QED BY <1>0, <1>6, <2>2, <2>3 DEF Append, TypeOK
<1>7. ASSUME NEW w \in Writers, Conflict(w) PROVE DurableInv'
  BY <1>0, <1>7 DEF Conflict, TypeOK, store, Brings
<1>8. ASSUME NEW w \in Writers, Broadcast(w) PROVE DurableInv'
  BY <1>0, <1>8 DEF Broadcast, Deliver, TypeOK, store, Brings
<1>9. ASSUME NEW v \in Savers, Save(v) \/ CheckAnchor(v) PROVE DurableInv'
  BY <1>0, <1>9 DEF Save, CheckAnchor, TypeOK, store, Writers, Brings
<1>10. ASSUME NEW v \in Savers, SaveAnchor(v) PROVE DurableInv'
  BY <1>0, <1>10 DEF SaveAnchor, Anchor, TypeOK, Writers, Brings
<1>11. ASSUME NEW v \in Savers, Compact(v) PROVE DurableInv'
  <2>1. Brings(events') \subseteq Brings(events)
    BY <1>11, FromBrings DEF Compact
  <2> QED BY <1>0, <1>11, <2>1 DEF Compact, TypeOK, Writers, Brings
<1>12. CASE GitRead \/ GitAnchor \/ UNCHANGED vars
  BY <1>0, <1>12 DEF GitRead, GitAnchor, Anchor, vars, sockets, store, Brings
<1> QED
  BY <1>1, <1>2, <1>3, <1>4, <1>5, <1>6, <1>7, <1>8, <1>9, <1>10, <1>11, <1>12
  DEF Next, Handle, Persist, Finish

\* No client, row or snapshot ever holds an update whose insert has failed.
THEOREM SharedIsDurable == Spec => []DeliveredIsDurable
<1>1. DurableInv => DeliveredIsDurable
  BY DEF DurableInv
<1> QED
  BY <1>1, TypeInit, NumberedInit, DurableInit, TypeStep, NumberedStep, DurableStep, PTL DEF Spec
-----------------------------------------------------------------------------
(* Live delivery.  A joined client is in the group, and an update leaves   *)
(* the hand of a handler only with the broadcast to the group.             *)

\* Nobody has joined at first.
LEMMA LiveInit == Init => LiveInv
BY CollaborationAssumption DEF Init, LiveInv, LiveDelivery, Joined, Writers

\* While nothing is inserted or broadcast, those who had joined lack what
\* they lacked before.
LEMMA LiveKept ==
  ASSUME LiveInv, accepted' = accepted, hand' = hand,
         \A w \in Writers : at[w] = "appended" /\ hand[w] # {} => at'[w] = "appended",
         \A s \in Sockets :
           Joined(s)' => /\ Joined(s) /\ (s \in group => s \in group')
                         /\ before'[s] = before[s] /\ got[s] \subseteq got'[s]
  PROVE  LiveInv'
<1>1. \A u : InFlight(u) => InFlight(u)'
  BY DEF InFlight
<1> QED BY <1>1 DEF LiveInv, LiveDelivery, Joined, Accepted

\* Every step leaves a joined client only updates that are still to come.
LEMMA LiveStep == TypeOK /\ Numbered /\ LiveInv /\ [Next]_vars => LiveInv'
<1> SUFFICES ASSUME TypeOK, Numbered, LiveInv, [Next]_vars PROVE LiveInv'
  OBVIOUS
<1> USE CollaborationAssumption
<1>1. ASSUME NEW s \in Sockets, Join(s) PROVE LiveInv'
  <2>1. /\ accepted' = accepted /\ hand' = hand /\ broken' = broken
        /\ before' = [before EXCEPT ![s] = Accepted] /\ at' = [at EXCEPT ![s] = "joined"]
        /\ at[s] = "new"
        /\ group' = (group \cup {s}) \ broken
        /\ \A t \in Sockets : got[t] \subseteq got'[t]
    BY <1>1 DEF Join, Deliver, TypeOK, store
  <2>2. \A u : InFlight(u) => InFlight(u)'
    BY <2>1 DEF InFlight, TypeOK
  <2>3. \A t \in Sockets : Joined(t)' => t \in group'
    BY <2>1 DEF LiveInv, Joined, TypeOK, Writers
  <2>4. ASSUME NEW t \in Sockets, Joined(t)', NEW u \in Accepted' \ (before'[t] \cup got'[t])
        PROVE  InFlight(u)'
    BY <2>1, <2>2, <2>4 DEF LiveInv, LiveDelivery, Joined, TypeOK, Writers, Accepted
  <2> QED BY <2>1, <2>3, <2>4 DEF LiveInv, LiveDelivery, Joined
<1>2. ASSUME NEW s \in Sockets, Abort(s) \/ ReadAnchor(s) \/ ReadEvents(s) PROVE LiveInv'
  BY <1>2, LiveKept
  DEF Abort, ReadAnchor, ReadEvents, Joined, TypeOK, store, Writers
<1>3. ASSUME NEW s \in Sockets, Leave(s) PROVE LiveInv'
  BY <1>3, LiveKept DEF Leave, Deliver, Joined, TypeOK, store, Writers
<1>4. ASSUME NEW s \in Sockets, Break(s) PROVE LiveInv'
  BY <1>4, LiveKept DEF Break, Joined, TypeOK, store, Writers
<1>5. ASSUME NEW w \in Writers, at[w] # "appended", accepted' = accepted,
             \A v \in Writers \ {w} : hand'[v] = hand[v] /\ at'[v] = at[v],
             w \in Savers => hand'[w] = {},
             at'[w] \notin {"new", "closed"}, at[w] \notin {"new", "closed"},
             UNCHANGED <<got, before, group, broken>>
      PROVE  LiveInv'
  <2>1. \A u : InFlight(u) => InFlight(u)'
    BY <1>5 DEF InFlight
  <2>2. \A s \in Sockets : Joined(s)' <=> Joined(s)
    BY <1>5 DEF Joined, Writers
  <2>3. \A v \in Savers : hand'[v] = {}
    BY <1>5 DEF LiveInv, Writers
  <2> QED BY <1>5, <2>1, <2>2, <2>3 DEF LiveInv, LiveDelivery, Joined, Accepted
<1>6. ASSUME NEW s \in Sockets, Edit(s) PROVE LiveInv'
  BY <1>5, <1>6 DEF Edit, TypeOK, store, Writers
<1>7. ASSUME NEW w \in Writers, Conflict(w) PROVE LiveInv'
  BY <1>5, <1>7 DEF Conflict, TypeOK, store
<1>8. ASSUME NEW v \in Savers, Save(v) \/ CheckAnchor(v) \/ SaveAnchor(v) \/ Compact(v)
      PROVE  LiveInv'
  <2>1. hand[v] = {} /\ \A w \in Writers \ {v} : at'[w] = at[w]
    BY <1>8 DEF Save, CheckAnchor, SaveAnchor, Compact, TypeOK, LiveInv
  <2>2. accepted' = accepted /\ UNCHANGED <<hand, got, before, group, broken>>
    BY <1>8 DEF Save, CheckAnchor, SaveAnchor, Compact, store
  <2> QED BY <2>1, <2>2, LiveKept DEF Joined, Writers
<1>9. ASSUME NEW w \in Writers, Append(w) PROVE LiveInv'
  <2>1. /\ seq[w] \in Seqs /\ seq[w] # 0 /\ hand[w] \in SUBSET Updates
        /\ Insert(seq[w], hand[w])
    BY <1>9 DEF Append, Numbered, TypeOK
  <2>2. /\ at[w] = "numbered" /\ at' = [at EXCEPT ![w] = "appended"]
        /\ UNCHANGED <<hand, got, before, group, broken>>
    BY <1>9 DEF Append
  <2>3. \A u : InFlight(u) => InFlight(u)'
    BY <2>2 DEF InFlight, TypeOK
  <2>4. \A u \in hand[w] : InFlight(u)'
    BY <2>2 DEF InFlight, TypeOK
  <2>5. \A s \in Sockets : Joined(s)' <=> Joined(s)
    BY <2>2 DEF Joined, TypeOK, Writers
  <2>6. Accepted' = Accepted \cup hand[w]
    BY <2>1, InsertAccepts
  <2> QED BY <2>2, <2>3, <2>4, <2>5, <2>6 DEF LiveInv, LiveDelivery, Joined
<1>10. ASSUME NEW w \in Writers, Broadcast(w) PROVE LiveInv'
  <2>1. /\ at[w] \in {"appended", "saved"} /\ at' = [at EXCEPT ![w] = "open"]
        /\ group' = group \ broken /\ hand' = [hand EXCEPT ![w] = {}]
        /\ got' = [s \in Sockets |-> IF s \in group \ broken
                                     THEN got[s] \cup hand[w] ELSE got[s]]
        /\ accepted' = accepted /\ UNCHANGED <<before, broken>>
    BY <1>10 DEF Broadcast, Deliver, store
  <2>2. \A u : InFlight(u) => InFlight(u)' \/ u \in hand[w]
    BY <2>1 DEF InFlight, TypeOK
  <2>3. \A s \in Sockets : Joined(s)' <=> Joined(s)
    BY <2>1 DEF Joined, TypeOK, Writers
  <2>4. \A s \in Sockets : Joined(s) => s \in group'
    BY <2>1 DEF LiveInv, Joined
  <2>5. ASSUME NEW s \in Sockets, Joined(s)', NEW u \in Accepted' \ (before'[s] \cup got'[s])
        PROVE  InFlight(u)'
    <3>1. s \in group \ broken /\ u \in Accepted \ (before[s] \cup got[s]) /\ u \notin hand[w]
      BY <2>1, <2>3, <2>4, <2>5 DEF Accepted
    <3>2. InFlight(u)
      BY <2>3, <2>5, <3>1 DEF LiveInv, LiveDelivery, Joined
    <3> QED BY <2>2, <3>1, <3>2
  <2>6. \A v \in Savers : hand'[v] = {}
    BY <2>1 DEF LiveInv, TypeOK, Writers
  <2> QED BY <2>3, <2>4, <2>5, <2>6 DEF LiveInv, LiveDelivery, Joined
<1>11. CASE GitRead \/ GitAnchor \/ UNCHANGED vars
  BY <1>11, LiveKept DEF GitRead, GitAnchor, vars, sockets, store, Joined
<1> QED
  BY <1>1, <1>2, <1>3, <1>4, <1>6, <1>7, <1>8, <1>9, <1>10, <1>11
  DEF Next, Handle, Persist, Finish

\* A client that stays connected is sent every update accepted since it joined.
THEOREM UpdatesReachTheJoined == Spec => []LiveDelivery
<1>1. LiveInv => LiveDelivery
  BY DEF LiveInv
<1> QED
  BY <1>1, TypeInit, NumberedInit, LiveInit, TypeStep, NumberedStep, LiveStep, PTL DEF Spec
-----------------------------------------------------------------------------
(* The log.  Rows are taken away only up to the anchor: by the bundle that *)
(* writes it and by a compaction that has read it.                         *)

\* The log is empty at first.
LEMMA LogInit == Init => LogInv
<1> SUFFICES ASSUME Init PROVE LogInv
  OBVIOUS
<1>1. \A u \in Updates : accepted[u] = 0
  BY DEF Init
<1>2. \A v \in Savers : at[v] = "open"
  BY CollaborationAssumption DEF Init, Writers
<1> QED BY <1>1, <1>2 DEF LogInv, Accepted

\* A snapshot write that is not recorded as one moves the anchor on.
LEMMA AnchorMovesOn ==
  ASSUME TypeOK, NEW q \in Seqs, NEW doc, Anchor(q, doc), ~backwards'
  PROVE  ~backwards /\ anchor'.seq = q /\ anchor.seq <= anchor'.seq
<1>1. anchor.seq \in Int /\ q \in Int
  BY DEF TypeOK, Anchors, Seqs
<1>2. ~backwards /\ ~(q < anchor.seq) /\ anchor'.seq = q
  BY DEF Anchor
<1> QED BY <1>1, <1>2

\* The log stays complete while no row goes and the anchor moves on.
LEMMA LogKept ==
  ASSUME TypeOK, TypeOK', LogInv, events' = events, accepted' = accepted,
         ~backwards' => ~backwards /\ anchor.seq <= anchor'.seq,
         \A v \in Savers : at'[v] = "checked" => at[v] = "checked" /\ seq'[v] = seq[v]
  PROVE  LogInv'
<1> SUFFICES ASSUME ~backwards' PROVE LogInv'
  BY DEF LogInv
<1>1. anchor.seq \in Int /\ anchor'.seq \in Int /\ anchor.seq <= anchor'.seq
  BY DEF TypeOK, Anchors, Seqs
<1>2. \A u \in Accepted : accepted[u] \in Int
  BY DEF Accepted, TypeOK, Seqs
<1>3. Accepted' = Accepted
  BY DEF Accepted
<1>4. ASSUME NEW u \in Accepted
      PROVE  \/ accepted[u] \in DOMAIN events /\ u \in events[accepted[u]]
             \/ accepted[u] <= anchor'.seq
  BY <1>1, <1>2 DEF LogInv
<1>5. ASSUME NEW v \in Savers, at'[v] = "checked"
      PROVE  anchor'.seq >= KeepAfter(seq'[v])
  <2>1. anchor.seq >= KeepAfter(seq[v]) /\ seq'[v] = seq[v] /\ seq[v] \in Seqs
    BY <1>5 DEF LogInv, TypeOK, Writers
  <2>2. KeepAfter(seq[v]) \in Int
    BY <2>1, KeepAfterTyped
  <2> QED BY <1>1, <2>1, <2>2
<1> QED BY <1>3, <1>4, <1>5 DEF LogInv

\* An insert keeps the log complete, with or without its bundle.
LEMMA InsertKeepsLog ==
  ASSUME TypeOK, LogInv, NEW w \in Writers, Append(w), TypeOK', Numbered, ~backwards'
  PROVE  /\ ~backwards /\ anchor.seq <= anchor'.seq
         /\ \A u \in Accepted' :
              \/ accepted'[u] \in DOMAIN events' /\ u \in events'[accepted'[u]]
              \/ accepted'[u] <= anchor'.seq
<1> DEFINE q == seq[w]
           brought == hand[w]
           rows == [k \in DOMAIN events \cup {q} |-> IF k = q THEN brought ELSE events[k]]
<1>1. q \in Seqs /\ q # 0 /\ brought \in SUBSET Updates /\ Insert(q, brought)
  BY DEF Append, Numbered, TypeOK
<1>2. /\ Accepted' = Accepted \cup brought
      /\ \A u \in Accepted : accepted'[u] = accepted[u]
      /\ \A u \in brought \ Accepted : accepted'[u] = q
  BY <1>1, InsertAccepts
<1>3. q \notin DOMAIN events
  BY DEF Append, Insert
<1>4. \/ Anchor(q, Brings(rows)) /\ events' = From(rows, q + 1)
      \/ events' = rows /\ UNCHANGED <<anchor, backwards>>
  BY DEF Append, Insert
<1>5. /\ anchor.seq \in Int /\ anchor'.seq \in Int /\ q \in Int
      /\ \A u \in Accepted' : accepted'[u] \in Int
  BY <1>1 DEF TypeOK, Anchors, Seqs, Accepted
<1>6. ~backwards /\ anchor.seq <= anchor'.seq
  BY <1>1, <1>4, <1>5, AnchorMovesOn
<1>7. ASSUME NEW u \in Accepted'
      PROVE  \/ accepted'[u] \in DOMAIN rows /\ u \in rows[accepted'[u]]
             \/ accepted'[u] <= anchor'.seq
  <2>1. CASE u \in Accepted
    <3>1. \/ accepted[u] \in DOMAIN events /\ u \in events[accepted[u]]
          \/ accepted[u] <= anchor.seq
      BY <1>6, <2>1 DEF LogInv
    <3>2. accepted'[u] = accepted[u]
      BY <1>2, <2>1
    <3>3. CASE accepted[u] \in DOMAIN events /\ u \in events[accepted[u]]
      BY <1>3, <3>2, <3>3
    <3>4. CASE accepted[u] <= anchor.seq
      <4> HIDE DEF rows
      <4> QED BY <1>5, <1>6, <3>2, <3>4
    <3> QED BY <3>1, <3>3, <3>4
  <2>2. CASE u \notin Accepted
    BY <1>2, <2>2
  <2> QED BY <2>1, <2>2
<1> HIDE DEF rows
<1>8. CASE Anchor(q, Brings(rows)) /\ events' = From(rows, q + 1)
  <2>1. anchor'.seq = q
    BY <1>1, <1>8, AnchorMovesOn
  <2>2. ASSUME NEW u \in Accepted'
        PROVE  \/ accepted'[u] \in DOMAIN events' /\ u \in events'[accepted'[u]]
               \/ accepted'[u] <= anchor'.seq
    <3>1. accepted'[u] <= q \/ accepted'[u] >= q + 1
      BY <1>5
    <3>2. \A k \in DOMAIN rows : k >= q + 1 => k \in DOMAIN events' /\ events'[k] = rows[k]
      BY <1>8, FromIs
    <3> QED BY <1>7, <2>1, <3>1, <3>2
  <2> QED BY <1>6, <2>2
<1>9. CASE events' = rows /\ UNCHANGED <<anchor, backwards>>
  BY <1>6, <1>7, <1>9
<1> QED BY <1>4, <1>8, <1>9

\* Every step keeps the log complete.
LEMMA LogStep == TypeOK /\ Numbered /\ LogInv /\ [Next]_vars => LogInv'
<1> SUFFICES ASSUME TypeOK, Numbered, LogInv, [Next]_vars PROVE LogInv'
  OBVIOUS
<1> USE CollaborationAssumption
<1>0. TypeOK'
  BY TypeStep
<1>1. ASSUME UNCHANGED store,
             \A v \in Savers : at'[v] = "checked" => at[v] = "checked" /\ seq'[v] = seq[v]
      PROVE  LogInv'
  <2>1. anchor.seq <= anchor'.seq
    BY <1>1 DEF store, TypeOK, Anchors, Seqs
  <2> QED BY <1>0, <1>1, <2>1, LogKept DEF store
<1>2. ASSUME NEW s \in Sockets,
             Join(s) \/ Abort(s) \/ ReadAnchor(s) \/ ReadEvents(s) \/ Leave(s) \/ Break(s)
      PROVE  LogInv'
  BY <1>1, <1>2 DEF Join, Abort, ReadAnchor, ReadEvents, Leave, Break, TypeOK, Writers
<1>3. ASSUME NEW s \in Sockets, Edit(s) PROVE LogInv'
  BY <1>1, <1>3 DEF Edit, Number, TypeOK, Writers
<1>4. ASSUME NEW w \in Writers, Conflict(w) \/ Broadcast(w) PROVE LogInv'
  BY <1>1, <1>4 DEF Conflict, Broadcast, TypeOK, Writers
<1>5. ASSUME NEW v \in Savers, Save(v) PROVE LogInv'
  BY <1>1, <1>5 DEF Save, Number, TypeOK, Writers
<1>6. ASSUME NEW w \in Writers, Append(w) PROVE LogInv'
  <2> SUFFICES ASSUME ~backwards' PROVE LogInv'
    BY DEF LogInv
  <2>1. /\ ~backwards /\ anchor.seq <= anchor'.seq
        /\ \A u \in Accepted' :
             \/ accepted'[u] \in DOMAIN events' /\ u \in events'[accepted'[u]]
             \/ accepted'[u] <= anchor'.seq
    BY <1>0, <1>6, InsertKeepsLog
  <2>2. ASSUME NEW v \in Savers, at'[v] = "checked" PROVE anchor'.seq >= KeepAfter(seq'[v])
    <3>1. at[v] = "checked" /\ seq'[v] = seq[v] /\ seq[v] \in Seqs
      BY <1>6, <2>2 DEF Append, TypeOK, Writers
    <3>2. KeepAfter(seq[v]) \in Int /\ anchor.seq >= KeepAfter(seq[v])
      BY <2>1, <3>1, KeepAfterTyped DEF LogInv
    <3>3. anchor.seq \in Int /\ anchor'.seq \in Int
      BY <1>0 DEF TypeOK, Anchors, Seqs
    <3> QED BY <2>1, <3>1, <3>2, <3>3
  <2> QED BY <2>1, <2>2 DEF LogInv
<1>7. ASSUME NEW v \in Savers, SaveAnchor(v) PROVE LogInv'
  <2>1. seq[v] \in Seqs
    BY DEF TypeOK, Writers
  <2>2. ~backwards' => ~backwards /\ anchor.seq <= anchor'.seq
    BY <1>7, <2>1, AnchorMovesOn DEF SaveAnchor
  <2>3. \A x \in Savers : at'[x] = "checked" => at[x] = "checked" /\ seq'[x] = seq[x]
    BY <1>7 DEF SaveAnchor, TypeOK, Writers
  <2> QED BY <1>0, <1>7, <2>2, <2>3, LogKept DEF SaveAnchor
<1>8. CASE GitAnchor
  <2>1. gitSeq \in Seqs
    BY <1>8 DEF GitAnchor, TypeOK
  <2>2. ~backwards' => ~backwards /\ anchor.seq <= anchor'.seq
    BY <1>8, <2>1, AnchorMovesOn DEF GitAnchor
  <2> QED BY <1>0, <1>8, <2>2, LogKept DEF GitAnchor, sockets
<1>9. CASE GitRead \/ UNCHANGED vars
  BY <1>1, <1>9 DEF GitRead, vars, sockets
<1>10. ASSUME NEW v \in Savers, CheckAnchor(v) PROVE LogInv'
  <2>1. /\ UNCHANGED store /\ seq' = seq
        /\ \A x \in Savers \ {v} : at'[x] = at[x]
        /\ at'[v] = "checked" => anchor.seq >= KeepAfter(seq[v])
    BY <1>10 DEF CheckAnchor, TypeOK, Writers
  <2> QED BY <2>1 DEF LogInv, store, Accepted
<1>11. ASSUME NEW v \in Savers, Compact(v) PROVE LogInv'
  <2> SUFFICES ASSUME ~backwards' PROVE LogInv'
    BY DEF LogInv
  <2>1. /\ ~backwards /\ UNCHANGED <<anchor, accepted, seq>> /\ at[v] = "checked"
        /\ events' = From(events, KeepAfter(seq[v]))
        /\ \A x \in Savers : at'[x] = "checked" => at[x] = "checked"
    BY <1>11 DEF Compact, TypeOK, Writers
  <2>2. /\ seq[v] \in Seqs /\ anchor.seq \in Int
        /\ \A u \in Accepted : accepted[u] \in Int
    BY DEF TypeOK, Writers, Anchors, Seqs, Accepted
  <2>3. KeepAfter(seq[v]) \in Int /\ anchor.seq >= KeepAfter(seq[v])
    BY <2>1, <2>2, KeepAfterTyped DEF LogInv
  <2>4. ASSUME NEW u \in Accepted
        PROVE  \/ accepted[u] \in DOMAIN events' /\ u \in events'[accepted[u]]
               \/ accepted[u] <= anchor.seq
    <3>1. \/ accepted[u] \in DOMAIN events /\ u \in events[accepted[u]]
          \/ accepted[u] <= anchor.seq
      BY <2>1 DEF LogInv
    <3>2. accepted[u] >= KeepAfter(seq[v]) \/ accepted[u] <= anchor.seq
      BY <2>2, <2>3
    <3>3. \A k \in DOMAIN events : k >= KeepAfter(seq[v]) =>
            k \in DOMAIN events' /\ events'[k] = events[k]
      BY <2>1, FromIs
    <3> QED BY <3>1, <3>2, <3>3
  <2>5. Accepted' = Accepted
    BY <2>1 DEF Accepted
  <2> QED BY <2>1, <2>4, <2>5 DEF LogInv
<1> QED
  BY <1>2, <1>3, <1>4, <1>5, <1>6, <1>7, <1>8, <1>9, <1>10, <1>11
  DEF Next, Handle, Persist, Finish

-----------------------------------------------------------------------------
(* No gap between snapshot, replay and live delivery.                      *)

\* Nobody has replayed the log at first.
LEMMA GaplessInit == Init => GaplessInv
<1> SUFFICES ASSUME Init PROVE GaplessInv
  OBVIOUS
<1>1. \A u \in Updates : accepted[u] = 0
  BY DEF Init
<1> QED BY <1>1 DEF GaplessInv, Accepted

\* While nothing is inserted, the anchor moves on and what is in flight stays
\* so, a handler that had replayed the log has no gap.
LEMMA GaplessKept ==
  ASSUME TypeOK, TypeOK', GaplessInv, accepted' = accepted,
         ~backwards' => ~backwards /\ anchor.seq <= anchor'.seq,
         \A u : InFlight(u) => InFlight(u)',
         \A s \in Sockets : Replayed(s)' =>
           Replayed(s) /\ basis'[s] = basis[s] /\ got[s] \subseteq got'[s]
  PROVE  GaplessInv'
<1> SUFFICES ASSUME ~backwards', NEW s \in Sockets, Replayed(s)',
                    NEW u \in Accepted' \ got'[s]
             PROVE  \/ InFlight(u)'
                    \/ accepted'[u] <= basis'[s].seq
                    \/ accepted'[u] <= anchor'.seq
  BY DEF GaplessInv
<1>1. Replayed(s) /\ u \in Accepted \ got[s] /\ basis'[s] = basis[s]
  BY DEF Accepted
<1>2. InFlight(u) \/ accepted[u] <= basis[s].seq \/ accepted[u] <= anchor.seq
  BY <1>1 DEF GaplessInv
<1>3. accepted[u] \in Int /\ anchor.seq \in Int /\ anchor'.seq \in Int
  BY <1>1 DEF TypeOK, Accepted, Anchors, Seqs
<1>4. accepted[u] <= anchor.seq => accepted'[u] <= anchor'.seq
  BY <1>3
<1> QED BY <1>1, <1>2, <1>4

\* The replay brings what the snapshot before it did not.
LEMMA ReplayClosesGap ==
  ASSUME TypeOK, LogInv, ~backwards, NEW s \in Sockets, NEW u \in Accepted
  PROVE  \/ u \in Replay(basis[s].seq)
         \/ accepted[u] <= basis[s].seq
         \/ accepted[u] <= anchor.seq
<1>1. accepted[u] \in Int /\ basis[s].seq \in Int
  BY DEF TypeOK, Accepted, Anchors, Seqs
<1>2. accepted[u] <= basis[s].seq \/ accepted[u] >= basis[s].seq + 1
  BY <1>1
<1>3. \/ accepted[u] \in DOMAIN events /\ u \in events[accepted[u]]
      \/ accepted[u] <= anchor.seq
  BY DEF LogInv
<1>4. ASSUME NEW k \in DOMAIN events, k >= basis[s].seq + 1, u \in events[k]
      PROVE  u \in Replay(basis[s].seq)
  <2>1. /\ k \in DOMAIN From(events, basis[s].seq + 1)
        /\ From(events, basis[s].seq + 1)[k] = events[k]
    BY <1>4, FromIs
  <2> QED BY <1>4, <2>1 DEF Replay, Brings
<1> QED BY <1>2, <1>3, <1>4

\* No step opens a gap.
LEMMA GaplessStep ==
  TypeOK /\ Numbered /\ LiveInv /\ LogInv /\ GaplessInv /\ [Next]_vars => GaplessInv'
<1> SUFFICES ASSUME TypeOK, Numbered, LiveInv, LogInv, GaplessInv, [Next]_vars
             PROVE  GaplessInv'
  OBVIOUS
<1> USE CollaborationAssumption
<1>0. TypeOK'
  BY TypeStep
<1>1. ASSUME UNCHANGED store,
             \A u : InFlight(u) => InFlight(u)',
             \A s \in Sockets : Replayed(s)' =>
               Replayed(s) /\ basis'[s] = basis[s] /\ got[s] \subseteq got'[s]
      PROVE  GaplessInv'
  <2>1. anchor.seq <= anchor'.seq
    BY <1>1 DEF store, TypeOK, Anchors, Seqs
  <2> QED BY <1>0, <1>1, <2>1, GaplessKept DEF store
<1>2. ASSUME NEW s \in Sockets, Join(s) \/ Abort(s) \/ ReadAnchor(s) \/ Leave(s) \/ Break(s)
      PROVE  GaplessInv'
  <2>1. UNCHANGED <<store, hand>> /\ \A w \in Writers : at[w] = "appended" => at'[w] = "appended"
    BY <1>2 DEF Join, Abort, ReadAnchor, Leave, Break, TypeOK
  <2>2. \A u : InFlight(u) => InFlight(u)'
    BY <2>1 DEF InFlight
  <2>3. ASSUME NEW t \in Sockets, Replayed(t)'
        PROVE  Replayed(t) /\ basis'[t] = basis[t] /\ got[t] \subseteq got'[t]
    BY <1>2, <2>3
    DEF Join, Abort, ReadAnchor, Leave, Break, Deliver, Replayed, TypeOK, Writers
  <2> QED BY <1>1, <2>1, <2>2, <2>3
<1>3. ASSUME NEW s \in Sockets, ReadEvents(s) PROVE GaplessInv'
  <2>1. /\ UNCHANGED <<store, hand, basis, broken>>
        /\ at[s] = "anchored" /\ at' = [at EXCEPT ![s] = "open"]
        /\ got' = [got EXCEPT ![s] = @ \cup IF s \in broken THEN {} ELSE Replay(basis[s].seq)]
    BY <1>3 DEF ReadEvents
  <2>2. \A u : InFlight(u) => InFlight(u)'
    BY <2>1 DEF InFlight, TypeOK
  <2> SUFFICES ASSUME ~backwards', NEW t \in Sockets, Replayed(t)',
                      NEW u \in Accepted' \ got'[t]
               PROVE  \/ InFlight(u)'
                      \/ accepted'[u] <= basis'[t].seq
                      \/ accepted'[u] <= anchor'.seq
    BY DEF GaplessInv
  <2>3. ~backwards /\ u \in Accepted /\ UNCHANGED <<accepted, anchor, basis>>
    BY <2>1 DEF store, Accepted
  <2>4. CASE t = s
    <3>1. u \notin Replay(basis[s].seq)
      BY <2>1, <2>4 DEF Replayed, TypeOK
    <3> QED BY <2>3, <2>4, <3>1, ReplayClosesGap
  <2>5. CASE t # s
    <3>1. Replayed(t) /\ u \in Accepted \ got[t]
      BY <2>1, <2>3, <2>5 DEF Replayed, TypeOK, Writers
    <3>2. InFlight(u) \/ accepted[u] <= basis[t].seq \/ accepted[u] <= anchor.seq
      BY <2>3, <3>1 DEF GaplessInv
    <3> QED BY <2>2, <2>3, <3>2
  <2> QED BY <2>4, <2>5
<1>4. ASSUME NEW w \in Writers, at[w] # "appended",
             \A v \in Writers \ {w} : hand'[v] = hand[v] /\ at'[v] = at[v],
             w \in Sockets /\ Replayed(w)' => Replayed(w),
             UNCHANGED <<store, got, basis, broken>>
      PROVE  GaplessInv'
  <2>1. \A u : InFlight(u) => InFlight(u)'
    BY <1>4 DEF InFlight
  <2>2. ASSUME NEW t \in Sockets, Replayed(t)' PROVE Replayed(t)
    BY <1>4, <2>2 DEF Replayed, Writers
  <2> QED BY <1>1, <1>4, <2>1, <2>2
<1>5. ASSUME NEW s \in Sockets, Edit(s) PROVE GaplessInv'
  BY <1>4, <1>5 DEF Edit, TypeOK, Writers, Replayed
<1>6. ASSUME NEW w \in Writers, Conflict(w) PROVE GaplessInv'
  BY <1>4, <1>6 DEF Conflict, TypeOK, Replayed
<1>7. ASSUME NEW v \in Savers, Save(v) PROVE GaplessInv'
  <2>1. v \notin Sockets
    OBVIOUS
  <2> QED BY <1>4, <1>7, <2>1 DEF Save, TypeOK, Writers
<1>8. ASSUME NEW v \in Savers, CheckAnchor(v) PROVE GaplessInv'
  <2>1. v \notin Sockets
    OBVIOUS
  <2> QED BY <1>4, <1>8, <2>1 DEF CheckAnchor, TypeOK, Writers
<1>9. ASSUME NEW v \in Savers, SaveAnchor(v) \/ Compact(v) PROVE GaplessInv'
  <2>1. /\ hand[v] = {} /\ UNCHANGED <<accepted, hand, got, basis, broken>>
        /\ \A w \in Writers \ {v} : at'[w] = at[w]
    BY <1>9 DEF SaveAnchor, Compact, TypeOK, LiveInv
  <2>2. \A u : InFlight(u) => InFlight(u)'
    BY <2>1 DEF InFlight
  <2>3. \A t \in Sockets : Replayed(t)' => Replayed(t)
    BY <2>1 DEF Replayed, Writers
  <2>4. ~backwards' => ~backwards /\ anchor.seq <= anchor'.seq
    <3>1. CASE SaveAnchor(v)
      <4>1. seq[v] \in Seqs
        BY DEF TypeOK, Writers
      <4> QED BY <3>1, <4>1, AnchorMovesOn DEF SaveAnchor
    <3>2. CASE Compact(v)
      BY <3>2 DEF Compact, TypeOK, Anchors, Seqs
    <3> QED BY <1>9, <3>1, <3>2
  <2> QED BY <1>0, <2>1, <2>2, <2>3, <2>4, GaplessKept
<1>10. ASSUME NEW w \in Writers, Append(w) PROVE GaplessInv'
  <2>1. /\ seq[w] \in Seqs /\ seq[w] # 0 /\ hand[w] \in SUBSET Updates
        /\ Insert(seq[w], hand[w])
    BY <1>10 DEF Append, Numbered, TypeOK
  <2>2. /\ at[w] = "numbered" /\ at' = [at EXCEPT ![w] = "appended"]
        /\ UNCHANGED <<hand, got, basis, broken>>
    BY <1>10 DEF Append
  <2>3. \A u : InFlight(u) => InFlight(u)'
    BY <2>2 DEF InFlight, TypeOK
  <2>4. \A u \in hand[w] : InFlight(u)'
    BY <2>2 DEF InFlight, TypeOK
  <2>5. \A t \in Sockets : Replayed(t)' => Replayed(t)
    BY <2>2 DEF Replayed, TypeOK, Writers
  <2>6. Accepted' = Accepted \cup hand[w] /\ \A u \in Accepted : accepted'[u] = accepted[u]
    BY <2>1, InsertAccepts
  <2> SUFFICES ASSUME ~backwards', NEW t \in Sockets, Replayed(t)',
                      NEW u \in Accepted' \ got'[t], u \notin hand[w]
               PROVE  \/ InFlight(u)'
                      \/ accepted'[u] <= basis'[t].seq
                      \/ accepted'[u] <= anchor'.seq
    BY <2>4 DEF GaplessInv
  <2>7. ~backwards /\ anchor.seq <= anchor'.seq
    BY <1>0, <1>10, InsertKeepsLog
  <2>8. u \in Accepted \ got[t] /\ Replayed(t) /\ accepted'[u] = accepted[u]
    BY <2>2, <2>5, <2>6
  <2>9. InFlight(u) \/ accepted[u] <= basis[t].seq \/ accepted[u] <= anchor.seq
    BY <2>7, <2>8 DEF GaplessInv
  <2>10. accepted[u] \in Int /\ anchor.seq \in Int /\ anchor'.seq \in Int
    BY <1>0, <2>8 DEF TypeOK, Accepted, Anchors, Seqs
  <2>11. accepted[u] <= anchor.seq => accepted'[u] <= anchor'.seq
    BY <2>7, <2>8, <2>10
  <2> QED BY <2>2, <2>3, <2>8, <2>9, <2>11
<1>11. ASSUME NEW w \in Writers, Broadcast(w) PROVE GaplessInv'
  <2>1. /\ at' = [at EXCEPT ![w] = "open"] /\ hand' = [hand EXCEPT ![w] = {}]
        /\ w \in Sockets => at[w] = "appended"
        /\ got' = [s \in Sockets |-> IF s \in group \ broken
                                     THEN got[s] \cup hand[w] ELSE got[s]]
        /\ UNCHANGED <<accepted, anchor, backwards, basis, broken>>
    BY <1>11 DEF Broadcast, Deliver, store
  <2>2. \A u : InFlight(u) => InFlight(u)' \/ u \in hand[w]
    BY <2>1 DEF InFlight, TypeOK
  <2> SUFFICES ASSUME ~backwards', NEW t \in Sockets, Replayed(t)',
                      NEW u \in Accepted' \ got'[t]
               PROVE  \/ InFlight(u)'
                      \/ accepted'[u] <= basis'[t].seq
                      \/ accepted'[u] <= anchor'.seq
    BY DEF GaplessInv
  <2>3. Replayed(t)
    BY <2>1 DEF Replayed, TypeOK, Writers
  <2>4. t \in group \ broken
    BY <2>3 DEF Replayed, Joined, LiveInv
  <2>5. u \in Accepted \ got[t] /\ u \notin hand[w]
    BY <2>1, <2>4 DEF Accepted
  <2>6. InFlight(u) \/ accepted[u] <= basis[t].seq \/ accepted[u] <= anchor.seq
    BY <2>1, <2>3, <2>5 DEF GaplessInv
  <2> QED BY <2>1, <2>2, <2>5, <2>6
<1>12. CASE GitAnchor
  <2>1. gitSeq \in Seqs
    BY <1>12 DEF GitAnchor, TypeOK
  <2>2. ~backwards' => ~backwards /\ anchor.seq <= anchor'.seq
    BY <1>12, <2>1, AnchorMovesOn DEF GitAnchor
  <2>3. UNCHANGED <<accepted, at, hand, basis, got, broken>>
    BY <1>12 DEF GitAnchor, sockets
  <2> QED BY <1>0, <2>2, <2>3, GaplessKept DEF InFlight, Replayed
<1>13. CASE GitRead \/ UNCHANGED vars
  BY <1>1, <1>13 DEF GitRead, vars, sockets, InFlight, Replayed
<1> QED
  BY <1>2, <1>3, <1>5, <1>6, <1>7, <1>8, <1>9, <1>10, <1>11, <1>12, <1>13
  DEF Next, Handle, Persist, Finish

\* As long as no snapshot write moves the anchor back, a client that joins
\* misses nothing: what it has not got is still to be broadcast or covered by a
\* snapshot that was written.
THEOREM JoinLeavesNoGap == Spec => []JoinIsGapless
<1>1. GaplessInv => JoinIsGapless
  BY DEF GaplessInv, JoinIsGapless, Replayed
<1> QED
  BY <1>1, TypeInit, NumberedInit, LiveInit, LogInit, GaplessInit,
     TypeStep, NumberedStep, LiveStep, LogStep, GaplessStep, PTL DEF Spec
=============================================================================
