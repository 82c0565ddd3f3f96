--------------------------- MODULE Collaboration ----------------------------
(***************************************************************************)
(* Live collaboration on one project: the durable event log with its       *)
(* snapshot anchor (async_store.py append_collaboration_event,             *)
(* save_collaboration_snapshot, compact_collaboration_events), the         *)
(* in-process hub (collab.py CollaborationHub) and the handlers that use   *)
(* them (app.py project_socket, save_pipeline, _git_call).  Every await    *)
(* between two database calls is a step of its own.                        *)
(*                                                                         *)
(* A Yjs update is a model value; a message is the set of updates it       *)
(* brings.  A saved pipeline document brings none: what was typed into     *)
(* source and file texts is not in it.                                     *)
(***************************************************************************)
EXTENDS Naturals, FiniteSetsExt, Functions

CONSTANTS
  Sockets,    \* WebSocket objects: a client that reconnects is a new one
  Savers,     \* concurrent PUT /pipeline requests
  Updates,    \* Yjs updates
  Merging,    \* server_merge_available()
  Bundle,     \* 100: every Bundle-th append folds the log into a snapshot
  Period,     \* 25: a save at a multiple of Period, from CompactFrom on,
  CompactFrom,\* 50  drops the events more than Period behind it
  MaxSeq,     \* bound: appends stop here
  MaxGit      \* bound: Git mutations

ASSUME CollaborationAssumption ==
  /\ Sockets \cap Savers = {}
  /\ Merging \in BOOLEAN
  /\ Bundle \in Nat \ {0}
  /\ Period \in Nat \ {0}
  /\ CompactFrom \in Nat
  /\ MaxSeq \in Nat
  /\ MaxGit \in Nat

VARIABLES
  events,     \* collaboration_events: seq -> the updates the row brings
  anchor,     \* collaboration_snapshots row; kept = FALSE: no row
  accepted,   \* history: update -> the seq it was inserted with, 0: never
  backwards,  \* history: a snapshot was written with a smaller seq
  at,         \* where each handler is
  seq,        \* the seq a handler has computed
  hand,       \* the updates a socket handler is about to persist
  basis,      \* the snapshot a socket handler read when it joined
  got,        \* updates sent to the client of a socket
  before,     \* history: updates accepted before the socket joined the hub
  group,      \* hub._connections[project]
  broken,     \* sockets whose connection is gone
  gitSeq,     \* _git_call under its lock: the seq it read, or Idle
  gitRuns     \* Git mutations begun

store   == <<events, anchor, accepted, backwards>>
sockets == <<at, seq, hand, basis, got, before>>
git     == <<gitSeq, gitRuns>>
vars    == <<store, sockets, group, broken, git>>

Writers == Sockets \cup Savers
Idle == MaxSeq + 1
Seqs == 0..MaxSeq
Anchors == [kept : BOOLEAN, seq : Seqs, doc : SUBSET Updates]
NoAnchor == [kept |-> FALSE, seq |-> 0, doc |-> {}]

SocketSteps == {"new", "joined", "anchored", "open", "numbered", "appended",
                "failed", "closed"}
SaverSteps == {"open", "numbered", "appended", "anchored", "checked", "saved"}

TypeOK ==
  /\ DOMAIN events \subseteq 1..MaxSeq
  /\ \A q \in DOMAIN events : events[q] \subseteq Updates
  /\ anchor \in Anchors
  /\ accepted \in [Updates -> Seqs]
  /\ backwards \in BOOLEAN
  /\ DOMAIN at = Writers
  /\ \A s \in Sockets : at[s] \in SocketSteps
  /\ \A v \in Savers : at[v] \in SaverSteps
  /\ seq \in [Writers -> Seqs]
  /\ hand \in [Writers -> SUBSET Updates]
  /\ basis \in [Sockets -> Anchors]
  /\ got \in [Sockets -> SUBSET Updates]
  /\ before \in [Sockets -> SUBSET Updates]
  /\ group \subseteq Sockets
  /\ broken \subseteq Sockets
  /\ gitSeq \in Seqs \cup {Idle}
  /\ gitRuns \in 0..MaxGit

Init ==
  /\ events = [q \in {} |-> {}]
  /\ anchor = NoAnchor
  /\ accepted = [u \in Updates |-> 0]
  /\ backwards = FALSE
  /\ at = [w \in Writers |-> IF w \in Sockets THEN "new" ELSE "open"]
  /\ seq = [w \in Writers |-> 0]
  /\ hand = [w \in Writers |-> {}]
  /\ basis = [s \in Sockets |-> NoAnchor]
  /\ got = [s \in Sockets |-> {}]
  /\ before = [s \in Sockets |-> {}]
  /\ group = {}
  /\ broken = {}
  /\ gitSeq = Idle
  /\ gitRuns = 0

Accepted == {u \in Updates : accepted[u] # 0}

-----------------------------------------------------------------------------
(* The log and its anchor.                                                 *)

Brings(rows) == UNION {rows[q] : q \in DOMAIN rows}

\* COALESCE(MAX(seq),0) of collaboration_events.
LastSeq == Max(DOMAIN events \cup {0})

\* MAX(seq)+1 over the events and the snapshot row.
NextSeq == Max(DOMAIN events \cup {anchor.seq}) + 1

\* The snapshot upsert: whatever seq it is given replaces the stored one.
Anchor(q, doc) ==
  /\ anchor' = [kept |-> TRUE, seq |-> q, doc |-> doc]
  /\ backwards' = (backwards \/ q < anchor.seq)

\* The rows that DELETE ... WHERE seq < q leaves.
From(rows, q) == Restrict(rows, {k \in DOMAIN rows : k >= q})

\* The INSERT and, when it is due, the bundle: one transaction.  The bundle
\* keeps the updates of the rows it finds, not those of the snapshot it
\* replaces.
Insert(q, brought) ==
  LET rows == [k \in DOMAIN events \cup {q} |->
                 IF k = q THEN brought ELSE events[k]]
  IN /\ q \notin DOMAIN events
     /\ accepted' = [u \in Updates |->
          IF u \in brought /\ accepted[u] = 0 THEN q ELSE accepted[u]]
     /\ IF q % Bundle = 0
        THEN Anchor(q, Brings(rows)) /\ events' = From(rows, q + 1)
        ELSE events' = rows /\ UNCHANGED <<anchor, backwards>>

\* append_collaboration_event: the SELECT is outside the transaction that
\* the INSERT opens.
Number(w) ==
  /\ NextSeq <= MaxSeq
  /\ seq' = [seq EXCEPT ![w] = NextSeq]

\* Mutant of Append: the primary key conflict is ignored.
AppendIgnoringConflict(w) ==
  /\ at[w] = "numbered"
  /\ at' = [at EXCEPT ![w] = "appended"]
  /\ \/ Insert(seq[w], hand[w])
     \/ seq[w] \in DOMAIN events /\ UNCHANGED store
  /\ UNCHANGED <<seq, hand, basis, got, before, group, broken, git>>

Append(w) ==
  /\ at[w] = "numbered"
  /\ at' = [at EXCEPT ![w] = "appended"]
  /\ Insert(seq[w], hand[w])
  /\ UNCHANGED <<seq, hand, basis, got, before, group, broken, git>>

\* Another append took the seq: IntegrityError.  The socket handler runs
\* into its finally clause, the request answers with an error.
Conflict(w) ==
  /\ at[w] = "numbered"
  /\ seq[w] \in DOMAIN events
  /\ at' = [at EXCEPT ![w] = IF w \in Sockets THEN "failed" ELSE "open"]
  /\ hand' = [hand EXCEPT ![w] = {}]
  /\ seq' = [seq EXCEPT ![w] = 0]
  /\ UNCHANGED <<store, basis, got, before, group, broken, git>>

-----------------------------------------------------------------------------
(* The hub.                                                                *)

\* Mutant of Deliver: the first send that fails ends the loop.
DeliverUntilFailure(targets, brought) ==
  /\ group' = targets \ broken
  /\ got' = [s \in Sockets |-> IF s \in targets /\ targets \cap broken = {}
                               THEN got[s] \cup brought ELSE got[s]]

\* broadcast: sends to every target; those that fail leave the group.
Deliver(targets, brought) ==
  /\ group' = targets \ broken
  /\ got' = [s \in Sockets |-> IF s \in targets \ broken
                               THEN got[s] \cup brought ELSE got[s]]

\* The event is broadcast to whoever is connected now.
Broadcast(w) ==
  /\ at[w] = IF w \in Sockets THEN "appended" ELSE "saved"
  /\ at' = [at EXCEPT ![w] = "open"]
  /\ Deliver(group, hand[w])
  /\ hand' = [hand EXCEPT ![w] = {}]
  /\ seq' = [seq EXCEPT ![w] = 0]
  /\ UNCHANGED <<store, basis, before, broken, git>>

-----------------------------------------------------------------------------
(* project_socket.                                                         *)

\* hub.connect and the presence broadcast.
Join(s) ==
  /\ at[s] = "new"
  /\ at' = [at EXCEPT ![s] = "joined"]
  /\ before' = [before EXCEPT ![s] = Accepted]
  /\ Deliver(group \cup {s}, {})
  /\ UNCHANGED <<store, seq, hand, basis, broken, git>>

\* Outside the try statement a failing send ends the handler on the spot:
\* the hub is not told.
Abort(s) ==
  /\ s \in broken
  /\ \/ at[s] = "joined" /\ anchor.kept
     \/ at[s] = "anchored" /\ \E q \in DOMAIN events : q > basis[s].seq
  /\ at' = [at EXCEPT ![s] = "closed"]
  /\ basis' = [basis EXCEPT ![s] = NoAnchor]
  /\ UNCHANGED <<store, seq, hand, got, before, group, broken, git>>

\* collaboration_snapshot, read and sent.
ReadAnchor(s) ==
  /\ at[s] = "joined"
  /\ at' = [at EXCEPT ![s] = "anchored"]
  /\ basis' = [basis EXCEPT ![s] = anchor]
  /\ got' = [got EXCEPT ![s] = @ \cup IF s \in broken THEN {} ELSE anchor.doc]
  /\ UNCHANGED <<store, seq, hand, before, group, broken, git>>

\* Mutant of Replay: one row too few.
ReplayShort(q) == Brings(From(events, q + 2))

\* collaboration_events(after = q), sent as "replay" messages.
Replay(q) == Brings(From(events, q + 1))

ReadEvents(s) ==
  /\ at[s] = "anchored"
  /\ at' = [at EXCEPT ![s] = "open"]
  /\ got' = [got EXCEPT ![s] =
       @ \cup IF s \in broken THEN {} ELSE Replay(basis[s].seq)]
  /\ UNCHANGED <<store, seq, hand, basis, before, group, broken, git>>

\* A y_update message of an editor; what is persisted is its merge with the
\* updates of the snapshot this handler read when it joined.
Edit(s) ==
  /\ at[s] = "open"
  /\ Number(s)
  /\ \E u \in Updates \ Accepted :
       /\ \A w \in Writers : u \notin hand[w]
       /\ hand' = [hand EXCEPT ![s] =
            {u} \cup IF Merging THEN basis[s].doc ELSE {}]
  /\ at' = [at EXCEPT ![s] = "numbered"]
  /\ UNCHANGED <<store, basis, got, before, group, broken, git>>

\* The client goes away: every later send to it fails, and what it had got
\* no longer matters.
Break(s) ==
  /\ at[s] \notin {"new", "closed"}
  /\ s \notin broken
  /\ broken' = broken \cup {s}
  /\ got' = [got EXCEPT ![s] = {}]
  /\ before' = [before EXCEPT ![s] = {}]
  /\ UNCHANGED <<store, at, seq, hand, basis, group, git>>

\* receive_text raises, or the append did: the finally clause.
Leave(s) ==
  /\ \/ at[s] = "open" /\ s \in broken
     \/ at[s] = "failed"
  /\ at' = [at EXCEPT ![s] = "closed"]
  /\ Deliver(group \ {s}, {})
  /\ broken' = broken \cup {s}
  /\ basis' = [basis EXCEPT ![s] = NoAnchor]
  /\ UNCHANGED <<store, seq, hand, before, git>>

-----------------------------------------------------------------------------
(* save_pipeline and _git_call.                                            *)

Save(v) ==
  /\ at[v] = "open"
  /\ Number(v)
  /\ at' = [at EXCEPT ![v] = "numbered"]
  /\ UNCHANGED <<store, hand, basis, got, before, group, broken, git>>

CompactionDue(q) == q >= CompactFrom /\ q % Period = 0

KeepAfter(q) == Max({1, q - Period})

SaveAnchor(v) ==
  /\ at[v] = "appended"
  /\ Anchor(seq[v], {})
  /\ at' = [at EXCEPT ![v] = IF CompactionDue(seq[v]) THEN "anchored" ELSE "saved"]
  /\ UNCHANGED <<events, accepted, seq, hand, basis, got, before, group, broken, git>>

\* compact_collaboration_events: the snapshot is read first, the rows are
\* deleted in another transaction.
CheckAnchor(v) ==
  /\ at[v] = "anchored"
  /\ at' = [at EXCEPT ![v] =
       IF anchor.kept /\ anchor.seq >= KeepAfter(seq[v]) THEN "checked" ELSE "saved"]
  /\ UNCHANGED <<store, seq, hand, basis, got, before, group, broken, git>>

Compact(v) ==
  /\ at[v] = "checked"
  /\ events' = From(events, KeepAfter(seq[v]))
  /\ at' = [at EXCEPT ![v] = "saved"]
  /\ UNCHANGED <<anchor, accepted, backwards, seq, hand, basis, got, before, group,
                 broken, git>>

\* A Git mutation first snapshots the pipeline, at the last event it finds.
GitRead ==
  /\ gitSeq = Idle
  /\ gitRuns < MaxGit
  /\ gitSeq' = LastSeq
  /\ gitRuns' = gitRuns + 1
  /\ UNCHANGED <<store, sockets, group, broken>>

GitAnchor ==
  /\ gitSeq # Idle
  /\ Anchor(gitSeq, {})
  /\ gitSeq' = Idle
  /\ UNCHANGED <<events, accepted, gitRuns, sockets, group, broken>>

-----------------------------------------------------------------------------
Handle(s) == ReadAnchor(s) \/ ReadEvents(s) \/ Leave(s)

Persist(w) == Append(w) \/ Conflict(w) \/ Broadcast(w)

Finish(v) == SaveAnchor(v) \/ CheckAnchor(v) \/ Compact(v)

Next ==
  \/ \E s \in Sockets : Join(s) \/ Abort(s) \/ Handle(s) \/ Edit(s) \/ Break(s)
  \/ \E w \in Writers : Persist(w)
  \/ \E v \in Savers : Save(v) \/ Finish(v)
  \/ GitRead \/ GitAnchor

Spec == Init /\ [][Next]_vars

-----------------------------------------------------------------------------
(* Properties.                                                             *)

\* No client, row or snapshot holds an update that was not inserted: whatever
\* is shown to others has survived the append (collab.py: "durable
\* collaboration updates").
DeliveredIsDurable ==
  /\ \A s \in Sockets : got[s] \subseteq Accepted
  /\ Brings(events) \cup anchor.doc \subseteq Accepted

\* The handlers that have inserted u and not yet broadcast it.
InFlight(u) == \E w \in Writers : at[w] = "appended" /\ u \in hand[w]

\* As long as no snapshot write has moved the anchor back, a client that has
\* joined lacks an accepted update only if its broadcast is still to come or
\* the snapshot it was sent, or the one stored now, claims to cover it: there
\* is no gap between snapshot, replay and live delivery.
JoinIsGapless ==
  ~backwards =>
    \A s \in Sockets : at[s] = "open" /\ s \notin broken =>
      \A u \in Accepted \ got[s] :
        \/ InFlight(u)
        \/ accepted[u] <= basis[s].seq
        \/ accepted[u] <= anchor.seq

\* A client that stays connected is sent every update accepted since it
\* joined: whatever it has not got is still to be broadcast, whoever sent it
\* and whatever happened to its sender.
LiveDelivery ==
  \A s \in Sockets : at[s] \notin {"new", "closed"} /\ s \notin broken =>
    \A u \in Accepted \ (before[s] \cup got[s]) : InFlight(u)
=============================================================================
