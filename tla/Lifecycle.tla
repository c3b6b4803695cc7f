----------------------------- MODULE Lifecycle -----------------------------
(***************************************************************************)
(* A pikawire process from start to crash and restart: RunVersion and      *)
(* runDbsync of internal/app/run.go over the checkpoint file               *)
(* (internal/store), the DBSync fetch (internal/dbsync) and replication    *)
(* sessions (internal/replica, in detail in Runner), against a master that *)
(* writes and purges its binlog.                                           *)
(*                                                                         *)
(* Entry p ends at position p; 0 is the zero Offset.  The dump taken at    *)
(* anchor holds the effect of the entries 1 .. anchor and yields DumpN     *)
(* events.  pipe is what has been pushed to emitCh and not yet been made   *)
(* durable by the sink, oldest first: the queue and the sink's in-flight   *)
(* events together.  After a sink failure the first left events of it may  *)
(* still arrive, the others never do.                                      *)
(***************************************************************************)
EXTENDS Integers, Sequences, FiniteSets

CONSTANTS
  DumpN,      \* events the dump yields
  MaxTip,     \* bound on the entries the master writes
  PipeCap,    \* capacity of pipe
  Every,      \* emitted events between two persisted cursors (20000)
  MaxFaults,  \* bound on the faults of a behaviour
  Faults      \* subset of FaultKinds

FaultKinds == {"crash", "fetch", "connect", "session", "stall", "sink", "flush", "dump"}

ASSUME BoundAssumption ==
  /\ DumpN \in Nat /\ MaxTip \in Nat \ {0} /\ PipeCap \in Nat \ {0}
  /\ Every \in Nat \ {0} /\ MaxFaults \in Nat
ASSUME FaultAssumption == Faults \subseteq FaultKinds

VARIABLES
  durable, async, force,\* configuration: buffer_fsync=durable, an AsyncSink, snapshot_bgsave=force
  tip, purged, save,    \* master: last entry, last purged one, its checkpoint (0: none)
  pc,                   \* the application goroutine
  st, disk,             \* the store in memory and the checkpoint file
  anchor, dump, nextEv, \* bgsave position, dump folder in place, next dump event
  sess, gateOpen, recvd,             \* the session: state, gate, last entry received
  loop, left,           \* the emit loop runs; events a failed sink still delivers, or -1
  handle, appended, drained, blTail, \* backlog: r.buf, its counters, last record on disk
  pipe,
  faults,               \* faults so far
  injected, landed, got,\* dump events injected and delivered, entries delivered (history)
  stale                 \* a failed Flush left resume coordinates behind (history)

config == <<durable, async, force>>
master == <<tip, purged, save>>
backlog == <<handle, appended, drained, blTail>>
session == <<sess, gateOpen, recvd>>
emitter == <<loop, left>>
history == <<injected, landed, got, stale>>
vars == <<config, master, pc, st, disk, anchor, dump, nextEv, session, emitter, backlog,
          pipe, faults, history>>

-----------------------------------------------------------------------------
(* internal/store *)

NoResume == [anchor |-> 0, cursor |-> 0, done |-> FALSE]
EmptyState == [phase |-> "none", pos |-> 0, resume |-> NoResume]

\* Altered form: a replayed position overwrites a later one.
SetDeliveredLast(s, p) == [s EXCEPT !.pos = p]

\* SetDelivered: positions only move forward (pos = 0: no position yet).
SetDelivered(s, p) == IF s.pos # 0 /\ p <= s.pos THEN s ELSE [s EXCEPT !.pos = p]

\* Altered form: the coordinates of the abandoned scan survive.
ResetKeepsResume(s) == [phase |-> "running", pos |-> 0, resume |-> s.resume]

\* ResetForRescan, and the commit of the snapshot: SetSnapshot and ClearResume.
ResetForRescan(s) == [phase |-> "running", pos |-> 0, resume |-> NoResume]
Complete(s) == [s EXCEPT !.phase = "done", !.resume = NoResume]

SetResume(s, a, c, d) ==
  IF durable THEN [s EXCEPT !.resume = [anchor |-> a, cursor |-> c, done |-> d]]
  ELSE s

MayFault(k) == k \in Faults /\ faults < MaxFaults
Fault(k) == MayFault(k) /\ faults' = faults + 1

\* Flush replaces the file or, if it fails, leaves the old one (tmp and rename).
Flush(s) == disk' = s /\ faults' = faults
FlushFails == disk' = disk /\ Fault("flush")

-----------------------------------------------------------------------------
Init ==
  /\ durable \in BOOLEAN /\ async \in BOOLEAN /\ force \in BOOLEAN
  /\ tip = 1 /\ purged = 0 /\ save \in {0, 1}
  /\ pc = "down" /\ st = EmptyState /\ disk = EmptyState
  /\ anchor = 0 /\ dump = FALSE /\ nextEv = 1
  /\ sess = "none" /\ gateOpen = FALSE /\ recvd = 0 /\ loop = FALSE /\ left = -1
  /\ handle = FALSE /\ appended = 0 /\ drained = 0 /\ blTail = 0
  /\ pipe = <<>> /\ faults = 0
  /\ injected = {} /\ landed = {} /\ got = {} /\ stale = FALSE

-----------------------------------------------------------------------------
(* The master *)

MasterWrite ==
  /\ tip < MaxTip /\ tip' = tip + 1
  /\ UNCHANGED <<config, purged, save, pc, st, disk, anchor, dump, nextEv, session, emitter,
                 backlog, pipe, faults, history>>

\* Binlog a live session has not acknowledged (received) is kept.
MasterPurge ==
  /\ purged' \in (purged + 1) .. (IF sess = "up" THEN recvd ELSE tip)
  /\ UNCHANGED <<config, tip, save, pc, st, disk, anchor, dump, nextEv, session, emitter,
                 backlog, pipe, faults, history>>

-----------------------------------------------------------------------------
(* Start and end of the process *)

\* RunVersion: the checkpoint decides between the tail and the snapshot.
Boot ==
  /\ pc = "down"
  /\ st' = disk
  /\ pc' = IF disk.phase = "done" THEN "inc"
           ELSE IF durable /\ disk.phase = "running" /\ disk.resume # NoResume
                THEN "resume" ELSE "rescan"
  /\ UNCHANGED <<config, master, disk, anchor, dump, nextEv, session, emitter, backlog, pipe,
                 faults, history>>

\* What the end of the process leaves: the files.
Exit ==
  /\ pc' = "down" /\ st' = EmptyState
  /\ sess' = "none" /\ gateOpen' = FALSE /\ recvd' = 0 /\ loop' = FALSE /\ left' = -1
  /\ handle' = FALSE /\ appended' = 0 /\ drained' = 0
  /\ pipe' = <<>>
  /\ UNCHANGED <<config, master, anchor, nextEv, blTail, history>>

Crash ==
  /\ pc # "down" /\ Fault("crash") /\ Exit
  /\ UNCHANGED <<disk, dump>>

\* The dump folder is removed while the process is down.
DumpLost ==
  /\ pc = "down" /\ dump /\ Fault("dump") /\ dump' = FALSE
  /\ UNCHANGED <<config, master, pc, st, disk, anchor, nextEv, session, emitter, backlog, pipe,
                 history>>

-----------------------------------------------------------------------------
(* runDbsync: the full path *)

Rescan ==
  /\ pc = "rescan"
  /\ st' = ResetForRescan(st)
  /\ \/ Flush(st') /\ stale' = FALSE
     \/ FlushFails /\ stale' = (stale \/ disk.resume # NoResume)
  /\ blTail' = IF durable THEN 0 ELSE blTail
  /\ pc' = IF force THEN "bgsave" ELSE "fetch"
  /\ injected' = {} /\ landed' = {}
  /\ UNCHANGED <<config, master, anchor, dump, nextEv, session, emitter, handle, appended,
                 drained, pipe, got>>

\* ensureFreshBgsave: BGSAVE, then LASTSAVE until it has advanced.
Bgsave ==
  /\ pc = "bgsave" /\ save' = tip /\ pc' = "fetch"
  /\ UNCHANGED <<config, tip, purged, st, disk, anchor, dump, nextEv, session, emitter, backlog,
                 pipe, faults, history>>

\* DBSyncSetup and rsync Begin: the master reuses its checkpoint, unless it is
\* purged or too old, or takes a new one; the info file gives the anchor.
Anchor ==
  /\ pc = "fetch"
  /\ save' \in {tip} \cup (IF save >= purged THEN {save} \ {0} ELSE {})
  /\ anchor' = save' /\ dump' = TRUE /\ pc' = "transfer"
  /\ UNCHANGED <<config, tip, purged, st, disk, nextEv, session, emitter, backlog, pipe, faults,
                 history>>

\* Rest has transferred the files and the DBSync connection is closed: onAnchor.
Transferred ==
  /\ pc = "transfer" /\ pc' = "attach"
  /\ UNCHANGED <<config, master, st, disk, anchor, dump, nextEv, session, emitter, backlog, pipe,
                 faults, history>>

FetchFails ==
  /\ pc \in {"bgsave", "fetch", "transfer"} /\ Fault("fetch") /\ Exit
  /\ UNCHANGED <<disk, dump>>

\* Altered form: the checkpoint is not consulted.
StartFromTip(at) == IF at # 0 THEN at ELSE tip

\* startOffset: explicit position, checkpoint, master tip.
StartOffset(at) == IF at # 0 THEN at ELSE IF st.pos # 0 THEN st.pos ELSE tip

\* establish at a position: the master still has what follows it.  The runner's
\* queue is new, what a failed async sink still holds is not.
Established(start) ==
  /\ start >= purged
  /\ sess' = "up" /\ recvd' = start
  /\ handle' = FALSE /\ appended' = 0 /\ drained' = 0
  /\ pipe' = IF left >= 0 THEN SubSeq(pipe, 1, left) ELSE pipe
  /\ loop' = TRUE /\ left' = IF async THEN left ELSE -1

Refused(start) == (start < purged /\ faults' = faults) \/ Fault("connect")

\* startSession at the anchor, behind a gate.
Attach ==
  /\ pc = "attach" /\ Established(StartOffset(anchor))
  /\ gateOpen' = FALSE /\ pc' = "mark"
  /\ UNCHANGED <<config, master, st, disk, anchor, dump, nextEv, blTail, faults, history>>

\* Run ended before the session was ready.  startSession reads its error and
\* then waits for a second one, which never comes.
AttachHangs ==
  /\ pc = "attach" /\ Refused(StartOffset(anchor))
  /\ pc' = "hung"
  /\ UNCHANGED <<config, master, st, disk, anchor, dump, nextEv, session, emitter, backlog, pipe,
                 history>>

\* The anchor becomes the checkpoint and, with durable, the resume coordinates.
MarkState == SetResume(SetDelivered(st, anchor), anchor, 0, FALSE)

Mark ==
  /\ pc = "mark"
  /\ st' = MarkState
  /\ Flush(st') \/ FlushFails
  /\ pc' = "emit" /\ nextEv' = 1
  /\ UNCHANGED <<config, master, anchor, dump, session, emitter, backlog, pipe, history>>

-----------------------------------------------------------------------------
(* emitDumpAndRelease *)

Push(kind, p) == pipe' = Append(pipe, [kind |-> kind, pos |-> p])
Room == Len(pipe) < PipeCap

\* One event of the dump; with durable every Every-th event persists the cursor.
EmitEvent ==
  /\ pc = "emit" /\ nextEv <= DumpN /\ Room
  /\ Push("snap", nextEv) /\ injected' = injected \cup {nextEv}
  /\ nextEv' = nextEv + 1
  /\ IF nextEv % Every = 0
     THEN st' = SetResume(st, anchor, nextEv, FALSE) /\ (Flush(st') \/ FlushFails)
     ELSE UNCHANGED <<st, disk, faults>>
  /\ UNCHANGED <<config, master, pc, anchor, dump, session, emitter, backlog, landed, got, stale>>

EmitEnd ==
  /\ pc = "emit" /\ nextEv > DumpN
  /\ st' = SetResume(st, anchor, 0, TRUE)
  /\ Flush(st') \/ FlushFails
  /\ pc' = "release"
  /\ UNCHANGED <<config, master, anchor, dump, nextEv, session, emitter, backlog, pipe, history>>

Pending == IF handle THEN appended - drained ELSE 0

\* Altered form: Release reads once more than there are records.
DrainOneMore ==
  /\ pc = "release" /\ Pending >= 0 /\ Room
  /\ Push("inc", anchor + drained + 1) /\ drained' = drained + 1
  /\ UNCHANGED <<config, master, pc, st, disk, anchor, dump, nextEv, session, emitter, handle,
                 appended, blTail, faults, history>>

\* Release pushes the oldest record of the backlog ...
Drain ==
  /\ pc = "release" /\ Pending > 0 /\ Room
  /\ Push("inc", anchor + drained + 1) /\ drained' = drained + 1
  /\ UNCHANGED <<config, master, pc, st, disk, anchor, dump, nextEv, session, emitter, handle,
                 appended, blTail, faults, history>>

\* ... and opens the gate when nothing is pending; the backlog it had open goes.
OpenGate ==
  /\ pc = "release" /\ Pending <= 0
  /\ gateOpen' = TRUE /\ pc' = "commit" /\ handle' = FALSE
  /\ blTail' = IF handle THEN 0 ELSE blTail
  /\ UNCHANGED <<config, master, st, disk, anchor, dump, nextEv, sess, recvd, emitter,
                 appended, drained, pipe, faults, history>>

\* Altered form: Inject and Release do not watch runDone.
EmitStoppedNever == FALSE

\* Inject and Release find runDone closed, or Release gives up on a queue nobody
\* reads; the process ends.
EmitStopped ==
  /\ \/ ((pc = "emit" /\ nextEv <= DumpN) \/ (pc = "release" /\ Pending > 0))
        /\ sess \in {"failed", "stalled"}
     \/ pc = "release" /\ Pending > 0 /\ ~Room /\ ~loop
  /\ Exit
  /\ UNCHANGED <<disk, dump, faults>>

Commit ==
  /\ pc = "commit"
  /\ st' = Complete(st) /\ Flush(st') /\ pc' = "live"
  /\ UNCHANGED <<config, master, anchor, dump, nextEv, session, emitter, backlog, pipe, history>>

CommitFails ==
  /\ pc = "commit" /\ FlushFails /\ Exit
  /\ UNCHANGED dump

-----------------------------------------------------------------------------
(* incrementalLoop and runDbsyncResume *)

AttachTail ==
  /\ pc = "inc" /\ Established(StartOffset(0))
  /\ gateOpen' = TRUE /\ pc' = "live"
  /\ UNCHANGED <<config, master, st, disk, anchor, dump, nextEv, blTail, faults, history>>

TailRefused ==
  /\ pc = "inc" /\ Refused(StartOffset(0)) /\ Exit
  /\ UNCHANGED <<disk, dump>>

\* The session has ended: a stalled one is replaced, any other ends the process.
Reconnect ==
  /\ pc = "live" /\ sess = "stalled" /\ pc' = "inc"
  /\ UNCHANGED <<config, master, st, disk, anchor, dump, nextEv, session, emitter, backlog, pipe,
                 faults, history>>

SessionFailed ==
  /\ pc = "live" /\ sess = "failed" /\ Exit
  /\ UNCHANGED <<disk, dump, faults>>

ResumeStart == IF blTail = 0 THEN disk.resume.anchor ELSE blTail

\* The dump folder is gone: fall back to a full re-scan.
ResumeGone ==
  /\ pc = "resume" /\ ~dump /\ pc' = "rescan"
  /\ UNCHANGED <<config, master, st, disk, anchor, dump, nextEv, session, emitter, backlog, pipe,
                 faults, history>>

\* The stream attaches behind the retained backlog; the dump goes on at the cursor.
Resume ==
  /\ pc = "resume" /\ dump /\ Established(ResumeStart)
  /\ gateOpen' = FALSE /\ anchor' = st.resume.anchor
  /\ nextEv' = IF st.resume.cursor = 0 THEN 1 ELSE st.resume.cursor
  /\ pc' = IF st.resume.done THEN "release" ELSE "emit"
  /\ UNCHANGED <<config, master, st, disk, dump, blTail, faults, history>>

\* No session, or the backlog cannot be read: the process ends with the error.
ResumeRefused ==
  /\ pc = "resume" /\ dump /\ Refused(ResumeStart) /\ Exit
  /\ UNCHANGED <<disk, dump>>

-----------------------------------------------------------------------------
(* The session and the sink *)

\* consume: through the gate into the queue, or into the backlog.
Receive ==
  /\ sess = "up" /\ recvd < tip /\ recvd' = recvd + 1
  /\ IF gateOpen
     THEN Room /\ Push("inc", recvd + 1) /\ UNCHANGED backlog
     ELSE /\ handle' = TRUE /\ appended' = appended + 1 /\ blTail' = recvd + 1
          /\ UNCHANGED <<drained, pipe>>
  /\ UNCHANGED <<config, master, pc, st, disk, anchor, dump, nextEv, sess, gateOpen,
                 emitter, faults, history>>

\* The sink has made the oldest event durable.  A sync sink advances the
\* checkpoint to the entry's end, an async one to its start; the checkpoint is
\* flushed now and then.
Reported(it) == IF it.kind = "snap" THEN anchor
                ELSE IF async THEN it.pos - 1 ELSE it.pos

Deliver ==
  /\ pipe # <<>> /\ pipe' = Tail(pipe)
  /\ left # 0 /\ left' = IF left > 0 THEN left - 1 ELSE left
  /\ IF Head(pipe).kind = "inc"
     THEN got' = got \cup {Head(pipe).pos} /\ landed' = landed
     ELSE landed' = landed \cup {Head(pipe).pos} /\ got' = got
  /\ st' = SetDelivered(st, Reported(Head(pipe)))
  /\ disk' \in {disk, st'}
  /\ UNCHANGED <<config, master, pc, anchor, dump, nextEv, session, loop, backlog, faults,
                 injected, stale>>

\* A delivery fails.  A sync sink's Emit returns the error and the emit loop
\* ends; an async sink delivers what was ahead of the failed event ...
SinkFails ==
  /\ sess # "none" /\ loop /\ left = -1 /\ pipe # <<>> /\ Fault("sink")
  /\ left' \in IF async THEN 0 .. (Len(pipe) - 1) ELSE {0}
  /\ loop' = async
  /\ UNCHANGED <<config, master, pc, st, disk, anchor, dump, nextEv, session, backlog, pipe,
                 history>>

\* ... and refuses the next event, if there is one.
EmitErr ==
  /\ loop /\ left >= 0 /\ Len(pipe) > left
  /\ loop' = FALSE
  /\ UNCHANGED <<config, master, pc, st, disk, anchor, dump, nextEv, session, left, backlog,
                 pipe, faults, history>>

\* The receive loop ends: the connection is lost, or nothing comes although the
\* master is ahead ...
ReceiveEnds ==
  /\ sess = "up"
  /\ \/ Fault("session") /\ sess' = "failing"
     \/ Fault("stall") /\ sess' = "stalling"
  /\ UNCHANGED <<config, master, pc, st, disk, anchor, dump, nextEv, gateOpen, recvd, emitter,
                 backlog, pipe, history>>

\* ... or a message arrives and the sink has failed.
SinkNoticed ==
  /\ sess = "up" /\ left >= 0 /\ sess' = "failing"
  /\ UNCHANGED <<config, master, pc, st, disk, anchor, dump, nextEv, gateOpen, recvd, emitter,
                 backlog, pipe, faults, history>>

\* Run returns and closes runDone when the emit loop has ended, too; nothing but
\* a sink failure ends it, for the context is cancelled after this wait.
RunReturns ==
  /\ ~loop
  /\ \/ sess = "failing" /\ sess' = "failed"
     \/ sess = "stalling" /\ sess' = "stalled"
  /\ UNCHANGED <<config, master, pc, st, disk, anchor, dump, nextEv, gateOpen, recvd, emitter,
                 backlog, pipe, faults, history>>

-----------------------------------------------------------------------------
App ==
  \/ Boot \/ Rescan \/ Bgsave \/ Anchor \/ Transferred \/ Attach \/ AttachHangs \/ Mark
  \/ EmitEvent \/ EmitEnd \/ Drain \/ OpenGate \/ EmitStopped \/ Commit
  \/ AttachTail \/ TailRefused \/ Reconnect \/ SessionFailed
  \/ ResumeGone \/ Resume \/ ResumeRefused

Next ==
  \/ MasterWrite \/ MasterPurge \/ App \/ Receive \/ Deliver
  \/ SinkFails \/ EmitErr \/ ReceiveEnds \/ SinkNoticed \/ RunReturns
  \/ Crash \/ DumpLost \/ FetchFails \/ CommitFails

Spec == Init /\ [][Next]_vars

\* The receive loop is in the middle of a message and waits for the queue.
Blocked == gateOpen /\ ~Room

\* A supervisor restarts the process; its goroutines and the sink go on, and the
\* master's keepalives reach a receive loop that is not blocked.
FairSpec ==
  /\ Spec /\ WF_vars(App) /\ WF_vars(Receive) /\ WF_vars(Deliver)
  /\ WF_vars(RunReturns) /\ WF_vars(~Blocked /\ SinkNoticed)

-----------------------------------------------------------------------------
\* What the checkpoint file claims has reached the sink: without durable, a
\* process that resumes the tail from it skips no entry behind the anchor,
\* whatever sessions, stalls, crashes and re-scans came before.
EntriesCovered ==
  ~durable /\ disk.phase = "done" => \A p \in (anchor + 1) .. disk.pos : p \in got

\* A snapshot is committed only when every event of its dump was handed to the
\* queue since the scan began, resumed emissions included; excepted is a failed
\* Flush that leaves the coordinates of an older dump in place.
DumpInjected == disk.phase = "done" /\ ~stale => injected = 1 .. DumpN

\* A committed snapshot is never taken again, and its checkpoint never moves back.
DoneForGood ==
  [][disk.phase = "done" => disk'.phase = "done" /\ disk'.pos >= disk.pos]_vars

\* What stops a process: the wait in startSession, a Run that waits for an emit
\* loop nobody stops, a receive loop blocked on a queue nobody reads, or a position
\* to resume from that the master has purged.
Stuck ==
  \/ pc = "hung"
  \/ sess \in {"failing", "stalling"} /\ loop
  \/ sess = "up" /\ left >= 0 /\ Blocked
  \/ disk.phase = "done" /\ disk.pos < purged
  \/ disk.resume # NoResume /\ ResumeStart < purged

\* Unless the process is stuck again and again or for good, the snapshot completes
\* and without durable every entry the master writes behind the anchor arrives,
\* despite the faults.
Converges ==
  <>[]~Stuck => <>[](/\ disk.phase = "done"
                     /\ ~durable => \A p \in (anchor + 1) .. tip : p \in got)

\* "No data loss across crashes" (README.md): when the next process is going to
\* resume the tail and not the dump, the sink has every event of the dump.
NoLoss == pc = "down" /\ disk.phase = "done" => landed = 1 .. DumpN

\* Every variable stays in its range.
TypeOK ==
  /\ durable \in BOOLEAN /\ async \in BOOLEAN /\ force \in BOOLEAN
  /\ tip \in 1 .. MaxTip /\ purged \in 0 .. tip /\ save \in 0 .. tip
  /\ pc \in {"down", "rescan", "bgsave", "fetch", "transfer", "attach", "hung", "mark", "emit",
             "release", "commit", "live", "inc", "resume"}
  /\ \A s \in {st, disk} :
       /\ s.phase \in {"none", "running", "done"} /\ s.pos \in 0 .. tip
       /\ s.resume \in [anchor : 0 .. tip, cursor : 0 .. DumpN, done : BOOLEAN]
  /\ anchor \in 0 .. tip /\ dump \in BOOLEAN /\ nextEv \in 1 .. (DumpN + 1)
  /\ sess \in {"none", "up", "failing", "stalling", "failed", "stalled"}
  /\ gateOpen \in BOOLEAN /\ loop \in BOOLEAN /\ left \in -1 .. Len(pipe)
  /\ recvd \in 0 .. tip /\ handle \in BOOLEAN
  /\ appended \in 0 .. tip /\ drained \in 0 .. appended /\ blTail \in 0 .. tip
  /\ pipe \in Seq([kind : {"snap", "inc"}, pos : 1 .. (tip + DumpN)])
  /\ Len(pipe) <= PipeCap /\ faults \in 0 .. MaxFaults
  /\ injected \subseteq 1 .. DumpN /\ landed \subseteq injected /\ got \subseteq 1 .. tip
  /\ stale \in BOOLEAN

=============================================================================
