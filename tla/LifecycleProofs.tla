--------------------------- MODULE LifecycleProofs ---------------------------
(***************************************************************************)
(* Proofs about Lifecycle: for every dump, master log, queue capacity and  *)
(* number of faults, what the checkpoint file claims is true, a committed  *)
(* snapshot is complete, and neither is ever taken back.                   *)
(***************************************************************************)
EXTENDS Lifecycle, TLAPS

\* Unless a step says otherwise: Z3, then Zenon, then Z3 with more time.
USE SMTT(10), ZenonT(20), Z3T(30)

States == [phase : {"none", "running", "done"}, pos : Nat,
           resume : [anchor : Nat, cursor : Nat, done : BOOLEAN]]
Items == [kind : {"snap", "inc"}, pos : Nat \ {0}]

Before == {"rescan", "bgsave", "fetch", "transfer", "attach", "hung", "resume"}
Attached == {"mark", "emit", "release"}
After == {"emit", "release", "commit", "live", "inc"}

Types ==
  /\ tip \in Nat \ {0} /\ save \in Nat /\ purged \in Nat
  /\ pc \in {"down"} \cup Before \cup Attached \cup After
  /\ st \in States /\ disk \in States
  /\ anchor \in Nat /\ nextEv \in Nat \ {0}
  /\ sess \in {"none", "up", "failing", "stalling", "failed", "stalled"} /\ recvd \in Nat
  /\ appended \in Nat /\ drained \in Nat /\ blTail \in Nat
  /\ pipe \in Seq(Items) /\ left \in -1 .. Len(pipe)

-----------------------------------------------------------------------------
(* The operations of the checkpoint *)

LEMMA StoreTypes ==
  /\ EmptyState \in States
  /\ \A s \in States, p \in Nat : SetDelivered(s, p) \in States
  /\ \A s \in States : ResetForRescan(s) \in States /\ Complete(s) \in States
  /\ \A s \in States, a, c \in Nat, d \in BOOLEAN : SetResume(s, a, c, d) \in States
BY Zenon DEF States, EmptyState, NoResume, SetDelivered, ResetForRescan, Complete, SetResume

\* The checkpoint only moves forward, and keeps the rest.
LEMMA SetDeliveredFacts ==
  ASSUME NEW s \in States, NEW p \in Nat
  PROVE  /\ SetDelivered(s, p).pos \in {s.pos, p}
         /\ SetDelivered(s, p).pos >= s.pos /\ SetDelivered(s, p).pos >= p
         /\ SetDelivered(s, p).phase = s.phase /\ SetDelivered(s, p).resume = s.resume
BY DEF States, SetDelivered

LEMMA SetResumeFacts ==
  ASSUME NEW s \in States, NEW a \in Nat, NEW c \in Nat, NEW d \in BOOLEAN
  PROVE  /\ SetResume(s, a, c, d).pos = s.pos /\ SetResume(s, a, c, d).phase = s.phase
         /\ SetResume(s, a, c, d).resume \in {s.resume, [anchor |-> a, cursor |-> c, done |-> d]}
BY DEF States, SetResume

LEMMA ResetFacts ==
  ASSUME NEW s \in States
  PROVE  /\ ResetForRescan(s).pos = 0 /\ ResetForRescan(s).phase = "running"
         /\ ResetForRescan(s).resume = NoResume
         /\ Complete(s).pos = s.pos /\ Complete(s).phase = "done"
         /\ Complete(s).resume = NoResume
BY DEF States, ResetForRescan, Complete

\* What a mark leaves: the checkpoint is at or behind the anchor.
LEMMA MarkFacts ==
  ASSUME Types
  PROVE  /\ MarkState \in States /\ MarkState.phase = st.phase
         /\ MarkState.pos \in {st.pos, anchor} /\ MarkState.pos >= anchor
         /\ MarkState.resume \in {st.resume, [anchor |-> anchor, cursor |-> 0, done |-> FALSE]}
<1> DEFINE s == SetDelivered(st, anchor)
<1>1. st \in States /\ anchor \in Nat
  BY DEF Types
<1>2. s \in States
  BY <1>1, StoreTypes
<1>3. /\ s.phase = st.phase /\ s.resume = st.resume
      /\ s.pos \in {st.pos, anchor} /\ s.pos >= anchor
  BY <1>1, SetDeliveredFacts
<1> HIDE DEF s
<1>4. MarkState = SetResume(s, anchor, 0, FALSE)
  BY DEF MarkState, s
<1>5. 0 \in Nat /\ FALSE \in BOOLEAN
  OBVIOUS
<1>6. MarkState \in States
  BY <1>1, <1>2, <1>4, <1>5, StoreTypes, Zenon
<1>7. /\ MarkState.pos = s.pos /\ MarkState.phase = s.phase
      /\ MarkState.resume \in {s.resume, [anchor |-> anchor, cursor |-> 0, done |-> FALSE]}
  BY <1>1, <1>2, <1>4, <1>5, SetResumeFacts, Zenon
<1> QED
  BY <1>3, <1>6, <1>7

-----------------------------------------------------------------------------
(* Types *)

LEMMA CutFacts ==
  ASSUME NEW S, NEW s \in Seq(S), NEW k \in 0 .. Len(s)
  PROVE  /\ SubSeq(s, 1, k) \in Seq(S) /\ Len(SubSeq(s, 1, k)) = k
         /\ \A i \in 1 .. k : SubSeq(s, 1, k)[i] = s[i]
OBVIOUS

LEMMA PipeTypes ==
  ASSUME Types
  PROVE  /\ Len(pipe) \in Nat
         /\ \A i \in 1 .. Len(pipe) : pipe[i] \in Items
         /\ \A k \in {"snap", "inc"}, p \in Nat \ {0} :
              Append(pipe, [kind |-> k, pos |-> p]) \in Seq(Items)
         /\ pipe # <<>> => Tail(pipe) \in Seq(Items) /\ Head(pipe) \in Items
                           /\ Head(pipe) = pipe[1] /\ Len(pipe) > 0
         /\ \A k \in 0 .. Len(pipe) : SubSeq(pipe, 1, k) \in Seq(Items)
                                       /\ Len(SubSeq(pipe, 1, k)) = k
<1>1. pipe \in Seq(Items) /\ Len(pipe) \in Nat
  BY DEF Types
<1>2. \A k \in 0 .. Len(pipe) : SubSeq(pipe, 1, k) \in Seq(Items)
                                /\ Len(SubSeq(pipe, 1, k)) = k
  BY <1>1, CutFacts
<1>3. \A k \in {"snap", "inc"}, p \in Nat \ {0} : [kind |-> k, pos |-> p] \in Items
  BY DEF Items
<1> QED
  BY <1>1, <1>2, <1>3

LEMMA ReportedType ==
  ASSUME Types, NEW it \in Items
  PROVE  Reported(it) \in Nat
BY DEF Types, Items, Reported

\* A new session keeps what a failed sink still delivers.
LEMMA EstablishedTypes ==
  ASSUME Types, NEW n \in Nat, Established(n)
  PROVE  /\ sess' = "up" /\ recvd' = n /\ appended' = 0 /\ drained' = 0
         /\ pipe' \in Seq(Items) /\ left' \in -1 .. Len(pipe')
<1>1. sess' = "up" /\ recvd' = n /\ appended' = 0 /\ drained' = 0
  BY DEF Established
<1>2. left \in -1 .. Len(pipe) /\ Len(pipe) \in Nat /\ pipe \in Seq(Items)
  BY DEF Types
<1>3. left' \in {left, -1}
  BY DEF Established
<1>4. CASE left >= 0
  <2>1. pipe' = SubSeq(pipe, 1, left) /\ left \in 0 .. Len(pipe)
    BY <1>2, <1>4 DEF Established
  <2>2. pipe' \in Seq(Items) /\ Len(pipe') = left
    BY <2>1, PipeTypes
  <2> QED
    BY <1>1, <1>2, <1>3, <2>2
<1>5. CASE ~(left >= 0)
  <2>1. pipe' = pipe
    BY <1>5 DEF Established
  <2> QED
    BY <1>1, <1>2, <1>3, <2>1
<1> QED
  BY <1>4, <1>5

\* One step keeps the types.
LEMMA TypesStep == Types /\ [Next]_vars => Types'
<1> SUFFICES ASSUME Types, [Next]_vars PROVE Types'
  OBVIOUS
<1> USE DEF Types, Before, Attached, After
<1>0. NoResume \in [anchor : Nat, cursor : Nat, done : BOOLEAN]
  BY DEF NoResume
<1>1. CASE UNCHANGED vars
  BY <1>1 DEF vars, config, master, session, emitter, backlog, history
<1>2. CASE Boot
  BY <1>2 DEF Boot, config, master, session, emitter, backlog, history
<1>3. CASE Rescan
  BY <1>3, StoreTypes DEF Rescan, Flush, FlushFails, config, master, session, emitter, history
<1>4. CASE Bgsave \/ Anchor \/ Transferred
  BY <1>4, Zenon
  DEF Bgsave, Anchor, Transferred, config, master, session, emitter, backlog, history
<1>5. CASE Attach \/ AttachHangs
  <2>1. StartOffset(anchor) \in Nat
    BY DEF StartOffset, States
  <2>2. CASE Attach
    BY <2>1, <2>2, EstablishedTypes DEF Attach, config, master, history
  <2>3. CASE AttachHangs
    BY <2>3 DEF AttachHangs, config, master, session, emitter, backlog, history
  <2> QED
    BY <1>5, <2>2, <2>3
<1>6. CASE Mark
  BY <1>6, MarkFacts DEF Mark, Flush, FlushFails, config, master, session, emitter, backlog, history
<1>7. CASE EmitEvent
  <2>1. Append(pipe, [kind |-> "snap", pos |-> nextEv]) \in Seq(Items)
    BY PipeTypes
  <2>2. FALSE \in BOOLEAN
    OBVIOUS
  <2>3. SetResume(st, anchor, nextEv, FALSE) \in States
    BY <2>2, StoreTypes, Zenon
  <2>4. st' \in {st, SetResume(st, anchor, nextEv, FALSE)} /\ disk' \in {disk, st'}
    BY <1>7, Zenon DEF EmitEvent, Flush, FlushFails
  <2>5. st' \in States /\ disk' \in States
    BY <2>3, <2>4, Zenon
  <2>6. pipe' \in Seq(Items) /\ Len(pipe') = Len(pipe) + 1 /\ nextEv' = nextEv + 1
    BY <1>7, <2>1 DEF EmitEvent, Push
  <2>7. UNCHANGED <<master, pc, anchor, session, emitter, backlog>>
    BY <1>7 DEF EmitEvent
  <2> QED
    BY <2>5, <2>6, <2>7 DEF master, session, emitter, backlog
<1>8. CASE EmitEnd
  <2>1. TRUE \in BOOLEAN
    OBVIOUS
  <2>2. SetResume(st, anchor, 0, TRUE) \in States
    BY <2>1, StoreTypes, Zenon
  <2> QED
    BY <1>8, <2>2, Zenon DEF EmitEnd, Flush, FlushFails, config, master, session, emitter,
                             backlog, history
<1>9. CASE Drain
  <2>1. Append(pipe, [kind |-> "inc", pos |-> anchor + drained + 1]) \in Seq(Items)
    BY PipeTypes
  <2> QED
    BY <1>9, <2>1 DEF Drain, Push, config, master, session, emitter, history
<1>10. CASE OpenGate
  BY <1>10 DEF OpenGate, config, master, emitter, history
<1>11. CASE Commit
  BY <1>11, StoreTypes DEF Commit, Flush, config, master, session, emitter, backlog, history
<1>12. CASE AttachTail
  <2>1. StartOffset(0) \in Nat
    BY DEF StartOffset, States
  <2> QED
    BY <1>12, <2>1, EstablishedTypes DEF AttachTail, config, master, history
<1>13. CASE Reconnect \/ ResumeGone
  BY <1>13, Zenon DEF Reconnect, ResumeGone, config, master, session, emitter, backlog, history
<1>14. CASE Resume
  <2>1. ResumeStart \in Nat /\ st.resume.anchor \in Nat /\ st.resume.cursor \in Nat
    BY DEF ResumeStart, States
  <2>2. /\ sess' = "up" /\ recvd' \in Nat /\ appended' = 0 /\ drained' = 0
        /\ pipe' \in Seq(Items) /\ left' \in -1 .. Len(pipe')
    BY <1>14, <2>1, EstablishedTypes DEF Resume
  <2>3. UNCHANGED <<master, st, disk, blTail>>
    BY <1>14 DEF Resume
  <2>4. anchor' \in Nat /\ nextEv' \in Nat \ {0} /\ pc' \in {"release", "emit"}
    BY <1>14, <2>1 DEF Resume
  <2> QED
    BY <2>2, <2>3, <2>4 DEF master
<1>15. CASE MasterWrite \/ MasterPurge \/ DumpLost
  <2>1. CASE MasterWrite
    BY <2>1 DEF MasterWrite, session, emitter, backlog
  <2>2. CASE MasterPurge
    <3>1. UNCHANGED <<tip, save, pc, st, disk, anchor, nextEv, session, emitter, backlog, pipe>>
      BY <2>2 DEF MasterPurge
    <3>2. purged' \in Nat
      BY <2>2 DEF MasterPurge
    <3> QED
      BY <3>1, <3>2 DEF session, emitter, backlog
  <2>3. CASE DumpLost
    BY <2>3 DEF DumpLost, master, session, emitter, backlog
  <2> QED
    BY <1>15, <2>1, <2>2, <2>3
<1>16. CASE Receive
  <2>1. Append(pipe, [kind |-> "inc", pos |-> recvd + 1]) \in Seq(Items)
    BY PipeTypes
  <2>2. /\ UNCHANGED <<master, pc, st, disk, anchor, nextEv, sess, drained, left>>
        /\ recvd' = recvd + 1
    BY <1>16 DEF Receive, backlog, emitter
  <2>3. CASE gateOpen
    BY <1>16, <2>1, <2>2, <2>3 DEF Receive, Push, backlog, master
  <2>4. CASE ~gateOpen
    BY <1>16, <2>2, <2>4 DEF Receive, master
  <2> QED
    BY <2>3, <2>4
<1>17. CASE Deliver
  <2>1. Tail(pipe) \in Seq(Items) /\ Head(pipe) \in Items
    BY <1>17, PipeTypes DEF Deliver
  <2>2. SetDelivered(st, Reported(Head(pipe))) \in States
    BY <2>1, ReportedType, StoreTypes
  <2>3. /\ UNCHANGED <<master, pc, anchor, nextEv, session, backlog>>
        /\ st' \in States /\ disk' \in States
    BY <1>17, <2>2 DEF Deliver
  <2>4. pipe' \in Seq(Items) /\ Len(pipe') = Len(pipe) - 1
    BY <1>17, <2>1 DEF Deliver
  <2>5. left' \in -1 .. Len(pipe')
    BY <1>17, <2>4 DEF Deliver
  <2> QED
    BY <2>3, <2>4, <2>5 DEF master, session, backlog
<1>18. CASE SinkFails \/ EmitErr \/ ReceiveEnds \/ SinkNoticed \/ RunReturns
  <2>1. UNCHANGED <<master, pc, st, disk, anchor, nextEv, recvd, backlog, pipe>>
    BY <1>18 DEF SinkFails, EmitErr, ReceiveEnds, SinkNoticed, RunReturns, session
  <2>2. sess' \in {"none", "up", "failing", "stalling", "failed", "stalled"}
    BY <1>18 DEF SinkFails, EmitErr, ReceiveEnds, SinkNoticed, RunReturns, session
  <2>3. left' \in -1 .. Len(pipe)
    BY <1>18 DEF SinkFails, EmitErr, ReceiveEnds, SinkNoticed, RunReturns, emitter
  <2> QED
    BY <2>1, <2>2, <2>3 DEF master, backlog
<1>19. CASE Exit /\ disk' = disk
  BY <1>19, StoreTypes DEF Exit, config, master, history
<1>20. CASE EmitStopped \/ TailRefused \/ SessionFailed \/ ResumeRefused \/ Crash
            \/ FetchFails \/ CommitFails
  BY <1>19, <1>20 DEF EmitStopped, TailRefused, SessionFailed, ResumeRefused, Crash,
                      FetchFails, CommitFails, FlushFails
<1> QED
  BY <1>1, <1>2, <1>3, <1>4, <1>5, <1>6, <1>7, <1>8, <1>9, <1>10, <1>11, <1>12, <1>13,
     <1>14, <1>15, <1>16, <1>17, <1>18, <1>20, Zenon DEF Next, App

\* The steps that end the process.
Ending ==
  EmitStopped \/ TailRefused \/ SessionFailed \/ ResumeRefused \/ Crash \/ FetchFails
  \/ CommitFails

LEMMA EndingExits == Ending => Exit /\ disk' = disk
BY DEF Ending, EmitStopped, TailRefused, SessionFailed, ResumeRefused, Crash, FetchFails,
       CommitFails, FlushFails

-----------------------------------------------------------------------------
(* The session follows the program counter *)

SessionInv ==
  /\ pc \notin After => pipe = <<>> /\ left = -1
  /\ sess = "up" => pc \in Attached \cup {"commit", "live"}
  /\ pc \in Attached => ~gateOpen
  /\ pc \in {"commit", "live"} => gateOpen
  /\ pc = "resume" => durable
  /\ pc \in {"transfer", "attach", "mark"} => anchor >= 1

\* Behind the closed gate the backlog counts what came after the anchor.
GateInv ==
  ~durable /\ pc \in Attached /\ sess = "up" =>
    recvd = anchor + appended /\ drained <= appended /\ (~handle => appended = 0)

LEMMA SessionStep == Types /\ SessionInv /\ [Next]_vars => SessionInv'
<1> SUFFICES ASSUME Types, SessionInv, [Next]_vars PROVE SessionInv'
  OBVIOUS
<1> USE DEF SessionInv, After, Attached
<1>1. CASE UNCHANGED vars
  BY <1>1 DEF vars, config, session, emitter
<1>2. CASE Boot
  BY <1>2 DEF Boot, config, session, emitter
<1>3. CASE Rescan \/ Bgsave \/ Transferred
  BY <1>3 DEF Rescan, Bgsave, Transferred, config, session, emitter
<1>4. CASE Anchor
  BY <1>4 DEF Anchor, config, session, emitter, Types
<1>5. CASE Attach \/ AttachHangs \/ Mark
  BY <1>5 DEF Attach, AttachHangs, Mark, Established, config, session, emitter
<1>6. CASE EmitEvent \/ EmitEnd \/ Drain \/ OpenGate \/ Commit
  <2>1. CASE EmitEvent \/ Drain
    <3>1. /\ pc \in {"emit", "release"} /\ pc' = pc
          /\ UNCHANGED <<config, anchor, session, emitter>>
      BY <2>1, Zenon DEF EmitEvent, Drain
    <3> QED
      BY <3>1 DEF config, session, emitter
  <2>2. CASE EmitEnd
    BY <2>2 DEF EmitEnd, config, session, emitter
  <2>3. CASE OpenGate
    BY <2>3 DEF OpenGate, config, emitter
  <2>4. CASE Commit
    BY <2>4 DEF Commit, config, session, emitter
  <2> QED
    BY <1>6, <2>1, <2>2, <2>3, <2>4
<1>7. CASE AttachTail \/ Reconnect \/ ResumeGone \/ Resume
  BY <1>7 DEF AttachTail, Reconnect, ResumeGone, Resume, Established, config, session, emitter
<1>8. CASE MasterWrite \/ MasterPurge \/ DumpLost
  BY <1>8 DEF MasterWrite, MasterPurge, DumpLost, config, session, emitter
<1>9. CASE Receive
  BY <1>9 DEF Receive, config, emitter
<1>10. CASE Deliver
  BY <1>10 DEF Deliver, config, session, emitter
<1>11. CASE SinkFails \/ EmitErr \/ ReceiveEnds \/ SinkNoticed \/ RunReturns
  <2>1. UNCHANGED <<config, pc, anchor, pipe, gateOpen>> /\ (sess' = "up" => sess = "up")
    BY <1>11 DEF SinkFails, EmitErr, ReceiveEnds, SinkNoticed, RunReturns, session
  <2>2. left' = left \/ pipe # <<>>
    BY <1>11 DEF SinkFails, EmitErr, ReceiveEnds, SinkNoticed, RunReturns, emitter
  <2> QED
    BY <2>1, <2>2 DEF config
<1>12. CASE Ending
  BY <1>12, EndingExits DEF Exit, config
<1> QED
  BY <1>1, <1>2, <1>3, <1>4, <1>5, <1>6, <1>7, <1>8, <1>9, <1>10, <1>11, <1>12, Zenon
     DEF Next, App, Ending

LEMMA GateStep == Types /\ SessionInv /\ GateInv /\ [Next]_vars => GateInv'
<1> SUFFICES ASSUME Types, SessionInv, GateInv, [Next]_vars, ~durable', pc' \in Attached,
                    sess' = "up"
             PROVE  (recvd = anchor + appended /\ drained <= appended
                     /\ (~handle => appended = 0))'
  BY DEF GateInv
<1> USE DEF GateInv, SessionInv, Attached
<1>1. CASE UNCHANGED <<config, pc, anchor, session, backlog>>
  BY <1>1 DEF config, session, backlog
<1>2. CASE Attach
  <2>1. StartOffset(anchor) = anchor
    BY <1>2 DEF Attach, StartOffset, Types
  <2> QED
    BY <1>2, <2>1 DEF Attach, Established, Types
<1>3. CASE Mark \/ EmitEnd
  BY <1>3, Zenon DEF Mark, EmitEnd, config, session, backlog
<1>4. CASE Drain
  BY <1>4 DEF Drain, Pending, config, session, Types
<1>5. CASE Receive
  BY <1>5 DEF Receive, config, Types
<1>6. CASE Resume \/ Ending \/ Boot \/ Rescan \/ Bgsave \/ Anchor \/ Transferred \/ AttachHangs
           \/ OpenGate \/ Commit \/ AttachTail \/ Reconnect \/ ResumeGone
  BY <1>6, EndingExits, Zenon DEF Exit, Resume, Boot, Rescan, Bgsave, Anchor, Transferred,
        AttachHangs, OpenGate, Commit, AttachTail, Reconnect, ResumeGone, config
<1>7. CASE EmitEvent \/ MasterWrite \/ MasterPurge \/ DumpLost \/ Deliver \/ UNCHANGED vars
  BY <1>1, <1>7, Zenon DEF EmitEvent, MasterWrite, MasterPurge, DumpLost, Deliver, vars
<1>8. CASE SinkFails \/ EmitErr \/ ReceiveEnds \/ SinkNoticed \/ RunReturns
  <2>1. UNCHANGED <<config, pc, anchor, gateOpen, recvd, backlog>> /\ sess = "up"
    BY <1>8, Zenon DEF SinkFails, EmitErr, ReceiveEnds, SinkNoticed, RunReturns, session
  <2> QED
    BY <2>1 DEF config, backlog
<1> QED
  BY <1>2, <1>3, <1>4, <1>5, <1>6, <1>7, <1>8, Zenon DEF Next, App, Ending

-----------------------------------------------------------------------------
(* The phase of the checkpoint follows the program counter *)

PhaseInv ==
  /\ disk.phase = "done" => pc \in {"down", "inc", "live"}
  /\ st.phase = "done" => pc \in {"inc", "live"}
  /\ pc \in {"inc", "live"} =>
       st.phase = "done" /\ disk.phase = "done" /\ st.pos >= disk.pos

\* Outside of Boot, Rescan, Mark, EmitEvent, EmitEnd, Commit, Deliver and the end of
\* the process, a step leaves the checkpoint alone, in memory and on disk.
LEMMA CheckpointKept ==
  ASSUME \/ Bgsave \/ Anchor \/ Transferred \/ Attach \/ AttachHangs \/ Drain \/ OpenGate
         \/ AttachTail \/ Reconnect \/ ResumeGone \/ Resume \/ MasterWrite \/ MasterPurge
         \/ Receive \/ DumpLost \/ SinkFails \/ EmitErr \/ ReceiveEnds \/ SinkNoticed
         \/ RunReturns
  PROVE  st' = st /\ disk' = disk
BY Zenon DEF Bgsave, Anchor, Transferred, Attach, AttachHangs, Drain, OpenGate, AttachTail,
       Reconnect, ResumeGone, Resume, MasterWrite, MasterPurge, Receive, DumpLost, SinkFails,
       EmitErr, ReceiveEnds, SinkNoticed, RunReturns

LEMMA PhaseStep == Types /\ PhaseInv /\ [Next]_vars => PhaseInv'
<1> SUFFICES ASSUME Types, PhaseInv, [Next]_vars PROVE PhaseInv'
  OBVIOUS
<1> USE DEF PhaseInv
<1>0. st \in States /\ disk \in States /\ st.pos \in Nat /\ disk.pos \in Nat
  BY DEF Types, States
<1>1. CASE UNCHANGED vars
  BY <1>1 DEF vars
<1>2. CASE Boot
  BY <1>0, <1>2 DEF Boot
<1>3. CASE Rescan
  <2>1. st' = ResetForRescan(st) /\ disk' \in {disk, st'} /\ pc = "rescan"
        /\ pc' \in {"bgsave", "fetch"}
    BY <1>3 DEF Rescan, Flush, FlushFails
  <2> QED
    BY <1>0, <2>1, ResetFacts
<1>4. CASE Mark
  <2>1. st' = MarkState /\ disk' \in {disk, st'} /\ pc = "mark" /\ pc' = "emit"
    BY <1>4 DEF Mark, Flush, FlushFails
  <2> QED
    BY <2>1, MarkFacts
<1>5. CASE EmitEvent
  <2>1. /\ st' \in {st, SetResume(st, anchor, nextEv, FALSE)} /\ disk' \in {disk, st'}
        /\ pc = "emit" /\ pc' = pc
    BY <1>5, Zenon DEF EmitEvent, Flush, FlushFails
  <2>2. anchor \in Nat /\ nextEv \in Nat /\ FALSE \in BOOLEAN
    BY DEF Types
  <2>3. SetResume(st, anchor, nextEv, FALSE).phase = st.phase
    BY <1>0, <2>2, SetResumeFacts, Zenon
  <2> QED
    BY <2>1, <2>3, Zenon
<1>6. CASE EmitEnd
  <2>1. /\ st' = SetResume(st, anchor, 0, TRUE) /\ disk' \in {disk, st'}
        /\ pc = "emit" /\ pc' = "release"
    BY <1>6, Zenon DEF EmitEnd, Flush, FlushFails
  <2>2. anchor \in Nat /\ 0 \in Nat /\ TRUE \in BOOLEAN
    BY DEF Types
  <2>3. SetResume(st, anchor, 0, TRUE).phase = st.phase
    BY <1>0, <2>2, SetResumeFacts, Zenon
  <2> QED
    BY <2>1, <2>3, Zenon
<1>7. CASE Commit
  <2>1. st' = Complete(st) /\ disk' = st' /\ pc' = "live"
    BY <1>7 DEF Commit, Flush
  <2> QED
    BY <1>0, <2>1, ResetFacts
<1>8. CASE Deliver
  <2>1. st' = SetDelivered(st, Reported(Head(pipe))) /\ disk' \in {disk, st'} /\ pc' = pc
    BY <1>8 DEF Deliver
  <2>2. Reported(Head(pipe)) \in Nat
    BY <1>8, PipeTypes, ReportedType DEF Deliver
  <2>3. st'.phase = st.phase /\ st'.pos >= st.pos /\ st'.pos \in Nat
    BY <1>0, <2>1, <2>2, SetDeliveredFacts
  <2> QED
    BY <1>0, <2>1, <2>3
<1>9. CASE Ending
  BY <1>0, <1>9, EndingExits DEF Exit, EmptyState
<1>10. CASE \/ Bgsave \/ Anchor \/ Transferred \/ Attach \/ AttachHangs \/ Drain \/ OpenGate
            \/ MasterWrite \/ MasterPurge \/ Receive \/ DumpLost \/ Reconnect \/ SinkFails
            \/ EmitErr \/ ReceiveEnds \/ SinkNoticed \/ RunReturns
  <2>1. st' = st /\ disk' = disk
    BY <1>10, CheckpointKept, Zenon
  <2>2. /\ pc' = "inc" => pc \in {"inc", "live"}
        /\ pc' = "live" <=> (pc = "live" /\ ~Reconnect)
        /\ pc \in {"inc", "live"} => pc' \in {"inc", "live"}
        /\ pc = "down" => pc' = "down"
    BY <1>10 DEF Bgsave, Anchor, Transferred, Attach, AttachHangs, Drain, OpenGate,
                MasterWrite, MasterPurge, Receive, DumpLost, Reconnect, SinkFails, EmitErr,
                ReceiveEnds, SinkNoticed, RunReturns
  <2> QED
    BY <2>1, <2>2
<1>11. CASE AttachTail
  BY <1>11, CheckpointKept DEF AttachTail
<1>12. CASE ResumeGone \/ Resume
  BY <1>12, CheckpointKept DEF ResumeGone, Resume
<1> QED
  BY <1>1, <1>2, <1>3, <1>4, <1>5, <1>6, <1>7, <1>8, <1>9, <1>10, <1>11, <1>12, Zenon
     DEF Next, App, Ending

\* A step of a process whose checkpoint says done keeps it done and ahead.
LEMMA DoneStep ==
  ASSUME Types, SessionInv, PhaseInv, [Next]_vars, disk.phase = "done"
  PROVE  disk'.phase = "done" /\ disk'.pos >= disk.pos
<1>0. /\ st \in States /\ disk \in States /\ st.pos \in Nat /\ disk.pos \in Nat
      /\ pc \in {"down", "inc", "live"}
  BY DEF Types, States, PhaseInv
<1>1. CASE disk' = disk
  BY <1>0, <1>1
<1>2. CASE Deliver
  <2>1. st' = SetDelivered(st, Reported(Head(pipe))) /\ disk' \in {disk, st'}
    BY <1>2 DEF Deliver
  <2>2. Reported(Head(pipe)) \in Nat /\ pipe # <<>>
    BY <1>2, PipeTypes, ReportedType DEF Deliver
  <2>3. st'.phase = st.phase /\ st'.pos >= st.pos /\ st'.pos \in Nat
    BY <1>0, <2>1, <2>2, SetDeliveredFacts
  <2>4. pc # "down"
    BY <2>2 DEF SessionInv, After
  <2>5. st.phase = "done" /\ st.pos >= disk.pos
    BY <1>0, <2>4 DEF PhaseInv
  <2> QED
    BY <1>0, <2>1, <2>3, <2>5
<1>3. CASE Rescan \/ Mark \/ EmitEvent \/ EmitEnd \/ Commit
  BY <1>0, <1>3, Zenon DEF Rescan, Mark, EmitEvent, EmitEnd, Commit
<1>4. CASE Ending
  BY <1>1, <1>4, EndingExits
<1>5. CASE UNCHANGED vars
  BY <1>1, <1>5 DEF vars
<1>6. CASE Boot
  BY <1>1, <1>6 DEF Boot
<1> QED
  BY <1>1, <1>2, <1>3, <1>4, <1>5, <1>6, CheckpointKept, Zenon DEF Next, App, Ending

-----------------------------------------------------------------------------
\* A checkpoint within the log.  Its anchor is that of a dump the master still
\* had, and the backlog a crash leaves begins behind it.
Within(s) ==
  /\ s.pos <= tip /\ s.resume.anchor <= save /\ s.resume.cursor <= DumpN
  /\ durable /\ blTail # 0 => s.resume.anchor <= blTail
  /\ pc \in {"transfer", "attach"} \cup Attached => s.resume.anchor <= anchor

\* The counters of the log, of the dump and of the backlog.
CountInv ==
  /\ tip <= MaxTip /\ purged <= tip /\ save <= tip /\ anchor <= save /\ blTail <= tip
  /\ nextEv <= DumpN + 1
  /\ recvd <= tip /\ appended <= recvd /\ drained <= appended
  /\ pc \in Attached => anchor + appended <= recvd

\* The checkpoints, in memory and on disk, and the backlog they belong to.
MarkInv ==
  /\ pc = "resume" => st = disk
  /\ durable /\ pc \in {"bgsave", "fetch", "transfer", "attach"} => blTail = 0
  /\ durable /\ pc \in Attached /\ blTail # 0 => anchor <= blTail
  /\ Within(st) /\ Within(disk)

LogInv == CountInv /\ MarkInv

\* What is on its way to the sink is of the dump or of the log.
Placed(it) == IF it.kind = "snap" THEN it.pos \in injected ELSE it.pos <= tip

QueueInv ==
  /\ Len(pipe) <= PipeCap /\ \A i \in 1 .. Len(pipe) : Placed(pipe[i])
  /\ landed \subseteq injected /\ got \subseteq 1 .. tip

FlagInv ==
  /\ durable \in BOOLEAN /\ async \in BOOLEAN /\ force \in BOOLEAN /\ dump \in BOOLEAN
  /\ gateOpen \in BOOLEAN /\ loop \in BOOLEAN /\ handle \in BOOLEAN /\ stale \in BOOLEAN

Counters ==
  /\ tip \in Nat \ {0} /\ save \in Nat /\ purged \in Nat /\ anchor \in Nat /\ blTail \in Nat
  /\ nextEv \in Nat \ {0} /\ recvd \in Nat /\ appended \in Nat /\ drained \in Nat
  /\ DumpN \in Nat /\ MaxTip \in Nat

LEMMA CounterTypes == Types => Counters
BY BoundAssumption DEF Types, Counters

LEMMA ReportedBound ==
  ASSUME Types, LogInv, QueueInv, pipe # <<>>
  PROVE  /\ Head(pipe) \in Items /\ Placed(Head(pipe))
         /\ Reported(Head(pipe)) \in Nat /\ Reported(Head(pipe)) <= tip
<1>1. Head(pipe) \in Items /\ Head(pipe) = pipe[1] /\ 1 \in 1 .. Len(pipe)
  BY PipeTypes
<1>2. Placed(Head(pipe))
  BY <1>1 DEF QueueInv
<1>3. Head(pipe).pos \in Nat \ {0} /\ Head(pipe).kind \in {"snap", "inc"}
  BY <1>1 DEF Items
<1>4. Counters /\ anchor <= tip
  BY CounterTypes DEF Counters, LogInv, CountInv
<1> QED
  BY <1>1, <1>2, <1>3, <1>4 DEF Reported, Placed, Counters

LEMMA LogStep == Types /\ SessionInv /\ LogInv /\ QueueInv /\ [Next]_vars => LogInv'
<1> SUFFICES ASSUME Types, SessionInv, QueueInv, LogInv, CountInv, MarkInv, Counters, [Next]_vars
             PROVE  CountInv' /\ MarkInv'
  BY CounterTypes DEF LogInv
<1>s. /\ st \in States /\ st.pos \in Nat /\ st.resume.anchor \in Nat /\ st.resume.cursor \in Nat
      /\ disk \in States /\ disk.pos \in Nat /\ disk.resume.anchor \in Nat
      /\ disk.resume.cursor \in Nat
  BY DEF Types, States
<1>r. NoResume.anchor = 0 /\ NoResume.cursor = 0
  BY DEF NoResume
<1>1. CASE UNCHANGED vars \/ SinkFails \/ EmitErr \/ ReceiveEnds \/ SinkNoticed \/ RunReturns
           \/ DumpLost
  <2>1. UNCHANGED <<durable, tip, purged, save, pc, st, disk, anchor, nextEv, recvd, appended,
                    drained, blTail>>
    BY <1>1 DEF vars, SinkFails, EmitErr, ReceiveEnds, SinkNoticed, RunReturns, DumpLost,
                config, master, session, backlog
  <2>2. CountInv'
    BY <2>1, Zenon DEF CountInv
  <2>3. MarkInv'
    BY <2>1, Zenon DEF MarkInv, Within
  <2> QED
    BY <2>2, <2>3, Zenon
<1>2. CASE Boot
  <2>1. /\ UNCHANGED <<durable, tip, purged, save, disk, anchor, nextEv, recvd, appended,
                       drained, blTail>>
        /\ st' = disk /\ pc' \in {"inc", "resume", "rescan"}
    BY <1>2 DEF Boot, config, master, session, backlog
  <2>2. CountInv'
    BY <2>1, Zenon DEF CountInv, Attached
  <2>3. MarkInv'
    BY <2>1 DEF MarkInv, Within, Attached
  <2> QED
    BY <2>2, <2>3
<1>3. CASE Rescan
  <2>1. /\ UNCHANGED <<durable, tip, purged, save, anchor, nextEv, recvd, appended, drained>>
        /\ st' = ResetForRescan(st) /\ disk' \in {disk, st'} /\ pc' \in {"bgsave", "fetch"}
        /\ blTail' = IF durable THEN 0 ELSE blTail
    BY <1>3, Zenon DEF Rescan, Flush, FlushFails, config, master, session
  <2>2. st'.pos = 0 /\ st'.resume.anchor = 0 /\ st'.resume.cursor = 0
    BY <1>s, <1>r, <2>1, ResetFacts
  <2>3. CountInv'
    BY <2>1 DEF CountInv, Counters, Attached
  <2>4. MarkInv'
    BY <2>1, <2>2 DEF MarkInv, Within, Counters, Attached
  <2> QED
    BY <2>3, <2>4
<1>4. CASE Bgsave \/ Anchor \/ Transferred
  <2>1. UNCHANGED <<durable, tip, purged, st, disk, nextEv, recvd, appended, drained, blTail>>
    BY <1>4 DEF Bgsave, Anchor, Transferred, config, master, session, backlog
  <2>2. \/ UNCHANGED <<save, anchor>> /\ pc = "bgsave" /\ pc' \in {"bgsave", "fetch"}
        \/ save' = tip /\ anchor' = anchor /\ pc = "bgsave" /\ pc' \in {"bgsave", "fetch"}
        \/ save' \in {tip, save} /\ anchor' = save' /\ pc = "fetch" /\ pc' = "transfer"
        \/ UNCHANGED <<save, anchor>> /\ pc = "transfer" /\ pc' = "attach"
    BY <1>4 DEF Bgsave, Anchor, Transferred, master
  <2>3. CountInv'
    BY <2>1, <2>2 DEF CountInv, Counters, Attached
  <2>4. MarkInv'
    BY <1>s, <2>1, <2>2 DEF MarkInv, Within, CountInv, Counters, Attached
  <2> QED
    BY <2>3, <2>4
<1>5. CASE Attach
  <2>1. StartOffset(anchor) = anchor
    BY <1>5 DEF Counters, Attach, StartOffset, SessionInv
  <2>2. /\ UNCHANGED <<durable, tip, purged, save, st, disk, anchor, nextEv, blTail>>
        /\ pc = "attach" /\ pc' = "mark" /\ recvd' = anchor /\ appended' = 0 /\ drained' = 0
    BY <1>5, <2>1 DEF Attach, Established, config, master
  <2>3. CountInv'
    BY <2>2 DEF CountInv, Counters
  <2>4. MarkInv'
    BY <2>2 DEF MarkInv, Within, Attached
  <2> QED
    BY <2>3, <2>4
<1>6. CASE AttachHangs \/ Reconnect \/ ResumeGone
  <2>1. /\ UNCHANGED <<durable, tip, purged, save, st, disk, anchor, nextEv, recvd, appended,
                       drained, blTail>>
        /\ pc' \in {"hung", "inc", "rescan"}
    BY <1>6 DEF AttachHangs, Reconnect, ResumeGone, config, master, session, backlog
  <2>2. CountInv'
    BY <2>1, Zenon DEF CountInv, Attached
  <2>3. MarkInv'
    BY <2>1 DEF MarkInv, Within, Attached
  <2> QED
    BY <2>2, <2>3
<1>7. CASE Mark
  <2>1. /\ UNCHANGED <<durable, tip, purged, save, anchor, recvd, appended, drained, blTail>>
        /\ st' = MarkState /\ disk' \in {disk, st'} /\ pc = "mark" /\ pc' = "emit"
        /\ nextEv' = 1
    BY <1>7, Zenon DEF Mark, Flush, FlushFails, config, master, session, backlog
  <2>2. /\ st'.pos \in {st.pos, anchor}
        /\ \/ st'.resume = st.resume
           \/ st'.resume.anchor = anchor /\ st'.resume.cursor = 0
    BY <2>1, MarkFacts
  <2>3. CountInv'
    BY <2>1 DEF CountInv, Counters, Attached
  <2>4. MarkInv'
    BY <2>1, <2>2 DEF MarkInv, Within, CountInv, Counters, Attached
  <2> QED
    BY <2>3, <2>4
<1>8. CASE EmitEvent
  <2> DEFINE r == SetResume(st, anchor, nextEv, FALSE)
             c == [anchor |-> anchor, cursor |-> nextEv, done |-> FALSE]
  <2>1. FALSE \in BOOLEAN /\ nextEv \in Nat /\ st \in States /\ anchor \in Nat
    BY <1>s DEF Counters
  <2>2. r.pos = st.pos /\ r.resume \in {st.resume, c} /\ c.anchor = anchor /\ c.cursor = nextEv
    BY ONLY <2>1, SetResumeFacts, Zenon
  <2>3. st' = st \/ st' = r
    BY <1>8, Zenon DEF EmitEvent
  <2> HIDE DEF r, c
  <2>4. /\ st'.pos = st.pos
        /\ \/ st'.resume = st.resume
           \/ st'.resume.anchor = anchor /\ st'.resume.cursor = nextEv
    BY <2>2, <2>3
  <2>5. /\ UNCHANGED <<durable, tip, purged, save, pc, anchor, recvd, appended, drained, blTail>>
        /\ disk' \in {disk, st'} /\ pc = "emit" /\ nextEv <= DumpN /\ nextEv' = nextEv + 1
    BY <1>8, Zenon DEF EmitEvent, Flush, FlushFails, config, master, session, backlog
  <2>6. CountInv'
    BY <2>5 DEF CountInv, Counters, Attached
  <2>7. MarkInv'
    BY <2>4, <2>5 DEF MarkInv, Within, CountInv, Counters, Attached
  <2> QED
    BY <2>6, <2>7
<1>9. CASE EmitEnd
  <2> DEFINE r == SetResume(st, anchor, 0, TRUE)
             c == [anchor |-> anchor, cursor |-> 0, done |-> TRUE]
  <2>1. TRUE \in BOOLEAN /\ 0 \in Nat /\ st \in States /\ anchor \in Nat
    BY <1>s DEF Counters
  <2>2. r.pos = st.pos /\ r.resume \in {st.resume, c} /\ c.anchor = anchor /\ c.cursor = 0
    BY ONLY <2>1, SetResumeFacts, Zenon
  <2>3. st' = r
    BY <1>9, Zenon DEF EmitEnd
  <2> HIDE DEF r, c
  <2>4. /\ st'.pos = st.pos
        /\ \/ st'.resume = st.resume
           \/ st'.resume.anchor = anchor /\ st'.resume.cursor = 0
    BY <2>2, <2>3
  <2>5. /\ UNCHANGED <<durable, tip, purged, save, anchor, nextEv, recvd, appended, drained,
                       blTail>>
        /\ disk' \in {disk, st'} /\ pc = "emit" /\ pc' = "release"
    BY <1>9, Zenon DEF EmitEnd, Flush, FlushFails, config, master, session, backlog
  <2>6. CountInv'
    BY <2>5, Zenon DEF CountInv, Attached
  <2>7. MarkInv'
    BY <2>4, <2>5 DEF MarkInv, Within, CountInv, Counters, Attached
  <2> QED
    BY <2>6, <2>7
<1>10. CASE Drain
  <2>1. /\ UNCHANGED <<durable, tip, purged, save, pc, st, disk, anchor, nextEv, recvd, appended,
                       blTail>>
        /\ drained' = drained + 1 /\ drained < appended
    BY <1>10 DEF Counters, Drain, Pending, config, master, session
  <2>2. CountInv'
    BY <2>1 DEF CountInv, Counters
  <2>3. MarkInv'
    BY <2>1 DEF MarkInv, Within
  <2> QED
    BY <2>2, <2>3
<1>11. CASE OpenGate
  <2>1. /\ UNCHANGED <<durable, tip, purged, save, st, disk, anchor, nextEv, recvd, appended,
                       drained>>
        /\ pc' = "commit" /\ blTail' \in {0, blTail}
    BY <1>11 DEF OpenGate, config, master
  <2>2. CountInv'
    BY <2>1 DEF CountInv, Counters, Attached
  <2>3. MarkInv'
    BY <2>1 DEF MarkInv, Within, Attached
  <2> QED
    BY <2>2, <2>3
<1>12. CASE Commit
  <2>1. /\ UNCHANGED <<durable, tip, purged, save, anchor, nextEv, recvd, appended, drained,
                       blTail>>
        /\ st' = Complete(st) /\ disk' = st' /\ pc' = "live"
    BY <1>12, Zenon DEF Commit, Flush, config, master, session, backlog
  <2>2. st'.pos = st.pos /\ st'.resume.anchor = 0 /\ st'.resume.cursor = 0
    BY <1>s, <1>r, <2>1, ResetFacts
  <2>3. CountInv'
    BY <2>1, Zenon DEF CountInv, Attached
  <2>4. MarkInv'
    BY <2>1, <2>2 DEF MarkInv, Within, Counters, Attached
  <2> QED
    BY <2>3, <2>4
<1>13. CASE AttachTail
  <2>1. StartOffset(0) \in {st.pos, tip}
    BY DEF StartOffset
  <2>2. /\ UNCHANGED <<durable, tip, purged, save, st, disk, anchor, nextEv, blTail>>
        /\ pc' = "live" /\ recvd' = StartOffset(0) /\ appended' = 0 /\ drained' = 0
    BY <1>13 DEF AttachTail, Established, config, master
  <2>3. st.pos <= tip
    BY Zenon DEF MarkInv, Within
  <2>4. CountInv'
    BY <1>s, <2>1, <2>2, <2>3 DEF CountInv, Counters, Attached
  <2>5. MarkInv'
    BY <2>2, Zenon DEF MarkInv, Within, Attached
  <2> QED
    BY <2>4, <2>5
<1>14. CASE Resume
  <2>1. /\ UNCHANGED <<durable, tip, purged, save, st, disk, blTail>>
        /\ pc = "resume" /\ pc' \in {"release", "emit"} /\ anchor' = st.resume.anchor
        /\ nextEv' \in {1, st.resume.cursor}
        /\ recvd' = ResumeStart /\ appended' = 0 /\ drained' = 0
    BY <1>14, Zenon DEF Resume, Established, config, master
  <2>2. st = disk /\ durable
    BY <2>1, Zenon DEF SessionInv, MarkInv
  <2>3. /\ st.resume.anchor <= save /\ st.resume.cursor <= DumpN
        /\ blTail # 0 => st.resume.anchor <= blTail
    BY <2>2 DEF MarkInv, Within
  <2>4. ResumeStart \in Nat /\ ResumeStart >= st.resume.anchor /\ ResumeStart <= tip
    BY <1>s, <2>2, <2>3 DEF ResumeStart, CountInv, Counters
  <2>5. CountInv'
    BY <1>s, <2>1, <2>3, <2>4 DEF CountInv, Counters
  <2>6. MarkInv'
    BY <1>s, <2>1, <2>2, <2>3 DEF MarkInv, Within, Attached
  <2> QED
    BY <2>5, <2>6
<1>15. CASE MasterWrite
  <2>1. /\ UNCHANGED <<durable, purged, save, pc, st, disk, anchor, nextEv, recvd, appended,
                       drained, blTail>>
        /\ tip < MaxTip /\ tip' = tip + 1
    BY <1>15, Zenon DEF MasterWrite, config, session, backlog
  <2>2. CountInv'
    BY <2>1 DEF CountInv, Counters
  <2>3. MarkInv'
    BY <1>s, <2>1 DEF MarkInv, Within, Counters
  <2> QED
    BY <2>2, <2>3
<1>16. CASE MasterPurge
  <2>1. UNCHANGED <<durable, tip, save, pc, st, disk, anchor, nextEv, recvd, appended, drained,
                    blTail>>
    BY <1>16 DEF MasterPurge, config, session, backlog
  <2>2. purged' <= tip
    BY <1>16 DEF MasterPurge, CountInv, Counters
  <2>3. CountInv'
    BY <2>1, <2>2, Zenon DEF CountInv
  <2>4. MarkInv'
    BY <2>1 DEF MarkInv, Within
  <2> QED
    BY <2>3, <2>4
<1>17. CASE Receive
  <2>1. /\ UNCHANGED <<durable, tip, purged, save, pc, st, disk, anchor, nextEv, drained>>
        /\ recvd < tip /\ recvd' = recvd + 1
    BY <1>17 DEF Receive, config, master, backlog
  <2>2. \/ UNCHANGED <<appended, blTail>>
        \/ appended' = appended + 1 /\ blTail' = recvd + 1 /\ pc \in Attached
    BY <1>17 DEF Receive, backlog, SessionInv
  <2>3. CountInv'
    BY <2>1, <2>2 DEF CountInv, Counters
  <2>4. CASE UNCHANGED <<appended, blTail>>
    <3>1. MarkInv'
      BY <2>1, <2>4, Zenon DEF MarkInv, Within
    <3> QED
      BY <2>3, <3>1
  <2>5. CASE appended' = appended + 1 /\ blTail' = recvd + 1 /\ pc \in Attached
    <3>1. anchor <= recvd + 1 /\ st.resume.anchor <= anchor /\ disk.resume.anchor <= anchor
      BY <2>5 DEF MarkInv, Within, CountInv, Counters
    <3>2. MarkInv'
      BY <1>s, <2>1, <2>5, <3>1 DEF MarkInv, Within, Counters, Attached
    <3> QED
      BY <2>3, <3>2
  <2> QED
    BY <2>2, <2>4, <2>5
<1>18. CASE Deliver
  <2>1. /\ UNCHANGED <<durable, tip, purged, save, pc, anchor, nextEv, recvd, appended, drained,
                       blTail>>
        /\ st' = SetDelivered(st, Reported(Head(pipe))) /\ disk' \in {disk, st'}
        /\ pipe # <<>>
    BY <1>18 DEF Deliver, config, master, session, backlog
  <2>2. Reported(Head(pipe)) \in Nat /\ Reported(Head(pipe)) <= tip
    BY <2>1, ReportedBound, Zenon
  <2>3. st'.pos \in {st.pos, Reported(Head(pipe))} /\ st'.resume = st.resume
    BY <1>s, <2>1, <2>2, SetDeliveredFacts
  <2>4. pc # "resume"
    BY <2>1 DEF SessionInv, After
  <2>5. CountInv'
    BY <2>1, Zenon DEF CountInv
  <2>6. st'.pos <= tip
    BY <2>2, <2>3, Zenon DEF MarkInv, Within
  <2>7. MarkInv'
    BY <2>1, <2>3, <2>4, <2>6 DEF MarkInv, Within
  <2> QED
    BY <2>5, <2>7
<1>19. CASE Ending
  <2>1. /\ UNCHANGED <<durable, tip, purged, save, disk, anchor, nextEv, blTail>>
        /\ pc' = "down" /\ st' = EmptyState /\ recvd' = 0 /\ appended' = 0 /\ drained' = 0
    BY <1>19, EndingExits DEF Exit, config, master
  <2>2. st'.pos = 0 /\ st'.resume.anchor = 0 /\ st'.resume.cursor = 0
    BY <1>r, <2>1 DEF EmptyState
  <2>3. CountInv'
    BY <2>1 DEF CountInv, Counters, Attached
  <2>4. MarkInv'
    BY <2>1, <2>2 DEF MarkInv, Within, Counters, Attached
  <2> QED
    BY <2>3, <2>4
<1> QED
  BY <1>1, <1>2, <1>3, <1>4, <1>5, <1>6, <1>7, <1>8, <1>9, <1>10, <1>11, <1>12, <1>13, <1>14,
     <1>15, <1>16, <1>17, <1>18, <1>19, Zenon DEF Next, App, Ending

\* An event of the dump or of the log joins the queue.
LEMMA PushPlaced ==
  ASSUME Types, QueueInv, NEW k \in {"snap", "inc"}, NEW p \in Nat \ {0}, Room, Push(k, p),
         tip' = tip, injected \subseteq injected',
         IF k = "snap" THEN p \in injected' ELSE p <= tip
  PROVE  Len(pipe') <= PipeCap /\ \A i \in 1 .. Len(pipe') : Placed(pipe[i])'
<1> DEFINE it == [kind |-> k, pos |-> p]
<1>1. pipe \in Seq(Items) /\ it \in Items /\ Len(pipe) \in Nat /\ PipeCap \in Nat
  BY BoundAssumption DEF Types, Items
<1>2. it.kind = k /\ it.pos = p
  OBVIOUS
<1>3. pipe' = Append(pipe, it) /\ Len(pipe) < PipeCap
  BY DEF Push, Room
<1> HIDE DEF it
<1>4. /\ Len(pipe') = Len(pipe) + 1 /\ pipe'[Len(pipe) + 1] = it
      /\ \A i \in 1 .. Len(pipe) : pipe'[i] = pipe[i]
  BY <1>1, <1>3
<1>5. ASSUME NEW i \in 1 .. Len(pipe') PROVE Placed(pipe[i])'
  <2>1. CASE i = Len(pipe) + 1
    BY <1>2, <1>4, <2>1 DEF Placed
  <2>2. CASE i \in 1 .. Len(pipe)
    <3>1. pipe'[i] = pipe[i] /\ Placed(pipe[i])
      BY <1>4, <2>2 DEF QueueInv
    <3> QED
      BY <3>1 DEF Placed
  <2> QED
    BY <1>1, <1>4, <2>1, <2>2
<1> QED
  BY <1>1, <1>3, <1>4, <1>5

LEMMA QueueStep ==
  Types /\ SessionInv /\ LogInv /\ QueueInv /\ [Next]_vars => QueueInv'
<1> SUFFICES ASSUME Types, SessionInv, LogInv, QueueInv, [Next]_vars PROVE QueueInv'
  OBVIOUS
<1>0. Counters /\ pipe \in Seq(Items) /\ Len(pipe) \in Nat /\ PipeCap \in Nat
  BY CounterTypes, BoundAssumption DEF Types
<1>1. CASE UNCHANGED <<tip, pipe, injected, landed, got>>
  BY <1>1 DEF QueueInv, Placed
<1>2. CASE MasterWrite
  <2>1. UNCHANGED <<pipe, injected, landed, got>> /\ tip' = tip + 1
    BY <1>2 DEF MasterWrite, history
  <2>2. \A i \in 1 .. Len(pipe) : pipe[i].pos \in Nat
    BY <1>0, PipeTypes DEF Items
  <2>3. \A i \in 1 .. Len(pipe) : Placed(pipe[i])'
    BY <1>0, <2>1, <2>2 DEF QueueInv, Placed, Counters
  <2>4. got' \subseteq 1 .. tip'
    BY <1>0, <2>1 DEF QueueInv, Counters
  <2> QED
    BY <2>1, <2>3, <2>4 DEF QueueInv
<1>3. CASE Rescan \/ Ending
  <2>1. pipe' = <<>> /\ tip' = tip /\ got' = got
    BY <1>3, EndingExits DEF Rescan, Exit, SessionInv, After, master, history
  <2>2. landed' \subseteq injected'
    BY <1>3, EndingExits DEF Rescan, Exit, history, QueueInv
  <2> QED
    BY <1>0, <2>1, <2>2 DEF QueueInv
<1>4. CASE EmitEvent
  <2>1. /\ UNCHANGED <<tip, landed, got>> /\ injected' = injected \cup {nextEv}
        /\ Room /\ Push("snap", nextEv)
    BY <1>4 DEF EmitEvent, master
  <2>2. Len(pipe') <= PipeCap /\ \A i \in 1 .. Len(pipe') : Placed(pipe[i])'
    BY <1>0, <2>1, PushPlaced DEF Counters
  <2> QED
    BY <2>1, <2>2 DEF QueueInv
<1>5. CASE Drain
  <2>1. /\ UNCHANGED <<tip, injected, landed, got>> /\ pc = "release" /\ Pending > 0
        /\ Room /\ Push("inc", anchor + drained + 1)
    BY <1>5 DEF Drain, master, history
  <2>2. anchor + drained + 1 \in Nat \ {0} /\ anchor + drained + 1 <= tip
    BY <1>0, <2>1 DEF Counters, Pending, LogInv, CountInv, Attached
  <2>3. Len(pipe') <= PipeCap /\ \A i \in 1 .. Len(pipe') : Placed(pipe[i])'
    BY <2>1, <2>2, PushPlaced
  <2> QED
    BY <2>1, <2>3 DEF QueueInv
<1>6. CASE Receive
  <2>1. UNCHANGED <<tip, injected, landed, got>> /\ recvd < tip
    BY <1>6 DEF Receive, master, history
  <2>2. CASE gateOpen
    <3>1. Room /\ Push("inc", recvd + 1)
      BY <1>6, <2>2 DEF Receive
    <3>2. recvd + 1 \in Nat \ {0} /\ recvd + 1 <= tip
      BY <1>0, <2>1 DEF Counters
    <3>3. Len(pipe') <= PipeCap /\ \A i \in 1 .. Len(pipe') : Placed(pipe[i])'
      BY <2>1, <3>1, <3>2, PushPlaced
    <3> QED
      BY <2>1, <3>3 DEF QueueInv
  <2>3. CASE ~gateOpen
    BY <1>1, <1>6, <2>1, <2>3 DEF Receive
  <2> QED
    BY <2>2, <2>3
<1>7. CASE Deliver
  <2>1. UNCHANGED <<tip, injected>> /\ pipe # <<>> /\ pipe' = Tail(pipe)
    BY <1>7 DEF Deliver, master
  <2>2. /\ Len(pipe') = Len(pipe) - 1
        /\ \A i \in 1 .. Len(pipe') : pipe'[i] = pipe[i + 1] /\ i + 1 \in 1 .. Len(pipe)
    BY <1>0, <2>1
  <2>3. \A i \in 1 .. Len(pipe') : Placed(pipe[i])'
    BY <2>1, <2>2 DEF QueueInv, Placed
  <2>4. Head(pipe) \in Items /\ Placed(Head(pipe))
    BY <2>1, ReportedBound
  <2>5. landed' \subseteq injected' /\ got' \subseteq 1 .. tip'
    <3>1. CASE Head(pipe).kind = "inc"
      <4>1. got' = got \cup {Head(pipe).pos} /\ landed' = landed
        BY <1>7, <3>1 DEF Deliver
      <4>2. Head(pipe).pos \in 1 .. tip
        BY <1>0, <2>4, <3>1 DEF Placed, Items, Counters
      <4> QED
        BY <2>1, <4>1, <4>2, Zenon DEF QueueInv
    <3>2. CASE Head(pipe).kind # "inc"
      <4>1. landed' = landed \cup {Head(pipe).pos} /\ got' = got
        BY <1>7, <3>2 DEF Deliver
      <4>2. Head(pipe).pos \in injected
        BY <2>4, <3>2 DEF Placed, Items
      <4> QED
        BY <2>1, <4>1, <4>2, Zenon DEF QueueInv
    <3> QED
      BY <3>1, <3>2
  <2> QED
    BY <1>0, <2>2, <2>3, <2>5 DEF QueueInv
<1>8. CASE Attach \/ AttachTail \/ Resume
  <2>1. /\ UNCHANGED <<tip, injected, landed, got>>
        /\ pipe' = IF left >= 0 THEN SubSeq(pipe, 1, left) ELSE pipe
    BY <1>8 DEF Attach, AttachTail, Resume, Established, master, history
  <2>2. CASE left >= 0
    <3>1. left \in 0 .. Len(pipe) /\ pipe' = SubSeq(pipe, 1, left)
      BY <2>1, <2>2 DEF Types
    <3>2. Len(pipe') = left /\ \A i \in 1 .. left : pipe'[i] = pipe[i] /\ i \in 1 .. Len(pipe)
      BY <1>0, <3>1, CutFacts
    <3>3. \A i \in 1 .. Len(pipe') : Placed(pipe[i])'
      BY <2>1, <3>2, Zenon DEF QueueInv, Placed
    <3> QED
      BY <1>0, <2>1, <3>1, <3>2, <3>3 DEF QueueInv
  <2>3. CASE ~(left >= 0)
    BY <1>1, <2>1, <2>3
  <2> QED
    BY <2>2, <2>3, Zenon
<1>9. CASE UNCHANGED vars \/ Boot \/ Bgsave \/ Anchor \/ Transferred \/ AttachHangs
  BY <1>1, <1>9, Zenon DEF vars, Boot, Bgsave, Anchor, Transferred, AttachHangs, master, history
<1>10. CASE Mark \/ EmitEnd \/ OpenGate \/ Commit \/ Reconnect \/ ResumeGone \/ MasterPurge
  BY <1>1, <1>10, Zenon DEF Mark, EmitEnd, OpenGate, Commit, Reconnect, ResumeGone, MasterPurge,
                            master, history
<1>11. CASE SinkFails \/ EmitErr \/ ReceiveEnds \/ SinkNoticed \/ RunReturns \/ DumpLost
  BY <1>1, <1>11, Zenon DEF SinkFails, EmitErr, ReceiveEnds, SinkNoticed, RunReturns, DumpLost,
                            master, history
<1> QED
  BY <1>2, <1>3, <1>4, <1>5, <1>6, <1>7, <1>8, <1>9, <1>10, <1>11, Zenon DEF Next, App, Ending

-----------------------------------------------------------------------------
\* A fault is counted, and happens only while there may be another.
LEMMA FaultStep == faults \in 0 .. MaxFaults /\ [Next]_vars => faults' \in 0 .. MaxFaults
<1> SUFFICES ASSUME faults \in 0 .. MaxFaults, [Next]_vars PROVE faults' \in 0 .. MaxFaults
  OBVIOUS
<1>1. ASSUME NEW k, Fault(k) PROVE faults' \in 0 .. MaxFaults
  BY <1>1, BoundAssumption DEF Fault, MayFault
<1>2. CASE faults' = faults
  BY <1>2
<1>3. CASE Rescan \/ Mark \/ EmitEvent \/ EmitEnd \/ Commit \/ CommitFails
  <2>1. faults' = faults \/ Fault("flush")
    BY <1>3, Zenon DEF Rescan, Mark, EmitEvent, EmitEnd, Commit, CommitFails, Flush, FlushFails
  <2> QED
    BY <1>1, <1>2, <2>1
<1>4. CASE AttachHangs \/ TailRefused \/ ResumeRefused
  <2>1. faults' = faults \/ Fault("connect")
    BY <1>4, Zenon DEF AttachHangs, TailRefused, ResumeRefused, Refused
  <2> QED
    BY <1>1, <1>2, <2>1
<1>5. CASE Crash \/ DumpLost \/ FetchFails \/ SinkFails \/ ReceiveEnds
  <2>1. \E k \in {"crash", "dump", "fetch", "sink", "session", "stall"} : Fault(k)
    BY <1>5, Zenon DEF Crash, DumpLost, FetchFails, SinkFails, ReceiveEnds
  <2> QED
    BY <1>1, <2>1
<1>6. CASE UNCHANGED vars \/ Boot \/ Bgsave \/ Anchor \/ Transferred \/ Attach \/ Drain \/ OpenGate
           \/ EmitStopped \/ AttachTail \/ Reconnect \/ SessionFailed \/ ResumeGone \/ Resume
  BY <1>2, <1>6, Zenon DEF vars, Boot, Bgsave, Anchor, Transferred, Attach, Drain, OpenGate,
        EmitStopped, AttachTail, Reconnect, SessionFailed, ResumeGone, Resume
<1>7. CASE MasterWrite \/ MasterPurge \/ Receive \/ Deliver \/ EmitErr \/ SinkNoticed \/ RunReturns
  BY <1>2, <1>7, Zenon DEF MasterWrite, MasterPurge, Receive, Deliver, EmitErr, SinkNoticed,
        RunReturns
<1> QED
  BY <1>3, <1>4, <1>5, <1>6, <1>7, Zenon DEF Next, App

LEMMA FlagStep == FlagInv /\ [Next]_vars => FlagInv'
<1> SUFFICES ASSUME FlagInv, [Next]_vars PROVE FlagInv'
  OBVIOUS
<1> DEFINE Kept == UNCHANGED <<durable, async, force, dump, gateOpen, loop, handle, stale>>
<1>1. CASE Kept
  BY <1>1, Zenon DEF FlagInv
<1> USE DEF config, session, emitter, backlog, history
<1>2. CASE UNCHANGED vars
  BY <1>1, <1>2, Zenon DEF vars
<1>3. CASE Boot \/ Bgsave \/ Transferred \/ AttachHangs
  <2>1. Kept
    BY <1>3, Zenon DEF Boot, Bgsave, Transferred, AttachHangs
  <2> QED
    BY <1>1, <2>1
<1>4. CASE Mark \/ EmitEvent \/ EmitEnd
  <2>1. Kept
    BY <1>4, Zenon DEF Mark, EmitEvent, EmitEnd
  <2> QED
    BY <1>1, <2>1
<1>5. CASE Drain \/ Commit \/ Reconnect \/ ResumeGone
  <2>1. Kept
    BY <1>5, Zenon DEF Drain, Commit, Reconnect, ResumeGone
  <2> QED
    BY <1>1, <2>1
<1>6. CASE MasterWrite \/ MasterPurge \/ Deliver
  <2>1. Kept
    BY <1>6, Zenon DEF MasterWrite, MasterPurge, Deliver
  <2> QED
    BY <1>1, <2>1
<1>7. CASE ReceiveEnds \/ SinkNoticed \/ RunReturns
  <2>1. Kept
    BY <1>7, Zenon DEF ReceiveEnds, SinkNoticed, RunReturns
  <2> QED
    BY <1>1, <2>1
<1>8. CASE Anchor \/ OpenGate \/ EmitErr \/ DumpLost
  BY <1>8, Zenon DEF FlagInv, Anchor, OpenGate, EmitErr, DumpLost
<1>9. CASE Receive
  BY <1>9, Zenon DEF FlagInv, Receive
<1>10. CASE Rescan
  <2>1. UNCHANGED <<config, dump, session, emitter, handle>>
    BY <1>10, Zenon DEF Rescan
  <2>2. stale' = FALSE \/ stale' = (stale \/ disk.resume # NoResume)
    BY <1>10, Zenon DEF Rescan
  <2> QED
    BY <2>1, <2>2, Zenon DEF FlagInv
<1>11. CASE Attach \/ AttachTail \/ Resume
  <2>1. UNCHANGED <<durable, async, force, dump, stale>> /\ loop' = TRUE /\ handle' \in BOOLEAN
        /\ gateOpen' \in BOOLEAN
    BY <1>11, Zenon DEF FlagInv, Attach, AttachTail, Resume, Established
  <2> QED
    BY <2>1, Zenon DEF FlagInv
<1>12. CASE SinkFails
  <2>1. UNCHANGED <<config, dump, session, backlog, history>> /\ loop' = async
    BY <1>12, Zenon DEF SinkFails
  <2> QED
    BY <2>1, Zenon DEF FlagInv
<1>13. CASE Ending
  <2>1. Exit /\ dump' = dump
    BY <1>13, Zenon DEF Ending, EmitStopped, TailRefused, SessionFailed, ResumeRefused, Crash,
                        FetchFails, CommitFails
  <2> QED
    BY <2>1, Zenon DEF FlagInv, Exit
<1> QED
  BY <1>2, <1>3, <1>4, <1>5, <1>6, <1>7, <1>8, <1>9, <1>10, <1>11, <1>12, <1>13, Zenon
     DEF Next, App, Ending

-----------------------------------------------------------------------------
(* What a scan, interrupted or not, has injected *)

\* Resuming from the coordinates of s skips no event of the dump.
Resumable(s) ==
  1 .. s.resume.cursor \subseteq injected /\ (s.resume.done => injected = 1 .. DumpN)

DumpInv ==
  /\ injected \subseteq 1 .. DumpN
  /\ ~stale =>
       /\ Resumable(st) /\ Resumable(disk)
       /\ pc = "emit" => 1 .. (nextEv - 1) \subseteq injected
       /\ pc \in {"release", "commit", "live", "inc"} => injected = 1 .. DumpN
       /\ disk.phase = "done" => injected = 1 .. DumpN

LEMMA DumpStep == Types /\ SessionInv /\ PhaseInv /\ DumpInv /\ [Next]_vars => DumpInv'
<1> SUFFICES ASSUME Types, SessionInv, PhaseInv, DumpInv, [Next]_vars PROVE DumpInv'
  OBVIOUS
<1>0. st \in States /\ disk \in States /\ anchor \in Nat /\ nextEv \in Nat \ {0}
  BY DEF Types
<1>b. DumpN \in Nat
  BY BoundAssumption
<1>1. ASSUME UNCHANGED <<injected, stale, st, disk, nextEv>>,
             pc' = "emit" => pc = "emit",
             pc' \in {"release", "commit", "live", "inc"} =>
               pc \in {"release", "commit", "live", "inc"}
      PROVE  DumpInv'
  BY <1>1 DEF DumpInv, Resumable
<1>2. CASE \/ Bgsave \/ Anchor \/ Transferred \/ Attach \/ AttachHangs \/ Drain \/ OpenGate
           \/ AttachTail \/ Reconnect \/ ResumeGone \/ MasterWrite \/ MasterPurge \/ Receive
           \/ DumpLost \/ SinkFails \/ EmitErr \/ ReceiveEnds \/ SinkNoticed \/ RunReturns
           \/ UNCHANGED vars
  <2>1. UNCHANGED <<injected, stale, st, disk, nextEv>>
    BY <1>2, Zenon DEF Bgsave, Anchor, Transferred, Attach, AttachHangs, Drain, OpenGate,
                AttachTail, Reconnect, ResumeGone, MasterWrite, MasterPurge, Receive, DumpLost,
                SinkFails, EmitErr, ReceiveEnds, SinkNoticed, RunReturns, vars, history
  <2>2. /\ pc' = "emit" => pc = "emit"
        /\ pc' \in {"release", "commit", "live", "inc"} =>
             pc \in {"release", "commit", "live", "inc"}
    BY <1>2, Zenon DEF Bgsave, Anchor, Transferred, Attach, AttachHangs, Drain, OpenGate,
                AttachTail, Reconnect, ResumeGone, MasterWrite, MasterPurge, Receive, DumpLost,
                SinkFails, EmitErr, ReceiveEnds, SinkNoticed, RunReturns, vars
  <2> QED
    BY <1>1, <2>1, <2>2
<1>3. CASE Boot
  <2>1. /\ UNCHANGED <<injected, stale, disk, nextEv>> /\ st' = disk
        /\ pc' \in {"inc", "resume", "rescan"} /\ (pc' = "inc" => disk.phase = "done")
    BY <1>3 DEF Boot, history
  <2> QED
    BY <2>1 DEF DumpInv, Resumable
<1>4. CASE Rescan
  <2>1. /\ injected' = {} /\ st' = ResetForRescan(st) /\ pc = "rescan"
        /\ pc' \in {"bgsave", "fetch"}
        /\ disk' = st' \/ (disk' = disk /\ (~stale' => disk.resume = NoResume))
    BY <1>4, Zenon DEF Rescan, Flush, FlushFails
  <2>2. disk.phase # "done" /\ st'.resume = NoResume /\ st'.phase = "running"
    BY <1>0, <2>1, ResetFacts DEF PhaseInv
  <2>3. Resumable(st)' /\ (~stale' => Resumable(disk)')
    BY <2>1, <2>2 DEF NoResume, Resumable
  <2> QED
    BY <2>1, <2>2, <2>3 DEF DumpInv
<1>5. CASE Mark
  <2>1. /\ UNCHANGED <<injected, stale>> /\ st' = MarkState /\ disk' \in {disk, st'}
        /\ pc = "mark" /\ pc' = "emit" /\ nextEv' = 1
    BY <1>5 DEF Mark, Flush, FlushFails, history
  <2>2. /\ st'.resume \in {st.resume, [anchor |-> anchor, cursor |-> 0, done |-> FALSE]}
        /\ st'.phase = st.phase /\ st.phase # "done"
    BY <2>1, MarkFacts, Zenon DEF PhaseInv
  <2>3. ~stale => Resumable(st)'
    BY <2>1, <2>2 DEF DumpInv, Resumable
  <2>4. ~stale => Resumable(disk)'
    BY <2>1, <2>3, Zenon DEF DumpInv, Resumable
  <2> QED
    BY <2>1, <2>2, <2>3, <2>4 DEF DumpInv
<1>6. CASE EmitEvent
  <2>1. /\ injected' = injected \cup {nextEv} /\ stale' = stale /\ nextEv' = nextEv + 1
        /\ pc = "emit" /\ pc' = pc /\ nextEv <= DumpN
        /\ st' \in {st, SetResume(st, anchor, nextEv, FALSE)} /\ disk' \in {disk, st'}
    BY <1>6, Zenon DEF EmitEvent, Flush, FlushFails
  <2>2. nextEv \in Nat /\ FALSE \in BOOLEAN
    BY <1>0, Zenon
  <2>3. /\ st'.resume \in {st.resume, [anchor |-> anchor, cursor |-> nextEv, done |-> FALSE]}
        /\ st'.phase = st.phase /\ st.phase # "done" /\ disk.phase # "done"
    <3> DEFINE r == SetResume(st, anchor, nextEv, FALSE)
    <3>1. /\ r.phase = st.phase
          /\ r.resume \in {st.resume, [anchor |-> anchor, cursor |-> nextEv, done |-> FALSE]}
      BY <1>0, <2>2, SetResumeFacts, Zenon
    <3>2. st' \in {st, r}
      BY <2>1, Zenon
    <3> HIDE DEF r
    <3> QED
      BY <2>1, <3>1, <3>2, ZenonT(60) DEF PhaseInv
  <2>4. injected' \subseteq 1 .. DumpN
    BY <1>0, <1>b, <2>1 DEF DumpInv
  <2>5. ~stale => 1 .. nextEv \subseteq injected' /\ 1 .. (nextEv' - 1) \subseteq injected'
    BY <1>0, <2>1 DEF DumpInv
  <2>6. \A s : ~stale /\ Resumable(s) =>
               /\ 1 .. s.resume.cursor \subseteq injected'
               /\ s.resume.done => injected' = 1 .. DumpN
    BY <2>1, <2>4, Zenon DEF Resumable
  <2>7. ~stale => Resumable(st)'
    BY <2>3, <2>5, <2>6 DEF DumpInv, Resumable
  <2>8. ~stale => Resumable(disk)'
    BY <2>1, <2>6, <2>7 DEF DumpInv, Resumable
  <2> QED
    BY <2>1, <2>3, <2>4, <2>5, <2>7, <2>8 DEF DumpInv
<1>7. CASE EmitEnd
  <2>1. /\ UNCHANGED <<injected, stale>> /\ st' = SetResume(st, anchor, 0, TRUE)
        /\ disk' \in {disk, st'} /\ pc = "emit" /\ pc' = "release" /\ nextEv > DumpN
    BY <1>7, Zenon DEF EmitEnd, Flush, FlushFails, history
  <2>2. 0 \in Nat /\ TRUE \in BOOLEAN
    OBVIOUS
  <2>3. /\ st'.resume \in {st.resume, [anchor |-> anchor, cursor |-> 0, done |-> TRUE]}
    BY <1>0, <2>1, <2>2, SetResumeFacts, Zenon
  <2>4. ~stale => injected = 1 .. DumpN
    <3>1. 1 .. DumpN \subseteq 1 .. (nextEv - 1)
      BY <1>0, <1>b, <2>1
    <3> QED
      BY <2>1, <3>1, Zenon DEF DumpInv
  <2>5. ~stale => Resumable(st)'
    <3>1. CASE st'.resume = st.resume
      BY <2>1, <3>1, Zenon DEF DumpInv, Resumable
    <3>2. CASE st'.resume = [anchor |-> anchor, cursor |-> 0, done |-> TRUE]
      <4>1. 1 .. st'.resume.cursor = {}
        BY <3>2
      <4>2. ~stale => injected' = 1 .. DumpN
        BY <2>1, <2>4
      <4> QED
        BY <4>1, <4>2, Zenon DEF Resumable
    <3> QED
      BY <2>3, <3>1, <3>2, Zenon
  <2>6. ~stale => Resumable(disk)'
    BY <2>1, <2>5, Zenon DEF DumpInv, Resumable
  <2> QED
    BY <2>1, <2>4, <2>5, <2>6, Zenon DEF DumpInv
<1>8. CASE Commit
  <2>1. /\ UNCHANGED <<injected, stale>> /\ st' = Complete(st) /\ disk' = st'
        /\ pc = "commit" /\ pc' = "live"
    BY <1>8, Zenon DEF Commit, Flush, history
  <2>2. st'.resume = NoResume /\ Resumable(st)' /\ Resumable(disk)'
    BY <1>0, <2>1, ResetFacts DEF NoResume, Resumable
  <2> QED
    BY <2>1, <2>2 DEF DumpInv
<1>9. CASE Deliver
  <2>1. /\ UNCHANGED <<injected, stale, pc, nextEv>> /\ disk' \in {disk, st'}
        /\ st' = SetDelivered(st, Reported(Head(pipe))) /\ Reported(Head(pipe)) \in Nat
    BY <1>9, PipeTypes, ReportedType DEF Deliver
  <2>2. st'.resume = st.resume /\ st'.phase = st.phase
    BY <1>0, <2>1, SetDeliveredFacts
  <2>3. ~stale => Resumable(st)' /\ Resumable(disk)'
    BY <2>1, <2>2 DEF DumpInv, Resumable
  <2> QED
    BY <2>1, <2>2, <2>3 DEF DumpInv, PhaseInv
<1>10. CASE Ending
  <2>1. /\ UNCHANGED <<injected, stale, disk>> /\ st' = EmptyState /\ pc' = "down"
    BY <1>10, EndingExits DEF Exit, history
  <2>2. Resumable(st)'
    BY <2>1 DEF EmptyState, NoResume, Resumable
  <2> QED
    BY <2>1, <2>2 DEF DumpInv, Resumable
<1>11. CASE Resume
  <2>1. /\ UNCHANGED <<injected, stale, st, disk>>
        /\ nextEv' = IF st.resume.cursor = 0 THEN 1 ELSE st.resume.cursor
        /\ pc' = IF st.resume.done THEN "release" ELSE "emit"
    BY <1>11 DEF Resume, history
  <2>2. st.resume.cursor \in Nat
    BY <1>0 DEF States
  <2>3. 1 .. (nextEv' - 1) \subseteq 1 .. st.resume.cursor
    BY <2>1, <2>2
  <2> QED
    BY <2>1, <2>3 DEF DumpInv, Resumable
<1> QED
  BY <1>2, <1>3, <1>4, <1>5, <1>6, <1>7, <1>8, <1>9, <1>10, <1>11, Zenon
     DEF Next, App, Ending

-----------------------------------------------------------------------------
BaseInv == Types /\ SessionInv /\ GateInv /\ PhaseInv /\ DumpInv

LEMMA BaseInit == Init => BaseInv
<1> SUFFICES ASSUME Init PROVE BaseInv
  OBVIOUS
<1> USE DEF Init
<1>1. EmptyState \in States /\ <<>> \in Seq(Items)
  BY StoreTypes
<1>2. Types
  BY <1>1 DEF Types
<1>3. SessionInv /\ GateInv
  BY DEF SessionInv, GateInv, After, Attached
<1>4. PhaseInv
  BY Zenon DEF PhaseInv, EmptyState
<1>5. DumpInv
  BY DEF DumpInv, Resumable, EmptyState, NoResume
<1> QED
  BY <1>2, <1>3, <1>4, <1>5 DEF BaseInv

LEMMA BaseStep == BaseInv /\ [Next]_vars => BaseInv'
BY TypesStep, SessionStep, GateStep, PhaseStep, DumpStep, Zenon DEF BaseInv

LEMMA BaseAlways == Spec => []BaseInv
BY BaseInit, BaseStep, PTL DEF Spec

\* PhaseDone is final: no crash, failed Flush, re-scan, resumption or late report of
\* the sink makes the checkpoint file ask for another snapshot, or moves the
\* position in it backwards.
THEOREM SnapshotOnce == Spec => DoneForGood
<1>1. BaseInv /\ [Next]_vars =>
        [disk.phase = "done" => disk'.phase = "done" /\ disk'.pos >= disk.pos]_vars
  BY DoneStep DEF BaseInv
<1> QED
  BY <1>1, BaseAlways, PTL DEF Spec, DoneForGood

\* A snapshot is committed only when every event of its dump has been injected since
\* the scan began, in one process or, resumed from persisted cursors, in several;
\* for every dump, cursor interval and number of faults.
THEOREM DumpComplete == Spec => []DumpInjected
<1>1. BaseInv => DumpInjected
  BY DEF BaseInv, DumpInv, DumpInjected
<1> QED
  BY <1>1, BaseAlways, PTL

-----------------------------------------------------------------------------
(* What the checkpoint covers.  pipe holds the entries in an order in which  *)
(* each one comes after all entries between the anchor and itself that are   *)
(* not delivered yet.  So whatever the sink reports, all that lies before it *)
(* has been delivered, and a session that is lost leaves a checkpoint the    *)
(* next one can start from.                                                  *)

InPipe(q, n) == \E j \in 1 .. n : pipe[j].kind = "inc" /\ pipe[j].pos = q

\* Delivered, or on its way.
Covered(q) == q \in got \/ InPipe(q, Len(pipe))

PipeOrdered ==
  \A i \in 1 .. Len(pipe) : pipe[i].kind = "inc" =>
    \A q \in (anchor + 1) .. (pipe[i].pos - 1) : q \in got \/ InPipe(q, i - 1)

Scanning == {"bgsave", "fetch", "transfer", "attach", "mark"}

\* A checkpoint at or behind the anchor that claims nothing undelivered.
Honest(s) == anchor >= 1 /\ s.pos >= anchor /\ \A q \in (anchor + 1) .. s.pos : q \in got

CoverInv ==
  /\ pc \in Scanning => st.pos = 0
  /\ pc \in After => Honest(st)
  /\ disk.phase = "done" => Honest(disk)
  /\ PipeOrdered
  /\ sess = "up" /\ gateOpen => \A q \in (anchor + 1) .. recvd : Covered(q)
  /\ pc \in Attached => \A q \in (anchor + 1) .. (anchor + drained) : Covered(q)

\* Pushing an entry covers it, and keeps the order if its predecessors are covered.
LEMMA PushCovers ==
  ASSUME Types, PipeOrdered, NEW x \in Items, pipe' = Append(pipe, x),
         UNCHANGED <<anchor, got>>,
         x.kind = "inc" => \A q \in (anchor + 1) .. (x.pos - 1) : Covered(q)
  PROVE  /\ PipeOrdered' /\ \A q : Covered(q) => Covered(q)'
         /\ x.kind = "inc" => Covered(x.pos)'
<1>1. pipe \in Seq(Items) /\ Len(pipe) \in Nat /\ anchor \in Nat
  BY DEF Types
<1>2. /\ Len(pipe') = Len(pipe) + 1 /\ pipe'[Len(pipe) + 1] = x
      /\ \A i \in 1 .. Len(pipe) : pipe'[i] = pipe[i]
  BY <1>1
<1>3. \A q : \A n \in 0 .. Len(pipe) : InPipe(q, n) <=> InPipe(q, n)'
  BY <1>1, <1>2 DEF InPipe
<1>4. \A q : InPipe(q, Len(pipe)) => InPipe(q, Len(pipe))'
  BY <1>1, <1>2 DEF InPipe
<1>5. \A q : Covered(q) => Covered(q)'
  BY <1>4 DEF Covered
<1>6. x.kind = "inc" => Covered(x.pos)'
  BY <1>1, <1>2 DEF Covered, InPipe
<1>7. PipeOrdered'
  <2> SUFFICES ASSUME NEW i \in 1 .. Len(pipe'), pipe'[i].kind = "inc",
                      NEW q \in (anchor + 1) .. (pipe'[i].pos - 1)
               PROVE  q \in got \/ InPipe(q, i - 1)'
    BY DEF PipeOrdered
  <2>1. CASE i \in 1 .. Len(pipe)
    <3>1. pipe[i].kind = "inc" /\ q \in (anchor + 1) .. (pipe[i].pos - 1)
      BY <1>2, <2>1
    <3>2. q \in got \/ InPipe(q, i - 1)
      BY <2>1, <3>1 DEF PipeOrdered
    <3>3. i - 1 \in 0 .. Len(pipe)
      BY <1>1, <2>1
    <3> QED
      BY <1>3, <3>2, <3>3
  <2>2. CASE i = Len(pipe) + 1
    <3>1. Covered(q) /\ i - 1 = Len(pipe)
      BY <1>1, <1>2, <2>2
    <3>2. q \in got \/ InPipe(q, Len(pipe))
      BY <3>1 DEF Covered
    <3>3. Len(pipe) \in 0 .. Len(pipe)
      BY <1>1
    <3> QED
      BY <1>3, <3>1, <3>2, <3>3
  <2> QED
    BY <1>1, <1>2, <2>1, <2>2
<1> QED
  BY <1>5, <1>6, <1>7

\* A delivery moves the first item from pipe to got (or to landed).
LEMMA DeliverCovers ==
  ASSUME Types, PipeOrdered, Deliver
  PROVE  /\ PipeOrdered' /\ \A q : Covered(q) => Covered(q)'
         /\ got \subseteq got'
         /\ Head(pipe).kind = "inc" =>
              \A q \in (anchor + 1) .. Head(pipe).pos : q \in got'
<1>1. /\ pipe \in Seq(Items) /\ Len(pipe) \in Nat /\ anchor \in Nat /\ pipe # <<>>
      /\ Len(pipe) > 0 /\ Head(pipe) = pipe[1] /\ pipe[1] \in Items
  BY PipeTypes DEF Types, Deliver
<1>2. /\ pipe' = Tail(pipe) /\ anchor' = anchor
      /\ got' = IF pipe[1].kind = "inc" THEN got \cup {pipe[1].pos} ELSE got
  BY <1>1 DEF Deliver
<1>3. Len(pipe') = Len(pipe) - 1 /\ \A i \in 1 .. Len(pipe') : pipe'[i] = pipe[i + 1]
  BY <1>1, <1>2
<1>4. ASSUME NEW n \in 1 .. Len(pipe), NEW q, InPipe(q, n)
      PROVE  q \in got' \/ InPipe(q, n - 1)'
  <2>1. PICK j \in 1 .. n : pipe[j].kind = "inc" /\ pipe[j].pos = q
    BY <1>4 DEF InPipe
  <2>2. CASE j = 1
    BY <1>2, <2>1, <2>2
  <2>3. CASE j # 1
    <3>1. j - 1 \in 1 .. (n - 1) /\ j - 1 \in 1 .. Len(pipe') /\ (j - 1) + 1 = j
      BY <1>1, <1>3, <2>3
    <3>2. pipe'[j - 1] = pipe[j]
      BY <1>3, <3>1
    <3> QED
      BY <2>1, <3>1, <3>2 DEF InPipe
  <2> QED
    BY <2>2, <2>3
<1>5. got \subseteq got'
  BY <1>2
<1>6. ASSUME NEW q, Covered(q) PROVE Covered(q)'
  <2>1. Len(pipe) \in 1 .. Len(pipe) /\ Len(pipe) - 1 = Len(pipe')
    BY <1>1, <1>3
  <2> QED
    BY <1>4, <1>5, <1>6, <2>1 DEF Covered
<1>7. PipeOrdered'
  <2> SUFFICES ASSUME NEW i \in 1 .. Len(pipe'), pipe'[i].kind = "inc",
                      NEW q \in (anchor + 1) .. (pipe'[i].pos - 1)
               PROVE  q \in got' \/ InPipe(q, i - 1)'
    BY <1>2 DEF PipeOrdered
  <2>1. pipe'[i] = pipe[i + 1] /\ i + 1 \in 1 .. Len(pipe) /\ i \in 1 .. Len(pipe)
    BY <1>1, <1>3
  <2>2. q \in got \/ InPipe(q, (i + 1) - 1)
    BY <2>1 DEF PipeOrdered
  <2>3. (i + 1) - 1 = i
    BY <2>1
  <2> QED
    BY <1>4, <1>5, <2>1, <2>2, <2>3
<1>8. ASSUME Head(pipe).kind = "inc", NEW q \in (anchor + 1) .. Head(pipe).pos
      PROVE  q \in got'
  <2>1. pipe[1].pos \in Nat /\ 1 \in 1 .. Len(pipe)
    BY <1>1 DEF Items
  <2>2. CASE q = pipe[1].pos
    BY <1>1, <1>2, <1>8, <2>2
  <2>3. CASE q # pipe[1].pos
    <3>1. q \in (anchor + 1) .. (pipe[1].pos - 1)
      BY <1>1, <1>8, <2>1, <2>3
    <3>2. q \in got \/ InPipe(q, 1 - 1)
      BY <1>1, <1>8, <2>1, <3>1 DEF PipeOrdered
    <3>3. ~InPipe(q, 1 - 1)
      BY DEF InPipe
    <3> QED
      BY <1>5, <3>2, <3>3
  <2> QED
    BY <2>2, <2>3
<1> QED
  BY <1>5, <1>6, <1>7, <1>8, Zenon

\* Cutting the queue behind some item keeps the order of the rest.
LEMMA CutOrdered ==
  ASSUME Types, PipeOrdered, NEW k \in 0 .. Len(pipe), pipe' = SubSeq(pipe, 1, k),
         UNCHANGED <<anchor, got>>
  PROVE  PipeOrdered'
<1>1. pipe \in Seq(Items) /\ Len(pipe) \in Nat
  BY DEF Types
<1>2. Len(pipe') = k /\ \A i \in 1 .. k : pipe'[i] = pipe[i]
  BY <1>1, CutFacts
<1> SUFFICES ASSUME NEW i \in 1 .. k, pipe'[i].kind = "inc",
                    NEW q \in (anchor + 1) .. (pipe'[i].pos - 1)
             PROVE  q \in got \/ InPipe(q, i - 1)'
  BY <1>2 DEF PipeOrdered
<1>3. pipe'[i] = pipe[i] /\ i \in 1 .. Len(pipe) /\ 1 .. (i - 1) \subseteq 1 .. k
  BY <1>1, <1>2
<1>4. q \in got \/ InPipe(q, i - 1)
  BY <1>3, Zenon DEF PipeOrdered
<1>5. InPipe(q, i - 1) => InPipe(q, i - 1)'
  BY <1>2, <1>3 DEF InPipe
<1> QED
  BY <1>4, <1>5

-----------------------------------------------------------------------------
\* The configuration does not change.
LEMMA ConfigKept == [Next]_vars => durable' = durable
BY Zenon DEF Next, App, vars, config, Exit, Boot, Rescan, Bgsave, Anchor, Transferred, Attach,
       AttachHangs, Mark, EmitEvent, EmitEnd, Drain, OpenGate, EmitStopped, Commit, AttachTail,
       TailRefused, Reconnect, SessionFailed, ResumeGone, Resume, ResumeRefused, MasterWrite,
       MasterPurge, Receive, Deliver, Crash, DumpLost, FetchFails, CommitFails, SinkFails,
       EmitErr, ReceiveEnds, SinkNoticed, RunReturns

LEMMA CoverStep == BaseInv /\ ~durable /\ CoverInv /\ [Next]_vars => CoverInv'
<1> SUFFICES ASSUME BaseInv, ~durable, CoverInv, [Next]_vars PROVE CoverInv'
  OBVIOUS
<1>0. Types /\ SessionInv /\ GateInv /\ PhaseInv
  BY DEF BaseInv
<1>t. /\ st \in States /\ disk \in States /\ st.pos \in Nat /\ disk.pos \in Nat
      /\ anchor \in Nat /\ recvd \in Nat /\ drained \in Nat /\ appended \in Nat
      /\ pipe \in Seq(Items) /\ Len(pipe) \in Nat
  BY <1>0 DEF Types, States
\* Steps that touch neither the checkpoint, nor the queue, nor what is received.
<1>1. ASSUME UNCHANGED <<st, disk, anchor, pipe, got, recvd, drained, gateOpen>>,
             sess' = "up" => sess = "up",
             pc' \in Scanning => pc \in Scanning,
             pc' \in After => pc \in After,
             pc' \in Attached => pc \in Attached
      PROVE  CoverInv'
  BY <1>1 DEF CoverInv, Honest, PipeOrdered, Covered, InPipe
<1>2. CASE \/ Bgsave \/ Transferred \/ AttachHangs \/ Reconnect \/ ResumeGone \/ MasterWrite
           \/ MasterPurge \/ DumpLost \/ UNCHANGED vars
  <2>1. UNCHANGED <<st, disk, anchor, pipe, got, recvd, drained, gateOpen, sess>>
    BY <1>2, Zenon DEF Bgsave, Transferred, AttachHangs, Reconnect, ResumeGone, MasterWrite,
                MasterPurge, DumpLost, vars, history, session, backlog
  <2>2. /\ pc' \in Scanning => pc \in Scanning
        /\ pc' \in After => pc \in After
        /\ pc' \in Attached => pc \in Attached
    BY <1>2 DEF Bgsave, Transferred, AttachHangs, Reconnect, ResumeGone, MasterWrite,
                MasterPurge, DumpLost, vars, Scanning, After, Attached
  <2> QED
    BY <1>1, <2>1, <2>2
<1>3. CASE Boot
  <2>1. /\ UNCHANGED <<disk, anchor, pipe, got, recvd, drained, gateOpen, sess>> /\ st' = disk
        /\ pc = "down" /\ pc' \in {"inc", "resume", "rescan"}
        /\ (pc' = "inc" => disk.phase = "done")
    BY <1>3 DEF Boot, history, session, backlog
  <2>2. pipe = <<>> /\ sess # "up"
    BY <1>0, <2>1 DEF SessionInv, After, Attached
  <2> QED
    BY <2>1, <2>2 DEF CoverInv, Honest, PipeOrdered, InPipe, Scanning, After, Attached
<1>4. CASE Rescan
  <2>1. /\ UNCHANGED <<anchor, pipe, got, recvd, drained, gateOpen, sess>>
        /\ st' = ResetForRescan(st) /\ disk' \in {disk, st'} /\ pc = "rescan"
        /\ pc' \in {"bgsave", "fetch"}
    BY <1>4 DEF Rescan, Flush, FlushFails, session
  <2>2. pipe = <<>> /\ sess # "up" /\ disk.phase # "done"
    BY <1>0, <2>1, Zenon DEF SessionInv, PhaseInv, After, Attached
  <2>3. st'.pos = 0 /\ st'.phase = "running"
    BY <1>t, <2>1, ResetFacts
  <2> QED
    BY <2>1, <2>2, <2>3 DEF CoverInv, PipeOrdered, Scanning, After, Attached
<1>5. CASE Anchor
  <2>1. UNCHANGED <<st, disk, pipe, sess>> /\ pc = "fetch" /\ pc' = "transfer"
    BY <1>5 DEF Anchor, session
  <2>2. pipe = <<>> /\ sess # "up" /\ disk.phase # "done" /\ st.pos = 0
    BY <1>0, <2>1 DEF SessionInv, PhaseInv, CoverInv, After, Attached, Scanning
  <2> QED
    BY <2>1, <2>2 DEF CoverInv, PipeOrdered, After, Attached
<1>6. CASE Attach
  <2>1. /\ UNCHANGED <<st, disk, anchor, got>> /\ drained' = 0 /\ gateOpen' = FALSE
        /\ pc = "attach" /\ pc' = "mark"
        /\ pipe' = IF left >= 0 THEN SubSeq(pipe, 1, left) ELSE pipe
    BY <1>6 DEF Attach, Established, history
  <2>2. pipe = <<>> /\ left = -1 /\ pipe' = pipe /\ disk.phase # "done" /\ st.pos = 0
    BY <1>0, <2>1 DEF SessionInv, PhaseInv, CoverInv, After, Scanning
  <2> QED
    BY <1>t, <2>1, <2>2 DEF CoverInv, PipeOrdered, After
<1>7. CASE Mark
  <2>1. /\ UNCHANGED <<anchor, pipe, got, recvd, drained, gateOpen, sess>>
        /\ st' = MarkState /\ disk' \in {disk, st'} /\ pc = "mark" /\ pc' = "emit"
    BY <1>7 DEF Mark, Flush, FlushFails, session, backlog, history
  <2>2. st.pos = 0 /\ anchor >= 1 /\ disk.phase # "done" /\ st.phase # "done"
    BY <1>0, <2>1 DEF SessionInv, PhaseInv, CoverInv, Scanning
  <2>3. st'.pos = anchor /\ st'.phase # "done"
    BY <1>0, <1>t, <2>1, <2>2, MarkFacts
  <2>4. Honest(st)'
    BY <1>t, <2>1, <2>2, <2>3 DEF Honest
  <2>5. disk'.phase # "done"
    BY <2>1, <2>2, <2>3
  <2> QED
    BY <2>1, <2>4, <2>5 DEF CoverInv, PipeOrdered, Covered, InPipe, Scanning, After, Attached
<1>8. CASE EmitEvent
  <2>1. /\ UNCHANGED <<anchor, got, recvd, drained, gateOpen, sess>>
        /\ st' \in {st, SetResume(st, anchor, nextEv, FALSE)} /\ disk' \in {disk, st'}
        /\ pc = "emit" /\ pc' = pc /\ pipe' = Append(pipe, [kind |-> "snap", pos |-> nextEv])
    BY <1>8, Zenon DEF EmitEvent, Push, Flush, FlushFails, session, backlog
  <2>2. nextEv \in Nat \ {0} /\ FALSE \in BOOLEAN
    BY <1>0 DEF Types
  <2>3. st'.pos = st.pos /\ st'.phase = st.phase /\ st.phase # "done" /\ disk.phase # "done"
    <3> DEFINE r == SetResume(st, anchor, nextEv, FALSE)
    <3>1. r.phase = st.phase /\ r.pos = st.pos
      BY <1>t DEF SetResume, States
    <3>2. st' \in {st, r}
      BY <2>1, Zenon
    <3> HIDE DEF r
    <3> QED
      BY <1>0, <2>1, <3>1, <3>2 DEF PhaseInv
  <2> DEFINE x == [kind |-> "snap", pos |-> nextEv]
  <2>4. x \in Items /\ x.kind # "inc"
    BY <2>2, Zenon DEF Items
  <2> HIDE DEF x
  <2>5. PipeOrdered' /\ \A q : Covered(q) => Covered(q)'
    <3>1. pipe' = Append(pipe, x)
      BY <2>1, Zenon DEF x
    <3> QED
      BY <1>0, <2>1, <2>4, <3>1, PushCovers DEF CoverInv
  <2>6. Honest(st)' /\ disk'.phase # "done"
    BY <2>1, <2>3 DEF CoverInv, Honest, After
  <2> QED
    BY <2>1, <2>5, <2>6 DEF CoverInv, Scanning
<1>9. CASE EmitEnd
  <2>1. /\ UNCHANGED <<anchor, pipe, got, recvd, drained, gateOpen, sess>>
        /\ st' = SetResume(st, anchor, 0, TRUE) /\ disk' \in {disk, st'}
        /\ pc = "emit" /\ pc' = "release"
    BY <1>9, Zenon DEF EmitEnd, Flush, FlushFails, session, backlog, history
  <2>2. 0 \in Nat /\ TRUE \in BOOLEAN
    OBVIOUS
  <2>3. st'.pos = st.pos /\ st'.phase = st.phase
    <3> DEFINE r == SetResume(st, anchor, 0, TRUE)
    <3>1. r.phase = st.phase /\ r.pos = st.pos
      BY <1>t DEF SetResume, States
    <3>2. st' = r
      BY <2>1
    <3> HIDE DEF r
    <3> QED
      BY <3>1, <3>2
  <2>4. Honest(st)' /\ disk'.phase # "done"
    BY <1>0, <2>1, <2>3, Zenon DEF CoverInv, Honest, After, PhaseInv
  <2>5. PipeOrdered' /\ \A q : Covered(q)' <=> Covered(q)
    BY <2>1 DEF CoverInv, PipeOrdered, Covered, InPipe
  <2>6. pc' \notin Scanning /\ pc \in Attached /\ disk'.phase # "done"
    BY <2>1, <2>4, Zenon DEF Scanning, Attached
  <2> QED
    BY <2>1, <2>4, <2>5, <2>6, Zenon DEF CoverInv
<1>10. CASE Drain
  <2>1. /\ UNCHANGED <<st, disk, anchor, got, recvd, gateOpen, sess, pc>>
        /\ drained' = drained + 1 /\ pc = "release"
        /\ pipe' = Append(pipe, [kind |-> "inc", pos |-> anchor + drained + 1])
    BY <1>10 DEF Drain, Push, session, history
  <2>a. [kind |-> "inc", pos |-> anchor + drained + 1] \in Items
    BY <1>t DEF Items
  <2>2. PICK x \in Items : /\ x.kind = "inc" /\ x.pos = anchor + drained + 1
                           /\ pipe' = Append(pipe, x)
    BY <2>1, <2>a
  <2>3. \A q \in (anchor + 1) .. (anchor + drained) : Covered(q)
    BY <2>1 DEF CoverInv, Attached
  <2>4. \A q \in (anchor + 1) .. (x.pos - 1) : Covered(q)
    BY <1>t, <2>2, <2>3
  <2>5. PipeOrdered' /\ (\A q : Covered(q) => Covered(q)') /\ Covered(x.pos)'
    BY <1>0, <2>1, <2>2, <2>4, PushCovers DEF CoverInv
  <2>6. ASSUME NEW q \in (anchor + 1) .. (anchor + drained') PROVE Covered(q)'
    <3>1. q \in (anchor + 1) .. (anchor + drained) \/ q = x.pos
      BY <1>t, <2>1, <2>2
    <3> QED
      BY <2>3, <2>5, <3>1
  <2>7. ~gateOpen
    BY <1>0, <2>1, Zenon DEF SessionInv, Attached
  <2> QED
    BY <2>1, <2>5, <2>6, <2>7 DEF CoverInv, Honest
<1>11. CASE OpenGate
  <2>1. /\ UNCHANGED <<st, disk, anchor, pipe, got, recvd, drained, sess>>
        /\ pc = "release" /\ pc' = "commit" /\ Pending <= 0
    BY <1>11 DEF OpenGate, history
  <2>2. sess = "up" => recvd = anchor + drained
    BY <1>0, <1>t, <2>1 DEF GateInv, Attached, Pending
  <2>3. sess = "up" => \A q \in (anchor + 1) .. recvd : Covered(q)'
    BY <2>1, <2>2, Zenon DEF CoverInv, Attached, Covered, InPipe
  <2> QED
    BY <2>1, <2>3 DEF CoverInv, Honest, PipeOrdered, InPipe, Scanning, After, Attached
<1>12. CASE Commit
  <2>1. /\ UNCHANGED <<anchor, pipe, got, recvd, drained, gateOpen, sess>>
        /\ st' = Complete(st) /\ disk' = st' /\ pc = "commit" /\ pc' = "live"
    BY <1>12, Zenon DEF Commit, Flush, session, backlog, history
  <2>2. st'.pos = st.pos
    BY <1>t, <2>1, ResetFacts
  <2>3. Honest(st)
    BY <2>1, Zenon DEF CoverInv, After
  <2>4. Honest(st)' /\ Honest(disk)'
    BY <2>1, <2>2, <2>3, Zenon DEF Honest
  <2>5. PipeOrdered'
    <3>1. PipeOrdered
      BY DEF CoverInv
    <3>2. pipe' = pipe /\ anchor' = anchor /\ got' = got
      BY <2>1
    <3> QED
      BY ONLY <3>1, <3>2, SMT DEF PipeOrdered, InPipe
  <2>7. \A q : Covered(q) => Covered(q)'
    BY <2>1, Zenon DEF Covered, InPipe
  <2>6. pc' \notin Scanning /\ pc' \notin Attached
    BY <2>1 DEF Scanning, Attached
  <2> QED
    BY <2>1, <2>4, <2>5, <2>6, <2>7, Zenon DEF CoverInv
<1>13. CASE AttachTail
  <2>1. /\ UNCHANGED <<st, disk, anchor, got>> /\ pc = "inc" /\ pc' = "live"
        /\ recvd' = StartOffset(0)
        /\ pipe' = IF left >= 0 THEN SubSeq(pipe, 1, left) ELSE pipe
    BY <1>13 DEF AttachTail, Established, history
  <2>2. Honest(st)
    BY <2>1 DEF CoverInv, After
  <2>3. recvd' = st.pos
    BY <1>t, <2>1, <2>2 DEF StartOffset, Honest
  <2>4. \A q \in (anchor + 1) .. recvd' : Covered(q)'
    BY <2>1, <2>2, <2>3 DEF Honest, Covered
  <2>5. PipeOrdered'
    <3>1. CASE left >= 0
      <4>1. left \in 0 .. Len(pipe)
        BY <1>0, <3>1 DEF Types
      <4>2. pipe' = SubSeq(pipe, 1, left)
        BY <2>1, <3>1, Zenon
      <4> QED
        BY <1>0, <2>1, <4>1, <4>2, CutOrdered DEF CoverInv
    <3>2. CASE ~(left >= 0)
      BY <2>1, <3>2 DEF CoverInv, PipeOrdered, InPipe
    <3> QED
      BY <3>1, <3>2
  <2> QED
    BY <2>1, <2>2, <2>4, <2>5 DEF CoverInv, Honest, Scanning, Attached
<1>14. CASE Resume
  BY <1>0, <1>14, Zenon DEF Resume, SessionInv
<1>15. CASE Receive
  <2>1. UNCHANGED <<st, disk, anchor, got, gateOpen, sess, pc>> /\ recvd' = recvd + 1 /\ sess = "up"
    BY <1>15, Zenon DEF Receive, history
  <2>2. CASE gateOpen
    <3>1. pipe' = Append(pipe, [kind |-> "inc", pos |-> recvd + 1]) /\ drained' = drained
      BY <1>15, <2>2 DEF Receive, Push, backlog
    <3>a. [kind |-> "inc", pos |-> recvd + 1] \in Items
      BY <1>t DEF Items
    <3>2. PICK x \in Items : x.kind = "inc" /\ x.pos = recvd + 1 /\ pipe' = Append(pipe, x)
      BY <3>1, <3>a
    <3>3. \A q \in (anchor + 1) .. recvd : Covered(q)
      BY <2>1, <2>2 DEF CoverInv
    <3>4. \A q \in (anchor + 1) .. (x.pos - 1) : Covered(q)
      BY <1>t, <3>2, <3>3
    <3>5. PipeOrdered' /\ (\A q : Covered(q) => Covered(q)') /\ Covered(x.pos)'
      BY <1>0, <2>1, <3>1, <3>2, <3>4, PushCovers DEF CoverInv
    <3>6. \A q \in (anchor + 1) .. recvd' : Covered(q)'
      BY <1>t, <2>1, <3>2, <3>3, <3>5
    <3>7. pc \notin Attached
      BY <1>0, <2>2, Zenon DEF SessionInv
    <3> QED
      BY <2>1, <3>1, <3>5, <3>6, <3>7 DEF CoverInv, Honest
  <2>3. CASE ~gateOpen
    <3>1. UNCHANGED <<drained, pipe>>
      BY <1>15, <2>3 DEF Receive
    <3> QED
      BY <2>1, <2>3, <3>1 DEF CoverInv, Honest, PipeOrdered, Covered, InPipe
  <2> QED
    BY <2>2, <2>3
<1>16. CASE Deliver
  <2>1. /\ UNCHANGED <<pc, anchor, recvd, drained, gateOpen, sess>> /\ disk' \in {disk, st'}
        /\ st' = SetDelivered(st, Reported(Head(pipe))) /\ pipe # <<>>
    BY <1>16 DEF Deliver, session, backlog
  <2>2. /\ PipeOrdered' /\ (\A q : Covered(q) => Covered(q)') /\ got \subseteq got'
        /\ Head(pipe).kind = "inc" => \A q \in (anchor + 1) .. Head(pipe).pos : q \in got'
    BY <1>0, <1>16, DeliverCovers DEF CoverInv
  <2>3. pc \in After
    BY <1>0, <2>1 DEF SessionInv
  <2>4. Head(pipe) \in Items /\ Reported(Head(pipe)) \in Nat
    BY <1>0, <2>1, PipeTypes, ReportedType
  <2>5. \A q \in (anchor + 1) .. Reported(Head(pipe)) : q \in got'
    <3>1. CASE Head(pipe).kind = "snap"
      BY <1>t, <3>1 DEF Reported
    <3>2. CASE Head(pipe).kind = "inc"
      <4>1. Head(pipe).pos \in Nat
        BY <2>4 DEF Items
      <4>2. Reported(Head(pipe)) \in {Head(pipe).pos - 1, Head(pipe).pos}
        BY <3>2, Zenon DEF Reported
      <4> QED
        BY <1>t, <2>2, <3>2, <4>1, <4>2
    <3> QED
      BY <2>4, <3>1, <3>2 DEF Items
  <2>6. /\ st'.pos \in {st.pos, Reported(Head(pipe))} /\ st'.pos >= st.pos
        /\ st'.phase = st.phase
    BY <1>t, <2>1, <2>4, SetDeliveredFacts
  <2>7. Honest(st)
    BY <2>3 DEF CoverInv
  <2>8. Honest(st)'
    BY <1>t, <2>1, <2>2, <2>4, <2>5, <2>6, <2>7 DEF Honest
  <2>9. disk'.phase = "done" => Honest(disk)'
    BY <2>1, <2>2, <2>8 DEF CoverInv, Honest
  <2>10. pc \notin Scanning
    BY <2>3 DEF After, Scanning
  <2> QED
    BY <2>1, <2>2, <2>8, <2>9, <2>10 DEF CoverInv
<1>17. CASE SinkFails \/ EmitErr \/ ReceiveEnds \/ SinkNoticed \/ RunReturns
  <2>1. UNCHANGED <<pc, st, disk, anchor, pipe, got, recvd, drained, gateOpen>>
    BY <1>17, Zenon
    DEF SinkFails, EmitErr, ReceiveEnds, SinkNoticed, RunReturns, history, session,
                 backlog
  <2>2. sess' = "up" => sess = "up"
    BY <1>17 DEF SinkFails, EmitErr, ReceiveEnds, SinkNoticed, RunReturns, session
  <2> QED
    BY <1>1, <2>1, <2>2, Zenon
<1>18. CASE Ending
  <2>1. /\ UNCHANGED <<disk, anchor, got>> /\ pc' = "down" /\ sess' = "none" /\ pipe' = <<>>
    BY <1>18, EndingExits DEF Exit, history
  <2>2. pc' \notin Scanning /\ pc' \notin After /\ pc' \notin Attached
    BY <2>1 DEF Scanning, After, Attached
  <2>3. Len(pipe') = 0
    BY <2>1
  <2>4. PipeOrdered'
    BY <2>3 DEF PipeOrdered
  <2>5. disk'.phase = "done" => Honest(disk)'
    BY <2>1 DEF CoverInv, Honest
  <2>6. sess' # "up"
    BY <2>1
  <2> QED
    BY <2>2, <2>4, <2>5, <2>6 DEF CoverInv
<1> QED
  BY <1>2, <1>3, <1>4, <1>5, <1>6, <1>7, <1>8, <1>9, <1>10, <1>11, <1>12, <1>13, <1>14,
     <1>15, <1>16, <1>17, <1>18, Zenon DEF Next, App, Ending

-----------------------------------------------------------------------------
\* The checkpoint file of a committed snapshot is honest: without durable, every
\* entry between the anchor and the position in it has been made durable by the
\* sink, for every sequence of sessions, stalls, crashes, failed flushes, re-scans
\* and reconnections, sync or async sink.
THEOREM CheckpointCovered == Spec => []EntriesCovered
<1> DEFINE I == BaseInv /\ (~durable => CoverInv)
<1>1. Init => I
  <2> SUFFICES ASSUME Init PROVE CoverInv
    BY BaseInit
  <2> QED
    BY DEF Init, EmptyState, CoverInv, PipeOrdered, Scanning, After
<1>2. I /\ [Next]_vars => I'
  BY BaseStep, CoverStep, ConfigKept
<1>3. I => EntriesCovered
  BY DEF CoverInv, Honest, EntriesCovered
<1> QED
  BY <1>1, <1>2, <1>3, PTL DEF Spec

-----------------------------------------------------------------------------
(* All bounds together *)

BoundInv == LogInv /\ QueueInv /\ FlagInv /\ faults \in 0 .. MaxFaults

LEMMA BoundInit == Init => BoundInv
<1> SUFFICES ASSUME Init PROVE BoundInv
  OBVIOUS
<1>1. FlagInv
  BY Zenon DEF Init, FlagInv
<1>2. /\ tip = 1 /\ purged = 0 /\ save \in {0, 1} /\ anchor = 0 /\ blTail = 0 /\ nextEv = 1
      /\ recvd = 0 /\ appended = 0 /\ drained = 0 /\ pc = "down" /\ st = EmptyState
      /\ disk = EmptyState /\ pipe = <<>> /\ landed = {} /\ got = {} /\ faults = 0
  BY DEF Init
<1>3. EmptyState.pos = 0 /\ EmptyState.resume.anchor = 0 /\ EmptyState.resume.cursor = 0
  BY Zenon DEF EmptyState, NoResume
<1>4. LogInv
  BY <1>2, <1>3, BoundAssumption DEF LogInv, CountInv, MarkInv, Within, Attached
<1>5. QueueInv /\ faults \in 0 .. MaxFaults
  BY <1>2, BoundAssumption DEF QueueInv
<1> QED
  BY <1>1, <1>4, <1>5 DEF BoundInv

\* Every variable stays in its range: no session, backlog, queue or checkpoint is
\* ahead of the master's log, a persisted cursor lies in the dump, the sink gets
\* only what was injected, and the queue keeps its capacity; through crashes, failed
\* flushes, re-scans and resumptions.
THEOREM TypeCorrect == Spec => []TypeOK
<1>1. ASSUME BaseInv, BoundInv PROVE TypeOK
  <2>1. Types /\ Counters /\ LogInv /\ QueueInv /\ FlagInv /\ injected \subseteq 1 .. DumpN
    BY <1>1, CounterTypes DEF BaseInv, BoundInv, DumpInv
  <2>2. DumpN \in Nat /\ MaxTip \in Nat /\ PipeCap \in Nat
    BY BoundAssumption
  <2>3. /\ tip \in 1 .. MaxTip /\ purged \in 0 .. tip /\ save \in 0 .. tip /\ anchor \in 0 .. tip
        /\ nextEv \in 1 .. (DumpN + 1) /\ recvd \in 0 .. tip /\ appended \in 0 .. tip
        /\ drained \in 0 .. appended /\ blTail \in 0 .. tip
    BY <2>1, <2>2 DEF Counters, LogInv, CountInv
  <2>4. ASSUME NEW s \in {st, disk}
        PROVE  /\ s.phase \in {"none", "running", "done"} /\ s.pos \in 0 .. tip
               /\ s.resume \in [anchor : 0 .. tip, cursor : 0 .. DumpN, done : BOOLEAN]
    <3>1. s \in States /\ Within(s) /\ save <= tip /\ save \in Nat /\ tip \in Nat
      BY <2>1 DEF Types, Counters, LogInv, CountInv, MarkInv
    <3>2. s.resume \in [anchor : Nat, cursor : Nat, done : BOOLEAN]
      BY <3>1 DEF States
    <3>3. s.resume.anchor \in 0 .. tip /\ s.resume.cursor \in 0 .. DumpN
      BY <2>2, <3>1, <3>2 DEF Within
    <3>4. s.phase \in {"none", "running", "done"} /\ s.pos \in 0 .. tip
      BY <3>1 DEF States, Within
    <3> QED
      BY <3>2, <3>3, <3>4
  <2>5. pipe \in Seq([kind : {"snap", "inc"}, pos : 1 .. (tip + DumpN)])
    <3> DEFINE Bounded == [kind : {"snap", "inc"}, pos : 1 .. (tip + DumpN)]
    <3>1. ASSUME NEW i \in 1 .. Len(pipe) PROVE pipe[i] \in Bounded
      <4>1. pipe[i] \in Items /\ Placed(pipe[i])
        BY <2>1, PipeTypes DEF QueueInv
      <4>2. pipe[i].pos \in 1 .. (tip + DumpN)
        BY <2>1, <2>2, <4>1 DEF Placed, Items, Counters
      <4> QED
        BY <4>1, <4>2 DEF Items
    <3>2. pipe \in Seq(Items)
      BY <2>1 DEF Types
    <3> HIDE DEF Bounded
    <3>3. pipe \in Seq(Bounded)
      BY <3>1, <3>2
    <3> QED
      BY <3>3, Zenon DEF Bounded
  <2>6. /\ pc \in {"down", "rescan", "bgsave", "fetch", "transfer", "attach", "hung", "mark",
                   "emit", "release", "commit", "live", "inc", "resume"}
        /\ sess \in {"none", "up", "failing", "stalling", "failed", "stalled"}
        /\ left \in -1 .. Len(pipe)
    BY <2>1 DEF Types, Before, Attached, After
  <2>7. /\ Len(pipe) <= PipeCap /\ faults \in 0 .. MaxFaults /\ landed \subseteq injected
        /\ got \subseteq 1 .. tip
    BY <1>1, <2>1 DEF BoundInv, QueueInv
  <2> QED
    BY <2>1, <2>3, <2>4, <2>5, <2>6, <2>7, Zenon DEF TypeOK, FlagInv
<1>2. BaseInv /\ BoundInv /\ [Next]_vars => BoundInv'
  BY LogStep, QueueStep, FlagStep, FaultStep, Zenon DEF BaseInv, BoundInv
<1> QED
  BY <1>1, <1>2, BoundInit, BaseAlways, PTL DEF Spec

=============================================================================
