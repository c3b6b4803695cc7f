---------------------------- MODULE RunnerProofs ----------------------------
(***************************************************************************)
(* Proofs about Runner, for every start position, anchor, master log,      *)
(* queue capacity, backlog watermark and choice of faults.                 *)
(*                                                                         *)
(* Every step of the session has one of eight shapes, as far as the        *)
(* backlog and the emit queue are concerned (StepShape).  HandoffInv is    *)
(* preserved by each shape; CheckpointHonest also depends on variables the *)
(* shapes leave open, as do TypeOK and ControlInv, which come first: they  *)
(* are preserved action by action.  TypeOK also needs QueueInv, which      *)
(* bounds the positions that become checkpoints.                           *)
(***************************************************************************)
EXTENDS Runner, TLAPS

\* Unless a step says otherwise: Z3, then Zenon, then Z3 with more time.
USE SMTT(10), ZenonT(20), Z3T(30)

\* t is s with e added at its end.
Extended(s, t, e) ==
  /\ Len(t) = Len(s) + 1 /\ t[Len(s) + 1] = e
  /\ \A i \in 1 .. Len(s) : t[i] = s[i]

-----------------------------------------------------------------------------
\* What Append does, index by index.
LEMMA AppendExtends ==
  ASSUME NEW S, NEW s \in Seq(S), NEW e \in S
  PROVE  Append(s, e) \in Seq(S) /\ Extended(s, Append(s, e), e)
BY DEF Extended

\* Indexing a sequence yields one of its elements.
LEMMA ElementType ==
  ASSUME NEW S, NEW s \in Seq(S), NEW i \in 1 .. Len(s)
  PROVE  s[i] \in S
OBVIOUS

\* An index of an extended sequence is an old one or the new one.
LEMMA ExtendedIndex ==
  ASSUME NEW s, NEW t, NEW e, Len(s) \in Nat, Extended(s, t, e)
  PROVE  \A i \in 1 .. Len(t) :
           (i \in 1 .. Len(s) /\ t[i] = s[i]) \/ (i = Len(s) + 1 /\ t[i] = e)
BY DEF Extended

\* The fields of a queued item.
LEMMA ItemFields ==
  ASSUME NEW k, NEW p
  PROVE  Item(k, p).kind = k /\ Item(k, p).pos = p
BY DEF Item

\* The part of TypeOK the steps below use.
Ranges ==
  /\ recvd \in Nat /\ lastPos \in Nat /\ injected \in 0 .. DumpEvents
  /\ flushed \in 0 .. Len(backlog)
  /\ Len(backlog) \in Nat /\ Len(sent) \in Nat
  /\ \A i \in 1 .. Len(backlog) : backlog[i] \in Nat
  /\ \A i \in 1 .. Len(sent) :
       sent[i].kind \in {"inc", "snap", "ping"} /\ sent[i].pos \in Nat

\* The numeric part of the type invariant, which most steps need.
LEMMA TypeRanges == TypeOK => Ranges
<1> SUFFICES ASSUME TypeOK PROVE Ranges
  OBVIOUS
<1>1. /\ recvd \in Nat /\ lastPos \in Nat /\ injected \in 0 .. DumpEvents
      /\ flushed \in 0 .. Len(backlog)
      /\ Len(backlog) \in Nat /\ Len(sent) \in Nat
  BY PositionAssumption, BoundAssumption DEF TypeOK
<1>2. ASSUME NEW i \in 1 .. Len(backlog) PROVE backlog[i] \in Nat
  <2>1. backlog[i] \in (Start + 1) .. LastEntry
    BY Zenon, ElementType DEF TypeOK
  <2>2. QED
    BY <2>1, PositionAssumption
<1>3. ASSUME NEW i \in 1 .. Len(sent)
      PROVE  sent[i].kind \in {"inc", "snap", "ping"} /\ sent[i].pos \in Nat
  <2>1. sent[i] \in [kind : {"inc", "snap", "ping"}, pos : Nat]
    BY Zenon, ElementType DEF TypeOK
  <2>2. QED
    BY <2>1
<1>4. QED
  BY <1>1, <1>2, <1>3 DEF Ranges

\* Queueing an item keeps the queue well-typed.
LEMMA QueueType ==
  ASSUME TypeOK, NEW k \in {"inc", "snap", "ping"}, NEW p \in Nat,
         sent' \in {sent, Append(sent, Item(k, p))}
  PROVE  /\ sent' \in Seq([kind : {"inc", "snap", "ping"}, pos : Nat])
         /\ Len(sent') >= Len(sent)
<1>1. Item(k, p) \in [kind : {"inc", "snap", "ping"}, pos : Nat]
  BY DEF Item
<1>2. sent \in Seq([kind : {"inc", "snap", "ping"}, pos : Nat])
  BY DEF TypeOK
<1>3. CASE sent' = sent
  BY <1>2, <1>3
<1>4. CASE sent' = Append(sent, Item(k, p))
  BY <1>1, <1>2, <1>4
<1>5. QED
  BY <1>3, <1>4

-----------------------------------------------------------------------------
\* How the goroutines' places, the claim and the cursors go together.
LEMMA ControlStep == TypeOK /\ ControlInv /\ [Next]_vars => ControlInv'
<1> SUFFICES ASSUME TypeOK, ControlInv, [Next]_vars PROVE ControlInv'
  OBVIOUS
<1> USE PositionAssumption, BadAssumption, BoundAssumption, ModeAssumption
        DEF recvVars, gateVars, bufVars, sinkVars
<1>1. CASE Establish
  BY <1>1 DEF Establish, ControlInv
<1>2. CASE EstablishFail
  BY <1>2 DEF EstablishFail, ControlInv
<1>3. CASE LoopTop
  BY <1>3 DEF LoopTop, ControlInv
<1>4. CASE RecvTimeout
  <2>1. rpc = "recv" /\ rpc' \in {"top", "return"}
    BY <1>4 DEF RecvTimeout
  <2>2. UNCHANGED <<epc, apc, recvd, gateVars, bufVars, injected, taken, emitted>>
    BY <1>4 DEF RecvTimeout
  <2>3. aheadStreak' = 2 => rpc' = "return"
    BY <1>4 DEF RecvTimeout, ControlInv
  <2>4. QED
    BY <2>1, <2>2, <2>3 DEF ControlInv
<1>5. CASE ConnFail
  BY <1>5 DEF ConnFail, ControlInv
<1>6. CASE RecvMsg
  BY <1>6 DEF RecvMsg, ControlInv
<1>7. CASE RecvKeepalive
  BY <1>7 DEF RecvKeepalive, ControlInv
<1>8. CASE ConsumeBad
  BY <1>8 DEF ConsumeBad, ControlInv
<1>9. CASE Consume
  <2>1. recvd \in Nat /\ recvd >= Start /\ Start \in Nat /\ bufInflight \in Nat
    BY DEF TypeOK
  <2>2. QED
    BY <1>9, <2>1 DEF Consume, Drop, ShouldEmitNow, ControlInv
<1>0. CASE AppendBlock
  BY <1>0 DEF AppendBlock, ControlInv
<1>10. CASE AppendEntry
  BY <1>10 DEF AppendEntry, ControlInv
<1>11. CASE AppendFail
  BY <1>11 DEF AppendFail, ControlInv
<1>12. CASE Unclaim
  BY <1>12 DEF Unclaim, ControlInv
<1>13. CASE SendEntry
  BY <1>13 DEF SendEntry, Item, Room, ControlInv
<1>14. CASE SendAbort
  BY <1>14 DEF SendAbort, ControlInv
<1>15. CASE NextEntry
  BY <1>15 DEF NextEntry, ControlInv
<1>16. CASE AckMsg
  BY <1>16 DEF AckMsg, AckRange, ControlInv
<1>17. CASE RunReturn
  BY <1>17 DEF RunReturn, ControlInv
<1>18. CASE EmitTake
  BY <1>18 DEF EmitTake, ControlInv
<1>19. CASE EmitOk
  BY <1>19 DEF EmitOk, Later, ControlInv
<1>20. CASE EmitErr
  BY <1>20 DEF EmitErr, ControlInv
<1>21. CASE EmitStop
  BY <1>21 DEF EmitStop, ControlInv
<1>22. CASE Notify
  BY <1>22 DEF Notify, Later, SourcePos, ControlInv
<1>23. CASE AsyncFail
  BY <1>23 DEF AsyncFail, Accepted, ControlInv
<1>24. CASE AppReady
  BY <1>24 DEF AppReady, ControlInv
<1>25. CASE AppAnchor
  BY <1>25 DEF AppAnchor, Later, ControlInv
<1>26. CASE Inject
  BY <1>26 DEF Inject, Item, Room, ControlInv
<1>27. CASE InjectDone
  <2>1. /\ drainedC \in 0 .. Len(backlog) /\ flushed \in 0 .. drainedC
        /\ Len(backlog) \in Nat /\ bufInflight \in 0 .. 1
    BY DEF TypeOK
  <2>2. QED
    BY <1>27, <2>1 DEF InjectDone, ControlInv
<1>28. CASE ReleaseCheck
  <2>1. /\ drainedC \in 0 .. Len(backlog) /\ flushed \in 0 .. drainedC
        /\ Len(backlog) \in Nat /\ bufInflight \in 0 .. 1
    BY DEF TypeOK
  <2>2. QED
    BY <1>28, <2>1 DEF ReleaseCheck, Pending, ControlInv
<1>29. CASE ReleaseNext
  <2>1. /\ drainedC \in 0 .. Len(backlog) /\ flushed \in 0 .. drainedC
        /\ Len(backlog) \in Nat /\ bufInflight \in 0 .. 1
    BY DEF TypeOK
  <2>2. QED
    BY <1>29, <2>1 DEF ReleaseNext, Pending, ControlInv
<1>30. CASE ReleasePush
  <2>1. /\ drainedC \in 0 .. Len(backlog) /\ flushed \in 0 .. drainedC
        /\ Len(backlog) \in Nat /\ bufInflight \in 0 .. 1
    BY DEF TypeOK
  <2>2. QED
    BY <1>30, <2>1 DEF ReleasePush, Item, Room, Drop, ControlInv
<1>31. CASE ReleaseDiscard
  BY <1>31 DEF ReleaseDiscard, ControlInv
<1>32. CASE AppFail
  BY <1>32, Zenon DEF AppFail, RunDone, Room, ControlInv
<1>33. CASE Cancel
  BY <1>33 DEF Cancel, ControlInv
<1>34. CASE UNCHANGED vars
  BY <1>34 DEF vars, ControlInv
<1>35. QED
  BY <1>0, <1>1, <1>2, <1>3, <1>4, <1>5, <1>6, <1>7, <1>8, <1>9, <1>10, <1>11, <1>12,
     <1>13, <1>14, <1>15, <1>16, <1>17, <1>18, <1>19, <1>20, <1>21, <1>22, <1>23, <1>24,
     <1>25, <1>26, <1>27, <1>28, <1>29, <1>30, <1>31, <1>32, <1>33, <1>34, Zenon
     DEF Next, Receiver, Emitter, Application

\* Type correctness; QueueInv bounds the positions that become checkpoints.
LEMMA TypeStep == TypeOK /\ ControlInv /\ QueueInv /\ [Next]_vars => TypeOK'
<1> SUFFICES ASSUME TypeOK, ControlInv, QueueInv, [Next]_vars PROVE TypeOK'
  OBVIOUS
<1> USE PositionAssumption, BadAssumption, BoundAssumption, ModeAssumption
        DEF recvVars, gateVars, bufVars, sinkVars
<1>1. CASE Establish
  BY <1>1 DEF Establish, TypeOK
<1>2. CASE EstablishFail
  BY <1>2 DEF EstablishFail, TypeOK
<1>3. CASE LoopTop
  BY <1>3 DEF LoopTop, TypeOK
<1>4. CASE RecvTimeout
  <2>1. PICK beat \in BOOLEAN :
          sent' = IF beat THEN Append(sent, Item("ping", lastPos)) ELSE sent
    BY <1>4 DEF RecvTimeout
  <2>2. sent' \in Seq([kind : {"inc", "snap", "ping"}, pos : Nat]) /\ Len(sent') >= Len(sent)
    <3>1. lastPos \in Nat /\ sent' \in {sent, Append(sent, Item("ping", lastPos))}
      BY <2>1 DEF TypeOK
    <3>2. QED
      BY <3>1, QueueType
  <2>3. aheadStreak' \in 0 .. 2 /\ rpc' \in {"top", "return"}
    <3>1. aheadStreak \in 0 .. 1
      <4>1. aheadStreak # 2
        BY <1>4 DEF RecvTimeout, ControlInv
      <4>2. QED
        BY <4>1 DEF TypeOK
    <3>2. QED
      BY <1>4, <3>1 DEF RecvTimeout
  <2>4. firstUnacked' \in {0, firstUnacked} /\ ackedTo' \in {ackedTo, lastPos}
    BY <1>4 DEF RecvTimeout, AckRange
  <2>5. UNCHANGED <<epc, apc, ctxDone, ready, recvd, lastPos, gateVars, bufVars,
                    injected, taken, sinkVars>>
    BY <1>4 DEF RecvTimeout
  <2>6. taken' \in 0 .. Len(sent')
    BY <2>2, <2>5 DEF TypeOK
  <2>7. QED
    BY <2>1, <2>2, <2>3, <2>4, <2>5, <2>6 DEF TypeOK
<1>5. CASE ConnFail
  BY <1>5 DEF ConnFail, TypeOK
<1>6. CASE RecvMsg
  BY <1>6 DEF RecvMsg, TypeOK
<1>7. CASE RecvKeepalive
  BY <1>7 DEF RecvKeepalive, TypeOK
<1>8. CASE ConsumeBad
  BY <1>8 DEF ConsumeBad, TypeOK
<1>9. CASE Consume
  <2>1. /\ recvd' = recvd + 1 /\ lastPos' = recvd' /\ firstUnacked' \in {recvd', firstUnacked}
        /\ rpc' \in {"msg", "send", "append", "return"}
        /\ UNCHANGED <<bufBlocked, backlog, drainedC, flushed>>
        /\ bufOpen' \in BOOLEAN /\ bufInflight' \in {bufInflight, bufInflight + 1}
        /\ UNCHANGED <<epc, apc, ctxDone, ready, aheadStreak, ackedTo, gateVars,
                       injected, sent, taken, sinkVars>>
    BY Zenon, <1>9 DEF Consume, TypeOK
  <2>2. recvd' \in Start .. LastEntry /\ recvd' \in 0 .. LastEntry /\ bufInflight = 0
    <3>1. recvd < LastEntry /\ bufInflight = 0
      BY <1>9 DEF Consume, ControlInv
    <3>2. QED
      BY <2>1, <3>1 DEF TypeOK
  <2>3. QED
    BY <2>1, <2>2 DEF TypeOK
<1>0. CASE AppendBlock
  BY <1>0 DEF AppendBlock, TypeOK
<1>10. CASE AppendEntry
  <2>1. recvd \in (Start + 1) .. LastEntry
    <3>1. recvd > Start
      BY <1>10 DEF AppendEntry, ControlInv
    <3>2. QED
      BY <3>1 DEF TypeOK
  <2>2. backlog' \in Seq((Start + 1) .. LastEntry) /\ Len(backlog') = Len(backlog) + 1
    BY <1>10, <2>1, AppendExtends DEF AppendEntry, TypeOK, Extended
  <2>3. drainedC' \in 0 .. Len(backlog') /\ flushed' \in 0 .. drainedC'
    BY <1>10, <2>2 DEF AppendEntry, TypeOK
  <2>4. /\ bufBlocked' \in BOOLEAN /\ rpc' = "unclaim"
        /\ UNCHANGED <<epc, apc, ctxDone, ready, recvVars, gateVars, bufOpen,
                       bufInflight, drainedC, flushed, injected, sent, taken, sinkVars>>
    BY Zenon, <1>10 DEF AppendEntry
  <2>5. QED
    BY <2>2, <2>3, <2>4 DEF TypeOK
<1>11. CASE AppendFail
  BY <1>11 DEF AppendFail, TypeOK
<1>12. CASE Unclaim
  <2>1. bufInflight = 1
    BY <1>12 DEF Unclaim, ControlInv
  <2>2. /\ bufInflight' = bufInflight - 1 /\ rpc' \in {"msg", "return"}
        /\ UNCHANGED <<epc, apc, ctxDone, ready, recvVars, gateVars, bufOpen, bufBlocked,
                       backlog, drainedC, flushed, injected, sent, taken, sinkVars>>
    BY <1>12 DEF Unclaim
  <2>3. QED
    BY <2>1, <2>2 DEF TypeOK
<1>13. CASE SendEntry
  BY <1>13 DEF SendEntry, Item, Room, TypeOK
<1>14. CASE SendAbort
  BY <1>14 DEF SendAbort, TypeOK
<1>15. CASE NextEntry
  BY <1>15 DEF NextEntry, TypeOK
<1>16. CASE AckMsg
  BY <1>16 DEF AckMsg, AckRange, TypeOK
<1>17. CASE RunReturn
  BY <1>17 DEF RunReturn, TypeOK
<1>18. CASE EmitTake
  BY <1>18 DEF EmitTake, TypeOK
<1>19. CASE EmitOk
  <2>0. taken = emitted + 1
    <3>1. epc = "emit"
      BY <1>19 DEF EmitOk
    <3>2. QED
      BY <3>1 DEF ControlInv
  <2>1. taken \in 1 .. Len(sent) /\ emitted' = taken /\ epc' = "select"
        /\ UNCHANGED <<rpc, apc, ctxDone, ready, recvVars, gateVars, bufVars,
                       injected, sent, taken, sinkErr, failAt>>
    <3>1. taken \in 1 .. Len(sent)
      BY <2>0 DEF TypeOK
    <3>2. QED
      BY <1>19, <3>1 DEF EmitOk
  <2>2. acked' \in {acked, taken}
    BY <1>19 DEF EmitOk
  <2>3. sent[taken].kind = "inc" => sent[taken].pos \in 0 .. LastEntry
    <3>1. sent[taken].kind = "inc" => sent[taken].pos \in (Anchor + 1) .. recvd
      BY <2>1 DEF QueueInv, Decodable
    <3>2. recvd \in Nat /\ recvd <= LastEntry
      BY DEF TypeOK
    <3>3. QED
      BY <3>1, <3>2
  <2>4. delivered' \in 0 .. LastEntry /\ stored' \in 0 .. LastEntry
    <3>1. \/ UNCHANGED <<delivered, stored>>
          \/ /\ sent[taken].kind = "inc" /\ delivered' = sent[taken].pos
             /\ stored' = Later(stored, sent[taken].pos)
      BY <1>19 DEF EmitOk
    <3>2. delivered \in 0 .. LastEntry /\ stored \in 0 .. LastEntry
      BY Zenon DEF TypeOK
    <3>3. QED
      BY <2>3, <3>1, <3>2, Zenon DEF Later
  <2>5. acked' \in 0 .. taken' /\ failAt' \in 0 .. taken'
    BY <2>1, <2>2 DEF TypeOK
  <2>6. QED
    BY <2>1, <2>4, <2>5 DEF TypeOK
<1>20. CASE EmitErr
  BY <1>20 DEF EmitErr, TypeOK
<1>21. CASE EmitStop
  BY <1>21 DEF EmitStop, TypeOK
<1>22. CASE Notify
  <2>1. PICK k \in (acked + 1) .. (IF failAt = 0 THEN Accepted ELSE failAt - 1) :
          /\ acked' = k
          /\ delivered' = Later(delivered, SourcePos(sent[k]))
          /\ stored' \in {stored, SourcePos(sent[k])}
    BY <1>22, Zenon DEF Notify, Later
  <2>2. k \in 1 .. taken /\ k \in 1 .. Len(sent)
    BY <2>1 DEF TypeOK, Accepted
  <2>3. SourcePos(sent[k]) \in 0 .. LastEntry
    <3>1. sent[k].kind \in {"inc", "snap", "ping"} /\ sent[k].pos \in Nat
      BY <2>2, TypeRanges, Zenon DEF Ranges
    <3>2. recvd \in Nat /\ recvd <= LastEntry
      BY DEF TypeOK
    <3>3. CASE sent[k].kind = "inc"
      <4>1. sent[k].pos \in (Anchor + 1) .. recvd
        BY <2>2, <3>3 DEF QueueInv, Decodable
      <4>2. SourcePos(sent[k]) = sent[k].pos - 1
        BY <3>3 DEF SourcePos
      <4>3. QED
        BY <3>1, <3>2, <4>1, <4>2
    <3>4. CASE sent[k].kind = "ping"
      BY <2>2, <3>1, <3>2, <3>4 DEF QueueInv, SourcePos
    <3>5. CASE sent[k].kind = "snap"
      BY <3>5 DEF SourcePos
    <3>6. QED
      BY <3>1, <3>3, <3>4, <3>5, Zenon
  <2>4. delivered' \in 0 .. LastEntry /\ stored' \in 0 .. LastEntry
    BY <2>1, <2>3, Zenon DEF Later, TypeOK
  <2>5. UNCHANGED <<rpc, epc, apc, ctxDone, ready, recvVars, gateVars, bufVars,
                    injected, sent, taken, emitted, sinkErr, failAt>>
    BY <1>22, Zenon DEF Notify
  <2>6. QED
    BY <2>1, <2>2, <2>4, <2>5 DEF TypeOK
<1>23. CASE AsyncFail
  BY <1>23 DEF AsyncFail, Accepted, TypeOK
<1>24. CASE AppReady
  BY <1>24 DEF AppReady, TypeOK
<1>25. CASE AppAnchor
  BY <1>25 DEF AppAnchor, Later, TypeOK
<1>26. CASE Inject
  BY <1>26 DEF Inject, Item, Room, TypeOK
<1>27. CASE InjectDone
  BY <1>27 DEF InjectDone, TypeOK
<1>28. CASE ReleaseCheck
  <2>1. /\ apc' \in {"discard", "next"}
        /\ UNCHANGED <<rpc, epc, ctxDone, ready, recvVars, hSet, bufVars, injected,
                       sent, taken, sinkVars>>
    BY <1>28 DEF ReleaseCheck
  <2>2. gateOpen' \in BOOLEAN
    BY Zenon, <1>28 DEF ReleaseCheck, TypeOK
  <2>3. QED
    BY <2>1, <2>2 DEF TypeOK
<1>29. CASE ReleaseNext
  BY <1>29 DEF ReleaseNext, Pending, TypeOK
<1>30. CASE ReleasePush
  <2>1. /\ flushed' = flushed + 1 /\ apc' \in {"check", "push"}
        /\ sent' \in {sent, Append(sent, Item("inc", backlog[flushed + 1]))}
        /\ UNCHANGED <<rpc, epc, ctxDone, ready, recvVars, gateVars, bufOpen,
                       bufInflight, bufBlocked, backlog, drainedC, injected, taken, sinkVars>>
    BY <1>30, Zenon DEF ReleasePush
  <2>2. flushed < drainedC /\ flushed + 1 \in 1 .. Len(backlog)
    BY <1>30 DEF ReleasePush, ControlInv, TypeOK
  <2>3. sent' \in Seq([kind : {"inc", "snap", "ping"}, pos : Nat]) /\ Len(sent') >= Len(sent)
    <3>1. backlog[flushed + 1] \in Nat
      BY <2>2, TypeRanges, Zenon DEF Ranges
    <3>2. QED
      BY <2>1, <3>1, QueueType
  <2>4. taken' \in 0 .. Len(sent') /\ flushed' \in 0 .. drainedC'
    BY <2>1, <2>2, <2>3 DEF TypeOK
  <2>5. QED
    BY <2>1, <2>3, <2>4 DEF TypeOK
<1>31. CASE ReleaseDiscard
  <2>1. /\ bufOpen' \in BOOLEAN /\ apc' = "done"
        /\ UNCHANGED <<rpc, epc, ctxDone, ready, recvVars, gateVars, bufInflight, bufBlocked,
                       backlog, drainedC, flushed, injected, sent, taken, sinkVars>>
    BY Zenon, <1>31 DEF ReleaseDiscard
  <2>2. QED
    BY <2>1 DEF TypeOK
<1>32. CASE AppFail
  BY <1>32 DEF AppFail, RunDone, Room, TypeOK
<1>33. CASE Cancel
  BY <1>33 DEF Cancel, TypeOK
<1>34. CASE UNCHANGED vars
  BY <1>34 DEF vars, TypeOK
<1>35. QED
  BY <1>0, <1>1, <1>2, <1>3, <1>4, <1>5, <1>6, <1>7, <1>8, <1>9, <1>10, <1>11, <1>12,
     <1>13, <1>14, <1>15, <1>16, <1>17, <1>18, <1>19, <1>20, <1>21, <1>22, <1>23, <1>24,
     <1>25, <1>26, <1>27, <1>28, <1>29, <1>30, <1>31, <1>32, <1>33, <1>34, Zenon
     DEF Next, Receiver, Emitter, Application

-----------------------------------------------------------------------------
\* The variables of the ack are touched by four kinds of step only.
LEMMA AckShape ==
  ASSUME TypeOK, ControlInv, [Next]_vars
  PROVE  \/ /\ UNCHANGED <<recvd, lastPos, firstUnacked, ackedTo>>
            /\ rpc' = "init" => rpc = "init"
         \/ /\ rpc = "init" /\ rpc' = "top" /\ ackedTo' = Start
            /\ UNCHANGED <<recvd, lastPos, firstUnacked>>
         \/ AckRange /\ UNCHANGED <<recvd, lastPos>> /\ rpc' # "init"
         \/ ConsumeBad
         \/ Consume
<1> USE DEF recvVars, gateVars, bufVars, sinkVars
<1>1. CASE UNCHANGED vars
  BY <1>1, Zenon DEF vars
<1>2. CASE Receiver
  <2>1. CASE Establish
    BY <2>1, Zenon DEF Establish
  <2>2. CASE EstablishFail \/ LoopTop \/ ConnFail \/ RecvMsg \/ RecvKeepalive
    BY <2>2, Zenon DEF EstablishFail, LoopTop, ConnFail, RecvMsg, RecvKeepalive
  <2>3. CASE RecvTimeout
    BY <2>3, Zenon DEF RecvTimeout
  <2>4. CASE AppendBlock \/ AppendEntry \/ AppendFail \/ Unclaim
    BY <2>4, Zenon DEF AppendBlock, AppendEntry, AppendFail, Unclaim
  <2>5. CASE SendEntry \/ SendAbort \/ NextEntry \/ RunReturn
    BY <2>5 DEF SendEntry, SendAbort, NextEntry, RunReturn
  <2>6. CASE AckMsg
    BY <2>6 DEF AckMsg
  <2>7. QED
    BY <1>2, <2>1, <2>2, <2>3, <2>4, <2>5, <2>6 DEF Receiver
<1>3. CASE Emitter \/ Application \/ Notify \/ AsyncFail \/ Cancel
  <2>1. CASE Emitter
    BY <2>1, Zenon DEF Emitter, EmitTake, EmitOk, EmitErr, EmitStop
  <2>2. CASE Application
    BY <2>2, Zenon DEF Application, AppReady, AppAnchor, Inject, InjectDone, ReleaseCheck,
                ReleaseNext, ReleasePush, ReleaseDiscard, AppFail
  <2>3. CASE Notify \/ AsyncFail \/ Cancel
    BY <2>3 DEF Notify, AsyncFail, Cancel
  <2>4. QED
    BY <1>3, <2>1, <2>2, <2>3, Zenon
<1>4. QED
  BY <1>1, <1>2, <1>3 DEF Next

\* The open range stays exact: it starts at the first decodable entry that is
\* not acknowledged and ends at the last one consumed.
LEMMA AckStep == TypeOK /\ ControlInv /\ AckInv /\ [Next]_vars => AckInv'
<1> SUFFICES ASSUME TypeOK, ControlInv, AckInv, [Next]_vars PROVE AckInv'
  BY Zenon
<1>0. /\ Start \in Nat \ {0} /\ recvd \in Nat /\ recvd >= Start
      /\ lastPos \in Nat /\ firstUnacked \in Nat /\ ackedTo \in Nat
  BY PositionAssumption DEF TypeOK
<1>1. CASE UNCHANGED <<recvd, lastPos, firstUnacked, ackedTo>> /\ (rpc' = "init" => rpc = "init")
  BY <1>1, Zenon DEF AckInv
<1>2. CASE /\ rpc = "init" /\ rpc' = "top" /\ ackedTo' = Start
           /\ UNCHANGED <<recvd, lastPos, firstUnacked>>
  <2>1. Decodable(Start, recvd) = {} /\ firstUnacked = 0 /\ recvd = Start
    BY <1>0, <1>2 DEF AckInv, Decodable
  <2>2. QED
    BY <1>0, <1>2, <2>1, Zenon DEF AckInv
<1>3. CASE AckRange /\ UNCHANGED <<recvd, lastPos>> /\ rpc' # "init"
  <2>1. firstUnacked' = 0 /\ ackedTo' = IF firstUnacked = 0 THEN ackedTo ELSE lastPos
    BY <1>3 DEF AckRange
  <2>2. {q \in Decodable(Start, recvd) : q > ackedTo'} = {}
    BY <1>0, <2>1 DEF AckInv, Decodable
  <2>3. ackedTo' <= recvd
    BY <2>1, Zenon DEF AckInv
  <2>4. QED
    BY <1>3, <2>1, <2>2, <2>3 DEF AckInv
<1>4. CASE ConsumeBad
  <2>1. /\ recvd' = recvd + 1 /\ recvd + 1 \in Bad /\ rpc' = "msg"
        /\ UNCHANGED <<lastPos, firstUnacked, ackedTo>>
    BY <1>4 DEF ConsumeBad
  <2>2. Decodable(Start, recvd') = Decodable(Start, recvd)
    BY <1>0, <2>1 DEF Decodable
  <2>3. ackedTo <= recvd + 1 /\ lastPos <= recvd + 1
    BY <1>0 DEF AckInv
  <2>4. QED
    BY <2>1, <2>2, <2>3 DEF AckInv
<1>5. CASE Consume
  <2>1. /\ recvd' = recvd + 1 /\ recvd + 1 \notin Bad /\ lastPos' = recvd + 1
        /\ firstUnacked' = IF firstUnacked = 0 THEN recvd + 1 ELSE firstUnacked
        /\ ackedTo' = ackedTo /\ rpc' # "init"
    BY <1>5 DEF Consume
  <2>2. Decodable(Start, recvd + 1) = Decodable(Start, recvd) \cup {recvd + 1}
    BY <1>0, <2>1 DEF Decodable
  <2>3. {q \in Decodable(Start, recvd + 1) : q > ackedTo} =
        {q \in Decodable(Start, recvd) : q > ackedTo} \cup {recvd + 1}
    BY <1>0, <2>2 DEF AckInv
  <2>4. ASSUME firstUnacked # 0
        PROVE  Decodable(firstUnacked - 1, recvd + 1) =
               Decodable(firstUnacked - 1, lastPos) \cup {recvd + 1}
    <3>1. Start < firstUnacked /\ firstUnacked <= lastPos /\ lastPos <= recvd
      BY <2>4 DEF AckInv
    <3>2. \A q \in (lastPos + 1) .. recvd : q \in Bad
      BY <1>0, <3>1 DEF AckInv, Decodable
    <3>3. QED
      BY <1>0, <2>1, <3>1, <3>2 DEF Decodable
  <2>5. firstUnacked = 0 => Decodable(recvd + 1 - 1, recvd + 1) = {recvd + 1}
    BY <1>0, <2>1 DEF Decodable
  <2>6. {q \in Decodable(Start, recvd') : q > ackedTo'} =
        IF firstUnacked' = 0 THEN {} ELSE Decodable(firstUnacked' - 1, lastPos')
    <3>1. CASE firstUnacked = 0
      BY <1>0, <2>1, <2>3, <2>5, <3>1 DEF AckInv
    <3>2. CASE firstUnacked # 0
      BY <1>0, <2>1, <2>3, <2>4, <3>2 DEF AckInv
    <3>3. QED
      BY <3>1, <3>2
  <2>7. ackedTo' <= recvd' /\ lastPos' <= recvd'
    BY <1>0, <2>1 DEF AckInv
  <2>8. firstUnacked' # 0 => Start < firstUnacked' /\ firstUnacked' <= lastPos'
    BY <1>0, <2>1 DEF AckInv
  <2>9. \A q \in Decodable(Start, recvd') : q <= lastPos'
    BY <1>0, <2>1 DEF Decodable
  <2>10. QED
    BY <2>1, <2>6, <2>7, <2>8, <2>9, Zenon DEF AckInv
<1>6. QED
  BY <1>1, <1>2, <1>3, <1>4, <1>5, AckShape

-----------------------------------------------------------------------------
Early    == apc \in {"wait", "anchor", "inject"}
GivingUp == rpc \in {"append", "send", "unclaimErr", "return", "done"}
Kept     == UNCHANGED <<recvd, lastPos, gateOpen>>

\* Neither queue changes, and no entry is read from the connection.
Quiet ==
  /\ UNCHANGED <<recvd, lastPos, backlog, flushed, injected, sent>>
  /\ gateOpen => gateOpen'
  /\ rpc' \in {"append", "send"} => rpc' = rpc
  /\ GivingUp => GivingUp'
  /\ Early' => Early

\* The next entry is read: dropped, sent directly, buffered, or the run fails.
Receive ==
  /\ rpc = "entry" /\ recvd' = recvd + 1 /\ lastPos' \in {lastPos, recvd'}
  /\ \/ rpc' = "msg" /\ (recvd' \in Bad \/ recvd' <= Anchor)
     \/ /\ rpc' = "send" /\ recvd' \notin Bad
        /\ recvd' > Anchor /\ (Gated => gateOpen)
     \/ rpc' = "append" /\ recvd' \notin Bad
     \/ rpc' = "return"
  /\ UNCHANGED <<apc, gateOpen, backlog, flushed, injected, sent>>

Buffer ==
  /\ rpc = "append" /\ rpc' = "unclaim"
  /\ Extended(backlog, backlog', recvd)
  /\ Kept /\ UNCHANGED <<apc, flushed, injected, sent>>

Beat ==
  /\ rpc = "recv" /\ rpc' \in {"top", "return"} /\ gateOpen
  /\ Extended(sent, sent', Item("ping", lastPos))
  /\ Kept /\ UNCHANGED <<apc, backlog, flushed, injected>>

Direct ==
  /\ rpc = "send" /\ rpc' = "msg"
  /\ Extended(sent, sent', Entry(recvd))
  /\ Kept /\ UNCHANGED <<apc, backlog, flushed, injected>>

Snapshot ==
  /\ apc = "inject" /\ injected < DumpEvents /\ injected' = injected + 1
  /\ Extended(sent, sent', Item("snap", injected'))
  /\ Kept /\ UNCHANGED <<rpc, apc, backlog, flushed>>

Push ==
  /\ apc = "push" /\ apc' \in {"check", "push"}
  /\ flushed < Len(backlog) /\ flushed' = flushed + 1
  /\ backlog[flushed'] > Anchor
  /\ Extended(sent, sent', Entry(backlog[flushed']))
  /\ Kept /\ UNCHANGED <<rpc, backlog, injected>>

Skip ==
  /\ apc = "push" /\ apc' \in {"check", "push"}
  /\ flushed < Len(backlog) /\ flushed' = flushed + 1
  /\ backlog[flushed'] <= Anchor
  /\ Kept /\ UNCHANGED <<rpc, backlog, injected, sent>>

Shape ==
  Quiet \/ Receive \/ Buffer \/ Beat \/ Direct \/ Snapshot \/ Push \/ Skip

-----------------------------------------------------------------------------
\* Every step of the session has one of the shapes.
LEMMA StepShape == TypeOK /\ ControlInv /\ [Next]_vars => Shape
<1> SUFFICES ASSUME TypeOK, ControlInv, [Next]_vars PROVE Shape
  OBVIOUS
<1> USE DEF recvVars, gateVars, bufVars, sinkVars
<1>1. CASE RecvTimeout
  <2>1. PICK beat \in BOOLEAN :
          /\ beat => gateOpen
          /\ sent' = IF beat THEN Append(sent, Item("ping", lastPos)) ELSE sent
          /\ rpc' \in {"top", "return"}
    BY <1>1 DEF RecvTimeout
  <2>2. rpc = "recv" /\ Kept /\ UNCHANGED <<apc, backlog, flushed, injected>>
    BY <1>1 DEF RecvTimeout, Kept
  <2>3. CASE ~beat
    BY <2>1, <2>2, <2>3 DEF Shape, Quiet, Kept, Early, GivingUp
  <2>4. CASE beat
    <3>1. Item("ping", lastPos) \in [kind : {"inc", "snap", "ping"}, pos : Nat]
      BY PositionAssumption DEF TypeOK, Item
    <3>2. Extended(sent, sent', Item("ping", lastPos))
      BY Zenon, <2>1, <2>4, <3>1, AppendExtends DEF TypeOK
    <3>3. QED
      BY <2>1, <2>2, <2>4, <3>2 DEF Shape, Beat
  <2>5. QED
    BY <2>1, <2>3, <2>4
<1>2. CASE ConsumeBad
  BY <1>2, BadAssumption DEF ConsumeBad, Shape, Receive, TypeOK
<1>3. CASE Consume
  <2>1. /\ rpc = "entry" /\ recvd' = recvd + 1 /\ lastPos' = recvd'
        /\ recvd' \notin Bad
        /\ UNCHANGED <<apc, gateOpen, backlog, flushed, injected, sent>>
    BY <1>3 DEF Consume
  <2>2. \/ Gated /\ Drop(recvd + 1) /\ rpc' = "msg"
        \/ (~Gated \/ ShouldEmitNow(recvd + 1)) /\ rpc' = "send"
        \/ rpc' = "append"
        \/ rpc' = "return"
    BY <1>3 DEF Consume
  <2>3. Drop(recvd + 1) => recvd' <= Anchor
    BY <2>1, PositionAssumption DEF Drop, TypeOK
  <2>4. ~Gated \/ ShouldEmitNow(recvd + 1) => recvd' > Anchor /\ (Gated => gateOpen)
    BY <2>1, PositionAssumption DEF ShouldEmitNow, TypeOK
  <2>5. QED
    BY <2>1, <2>2, <2>3, <2>4 DEF Shape, Receive
<1>4. CASE AppendEntry
  <2>1. recvd \in (Start + 1) .. LastEntry
    BY <1>4, PositionAssumption DEF AppendEntry, TypeOK, ControlInv
  <2>2. Extended(backlog, backlog', recvd)
    BY Zenon, <1>4, <2>1, AppendExtends DEF AppendEntry, TypeOK
  <2>3. QED
    BY <1>4, <2>2 DEF AppendEntry, Shape, Buffer, Kept
<1>5. CASE SendEntry
  <2>1. Entry(recvd) \in [kind : {"inc", "snap", "ping"}, pos : Nat]
    BY PositionAssumption DEF TypeOK, Entry, Item
  <2>2. Extended(sent, sent', Entry(recvd))
    BY Zenon, <1>5, <2>1, AppendExtends DEF SendEntry, Entry, TypeOK
  <2>3. QED
    BY <1>5, <2>2 DEF SendEntry, Shape, Direct, Kept
<1>6. CASE Inject
  <2>1. Item("snap", injected') \in [kind : {"inc", "snap", "ping"}, pos : Nat]
    BY <1>6, BoundAssumption DEF Inject, TypeOK, Item
  <2>2. Extended(sent, sent', Item("snap", injected'))
    BY Zenon, <1>6, <2>1, AppendExtends DEF Inject, TypeOK
  <2>3. QED
    BY <1>6, <2>2 DEF Inject, Shape, Snapshot, Kept
<1>7. CASE ReleasePush
  <2>1. /\ apc = "push" /\ apc' \in {"check", "push"} /\ flushed' = flushed + 1
        /\ Kept /\ UNCHANGED <<rpc, backlog, injected>>
    BY <1>7 DEF ReleasePush, Kept
  <2>2. flushed < Len(backlog) /\ backlog[flushed'] \in (Start + 1) .. LastEntry
    <3>1. flushed < drainedC /\ drainedC <= Len(backlog) /\ flushed \in Nat
      BY <2>1 DEF TypeOK, ControlInv
    <3>2. flushed' \in 1 .. Len(backlog)
      BY <2>1, <3>1 DEF TypeOK
    <3>3. backlog \in Seq((Start + 1) .. LastEntry)
      BY DEF TypeOK
    <3>4. backlog[flushed'] \in (Start + 1) .. LastEntry
      BY Zenon, <3>2, <3>3, ElementType
    <3>5. QED
      BY <3>1, <3>4 DEF TypeOK
  <2>3. CASE Drop(backlog[flushed'])
    BY <1>7, <2>1, <2>2, <2>3, PositionAssumption DEF ReleasePush, Drop, Shape, Skip
  <2>4. CASE ~Drop(backlog[flushed'])
    <3>1. backlog[flushed'] > Anchor
      BY <2>1, <2>2, <2>4, PositionAssumption DEF Drop, ControlInv
    <3>2. Entry(backlog[flushed']) \in [kind : {"inc", "snap", "ping"}, pos : Nat]
      BY <2>2, PositionAssumption DEF Entry, Item
    <3>3. sent' = Append(sent, Entry(backlog[flushed']))
      BY <1>7, <2>1, <2>4 DEF ReleasePush, Entry
    <3>4. Extended(sent, sent', Entry(backlog[flushed']))
      BY Zenon, <3>2, <3>3, AppendExtends DEF TypeOK
    <3>5. QED
      BY <2>1, <2>2, <3>1, <3>4 DEF Shape, Push
  <2>5. QED
    BY <2>3, <2>4
<1>8. CASE Receiver /\ ~(RecvTimeout \/ ConsumeBad \/ Consume \/ AppendEntry \/ SendEntry)
  <2>1. CASE Establish \/ EstablishFail \/ LoopTop \/ ConnFail \/ RecvMsg \/ RecvKeepalive
    BY <2>1, Zenon DEF Establish, EstablishFail, LoopTop, ConnFail, RecvMsg, RecvKeepalive,
       Shape, Quiet, Early, GivingUp
  <2>2. CASE AppendBlock \/ AppendFail \/ Unclaim \/ SendAbort
    BY <2>2 DEF AppendBlock, AppendFail, Unclaim, SendAbort, Shape, Quiet, Early, GivingUp
  <2>3. CASE NextEntry \/ AckMsg \/ RunReturn
    BY <2>3 DEF NextEntry, AckMsg, RunReturn, Shape, Quiet, Early, GivingUp
  <2>4. QED
    BY <1>8, <2>1, <2>2, <2>3, Zenon DEF Receiver
<1>9. CASE Emitter \/ Notify \/ AsyncFail \/ Cancel \/ UNCHANGED vars
  <2>1. UNCHANGED <<rpc, apc, recvd, lastPos, backlog, flushed, injected, sent, gateOpen>>
    BY <1>9, Zenon DEF Emitter, EmitTake, EmitOk, EmitErr, EmitStop, Notify, AsyncFail,
       Cancel, vars
  <2>2. QED
    BY <2>1, Zenon DEF Shape, Quiet, Early, GivingUp
<1>10. CASE AppReady \/ AppAnchor \/ InjectDone \/ AppFail
  BY <1>10 DEF AppReady, AppAnchor, InjectDone, AppFail, Shape, Quiet, Early, GivingUp
<1>11. CASE ReleaseCheck \/ ReleaseNext \/ ReleaseDiscard
  BY <1>11, Zenon DEF ReleaseCheck, ReleaseNext, ReleaseDiscard, Shape, Quiet, Early, GivingUp
<1>12. QED
  BY <1>1, <1>2, <1>3, <1>4, <1>5, <1>6, <1>7, <1>8, <1>9, <1>10, <1>11
     DEF Next, Application

\* The items of an extended queue: the old ones where they were, one new one.
Grown(it) ==
  /\ Len(sent') = Len(sent) + 1 /\ sent'[Len(sent) + 1] = it
  /\ \A i \in 1 .. Len(sent) : sent'[i] = sent[i]
  /\ \A i \in 1 .. Len(sent') :
       (i \in 1 .. Len(sent) /\ sent'[i] = sent[i]) \/ (i = Len(sent) + 1 /\ sent'[i] = it)

\* What each of the four enqueueing shapes adds, with what ControlInv says of
\* the goroutines' places.
LEMMA Enqueued ==
  ASSUME Ranges, ControlInv, BacklogInv, Beat \/ Direct \/ Snapshot \/ Push
  PROVE  \E it :
    /\ Grown(it) /\ UNCHANGED <<recvd, lastPos, gateOpen, backlog>>
    /\ \/ /\ it = Item("ping", lastPos) /\ it.kind = "ping" /\ it.pos = lastPos
          /\ gateOpen /\ flushed = Len(backlog) /\ apc \in {"discard", "done"}
          /\ rpc = "recv" /\ rpc' \notin {"append", "send"}
          /\ UNCHANGED <<apc, flushed, injected>>
       \/ /\ it = Entry(recvd) /\ it.kind = "inc" /\ it.pos = recvd
          /\ flushed = Len(backlog) /\ ~Early
          /\ rpc = "send" /\ rpc' = "msg"
          /\ UNCHANGED <<apc, flushed, injected>>
       \/ /\ it = Item("snap", injected') /\ it.kind = "snap"
          /\ Gated /\ apc = "inject" /\ injected' = injected + 1
          /\ UNCHANGED <<rpc, apc, flushed>>
       \/ /\ it = Entry(backlog[flushed']) /\ it.kind = "inc"
          /\ it.pos = backlog[flushed'] /\ it.pos > Anchor
          /\ Gated /\ apc = "push" /\ ~Early' /\ rpc # "send"
          /\ flushed < Len(backlog) /\ flushed' = flushed + 1
          /\ UNCHANGED <<rpc, injected>>
<1>1. ASSUME NEW it, Extended(sent, sent', it) PROVE Grown(it)
  BY <1>1, ExtendedIndex DEF Grown, Extended, Ranges
<1>2. CASE Beat
  <2>1. Grown(Item("ping", lastPos))
    BY <1>1, <1>2 DEF Beat
  <2>2. gateOpen /\ flushed = Len(backlog) /\ apc \in {"discard", "done"}
    BY <1>2 DEF Beat, ControlInv
  <2>3. QED
    BY <1>2, <2>1, <2>2, ItemFields DEF Beat, Kept
<1>3. CASE Direct
  <2>1. Grown(Entry(recvd))
    BY <1>1, <1>3 DEF Direct
  <2>2. flushed = Len(backlog) /\ ~Early
    BY <1>3 DEF Direct, ControlInv, BacklogInv, Early, Ranges
  <2>3. QED
    BY <1>3, <2>1, <2>2, ItemFields DEF Direct, Kept, Entry
<1>4. CASE Snapshot
  <2>1. Grown(Item("snap", injected'))
    BY <1>1, <1>4 DEF Snapshot
  <2>2. Gated
    BY <1>4 DEF Snapshot, ControlInv
  <2>3. QED
    BY <1>4, <2>1, <2>2, ItemFields DEF Snapshot, Kept
<1>5. CASE Push
  <2>1. Grown(Entry(backlog[flushed']))
    BY <1>1, <1>5 DEF Push
  <2>2. Gated /\ apc = "push" /\ ~Early' /\ rpc # "send"
    BY <1>5 DEF Push, ControlInv, BacklogInv, Early
  <2>3. QED
    BY <1>5, <2>1, <2>2, ItemFields DEF Push, Kept, Entry
<1>6. QED
  BY <1>2, <1>3, <1>4, <1>5

-----------------------------------------------------------------------------
\* The backlog stays increasing and behind the entry in hand.
LEMMA BacklogStep ==
  TypeOK /\ ControlInv /\ BacklogInv /\ [Next]_vars => BacklogInv'
<1> SUFFICES ASSUME Ranges, ControlInv, BacklogInv, Shape PROVE BacklogInv'
  BY StepShape, TypeRanges
<1>1. CASE Quiet
  BY <1>1 DEF Quiet, BacklogInv
<1>2. CASE Receive
  BY <1>2 DEF Receive, BacklogInv, Ranges
<1>3. CASE Buffer
  <2>1. \A i \in 1 .. Len(backlog') :
          \/ i \in 1 .. Len(backlog) /\ backlog'[i] = backlog[i]
          \/ i = Len(backlog) + 1 /\ backlog'[i] = recvd
    BY <1>3, ExtendedIndex, Zenon DEF Buffer, Ranges
  <2>2. rpc = "append" /\ rpc' = "unclaim" /\ UNCHANGED <<recvd, lastPos>>
    BY <1>3 DEF Buffer, Kept
  <2>3. \A i \in 1 .. Len(backlog') : backlog'[i] \notin Bad /\ backlog'[i] <= recvd
    BY <2>1, <2>2 DEF BacklogInv, Ranges
  <2>4. ASSUME NEW i \in 1 .. Len(backlog'), NEW j \in 1 .. Len(backlog'), i < j
        PROVE  backlog'[i] < backlog'[j]
    <3>1. Len(backlog') = Len(backlog) + 1
      BY <1>3 DEF Buffer, Extended
    <3>2. i \in 1 .. Len(backlog) /\ backlog'[i] = backlog[i]
      BY <2>1, <2>4, <3>1 DEF Ranges
    <3>3. CASE j \in 1 .. Len(backlog) /\ backlog'[j] = backlog[j]
      BY <2>4, <3>2, <3>3 DEF BacklogInv
    <3>4. CASE backlog'[j] = recvd
      BY <2>2, <3>2, <3>4 DEF BacklogInv
    <3>5. QED
      BY <2>1, <3>3, <3>4
  <2>5. QED
    BY <2>2, <2>3, <2>4 DEF BacklogInv
<1>4. CASE Beat \/ Direct \/ Snapshot \/ Push \/ Skip
  <2>1. /\ UNCHANGED <<recvd, lastPos, gateOpen, backlog>>
        /\ rpc' \in {"append", "send"} => rpc' = rpc
    BY <1>4 DEF Beat, Direct, Snapshot, Push, Skip, Kept
  <2>2. QED
    BY <2>1 DEF BacklogInv
<1>5. QED
  BY <1>1, <1>2, <1>3, <1>4 DEF Shape

\* The emit queue stays behind the rest of the backlog and the entry in hand.
LEMMA QueueStep ==
  TypeOK /\ ControlInv /\ BacklogInv /\ QueueInv /\ [Next]_vars => QueueInv'
<1> SUFFICES ASSUME Ranges, ControlInv, BacklogInv, QueueInv, Shape PROVE QueueInv'
  BY StepShape, TypeRanges
<1> USE PositionAssumption
<1>1. CASE Quiet
  BY <1>1 DEF Quiet, QueueInv, Early, Decodable
<1>2. CASE Receive
  BY <1>2 DEF Receive, QueueInv, Ranges, Decodable
<1>3. CASE Buffer
  <2>1. \A i \in 1 .. Len(backlog') :
          \/ i \in 1 .. Len(backlog) /\ backlog'[i] = backlog[i]
          \/ i = Len(backlog) + 1 /\ backlog'[i] = recvd
    BY <1>3, ExtendedIndex DEF Buffer, Ranges
  <2>2. QED
    BY <1>3, <2>1 DEF Buffer, Kept, QueueInv, Ranges, Decodable
<1>4. CASE Skip
  BY <1>4 DEF Skip, Kept, QueueInv, Ranges, Decodable
<1>5. CASE Beat \/ Direct \/ Snapshot \/ Push
  <2>1. PICK it :
          /\ Grown(it) /\ UNCHANGED <<recvd, lastPos, gateOpen, backlog>>
          /\ \/ /\ it.kind = "ping" /\ it.pos = lastPos
                /\ gateOpen /\ ~Early
                /\ rpc' \notin {"append", "send"}
                /\ UNCHANGED <<apc, flushed>>
             \/ /\ it.kind = "inc" /\ it.pos = recvd
                /\ flushed = Len(backlog) /\ ~Early
                /\ rpc = "send" /\ rpc' = "msg"
                /\ UNCHANGED <<apc, flushed>>
             \/ /\ it.kind = "snap" /\ Gated /\ apc = "inject"
                /\ UNCHANGED <<rpc, apc, flushed>>
             \/ /\ it.kind = "inc" /\ it.pos = backlog[flushed'] /\ it.pos > Anchor
                /\ ~Early' /\ rpc # "send"
                /\ flushed < Len(backlog) /\ flushed' = flushed + 1
                /\ UNCHANGED rpc
    BY <1>5, Enqueued, Zenon DEF Early
  <2>2. ASSUME NEW i \in 1 .. Len(sent)
        PROVE  /\ sent[i].kind = "inc" =>
                    /\ sent[i].pos \in Decodable(Anchor, recvd')
                    /\ \A j \in (flushed' + 1) .. Len(backlog') : sent[i].pos < backlog'[j]
                    /\ rpc' \in {"append", "send"} => sent[i].pos < recvd'
               /\ sent[i].kind = "ping" => sent[i].pos <= recvd' /\ gateOpen'
               /\ sent[i].kind # "snap" /\ Gated => ~Early'
    BY <2>1 DEF QueueInv, Ranges, Early
  <2>3. /\ it.kind = "inc" =>
             /\ it.pos \in Decodable(Anchor, recvd')
             /\ \A j \in (flushed' + 1) .. Len(backlog') : it.pos < backlog'[j]
             /\ rpc' \in {"append", "send"} => it.pos < recvd'
        /\ it.kind = "ping" => it.pos <= recvd' /\ gateOpen'
        /\ it.kind # "snap" /\ Gated => ~Early'
    BY <2>1 DEF BacklogInv, Ranges, Early, Decodable
  <2>4. QED
    BY <2>1, <2>2, <2>3, Zenon DEF QueueInv, Grown, Early
<1>6. QED
  BY <1>1, <1>2, <1>3, <1>4, <1>5 DEF Shape

\* No entry beyond the anchor gets lost between the connection and the queue.
LEMMA CoverageStep ==
  TypeOK /\ ControlInv /\ BacklogInv /\ CoverageInv /\ [Next]_vars => CoverageInv'
<1> SUFFICES ASSUME Ranges, ControlInv, BacklogInv, CoverageInv, Shape
             PROVE  CoverageInv'
  BY StepShape, TypeRanges
<1> USE PositionAssumption
<1>1. CASE Quiet
  BY <1>1, Zenon DEF Quiet, CoverageInv, GivingUp, Entry, Item, Decodable
<1>2. CASE Receive
  <2>1. ASSUME NEW q \in Decodable(Anchor, recvd')
        PROVE  q \in Decodable(Anchor, recvd) \/ (q = recvd' /\ GivingUp')
    BY <1>2 DEF Receive, Decodable, Ranges, GivingUp
  <2>2. QED
    BY <1>2, <2>1 DEF Receive, CoverageInv, GivingUp, Entry, Item
<1>3. CASE Buffer
  <2>1. /\ Len(backlog') = Len(backlog) + 1 /\ backlog'[Len(backlog) + 1] = recvd
        /\ \A i \in 1 .. Len(backlog) : backlog'[i] = backlog[i]
        /\ rpc = "append" /\ UNCHANGED <<recvd, flushed, sent>>
    BY <1>3 DEF Buffer, Extended, Kept
  <2>2. ASSUME NEW q \in Decodable(Anchor, recvd),
               NEW j \in (flushed + 1) .. Len(backlog), backlog[j] = q
        PROVE  j \in (flushed' + 1) .. Len(backlog') /\ backlog'[j] = q
    BY <2>1, <2>2 DEF Ranges
  <2>3. Len(backlog') \in (flushed' + 1) .. Len(backlog') /\ backlog'[Len(backlog')] = recvd
    BY <2>1 DEF Ranges
  <2>4. ASSUME NEW q \in Decodable(Anchor, recvd)
        PROVE  \/ \E i \in 1 .. Len(sent) : sent[i] = Entry(q)
               \/ \E j \in (flushed' + 1) .. Len(backlog') : backlog'[j] = q
    BY <2>2, <2>3, Zenon DEF CoverageInv
  <2>5. QED
    BY <2>1, <2>4 DEF CoverageInv, Entry, Item, Decodable
<1>4. CASE Skip
  <2>1. ASSUME NEW q \in Decodable(Anchor, recvd),
               NEW j \in (flushed + 1) .. Len(backlog), backlog[j] = q
        PROVE  j \in (flushed' + 1) .. Len(backlog')
    BY <1>4, <2>1 DEF Skip, Kept, Ranges, Decodable
  <2>2. QED
    BY <1>4, <2>1 DEF Skip, Kept, CoverageInv, Entry, Item, Decodable
<1>5. CASE Beat \/ Direct \/ Snapshot \/ Push
  <2>1. PICK it :
          /\ Grown(it) /\ UNCHANGED <<recvd, backlog>>
          /\ \/ GivingUp = FALSE /\ flushed' = flushed
             \/ it = Entry(recvd) /\ flushed' = flushed
             \/ UNCHANGED <<rpc, flushed>>
             \/ /\ it = Entry(backlog[flushed']) /\ rpc' = rpc
                /\ flushed < Len(backlog) /\ flushed' = flushed + 1
    BY <1>5, Enqueued DEF GivingUp
  <2>2. ASSUME NEW q \in Decodable(Anchor, recvd)
        PROVE  \/ \E i \in 1 .. Len(sent') : sent'[i] = Entry(q)
               \/ \E j \in (flushed' + 1) .. Len(backlog) : backlog[j] = q
               \/ q = recvd /\ GivingUp'
    <3>1. CASE \E i \in 1 .. Len(sent) : sent[i] = Entry(q)
      BY <2>1, <3>1 DEF Grown, Ranges
    <3>2. CASE \E j \in (flushed + 1) .. Len(backlog) : backlog[j] = q
      <4>1. PICK j \in (flushed + 1) .. Len(backlog) : backlog[j] = q
        BY <3>2
      <4>2. CASE j \in (flushed' + 1) .. Len(backlog)
        BY <4>1, <4>2
      <4>3. CASE ~(j \in (flushed' + 1) .. Len(backlog))
        <5>1. it = Entry(q)
          BY <2>1, <4>1, <4>3 DEF Ranges
        <5>2. Len(sent') \in 1 .. Len(sent') /\ sent'[Len(sent')] = it
          BY <2>1 DEF Grown, Ranges
        <5>3. QED
          BY <5>1, <5>2
      <4>4. QED
        BY <4>2, <4>3
    <3>3. CASE q = recvd /\ GivingUp
      <4>1. Len(sent') \in 1 .. Len(sent') /\ sent'[Len(sent')] = it
        BY <2>1 DEF Grown, Ranges
      <4>2. QED
        BY <2>1, <3>3, <4>1, Zenon DEF GivingUp
    <3>4. QED
      BY <3>1, <3>2, <3>3, Zenon DEF CoverageInv, GivingUp
  <2>3. QED
    BY <2>1, <2>2, Zenon DEF CoverageInv, GivingUp, Entry, Item, Decodable
<1>6. QED
  BY <1>1, <1>2, <1>3, <1>4, <1>5 DEF Shape

\* The dump stays ahead of everything else in the queue.
LEMMA SnapshotStep ==
  TypeOK /\ ControlInv /\ BacklogInv /\ SnapshotInv /\ [Next]_vars => SnapshotInv'
<1> SUFFICES ASSUME Ranges, ControlInv, BacklogInv, SnapshotInv, Shape
             PROVE  SnapshotInv'
  BY StepShape, TypeRanges, Zenon
<1>1. CASE Quiet \/ Receive \/ Buffer \/ Skip
  <2>1. UNCHANGED <<injected, sent>>
    BY <1>1, Zenon DEF Quiet, Receive, Buffer, Skip
  <2>2. QED
    BY <2>1, Zenon DEF SnapshotInv, Item
<1>2. CASE Beat \/ Direct \/ Snapshot \/ Push
  <2>1. PICK it :
          /\ Grown(it)
          /\ \/ /\ it.kind # "snap" /\ (Gated => injected = DumpEvents)
                /\ injected' = injected
             \/ /\ it = Item("snap", injected') /\ it.kind = "snap"
                /\ injected' = injected + 1
    <3>1. apc \in {"check", "next", "push", "discard", "done"} => injected = DumpEvents
      BY DEF ControlInv
    <3>2. rpc = "send" => (Gated => injected = DumpEvents)
      BY DEF ControlInv, BacklogInv
    <3>3. QED
      BY <1>2, <3>1, <3>2, Enqueued
  <2>2. Len(sent') \in 1 .. Len(sent') /\ sent'[Len(sent')] = it
    BY <2>1 DEF Grown, Ranges
  <2>3. ASSUME NEW k \in 1 .. injected'
        PROVE  \E i \in 1 .. Len(sent') : sent'[i] = Item("snap", k)
    <3>1. CASE k \in 1 .. injected
      <4>1. PICK i \in 1 .. Len(sent) : sent[i] = Item("snap", k)
        BY <3>1 DEF SnapshotInv
      <4>2. i \in 1 .. Len(sent') /\ sent'[i] = sent[i]
        BY <2>1 DEF Grown, Ranges
      <4>3. QED
        BY <4>1, <4>2
    <3>2. CASE ~(k \in 1 .. injected)
      <4>1. k = injected' /\ it = Item("snap", injected')
        BY <2>1, <3>2 DEF Ranges
      <4>2. QED
        BY <2>2, <4>1
    <3>3. QED
      BY <3>1, <3>2
  <2>4. ASSUME Gated, NEW i \in 1 .. Len(sent'), sent'[i].kind # "snap",
               NEW k \in 1 .. DumpEvents
        PROVE  \E j \in 1 .. i : sent'[j] = Item("snap", k)
    <3>1. CASE i \in 1 .. Len(sent) /\ sent'[i] = sent[i]
      <4>1. PICK j \in 1 .. i : sent[j] = Item("snap", k)
        BY <2>4, <3>1 DEF SnapshotInv
      <4>2. sent'[j] = sent[j]
        BY <2>1, <3>1 DEF Grown, Ranges
      <4>3. QED
        BY <4>1, <4>2, Zenon
    <3>2. CASE i = Len(sent) + 1 /\ sent'[i] = it
      <4>1. k \in 1 .. injected
        BY <2>1, <2>4, <3>2, Zenon
      <4>2. PICK j \in 1 .. Len(sent) : sent[j] = Item("snap", k)
        BY <4>1, Zenon DEF SnapshotInv
      <4>3. j \in 1 .. i /\ sent'[j] = sent[j]
        BY <2>1, <3>2 DEF Grown, Ranges
      <4>4. QED
        BY <4>2, <4>3, Zenon
    <3>3. QED
      BY <2>1, <3>1, <3>2 DEF Grown
  <2>5. QED
    BY <2>3, <2>4, Zenon DEF SnapshotInv, Item
<1>3. QED
  BY <1>1, <1>2 DEF Shape

\* Entries are queued in binlog order, once, behind the dump.
LEMMA OrderStep ==
  TypeOK /\ ControlInv /\ BacklogInv /\ QueueInv /\ BinlogOrder /\ [Next]_vars
    => BinlogOrder'
<1> SUFFICES ASSUME Ranges, ControlInv, BacklogInv, QueueInv, BinlogOrder, Shape
             PROVE  BinlogOrder'
  BY StepShape, TypeRanges, Zenon
<1>1. CASE Quiet \/ Receive \/ Buffer \/ Skip
  <2>1. UNCHANGED sent
    BY <1>1, Zenon DEF Quiet, Receive, Buffer, Skip
  <2>2. QED
    BY <2>1, Zenon DEF BinlogOrder
<1>2. CASE Beat \/ Direct \/ Snapshot \/ Push
  <2>1. PICK it :
          /\ Grown(it)
          /\ \/ it.kind = "ping"
             \/ it.kind = "inc" /\ it.pos = recvd /\ rpc = "send"
             \/ it.kind = "snap" /\ Gated /\ apc = "inject"
             \/ /\ it.kind = "inc" /\ it.pos = backlog[flushed + 1] /\ it.pos > Anchor
                /\ flushed < Len(backlog)
    BY <1>2, Enqueued
  <2>2. it.kind = "inc" => it.pos > Anchor
    BY <2>1, Zenon DEF BacklogInv
  <2>3. ASSUME NEW i \in 1 .. Len(sent), sent[i].kind = "inc"
        PROVE  it.kind = "ping" \/ (it.kind = "inc" /\ it.pos > sent[i].pos)
    <3>1. Gated => apc # "inject"
      BY <2>3, Zenon DEF QueueInv
    <3>2. rpc = "send" => sent[i].pos < recvd
      BY <2>3 DEF QueueInv
    <3>3. flushed < Len(backlog) => sent[i].pos < backlog[flushed + 1]
      BY <2>3 DEF QueueInv, Ranges
    <3>4. recvd \in Nat /\ sent[i].pos \in Nat /\ (flushed < Len(backlog) => backlog[flushed + 1] \in Nat)
      BY DEF Ranges
    <3>5. QED
      BY <2>1, <3>1, <3>2, <3>3, <3>4, Zenon
  <2>4. ASSUME NEW i \in 1 .. Len(sent'), sent'[i].kind = "inc"
        PROVE  sent'[i].pos > Anchor
    BY <2>1, <2>2, <2>4, Zenon DEF Grown, BinlogOrder
  <2>5. ASSUME NEW i \in 1 .. Len(sent'), sent'[i].kind = "inc",
               NEW j \in (i + 1) .. Len(sent')
        PROVE  sent'[j].kind = "ping" \/ (sent'[j].kind = "inc" /\ sent'[j].pos > sent'[i].pos)
    <3>1. i \in 1 .. Len(sent) /\ sent'[i] = sent[i]
      BY <2>1 DEF Grown, Ranges
    <3>2. \/ j \in (i + 1) .. Len(sent) /\ sent'[j] = sent[j]
          \/ sent'[j] = it
      BY <2>1 DEF Grown, Ranges
    <3>3. QED
      BY <2>3, <2>5, <3>1, <3>2, Zenon DEF BinlogOrder
  <2>6. QED
    BY <2>4, <2>5, Zenon DEF BinlogOrder
<1>3. QED
  BY <1>1, <1>2 DEF Shape

\* Nothing is queued ahead of an entry that should precede it.
LEMMA NoGapStep ==
  TypeOK /\ ControlInv /\ BacklogInv /\ QueueInv /\ CoverageInv /\ NoGap /\ [Next]_vars
    => NoGap'
<1> SUFFICES ASSUME Ranges, ControlInv, BacklogInv, CoverageInv, NoGap, Shape
             PROVE  NoGap'
  BY StepShape, TypeRanges
<1> USE PositionAssumption
<1>1. CASE Quiet \/ Receive \/ Buffer \/ Skip
  <2>1. UNCHANGED sent
    BY <1>1, Zenon DEF Quiet, Receive, Buffer, Skip
  <2>2. QED
    BY <2>1 DEF NoGap, Entry, Item, Decodable
<1>2. CASE Beat \/ Direct \/ Snapshot \/ Push
  <2>1. PICK it :
          /\ Grown(it)
          /\ \/ it.kind = "snap"
             \/ /\ it.pos = lastPos /\ flushed = Len(backlog) /\ rpc = "recv"
             \/ /\ it = Entry(it.pos) /\ it.pos = recvd /\ flushed = Len(backlog)
             \/ /\ it = Entry(it.pos) /\ it.pos = backlog[flushed + 1]
                /\ flushed < Len(backlog)
    BY <1>2, Enqueued, Zenon
  <2>2. Len(sent') \in 1 .. Len(sent') /\ sent'[Len(sent')] = it
    BY <2>1 DEF Grown, Ranges
  <2>3. ASSUME it.kind # "snap", NEW q \in Decodable(Anchor, it.pos)
        PROVE  \E j \in 1 .. Len(sent') : sent'[j] = Entry(q)
    <3>1. it.pos <= recvd /\ it.pos \in Nat
      BY <2>1, <2>3 DEF BacklogInv, Ranges
    <3>2. q \in Decodable(Anchor, recvd) /\ q <= it.pos /\ q \in Nat
      BY <3>1 DEF Decodable, Ranges
    <3>3. CASE \E i \in 1 .. Len(sent) : sent[i] = Entry(q)
      BY <2>1, <3>3 DEF Grown, Ranges
    <3>4. CASE \E j \in (flushed + 1) .. Len(backlog) : backlog[j] = q
      <4>1. PICK j \in (flushed + 1) .. Len(backlog) : backlog[j] = q
        BY <3>4, Zenon
      <4>2. it = Entry(it.pos) /\ it.pos = backlog[flushed + 1]
        BY <2>1, <2>3, <4>1 DEF Ranges
      <4>3. j = flushed + 1
        BY <3>2, <4>1, <4>2 DEF BacklogInv, Ranges
      <4>4. QED
        BY <2>2, <4>1, <4>2, <4>3
    <3>5. CASE q = recvd /\ GivingUp
      <4>1. it = Entry(q)
        BY <2>1, <2>3, <3>1, <3>2, <3>5 DEF GivingUp, BacklogInv, Ranges
      <4>2. QED
        BY <2>2, <4>1
    <3>6. QED
      BY <3>2, <3>3, <3>4, <3>5, Zenon DEF CoverageInv, GivingUp
  <2>4. ASSUME NEW i \in 1 .. Len(sent'), sent'[i].kind # "snap",
               NEW q \in Decodable(Anchor, sent'[i].pos)
        PROVE  \E j \in 1 .. i : sent'[j] = Entry(q)
    <3>1. CASE i \in 1 .. Len(sent) /\ sent'[i] = sent[i]
      <4>1. PICK j \in 1 .. i : sent[j] = Entry(q)
        BY <2>4, <3>1, Zenon DEF NoGap
      <4>2. sent'[j] = sent[j]
        BY <2>1, <3>1 DEF Grown, Ranges
      <4>3. QED
        BY <4>1, <4>2
    <3>2. CASE i = Len(sent) + 1 /\ sent'[i] = it
      <4>1. i = Len(sent')
        BY <2>1, <3>2 DEF Grown
      <4>2. QED
        BY <2>3, <2>4, <3>2, <4>1, Zenon
    <3>3. QED
      BY <2>1, <3>1, <3>2 DEF Grown
  <2>5. QED
    BY <2>4, Zenon DEF NoGap, Entry, Item, Decodable
<1>3. QED
  BY <1>1, <1>2 DEF Shape

\* The queue only grows, so what is durable stays where it is.
LEMMA SentGrows ==
  TypeOK /\ ControlInv /\ BacklogInv /\ [Next]_vars
    => \A i \in 1 .. Len(sent) : i \in 1 .. Len(sent') /\ sent'[i] = sent[i]
<1> SUFFICES ASSUME Ranges, ControlInv, BacklogInv, Shape, NEW i \in 1 .. Len(sent)
             PROVE  i \in 1 .. Len(sent') /\ sent'[i] = sent[i]
  BY StepShape, TypeRanges, Zenon
<1>1. CASE Quiet \/ Receive \/ Buffer \/ Skip
  BY <1>1 DEF Quiet, Receive, Buffer, Skip
<1>2. CASE Beat \/ Direct \/ Snapshot \/ Push
  <2>1. PICK it : Grown(it)
    BY <1>2, Enqueued, Zenon
  <2>2. QED
    BY <2>1 DEF Grown, Ranges
<1>3. QED
  BY <1>1, <1>2, Zenon DEF Shape

\* A checkpoint that advances to an item's position, once the queue is durable
\* up to that item, is still honest.
LEMMA DurablePrefix ==
  ASSUME TypeOK, NoGap, SnapshotInv, CheckpointHonest,
         NEW k \in 1 .. Len(sent), acked <= k,
         NEW p \in Nat, sent[k].kind = "snap" => p <= Anchor,
         sent[k].kind # "snap" => p <= sent[k].pos,
         acked' = k, sent' = sent, stored' \in {stored, p}
  PROVE  CheckpointHonest'
<1> USE PositionAssumption
<1>1. stored \in Nat /\ acked \in Nat /\ k \in Nat /\ sent[k].pos \in Nat
  BY TypeRanges DEF TypeOK, Ranges
<1>2. ASSUME NEW q \in Decodable(Anchor, stored')
      PROVE  \E i \in 1 .. k : sent[i] = Entry(q)
  <2>1. CASE q \in Decodable(Anchor, stored)
    BY <1>1, <2>1 DEF CheckpointHonest
  <2>2. CASE ~(q \in Decodable(Anchor, stored))
    <3>1. sent[k].kind # "snap" /\ q \in Decodable(Anchor, sent[k].pos)
      BY <1>1, <1>2, <2>2 DEF Decodable
    <3>2. QED
      BY <3>1, Zenon DEF NoGap
  <2>3. QED
    BY <2>1, <2>2, Zenon
<1>3. ASSUME stored' > Anchor, Gated, NEW n \in 1 .. DumpEvents
      PROVE  \E i \in 1 .. k : sent[i] = Item("snap", n)
  <2>1. CASE stored > Anchor
    BY <1>1, <1>3, <2>1 DEF CheckpointHonest
  <2>2. CASE ~(stored > Anchor)
    <3>1. sent[k].kind # "snap"
      BY <1>1, <1>3, <2>2
    <3>2. QED
      BY <1>3, <3>1 DEF SnapshotInv
  <2>3. QED
    BY <2>1, <2>2, Zenon
<1>4. QED
  BY <1>2, <1>3, Zenon DEF CheckpointHonest, Decodable, Entry, Item

\* The checkpoint stays honest.
LEMMA CheckpointStep == HandoffInv /\ [Next]_vars => CheckpointHonest'
<1> SUFFICES ASSUME HandoffInv, [Next]_vars PROVE CheckpointHonest'
  OBVIOUS
<1> USE PositionAssumption DEF recvVars, gateVars, bufVars, sinkVars
<1>1. CASE EmitOk /\ ~Async
  <2>1. taken \in 1 .. Len(sent) /\ acked <= taken
    BY <1>1 DEF EmitOk, HandoffInv, TypeOK, ControlInv
  <2>2. /\ acked' = taken /\ sent' = sent
        /\ \/ sent[taken].kind = "inc" /\ stored' = Later(stored, sent[taken].pos)
           \/ sent[taken].kind # "inc" /\ stored' = stored
    BY Zenon, <1>1 DEF EmitOk
  <2>3. sent[taken].pos \in Nat
    BY <2>1, TypeRanges, Zenon DEF HandoffInv, Ranges
  <2>4. CASE sent[taken].kind = "inc"
    BY <2>1, <2>2, <2>3, <2>4, DurablePrefix DEF HandoffInv, Later
  <2>5. CASE sent[taken].kind # "inc"
    <3>1. stored' \in {stored, 0}
      BY <2>2, <2>5, Zenon
    <3>2. QED
      BY <2>1, <2>2, <2>3, <3>1, DurablePrefix DEF HandoffInv
  <2>6. QED
    BY <2>4, <2>5, Zenon
<1>2. CASE Notify
  <2>1. PICK k \in (acked + 1) .. (IF failAt = 0 THEN Accepted ELSE failAt - 1) :
          /\ acked' = k
          /\ stored' \in {stored, SourcePos(sent[k])}
    BY <1>2, Zenon DEF Notify, Later
  <2>2. k \in 1 .. Len(sent) /\ acked <= k
    BY <2>1 DEF HandoffInv, TypeOK, Accepted
  <2>3. sent[k].kind \in {"inc", "snap", "ping"} /\ sent[k].pos \in Nat
    BY <2>2, TypeRanges, Zenon DEF HandoffInv, Ranges
  <2>4. sent[k].kind = "inc" => sent[k].pos > Anchor
    BY <2>2 DEF HandoffInv, BinlogOrder
  <2>5. /\ SourcePos(sent[k]) \in Nat
        /\ sent[k].kind = "snap" => SourcePos(sent[k]) <= Anchor
        /\ sent[k].kind # "snap" => SourcePos(sent[k]) <= sent[k].pos
    BY <2>3, <2>4 DEF SourcePos
  <2>6. sent' = sent
    BY <1>2, Zenon DEF Notify
  <2>7. QED
    BY <2>1, <2>2, <2>5, <2>6, DurablePrefix, Zenon DEF HandoffInv
<1>3. CASE AppAnchor
  <2>1. UNCHANGED <<acked, sent>> /\ stored' = Later(stored, Anchor)
    BY <1>3, Zenon DEF AppAnchor
  <2>2. stored \in Nat
    BY DEF HandoffInv, TypeOK
  <2>3. Decodable(Anchor, stored') \subseteq Decodable(Anchor, stored)
    BY <2>1, <2>2 DEF Later, Decodable
  <2>4. stored' > Anchor => stored > Anchor
    BY <2>1, <2>2 DEF Later
  <2>5. QED
    BY <2>1, <2>3, <2>4, Zenon DEF HandoffInv, CheckpointHonest, Decodable, Entry, Item
<1>4. CASE ~((EmitOk /\ ~Async) \/ Notify \/ AppAnchor)
  <2>1. UNCHANGED <<acked, stored>>
    <3>1. CASE Receiver
      BY Zenon, <3>1 DEF Receiver, Establish, EstablishFail, LoopTop, RecvTimeout, ConnFail,
         RecvMsg, RecvKeepalive, ConsumeBad, Consume, AppendBlock, AppendEntry, AppendFail,
         Unclaim, SendEntry, SendAbort, NextEntry, AckMsg, RunReturn
    <3>2. CASE Emitter \/ AsyncFail \/ Cancel \/ UNCHANGED vars
      BY Zenon, <1>4, <3>2 DEF Emitter, EmitTake, EmitOk, EmitErr, EmitStop, AsyncFail, Cancel, vars
    <3>3. CASE Application
      BY <1>4, <3>3, Zenon DEF Application, AppReady, Inject, InjectDone, ReleaseCheck,
         ReleaseNext, ReleasePush, ReleaseDiscard, AppFail
    <3>4. QED
      BY <1>4, <3>1, <3>2, <3>3 DEF Next
  <2>2. \A i \in 1 .. Len(sent) : sent'[i] = sent[i]
    BY SentGrows DEF HandoffInv
  <2>3. \A i \in 1 .. acked : sent'[i] = sent[i]
    <3>1. acked \in Nat /\ Len(sent) \in Nat /\ acked <= Len(sent)
      BY DEF HandoffInv, TypeOK
    <3>2. QED
      BY <2>2, <3>1
  <2>4. QED
    BY <2>1, <2>3 DEF HandoffInv, CheckpointHonest, Decodable, Entry, Item
<1>5. QED
  BY <1>1, <1>2, <1>3, <1>4

-----------------------------------------------------------------------------
\* The handoff invariant holds in every reachable state of a session: control,
\* backlog, queue order, coverage and checkpoint (runner.go, gate.go).
THEOREM Handoff == Spec => []HandoffInv
<1>1. Init => HandoffInv
  <2> SUFFICES ASSUME Init PROVE HandoffInv
    BY Zenon
  <2> USE PositionAssumption, BoundAssumption, ModeAssumption
  <2>1. TypeOK
    <3>1. apc \in {"wait", "none"} /\ stored \in {0, Start}
      BY DEF Init
    <3>2. /\ Len(backlog) = 0 /\ backlog \in Seq((Start + 1) .. LastEntry)
          /\ Len(sent) = 0 /\ sent \in Seq([kind : {"inc", "snap", "ping"}, pos : Nat])
      BY DEF Init
    <3>3. /\ ctxDone \in BOOLEAN /\ ready \in BOOLEAN /\ hSet \in BOOLEAN
          /\ gateOpen \in BOOLEAN /\ bufOpen \in BOOLEAN /\ bufBlocked \in BOOLEAN /\ sinkErr \in BOOLEAN
      BY Zenon DEF Init
    <3>4. /\ recvd \in Start .. LastEntry /\ lastPos \in 0 .. LastEntry
          /\ firstUnacked \in 0 .. LastEntry /\ ackedTo \in 0 .. LastEntry
          /\ aheadStreak \in 0 .. 2 /\ bufInflight \in 0 .. 1
          /\ injected \in 0 .. DumpEvents
          /\ delivered \in 0 .. LastEntry /\ stored \in 0 .. LastEntry
      BY <3>1 DEF Init
    <3>5. /\ drainedC \in 0 .. Len(backlog) /\ flushed \in 0 .. drainedC
          /\ taken \in 0 .. Len(sent) /\ emitted \in 0 .. taken
          /\ acked \in 0 .. taken /\ failAt \in 0 .. taken
      BY <3>2 DEF Init
    <3>6. rpc = "init" /\ epc = "off"
      BY Zenon DEF Init
    <3>7. QED
      BY <3>1, <3>2, <3>3, <3>4, <3>5, <3>6, Zenon DEF TypeOK
  <2>2. ControlInv
    BY DEF Init, ControlInv
  <2>3. Decodable(Anchor, recvd) = {} /\ Decodable(Anchor, stored) = {} /\ stored <= Anchor
    BY DEF Init, Decodable
  <2>4. Len(sent) = 0 /\ Len(backlog) = 0 /\ injected = 0 /\ lastPos <= recvd
    BY DEF Init
  <2>5. BacklogInv /\ QueueInv /\ BinlogOrder /\ NoGap
    BY <2>4 DEF Init, BacklogInv, QueueInv, BinlogOrder, NoGap
  <2>6. CoverageInv /\ SnapshotInv /\ CheckpointHonest
    BY <2>1, <2>3, <2>4 DEF CoverageInv, SnapshotInv, CheckpointHonest, TypeOK
  <2>7. QED
    BY <2>1, <2>2, <2>5, <2>6 DEF HandoffInv
<1>2. HandoffInv /\ [Next]_vars => HandoffInv'
  <2> SUFFICES ASSUME HandoffInv, [Next]_vars PROVE HandoffInv'
    OBVIOUS
  <2>1. TypeOK' /\ ControlInv'
    BY TypeStep, ControlStep DEF HandoffInv
  <2>2. BacklogInv' /\ QueueInv' /\ CoverageInv' /\ SnapshotInv'
    BY BacklogStep, QueueStep, CoverageStep, SnapshotStep DEF HandoffInv
  <2>3. BinlogOrder' /\ NoGap'
    BY OrderStep, NoGapStep DEF HandoffInv
  <2>4. QED
    BY <2>1, <2>2, <2>3, CheckpointStep DEF HandoffInv
<1>3. QED
  BY <1>1, <1>2, PTL DEF Spec

\* Every variable keeps its type.
THEOREM TypeCorrect == Spec => []TypeOK
BY Handoff, PTL DEF HandoffInv

\* The sink sees the dump, then each entry beyond the anchor once and in binlog
\* order (gate.go Drop, runner.go Release).
THEOREM QueueInBinlogOrder == Spec => []BinlogOrder
BY Handoff, PTL DEF HandoffInv

\* No entry overtakes one it should follow, and no heartbeat vouches for an
\* entry that is not queued ahead of it (runner.go consume, heartbeat).
THEOREM QueueHasNoGap == Spec => []NoGap
BY Handoff, PTL DEF HandoffInv

\* The checkpoint covers only what the sink has made durable (markEmitted and
\* the async notifier), so that a restart from it loses nothing.
THEOREM HonestCheckpoint == Spec => []CheckpointHonest
BY Handoff, PTL DEF HandoffInv

\* The gate opens only over an empty backlog with no append in flight (Release
\* and consume's bufInflight claim).
THEOREM NoneStranded == Spec => []NothingStranded
<1>1. HandoffInv => NothingStranded
  <2> SUFFICES ASSUME HandoffInv, gateOpen,
                      rpc \in {"top", "recv", "entry", "unclaim", "msg"},
                      NEW q \in Decodable(Anchor, recvd)
               PROVE  \E i \in 1 .. Len(sent) : sent[i] = Entry(q)
    BY Zenon DEF NothingStranded
  <2>1. flushed = Len(backlog) /\ Len(backlog) \in Nat
    BY DEF HandoffInv, ControlInv, TypeOK
  <2>2. QED
    BY <2>1 DEF HandoffInv, CoverageInv
<1>2. QED
  BY <1>1, Handoff, PTL

\* maybeAckRange acknowledges every entry received once, and only those: the
\* range it sends next is what came in since the last ack, whatever entries
\* cannot be decoded and wherever the session times out.
THEOREM AcksExact == Spec => []AckRangeExact
<1>1. Init => AckInv
  <2> SUFFICES ASSUME Init PROVE AckInv
    OBVIOUS
  <2>1. recvd = Start /\ firstUnacked = 0 /\ ackedTo = 0 /\ lastPos = 0
    BY DEF Init
  <2>2. Start \in Nat /\ Decodable(Start, Start) = {}
    BY PositionAssumption DEF Decodable
  <2> QED
    BY <2>1, <2>2 DEF AckInv
<1>2. HandoffInv /\ AckInv /\ [Next]_vars => AckInv'
  BY AckStep DEF HandoffInv
<1>3. AckInv => AckRangeExact
  BY DEF AckInv, AckRangeExact
<1> QED
  BY <1>1, <1>2, <1>3, Handoff, PTL DEF Spec

=============================================================================
