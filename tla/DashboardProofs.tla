---------------------------- MODULE DashboardProofs ----------------------------
(***************************************************************************)
(* What the hook and the route's handlers keep.  The hook's half, HookOK,  *)
(* is inductive alone and gives OneConnection.  The handlers' half adds to *)
(* the types that a stopped handler has no timer left and that one still   *)
(* open always has a way to its end: its first snapshot is under way, and  *)
(* will arm the timers, or both timers are armed.  Without it a handler    *)
(* could stay for ever, which is the safety half of EveryHandlerEnds.      *)
(***************************************************************************)
EXTENDS Dashboard, SequenceTheorems, FiniteSetTheorems, TLAPS

HookOK ==
  /\ live \subseteq Conns
  /\ page \in [mounted : BOOLEAN, retry : BOOLEAN]
  /\ \A c, d \in live : c = d
  /\ page.retry => page.mounted /\ live = {}
  /\ ~page.mounted => live = {}

\* One handler: no timer after stop(), and a way to it before.
WayOut(h) ==
  /\ h.stopped => ~h.interval /\ ~h.selfClose
  /\ ~h.stopped => \/ \E n \in Reads : h.reads[n] # NoRead /\ h.reads[n].first
                   \/ h.interval /\ h.selfClose

HandlersOK ==
  /\ incidents \in Versions /\ pending \in Versions
  /\ handlers \in [Conns -> Handler]
  /\ \A c \in Conns : WayOut(handlers[c])

\* Whenever a handler is open it will arm its timers or has both armed, and once
\* it is stopped none is left, in whatever order abort, cancel, self-close,
\* failed enqueue and the snapshots come (route.ts:56-102).
EveryHandlerHasAWayOut == \A c \in Conns : WayOut(handlers[c])

------------------------------------------------------------------------------
(* The hook. *)

LEMMA AtMostOne ==
  ASSUME NEW S, \A c, d \in S : c = d
  PROVE  /\ Cardinality(S) \in Nat
         /\ Cardinality(S) <= 1
         /\ S = {} => Cardinality(S) = 0
<1>1. CASE S = {}
  BY <1>1, FS_EmptySet
<1>2. CASE S # {}
  <2>1. PICK c : c \in S
    BY <1>2
  <2>2. S = {c}
    BY <2>1
  <2> QED
    BY <2>2, <1>2, FS_Singleton
<1> QED
  BY <1>1, <1>2

LEMMA HookInit == Init => HookOK
BY DEF Init, HookOK

\* connect() is called with no EventSource open and none to be retried.
LEMMA ConnectHook ==
  ASSUME Connect(live), live = {}
  PROVE  /\ live' \subseteq Conns
         /\ \A c, d \in live' : c = d
         /\ live' # {}
BY DEF Connect

LEMMA HookStep == HookOK /\ [Next]_vars => HookOK'
<1> SUFFICES ASSUME HookOK, [Next]_vars
             PROVE  HookOK'
  OBVIOUS
<1>1. CASE Mount
  <2>1. live = {} /\ Connect(live) /\ page' = [mounted |-> TRUE, retry |-> FALSE]
    BY <1>1 DEF Mount, HookOK
  <2> QED
    BY <2>1, ConnectHook DEF HookOK
<1>2. CASE Unmount
  <2>1. live' = {} /\ page' = [mounted |-> FALSE, retry |-> FALSE]
    BY <1>2 DEF Unmount, Close
  <2> QED
    BY <2>1 DEF HookOK
<1>3. CASE Retry
  <2>1. /\ live = {} /\ Connect(live)
        /\ page.mounted
        /\ page' = [page EXCEPT !.retry = FALSE]
    BY <1>3 DEF Retry, HookOK
  <2>2. page'.mounted /\ ~page'.retry /\ page' \in [mounted : BOOLEAN, retry : BOOLEAN]
    BY <2>1 DEF HookOK
  <2> QED
    BY <2>1, <2>2, ConnectHook DEF HookOK
<1>4. ASSUME NEW c \in Conns, Disconnect(c)
      PROVE  HookOK'
  <2>1. c \in live /\ live' = live \ {c} /\ page' = [page EXCEPT !.retry = TRUE]
    BY <1>4 DEF Disconnect, OnError, Close
  <2>2. live' = {} /\ page.mounted
    BY <2>1 DEF HookOK
  <2>3. page'.mounted /\ page' \in [mounted : BOOLEAN, retry : BOOLEAN]
    BY <2>1, <2>2 DEF HookOK
  <2> QED
    BY <2>2, <2>3 DEF HookOK
<1>5. CASE UNCHANGED <<live, page>>
  BY <1>5 DEF HookOK
<1>6. Tick \/ RestartApp => UNCHANGED <<live, page>>
  BY DEF Tick, RestartApp
<1>7. \A c \in Conns : ServerStep(c) \/ Drop(c) \/ Receive(c) => UNCHANGED <<live, page>>
  BY DEF ServerStep, Answer, Interval, SelfClose, Abandon, Drop, Receive
<1>8. UNCHANGED vars => UNCHANGED <<live, page>>
  BY DEF vars
<1> QED
  BY <1>1, <1>2, <1>3, <1>4, <1>5, <1>6, <1>7, <1>8 DEF Next

\* The hook never holds two EventSources, nor one while another is to be
\* retried, and none once it is unmounted.
THEOREM HookHoldsOne == Spec => []OneConnection
<1>1. HookOK => OneConnection
  <2> SUFFICES ASSUME HookOK
               PROVE  OneConnection
    OBVIOUS
  <2>1. /\ Cardinality(live) \in Nat
        /\ Cardinality(live) <= 1
        /\ live = {} => Cardinality(live) = 0
    BY AtMostOne DEF HookOK
  <2>2. CASE page.retry
    BY <2>1, <2>2 DEF HookOK, OneConnection
  <2>3. CASE ~page.retry
    BY <2>1, <2>3 DEF HookOK, OneConnection
  <2> QED
    BY <2>2, <2>3
<1> QED
  BY <1>1, HookInit, HookStep, PTL DEF Spec

------------------------------------------------------------------------------
(* The handlers. *)

LEMMA SnapshotTypes == ErrorFrame \notin Frame /\ NoRead \notin Read
BY DEF ErrorFrame, Frame, NoRead, Read

\* What is asked is a read in its own right.
LEMMA AskedType ==
  ASSUME HandlersOK, NEW first \in BOOLEAN
  PROVE  /\ Asked(first) \in Read
         /\ Asked(first).first = first
         /\ Asked(first) # NoRead
BY DEF HandlersOK, Asked, Read, NoRead

\* stop() leaves no timer and can be repeated.
LEMMA StopIsQuiet ==
  ASSUME NEW h \in Handler, h.stopped => ~h.interval /\ ~h.selfClose
  PROVE  /\ Stop(h) \in Handler
         /\ WayOut(Stop(h))
<1>1. CASE h.stopped
  BY <1>1 DEF Stop, WayOut
<1>2. CASE ~h.stopped
  BY <1>2 DEF Stop, WayOut, Handler
<1> QED
  BY <1>1, <1>2

\* A snapshot that is back leaves the rest of its handler alone.
LEMMA AnsweredType ==
  ASSUME NEW h \in Handler, NEW n \in Reads
  PROVE  LET a == [h EXCEPT !.reads[n] = NoRead] IN
           /\ a \in Handler
           /\ a.stopped = h.stopped /\ a.interval = h.interval /\ a.selfClose = h.selfClose
           /\ \A k \in Reads : k # n => a.reads[k] = h.reads[k]
BY DEF Handler

\* start() goes on after its first send: it arms both timers or finds stop() done.
LEMMA AfterFirstHasAWayOut ==
  ASSUME NEW h \in Handler, h.stopped => ~h.interval /\ ~h.selfClose
  PROVE  AfterFirst(h) \in Handler /\ WayOut(AfterFirst(h))
<1>1. CASE h.stopped
  BY <1>1 DEF AfterFirst, WayOut
<1>2. CASE ~h.stopped
  BY <1>2 DEF AfterFirst, WayOut, Handler
<1> QED
  BY <1>1, <1>2

\* An answered snapshot, whether or not its enqueue threw.
LEMMA ResumedHasAWayOut ==
  ASSUME NEW h \in Handler, WayOut(h), NEW n \in Reads, h.reads[n] # NoRead,
         NEW stops \in BOOLEAN
  PROVE  LET answered == [h EXCEPT !.reads[n] = NoRead]
             Kept     == IF stops THEN Stop(answered) ELSE answered
             resumed  == IF h.reads[n].first THEN AfterFirst(Kept) ELSE Kept
         IN resumed \in Handler /\ WayOut(resumed)
<1> DEFINE answered == [h EXCEPT !.reads[n] = NoRead]
           Kept     == IF stops THEN Stop(answered) ELSE answered
<1>1. /\ answered \in Handler
      /\ answered.stopped = h.stopped
      /\ answered.interval = h.interval /\ answered.selfClose = h.selfClose
      /\ \A k \in Reads : k # n => answered.reads[k] = h.reads[k]
  BY AnsweredType
<1> HIDE DEF answered
<1>2. answered.stopped => ~answered.interval /\ ~answered.selfClose
  BY <1>1 DEF WayOut
<1>3. /\ Kept \in Handler
      /\ Kept.stopped => ~Kept.interval /\ ~Kept.selfClose
      /\ stops => WayOut(Kept)
  BY <1>1, <1>2, StopIsQuiet DEF WayOut
<1>4. CASE h.reads[n].first
  <2> HIDE DEF Kept
  <2>1. AfterFirst(Kept) \in Handler /\ WayOut(AfterFirst(Kept))
    BY <1>3, AfterFirstHasAWayOut
  <2> QED
    BY <2>1, <1>4 DEF Kept, answered
<1>5. CASE ~h.reads[n].first /\ ~stops
  <2>1. WayOut(answered)
    BY <1>1, <1>2, <1>5 DEF WayOut
  <2> QED
    BY <2>1, <1>1, <1>5 DEF answered
<1>6. CASE ~h.reads[n].first /\ stops
  BY <1>3, <1>6 DEF answered
<1> QED
  BY <1>4, <1>5, <1>6

------------------------------------------------------------------------------
LEMMA HandlersInit == Init => HandlersOK
<1>1. NoHandler \in Handler /\ WayOut(NoHandler)
  BY DEF NoHandler, Handler, WayOut
<1>2. 0 \in Versions
  BY DashboardAssumption DEF Versions
<1> QED
  BY <1>1, <1>2 DEF Init, HandlersOK

\* One handler changes; what it may become is all there is to show.
LEMMA OneHandlerChanges ==
  ASSUME HandlersOK, UNCHANGED <<incidents, pending>>,
         NEW c \in Conns, NEW h \in Handler, WayOut(h),
         handlers' = [handlers EXCEPT ![c] = h]
  PROVE  HandlersOK'
BY DEF HandlersOK

LEMMA SendStep ==
  ASSUME HandlersOK, UNCHANGED <<incidents, pending>>,
         NEW c \in Conns, NEW n \in Reads, NEW frame,
         handlers[c].reads[n] # NoRead, Send(c, n, frame)
  PROVE  HandlersOK'
<1> DEFINE h == handlers[c]
           answered == [h EXCEPT !.reads[n] = NoRead]
           Kept(stops) == IF stops THEN Stop(answered) ELSE answered
           resumed(stops) == IF h.reads[n].first THEN AfterFirst(Kept(stops)) ELSE Kept(stops)
<1>1. h \in Handler /\ WayOut(h)
  BY DEF HandlersOK
<1>2. \A stops \in BOOLEAN : resumed(stops) \in Handler /\ WayOut(resumed(stops))
  BY <1>1, ResumedHasAWayOut
<1>3. \E stops \in BOOLEAN : handlers' = [handlers EXCEPT ![c] = resumed(stops)]
  <2>1. \/ handlers' = [handlers EXCEPT ![c] = resumed(FALSE)]
        \/ handlers' = [handlers EXCEPT ![c] = resumed(TRUE)]
    BY DEF Send
  <2> QED
    BY <2>1
<1> HIDE DEF resumed
<1> QED
  BY <1>2, <1>3, OneHandlerChanges

LEMMA AnswerStep ==
  ASSUME HandlersOK, NEW c \in Conns, NEW n \in Reads, Answer(c, n)
  PROVE  HandlersOK'
BY SendStep DEF Answer

LEMMA IntervalStep ==
  ASSUME HandlersOK, NEW c \in Conns, Interval(c)
  PROVE  HandlersOK'
<1>1. PICK n \in Reads :
        /\ handlers[c].reads[n] = NoRead
        /\ handlers' = [handlers EXCEPT ![c].reads[n] = Asked(FALSE)]
  BY DEF Interval
<1> DEFINE h == [handlers[c] EXCEPT !.reads[n] = Asked(FALSE)]
<1>2. handlers[c] \in Handler /\ WayOut(handlers[c])
  BY DEF HandlersOK
<1>3. Asked(FALSE) \in Read
  BY AskedType
<1>4. /\ h \in Handler
      /\ h.stopped = handlers[c].stopped
      /\ h.interval = handlers[c].interval /\ h.selfClose = handlers[c].selfClose
      /\ \A k \in Reads : k # n => h.reads[k] = handlers[c].reads[k]
  BY <1>2, <1>3 DEF Handler
<1>5. handlers' = [handlers EXCEPT ![c] = h]
  BY <1>1
<1> HIDE DEF h
<1>6. WayOut(h)
  BY <1>1, <1>2, <1>4 DEF WayOut
<1> QED
  BY <1>4, <1>5, <1>6, OneHandlerChanges DEF Interval

LEMMA SelfCloseStep ==
  ASSUME HandlersOK, NEW c \in Conns, SelfClose(c)
  PROVE  HandlersOK'
<1> DEFINE fired == [handlers[c] EXCEPT !.selfClose = FALSE]
<1>1. handlers[c] \in Handler /\ WayOut(handlers[c])
  BY DEF HandlersOK
<1>2. fired \in Handler /\ (fired.stopped => ~fired.interval /\ ~fired.selfClose)
  BY <1>1 DEF Handler, WayOut
<1>3. Stop(fired) \in Handler /\ WayOut(Stop(fired))
  BY <1>2, StopIsQuiet
<1>4. handlers' = [handlers EXCEPT ![c] = Stop(fired)]
  BY DEF SelfClose
<1> QED
  BY <1>3, <1>4, OneHandlerChanges DEF SelfClose

LEMMA AbandonStep ==
  ASSUME HandlersOK, NEW c \in Conns, Abandon(c)
  PROVE  HandlersOK'
<1>1. handlers[c] \in Handler /\ WayOut(handlers[c])
  BY DEF HandlersOK
<1>2. Stop(handlers[c]) \in Handler /\ WayOut(Stop(handlers[c]))
  BY <1>1, StopIsQuiet DEF WayOut
<1>3. handlers' = [handlers EXCEPT ![c] = Stop(handlers[c])]
  BY DEF Abandon, HandlersOK
<1> QED
  BY <1>2, <1>3, OneHandlerChanges DEF Abandon

\* The peer's going changes nothing the handler knows.
LEMMA DroppedType ==
  ASSUME NEW h \in Handler, WayOut(h)
  PROVE  [h EXCEPT !.peer = FALSE] \in Handler /\ WayOut([h EXCEPT !.peer = FALSE])
BY DEF Handler, WayOut

LEMMA DropStep ==
  ASSUME HandlersOK, NEW c \in Conns, Drop(c)
  PROVE  HandlersOK'
<1>1. handlers[c] \in Handler /\ WayOut(handlers[c])
  BY DEF HandlersOK
<1>2. handlers' = [handlers EXCEPT ![c] = [handlers[c] EXCEPT !.peer = FALSE]]
  BY DEF Drop, HandlersOK
<1> QED
  BY <1>1, <1>2, DroppedType, OneHandlerChanges DEF Drop

LEMMA CloseStep ==
  ASSUME HandlersOK, UNCHANGED <<incidents, pending>>, NEW closed, Close(closed)
  PROVE  HandlersOK'
<1>1. \A c \in Conns : handlers[c] \in Handler /\ WayOut(handlers[c])
  BY DEF HandlersOK
<1>2. \A c \in Conns : [handlers[c] EXCEPT !.peer = FALSE] \in Handler
                       /\ WayOut([handlers[c] EXCEPT !.peer = FALSE])
  BY <1>1, DroppedType
<1>3. handlers' = [c \in Conns |-> IF c \in closed THEN [handlers[c] EXCEPT !.peer = FALSE]
                                                   ELSE handlers[c]]
  BY DEF Close
<1>4. \A c \in Conns : handlers'[c] \in Handler /\ WayOut(handlers'[c])
  <2> SUFFICES ASSUME NEW c \in Conns
               PROVE  handlers'[c] \in Handler /\ WayOut(handlers'[c])
    OBVIOUS
  <2>1. handlers'[c] \in {handlers[c], [handlers[c] EXCEPT !.peer = FALSE]}
    BY <1>3
  <2> QED
    BY <2>1, <1>1, <1>2
<1>5. handlers' \in [Conns -> Handler]
  BY <1>3, <1>4
<1> QED
  BY <1>4, <1>5 DEF HandlersOK

LEMMA ConnectStep ==
  ASSUME HandlersOK, UNCHANGED <<incidents, pending>>, Connect(live)
  PROVE  HandlersOK'
<1> DEFINE fresh ==
      [stopped |-> FALSE, interval |-> FALSE, selfClose |-> FALSE, peer |-> TRUE,
       reads |-> [n \in Reads |-> IF n = 1 THEN Asked(TRUE) ELSE NoRead]]
<1>1. PICK c \in Conns : handlers' = [handlers EXCEPT ![c] = fresh]
  BY DEF Connect
<1>2. Asked(TRUE) \in Read /\ Asked(TRUE).first /\ Asked(TRUE) # NoRead
  BY AskedType
<1>3. [n \in Reads |-> IF n = 1 THEN Asked(TRUE) ELSE NoRead] \in [Reads -> Read \cup {NoRead}]
  BY <1>2
<1>4. fresh \in Handler
  BY <1>3 DEF Handler
<1>5. 1 \in Reads
  BY DashboardAssumption DEF Reads
<1>6. fresh.reads[1] = Asked(TRUE) /\ ~fresh.stopped
  BY <1>5
<1> HIDE DEF fresh
<1>7. WayOut(fresh)
  BY <1>2, <1>5, <1>6 DEF WayOut
<1> QED
  BY <1>1, <1>4, <1>7, OneHandlerChanges

LEMMA HandlersStep == HandlersOK /\ [Next]_vars => HandlersOK'
<1> SUFFICES ASSUME HandlersOK, [Next]_vars
             PROVE  HandlersOK'
  OBVIOUS
<1>1. CASE Tick
  BY <1>1, DashboardAssumption DEF Tick, HandlersOK, Versions
<1>2. CASE RestartApp
  BY <1>2, DashboardAssumption DEF RestartApp, HandlersOK, Versions
<1>3. ASSUME NEW c \in Conns, ServerStep(c)
      PROVE  HandlersOK'
  BY <1>3, AnswerStep, IntervalStep, SelfCloseStep, AbandonStep DEF ServerStep
<1>4. ASSUME NEW c \in Conns, Drop(c)
      PROVE  HandlersOK'
  BY <1>4, DropStep
<1>5. ASSUME NEW c \in Conns, Receive(c)
      PROVE  HandlersOK'
  BY <1>5 DEF Receive, HandlersOK
<1>6. ASSUME NEW c \in Conns, Disconnect(c)
      PROVE  HandlersOK'
  BY <1>6, CloseStep DEF Disconnect, OnError
<1>7. CASE Mount
  BY <1>7, ConnectStep DEF Mount
<1>8. CASE Unmount
  BY <1>8, CloseStep DEF Unmount
<1>9. CASE Retry
  BY <1>9, ConnectStep DEF Retry
<1>10. CASE UNCHANGED vars
  BY <1>10 DEF vars, HandlersOK
<1> QED
  BY <1>1, <1>2, <1>3, <1>4, <1>5, <1>6, <1>7, <1>8, <1>9, <1>10 DEF Next

\* No handler outlives its teardown with a timer armed, and none is open without
\* the timers or the snapshot that will bring it to its end.
THEOREM EveryHandlerCanEnd == Spec => []EveryHandlerHasAWayOut
<1>1. HandlersOK => EveryHandlerHasAWayOut
  BY DEF HandlersOK, EveryHandlerHasAWayOut
<1> QED
  BY <1>1, HandlersInit, HandlersStep, PTL DEF Spec

------------------------------------------------------------------------------
(* What is on its way to the page, and what it shows. *)

Frames == Frame \cup {ErrorFrame, End}

WireOK ==
  /\ drops \in 0 .. MaxDrops
  /\ wire \in [Conns -> Seq(Frames)]
  /\ screen \in Frame

LEMMA WireInit == Init => WireOK
<1>1. <<>> \in Seq(Frames)
  BY EmptySeq
<1>2. 0 \in Versions /\ 0 \in 0 .. MaxDrops
  BY DashboardAssumption DEF Versions
<1> QED
  BY <1>1, <1>2 DEF Init, WireOK, NoScreen, Frame

\* Whatever moment the queries ran at, they bring versions there are.
LEMMA SnapshotsAreFrames ==
  ASSUME HandlersOK, NEW c \in Conns, NEW n \in Reads, handlers[c].reads[n] # NoRead,
         NEW frame \in Snapshots(handlers[c].reads[n]) \cup {ErrorFrame}
  PROVE  frame \in Frames
<1>1. handlers[c].reads[n] \in Read
  BY DEF HandlersOK, Handler
<1>2. handlers[c].reads[n].incidents \in Versions /\ handlers[c].reads[n].pending \in Versions
  BY <1>1 DEF Read
<1>3. \A k \in handlers[c].reads[n].incidents .. incidents : k \in Versions
  BY <1>2, DashboardAssumption DEF HandlersOK, Versions
<1>4. {handlers[c].reads[n].pending, pending, 0} \subseteq Versions
  BY <1>2, DashboardAssumption DEF HandlersOK, Versions
<1>5. Snapshots(handlers[c].reads[n]) \subseteq Frame
  BY <1>3, <1>4 DEF Snapshots, Frame
<1> QED
  BY <1>5 DEF Frames

LEMMA FrameJoinsTheWire ==
  ASSUME WireOK, NEW c \in Conns, NEW frame \in Frames,
         UNCHANGED <<drops, screen>>, wire' = [wire EXCEPT ![c] = Append(@, frame)]
  PROVE  WireOK'
<1>1. wire[c] \in Seq(Frames)
  BY DEF WireOK
<1>2. Append(wire[c], frame) \in Seq(Frames)
  BY <1>1, AppendProperties
<1> QED
  BY <1>2 DEF WireOK

LEMMA AnswerWire ==
  ASSUME HandlersOK, WireOK, NEW c \in Conns, NEW n \in Reads, Answer(c, n)
  PROVE  WireOK'
<1>1. PICK frame \in Snapshots(handlers[c].reads[n]) \cup {ErrorFrame} : Send(c, n, frame)
  BY DEF Answer
<1>2. frame \in Frames
  BY SnapshotsAreFrames DEF Answer
<1>3. \/ wire' = [wire EXCEPT ![c] = Append(@, frame)]
      \/ UNCHANGED wire
  BY <1>1 DEF Send
<1>4. UNCHANGED <<drops, screen>>
  BY DEF Answer
<1> QED
  BY <1>2, <1>3, <1>4, FrameJoinsTheWire DEF WireOK

LEMMA SelfCloseWire ==
  ASSUME WireOK, NEW c \in Conns, SelfClose(c)
  PROVE  WireOK'
<1>1. \/ wire' = [wire EXCEPT ![c] = Append(@, End)]
      \/ UNCHANGED wire
  BY DEF SelfClose, Closing
<1>2. UNCHANGED <<drops, screen>>
  BY DEF SelfClose
<1>3. End \in Frames
  BY DEF Frames
<1> QED
  BY <1>1, <1>2, <1>3, FrameJoinsTheWire DEF WireOK

\* A connection is emptied, or left with its end alone.
LEMMA WireReplaced ==
  ASSUME WireOK, drops' \in 0 .. MaxDrops, screen' \in Frame, NEW c \in Conns,
         wire' \in {[wire EXCEPT ![c] = <<>>], [wire EXCEPT ![c] = <<End>>]}
  PROVE  WireOK'
<1>1. <<>> \in Seq(Frames) /\ <<End>> \in Seq(Frames)
  BY EmptySeq DEF Frames
<1> QED
  BY <1>1 DEF WireOK

LEMMA DropWire ==
  ASSUME WireOK, NEW c \in Conns, Drop(c)
  PROVE  WireOK'
<1>1. drops' \in 0 .. MaxDrops
  BY DashboardAssumption DEF Drop, WireOK
<1> QED
  BY <1>1, WireReplaced DEF Drop, WireOK

LEMMA ReceiveWire ==
  ASSUME WireOK, NEW c \in Conns, Receive(c)
  PROVE  WireOK'
<1>1. wire[c] \in Seq(Frames) /\ wire[c] # <<>>
  BY DEF WireOK, Receive
<1>2. Head(wire[c]) \in Frames /\ Tail(wire[c]) \in Seq(Frames)
  BY <1>1, HeadTailProperties
<1>3. screen' \in Frame
  BY <1>2 DEF Receive, Frames, WireOK
<1>4. wire' = [wire EXCEPT ![c] = Tail(wire[c])]
  BY DEF Receive
<1> QED
  BY <1>2, <1>3, <1>4 DEF WireOK, Receive

LEMMA CloseWire ==
  ASSUME WireOK, UNCHANGED drops, screen' \in Frame, NEW closed, Close(closed)
  PROVE  WireOK'
<1>1. <<>> \in Seq(Frames)
  BY EmptySeq
<1>2. wire' = [c \in Conns |-> IF c \in closed THEN <<>> ELSE wire[c]]
  BY DEF Close
<1> QED
  BY <1>1, <1>2 DEF WireOK

LEMMA ConnectWire ==
  ASSUME WireOK, UNCHANGED drops, screen' \in Frame, Connect(live)
  PROVE  WireOK'
<1>1. PICK c \in Conns : wire' = [wire EXCEPT ![c] = <<>>]
  BY DEF Connect
<1> QED
  BY <1>1, WireReplaced DEF WireOK

LEMMA WireStep == HandlersOK /\ WireOK /\ [Next]_vars => WireOK'
<1> SUFFICES ASSUME HandlersOK, WireOK, [Next]_vars
             PROVE  WireOK'
  OBVIOUS
<1>1. NoScreen \in Frame
  BY DashboardAssumption DEF NoScreen, Frame, Versions
<1>2. ASSUME NEW c \in Conns, ServerStep(c)
      PROVE  WireOK'
  <2>1. CASE Interval(c) \/ Abandon(c)
    BY <2>1 DEF Interval, Abandon, WireOK
  <2> QED
    BY <1>2, <2>1, AnswerWire, SelfCloseWire DEF ServerStep
<1>3. ASSUME NEW c \in Conns, Drop(c) \/ Receive(c)
      PROVE  WireOK'
  BY <1>3, DropWire, ReceiveWire
<1>4. ASSUME NEW c \in Conns, Disconnect(c)
      PROVE  WireOK'
  BY <1>4, CloseWire DEF Disconnect, OnError, WireOK
<1>5. CASE Mount
  BY <1>1, <1>5, ConnectWire DEF Mount
<1>6. CASE Unmount
  BY <1>1, <1>6, CloseWire DEF Unmount
<1>7. CASE Retry
  BY <1>7, ConnectWire DEF Retry, WireOK
<1>8. CASE Tick \/ RestartApp \/ UNCHANGED vars
  BY <1>8 DEF Tick, RestartApp, vars, WireOK
<1> QED
  BY <1>2, <1>3, <1>4, <1>5, <1>6, <1>7, <1>8 DEF Next

\* Handlers, frames and page keep their types for any number of connections,
\* versions, overlapping snapshots and drops.
THEOREM TypeSafety == Spec => []TypeOK
<1>1. HookOK /\ HandlersOK /\ WireOK => TypeOK
  BY DEF HookOK, HandlersOK, WireOK, Frames, TypeOK
<1> QED
  BY <1>1, HookInit, HookStep, HandlersInit, HandlersStep, WireInit, WireStep, PTL DEF Spec

------------------------------------------------------------------------------
(* The page is not left alone. *)

\* The handler will say more, or the end of its stream is on its way.
Speaks(c) == handlers[c].peer /\ ~handlers[c].stopped
EndIsDue(c) == wire[c] # <<>> /\ wire[c][Len(wire[c])] = End

Attended ==
  /\ \A c \in live : Speaks(c) \/ EndIsDue(c)
  /\ page.mounted => page.retry \/ live # {}

\* A page that is open is about to retry, is served, or will hear that it is not,
\* whether its stream was closed by the server or broken by the network
\* (use-control-tower-stream.ts:60, route.ts:61).
PageIsAttended == page.mounted => page.retry \/ \E c \in live : Speaks(c) \/ EndIsDue(c)

LEMMA AttendedInit == Init => Attended
BY DEF Init, Attended

\* One connection changes, and its page is still attended.
LEMMA OneConnectionChanges ==
  ASSUME Attended, UNCHANGED <<live, page>>, NEW c \in Conns,
         \A d \in Conns : d # c => handlers'[d] = handlers[d] /\ wire'[d] = wire[d],
         live \subseteq Conns,
         c \in live => Speaks(c)' \/ EndIsDue(c)'
  PROVE  Attended'
BY DEF Attended, Speaks, EndIsDue

\* A frame joins what a page has to receive only while its handler speaks.
LEMMA AnswerAttends ==
  ASSUME HookOK, HandlersOK, WireOK, Attended, NEW c \in Conns, NEW n \in Reads, Answer(c, n)
  PROVE  Attended'
<1> DEFINE h == handlers[c]
           answered == [h EXCEPT !.reads[n] = NoRead]
<1>1. PICK frame : Send(c, n, frame)
  BY DEF Answer
<1>2. h \in Handler /\ handlers \in [Conns -> Handler]
  BY DEF HandlersOK
<1>3. \A d \in Conns : d # c => handlers'[d] = handlers[d] /\ wire'[d] = wire[d]
  <2>1. /\ \E k : handlers' = [handlers EXCEPT ![c] = k]
        /\ wire' = [wire EXCEPT ![c] = Append(@, frame)] \/ wire' = wire
    BY <1>1 DEF Send
  <2> QED
    BY <1>2, <2>1 DEF WireOK
<1>4. CASE Speaks(c)
  <2>1. handlers' = [handlers EXCEPT ![c] =
                       IF h.reads[n].first THEN AfterFirst(answered) ELSE answered]
    BY <1>1, <1>4 DEF Send, Speaks
  <2>2. answered.peer = h.peer /\ answered.stopped = h.stopped /\ answered \in Handler
    BY <1>2, AnsweredType DEF Handler
  <2> HIDE DEF answered
  <2>3. AfterFirst(answered).peer /\ ~AfterFirst(answered).stopped
    BY <1>4, <2>2 DEF AfterFirst, Speaks, Handler
  <2>4. Speaks(c)'
    BY <1>2, <1>4, <2>1, <2>2, <2>3 DEF Speaks
  <2> QED
    BY <1>3, <2>4, OneConnectionChanges DEF Answer, HookOK
<1>5. CASE ~Speaks(c)
  <2>1. UNCHANGED wire
    BY <1>1, <1>5 DEF Send, Speaks
  <2>2. c \in live => EndIsDue(c)'
    BY <1>5, <2>1 DEF Attended, EndIsDue
  <2> QED
    BY <1>3, <2>2, OneConnectionChanges DEF Answer, HookOK
<1> QED
  BY <1>4, <1>5

\* The server that closes a stream says so to a page that is still there.
LEMMA SelfCloseAttends ==
  ASSUME HookOK, HandlersOK, WireOK, Attended, NEW c \in Conns, SelfClose(c)
  PROVE  Attended'
<1> DEFINE fired == [handlers[c] EXCEPT !.selfClose = FALSE]
           h == Stop(fired)
<1>1. handlers[c] \in Handler /\ handlers \in [Conns -> Handler] /\ wire[c] \in Seq(Frames)
      /\ wire \in [Conns -> Seq(Frames)]
  BY DEF HandlersOK, WireOK
<1>2. fired.stopped = handlers[c].stopped /\ fired.peer = handlers[c].peer /\ fired \in Handler
  BY <1>1 DEF Handler
<1>3. handlers' = [handlers EXCEPT ![c] = h] /\ Closing(c, h)
  BY DEF SelfClose
<1> HIDE DEF fired
<1>4. h.stopped /\ h.peer = handlers[c].peer
  BY <1>2 DEF Stop, Handler
<1> HIDE DEF h
<1>5. \A d \in Conns : d # c => handlers'[d] = handlers[d] /\ wire'[d] = wire[d]
  BY <1>1, <1>3 DEF Closing
<1>6. c \in live => EndIsDue(c)'
  <2>1. CASE Speaks(c)
    <3>1. wire' = [wire EXCEPT ![c] = Append(@, End)]
      BY <1>3, <1>4, <2>1 DEF Closing, Speaks
    <3>2. wire'[c] = Append(wire[c], End) /\ End \in Frames
      BY <1>1, <3>1 DEF Frames
    <3> QED
      BY <1>1, <3>2, AppendProperties DEF EndIsDue
  <2>2. CASE ~Speaks(c)
    <3>1. UNCHANGED wire
      BY <1>3, <1>4, <2>2 DEF Closing, Speaks
    <3> QED
      BY <2>2, <3>1 DEF Attended, EndIsDue
  <2> QED
    BY <2>1, <2>2
<1> QED
  BY <1>5, <1>6, OneConnectionChanges DEF SelfClose, HookOK

\* What is received is not the end.
LEMMA ReceiveAttends ==
  ASSUME HookOK, WireOK, Attended, NEW c \in Conns, Receive(c)
  PROVE  Attended'
<1>1. /\ wire[c] \in Seq(Frames) /\ wire \in [Conns -> Seq(Frames)]
      /\ wire[c] # <<>> /\ Head(wire[c]) # End /\ wire' = [wire EXCEPT ![c] = Tail(@)]
  BY DEF WireOK, Receive
<1>2. ASSUME EndIsDue(c) PROVE EndIsDue(c)'
  <2>1. Len(wire[c]) \in Nat /\ Len(wire[c]) # 0 /\ wire[c][1] # End
    BY <1>1
  <2>2. Len(wire[c]) > 1
    BY <1>2, <2>1 DEF EndIsDue
  <2>3. wire'[c] = Tail(wire[c])
    BY <1>1
  <2>4. Len(wire'[c]) = Len(wire[c]) - 1 /\ wire'[c][Len(wire[c]) - 1] = wire[c][Len(wire[c])]
    BY <1>1, <2>2, <2>3
  <2>5. wire'[c] # <<>>
    <3>1. Len(wire'[c]) # 0
      BY <2>1, <2>2, <2>4
    <3> QED
      BY <3>1
  <2>6. wire'[c][Len(wire'[c])] = End
    BY <1>2, <2>1, <2>4 DEF EndIsDue
  <2> QED
    BY <2>5, <2>6 DEF EndIsDue
<1>3. c \in live => Speaks(c)' \/ EndIsDue(c)'
  BY <1>2 DEF Attended, Receive, Speaks
<1>4. \A d \in Conns : d # c => handlers'[d] = handlers[d] /\ wire'[d] = wire[d]
  BY <1>1 DEF Receive
<1> QED
  BY <1>3, <1>4, OneConnectionChanges DEF Receive, HookOK

\* connect() is called with no EventSource open.
LEMMA ConnectAttends ==
  ASSUME HookOK, HandlersOK, live = {}, Connect(live)
  PROVE  live' # {} /\ \A c \in live' : Speaks(c)'
<1>1. PICK c \in Conns :
        /\ live' = {c}
        /\ handlers' = [handlers EXCEPT ![c] =
             [stopped |-> FALSE, interval |-> FALSE, selfClose |-> FALSE, peer |-> TRUE,
              reads |-> [n \in Reads |-> IF n = 1 THEN Asked(TRUE) ELSE NoRead]]]
  BY DEF Connect
<1> QED
  BY <1>1 DEF HandlersOK, Speaks

LEMMA AttendedStep == HookOK /\ HandlersOK /\ WireOK /\ Attended /\ [Next]_vars => Attended'
<1> SUFFICES ASSUME HookOK, HandlersOK, WireOK, Attended, [Next]_vars
             PROVE  Attended'
  OBVIOUS
<1>1. ASSUME NEW c \in Conns, Interval(c)
      PROVE  Attended'
  <2>1. PICK n \in Reads : handlers' = [handlers EXCEPT ![c].reads[n] = Asked(FALSE)]
    BY <1>1 DEF Interval
  <2>2. /\ handlers'[c].peer = handlers[c].peer /\ handlers'[c].stopped = handlers[c].stopped
        /\ \A d \in Conns : d # c => handlers'[d] = handlers[d]
    BY <2>1 DEF HandlersOK, Handler
  <2> QED
    BY <1>1, <2>2 DEF Interval, Attended, Speaks, EndIsDue, HookOK
<1>2. ASSUME NEW c \in Conns, Abandon(c)
      PROVE  Attended'
  <2>1. c \in live => EndIsDue(c)'
    BY <1>2 DEF Abandon, Attended, Speaks, EndIsDue
  <2>2. \A d \in Conns : d # c => handlers'[d] = handlers[d] /\ wire'[d] = wire[d]
    BY <1>2 DEF Abandon, HandlersOK
  <2> QED
    BY <1>2, <2>1, <2>2, OneConnectionChanges DEF Abandon, HookOK
<1>3. ASSUME NEW c \in Conns, Drop(c)
      PROVE  Attended'
  <2>1. wire' = [wire EXCEPT ![c] = <<End>>]
    BY <1>3 DEF Drop
  <2>2. EndIsDue(c)'
    BY <2>1 DEF WireOK, EndIsDue
  <2>3. \A d \in Conns : d # c => handlers'[d] = handlers[d] /\ wire'[d] = wire[d]
    BY <1>3, <2>1 DEF Drop, HandlersOK, WireOK
  <2> QED
    BY <1>3, <2>2, <2>3, OneConnectionChanges DEF Drop, HookOK
<1>4. ASSUME NEW c \in Conns, Disconnect(c)
      PROVE  Attended'
  <2>1. page' = [page EXCEPT !.retry = TRUE] /\ live' = live \ {c} /\ c \in live
    BY <1>4 DEF Disconnect, OnError, Close
  <2>2. live' = {} /\ page'.retry
    BY <2>1 DEF HookOK
  <2> QED
    BY <2>2 DEF Attended
<1>5. CASE Mount \/ Retry
  <2>1. live = {} /\ Connect(live)
    BY <1>5 DEF Mount, Retry, HookOK
  <2> QED
    BY <2>1, ConnectAttends DEF Attended
<1>6. CASE Unmount
  <2>1. live' = {} /\ ~page'.mounted
    BY <1>6 DEF Unmount, Close
  <2> QED
    BY <2>1 DEF Attended
<1>7. CASE Tick \/ RestartApp \/ UNCHANGED vars
  BY <1>7 DEF Tick, RestartApp, vars, Attended, Speaks, EndIsDue
<1> QED
  BY <1>1, <1>2, <1>3, <1>4, <1>5, <1>6, <1>7, AnswerAttends, SelfCloseAttends, ReceiveAttends
  DEF Next, ServerStep

\* No page waits for a server that has forgotten it: the safety half of
\* ScreenCatchesUp, for any number of connections, frames under way and drops.
THEOREM PageIsNeverForgotten == Spec => []PageIsAttended
<1>1. Attended => PageIsAttended
  BY DEF Attended, PageIsAttended
<1> QED
  BY <1>1, HookInit, HookStep, HandlersInit, HandlersStep, WireInit, WireStep,
     AttendedInit, AttendedStep, PTL DEF Spec
==============================================================================
