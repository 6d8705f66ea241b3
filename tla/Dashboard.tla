------------------------------- MODULE Dashboard -------------------------------
(***************************************************************************)
(* The dashboard's live view: the stream route of the web server           *)
(* (web/src/app/api/stream/route.ts), which polls the database and the     *)
(* app's pending list for each connection, and the page's hook             *)
(* (web/src/lib/use-control-tower-stream.ts), which keeps one EventSource  *)
(* open and opens another when it drops.                                   *)
(*                                                                         *)
(* What a snapshot holds is a version of the incidents and one of the      *)
(* pending list.  A handler's teardown has four causes that race: the      *)
(* request's abort, the stream's cancel, the self-close timer and an       *)
(* enqueue that throws.                                                    *)
(***************************************************************************)
EXTENDS Naturals, Sequences, FiniteSets

CONSTANTS Conns,        \* bound: connections whose handler may be alive at once
          MaxWrites,    \* bound: versions of the incidents and the pending list
          MaxOverlap,   \* bound: snapshots one handler awaits at once
          MaxWire,      \* bound: frames on their way to the page
          MaxDrops      \* bound: connections the network breaks

ASSUME DashboardAssumption ==
  /\ MaxWrites \in Nat /\ MaxDrops \in Nat
  /\ MaxOverlap \in Nat \ {0} /\ MaxWire \in Nat \ {0}

VARIABLES incidents,   \* version of the incidents in the database
          pending,     \* version of the app's pendingStore, 0 when it is empty
          handlers,    \* the route's handler of each connection
          wire,        \* what the page has still to receive on each connection
          live,        \* connections whose EventSource is open
          page,        \* the hook: is it mounted, does it wait to retry
          screen,      \* the snapshot shown
          drops        \* connections broken so far

vars == <<incidents, pending, handlers, wire, live, page, screen, drops>>

\* Operators named Fault... are the definition that follows with
\* a plausible bug in it; they take no part in the specification.

Versions == 0 .. MaxWrites

------------------------------------------------------------------------------
(* The app: a tick rewrites incidents and replaces the pending list; its      *)
(* process may restart with an empty one (pending-store.ts).                  *)

Tick ==
  /\ incidents < MaxWrites
  /\ incidents' = incidents + 1
  /\ pending' \in {0, incidents'}
  /\ UNCHANGED <<handlers, wire, live, page, screen, drops>>

RestartApp ==
  /\ pending' = 0
  /\ UNCHANGED <<incidents, handlers, wire, live, page, screen, drops>>

------------------------------------------------------------------------------
(* The route's handler. *)

NoRead  == [asked |-> FALSE]
Read    == [asked : {TRUE}, first : BOOLEAN, incidents : Versions, pending : Versions]
Asked(first) ==
  [asked |-> TRUE, first |-> first, incidents |-> incidents, pending |-> pending]

Reads     == 1 .. MaxOverlap
Handler   == [stopped : BOOLEAN, interval : BOOLEAN, selfClose : BOOLEAN, peer : BOOLEAN,
              reads : [Reads -> Read \cup {NoRead}]]
NoHandler ==
  [stopped |-> TRUE, interval |-> FALSE, selfClose |-> FALSE, peer |-> FALSE,
   reads |-> [n \in Reads |-> NoRead]]

\* Frames: a snapshot, the error frame, and the end of the stream.
Frame      == [incidents : Versions, pending : Versions]
ErrorFrame == [failed |-> TRUE]
End        == [ended |-> TRUE]

Over(h) == h.stopped /\ ~h.interval /\ ~h.selfClose /\ \A n \in Reads : h.reads[n] = NoRead

\* stop(): once, it clears the timers there are.
Stop(h) == IF h.stopped THEN h
           ELSE [h EXCEPT !.stopped = TRUE, !.interval = FALSE, !.selfClose = FALSE]

\* The page hears of a stream that its server closes.
Closing(c, h) ==
  IF h.stopped /\ ~handlers[c].stopped /\ h.peer
    THEN wire' = [wire EXCEPT ![c] = Append(@, End)]
    ELSE UNCHANGED wire

\* start() goes on without looking at stopped.
FaultAfterFirst(h) == [h EXCEPT !.interval = TRUE, !.selfClose = TRUE]

\* start() after its first send: the timers are armed unless stop() has run.
AfterFirst(h) == IF h.stopped THEN h ELSE [h EXCEPT !.interval = TRUE, !.selfClose = TRUE]

\* What snapshot() may bring: the queries run at any moment after they were
\* asked, and the app's pending list is empty when its fetch fails.
Snapshots(read) ==
  [incidents : read.incidents .. incidents, pending : {read.pending, pending, 0}]

\* send() after its await: nothing for a stopped stream, else the frame is
\* enqueued; that throws once the runtime has closed the controller.
Send(c, n, frame) ==
  LET read     == handlers[c].reads[n]
      answered == [handlers[c] EXCEPT !.reads[n] = NoRead]
      Resume(h) == IF read.first THEN AfterFirst(h) ELSE h
  IN \/ /\ handlers[c].stopped
        /\ handlers' = [handlers EXCEPT ![c] = Resume(answered)]
        /\ UNCHANGED wire
     \/ /\ ~handlers[c].stopped /\ (handlers[c].peer => Len(wire[c]) < MaxWire)
        /\ handlers' = [handlers EXCEPT ![c] = Resume(answered)]
        /\ IF handlers[c].peer THEN wire' = [wire EXCEPT ![c] = Append(@, frame)]
                               ELSE UNCHANGED wire
     \/ /\ ~handlers[c].stopped /\ ~handlers[c].peer
        /\ handlers' = [handlers EXCEPT ![c] = Resume(Stop(answered))]
        /\ UNCHANGED wire

Answer(c, n) ==
  /\ handlers[c].reads[n] # NoRead
  /\ \E frame \in Snapshots(handlers[c].reads[n]) \cup {ErrorFrame} : Send(c, n, frame)
  /\ UNCHANGED <<incidents, pending, live, page, screen, drops>>

\* The queries for a stream still open succeed, the pending list's included.
AnswerFully(c, n) ==
  /\ c \in live /\ handlers[c].peer /\ ~handlers[c].stopped
  /\ handlers[c].reads[n] # NoRead
  /\ Send(c, n, [incidents |-> incidents, pending |-> pending])
  /\ UNCHANGED <<incidents, pending, live, page, screen, drops>>

\* setInterval(send): it does not wait for the snapshot before.
Interval(c) ==
  /\ handlers[c].interval /\ ~handlers[c].stopped
  /\ \E n \in Reads :
       /\ handlers[c].reads[n] = NoRead
       /\ handlers' = [handlers EXCEPT ![c].reads[n] = Asked(FALSE)]
  /\ UNCHANGED <<incidents, pending, wire, live, page, screen, drops>>

\* setTimeout(stop).
SelfClose(c) ==
  /\ handlers[c].selfClose
  /\ LET h == Stop([handlers[c] EXCEPT !.selfClose = FALSE])
     IN handlers' = [handlers EXCEPT ![c] = h] /\ Closing(c, h)
  /\ UNCHANGED <<incidents, pending, live, page, screen, drops>>

\* The runtime notices that the page has gone: it aborts the request or cancels
\* the stream, and may do neither for long.
Abandon(c) ==
  /\ ~handlers[c].peer /\ ~handlers[c].stopped
  /\ handlers' = [handlers EXCEPT ![c] = Stop(@)]
  /\ UNCHANGED <<incidents, pending, wire, live, page, screen, drops>>

\* The network breaks a connection: what was under way is lost.
Drop(c) ==
  /\ handlers[c].peer /\ ~handlers[c].stopped /\ drops < MaxDrops
  /\ drops' = drops + 1
  /\ handlers' = [handlers EXCEPT ![c].peer = FALSE]
  /\ wire' = [wire EXCEPT ![c] = <<End>>]
  /\ UNCHANGED <<incidents, pending, live, page, screen>>

------------------------------------------------------------------------------
(* The page. *)

NoScreen == [incidents |-> 0, pending |-> 0]

\* connect(): a new EventSource, whose handler starts its first send at once.
Connect(open) ==
  \E c \in Conns \ open :
    /\ Over(handlers[c])
    /\ live' = open \cup {c}
    /\ handlers' = [handlers EXCEPT ![c] =
         [stopped |-> FALSE, interval |-> FALSE, selfClose |-> FALSE, peer |-> TRUE,
          reads |-> [n \in Reads |-> IF n = 1 THEN Asked(TRUE) ELSE NoRead]]]
    /\ wire' = [wire EXCEPT ![c] = <<>>]

Mount ==
  /\ ~page.mounted
  /\ page' = [mounted |-> TRUE, retry |-> FALSE]
  /\ screen' = NoScreen
  /\ Connect(live)
  /\ UNCHANGED <<incidents, pending, drops>>

\* EventSource.close(): the server may learn of it later.
Close(closed) ==
  /\ live' = live \ closed
  /\ wire' = [c \in Conns |-> IF c \in closed THEN <<>> ELSE wire[c]]
  /\ handlers' = [c \in Conns |-> IF c \in closed THEN [handlers[c] EXCEPT !.peer = FALSE]
                                                  ELSE handlers[c]]

\* The effect's cleanup.
Unmount ==
  /\ page.mounted
  /\ page' = [mounted |-> FALSE, retry |-> FALSE]
  /\ screen' = NoScreen
  /\ Close(live)
  /\ UNCHANGED <<incidents, pending, drops>>

\* onmessage; an error frame leaves screen and connection as they are.
Receive(c) ==
  /\ c \in live /\ wire[c] # <<>> /\ Head(wire[c]) # End
  /\ screen' = IF Head(wire[c]) = ErrorFrame THEN screen ELSE Head(wire[c])
  /\ wire' = [wire EXCEPT ![c] = Tail(@)]
  /\ UNCHANGED <<incidents, pending, handlers, live, page, drops>>

\* The dropped source is left open, and goes on reconnecting by itself.
FaultOnError(c) ==
  /\ wire' = [wire EXCEPT ![c] = Tail(@)]
  /\ page' = [page EXCEPT !.retry = TRUE]
  /\ UNCHANGED <<handlers, live>>

\* Closed, and not tried again.
FaultOnErrorGivesUp(c) == Close({c}) /\ UNCHANGED page

\* onerror: the source is closed and a new one follows after a pause.
OnError(c) == Close({c}) /\ page' = [page EXCEPT !.retry = TRUE]

Disconnect(c) ==
  /\ c \in live /\ wire[c] # <<>> /\ Head(wire[c]) = End
  /\ OnError(c)
  /\ UNCHANGED <<incidents, pending, screen, drops>>

Retry ==
  /\ page.retry
  /\ page' = [page EXCEPT !.retry = FALSE]
  /\ Connect(live)
  /\ UNCHANGED <<incidents, pending, screen, drops>>

------------------------------------------------------------------------------
Init ==
  /\ incidents = 0 /\ pending = 0 /\ drops = 0
  /\ handlers = [c \in Conns |-> NoHandler]
  /\ wire = [c \in Conns |-> <<>>]
  /\ live = {}
  /\ page = [mounted |-> FALSE, retry |-> FALSE]
  /\ screen = NoScreen

ServerStep(c) ==
  \/ \E n \in Reads : Answer(c, n)
  \/ Interval(c) \/ SelfClose(c) \/ Abandon(c)

Next ==
  \/ Tick \/ RestartApp
  \/ \E c \in Conns : ServerStep(c) \/ Drop(c) \/ Receive(c) \/ Disconnect(c)
  \/ Mount \/ Unmount \/ Retry

Spec == Init /\ [][Next]_vars

\* The queries settle and, asked again and again by a connected page, succeed;
\* timers fire; the page takes what arrives.  Nothing makes the runtime notice a
\* page that has gone, the network break a connection or the user leave.
FairSpec ==
  /\ Spec
  /\ \A c \in Conns :
       /\ \A n \in Reads : WF_vars(Answer(c, n))
       /\ SF_vars(\E n \in Reads : AnswerFully(c, n))
       /\ WF_vars(Interval(c)) /\ WF_vars(SelfClose(c))
       /\ WF_vars(Receive(c)) /\ WF_vars(Disconnect(c))
  /\ WF_vars(Retry)

------------------------------------------------------------------------------
(* Properties. *)

TypeOK ==
  /\ incidents \in Versions /\ pending \in Versions /\ drops \in 0 .. MaxDrops
  /\ handlers \in [Conns -> Handler]
  /\ wire \in [Conns -> Seq(Frame \cup {ErrorFrame, End})]
  /\ live \subseteq Conns
  /\ page \in [mounted : BOOLEAN, retry : BOOLEAN]
  /\ screen \in Frame

\* The hook never holds two EventSources, not even while one is to be retried,
\* and none once it is unmounted: each costs the server a query loop
\* (use-control-tower-stream.ts:67).
OneConnection ==
  /\ Cardinality(live) + (IF page.retry THEN 1 ELSE 0) <= 1
  /\ ~page.mounted => live = {} /\ ~page.retry

\* Every handler ends, with its timers cleared and its snapshots answered,
\* whichever of abort, cancel, self-close and failed enqueue comes first, and
\* also when none of them comes before start() has armed the timers
\* (route.ts:53).
EveryHandlerEnds == \A c \in Conns : []<>Over(handlers[c])

\* A page left open shows the incidents as they are, for good once they stop
\* changing, although an overlapping snapshot may put an older frame after a
\* newer one, queries fail and connections drop; and time and again the pending
\* list (route.ts:95, use-control-tower-stream.ts:60).
ScreenCatchesUp ==
  <>[]page.mounted =>
    /\ <>[](screen.incidents = incidents)
    /\ []<>(screen.pending = pending)
==============================================================================
