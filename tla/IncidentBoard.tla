---------------------------- MODULE IncidentBoard ----------------------------
(***************************************************************************)
(* What the incident table promises the operator, with every operation     *)
(* atomic: a reading opens an incident only if no live one covers it, a    *)
(* live incident is confirmed or sharpened and never widened, and a pass   *)
(* over the board retires exactly the incidents that have been quiet for   *)
(* ResolveAfterQuietWindows windows.  Incidents.tla, where each operation  *)
(* is a SELECT and an UPDATE with other work in between, implements it.    *)
(***************************************************************************)
EXTENDS Cells

CONSTANTS IncidentIds,               \* the uuids rows are created under
          Codes,                     \* dominant decline codes
          ResolveAfterQuietWindows,  \* lifecycle.ts: 3
          MaxBucket,                 \* bound: the last window considered
          GapSets                    \* sets of cells one window calls too thin

Buckets == 1 .. MaxBucket

VARIABLE board

NoEntry == [status |-> "none"]

ActiveStatuses == {"open", "monitoring"}
LiveStatuses   == ActiveStatuses \cup {"inconclusive"}

Entry == [status     : LiveStatuses \cup {"resolved"},
          dims       : Cells,
          code       : Codes,
          detectedAt : Buckets,
          resolvedAt : Buckets \cup {0}]

\* The reading of one cell in one window.
Readings == [cell : Cells, code : Codes, at : Buckets]

\* The live incident `entry` is about the place the reading describes.  A
\* reading with no root can only be matched by its exact signature.
Covers(entry, reading) ==
  /\ entry.status \in LiveStatuses
  /\ IF Rooted(reading.cell)
       THEN /\ SharesRoot(entry.dims, reading.cell)
            /\ Compatible(entry.dims, reading.cell)
       ELSE entry.dims = reading.cell /\ entry.code = reading.code

\* Quiet long enough, as window `b` sees it, to leave the board.
Stale(entry, b) == /\ entry.status \in ActiveStatuses
                   /\ b >= entry.detectedAt + ResolveAfterQuietWindows

\* The cell lost the volume that a claim of recovery would rest on.
LostVolume(entry, gaps) == \E g \in gaps : SameCell(entry.dims, g)

BoardInit == board = [id \in IncidentIds |-> NoEntry]

\* A reading nobody on the board covers becomes an incident of its own.
Open(id, reading) ==
  /\ board[id] = NoEntry
  /\ \A other \in IncidentIds : ~Covers(board[other], reading)
  /\ board' = [board EXCEPT ![id] =
       [status |-> "open", dims |-> reading.cell, code |-> reading.code,
        detectedAt |-> reading.at, resolvedAt |-> 0]]

\* A covered reading keeps an incident alive; it may also re-name it, but
\* only by a cell at least as specific.
Confirm(id, reading) ==
  /\ Covers(board[id], reading)
  /\ \/ /\ Specificity(board[id].dims) > Specificity(reading.cell)
        /\ board' = [board EXCEPT ![id].status = "monitoring",
                                  ![id].detectedAt = reading.at]
     \/ /\ ~(Specificity(board[id].dims) > Specificity(reading.cell))
        /\ board' = [board EXCEPT ![id].status = "monitoring",
                                  ![id].detectedAt = reading.at,
                                  ![id].dims = reading.cell,
                                  ![id].code = reading.code]

\* Everything quiet that did not lose its volume is resolved, at once.
Resolve(b, gaps) ==
  board' = [id \in IncidentIds |->
    IF Stale(board[id], b) /\ ~LostVolume(board[id], gaps)
      THEN [board[id] EXCEPT !.status = "resolved", !.resolvedAt = b]
      ELSE board[id]]

\* Everything quiet that lost its volume is declared inconclusive, at once.
GiveUp(b, gaps) ==
  board' = [id \in IncidentIds |->
    IF Stale(board[id], b) /\ LostVolume(board[id], gaps)
      THEN [board[id] EXCEPT !.status = "inconclusive"]
      ELSE board[id]]

BoardNext ==
  \/ \E id \in IncidentIds, reading \in Readings :
        Open(id, reading) \/ Confirm(id, reading)
  \/ \E b \in Buckets, gaps \in GapSets :
        Resolve(b, gaps) \/ GiveUp(b, gaps)

BoardSpec == BoardInit /\ [][BoardNext]_board
==============================================================================
