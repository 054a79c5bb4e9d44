-------------------------------- MODULE Clips --------------------------------
(***************************************************************************)
(* coffee/clips: the video clip of every order.  A record written when the *)
(* order starts is removed once the clip is saved, by the order's own save *)
(* (a goroutine that waits for the last segment to close) or by a          *)
(* scheduled sweep, which recovers the clips of orders cut short.          *)
(*                                                                         *)
(* Time is a clock; an order, and a save, take a bounded time.  Orders are *)
(* made one after the other.  The multiplexer may be unconfigured.         *)
(***************************************************************************)
EXTENDS Naturals, FiniteSets

CONSTANTS
  Orders,
  None,
  ClipLead,         \* clipLead, and clipTrail
  SegmentClosing,   \* segmentDuration + clipFlushMargin
  SaveTimeout,      \* clipSaveTimeout
  MaxBrewDuration,  \* maxBrewDuration
  LongestOrder,     \* how long an order really takes
  EndOfTime         \* bound: the clock

(* The comment on maxBrewDuration asks for it to sit well above the        *)
(* longest order: by more than a save may take.                            *)
ClipsAssumption ==
  /\ {ClipLead, SegmentClosing, SaveTimeout, MaxBrewDuration, LongestOrder,
      EndOfTime} \subseteq Nat
  /\ LongestOrder + SaveTimeout < MaxBrewDuration
  /\ None \notin Orders

VARIABLES
  clock, up,
  mux,       \* a multiplexer is configured
  phase,     \* of each order: new, writing its record, running, ended
  from,      \* VideoFrom
  record,    \* on disk: none, torn (being written, or cut short), whole
  own,       \* the order's own save: none, waiting, saving
  since,     \* when the wait or the save of `own` began, else 0
  todo,      \* records the sweep has listed and not looked at
  corrupt,   \* the order whose record it read torn, and is to remove
  sweep,     \* the order whose clip the sweep is saving
  swept,     \* when it began to, else 0
  saved,     \* orders with a saved clip
  written,   \* history: orders whose record was written without an error
  waived,    \* history: orders that ended with no multiplexer
  misread    \* history: orders whose record the sweep read half written
orderVars == <<phase, from, written>>
ownVars   == <<own, since, waived>>
sweepVars == <<todo, corrupt, sweep, swept, misread>>
vars == <<clock, up, mux, orderVars, record, ownVars, sweepVars, saved>>

Live(o) == phase[o] \in {"writing", "running"}

\* When the sweep may take a record for that of an interrupted order.
Gate(o) == from[o] + MaxBrewDuration + ClipLead + SegmentClosing

Init ==
  /\ clock = 0 /\ up = TRUE /\ mux \in BOOLEAN
  /\ phase = [o \in Orders |-> "new"] /\ from = [o \in Orders |-> 0]
  /\ record = [o \in Orders |-> "none"]
  /\ own = [o \in Orders |-> "none"] /\ since = [o \in Orders |-> 0]
  /\ todo = {} /\ corrupt = None /\ sweep = None /\ swept = 0
  /\ saved = {} /\ written = {} /\ waived = {} /\ misread = {}

\* An order starts: os.WriteFile creates the record, then fills it.
StartOrder(o) ==
  /\ up /\ phase[o] = "new" /\ ~\E p \in Orders : Live(p)
  /\ phase' = [phase EXCEPT ![o] = "writing"]
  /\ from' = [from EXCEPT ![o] = clock]
  /\ record' = [record EXCEPT ![o] = "torn"]
  /\ UNCHANGED <<clock, up, mux, written, ownVars, sweepVars, saved>>

\* The write ends, or fails; a record removed meanwhile stays gone.
WritePendingSave(o) ==
  /\ up /\ phase[o] = "writing"
  /\ phase' = [phase EXCEPT ![o] = "running"]
  /\ \/ /\ record' = [record EXCEPT ![o] = IF @ = "torn" THEN "whole" ELSE @]
        /\ written' = written \cup {o}
     \/ UNCHANGED <<record, written>>
  /\ UNCHANGED <<clock, up, mux, from, ownVars, sweepVars, saved>>

\* clearPendingSave, which may fail.
Cleared(o) == {record, [record EXCEPT ![o] = "none"]}

\* SaveOrderVideoAsync; without a multiplexer the record is dropped.
EndOrder(o) ==
  /\ up /\ phase[o] = "running"
  /\ phase' = [phase EXCEPT ![o] = "ended"]
  /\ IF mux
     THEN /\ own' = [own EXCEPT ![o] = "waiting"]
          /\ since' = [since EXCEPT ![o] = clock]
          /\ UNCHANGED <<record, waived>>
     ELSE /\ record' \in Cleared(o)
          /\ waived' = waived \cup {o}
          /\ UNCHANGED <<own, since>>
  /\ UNCHANGED <<clock, up, mux, from, written, sweepVars, saved>>

\* The segment that holds the end of the clip has closed.
OwnSave(o) ==
  /\ up /\ own[o] = "waiting"
  /\ clock >= since[o] + ClipLead + SegmentClosing
  /\ own' = [own EXCEPT ![o] = "saving"]
  /\ since' = [since EXCEPT ![o] = clock]
  /\ UNCHANGED <<clock, up, mux, orderVars, record, waived, sweepVars, saved>>

\* Mutant of OwnSaved: the record is cleared however the save went.
OwnSavedClear(o) ==
  /\ up /\ own[o] = "saving"
  /\ own' = [own EXCEPT ![o] = "none"]
  /\ since' = [since EXCEPT ![o] = 0]
  /\ record' = [record EXCEPT ![o] = "none"]
  /\ saved' \in {saved, saved \cup {o}}
  /\ UNCHANGED <<clock, up, mux, orderVars, waived, sweepVars>>

\* saveOrderVideoAndClear: the record goes only when the save succeeded.
OwnSaved(o) ==
  /\ up /\ own[o] = "saving"
  /\ own' = [own EXCEPT ![o] = "none"]
  /\ since' = [since EXCEPT ![o] = 0]
  /\ \/ /\ saved' = saved \cup {o}
        /\ record' \in Cleared(o)
     \/ UNCHANGED <<record, saved>>
  /\ UNCHANGED <<clock, up, mux, orderVars, waived, sweepVars>>

-----------------------------------------------------------------------------
\* CleanupPendingClips: list the records; without a multiplexer leave them.
StartSweep ==
  /\ up /\ mux /\ todo = {} /\ corrupt = None /\ sweep = None
  /\ todo' = {o \in Orders : record[o] # "none"}
  /\ UNCHANGED <<clock, up, mux, orderVars, record, ownVars,
                 corrupt, sweep, swept, misread, saved>>

\* Mutant of Due: the record of an order that may still be running is taken.
DueSoon(o) == clock >= from[o] + ClipLead + SegmentClosing

Due(o) == clock >= Gate(o)

\* The sweep reads a record.  One that is gone, unreadable or young is skipped.
SweepNext(o) ==
  /\ up /\ corrupt = None /\ sweep = None /\ o \in todo
  /\ todo' = todo \ {o}
  /\ \/ /\ record[o] = "torn"
        /\ corrupt' = o
        /\ misread' = misread \cup {p \in {o} : phase[p] = "writing"}
        /\ UNCHANGED <<sweep, swept>>
     \/ /\ record[o] = "whole" /\ Due(o)
        /\ sweep' = o /\ swept' = clock
        /\ UNCHANGED <<corrupt, misread>>
     \/ UNCHANGED <<corrupt, sweep, swept, misread>>
  /\ UNCHANGED <<clock, up, mux, orderVars, record, ownVars, saved>>

\* It removes, by its path, the record it read torn, whatever is there now.
RemoveCorrupt ==
  /\ up /\ corrupt # None
  /\ record' \in Cleared(corrupt)
  /\ corrupt' = None
  /\ UNCHANGED <<clock, up, mux, orderVars, ownVars, todo, sweep, swept, misread, saved>>

SweepSaved ==
  /\ up /\ sweep # None
  /\ sweep' = None /\ swept' = 0
  /\ \/ /\ saved' = saved \cup {sweep}
        /\ record' \in Cleared(sweep)
     \/ UNCHANGED <<record, saved>>
  /\ UNCHANGED <<clock, up, mux, orderVars, ownVars, todo, corrupt, misread>>

-----------------------------------------------------------------------------
\* The process dies; the goroutines go, the records stay.
Crash ==
  /\ up
  /\ up' = FALSE
  /\ phase' = [o \in Orders |-> IF Live(o) THEN "ended" ELSE phase[o]]
  /\ own' = [o \in Orders |-> "none"] /\ since' = [o \in Orders |-> 0]
  /\ todo' = {} /\ corrupt' = None /\ sweep' = None /\ swept' = 0
  /\ UNCHANGED <<clock, mux, from, written, record, waived, misread, saved>>

Restart ==
  /\ ~up
  /\ up' = TRUE
  /\ mux' \in BOOLEAN
  /\ UNCHANGED <<clock, orderVars, record, ownVars, sweepVars, saved>>

(* Time passes, but no order outlasts LongestOrder, no save its timeout,   *)
(* and the wait for the segment ends on time.                              *)
Tick ==
  /\ clock < EndOfTime
  /\ \A o \in Orders :
       /\ Live(o) => clock < from[o] + LongestOrder
       /\ own[o] = "waiting" => clock < since[o] + ClipLead + SegmentClosing
       /\ own[o] = "saving" => clock < since[o] + SaveTimeout
       /\ sweep = o => clock < swept + SaveTimeout
  /\ clock' = clock + 1
  /\ UNCHANGED <<up, mux, orderVars, record, ownVars, sweepVars, saved>>

Next ==
  \/ \E o \in Orders :
       \/ StartOrder(o) \/ WritePendingSave(o) \/ EndOrder(o)
       \/ OwnSave(o) \/ OwnSaved(o) \/ SweepNext(o)
  \/ StartSweep \/ RemoveCorrupt \/ SweepSaved
  \/ Crash \/ Restart
  \/ Tick

Spec == Init /\ [][Next]_vars

-----------------------------------------------------------------------------
TypeOK ==
  /\ clock \in 0 .. EndOfTime /\ up \in BOOLEAN /\ mux \in BOOLEAN
  /\ phase \in [Orders -> {"new", "writing", "running", "ended"}]
  /\ from \in [Orders -> 0 .. EndOfTime]
  /\ record \in [Orders -> {"none", "torn", "whole"}]
  /\ own \in [Orders -> {"none", "waiting", "saving"}]
  /\ todo \subseteq Orders /\ {corrupt, sweep} \subseteq Orders \cup {None}
  /\ {saved, written, waived, misread} \subseteq SUBSET Orders

(* Until its clip is saved, an order whose record was written keeps it,    *)
(* over failed saves, sweeps and crashes.  Two things only give a clip up: *)
(* no multiplexer when the order ends, and a sweep that read the record    *)
(* while it was being written and may remove it once it is whole.          *)
ClipNotLost ==
  \A o \in written \ (waived \cup misread) : o \in saved \/ record[o] = "whole"

(* An order's own save and the sweep never save the same clip at the same  *)
(* time: the two writes share a filename.                                  *)
OneWriterPerClip == \A o \in Orders : ~(own[o] = "saving" /\ sweep = o)
=============================================================================
