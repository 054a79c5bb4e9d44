----------------------------- MODULE ClipsProofs -----------------------------
(***************************************************************************)
(* No clip is lost, and none is saved by two at a time, for any number of  *)
(* orders and all times that ClipsAssumption allows: theorems about Clips. *)
(***************************************************************************)
EXTENDS Clips, TLAPS

ClipsTyped ==
  /\ clock \in Nat
  /\ phase = [o \in Orders |-> phase[o]] /\ record = [o \in Orders |-> record[o]]
  /\ own = [o \in Orders |-> own[o]]
  /\ from \in [Orders -> Nat] /\ since \in [Orders -> Nat]
  /\ written \subseteq Orders

\* An order that has not begun has nothing.
Fresh(o) ==
  phase[o] = "new" =>
    /\ record[o] = "none" /\ own[o] = "none" /\ o \notin written
    /\ o \notin todo /\ corrupt # o /\ sweep # o

\* The order and its own save are as far as the clock allows: an order ends
\* in time, then comes the wait for the segment, then the save.
OnTime(o) ==
  LET ended == from[o] + LongestOrder
      closed == ended + ClipLead + SegmentClosing
  IN  /\ Live(o) => clock <= ended
      /\ own[o] = "waiting" => since[o] <= ended /\ clock <= since[o] + ClipLead + SegmentClosing
      /\ own[o] = "saving" => since[o] <= closed /\ clock <= since[o] + SaveTimeout

\* The sweep saves a clip when its order must be over.
Swept(o) == sweep = o => clock >= Gate(o)

\* A record the sweep took for corrupt is one that nobody writes any more, or
\* one it read half written; while it is written only the sweep removes it.
Read(o) ==
  /\ Live(o) => own[o] = "none"
  /\ phase[o] = "writing" => o \notin written /\ (record[o] = "torn" \/ o \in misread)
  /\ record[o] = "torn" => o \notin written
  /\ corrupt = o => o \in misread \/ (phase[o] # "writing" /\ o \notin written)

Kept(o) == o \in written \ (waived \cup misread) => o \in saved \/ record[o] = "whole"

ClipsInv ==
  ClipsTyped /\ \A o \in Orders : Fresh(o) /\ OnTime(o) /\ Swept(o) /\ Read(o) /\ Kept(o)

LEMMA ClipsInit ==
  ASSUME ClipsAssumption, Init
  PROVE  ClipsInv
BY DEF ClipsAssumption, Init, ClipsInv, ClipsTyped, Fresh, OnTime, Swept, Read, Kept, Live

(* The actions of an order and of its own save.                            *)
LEMMA OrderKeeps ==
  ASSUME ClipsAssumption, ClipsInv, NEW p \in Orders,
         \/ StartOrder(p) \/ WritePendingSave(p) \/ EndOrder(p)
         \/ OwnSave(p) \/ OwnSaved(p)
  PROVE  ClipsInv'
<1> USE DEF ClipsInv, ClipsAssumption, orderVars, ownVars, sweepVars
<1>1. CASE StartOrder(p)
  <2>1. ClipsTyped'
    BY <1>1 DEF StartOrder, ClipsTyped
  <2>2. ASSUME NEW o \in Orders PROVE Fresh(o)' /\ OnTime(o)' /\ Swept(o)' /\ Read(o)' /\ Kept(o)'
    BY <1>1, <2>2 DEF StartOrder, ClipsTyped, Fresh, OnTime, Swept, Read, Kept, Live, Gate
  <2>3. QED
    BY <2>1, <2>2
<1>2. CASE WritePendingSave(p)
  <2>1. ClipsTyped'
    BY <1>2 DEF WritePendingSave, ClipsTyped
  <2>2. ASSUME NEW o \in Orders PROVE Fresh(o)' /\ OnTime(o)' /\ Swept(o)' /\ Read(o)' /\ Kept(o)'
    BY <1>2, <2>2 DEF WritePendingSave, ClipsTyped, Fresh, OnTime, Swept, Read, Kept, Live, Gate
  <2>3. QED
    BY <2>1, <2>2
<1>3. CASE EndOrder(p)
  <2>1. ClipsTyped'
    BY <1>3 DEF EndOrder, Cleared, ClipsTyped
  <2>2. ASSUME NEW o \in Orders PROVE Fresh(o)' /\ OnTime(o)' /\ Swept(o)' /\ Read(o)' /\ Kept(o)'
    BY <1>3, <2>2 DEF EndOrder, Cleared, ClipsTyped, Fresh, OnTime, Swept, Read, Kept, Live, Gate
  <2>3. QED
    BY <2>1, <2>2
<1>4. CASE OwnSave(p)
  <2>1. ClipsTyped'
    BY <1>4 DEF OwnSave, ClipsTyped
  <2>2. ASSUME NEW o \in Orders PROVE Fresh(o)' /\ OnTime(o)' /\ Swept(o)' /\ Read(o)' /\ Kept(o)'
    BY <1>4, <2>2 DEF OwnSave, ClipsTyped, Fresh, OnTime, Swept, Read, Kept, Live, Gate
  <2>3. QED
    BY <2>1, <2>2
<1>5. CASE OwnSaved(p)
  <2>1. ClipsTyped'
    BY <1>5 DEF OwnSaved, Cleared, ClipsTyped
  <2>2. ASSUME NEW o \in Orders PROVE Fresh(o)' /\ OnTime(o)' /\ Swept(o)' /\ Read(o)' /\ Kept(o)'
    BY <1>5, <2>2 DEF OwnSaved, Cleared, ClipsTyped, Fresh, OnTime, Swept, Read, Kept, Live, Gate
  <2>3. QED
    BY <2>1, <2>2
<1>6. QED
  BY <1>1, <1>2, <1>3, <1>4, <1>5

(* The sweep.                                                              *)
LEMMA SweepKeeps ==
  ASSUME ClipsAssumption, ClipsInv,
         StartSweep \/ (\E o \in Orders : SweepNext(o)) \/ RemoveCorrupt \/ SweepSaved
  PROVE  ClipsInv'
<1> USE DEF ClipsInv, ClipsAssumption, orderVars, ownVars
<1>1. CASE StartSweep
  BY <1>1 DEF StartSweep, ClipsTyped, Fresh, OnTime, Swept, Read, Kept, Live, Gate
<1>2. ASSUME NEW p \in Orders, SweepNext(p)
      PROVE  ClipsInv'
  <2>1. ClipsTyped'
    BY <1>2 DEF SweepNext, ClipsTyped
  <2>2. ASSUME NEW o \in Orders PROVE Fresh(o)' /\ OnTime(o)' /\ Swept(o)' /\ Read(o)' /\ Kept(o)'
    BY <1>2, <2>2 DEF SweepNext, Due, ClipsTyped, Fresh, OnTime, Swept, Read, Kept, Live, Gate
  <2>3. QED
    BY <2>1, <2>2
<1>3. CASE RemoveCorrupt
  <2>1. ClipsTyped'
    BY <1>3 DEF RemoveCorrupt, Cleared, ClipsTyped
  <2>2. ASSUME NEW o \in Orders PROVE Fresh(o)' /\ OnTime(o)' /\ Swept(o)' /\ Read(o)' /\ Kept(o)'
    BY <1>3, <2>2 DEF RemoveCorrupt, Cleared, ClipsTyped, Fresh, OnTime, Swept, Read, Kept, Live, Gate
  <2>3. QED
    BY <2>1, <2>2
<1>4. CASE SweepSaved
  <2>1. ClipsTyped'
    BY <1>4 DEF SweepSaved, Cleared, ClipsTyped
  <2>2. ASSUME NEW o \in Orders PROVE Fresh(o)' /\ OnTime(o)' /\ Swept(o)' /\ Read(o)' /\ Kept(o)'
    BY <1>4, <2>2 DEF SweepSaved, Cleared, ClipsTyped, Fresh, OnTime, Swept, Read, Kept, Live, Gate
  <2>3. QED
    BY <2>1, <2>2
<1>5. QED
  BY <1>1, <1>2, <1>3, <1>4

(* A crash, a restart and the passing of time.                             *)
LEMMA TimeKeeps ==
  ASSUME ClipsAssumption, ClipsInv, Crash \/ Restart \/ Tick \/ UNCHANGED vars
  PROVE  ClipsInv'
<1> USE DEF ClipsInv, ClipsAssumption, orderVars, ownVars, sweepVars
<1>1. CASE Crash
  BY <1>1 DEF Crash, ClipsTyped, Fresh, OnTime, Swept, Read, Kept, Live, Gate
<1>2. CASE Restart
  BY <1>2 DEF Restart, ClipsTyped, Fresh, OnTime, Swept, Read, Kept, Live, Gate
<1>3. CASE Tick
  BY <1>3 DEF Tick, ClipsTyped, Fresh, OnTime, Swept, Read, Kept, Live, Gate
<1>4. CASE UNCHANGED vars
  BY <1>4 DEF vars, ClipsTyped, Fresh, OnTime, Swept, Read, Kept, Live, Gate
<1>5. QED
  BY <1>1, <1>2, <1>3, <1>4

\* The sweep comes when an order's own save has long ended.
LEMMA SavesApart ==
  ASSUME ClipsAssumption, ClipsInv
  PROVE  OneWriterPerClip
<1>1. SUFFICES ASSUME NEW o \in Orders, own[o] = "saving", sweep = o
               PROVE  FALSE
  BY DEF OneWriterPerClip
<1>2. /\ clock <= from[o] + LongestOrder + ClipLead + SegmentClosing + SaveTimeout
      /\ clock >= from[o] + MaxBrewDuration + ClipLead + SegmentClosing
  BY <1>1 DEF ClipsInv, ClipsTyped, ClipsAssumption, OnTime, Swept, Gate
<1>3. from[o] \in Nat /\ clock \in Nat /\ LongestOrder + SaveTimeout < MaxBrewDuration
  BY <1>1 DEF ClipsInv, ClipsTyped, ClipsAssumption
<1>4. QED
  BY <1>2, <1>3 DEF ClipsAssumption

(* The types, which time keeps within its bound.                           *)
LEMMA TypesInit ==
  ASSUME ClipsAssumption, Init
  PROVE  TypeOK
BY DEF ClipsAssumption, Init, TypeOK

LEMMA TypesKept ==
  ASSUME ClipsAssumption, TypeOK, [Next]_vars
  PROVE  TypeOK'
<1> USE DEF ClipsAssumption, TypeOK, orderVars, ownVars, sweepVars
<1>1. ASSUME NEW o \in Orders, StartOrder(o)
      PROVE  TypeOK'
  BY <1>1 DEF StartOrder
<1>2. ASSUME NEW o \in Orders, WritePendingSave(o)
      PROVE  TypeOK'
  BY <1>2 DEF WritePendingSave
<1>3. ASSUME NEW o \in Orders, EndOrder(o)
      PROVE  TypeOK'
  BY <1>3 DEF EndOrder, Cleared
<1>4. ASSUME NEW o \in Orders, OwnSave(o)
      PROVE  TypeOK'
  BY <1>4 DEF OwnSave
<1>5. ASSUME NEW o \in Orders, OwnSaved(o)
      PROVE  TypeOK'
  BY <1>5 DEF OwnSaved, Cleared
<1>6. ASSUME NEW o \in Orders, SweepNext(o)
      PROVE  TypeOK'
  BY <1>6 DEF SweepNext
<1>7. CASE StartSweep
  BY <1>7 DEF StartSweep
<1>8. CASE SweepSaved
  BY <1>8 DEF SweepSaved, Cleared
<1>9. CASE Crash
  BY <1>9 DEF Crash
<1>10. CASE Restart
  BY <1>10 DEF Restart
<1>11. CASE Tick
  BY <1>11 DEF Tick
<1>12. CASE UNCHANGED vars
  BY <1>12 DEF vars
<1>13. CASE RemoveCorrupt
  BY <1>13 DEF RemoveCorrupt, Cleared
<1>14. QED
  BY <1>1, <1>2, <1>3, <1>4, <1>5, <1>6, <1>7, <1>8, <1>9, <1>10, <1>11, <1>12, <1>13 DEF Next

LEMMA ClipsStep ==
  ASSUME ClipsAssumption, ClipsInv, [Next]_vars
  PROVE  ClipsInv'
BY OrderKeeps, SweepKeeps, TimeKeeps DEF Next

\* A record is kept for every clip that is still to be saved.
LEMMA RecordsKept ==
  ASSUME ClipsInv
  PROVE  ClipNotLost
BY DEF ClipsInv, ClipsTyped, Kept, ClipNotLost

LEMMA ClipsAlways ==
  ASSUME ClipsAssumption
  PROVE  Spec => []ClipsInv
<1>1. Init => ClipsInv
  BY ClipsInit
<1>2. ClipsInv /\ [Next]_vars => ClipsInv'
  BY ClipsStep
<1>3. QED
  BY <1>1, <1>2, PTL DEF Spec

(* Once the record of an order is written, the clip is saved or the record *)
(* is there to save it from, over crashes, failed saves and sweeps, unless *)
(* a sweep read the record while it was being written: the code has no     *)
(* other way to lose a clip (saveOrderVideoAndClear, CleanupPendingClips). *)
THEOREM RecordsOutliveCrashes ==
  ASSUME ClipsAssumption
  PROVE  Spec => []ClipNotLost
BY RecordsKept, ClipsAlways, PTL

(* maxBrewDuration above the longest order by more than a save may take is *)
(* enough to keep the sweep off an order's own save, whatever the other    *)
(* times are (the comment on maxBrewDuration).                             *)
THEOREM SweepKeepsOff ==
  ASSUME ClipsAssumption
  PROVE  Spec => []OneWriterPerClip
BY SavesApart, ClipsAlways, PTL
=============================================================================
