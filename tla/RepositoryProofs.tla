-------------------------- MODULE RepositoryProofs --------------------------
(***************************************************************************)
(* IInv is inductive, for any graph, any refs, any clients and any number  *)
(* of pushes, evictions and deletions; the properties of RepositoryObject  *)
(* that TLC checks on small instances follow from it.                      *)
(*                                                                         *)
(* Each part of IInv has a lemma that says a step preserves it.  The two   *)
(* that carry the argument are PushInductive (what a push has visited      *)
(* leads only to stored objects) and VersionInductive (a mark that carries *)
(* the current ref version was made from the current refs).  The last part *)
(* adds a fork to it all: its steps leave IInv alone, and IInv keeps still *)
(* what the fork reads.                                                    *)
(***************************************************************************)
EXTENDS RepositoryFork, SequenceTheorems, TLAPS

Follow == [Oid -> SUBSET Oid]

\* Both link functions say, of every object, which objects it names.
LEMMA LinkTypes ==
    ASSUME NEW grafts
    PROVE  Reaches(grafts) \in Follow /\ Verifies(grafts) \in Follow
BY GraphAssumption DEF Reaches, Verifies, Follow

\* What must be held is among what must be kept.
LEMMA VerifyWithinReach ==
    ASSUME NEW grafts, NEW o \in Oid
    PROVE  Verifies(grafts)[o] \subseteq Reaches(grafts)[o]
BY GraphAssumption DEF Reaches, Verifies

\* A closure contains the roots it starts from.
LEMMA ClosureRoots ==
    ASSUME NEW follow, NEW roots \in SUBSET Oid
    PROVE  roots \subseteq Closure(roots, follow)
BY DEF Closure

\* A closure is closed.
LEMMA ClosureClosed ==
    ASSUME NEW follow \in Follow, NEW roots
    PROVE  Closed(Closure(roots, follow), follow) /\ Closure(roots, follow) \subseteq Oid
<1>1. Closure(roots, follow) \subseteq Oid
  BY DEF Closure
<1>2. ASSUME NEW o \in Closure(roots, follow), NEW l \in follow[o]
      PROVE  l \in Closure(roots, follow)
  <2>1. o \in Oid /\ l \in Oid
    BY <1>1 DEF Follow
  <2>2. ASSUME NEW S \in SUBSET Oid, roots \subseteq S, Closed(S, follow)
        PROVE  l \in S
    BY <2>2, <2>1 DEF Closure, Closed
  <2> QED
    BY <2>1, <2>2 DEF Closure
<1> QED
  BY <1>1, <1>2 DEF Closed

\* A closure is the least closed set above its roots.
LEMMA ClosureLeast ==
    ASSUME NEW follow, NEW roots, NEW S \in SUBSET Oid,
           roots \subseteq S, Closed(S, follow)
    PROVE  Closure(roots, follow) \subseteq S
BY DEF Closure

\* A walk that may stop meets its tip, and whatever the objects it traverses
\* name: each is traversed too, or is where the walk may stop.
LEMMA WalkedClosed ==
    ASSUME NEW follow \in Follow, NEW tip \in Oid, NEW stop
    PROVE  /\ tip \in Walked(tip, stop, follow) \cup stop
           /\ \A o \in Walked(tip, stop, follow) :
                 o \in Oid /\ follow[o] \subseteq Walked(tip, stop, follow) \cup stop
<1> DEFINE halted == [o \in Oid |-> IF o \in stop THEN {} ELSE follow[o]]
           C == Closure({tip}, halted)
<1>1. halted \in Follow
  BY DEF Follow
<1>2. tip \in C
  BY ClosureRoots
<1>3. C \subseteq Oid /\ Closed(C, halted)
  BY <1>1, ClosureClosed
<1>4. Walked(tip, stop, follow) = C \ stop
  BY DEF Walked
<1>5. ASSUME NEW o \in C \ stop
      PROVE  o \in Oid /\ follow[o] \subseteq C
  <2>1. halted[o] \subseteq C /\ o \in Oid
    BY <1>3 DEF Closed
  <2> QED
    BY <2>1
<1> HIDE DEF C
<1> QED
  BY <1>2, <1>4, <1>5

\* The live objects of a connected repository are stored, blobs apart: what a
\* sweep walks and what a push was made to prove differ in blobs only.
LEMMA ReachBeyondVerify ==
    ASSUME NEW grafts, NEW roots \in SUBSET Oid
    PROVE  /\ Closure(roots, Verifies(grafts)) \subseteq Closure(roots, Reaches(grafts))
           /\ \A o \in Closure(roots, Reaches(grafts)) :
                 o \in Closure(roots, Verifies(grafts)) \/ Kind[o] = "blob"
<1> DEFINE R == Reaches(grafts)
           V == Verifies(grafts)
           L == Closure(roots, V)
           B == {o \in Oid : Kind[o] = "blob"}
<1>1. R \in Follow /\ V \in Follow
  BY LinkTypes
<1>2. Closed(Closure(roots, R), R) /\ Closure(roots, R) \subseteq Oid
  BY <1>1, ClosureClosed
<1>3. Closed(L, V) /\ L \subseteq Oid
  BY <1>1, ClosureClosed
<1>4. roots \subseteq L /\ roots \subseteq Closure(roots, R)
  BY ClosureRoots
<1>5. Closed(Closure(roots, R), V)
  BY <1>2, VerifyWithinReach DEF Closed
<1>6. L \subseteq Closure(roots, R)
  BY <1>2, <1>4, <1>5, ClosureLeast
<1>7. ASSUME NEW o \in L, NEW l \in R[o]
      PROVE  l \in L \cup B
  <2>1. o \in Oid /\ V[o] \subseteq L
    BY <1>3, <1>7 DEF Closed
  <2>2. l \in V[o] \/ Kind[l] = "blob"
    BY <2>1, <1>7 DEF Reaches, Verifies
  <2>3. l \in Oid
    BY <2>1, <1>1 DEF Follow
  <2> QED
    BY <2>1, <2>2, <2>3
<1>8. ASSUME NEW o \in B
      PROVE  R[o] = {}
  BY GraphAssumption DEF Reaches
<1>9. Closed(L \cup B, R)
  BY <1>7, <1>8 DEF Closed
<1>10. L \cup B \in SUBSET Oid
  BY <1>3
<1>11. Closure(roots, R) \subseteq L \cup B
  BY <1>4, <1>9, <1>10, ClosureLeast
<1> QED
  BY <1>6, <1>11

-----------------------------------------------------------------------------

\* Which actions write which part of the state.
LEMMA Writers ==
    ASSUME [Next]_vars
    PROVE  /\ \/ Initialize \/ ApplyUpdates \/ Destroy
              \/ \E o \in Oid : WriteObject(o) \/ Reclaim(o)
              \/ UNCHANGED gitVars
           /\ \/ SweepBegins \/ SweepEnds \/ Destroy
              \/ \E o \in Oid : Mark(o)
              \/ UNCHANGED sweepVars
           /\ Repack \/ Destroy \/ UNCHANGED repackVars
           /\ \/ ReadCommands \/ Unpacked \/ PushEnds \/ ApplyUpdates \/ ApplyNothing
              \/ Grant \/ Evict
              \/ \E n \in Ref : VerifyCommand(n)
              \/ UNCHANGED pushVars
           /\ \/ \E c \in Client : Advertise(c)
              \/ PushEnds \/ ApplyUpdates \/ ApplyNothing \/ Evict
              \/ UNCHANGED view
           /\ \/ AlarmFires \/ Repack \/ SweepBegins \/ SweepEnds \/ Rearm \/ TurnFails \/ Evict
              \/ \E o \in Oid : Mark(o) \/ MarkFails(o) \/ Reclaim(o)
              \/ UNCHANGED turnVars
           /\ \/ \E c \in Client : PushArrives(c)
              \/ DestroyArrives \/ Evict
              \/ UNCHANGED boundVars
<1>1. ASSUME Initialize \/ Evict \/ Destroy \/ UNCHANGED vars
      PROVE  /\ Destroy \/ UNCHANGED <<sweepVars, repackVars>>
             /\ Evict \/ UNCHANGED <<pushVars, turnVars, view, boundVars>>
             /\ Initialize \/ Destroy \/ UNCHANGED gitVars
  BY <1>1 DEF Initialize, Evict, Destroy, vars
<1>2. ASSUME NEW c \in Client, Advertise(c) \/ PushArrives(c)
      PROVE  /\ UNCHANGED <<gitVars, sweepVars, repackVars, pushVars, turnVars>>
             /\ Advertise(c) \/ UNCHANGED view
             /\ PushArrives(c) \/ UNCHANGED boundVars
  BY <1>2 DEF Advertise, AdvertiseAnyTime, PushArrives
<1>3. ASSUME Grant \/ AlarmFires \/ DestroyArrives
      PROVE  /\ UNCHANGED <<gitVars, sweepVars, repackVars, view>>
             /\ Grant \/ UNCHANGED pushVars
             /\ AlarmFires \/ UNCHANGED turnVars
             /\ DestroyArrives \/ UNCHANGED boundVars
  BY <1>3 DEF Grant, AlarmFires, DestroyArrives, boundVars, turnVars, pushVars
<1>4. ASSUME PushStep
      PROVE  /\ UNCHANGED <<sweepVars, repackVars, turnVars, boundVars>>
             /\ \/ ReadCommands \/ Unpacked \/ PushEnds \/ ApplyUpdates \/ ApplyNothing
                \/ \E n \in Ref : VerifyCommand(n)
                \/ UNCHANGED pushVars
             /\ PushEnds \/ ApplyUpdates \/ ApplyNothing \/ UNCHANGED view
             /\ ApplyUpdates \/ (\E o \in Oid : WriteObject(o)) \/ UNCHANGED gitVars
  BY <1>4 DEF PushStep, ReadCommands, Unpacked, PushEnds, ApplyUpdates, ApplyNothing,
              WriteObject, VerifyCommand
<1>5. ASSUME TurnStep
      PROVE  /\ UNCHANGED <<pushVars, view, boundVars>>
             /\ (\E o \in Oid : Reclaim(o)) \/ UNCHANGED gitVars
             /\ SweepBegins \/ SweepEnds \/ (\E o \in Oid : Mark(o)) \/ UNCHANGED sweepVars
             /\ Repack \/ UNCHANGED repackVars
             /\ \/ Repack \/ SweepBegins \/ SweepEnds \/ Rearm \/ TurnFails
                \/ \E o \in Oid : Mark(o) \/ MarkFails(o) \/ Reclaim(o)
  BY <1>5 DEF TurnStep, Repack, SweepBegins, SweepEnds, Mark, MarkFails, Reclaim, Rearm,
              TurnFails
<1> QED
  BY <1>1, <1>2, <1>3, <1>4, <1>5 DEF Next

-----------------------------------------------------------------------------
\* The durable Git data stays well typed.
LEMMA GitTypeInductive == TypeOK /\ [Next]_vars => GitTypeOK'
<1> SUFFICES ASSUME TypeOK, [Next]_vars PROVE GitTypeOK'
  OBVIOUS
<1> USE DEF TypeOK, GitTypeOK, PushTypeOK
<1>1. CASE Initialize
  BY <1>1 DEF Initialize
<1>2. CASE ApplyUpdates
  <2>1. refs' \in [Ref -> Oid \cup {None}]
    BY <1>2 DEF ApplyUpdates
  <2>2. Retargeted \in Branch \cup {None}
    BY DEF Retargeted
  <2> QED
    BY <2>1, <2>2, <1>2 DEF ApplyUpdates, NextVersion
<1>3. CASE Destroy
  BY <1>3 DEF Destroy, NoRefs
<1>4. ASSUME NEW o \in Oid, WriteObject(o) \/ Reclaim(o)
      PROVE  GitTypeOK'
  BY <1>4 DEF WriteObject, Reclaim
<1>5. CASE UNCHANGED gitVars
  BY <1>5 DEF gitVars
<1> QED
  BY <1>1, <1>2, <1>3, <1>4, <1>5, Writers

\* The sweep's tables stay well typed, and nothing is pending unmarked.
LEMMA SweepTypeInductive == TypeOK /\ [Next]_vars => SweepTypeOK'
<1> SUFFICES ASSUME TypeOK, [Next]_vars PROVE SweepTypeOK'
  OBVIOUS
<1> USE DEF TypeOK, SweepTypeOK, GitTypeOK
<1>1. CASE SweepBegins
  BY <1>1 DEF SweepBegins, CurrentVersion, Tips, sweepVars
<1>2. CASE SweepEnds
  BY <1>2 DEF SweepEnds, NextPhase
<1>3. CASE Destroy
  BY <1>3 DEF Destroy
<1>4. ASSUME NEW o \in Oid, Mark(o)
      PROVE  SweepTypeOK'
  <2>1. Reach[o] \subseteq Oid
    BY LinkTypes DEF Reach, Follow
  <2> QED
    BY <1>4, <2>1 DEF Mark
<1>5. CASE UNCHANGED sweepVars
  BY <1>5 DEF sweepVars
<1> QED
  BY <1>1, <1>2, <1>3, <1>4, <1>5, Writers

\* The repack's row stays well typed.
LEMMA RepackTypeInductive == TypeOK /\ [Next]_vars => RepackTypeOK'
<1> SUFFICES ASSUME TypeOK, [Next]_vars PROVE RepackTypeOK'
  OBVIOUS
<1> USE DEF TypeOK, RepackTypeOK, GitTypeOK
<1>1. CASE Repack
  <2>1. CASE UNCHANGED repackVars
    BY <2>1 DEF repackVars
  <2>2. ASSUME NEW cursor \in Nat, NEW rows \in SUBSET Oid,
               repackCursor' \in IF rows = {} THEN {cursor}
                                 ELSE {o \in rows : \A p \in rows : p <= o}
        PROVE  repackCursor' \in Nat
    BY <2>2, GraphAssumption
  <2>3. CASE ~UNCHANGED repackVars
    <3> DEFINE fresh  == repackVersion # refVersion
               cursor == IF fresh THEN 0 ELSE repackCursor
               rows   == First(RepackBatch, {o \in reachable \cap objects : o > cursor})
    <3>1. cursor \in Nat /\ rows \in SUBSET Oid
      BY DEF First
    <3>2. /\ repackVersion' = refVersion
          /\ repackCursor' \in IF rows = {} THEN {cursor}
                               ELSE {o \in rows : \A p \in rows : p <= o}
          /\ repackDone' = ~(Cardinality(rows) = RepackBatch)
      BY <1>1, <2>3 DEF Repack
    <3> HIDE DEF cursor, rows
    <3> QED
      BY <2>2, <3>1, <3>2
  <2> QED
    BY <2>1, <2>3
<1>2. CASE Destroy
  BY <1>2 DEF Destroy
<1>3. CASE UNCHANGED repackVars
  BY <1>3 DEF repackVars
<1> QED
  BY <1>1, <1>2, <1>3, Writers

\* The push in memory, and every client's view, stay well typed.
LEMMA PushTypeInductive == TypeOK /\ [Next]_vars => PushTypeOK'
<1> SUFFICES ASSUME TypeOK, [Next]_vars PROVE PushTypeOK'
  OBVIOUS
<1> USE DEF TypeOK, PushTypeOK, GitTypeOK
<1> DEFINE ViewOK == view \in [Client -> [Ref -> Oid \cup {None}] \cup {None}]
           StepOK == /\ step \in {"idle", "commands", "unpack", "verify"}
                     /\ current \in [Ref -> Oid \cup {None}]
                     /\ commands \in [Ref -> Oid \cup {None, Keep}]
                     /\ todo \subseteq Ref /\ accepted \subseteq Ref /\ visited \subseteq Oid
                     /\ \A n \in todo \cup accepted : commands[n] # Keep
                     /\ refused \in BOOLEAN /\ atomic \in BOOLEAN
<1>1. ASSUME IdlePush PROVE StepOK'
  BY <1>1 DEF IdlePush, NoRefs
<1>2. CASE PushEnds \/ ApplyUpdates \/ ApplyNothing \/ Evict
  <2>1. IdlePush
    BY <1>2 DEF PushEnds, ApplyUpdates, ApplyNothing, Evict, EndPush
  <2>2. ViewOK'
    BY <1>2 DEF PushEnds, ApplyUpdates, ApplyNothing, Evict, EndPush
  <2> QED
    BY <2>1, <2>2, <1>1
<1>3. StepOK' \/ IdlePush
  <2>1. CASE ReadCommands
    BY <2>1 DEF ReadCommands
  <2>2. CASE Unpacked
    BY <2>2 DEF Unpacked
  <2>3. CASE Grant
    BY <2>3 DEF Grant
  <2>4. ASSUME NEW n \in Ref, VerifyCommand(n) PROVE StepOK'
    <3>1. Walk(n) \subseteq Oid
      BY DEF Walk, Walked, Closure
    <3> QED
      BY <2>4, <3>1 DEF VerifyCommand, Accept, Refuse
  <2>5. CASE UNCHANGED pushVars
    BY <2>5 DEF pushVars
  <2> QED
    BY <2>1, <2>2, <2>3, <2>4, <2>5, Writers
       DEF PushEnds, ApplyUpdates, ApplyNothing, Evict, EndPush
<1>4. ASSUME NEW c \in Client, Advertise(c) PROVE ViewOK'
  BY <1>4 DEF Advertise, AdvertiseAnyTime
<1> QED
  BY <1>1, <1>2, <1>3, <1>4, Writers

\* The alarm handler's state stays well typed.
LEMMA TurnTypeInductive == TypeOK /\ [Next]_vars => TurnTypeOK'
<1> SUFFICES ASSUME TypeOK, [Next]_vars PROVE TurnTypeOK'
  OBVIOUS
<1> USE DEF TypeOK, TurnTypeOK, GitTypeOK, SweepTypeOK
<1>1. CASE AlarmFires \/ Rearm
  BY <1>1 DEF AlarmFires, Rearm
<1>2. CASE Repack
  BY <1>2 DEF Repack, Release, AfterRepack
<1>3. CASE SweepBegins
  BY <1>3 DEF SweepBegins, First, Tips
<1>4. CASE SweepEnds
  BY <1>4 DEF SweepEnds, Release
<1>5. CASE TurnFails \/ Evict
  BY <1>5 DEF TurnFails, Evict, IdleTurn
<1>6. ASSUME NEW o \in Oid, Mark(o) \/ MarkFails(o) \/ Reclaim(o)
      PROVE  TurnTypeOK'
  BY <1>6 DEF Mark, MarkFails, Reclaim, IdleTurn
<1>7. CASE UNCHANGED turnVars
  BY <1>7 DEF turnVars
<1> QED
  BY <1>1, <1>2, <1>3, <1>4, <1>5, <1>6, <1>7, Writers

\* The history counters stay well typed.
LEMMA BoundTypeInductive == TypeOK /\ [Next]_vars => BoundTypeOK'
<1> SUFFICES ASSUME TypeOK, [Next]_vars PROVE BoundTypeOK'
  OBVIOUS
<1> USE DEF TypeOK, BoundTypeOK
<1>1. ASSUME NEW c \in Client, PushArrives(c) PROVE BoundTypeOK'
  BY <1>1 DEF PushArrives
<1>2. CASE DestroyArrives
  BY <1>2 DEF DestroyArrives
<1>3. CASE Evict
  BY <1>3 DEF Evict
<1>4. CASE UNCHANGED boundVars
  BY <1>4 DEF boundVars
<1> QED
  BY <1>1, <1>2, <1>3, <1>4, Writers

\* Who is in the queue after an arrival, and after the first is let in.
LEMMA QueueMembers ==
    ASSUME waiting \in Seq(Actor)
    PROVE  /\ \A a \in Actor : waiting' = Append(waiting, a) =>
                 waiting' \in Seq(Actor) /\ Waiting' \subseteq Waiting \cup {a}
           /\ waiting # <<>> /\ waiting' = Tail(waiting) =>
                 /\ waiting' \in Seq(Actor) /\ Waiting' \subseteq Waiting
                 /\ Head(waiting) \in Actor \cap Waiting
           /\ waiting' = <<>> => waiting' \in Seq(Actor) /\ Waiting' = {}
           /\ waiting' = waiting => Waiting' = Waiting
<1>1. ASSUME NEW a \in Actor, waiting' = Append(waiting, a)
      PROVE  waiting' \in Seq(Actor) /\ Waiting' \subseteq Waiting \cup {a}
  BY <1>1, AppendProperties DEF Waiting
<1>2. ASSUME waiting # <<>>, waiting' = Tail(waiting)
      PROVE  /\ waiting' \in Seq(Actor) /\ Waiting' \subseteq Waiting
             /\ Head(waiting) \in Actor \cap Waiting
  BY <1>2, HeadTailProperties DEF Waiting
<1>3. ASSUME waiting' = <<>> PROVE waiting' \in Seq(Actor) /\ Waiting' = {}
  BY <1>3 DEF Waiting
<1> QED
  BY <1>1, <1>2, <1>3 DEF Waiting

\* One operation holds the gate, and only its holder is in the middle of one.
LEMMA GateInductive ==
    TypeOK /\ GateInv /\ [Next]_vars => GateTypeOK' /\ GateInv'
<1> SUFFICES ASSUME TypeOK, GateInv, [Next]_vars
             PROVE  GateTypeOK' /\ GateInv'
  OBVIOUS
<1> DEFINE Goal == GateTypeOK' /\ GateInv'
<1>0. waiting \in Seq(Actor) /\ Turn \in Actor /\ Destroyer \in Actor /\ Client \subseteq Actor
  BY DEF TypeOK, GateTypeOK, Actor
<1>a. /\ Turn \notin Client /\ Destroyer \notin Client /\ None \notin Client
      /\ Turn # Destroyer /\ None # Turn /\ None # Destroyer
  BY ConfigurationAssumption
<1> USE <1>0, <1>a DEF TypeOK, GateTypeOK, GateInv, PushTypeOK, TurnTypeOK, BoundTypeOK
<1>1. CASE Initialize
  BY <1>1, QueueMembers DEF Initialize, Wake, pushVars, turnVars, boundVars
<1>2. ASSUME NEW c \in Client, Advertise(c) PROVE Goal
  BY <1>2, QueueMembers DEF Advertise, AdvertiseAnyTime, Wake, pushVars, turnVars, boundVars
<1>3. ASSUME NEW c \in Client, PushArrives(c) PROVE Goal
  BY <1>3, QueueMembers DEF PushArrives, Wake, pushVars, turnVars
<1>4. CASE Grant
  BY <1>4, QueueMembers DEF Grant, turnVars, boundVars
<1>5. CASE ReadCommands
  BY <1>5, QueueMembers DEF ReadCommands, turnVars, boundVars
<1>6. ASSUME NEW o \in Oid, WriteObject(o) PROVE Goal
  BY <1>6, QueueMembers DEF WriteObject, pushVars, turnVars, boundVars
<1>7. CASE Unpacked
  BY <1>7, QueueMembers DEF Unpacked, turnVars, boundVars
<1>8. CASE PushEnds
  BY <1>8, QueueMembers DEF PushEnds, EndPush, IdlePush, turnVars, boundVars
<1>9. ASSUME NEW n \in Ref, VerifyCommand(n) PROVE Goal
  BY <1>9, QueueMembers DEF VerifyCommand, turnVars, boundVars
<1>10. CASE ApplyUpdates
  BY <1>10, QueueMembers DEF ApplyUpdates, Verified, EndPush, IdlePush, turnVars, boundVars
<1>11. CASE ApplyNothing
  BY <1>11, QueueMembers DEF ApplyNothing, Verified, EndPush, IdlePush, turnVars, boundVars
<1>12. CASE AlarmFires
  BY <1>12, QueueMembers DEF AlarmFires, Wake, pushVars, boundVars
<1>13. CASE Repack
  BY <1>13, QueueMembers DEF Repack, Release, pushVars, boundVars
<1>14. CASE SweepBegins
  BY <1>14, QueueMembers DEF SweepBegins, pushVars, boundVars
<1>15. ASSUME NEW o \in Oid, Mark(o) PROVE Goal
  BY <1>15, QueueMembers DEF Mark, pushVars, boundVars
<1>16. ASSUME NEW o \in Oid, MarkFails(o) PROVE Goal
  BY <1>16, QueueMembers DEF MarkFails, IdleTurn, pushVars, boundVars
<1>17. ASSUME NEW o \in Oid, Reclaim(o) PROVE Goal
  BY <1>17, QueueMembers DEF Reclaim, pushVars, boundVars
<1>18. CASE SweepEnds
  BY <1>18, QueueMembers DEF SweepEnds, Release, pushVars, boundVars
<1>19. CASE Rearm
  BY <1>19, QueueMembers DEF Rearm, pushVars, boundVars
<1>20. CASE TurnFails
  BY <1>20, QueueMembers DEF TurnFails, IdleTurn, pushVars, boundVars
<1>21. CASE DestroyArrives
  BY <1>21, QueueMembers DEF DestroyArrives, Wake, pushVars, turnVars
<1>22. CASE Destroy
  BY <1>22, QueueMembers DEF Destroy, pushVars, turnVars, boundVars
<1>23. CASE Evict
  BY <1>23, QueueMembers DEF Evict, IdlePush, IdleTurn
<1>24. CASE UNCHANGED vars
  BY <1>24, QueueMembers DEF vars, pushVars, turnVars, boundVars
<1> QED
  BY <1>1, <1>2, <1>3, <1>4, <1>5, <1>6, <1>7, <1>8, <1>9, <1>10, <1>11, <1>12, <1>13,
     <1>14, <1>15, <1>16, <1>17, <1>18, <1>19, <1>20, <1>21, <1>22, <1>23, <1>24
     DEF Next, PushStep, TurnStep

\* Until initialize, nothing has been written, queued or scheduled.
LEMMA FreshInductive ==
    TypeOK /\ GateInv /\ FreshInv /\ [Next]_vars => FreshInv'
<1> SUFFICES ASSUME TypeOK, GateInv, FreshInv, [Next]_vars,
                    ~initialized', ~destroyed'
             PROVE  FreshInv'
  BY DEF FreshInv
<1> USE DEF TypeOK, GitTypeOK, GateTypeOK, TurnTypeOK, PushTypeOK
<1>0. /\ Turn \notin Client /\ None \notin Client \cup {Turn, Destroyer}
      /\ Reader \cap (Client \cup {None, Turn, Destroyer}) = {}
  BY ConfigurationAssumption
<1>1. ~destroyed /\ initialized' = initialized
  <2>1. CASE Destroy
    BY <2>1, <1>0 DEF Destroy, GateInv, boundVars
  <2>2. CASE Initialize
    BY <2>2 DEF Initialize
  <2>3. CASE ~Destroy /\ ~Initialize
    <3>1. initialized' = initialized
      BY <2>3, Writers DEF ApplyUpdates, WriteObject, Reclaim, gitVars
    <3>2. destroyed => destroyed'
      BY Writers DEF PushArrives, DestroyArrives, Evict, boundVars
    <3> QED
      BY <3>1, <3>2
  <2> QED
    BY <2>1, <2>2, <2>3
<1>2. /\ refs = NoRefs /\ sweepPhase = "none" /\ ~alarm /\ turn = "idle"
      /\ holder \in Reader \cup {None} /\ Waiting \subseteq Reader
      /\ \A c \in Client : view[c] = None
      /\ step = "idle" /\ ~sweeping
  BY <1>0, <1>1 DEF FreshInv, GateInv
<1>3. Grant \/ Evict \/ UNCHANGED vars
  <2>1. ~Initialize /\ ~DestroyArrives /\ \A c \in Client : ~Advertise(c) /\ ~PushArrives(c)
    BY <1>1, <1>2 DEF Initialize, DestroyArrives, Advertise, PushArrives
  <2>2. ~PushStep
    BY <1>0, <1>2 DEF PushStep, ReadCommands, Unpacked, PushEnds, ApplyUpdates, ApplyNothing,
                      Verified, WriteObject, VerifyCommand
  <2>3. ~TurnStep
    BY <1>0, <1>2 DEF TurnStep, Repack, SweepBegins, SweepEnds, Rearm, TurnFails, Mark,
                      MarkFails, Reclaim
  <2>4. ~AlarmFires /\ ~Destroy
    BY <1>0, <1>2 DEF AlarmFires, Destroy
  <2> QED
    BY <2>1, <2>2, <2>3, <2>4 DEF Next
<1>4. CASE Evict
  <2>1. /\ refs' = refs /\ sweepPhase' = sweepPhase /\ holder' = None /\ Waiting' = {}
        /\ turn' = "idle"
    BY <1>4 DEF Evict, IdleTurn, gitVars, sweepVars, Waiting
  <2>2. ~alarm'
    BY <1>2, <1>4 DEF Evict
  <2>3. \A c \in Client : view'[c] = None
    BY <1>2, <1>4 DEF Evict
  <2> QED
    BY <1>2, <2>1, <2>2, <2>3 DEF FreshInv, NoRefs
<1>5. CASE UNCHANGED vars
  BY <1>2, <1>5 DEF vars, FreshInv, gitVars, sweepVars, turnVars, NoRefs, Waiting
<1>6. CASE Grant
  <2>1. holder' \in Reader /\ Waiting' \subseteq Reader
    BY <1>2, <1>6, QueueMembers DEF Grant
  <2> QED
    BY <1>2, <1>6, <2>1 DEF Grant, FreshInv, gitVars, sweepVars, turnVars, NoRefs
<1> QED
  BY <1>3, <1>4, <1>5, <1>6

\* The mark set stays closed but for what is pending, whoever interrupts it.
LEMMA MarkInductive ==
    TypeOK /\ GateInv /\ MarkInv /\ [Next]_vars => MarkInv'
<1> SUFFICES ASSUME TypeOK, GateInv, MarkInv, [Next]_vars PROVE MarkInv'
  OBVIOUS
<1> USE DEF TypeOK, GitTypeOK, SweepTypeOK, TurnTypeOK, MarkInv, GateInv
<1>1. CASE SweepBegins
  <2>1. First(MarkBatch, Tips(refs)) \subseteq Tips(refs)
    BY DEF First
  <2>2. First(MarkBatch, IF sweepPhase = "mark" THEN pending ELSE objects \ reachable)
           \subseteq IF sweepPhase = "mark" THEN pending ELSE objects \ reachable
    BY DEF First
  <2>3. CASE /\ sweepPhase' = "mark" /\ reachable' = Tips(refs) /\ pending' = Tips(refs)
             /\ batch' = First(MarkBatch, Tips(refs))
    BY <2>1, <2>3
  <2>4. CASE /\ sweepPhase \in {"mark", "sweep"} /\ UNCHANGED sweepVars
             /\ batch' = First(MarkBatch, IF sweepPhase = "mark" THEN pending
                                          ELSE objects \ reachable)
    <3>1. UNCHANGED shallow
      BY <1>1 DEF SweepBegins, gitVars
    <3> QED
      BY <2>2, <2>4, <3>1 DEF Reach, sweepVars
  <2> QED
    BY <1>1, <2>3, <2>4 DEF SweepBegins, SweepRestarts, SweepTypeOK
<1>2. CASE SweepEnds
  BY <1>2 DEF SweepEnds, NextPhase, Reach, gitVars
<1>3. CASE Destroy
  <2>1. ~sweeping /\ UNCHANGED sweeping
    BY <1>3, ConfigurationAssumption DEF Destroy, turnVars
  <2> QED
    BY <1>3, <2>1 DEF Destroy
<1>4. ASSUME NEW o \in Oid, Mark(o) PROVE MarkInv'
  <2>1. o \in batch /\ o \in pending /\ Reach[o] \subseteq Oid
    BY <1>4, LinkTypes DEF Mark, First, Reach, Follow
  <2>2. Reach' = Reach
    BY <1>4 DEF Mark, Reach, gitVars
  <2> QED
    BY <1>4, <2>1, <2>2 DEF Mark
<1>5. ASSUME UNCHANGED sweepVars, UNCHANGED shallow, UNCHANGED sweeping, batch' \subseteq batch
      PROVE  MarkInv'
  BY <1>5 DEF sweepVars, Reach
<1>6. ASSUME UNCHANGED sweepVars, UNCHANGED shallow, ~sweeping'
      PROVE  MarkInv'
  BY <1>6 DEF sweepVars, Reach
<1>7. Destroy \/ UNCHANGED shallow
  BY Writers DEF Initialize, ApplyUpdates, WriteObject, Reclaim, gitVars
<1>8. \/ SweepBegins \/ SweepEnds \/ \E o \in Oid : Mark(o)
      \/ (UNCHANGED sweeping /\ batch' \subseteq batch)
      \/ ~sweeping'
  BY Writers DEF AlarmFires, Repack, Rearm, TurnFails, Evict, MarkFails, Reclaim, IdleTurn,
                 turnVars
<1> QED
  BY <1>1, <1>2, <1>3, <1>4, <1>5, <1>6, <1>7, <1>8, Writers

\* A mark that carries the current version was made from the current refs.
LEMMA VersionInductive ==
    TypeOK /\ GateInv /\ FreshInv /\ PushInv /\ MarkInv /\ VersionInv /\ [Next]_vars
        => VersionInv'
<1> SUFFICES ASSUME TypeOK, GateInv, FreshInv, PushInv, MarkInv, VersionInv, [Next]_vars,
                    initialized'
             PROVE  VersionInv'
  BY DEF VersionInv
<1> USE DEF TypeOK, GitTypeOK, SweepTypeOK, TurnTypeOK, VersionInv, MarkInv
<1>0. None \notin Client /\ Turn \notin Client
  BY ConfigurationAssumption
<1>1. CASE Initialize
  <2>1. sweepPhase' = "none" /\ ~sweeping /\ UNCHANGED sweeping
    BY <1>1, <1>0, ConfigurationAssumption
       DEF Initialize, FreshInv, GateInv, sweepVars, turnVars
  <2> QED
    BY <2>1
<1>2. CASE ApplyUpdates
  <2>1. ~sweeping /\ UNCHANGED sweeping /\ UNCHANGED sweepVars
    BY <1>2, <1>0 DEF ApplyUpdates, Verified, GateInv, turnVars
  <2>2. initialized /\ refVersion' = refVersion + 1
    BY <1>2 DEF ApplyUpdates, NextVersion
  <2> QED
    BY <2>1, <2>2 DEF sweepVars
<1>3. CASE SweepBegins
  <2>1. UNCHANGED gitVars
    BY <1>3 DEF SweepBegins
  <2>2. Tips(refs) \subseteq Live
    BY ClosureRoots DEF Live, Tips
  <2>3. Live' = Live /\ Tips(refs)' = Tips(refs)
    BY <2>1 DEF Live, Tips, Reach, gitVars
  <2> QED
    BY <1>3, <2>1, <2>2, <2>3 DEF SweepBegins, SweepRestarts, CurrentVersion, gitVars, sweepVars
<1>4. CASE SweepEnds
  <2>1. UNCHANGED gitVars
    BY <1>4 DEF SweepEnds
  <2>2. Live' = Live /\ Tips(refs)' = Tips(refs)
    BY <2>1 DEF Live, Tips, Reach, gitVars
  <2> QED
    BY <1>4, <2>1, <2>2 DEF SweepEnds, NextPhase, gitVars
<1>5. ASSUME NEW o \in Oid, Mark(o) PROVE VersionInv'
  <2>1. UNCHANGED gitVars
    BY <1>5 DEF Mark
  <2>2. Live' = Live /\ Tips(refs)' = Tips(refs)
    BY <2>1 DEF Live, Tips, Reach, gitVars
  <2>3. o \in reachable
    BY <1>5 DEF Mark, First
  <2>4. Closed(Live, Reach)
    BY LinkTypes, ClosureClosed DEF Live, Reach
  <2>5. reachable \subseteq Live => Reach[o] \subseteq Live
    BY <2>3, <2>4 DEF Closed
  <2> QED
    BY <1>5, <2>1, <2>2, <2>3, <2>5 DEF Mark, gitVars
<1>6. ASSUME UNCHANGED <<refs, shallow, initialized, refVersion>>, UNCHANGED sweepVars,
             sweeping' => sweeping
      PROVE  VersionInv'
  <2>1. Live' = Live /\ Tips(refs)' = Tips(refs)
    BY <1>6 DEF Live, Tips, Reach
  <2> QED
    BY <1>6, <2>1 DEF sweepVars
<1>7. ~Destroy
  BY DEF Destroy
<1>8. \/ Initialize \/ ApplyUpdates
      \/ UNCHANGED <<refs, shallow, initialized, refVersion>>
  BY <1>7, Writers DEF WriteObject, Reclaim, gitVars
<1>9. \/ SweepBegins \/ SweepEnds \/ \E o \in Oid : Mark(o)
      \/ (sweeping' => sweeping)
  BY Writers DEF AlarmFires, Repack, Rearm, TurnFails, Evict, MarkFails, Reclaim, IdleTurn,
                 turnVars
<1> QED
  BY <1>1, <1>2, <1>3, <1>4, <1>5, <1>6, <1>7, <1>8, <1>9, Writers

\* The refs, and what is stored, under which a push is judged.
Unmoved == UNCHANGED <<refs, shallow, initialized>> /\ objects \subseteq objects'

\* What was screened stays true until the push ends, and what was visited leads
\* only to stored objects.
LEMMA PushInductive ==
    TypeOK /\ GateInv /\ FreshInv /\ PushInv /\ [Next]_vars => PushInv'
<1> SUFFICES ASSUME TypeOK, GateInv, FreshInv, PushInv, [Next]_vars PROVE PushInv'
  OBVIOUS
<1> USE DEF TypeOK, GitTypeOK, PushTypeOK, GateInv
<1>0. /\ Turn \notin Client /\ Destroyer \notin Client /\ None \notin Client
      /\ Turn # Destroyer /\ None # Turn /\ None # Destroyer /\ None \notin Oid
  BY ConfigurationAssumption
<1>1. ASSUME IdlePush PROVE PushInv'
  BY <1>1 DEF IdlePush, PushInv
<1>2. ASSUME step = "idle", UNCHANGED pushVars PROVE PushInv'
  BY <1>2 DEF PushInv, pushVars
<1>3. ASSUME Unmoved PROVE Held' = Held /\ Verify' = Verify /\ Tips(refs)' = Tips(refs)
  BY <1>3 DEF Unmoved, Held, Verify, Tips
<1>4. ASSUME Unmoved, UNCHANGED <<pushVars, holder>>,
             holder \in Client => view'[holder] = view[holder]
      PROVE  PushInv'
  BY <1>3, <1>4 DEF PushInv, pushVars, Unmoved
<1>5. CASE Initialize
  <2>1. holder \notin Client
    BY <1>0, <1>5, ConfigurationAssumption DEF Initialize, FreshInv
  <2> QED
    BY <1>2, <1>5, <2>1 DEF Initialize
<1>6. ASSUME NEW c \in Client, Advertise(c) PROVE PushInv'
  <2>1. Unmoved /\ UNCHANGED <<pushVars, holder>>
    BY <1>6 DEF Advertise, AdvertiseAnyTime, gitVars, Unmoved
  <2>2. step \in {"unpack", "verify"} => \A n \in todo \cup accepted : view'[holder][n] = refs[n]
    BY <1>6 DEF Advertise, AdvertiseAnyTime, PushInv
  <2> QED
    BY <1>3, <2>1, <2>2 DEF PushInv, pushVars, Unmoved
<1>7. ASSUME NEW c \in Client, PushArrives(c) PROVE PushInv'
  BY <1>7, <1>4 DEF PushArrives, gitVars, Unmoved
<1>8. CASE Grant
  <2>1. step = "idle" /\ step' \in {"idle", "commands"} /\ Unmoved
    BY <1>8, <1>0 DEF Grant, gitVars, Unmoved
  <2>2. UNCHANGED <<current, commands, todo, accepted, refused, atomic, visited>>
    BY <1>8 DEF Grant
  <2> QED
    BY <2>1, <2>2, <1>3 DEF PushInv, Unmoved
<1>9. CASE ReadCommands
  <2>1. Unmoved /\ UNCHANGED view /\ UNCHANGED holder
    BY <1>9 DEF ReadCommands, gitVars, Unmoved
  <2>2. /\ visited' = {} /\ accepted' = {} /\ current' = refs
        /\ step' \in {"unpack", "verify"}
    BY <1>9 DEF ReadCommands
  <2>3. \A n \in todo' : view[holder][n] = refs[n]
    BY <1>9 DEF ReadCommands, Screened
  <2>4. atomic' /\ ~refused' => \A n \in Ref : commands'[n] # Keep => n \in todo'
    <3> SUFFICES ASSUME atomic', ~refused', NEW n \in Ref, commands'[n] # Keep
                 PROVE  n \in todo'
      OBVIOUS
    <3>1. PICK asked \in [Ref -> Oid \cup {None, Keep}], all \in BOOLEAN, odd \in BOOLEAN :
             LET named  == {m \in Ref : asked[m] # Keep}
                 passed == {m \in named : Screened(view[holder][m], asked[m], refs[m])}
             IN  /\ commands' = asked /\ atomic' = all /\ todo' = passed
                 /\ refused' = (all /\ (odd \/ passed # named))
      BY <1>9 DEF ReadCommands
    <3> DEFINE named  == {m \in Ref : asked[m] # Keep}
               passed == {m \in named : Screened(view[holder][m], asked[m], refs[m])}
    <3>2. passed = named
      BY <3>1, Zenon
    <3> QED
      BY <3>1, <3>2
  <2> QED
    BY <2>1, <2>2, <2>3, <2>4 DEF PushInv, Unmoved
<1>10. ASSUME NEW o \in Oid, WriteObject(o) PROVE PushInv'
  BY <1>10, <1>4 DEF WriteObject, Unmoved
<1>11. CASE Unpacked
  <2>1. Unmoved /\ UNCHANGED <<view, holder, current, commands, todo, accepted, refused, atomic, visited>>
    BY <1>11 DEF Unpacked, gitVars, Unmoved
  <2>2. step = "unpack" /\ step' = "verify"
    BY <1>11 DEF Unpacked
  <2> QED
    BY <2>1, <2>2, <1>3 DEF PushInv, Unmoved
<1>12. CASE PushEnds \/ ApplyUpdates \/ ApplyNothing \/ Evict
  BY <1>12, <1>1 DEF PushEnds, ApplyUpdates, ApplyNothing, Evict, EndPush
<1>13. ASSUME NEW n \in Ref, VerifyCommand(n) PROVE PushInv'
  <2> DEFINE new  == commands[n]
             stop == Tips(current) \cup visited
  <2>1. /\ Unmoved
        /\ UNCHANGED <<view, holder, step, current, commands, atomic>>
    BY <1>13 DEF VerifyCommand, gitVars, Unmoved
  <2>2. step = "verify" /\ n \in todo /\ todo' = todo \ {n} /\ current = refs
    BY <1>13 DEF VerifyCommand, PushInv
  <2>3. CASE new = None /\ accepted' = accepted \cup {n} /\ UNCHANGED <<visited, refused>>
    BY <1>3, <2>1, <2>2, <2>3 DEF PushInv, Unmoved
  <2>4. CASE /\ new # None /\ Walk(n) \subseteq objects
             /\ accepted' = accepted \cup {n} /\ visited' = visited \cup Walk(n)
             /\ UNCHANGED refused
    <3>1. new \in Oid
      BY <2>2, <2>4
    <3>2. Verify \in Follow
      BY LinkTypes DEF Verify
    <3>3. /\ new \in Walk(n) \cup stop
          /\ \A o \in Walk(n) : Verify[o] \subseteq Walk(n) \cup stop
      BY <3>1, <3>2, WalkedClosed DEF Walk
    <3>4. Tips(refs) \subseteq Held
      BY ClosureRoots DEF Held, Tips
    <3>5. stop = Tips(refs) \cup visited
      BY <2>2
    <3> HIDE DEF stop
    <3>6. \A o \in visited' : initialized => Verify[o] \subseteq visited' \cup Held
      BY <2>4, <3>3, <3>4, <3>5 DEF PushInv
    <3>7. \A m \in accepted' : initialized => commands[m] \in visited' \cup Tips(refs) \cup {None}
      BY <2>4, <3>3, <3>5 DEF PushInv
    <3> QED
      BY <1>3, <2>1, <2>2, <2>4, <3>6, <3>7 DEF PushInv, Unmoved
  <2>5. CASE refused' = atomic /\ UNCHANGED <<visited, accepted>>
    BY <1>3, <2>1, <2>2, <2>5 DEF PushInv, Unmoved
  <2> QED
    BY <1>13, <2>3, <2>4, <2>5 DEF VerifyCommand, Accept, Refuse
<1>14. CASE AlarmFires \/ DestroyArrives \/ Rearm
  BY <1>14, <1>4 DEF AlarmFires, DestroyArrives, Rearm, gitVars, Unmoved
<1>15. CASE Destroy \/ TurnFails \/ Repack \/ SweepBegins \/ SweepEnds
  BY <1>15, <1>0, <1>2 DEF Destroy, TurnFails, Repack, SweepBegins, SweepEnds
<1>16. ASSUME NEW o \in Oid, Mark(o) \/ MarkFails(o) \/ Reclaim(o)
       PROVE  PushInv'
  BY <1>16, <1>0, <1>2 DEF Mark, MarkFails, Reclaim
<1>17. CASE UNCHANGED vars
  BY <1>17, <1>4 DEF vars, gitVars, Unmoved
<1> QED
  BY <1>5, <1>6, <1>7, <1>8, <1>9, <1>10, <1>11, <1>12, <1>13, <1>14, <1>15, <1>16, <1>17
     DEF Next, PushStep, TurnStep

\* Only a push moves refs, onto what it visited; only a sweep of the current
\* refs takes objects away, and none that a ref reaches.
LEMMA HeldInductive ==
    IInv /\ [Next]_vars => ServedRefsConnected'
<1> SUFFICES ASSUME IInv, [Next]_vars, initialized' PROVE RefsConnected'
  BY DEF ServedRefsConnected
<1> USE DEF IInv, TypeOK, GitTypeOK, SweepTypeOK
<1>0. Verify \in Follow /\ Reach \in Follow
  BY LinkTypes DEF Verify, Reach
<1>1. CASE Initialize
  <2>1. Tips(refs)' = {} /\ Verify' = Verify
    BY <1>1 DEF Initialize, FreshInv, NoRefs, Tips, Verify
  <2>2. Closure({}, Verify) \subseteq {}
    <3>1. {} \in SUBSET Oid /\ {} \subseteq {} /\ Closed({}, Verify)
      BY DEF Closed
    <3> QED
      BY <3>1, ClosureLeast
  <2> QED
    BY <2>1, <2>2 DEF RefsConnected
<1>2. CASE ApplyUpdates
  <2> DEFINE S == visited \cup Held
  <2>1. initialized /\ visited \subseteq objects /\ Held \subseteq objects
    BY <1>2 DEF ApplyUpdates, PushInv, ServedRefsConnected, RefsConnected, Held
  <2>2. Held \subseteq Oid /\ Closed(Held, Verify) /\ Tips(refs) \subseteq Held
    BY <1>0, ClosureClosed, ClosureRoots DEF Held, Tips
  <2>3. S \in SUBSET Oid /\ Closed(S, Verify)
    BY <2>1, <2>2 DEF PushInv, Closed
  <2>4. Tips(refs)' \subseteq S
    <3> SUFFICES ASSUME NEW n \in Ref, refs'[n] # None PROVE refs'[n] \in S
      BY <1>2 DEF Tips
    <3>1. refs'[n] = IF n \in accepted THEN commands[n] ELSE refs[n]
      BY <1>2 DEF ApplyUpdates
    <3>2. refs[n] \in Tips(refs) \cup {None}
      BY DEF Tips
    <3> QED
      BY <2>1, <2>2, <3>1, <3>2 DEF PushInv
  <2>5. Verify' = Verify /\ objects' = objects
    BY <1>2 DEF ApplyUpdates, Verify
  <2>6. Closure(Tips(refs)', Verify) \subseteq S
    BY <2>3, <2>4, ClosureLeast
  <2> QED
    BY <2>1, <2>5, <2>6 DEF RefsConnected
<1>3. ASSUME NEW o \in Oid, Reclaim(o) PROVE RefsConnected'
  <2>1. /\ initialized /\ sweeping /\ sweepPhase = "sweep" /\ o \in batch
        /\ objects' = objects \ {o} /\ UNCHANGED <<refs, shallow>>
    BY <1>3 DEF Reclaim, First
  <2>2. o \notin reachable /\ pending = {} /\ Closed(reachable, Reach)
    BY <2>1 DEF MarkInv, Closed
  <2>3. Tips(refs) \subseteq reachable
    BY <2>1 DEF VersionInv
  <2>4. Closure(Tips(refs), Reach) \subseteq reachable
    BY <2>2, <2>3, ClosureLeast
  <2>5. Held \subseteq Closure(Tips(refs), Reach)
    BY ReachBeyondVerify DEF Held, Verify, Reach, Tips
  <2>6. Held \subseteq objects /\ Held' = Held
    BY <2>1 DEF ServedRefsConnected, RefsConnected, Held, Verify, Tips
  <2> QED
    BY <2>1, <2>2, <2>4, <2>5, <2>6 DEF RefsConnected, Held
<1>4. ASSUME UNCHANGED <<refs, shallow, initialized>>, objects \subseteq objects'
      PROVE  RefsConnected'
  BY <1>4 DEF ServedRefsConnected, RefsConnected, Verify, Tips
<1>5. ~Destroy
  BY DEF Destroy
<1>6. \/ Initialize \/ ApplyUpdates \/ \E o \in Oid : Reclaim(o)
      \/ UNCHANGED <<refs, shallow, initialized>> /\ objects \subseteq objects'
  BY <1>5, Writers DEF WriteObject, gitVars
<1> QED
  BY <1>1, <1>2, <1>3, <1>4, <1>6

\* A published or a claimed repository satisfies the invariant.
LEMMA InitInvariant == Init => IInv
<1> SUFFICES ASSUME Init PROVE IInv
  OBVIOUS
<1> USE ConfigurationAssumption DEF Init
<1>1. PICK r \in InitialRepositories :
         /\ refs = r.refs /\ shallow = r.shallow
         /\ objects = Closure(Tips(r.refs), Reaches(r.shallow))
         /\ \E created \in BOOLEAN :
               /\ created => Tips(r.refs) = {} /\ r.shallow = {}
               /\ initialized = ~created
               /\ alarm = ~created
         /\ refVersion = IF r.shallow = {} THEN 0 ELSE 1
  OBVIOUS
<1>2. refs \in [Ref -> Oid \cup {None}] /\ shallow \subseteq Oid
  BY <1>1 DEF Repositories
<1>3. objects = Live /\ objects \subseteq Oid
  BY <1>1, LinkTypes, ClosureClosed DEF Live, Reach
<1>4. initialized \in BOOLEAN /\ alarm = initialized
  BY <1>1
<1>5. TypeOK
  <2>1. GitTypeOK
    BY <1>1, <1>2, <1>3, <1>4 DEF GitTypeOK
  <2>2. SweepTypeOK /\ RepackTypeOK /\ TurnTypeOK /\ BoundTypeOK
    BY DEF SweepTypeOK, RepackTypeOK, TurnTypeOK, BoundTypeOK
  <2>3. GateTypeOK
    BY <1>4 DEF GateTypeOK
  <2>4. PushTypeOK
    BY DEF PushTypeOK, NoRefs
  <2> QED
    BY <2>1, <2>2, <2>3, <2>4 DEF TypeOK
<1>6. GateInv /\ MarkInv /\ VersionInv /\ PushInv
  BY DEF GateInv, MarkInv, VersionInv, PushInv, Waiting
<1>7. FreshInv
  <2> SUFFICES ASSUME ~initialized PROVE refs = NoRefs /\ ~alarm
    BY DEF FreshInv, Waiting
  <2>1. Tips(refs) = {}
    BY <1>1
  <2>2. \A n \in Ref : refs[n] = None
    BY <2>1 DEF Tips
  <2>3. DOMAIN refs = Ref /\ refs = [n \in DOMAIN refs |-> refs[n]]
    BY <1>2
  <2>4. refs = NoRefs
    BY <2>2, <2>3 DEF NoRefs
  <2> QED
    BY <1>4, <2>4
<1>8. ServedRefsConnected
  BY <1>2, <1>3, ReachBeyondVerify
     DEF ServedRefsConnected, RefsConnected, Live, Reach, Verify, Tips
<1> QED
  BY <1>5, <1>6, <1>7, <1>8 DEF IInv

\* Every step preserves the invariant.
LEMMA Inductive == IInv /\ [Next]_vars => IInv'
<1> SUFFICES ASSUME IInv, [Next]_vars PROVE IInv'
  OBVIOUS
<1>1. TypeOK'
  BY GitTypeInductive, SweepTypeInductive, RepackTypeInductive, PushTypeInductive,
     TurnTypeInductive, BoundTypeInductive, GateInductive DEF IInv, TypeOK
<1>2. GateInv' /\ FreshInv' /\ PushInv' /\ MarkInv' /\ VersionInv'
  BY GateInductive, FreshInductive, PushInductive, MarkInductive, VersionInductive DEF IInv
<1>3. ServedRefsConnected'
  BY HeldInductive
<1> QED
  BY <1>1, <1>2, <1>3 DEF IInv

\* Every behaviour of a repository stays within the inductive invariant.
THEOREM Invariance == Spec => []IInv
BY InitInvariant, Inductive, PTL DEF Spec

-----------------------------------------------------------------------------
\* A finished mark set of the current version is exactly the live objects.
LEMMA MarkIsLive ==
    ASSUME IInv, initialized, sweepPhase \in {"sweep", "complete"},
           sweepVersion = refVersion
    PROVE  reachable = Live
<1> USE DEF IInv, TypeOK, GitTypeOK, SweepTypeOK
<1>1. Tips(refs) \subseteq reachable /\ reachable \subseteq Live
  BY DEF VersionInv
<1>2. Closed(reachable, Reach)
  BY DEF MarkInv, Closed
<1>3. Live \subseteq reachable
  BY <1>1, <1>2, ClosureLeast DEF Live
<1> QED
  BY <1>1, <1>3

\* Every state of a repository is well typed.
THEOREM TypeCorrect == Spec => []TypeOK
BY Invariance, PTL DEF IInv

\* No ref of an initialized repository ever names, or leads to, an object that
\* a push should have been made to supply and that is not stored.
THEOREM Connected == Spec => []ServedRefsConnected
BY Invariance, PTL DEF IInv

\* A completed sweep of the current refs is an exact reachability index.
THEOREM IndexIsExact == Spec => []IndexExact
<1>1. IInv => IndexExact
  BY MarkIsLive DEF IndexExact, Live
<1> QED
  BY <1>1, Invariance, PTL

\* The mark walk of an initialized repository never meets a missing object
\* other than a blob.
THEOREM MarkSucceeds == Spec => []MarkNeverFails
<1>1. IInv => MarkNeverFails
  <2> SUFFICES ASSUME IInv, initialized, sweeping, sweepPhase = "mark", NEW o \in batch
               PROVE  o \in objects \/ Kind[o] = "blob"
    BY DEF MarkNeverFails
  <2> USE DEF IInv, TypeOK, GitTypeOK, SweepTypeOK
  <2>1. o \in Live
    BY DEF MarkInv, VersionInv
  <2>2. o \in Held \/ Kind[o] = "blob"
    BY <2>1, ReachBeyondVerify DEF Live, Held, Reach, Verify, Tips
  <2> QED
    BY <2>2 DEF ServedRefsConnected, RefsConnected, Held
<1> QED
  BY <1>1, Invariance, PTL

\* What a sweep deletes, no current ref reaches, however old its mark.
THEOREM LiveKept == Spec => LiveObjectsKept
<1> DEFINE Spares == initialized /\ initialized' =>
                        (objects \ objects') \cap Closure(Tips(refs), Reach) = {}
<1>1. IInv /\ [Next]_vars => Spares
  <2> SUFFICES ASSUME IInv, [Next]_vars, initialized, initialized'
               PROVE  (objects \ objects') \cap Live = {}
    BY DEF Live
  <2>1. ASSUME NEW o \in Oid, Reclaim(o) PROVE (objects \ objects') \cap Live = {}
    <3>1. sweeping /\ sweepPhase = "sweep" /\ o \in batch /\ objects' = objects \ {o}
      BY <2>1 DEF Reclaim, First
    <3>2. reachable = Live /\ o \notin reachable
      BY <3>1, MarkIsLive DEF IInv, VersionInv, MarkInv
    <3> QED
      BY <3>1, <3>2
  <2>2. (\E o \in Oid : Reclaim(o)) \/ objects \subseteq objects'
    BY Writers DEF Initialize, ApplyUpdates, Destroy, WriteObject, gitVars
  <2> QED
    BY <2>1, <2>2
<1>2. IInv /\ [Next]_vars => [Spares]_vars
  BY <1>1
<1> QED
  BY <1>2, Invariance, PTL DEF Spec, LiveObjectsKept

\* Refs of a served repository are moved by a push, and by nothing else.
LEMMA RefWriters ==
    ASSUME IInv, [Next]_vars, refs' # refs, initialized'
    PROVE  ApplyUpdates
BY Writers DEF Initialize, Destroy, WriteObject, Reclaim, gitVars

\* A push moves a ref only from the value its client saw.
THEOREM NoUpdateLost == Spec => NoLostUpdate
<1> DEFINE Fair == \A n \in Ref : refs'[n] # refs[n] /\ initialized' =>
                      holder \in Client /\ view[holder][n] = refs[n]
<1>1. IInv /\ [Next]_vars => Fair
  <2> SUFFICES ASSUME IInv, [Next]_vars, NEW n \in Ref, refs'[n] # refs[n], initialized'
               PROVE  holder \in Client /\ view[holder][n] = refs[n]
    OBVIOUS
  <2>1. ApplyUpdates
    BY RefWriters
  <2>2. step = "verify" /\ n \in accepted
    BY <2>1 DEF ApplyUpdates, Verified, IInv, TypeOK, GitTypeOK
  <2> QED
    BY <2>2 DEF IInv, GateInv, PushInv
<1>2. IInv /\ [Next]_vars => [Fair]_vars
  BY <1>1
<1> QED
  BY <1>2, Invariance, PTL DEF Spec, NoLostUpdate

\* An atomic push is applied as a whole or not at all.
THEOREM AtomicWhole == Spec => AtomicPushWhole
<1> DEFINE Whole == refs' # refs /\ atomic =>
                       \A n \in Ref : commands[n] # Keep => refs'[n] = commands[n]
<1>1. IInv /\ [Next]_vars => Whole
  <2> SUFFICES ASSUME IInv, [Next]_vars, refs' # refs, atomic,
                      NEW n \in Ref, commands[n] # Keep
               PROVE  refs'[n] = commands[n]
    OBVIOUS
  <2>1. ~Destroy
    BY ConfigurationAssumption DEF Destroy, IInv, GateInv, PushInv
  <2>2. ApplyUpdates
    BY <2>1, Writers DEF Initialize, WriteObject, Reclaim, gitVars
  <2>3. n \in accepted
    BY <2>2 DEF ApplyUpdates, Verified, IInv, PushInv
  <2> QED
    BY <2>2, <2>3 DEF ApplyUpdates
<1>2. IInv /\ [Next]_vars => [Whole]_vars
  BY <1>1
<1> QED
  BY <1>2, Invariance, PTL DEF Spec, AtomicPushWhole

\* Storage is never destroyed under a push or a sweep batch.
THEOREM DestructionWaits == Spec => DestroyWaits
<1> DEFINE Waits == initialized /\ ~initialized' => step = "idle" /\ ~sweeping
<1>1. IInv /\ [Next]_vars => Waits
  <2> SUFFICES ASSUME IInv, [Next]_vars, initialized, ~initialized'
               PROVE  step = "idle" /\ ~sweeping
    OBVIOUS
  <2>1. holder = Destroyer
    BY Writers DEF Initialize, ApplyUpdates, Destroy, WriteObject, Reclaim, gitVars
  <2> QED
    BY <2>1, ConfigurationAssumption DEF IInv, TypeOK, PushTypeOK, TurnTypeOK, GateInv
<1>2. IInv /\ [Next]_vars => [Waits]_vars
  BY <1>1
<1> QED
  BY <1>2, Invariance, PTL DEF Spec, DestroyWaits

-----------------------------------------------------------------------------
(* A fork beside all this: the gate keeps its snapshot still, and what it      *)
(* collects from that snapshot is a closure.                                   *)

\* A running copy holds the gate, so its snapshot stays.
SnapshotHeld ==
    forkStep \in {"collect", "copy"} =>
        /\ holder = Forker /\ initialized
        /\ copied \subseteq objects
        /\ copiedRefs \in {refs, [n \in Ref |-> IF n = head THEN refs[n] ELSE None]}

\* What is collected leads only to what is collected or still to be read, and is
\* in every closed set with the roots.
Collecting ==
    /\ forkStep \in {"idle", "waiting"} => copied = {}
    /\ forkStep \in {"idle", "waiting", "collect"} => target = {}
    /\ forkStep = "copy" => frontier = {} /\ target \subseteq copied
    /\ forkStep \in {"collect", "copy"} =>
          /\ copied \subseteq Oid
          /\ Tips(copiedRefs) \subseteq copied \cup frontier
          /\ \A o \in copied : Follows[o] \subseteq copied \cup frontier
          /\ \A S \in SUBSET Oid :
                Tips(copiedRefs) \subseteq S /\ Closed(S, Follows) =>
                    copied \cup frontier \subseteq S

ForkInv == IInv /\ SnapshotHeld /\ Collecting /\ ForkExact

\* The fork is none of the others that use the gate.
LEMMA ForkerApart ==
    /\ Forker \in Actor /\ Forker \notin Client
    /\ Forker # Turn /\ Forker # None /\ Forker # Destroyer
BY ConfigurationAssumption, ForkerAssumption DEF Actor

\* A step of the fork changes the gate and nothing else of the repository.
LEMMA ForkUsesGate ==
    ASSUME ForkStep
    PROVE  /\ UNCHANGED <<gitVars, sweepVars, repackVars, pushVars, turnVars, view,
                          boundVars, alarm>>
           /\ \/ /\ Wake /\ UNCHANGED holder
                 /\ waiting' = Append(waiting, Forker)
              \/ /\ UNCHANGED <<waiting, loaded, schema>>
                 /\ holder = Forker /\ holder' \in {Forker, None}
<1>1. CASE ForkArrives
  BY <1>1 DEF ForkArrives
<1>2. CASE ForkBegins \/ Collected \/ CompleteFork \/ ForkFails
  BY <1>2 DEF ForkBegins, Collected, CompleteFork, ForkFails, EndFork, Reads
<1>3. ASSUME NEW o \in Oid, Collect(o) \/ CopyObject(o)
      PROVE  UNCHANGED <<gitVars, sweepVars, repackVars, pushVars, turnVars, view, boundVars,
                         alarm, waiting, loaded, schema, holder>> /\ holder = Forker
  BY <1>3 DEF Collect, CopyObject, Reads
<1> QED
  BY <1>1, <1>2, <1>3 DEF ForkStep

\* So it leaves the invariant of the repository as it is.
LEMMA ForkStepKeeps ==
    ASSUME IInv, ForkStep
    PROVE  IInv'
<1> USE DEF IInv
<1>1. UNCHANGED <<gitVars, sweepVars, repackVars, pushVars, turnVars, view, boundVars,
                  alarm>>
  BY ForkUsesGate
<1>2. /\ holder' = holder \/ (holder = Forker /\ holder' = None)
      /\ schema' \in BOOLEAN /\ loaded' \in BOOLEAN /\ (schema => schema')
  <2>1. CASE Wake /\ UNCHANGED holder
    BY <2>1 DEF Wake, TypeOK, GateTypeOK
  <2>2. CASE UNCHANGED <<loaded, schema>> /\ holder = Forker /\ holder' \in {Forker, None}
    BY <2>2 DEF TypeOK, GateTypeOK
  <2> QED
    BY <2>1, <2>2, ForkUsesGate
<1>3. waiting \in Seq(Actor) /\ waiting' \in Seq(Actor) /\ Waiting' \subseteq Waiting \cup {Forker}
  BY ForkUsesGate, QueueMembers, ForkerApart DEF TypeOK, GateTypeOK
<1>4. /\ GitTypeOK' /\ SweepTypeOK' /\ RepackTypeOK' /\ PushTypeOK' /\ TurnTypeOK'
      /\ BoundTypeOK'
  BY <1>1 DEF TypeOK, GitTypeOK, SweepTypeOK, RepackTypeOK, PushTypeOK, TurnTypeOK,
     BoundTypeOK, gitVars, sweepVars, repackVars, pushVars, turnVars, boundVars
<1>5. GateTypeOK'
  BY <1>1, <1>2, <1>3 DEF TypeOK, GateTypeOK
<1>6. GateInv'
  <2>1. (step # "idle" <=> holder \in Client)'
    BY <1>1, <1>2, ForkerApart, ConfigurationAssumption DEF GateInv, pushVars
  <2>2. (sweeping => holder = Turn /\ turn = "sweep" /\ schema)'
    BY <1>1, <1>2, ForkerApart DEF GateInv, turnVars
  <2>3. (holder = Destroyer \/ Destroyer \in Waiting => destroyed)'
    BY <1>1, <1>2, <1>3, ForkerApart, ConfigurationAssumption DEF GateInv, boundVars
  <2> QED
    BY <2>1, <2>2, <2>3 DEF GateInv
<1>7. FreshInv'
  BY <1>1, <1>2, <1>3, ForkerAssumption
     DEF FreshInv, NoRefs, gitVars, sweepVars, turnVars, boundVars
<1>8. PushInv'
  <2>1. step \in {"unpack", "verify"} => holder' = holder
    BY <1>2, ForkerApart DEF GateInv
  <2> QED
    BY <1>1, <2>1 DEF PushInv, Held, Verify, Tips, gitVars, pushVars
<1>9. MarkInv' /\ VersionInv'
  BY <1>1 DEF MarkInv, VersionInv, Live, Reach, Tips, gitVars, sweepVars, turnVars
<1>10. ServedRefsConnected'
  BY <1>1 DEF ServedRefsConnected, RefsConnected, Verify, Tips, gitVars
<1> QED
  BY <1>4, <1>5, <1>6, <1>7, <1>8, <1>9, <1>10 DEF TypeOK

\* While the fork holds the gate no ref moves and no object goes, and it keeps
\* the gate for as long as there is an instance.
LEMMA NothingMovesUnderFork ==
    ASSUME IInv, holder = Forker, initialized, [Next]_vars
    PROVE  /\ UNCHANGED <<refs, head, initialized>>
           /\ objects \subseteq objects'
           /\ holder' = Forker \/ (loaded /\ ~loaded')
<1> USE ForkerApart
<1>1. step = "idle" /\ ~sweeping
  BY DEF IInv, GateInv
<1>2. CASE PushStep
  BY <1>1, <1>2 DEF PushStep, ReadCommands, Unpacked, PushEnds, ApplyUpdates, ApplyNothing,
        WriteObject, VerifyCommand, Verified
<1>3. CASE TurnStep
  BY <1>1, <1>3 DEF TurnStep, Repack, SweepBegins, SweepEnds, Rearm, TurnFails, Mark, MarkFails,
        Reclaim, gitVars
<1>4. CASE Evict
  BY <1>4 DEF Evict, gitVars
<1>5. ASSUME NEW c \in Client, Advertise(c) \/ PushArrives(c)
      PROVE  UNCHANGED <<gitVars, holder>>
  BY <1>5 DEF Advertise, AdvertiseAnyTime, PushArrives
<1>6. CASE Grant \/ Destroy \/ Initialize
  BY <1>6 DEF Grant, Destroy, Initialize
<1>7. CASE AlarmFires \/ DestroyArrives \/ UNCHANGED vars
  BY <1>7 DEF AlarmFires, DestroyArrives, vars, gitVars
<1> QED
  BY <1>2, <1>3, <1>4, <1>5, <1>6, <1>7 DEF Next, gitVars

\* Nothing has been copied when the first fork arrives.
LEMMA ForkInitial == ForkInit => ForkInv
BY InitInvariant DEF ForkInit, ForkInv, SnapshotHeld, Collecting, ForkExact

\* A step of the fork itself.
LEMMA ForkInductive ==
    ASSUME ForkInv, ForkStep
    PROVE  ForkInv'
<1> USE DEF ForkInv
<1>0. Follows \in Follow
  BY LinkTypes DEF Follows
<1>8. IInv'
  BY ForkStepKeeps
<1>1. CASE ForkArrives
  BY <1>8, <1>1 DEF ForkArrives, SnapshotHeld, Collecting, ForkExact, Tips, Follows
<1>2. CASE ForkBegins
  <2>2. SnapshotHeld'
    BY <1>2 DEF ForkBegins, Reads, SnapshotHeld, Collecting, gitVars
  <2>3. /\ copied' = {} /\ target' = {} /\ forkStep' = "collect"
        /\ frontier' = Tips(copiedRefs')
    BY <1>2 DEF ForkBegins, Collecting
  <2>4. Tips(copiedRefs)' = Tips(copiedRefs')
    BY DEF Tips
  <2>5. Collecting'
    BY <2>3, <2>4 DEF Collecting
  <2> QED
    BY <1>8, <2>2, <2>3, <2>5 DEF ForkExact
<1>3. ASSUME NEW o \in Oid, Collect(o)
      PROVE  ForkInv'
  <2>2. SnapshotHeld'
    BY <1>3 DEF Collect, Reads, SnapshotHeld, gitVars
  <2>3. /\ forkStep = "collect" /\ forkStep' = "collect" /\ o \in frontier
        /\ copied' = copied \cup {o}
        /\ frontier' = (frontier \cup Follows[o]) \ copied'
        /\ UNCHANGED <<copiedRefs, target, targetRefs>>
    BY <1>3 DEF Collect
  <2>4. Tips(copiedRefs)' = Tips(copiedRefs)
    BY <2>3 DEF Tips
  <2>5. /\ copied' \subseteq Oid /\ target' = {}
        /\ Tips(copiedRefs) \subseteq copied' \cup frontier'
        /\ \A p \in copied' : Follows[p] \subseteq copied' \cup frontier'
    BY <2>3 DEF Collecting
  <2>6. ASSUME NEW S \in SUBSET Oid, Tips(copiedRefs) \subseteq S, Closed(S, Follows)
        PROVE  copied' \cup frontier' \subseteq S
    <3>1. copied \cup frontier \subseteq S
      BY <2>3, <2>6 DEF Collecting
    <3>2. Follows[o] \subseteq S
      BY <3>1, <2>3, <2>6 DEF Closed
    <3> QED
      BY <3>1, <3>2, <2>3
  <2>7. Collecting'
    BY <2>3, <2>4, <2>5, <2>6 DEF Collecting, Follows
  <2> QED
    BY <1>8, <2>2, <2>3, <2>7 DEF ForkExact
<1>4. CASE Collected
  <2>1. SnapshotHeld'
    BY <1>4 DEF Collected, Reads, SnapshotHeld, gitVars
  <2>2. Collecting'
    BY <1>4 DEF Collected, Collecting, Tips, Follows
  <2> QED
    BY <1>8, <1>4, <2>1, <2>2 DEF Collected, ForkExact
<1>5. ASSUME NEW o \in Oid, CopyObject(o)
      PROVE  ForkInv'
  <2>1. SnapshotHeld'
    BY <1>5 DEF CopyObject, Reads, SnapshotHeld, gitVars
  <2>2. Collecting'
    BY <1>5 DEF CopyObject, Collecting, Tips, Follows
  <2> QED
    BY <1>8, <1>5, <2>1, <2>2 DEF CopyObject, ForkExact
<1>6. CASE CompleteFork
  <2>2. SnapshotHeld' /\ Collecting'
    BY <1>6 DEF CompleteFork, EndFork, SnapshotHeld, Collecting
  <2>3. /\ forkStep = "copy" /\ targetRefs' = copiedRefs
        /\ target' = target /\ target = copied /\ frontier = {}
    BY <1>6 DEF CompleteFork, Collecting
  <2>4. /\ copied \in SUBSET Oid /\ Tips(copiedRefs) \subseteq copied
        /\ Closed(copied, Follows)
    BY <2>3 DEF Collecting, Closed
  <2>5. Closure(Tips(copiedRefs), Follows) \subseteq copied
    BY <2>4, ClosureLeast
  <2>6. copied \subseteq Closure(Tips(copiedRefs), Follows)
    BY <2>3 DEF Collecting, Closure
  <2>7. Tips(targetRefs)' = Tips(copiedRefs)
    BY <2>3 DEF Tips
  <2>8. ForkExact'
    BY <2>3, <2>5, <2>6, <2>7 DEF ForkExact, Follows
  <2> QED
    BY <1>8, <2>2, <2>8
<1>7. CASE ForkFails
  BY <1>7, <1>8 DEF ForkFails, EndFork, SnapshotHeld, Collecting, ForkExact
<1> QED
  BY <1>1, <1>2, <1>3, <1>4, <1>5, <1>6, <1>7 DEF ForkStep

\* A step of anybody else.
LEMMA ForkUndisturbed ==
    ASSUME ForkInv, OtherStep \/ UNCHANGED <<vars, forkVars>>
    PROVE  ForkInv'
<1> USE DEF ForkInv
<1>1. /\ [Next]_vars
      /\ forkStep' = forkStep \/ forkStep' = "failed"
      /\ forkStep \in {"collect", "copy"} /\ loaded /\ ~loaded' => forkStep' = "failed"
      /\ UNCHANGED <<copiedRefs, copied, frontier, target, targetRefs>>
  BY DEF OtherStep, vars, forkVars
<1>2. IInv'
  BY <1>1, Inductive
<1>3. SnapshotHeld'
  <2>1. CASE forkStep' \in {"collect", "copy"}
    <3>1. forkStep' = forkStep /\ ~(loaded /\ ~loaded')
      BY <1>1, <2>1
    <3>2. holder = Forker /\ initialized
      BY <3>1, <2>1 DEF SnapshotHeld
    <3>3. /\ UNCHANGED <<refs, head, initialized>> /\ objects \subseteq objects'
          /\ holder' = Forker
      BY <1>1, <3>1, <3>2, NothingMovesUnderFork
    <3> QED
      BY <1>1, <2>1, <3>1, <3>2, <3>3 DEF SnapshotHeld
  <2> QED
    BY <2>1 DEF SnapshotHeld
<1>4. Collecting' /\ ForkExact'
  BY <1>1 DEF Collecting, ForkExact, Tips, Follows
<1> QED
  BY <1>2, <1>3, <1>4

\* Forks, pushes and maintenance together keep every part of the invariant.
THEOREM ForkInvariance == ForkSpec => []ForkInv
BY ForkInitial, ForkInductive, ForkUndisturbed, PTL DEF ForkSpec

\* Whatever is pushed, swept, deleted or evicted around it, no ref moves under
\* a copy and nothing it has read vanishes.
THEOREM ForkSeesOneSnapshot == ForkSpec => []SnapshotStable
<1>1. ForkInv => SnapshotStable
  BY DEF ForkInv, SnapshotHeld, SnapshotStable
<1> QED
  BY <1>1, ForkInvariance, PTL

\* A finished fork is its refs and all they reach, and nothing else.
THEOREM ForkIsExact == ForkSpec => []ForkExact
<1>1. ForkInv => ForkExact
  BY DEF ForkInv
<1> QED
  BY <1>1, ForkInvariance, PTL

\* What a copy of a whole history cannot find is a file that no push brought.
THEOREM ForkMissesFilesOnly == ForkSpec => []OnlyUnpushedMissing
<1>1. ASSUME ForkInv PROVE OnlyUnpushedMissing
  <2> SUFFICES ASSUME forkStep = "collect", shallow = {},
                      NEW o \in frontier \ objects
               PROVE  Kind[o] = "blob"
    BY DEF OnlyUnpushedMissing
  <2> DEFINE L == Closure(Tips(refs), Reach)
  <2>1. Tips(copiedRefs) \subseteq Tips(refs) /\ initialized
    BY <1>1 DEF ForkInv, SnapshotHeld, Tips
  <2>2. Tips(refs) \in SUBSET Oid
    BY <1>1 DEF ForkInv, IInv, TypeOK, GitTypeOK, Tips
  <2>3. L \in SUBSET Oid /\ Closed(L, Reach) /\ Tips(refs) \subseteq L
    BY <2>2, LinkTypes, ClosureClosed, ClosureRoots DEF Reach
  <2>4. Follows = Reach
    BY DEF Follows, Reach
  <2>5. o \in L
    BY <1>1, <2>1, <2>3, <2>4 DEF ForkInv, Collecting
  <2>6. o \in Closure(Tips(refs), Verify) \/ Kind[o] = "blob"
    BY <2>2, <2>5, ReachBeyondVerify DEF Reach, Verify
  <2>7. Closure(Tips(refs), Verify) \subseteq objects
    BY <1>1, <2>1 DEF ForkInv, IInv, ServedRefsConnected, RefsConnected
  <2> QED
    BY <2>6, <2>7
<1> QED
  BY <1>1, ForkInvariance, PTL

\* Pushes and sweeps beside a fork leave no ref of the source on a hole.
THEOREM ConnectedBesideFork == ForkSpec => []ServedRefsConnected
<1>1. ForkInv => ServedRefsConnected
  BY DEF ForkInv, IInv
<1> QED
  BY <1>1, ForkInvariance, PTL
=============================================================================
