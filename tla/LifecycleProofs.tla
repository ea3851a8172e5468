--------------------------- MODULE LifecycleProofs ---------------------------
(***************************************************************************)
(* No row points at an object whose storage was emptied, and a cleanup     *)
(* leaves the rows of others alone, for any names and any number of        *)
(* requests, forks among them, and of failing calls.                       *)
(*                                                                         *)
(* NothingEmptiedServed is not inductive: that an object is emptied only   *)
(* after its row is gone rests on who may empty it.  LifecycleInv says     *)
(* that a row is found under the name its request reserved, so that to     *)
(* drop that row is to drop the object's only one, and that an object that *)
(* is to be emptied has no row and no way left to get one.                 *)
(*                                                                         *)
(* A fork keeps what Reservation promises of its name, if no other fork    *)
(* asks for that name: every step is one of four Turns for it, and each is *)
(* a step of Reservation or none.                                          *)
(***************************************************************************)
EXTENDS RepositoryAccess, TLAPS

\* The calls of a request before its name is reserved.
Unreserved == {"start", "reserve"}

\* Emptied, or about to be.
Spent(o) == \/ contents[o] \in {"emptied", "torn"} \/ pc[o] = "destroy"
            \/ \E d \in Delete : o \in doomed[d]

RowsOwned ==
    \A n \in Name : rows[n] # None =>
        name[rows[n].object] = n /\ pc[rows[n].object] \notin Unreserved

SpentGone ==
    \A o \in Object : Spent(o) =>
        /\ pc[o] \notin Unreserved
        /\ \A n \in Name : rows[n] # None => rows[n].object # o

\* What is not initialized yet has no contents to tear.
Fresh ==
    \A c \in Create : pc[c] \in Unreserved \cup {"initialize"} => contents[c] \in {"empty", "emptied"}

LifecycleInv == TypeOK /\ RowsOwned /\ SpentGone /\ Fresh

-----------------------------------------------------------------------------
Calls == {"start", "initialize", "token", "reserve", "copy", "copying", "publish", "release",
          "destroy", "discard", "done"}

\* A call that is answered, or that throws, moves its own request.
LEMMA AnsweredMoves ==
    ASSUME NEW r, NEW next, NEW thrown, Answered(r, next, thrown), failures \in Nat
    PROVE  /\ failures' \in Nat
           /\ pc' = [pc EXCEPT ![r] = next] \/ pc' = [pc EXCEPT ![r] = thrown]
BY DEF Answered

\* An exception ends a request, or takes it to the release of its name.
LEMMA ThrownEnds == \A r \in Request : Thrown(r) \in {"release", "done"}
BY DEF Thrown, GivesUp

LEMMA InitHolds == Init => LifecycleInv
<1> SUFFICES ASSUME Init PROVE LifecycleInv
  OBVIOUS
<1> USE DEF Init
<1>1. TypeOK
  BY RequestAssumption DEF TypeOK, Request, Object
<1>2. RowsOwned /\ SpentGone /\ Fresh
  BY DEF RowsOwned, SpentGone, Spent, Fresh, Unreserved, Object, Request
<1> QED
  BY <1>1, <1>2 DEF LifecycleInv

\* A step that only moves its request, not to a release's end and not back to
\* before its reservation.
LEMMA MoveInductive ==
    ASSUME LifecycleInv, UNCHANGED <<binding, namespace, rows, contents, name, doomed>>,
           NEW r \in Request, NEW p \in Calls \ {"initialize", "destroy"},
           p \in Unreserved => pc[r] \in Unreserved,
           pc' = [pc EXCEPT ![r] = p],
           source' \in [Fork -> Object \cup {None}], copying' \subseteq Fork, failures' \in Nat
    PROVE  LifecycleInv'
<1> USE DEF LifecycleInv
<1>1. TypeOK'
  BY DEF TypeOK, Calls
<1>2. RowsOwned' /\ SpentGone' /\ Fresh'
  BY DEF RowsOwned, SpentGone, Spent, Fresh, TypeOK, Unreserved, Request, Object
<1> QED
  BY <1>1, <1>2

\* The namespace's creation, and the failures of calls.
LEMMA CallFailsInductive ==
    ASSUME LifecycleInv, UNCHANGED binding, CreateNamespace \/ \E r \in Request : CallFails(r)
    PROVE  LifecycleInv'
<1>1. CASE CreateNamespace
  BY <1>1 DEF CreateNamespace, LifecycleInv, TypeOK, RowsOwned, SpentGone, Spent, Fresh
<1>2. ASSUME NEW r \in Request, CallFails(r)
      PROVE  LifecycleInv'
  <2>1. PICK p \in {"release", "done"} : pc' = [pc EXCEPT ![r] = p]
    BY <1>2, ThrownEnds DEF CallFails
  <2>2. UNCHANGED <<namespace, rows, contents, name, doomed, source, copying>> /\ failures' \in Nat
    BY <1>2 DEF CallFails, LifecycleInv, TypeOK
  <2>3. source' \in [Fork -> Object \cup {None}] /\ copying' \subseteq Fork
    BY <2>2 DEF LifecycleInv, TypeOK
  <2>4. p \in Calls \ {"initialize", "destroy"} /\ p \notin Unreserved
    BY DEF Calls, Unreserved
  <2> QED
    BY <2>1, <2>2, <2>3, <2>4, MoveInductive
<1> QED
  BY <1>1, <1>2

\* A name is reserved, or refused: no row had the object of the request before.
LEMMA ReserveInductive ==
    ASSUME LifecycleInv, UNCHANGED binding,
           NEW r \in Object, pc[r] \in Unreserved,
           NEW status \in {"forking", "ready"}, NEW next \in {"initialize", "copy"},
           Reserve(r, status, next)
    PROVE  LifecycleInv'
<1> USE DEF LifecycleInv
<1>1. PICK n \in Name :
          /\ name' = [name EXCEPT ![r] = n]
          /\ \/ /\ rows[n] = None
                /\ rows' = [rows EXCEPT ![n] = [object |-> r, status |-> status]]
                /\ Answered(r, next, "done")
             \/ rows' = rows /\ Answered(r, "done", "done")
          /\ UNCHANGED <<namespace, contents, source, copying, doomed>>
  BY DEF Reserve
<1>2. PICK p \in {next, "done"} : pc' = [pc EXCEPT ![r] = p]
  BY <1>1, AnsweredMoves DEF TypeOK
<1>3. failures' \in Nat
  BY <1>1, AnsweredMoves DEF TypeOK
<1>4. r \in Request /\ pc \in [Request -> Calls]
  BY DEF Request, TypeOK, Calls
<1>5. rows' \in [Name -> Row \cup {None}]
  BY <1>1 DEF TypeOK, Row
<1>6. TypeOK'
  BY <1>1, <1>2, <1>3, <1>4, <1>5 DEF TypeOK
<1>7. \A m \in Name : rows[m] # None => rows[m].object # r
  BY DEF RowsOwned
<1>8. \A m \in Name : rows'[m] # None =>
          rows'[m] = rows[m] \/ (m = name'[r] /\ rows'[m].object = r)
  BY <1>1, <1>4 DEF TypeOK
<1>9. RowsOwned'
  BY <1>1, <1>2, <1>4, <1>7, <1>8 DEF RowsOwned, TypeOK, Unreserved, Request
<1>10. SpentGone'
  <2>1. ~Spent(r)
    BY DEF SpentGone
  <2>2. \A o \in Object : Spent(o)' => Spent(o) /\ o # r
    BY <1>1, <1>2, <1>4, <2>1 DEF Spent, Request
  <2> QED
    BY <1>2, <1>4, <1>8, <2>2 DEF SpentGone, Request, TypeOK
<1>11. Fresh'
  BY <1>1, <1>2, <1>4 DEF Fresh, Unreserved, Request, Object
<1> QED
  BY <1>6, <1>9, <1>10, <1>11

\* The steps of a create.
LEMMA CreateInductive ==
    ASSUME LifecycleInv, UNCHANGED binding, NEW c \in Create, CreateStep(c)
    PROVE  LifecycleInv'
<1> USE DEF LifecycleInv
<1>1. c \in Object /\ c \in Request /\ pc \in [Request -> Calls]
  BY DEF Object, Request, TypeOK, Calls
<1>2. CASE EnsureNamespace(c)
  <2>1. PICK p \in {"reserve", "done"} : pc' = [pc EXCEPT ![c] = p]
    BY <1>2, AnsweredMoves DEF EnsureNamespace, TypeOK
  <2>2. /\ pc[c] = "start" /\ namespace' = TRUE /\ failures' \in Nat
        /\ UNCHANGED <<rows, contents, name, source, copying, doomed>>
    BY <1>2, AnsweredMoves DEF EnsureNamespace, TypeOK
  <2>3. TypeOK'
    BY <1>1, <2>1, <2>2 DEF TypeOK
  <2>4. RowsOwned' /\ SpentGone' /\ Fresh'
    BY <1>1, <2>1, <2>2 DEF RowsOwned, SpentGone, Spent, Fresh, Unreserved, TypeOK
  <2> QED
    BY <2>3, <2>4
<1>3. CASE CreateRepository(c)
  BY <1>1, <1>3, ReserveInductive DEF CreateRepository, Unreserved
<1>4. CASE Initialize(c)
  <2>1. PICK p \in {"token", "release", "done"} : pc' = [pc EXCEPT ![c] = p]
    BY <1>1, <1>4, AnsweredMoves, ThrownEnds DEF Initialize, TypeOK
  <2>2. /\ pc[c] = "initialize" /\ failures' \in Nat
        /\ UNCHANGED <<namespace, rows, name, source, copying, doomed>>
    BY <1>4, AnsweredMoves DEF Initialize, TypeOK
  <2>3. PICK x \in {"whole", "torn", "emptied"} :
            /\ contents' = [contents EXCEPT ![c] = x]
            /\ x # "whole" => contents[c] = "emptied"
    BY <1>1, <1>4 DEF Initialize, Fresh, Unreserved, TypeOK
  <2>4. TypeOK'
    BY <1>1, <2>1, <2>2, <2>3 DEF TypeOK
  <2>5. RowsOwned' /\ Fresh'
    BY <1>1, <2>1, <2>2, <2>3 DEF RowsOwned, Fresh, Unreserved, TypeOK
  <2>6. \A o \in Object : Spent(o)' => Spent(o)
    BY <1>1, <2>1, <2>2, <2>3 DEF Spent, TypeOK, Request
  <2>7. SpentGone'
    BY <1>1, <2>1, <2>2, <2>6 DEF SpentGone, Unreserved, TypeOK, Request
  <2> QED
    BY <2>4, <2>5, <2>7
<1> QED
  BY <1>2, <1>3, <1>4 DEF CreateStep

\* The token of an answer, of a create or a fork.
LEMMA TokenInductive ==
    ASSUME LifecycleInv, NEW r \in Object, TokenStep(r)
    PROVE  LifecycleInv'
<1>1. PICK p \in {"publish", "release", "done"} : pc' = [pc EXCEPT ![r] = p]
  BY AnsweredMoves, ThrownEnds
     DEF TokenStep, CreateToken, CreateForkToken, GivesUp, LifecycleInv, TypeOK, Request
<1>2. failures' \in Nat
  BY AnsweredMoves DEF TokenStep, CreateToken, CreateForkToken, LifecycleInv, TypeOK
<1> QED
  BY <1>1, <1>2, MoveInductive
     DEF TokenStep, CreateToken, CreateForkToken, LifecycleInv, TypeOK, Calls, Unreserved, Request

\* The steps of a fork that leave rows and contents alone.
LEMMA ForkMovesInductive ==
    ASSUME LifecycleInv, UNCHANGED binding, NEW f \in Fork,
           ResolveSource(f) \/ CopyBegins(f) \/ CopyFails(f)
    PROVE  LifecycleInv'
<1> USE DEF LifecycleInv, TypeOK
<1>1. f \in Request
  BY DEF Object, Request
<1>2. CASE ResolveSource(f)
  <2>1. PICK p \in {"reserve", "done"} : pc' = [pc EXCEPT ![f] = p]
    BY <1>2, AnsweredMoves DEF ResolveSource
  <2>2. source' \in [Fork -> Object \cup {None}]
    BY <1>2 DEF ResolveSource, Ready, Row
  <2>3. failures' \in Nat
    BY <1>2, AnsweredMoves DEF ResolveSource
  <2> QED
    BY <1>1, <1>2, <2>1, <2>2, <2>3, MoveInductive DEF ResolveSource, Unreserved, Calls
<1>3. CASE CopyBegins(f)
  <2>1. PICK p \in {"copying", "release"} : pc' = [pc EXCEPT ![f] = p]
    BY <1>3 DEF CopyBegins, GivesUp
  <2> QED
    BY <1>1, <1>3, <2>1, MoveInductive DEF CopyBegins, Unreserved, Calls
<1>4. CASE CopyFails(f)
  <2>1. CASE UNCHANGED pc
    BY <1>4, <2>1
       DEF CopyFails, CopyEnds, Answered, RowsOwned, SpentGone, Spent, Fresh
  <2>2. CASE pc' = [pc EXCEPT ![f] = "release"]
    <3>1. failures' \in Nat
      BY <1>4, AnsweredMoves DEF CopyFails, CopyEnds
    <3> QED
      BY <1>1, <1>4, <2>2, <3>1, MoveInductive DEF CopyFails, CopyEnds, Unreserved, Calls
  <2> QED
    BY <1>4, <2>1, <2>2, AnsweredMoves DEF CopyFails, CopyEnds, GivesUp
<1> QED
  BY <1>2, <1>3, <1>4

\* The steps of a fork that write its object.
LEMMA ForkWritesInductive ==
    ASSUME LifecycleInv, UNCHANGED binding, NEW f \in Fork, WriteForkObject(f) \/ CompleteFork(f)
    PROVE  LifecycleInv'
<1> USE DEF LifecycleInv
<1>1. f \in Object /\ f \in Request /\ f \notin Create /\ pc \in [Request -> Calls]
  BY RequestAssumption DEF Object, Request, TypeOK, Calls
<1>2. PICK x \in {"partial", "whole", "torn"} :
          /\ contents' = [contents EXCEPT ![f] = x]
          /\ x = "torn" => contents[f] \in {"emptied", "torn"}
  BY <1>1 DEF WriteForkObject, CompleteFork, TypeOK
<1>3. pc' = pc \/ \E p \in {"token", "release"} : pc' = [pc EXCEPT ![f] = p]
  BY AnsweredMoves DEF WriteForkObject, CompleteFork, CopyEnds, GivesUp, TypeOK
<1>4. pc = pc' \/ pc[f] = "copying"
  BY DEF WriteForkObject, CompleteFork, CopyEnds
<1>5. /\ UNCHANGED <<namespace, rows, name, source, doomed>>
      /\ copying' \subseteq Fork /\ failures' \in Nat
  BY AnsweredMoves DEF WriteForkObject, CompleteFork, CopyEnds, TypeOK
<1>6. TypeOK'
  BY <1>1, <1>2, <1>3, <1>5 DEF TypeOK
<1>7. RowsOwned' /\ Fresh'
  <2>1. \A o \in Create : contents'[o] = contents[o] /\ pc'[o] = pc[o]
    BY <1>1, <1>2, <1>3 DEF TypeOK, Object, Request
  <2>2. \A o \in Object : pc[o] \notin Unreserved => pc'[o] \notin Unreserved
    BY <1>1, <1>3 DEF Unreserved, Request
  <2> QED
    BY <1>5, <2>1, <2>2 DEF RowsOwned, Fresh, TypeOK, Row
<1>8. \A o \in Object : Spent(o)' => Spent(o)
  BY <1>1, <1>2, <1>3, <1>5 DEF Spent, TypeOK, Request
<1>9. SpentGone'
  BY <1>1, <1>3, <1>5, <1>8 DEF SpentGone, Unreserved, TypeOK, Request
<1> QED
  BY <1>6, <1>7, <1>9

LEMMA PublishedKeeps ==
    \A row \in Row \cup {None} :
        /\ Published(row) \in Row \cup {None}
        /\ Published(row) # None <=> row # None
        /\ row # None => Published(row).object = row.object
<1> SUFFICES ASSUME NEW row \in Row, row # None
             PROVE  Published(row) \in Row /\ Published(row).object = row.object
  BY RequestAssumption DEF Published
<1> QED
  BY DEF Published, Row

\* finishFork changes a status, and no row's object.
LEMMA FinishForkInductive ==
    ASSUME LifecycleInv, UNCHANGED binding, NEW f \in Fork, FinishFork(f)
    PROVE  LifecycleInv'
<1> USE DEF LifecycleInv
<1>1. f \in Request /\ pc \in [Request -> Calls]
  BY DEF Object, Request, TypeOK, Calls
<1>2. PICK p \in {"release", "done"} : pc' = [pc EXCEPT ![f] = p]
  BY AnsweredMoves DEF FinishFork, GivesUp, TypeOK
<1>3. /\ UNCHANGED <<namespace, contents, name, source, copying, doomed>>
      /\ pc[f] = "publish" /\ failures' \in Nat
  BY AnsweredMoves DEF FinishFork, TypeOK
<1>4. \A n \in Name : /\ rows'[n] # None <=> rows[n] # None
                      /\ rows[n] # None => rows'[n].object = rows[n].object
                      /\ rows'[n] \in Row \cup {None}
  BY PublishedKeeps DEF FinishFork, TypeOK
<1>5. TypeOK'
  BY <1>1, <1>2, <1>3, <1>4 DEF FinishFork, TypeOK, Calls
<1>6. RowsOwned' /\ SpentGone' /\ Fresh'
  BY <1>1, <1>2, <1>3, <1>4 DEF RowsOwned, SpentGone, Spent, Fresh, Unreserved, TypeOK, Request, Object
<1> QED
  BY <1>5, <1>6

\* deleteRepositoryIfOwned: a name's own row is the only one there was.
LEMMA ReleaseInductive ==
    ASSUME LifecycleInv, UNCHANGED binding, NEW r \in Object, DeleteRepositoryIfOwned(r)
    PROVE  LifecycleInv'
<1> USE DEF LifecycleInv
<1>1. r \in Request /\ pc \in [Request -> Calls]
  BY DEF Request, TypeOK, Calls
<1>2. PICK p \in {"destroy", "done"} : pc' = [pc EXCEPT ![r] = p]
  BY AnsweredMoves DEF DeleteRepositoryIfOwned, TypeOK
<1>3. /\ UNCHANGED <<namespace, contents, name, source, copying, doomed>>
      /\ pc[r] = "release" /\ failures' \in Nat
  BY AnsweredMoves DEF DeleteRepositoryIfOwned, TypeOK
<1>4. rows' \in [Name -> Row \cup {None}]
  BY DEF DeleteRepositoryIfOwned, Released, TypeOK
<1>5. \A n \in Name : rows'[n] = rows[n] \/ rows'[n] = None
  BY DEF DeleteRepositoryIfOwned, Released, TypeOK
<1>6. \A n \in Name : rows'[n] # None => rows'[n].object # r
  BY <1>4 DEF DeleteRepositoryIfOwned, Released, TypeOK, RowsOwned
<1>7. TypeOK'
  BY <1>1, <1>2, <1>3, <1>4 DEF TypeOK, Calls
<1>8. RowsOwned' /\ Fresh'
  BY <1>1, <1>2, <1>3, <1>5 DEF RowsOwned, Fresh, Unreserved, TypeOK, Request, Object, Row
<1>9. SpentGone'
  <2>1. \A o \in Object : Spent(o)' => Spent(o) \/ o = r
    BY <1>1, <1>2, <1>3 DEF Spent, Request
  <2> QED
    BY <1>1, <1>2, <1>3, <1>5, <1>6, <2>1 DEF SpentGone, Unreserved, Request
<1> QED
  BY <1>7, <1>8, <1>9

\* An object is emptied that was spent already.
LEMMA EmptiedInductive ==
    ASSUME LifecycleInv, NEW o \in Object, Spent(o), Emptied(o),
           UNCHANGED <<binding, namespace, rows, name, source, copying>>,
           \/ UNCHANGED doomed /\ \E r \in Request : pc' = [pc EXCEPT ![r] = "done"]
           \/ UNCHANGED pc /\ \E d \in Delete : doomed' = [doomed EXCEPT ![d] = @ \ {o}],
           failures' \in Nat
    PROVE  LifecycleInv'
<1> USE DEF LifecycleInv
<1>1. contents' = [contents EXCEPT ![o] = "emptied"]
  BY DEF Emptied
<1>2. pc' \in [Request -> Calls] /\ \A q \in Request : pc'[q] = pc[q] \/ pc'[q] = "done"
  BY DEF TypeOK, Calls
<1>3. doomed' \in [Delete -> SUBSET Object] /\ \A d \in Delete : doomed'[d] \subseteq doomed[d]
  BY DEF TypeOK
<1>4. TypeOK'
  BY <1>1, <1>2, <1>3 DEF TypeOK, Calls
<1>5. RowsOwned' /\ Fresh'
  BY <1>1, <1>2 DEF RowsOwned, Fresh, Unreserved, TypeOK, Request, Object, Row
<1>6. \A q \in Object : Spent(q)' => Spent(q)
  BY <1>1, <1>2, <1>3 DEF Spent, TypeOK, Request
<1>7. SpentGone'
  BY <1>2, <1>6 DEF SpentGone, Unreserved, Request
<1> QED
  BY <1>4, <1>5, <1>7

LEMMA CleanupInductive ==
    ASSUME LifecycleInv, UNCHANGED binding, NEW r \in Object, CleanupStep(r)
    PROVE  LifecycleInv'
<1>1. CASE DeleteRepositoryIfOwned(r)
  BY <1>1, ReleaseInductive
<1>2. CASE DestroyTarget(r)
  <2>1. pc' = [pc EXCEPT ![r] = "done"] /\ failures' \in Nat
    BY <1>2, AnsweredMoves DEF DestroyTarget, LifecycleInv, TypeOK
  <2>2. Spent(r) /\ Emptied(r)
    BY <1>2 DEF DestroyTarget, Spent
  <2> QED
    BY <1>2, <2>1, <2>2, EmptiedInductive DEF DestroyTarget, Request
<1> QED
  BY <1>1, <1>2 DEF CleanupStep

\* The deletions: the rows that go are all the rows of the objects that are doomed.
LEMMA DropInductive ==
    ASSUME LifecycleInv, UNCHANGED <<binding, contents, name, source, copying>>,
           NEW d \in Delete, NEW gone \in SUBSET Object,
           namespace' \in BOOLEAN, failures' \in Nat,
           \E p \in {"discard", "done"} : pc' = [pc EXCEPT ![d] = p],
           doomed' = [doomed EXCEPT ![d] = gone],
           rows' \in [Name -> Row \cup {None}],
           \A n \in Name : rows'[n] = rows[n] \/ rows'[n] = None,
           \A n \in Name : rows'[n] # None => rows'[n].object \notin gone,
           \A o \in gone : \E n \in Name : rows[n] # None /\ rows[n].object = o
    PROVE  LifecycleInv'
<1> USE DEF LifecycleInv
<1>1. d \in Request /\ d \notin Object /\ pc \in [Request -> Calls]
  BY RequestAssumption DEF Request, TypeOK, Calls
<1>2. TypeOK'
  BY <1>1 DEF TypeOK
<1>3. \A o \in Object : pc'[o] = pc[o]
  BY <1>1 DEF Request
<1>4. RowsOwned' /\ Fresh'
  BY <1>1, <1>3 DEF RowsOwned, Fresh, TypeOK, Object, Row
<1>5. \A o \in gone : pc[o] \notin Unreserved
  BY DEF RowsOwned
<1>6. \A o \in Object : Spent(o)' => Spent(o) \/ o \in gone
  BY <1>3 DEF Spent, TypeOK
<1>7. SpentGone'
  BY <1>3, <1>5, <1>6 DEF SpentGone
<1> QED
  BY <1>2, <1>4, <1>7

LEMMA DeleteInductive ==
    ASSUME LifecycleInv, UNCHANGED binding, NEW d \in Delete, DeleteStep(d)
    PROVE  LifecycleInv'
<1> USE DEF LifecycleInv
<1>1. d \in Request
  BY DEF Request
<1>2. CASE DeleteRepository(d)
  <2>1. PICK n \in Name : /\ rows[n] # None /\ rows' = Dropped(n)
                          /\ doomed' = [doomed EXCEPT ![d] = {rows[n].object}]
    BY <1>2 DEF DeleteRepository
  <2>2. /\ failures' \in Nat
        /\ \E p \in {"discard", "done"} : pc' = [pc EXCEPT ![d] = p]
    BY <1>2, AnsweredMoves DEF DeleteRepository, TypeOK
  <2>3. /\ rows' \in [Name -> Row \cup {None}] /\ rows'[n] = None
        /\ \A m \in Name \ {n} : rows'[m] = rows[m]
    BY <2>1 DEF Dropped, TypeOK
  <2>4. \A m \in Name : rows'[m] # None => rows'[m].object # rows[n].object
    BY <2>1, <2>3 DEF RowsOwned
  <2>5. {rows[n].object} \in SUBSET Object
    BY <2>1 DEF TypeOK, Row
  <2>6. namespace' \in BOOLEAN /\ UNCHANGED <<contents, name, source, copying>>
    BY <1>2 DEF DeleteRepository, TypeOK
  <2>7. /\ \A m \in Name : rows'[m] = rows[m] \/ rows'[m] = None
        /\ \A m \in Name : rows'[m] # None => rows'[m].object \notin {rows[n].object}
        /\ \A o \in {rows[n].object} : \E m \in Name : rows[m] # None /\ rows[m].object = o
    BY <2>1, <2>3, <2>4
  <2> QED
    BY <2>1, <2>2, <2>3, <2>5, <2>6, <2>7, DropInductive
<1>3. CASE DeleteNamespace(d)
  <2> DEFINE gone == {rows[n].object : n \in {m \in Name : rows[m] # None}}
  <2>1. /\ rows' = [n \in Name |-> None] /\ doomed' = [doomed EXCEPT ![d] = gone]
        /\ namespace' \in BOOLEAN /\ UNCHANGED <<contents, name, source, copying>>
    BY <1>3 DEF DeleteNamespace
  <2>2. /\ failures' \in Nat
        /\ \E p \in {"discard", "done"} : pc' = [pc EXCEPT ![d] = p]
    BY <1>3, AnsweredMoves DEF DeleteNamespace, TypeOK
  <2>3. gone \in SUBSET Object
    BY DEF TypeOK, Row
  <2>4. \A o \in gone : \E n \in Name : rows[n] # None /\ rows[n].object = o
    OBVIOUS
  <2> HIDE DEF gone
  <2> QED
    BY <2>1, <2>2, <2>3, <2>4, DropInductive
<1>4. CASE Discarded(d)
  BY <1>1, <1>4, MoveInductive DEF Discarded, TypeOK, Calls, Unreserved
<1>5. ASSUME NEW o \in Object, DestroyDoomed(d, o)
      PROVE  LifecycleInv'
  BY <1>5, EmptiedInductive DEF DestroyDoomed, Spent, TypeOK
<1> QED
  BY <1>2, <1>3, <1>4, <1>5 DEF DeleteStep

LEMMA ForkInductive ==
    ASSUME LifecycleInv, UNCHANGED binding, NEW f \in Fork, ForkStep(f)
    PROVE  LifecycleInv'
<1>1. CASE ReserveFork(f)
  BY <1>1, ReserveInductive DEF ReserveFork, Unreserved, Object
<1> QED
  BY <1>1, ForkMovesInductive, ForkWritesInductive, FinishForkInductive DEF ForkStep

LEMMA NextHolds == LifecycleInv /\ [Next]_vars => LifecycleInv'
<1> SUFFICES ASSUME LifecycleInv, [Next]_vars PROVE LifecycleInv'
  OBVIOUS
<1>1. CASE UNCHANGED vars
  BY <1>1 DEF vars, LifecycleInv, TypeOK, RowsOwned, SpentGone, Spent, Fresh
<1>2. CASE RowStep
  BY <1>2, CreateInductive, ForkInductive, CleanupInductive, DeleteInductive, CallFailsInductive
     DEF RowStep
<1>3. ASSUME NEW r \in Object, TokenStep(r)
      PROVE  LifecycleInv'
  BY <1>3, TokenInductive
<1> QED
  BY <1>1, <1>2, <1>3 DEF Next

-----------------------------------------------------------------------------
\* The calls of a request that has its object, its token and its contents.
PastCalls == {"publish", "release", "destroy", "done"}

\* A request that is this far goes on from there, and leaves its "release" only by
\* deleteRepositoryIfOwned, or without a change to any row.
LEMMA PastMoves ==
    ASSUME LifecycleInv, Next, NEW o \in Object, pc[o] \in PastCalls
    PROVE  /\ pc'[o] \in PastCalls
           /\ pc[o] = "release" => \/ pc'[o] = "release" \/ UNCHANGED rows
                                   \/ DeleteRepositoryIfOwned(o)
<1> DEFINE Goal == /\ pc'[o] \in PastCalls
                   /\ pc[o] = "release" => \/ pc'[o] = "release" \/ UNCHANGED rows
                                           \/ DeleteRepositoryIfOwned(o)
<1> USE DEF PastCalls
<1>1. pc \in [Request -> Calls] /\ o \in Request /\ o \notin Delete /\ failures \in Nat
  BY RequestAssumption DEF LifecycleInv, TypeOK, Request, Calls
\* A step of another request, or one that o is past.
<1>2. ASSUME NEW q \in Request, NEW p, pc' = [pc EXCEPT ![q] = p],
             q = o => pc[q] \notin PastCalls
      PROVE  Goal
  BY <1>1, <1>2
<1>3. ASSUME NEW c \in Create, CreateStep(c)
      PROVE  Goal
  <2>1. c \in Request /\ pc[c] \in Unreserved \cup {"initialize"}
    BY <1>3 DEF CreateStep, EnsureNamespace, CreateRepository, Initialize, Unreserved, Request, Object
  <2>2. \E p : pc' = [pc EXCEPT ![c] = p]
    BY <1>1, <1>3, AnsweredMoves DEF CreateStep, EnsureNamespace, CreateRepository, Reserve, Initialize
  <2> QED
    BY <1>2, <2>1, <2>2 DEF Unreserved
<1>4. ASSUME NEW f \in Fork, ForkStep(f)
      PROVE  Goal
  <2>1. f \in Request
    BY DEF Request, Object
  <2>2. CASE FinishFork(f)
    <3>1. pc[f] = "publish" /\ \E p \in {"release", "done"} : pc' = [pc EXCEPT ![f] = p]
      BY <1>1, <2>2, AnsweredMoves DEF FinishFork, GivesUp
    <3> QED
      BY <1>1, <2>1, <3>1
  <2>3. CASE ResolveSource(f) \/ ReserveFork(f) \/ CopyBegins(f)
    <3>1. pc[f] \in Unreserved \cup {"copy"} /\ \E p : pc' = [pc EXCEPT ![f] = p]
      BY <1>1, <2>3, AnsweredMoves DEF ResolveSource, ReserveFork, Reserve, CopyBegins, Unreserved
    <3> QED
      BY <1>2, <2>1, <3>1 DEF Unreserved
  <2>4. CASE WriteForkObject(f) \/ CopyFails(f) \/ CompleteFork(f)
    <3>1. \/ UNCHANGED pc
          \/ pc[f] = "copying" /\ \E p : pc' = [pc EXCEPT ![f] = p]
      BY <1>1, <2>4, AnsweredMoves DEF WriteForkObject, CopyFails, CompleteFork, CopyEnds
    <3> QED
      BY <1>2, <2>1, <3>1
  <2> QED
    BY <1>4, <2>2, <2>3, <2>4 DEF ForkStep
<1>5. ASSUME NEW r \in Object, CleanupStep(r)
      PROVE  Goal
  <2>1. \E p \in {"destroy", "done"} : pc' = [pc EXCEPT ![r] = p]
    BY <1>1, <1>5, AnsweredMoves DEF CleanupStep, DeleteRepositoryIfOwned, DestroyTarget
  <2>2. DeleteRepositoryIfOwned(r) \/ UNCHANGED rows
    BY <1>5 DEF CleanupStep, DestroyTarget
  <2> QED
    BY <1>1, <2>1, <2>2 DEF Request
<1>6. ASSUME NEW d \in Delete, DeleteStep(d)
      PROVE  Goal
  <2>1. UNCHANGED pc \/ \E p : pc' = [pc EXCEPT ![d] = p]
    BY <1>1, <1>6, AnsweredMoves
       DEF DeleteStep, DeleteRepository, DeleteNamespace, Discarded, DestroyDoomed
  <2> QED
    BY <1>1, <2>1
<1>7. ASSUME NEW r \in Request, CallFails(r)
      PROVE  Goal
  BY <1>1, <1>7, ThrownEnds DEF CallFails
<1>8. ASSUME NEW r \in Object, TokenStep(r)
      PROVE  Goal
  <2>1. r \in Request /\ pc[r] = "token" /\ \E p : pc' = [pc EXCEPT ![r] = p]
    BY <1>1, <1>8, AnsweredMoves DEF TokenStep, CreateToken, CreateForkToken, Request
  <2> QED
    BY <1>2, <2>1
<1>9. CASE CreateNamespace
  BY <1>9 DEF CreateNamespace
<1> QED
  BY <1>3, <1>4, <1>5, <1>6, <1>7, <1>8, <1>9 DEF Next, RowStep

\* While a name has a row it points at one object: a row that is replaced was
\* deleted in a step before.
LEMMA RowsKeepObject ==
    ASSUME LifecycleInv, [Next]_vars, NEW n \in Name, rows[n] # None, rows'[n] # None
    PROVE  rows'[n].object = rows[n].object
<1> USE DEF LifecycleInv
<1>1. ASSUME NEW r \in Request, NEW status, NEW next, Reserve(r, status, next)
      PROVE  rows'[n] = rows[n]
  BY <1>1 DEF Reserve, TypeOK
<1>2. CASE RowStep
  <2>1. ASSUME NEW c \in Create, CreateStep(c) PROVE rows'[n] = rows[n]
    BY <1>1, <2>1 DEF CreateStep, EnsureNamespace, CreateRepository, Initialize, Request, Object
  <2>2. ASSUME NEW f \in Fork, ForkStep(f) PROVE rows'[n].object = rows[n].object
    <3>1. CASE FinishFork(f)
      BY <3>1, PublishedKeeps DEF FinishFork, TypeOK
    <3>2. CASE ~FinishFork(f)
      BY <1>1, <2>2, <3>2
         DEF ForkStep, ResolveSource, ReserveFork, CopyBegins, WriteForkObject, CopyFails,
             CompleteFork, Request, Object
    <3> QED
      BY <3>1, <3>2
  <2>3. ASSUME NEW r \in Object, CleanupStep(r) PROVE rows'[n] = rows[n]
    BY <2>3 DEF CleanupStep, DeleteRepositoryIfOwned, DestroyTarget, Released, TypeOK
  <2>4. ASSUME NEW d \in Delete, DeleteStep(d) PROVE rows'[n] = rows[n]
    BY <2>4 DEF DeleteStep, DeleteRepository, DeleteNamespace, Discarded, DestroyDoomed,
                Dropped, TypeOK
  <2> QED
    BY <1>2, <2>1, <2>2, <2>3, <2>4 DEF RowStep, CallFails, CreateNamespace
<1>3. CASE UNCHANGED rows
  BY <1>3
<1> QED
  BY <1>2, <1>3 DEF Next, TokenStep, CreateToken, CreateForkToken, vars

-----------------------------------------------------------------------------
\* The variables stay well typed, whatever requests run and whatever fails.
THEOREM LifecycleTypes == Spec => []TypeOK
<1>1. LifecycleInv => TypeOK
  BY DEF LifecycleInv
<1> QED
  BY InitHolds, NextHolds, <1>1, PTL DEF Spec

\* No name points at an object that was emptied, or written to after: the row goes
\* before the storage, in a deletion, in the cleanup of a fork and in that of a
\* create by the binding (repository-routes.ts, delete).
THEOREM EmptiedNeverServed == Spec => []NothingEmptiedServed
<1>1. LifecycleInv => NothingEmptiedServed
  BY DEF LifecycleInv, NothingEmptiedServed, SpentGone, Spent, TypeOK, Row
<1> QED
  BY InitHolds, NextHolds, <1>1, PTL DEF Spec

\* A cleanup removes only the row its own request reserved, though the name was
\* deleted and taken again (repository-index.ts, deleteRepositoryIfOwned).
THEOREM CleanupSparesOthers == Spec => ReplacementKept
<1> DEFINE Spares == \A r \in Object : pc[r] = "release" /\ pc'[r] # "release" =>
                        \A n \in Name : rows[n] # None /\ rows[n].object # r => rows'[n] = rows[n]
<1>1. LifecycleInv /\ [Next]_vars => [Spares]_vars
  <2> SUFFICES ASSUME LifecycleInv, Next, NEW r \in Object, pc[r] = "release", pc'[r] # "release",
                      NEW n \in Name, rows[n] # None, rows[n].object # r
               PROVE  rows'[n] = rows[n]
    OBVIOUS
  <2>1. UNCHANGED rows \/ DeleteRepositoryIfOwned(r)
    BY PastMoves DEF PastCalls
  <2> QED
    BY <2>1 DEF DeleteRepositoryIfOwned, Released, LifecycleInv, TypeOK
<1> QED
  BY InitHolds, NextHolds, <1>1, PTL DEF Spec, ReplacementKept

-----------------------------------------------------------------------------
\* The forks of a behaviour ask for names of their own.  Where two ask for one,
\* finishFork may publish the other's row (finding fork_replaced).
Apart == \A f, g \in Fork : name[f] # None /\ name[f] = name[g] => f = g

\* There is a row of that status for the object of w.
Has(w, status) == \E n \in Name : rows[n] = [object |-> w, status |-> status]

\* The copy is whole by the time it can be published, and from then on.
WholeAtLast(w) ==
    Has(w, "ready") \/ (Has(w, "forking") /\ pc[w] \in {"token", "publish"}) =>
        contents[w] = "whole"

\* What a step can be to a fork: it does nothing to its contents, and its row stays
\* or goes;
RowStaysOrGoes(w) ==
    /\ contents'[w] = contents[w]
    /\ \A status \in {"forking", "ready"} : Has(w, status)' => Has(w, status)
    /\ pc'[w] \in Unreserved => pc[w] \in Unreserved
    /\ pc'[w] \in {"token", "publish"} => pc[w] \in {"token", "publish"}

\* or its name is reserved;
NameReserved(w) ==
    /\ contents'[w] = contents[w] /\ pc[w] \in Unreserved /\ pc'[w] \in {"copy", "done"}
    /\ Has(w, "forking")' /\ ~Has(w, "ready")'

\* or its row is published;
RowPublished(w) ==
    /\ contents'[w] = contents[w] /\ pc[w] = "publish"
    /\ Has(w, "forking") /\ Has(w, "ready")'

\* or its contents change, which they do not while they are served.
CopyMoves(w) ==
    /\ UNCHANGED rows
    /\ pc'[w] \in Unreserved <=> pc[w] \in Unreserved
    /\ Has(w, "ready") => contents'[w] = contents[w]
    /\ Has(w, "forking") /\ pc'[w] \in {"token", "publish"} => contents'[w] = "whole"

Turn(w) == RowStaysOrGoes(w) \/ NameReserved(w) \/ RowPublished(w) \/ CopyMoves(w)

\* A row of the fork is under its name, it is one, and none is there before the
\* name is reserved or once its object is spent.
LEMMA OneRow ==
    ASSUME LifecycleInv, NEW w \in Fork
    PROVE  /\ ~(Has(w, "ready") /\ Has(w, "forking"))
           /\ \A status \in {"forking", "ready"} :
                 Has(w, status) => pc[w] \notin Unreserved /\ ~Spent(w)
           /\ \A n \in Name, status \in {"forking", "ready"} :
                 rows[n] = [object |-> w, status |-> status] => name[w] = n
<1>1. w \in Object /\ None # [object |-> w, status |-> "forking"]
                   /\ None # [object |-> w, status |-> "ready"]
  BY RequestAssumption DEF Object, Row
<1>2. ASSUME NEW n \in Name, NEW status \in {"forking", "ready"},
             rows[n] = [object |-> w, status |-> status]
      PROVE  name[w] = n /\ pc[w] \notin Unreserved /\ ~Spent(w)
  <2>1. rows[n].object = w
    BY <1>2
  <2>3. rows[n] # None
    BY <1>1, <1>2
  <2> QED
    BY <1>1, <2>1, <2>3 DEF LifecycleInv, RowsOwned, SpentGone
<1> QED
  BY <1>2 DEF Has

\* A fork whose row, contents and place are as they were.
LEMMA Untouched ==
    ASSUME NEW w \in Fork, UNCHANGED rows, contents'[w] = contents[w], pc'[w] = pc[w]
    PROVE  Turn(w)
BY DEF Turn, RowStaysOrGoes, Has

\* The reservation of a name, by the fork or by another.
LEMMA ReserveTurn ==
    ASSUME LifecycleInv, NEW w \in Fork, NEW r \in Object, pc[r] \in Unreserved,
           NEW status \in {"forking", "ready"}, NEW next \in {"initialize", "copy"},
           r = w => status = "forking" /\ next = "copy",
           Reserve(r, status, next)
    PROVE  Turn(w)
<1>1. PICK n \in Name :
          /\ \/ /\ rows[n] = None
                /\ rows' = [rows EXCEPT ![n] = [object |-> r, status |-> status]]
                /\ Answered(r, next, "done")
             \/ rows' = rows /\ Answered(r, "done", "done")
          /\ UNCHANGED contents
  BY DEF Reserve
<1>2. PICK p \in {next, "done"} : pc' = [pc EXCEPT ![r] = p]
  BY <1>1, AnsweredMoves DEF LifecycleInv, TypeOK
<1>3. /\ pc \in [Request -> Calls] /\ r \in Request /\ w \in Request
      /\ rows \in [Name -> Row \cup {None}]
  BY DEF LifecycleInv, TypeOK, Request, Object, Calls
<1>4. (~Has(w, "forking") /\ ~Has(w, "ready")) \/ r # w
  BY OneRow
<1>5. CASE r = w
  <2>1. CASE rows' = rows
    BY <1>1, <1>2, <1>3, <1>5, <2>1 DEF Turn, RowStaysOrGoes, Has, Unreserved
  <2>2. CASE rows' = [rows EXCEPT ![n] = [object |-> w, status |-> "forking"]]
    <3>1. Has(w, "forking")'
      BY <1>3, <2>2 DEF Has
    <3>2. ~Has(w, "ready")'
      BY <1>3, <1>4, <1>5, <2>2 DEF Has
    <3> QED
      BY <1>1, <1>2, <1>3, <1>5, <3>1, <3>2 DEF Turn, NameReserved
  <2> QED
    BY <1>1, <1>5, <2>1, <2>2
<1>6. CASE r # w
  <2>1. pc'[w] = pc[w]
    BY <1>2, <1>3, <1>6
  <2>2. \A s \in {"forking", "ready"} : Has(w, s)' => Has(w, s)
    BY <1>1, <1>3, <1>6 DEF Has
  <2> QED
    BY <1>1, <2>1, <2>2 DEF Turn, RowStaysOrGoes
<1> QED
  BY <1>5, <1>6

\* A publication, of the fork's row or of another fork's.
LEMMA FinishForkTurn ==
    ASSUME LifecycleInv, Apart, NEW w \in Fork, NEW f \in Fork, FinishFork(f)
    PROVE  Turn(w)
<1>1. /\ pc \in [Request -> Calls] /\ f \in Request /\ w \in Request
      /\ rows \in [Name -> Row \cup {None}] /\ name \in [Request -> Name \cup {None}]
      /\ failures \in Nat
  BY DEF LifecycleInv, TypeOK, Request, Object, Calls
<1>2. PICK p \in {"release", "done"} : pc' = [pc EXCEPT ![f] = p]
  BY <1>1, AnsweredMoves DEF FinishFork, GivesUp
<1>3. pc[f] = "publish" /\ UNCHANGED contents /\ rows' = [rows EXCEPT ![name[f]] = Published(@)]
  BY DEF FinishFork
<1>4. \A n \in Name \ {name[f]} : rows'[n] = rows[n]
  BY <1>1, <1>3
<1>5. name[f] \in Name => rows'[name[f]] = Published(rows[name[f]])
  BY <1>1, <1>3
<1>6. CASE f # w
  <2>1. ASSUME NEW n \in Name, NEW s \in {"forking", "ready"},
               rows'[n] = [object |-> w, status |-> s]
        PROVE  rows[n] = [object |-> w, status |-> s]
    <3>1. CASE n # name[f]
      BY <1>4, <2>1, <3>1
    <3>2. CASE n = name[f]
      <4>1. None # [object |-> w, status |-> s]
        BY RequestAssumption DEF Row, Object
      <4>2. rows[n] # None /\ rows[n].object = w
        BY <1>1, <1>5, <2>1, <3>2, <4>1, PublishedKeeps
      <4>3. name[w] = n /\ n # None
        BY <1>1, <4>2, RequestAssumption DEF LifecycleInv, RowsOwned
      <4> QED
        BY <1>6, <3>2, <4>3 DEF Apart
    <3> QED
      BY <3>1, <3>2
  <2>2. \A s \in {"forking", "ready"} : Has(w, s)' => Has(w, s)
    BY <2>1 DEF Has
  <2> QED
    BY <1>1, <1>2, <1>3, <1>6, <2>2 DEF Turn, RowStaysOrGoes
<1>7. CASE f = w
  <2>1. pc[w] \notin Unreserved /\ pc'[w] \in {"release", "done"}
    BY <1>1, <1>2, <1>3, <1>7 DEF Unreserved
  <2>2. CASE Has(w, "forking")
    <3>1. PICK n \in Name : rows[n] = [object |-> w, status |-> "forking"]
      BY <2>2 DEF Has
    <3>2. name[w] = n
      BY <3>1, OneRow
    <3>3. rows[n] # None
      BY <3>1, RequestAssumption DEF Row, Object
    <3>4. rows'[n] = [object |-> w, status |-> "ready"]
      BY <1>5, <1>7, <3>1, <3>2, <3>3 DEF Published
    <3>5. Has(w, "ready")'
      BY <3>4 DEF Has
    <3> QED
      BY <1>3, <1>7, <2>2, <3>5 DEF Turn, RowPublished
  <2>3. CASE ~Has(w, "forking")
    <3>1. ASSUME NEW n \in Name, NEW s \in {"forking", "ready"},
                 rows'[n] = [object |-> w, status |-> s]
          PROVE  rows[n] = [object |-> w, status |-> s]
      <4>1. CASE rows'[n] = rows[n]
        BY <3>1, <4>1
      <4>2. CASE rows'[n] # rows[n]
        <5>1. rows[n] # None /\ rows[n].status = "forking" /\ rows[n] \in Row
          BY <1>1, <1>4, <1>5, <4>2 DEF Published
        <5>2. rows[n].object = w
          BY <1>1, <1>4, <1>5, <3>1, <4>2, <5>1, PublishedKeeps
        <5>3. rows[n] = [object |-> w, status |-> "forking"]
          BY <5>1, <5>2 DEF Row
        <5> QED
          BY <2>3, <5>3 DEF Has
      <4> QED
        BY <4>1, <4>2
    <3>2. \A s \in {"forking", "ready"} : Has(w, s)' => Has(w, s)
      BY <3>1 DEF Has
    <3> QED
      BY <1>3, <1>7, <2>1, <3>2 DEF Turn, RowStaysOrGoes, Unreserved
  <2> QED
    BY <2>2, <2>3
<1> QED
  BY <1>6, <1>7

\* Rows go, or stay: a release, a deletion.
LEMMA RowsGoTurn ==
    ASSUME NEW w \in Fork, UNCHANGED contents,
           \A n \in Name : rows'[n] = rows[n] \/ rows'[n] = None,
           pc'[w] = pc[w] \/ pc'[w] \in {"release", "destroy", "done"}
    PROVE  Turn(w)
<1>1. None # [object |-> w, status |-> "forking"] /\ None # [object |-> w, status |-> "ready"]
  BY RequestAssumption DEF Row, Object
<1>2. \A s \in {"forking", "ready"} : Has(w, s)' => Has(w, s)
  BY <1>1 DEF Has
<1> QED
  BY <1>2 DEF Turn, RowStaysOrGoes, Unreserved

\* An object is emptied: it is another's, or one without a row.
LEMMA EmptiedTurn ==
    ASSUME LifecycleInv, NEW w \in Fork, NEW o \in Object, Spent(o), Emptied(o), UNCHANGED rows,
           pc'[w] = pc[w] \/ (pc[w] \notin Unreserved /\ pc'[w] = "done")
    PROVE  Turn(w)
<1>1. contents \in [Object -> {"empty", "partial", "whole", "emptied", "torn"}] /\ w \in Object
  BY DEF LifecycleInv, TypeOK, Object
<1>2. contents' = [contents EXCEPT ![o] = "emptied"]
  BY DEF Emptied
<1>3. CASE o = w
  BY <1>3, OneRow DEF Turn, CopyMoves, Unreserved
<1>4. CASE o # w
  BY <1>1, <1>2, <1>4 DEF Turn, RowStaysOrGoes, Has, Unreserved
<1> QED
  BY <1>3, <1>4

\* The steps of a fork that write its object.
LEMMA WriteTurn ==
    ASSUME LifecycleInv, NEW w \in Fork, WholeAtLast(w), NEW f \in Fork,
           WriteForkObject(f) \/ CompleteFork(f)
    PROVE  Turn(w)
<1>1. /\ pc \in [Request -> Calls] /\ f \in Request /\ w \in Request /\ f \in Object
      /\ contents \in [Object -> {"empty", "partial", "whole", "emptied", "torn"}]
      /\ failures \in Nat /\ w \in Object
  BY DEF LifecycleInv, TypeOK, Request, Object, Calls
<1>2. UNCHANGED rows
  BY DEF WriteForkObject, CompleteFork
<1>3. UNCHANGED pc \/ (pc[f] = "copying" /\ \E p \in {"token", "release"} : pc' = [pc EXCEPT ![f] = p])
  <2>1. CASE WriteForkObject(f)
    BY <2>1 DEF WriteForkObject
  <2>2. CASE CompleteFork(f) /\ pc[f] = "copying"
    <3>1. Answered(f, "token", GivesUp)
      BY <2>2 DEF CompleteFork, CopyEnds
    <3>2. pc' = [pc EXCEPT ![f] = "token"] \/ pc' = [pc EXCEPT ![f] = "release"]
      BY <1>1, <3>1, AnsweredMoves DEF GivesUp
    <3> QED
      BY <2>2, <3>2
  <2>3. CASE CompleteFork(f) /\ pc[f] # "copying"
    BY <2>3 DEF CompleteFork, CopyEnds
  <2> QED
    BY <2>1, <2>2, <2>3
<1>4. CASE f # w
  <2>1. contents'[w] = contents[w]
    BY <1>1, <1>4 DEF WriteForkObject, CompleteFork
  <2>2. pc'[w] = pc[w]
    BY <1>1, <1>3, <1>4
  <2> QED
    BY <1>2, <2>1, <2>2, Untouched
<1>5. CASE f = w
  <2>1. pc'[w] \in Unreserved <=> pc[w] \in Unreserved
    BY <1>1, <1>3, <1>5 DEF Unreserved
  <2>2. CASE WriteForkObject(w)
    <3>1. contents[w] # "whole" /\ pc' = pc
      BY <2>2 DEF WriteForkObject
    <3> QED
      BY <1>2, <2>1, <3>1 DEF Turn, CopyMoves, WholeAtLast
  <2>3. CASE CompleteFork(w)
    <3>1. contents' = [contents EXCEPT ![w] = IF @ = "torn" THEN "torn" ELSE "whole"]
      BY <2>3 DEF CompleteFork
    <3>2. Has(w, "forking") \/ Has(w, "ready") => contents[w] # "torn"
      BY OneRow DEF Spent
    <3>3. Has(w, "forking") \/ Has(w, "ready") => contents'[w] = "whole"
      BY <1>1, <3>1, <3>2
    <3> QED
      BY <1>2, <2>1, <3>3 DEF Turn, CopyMoves, WholeAtLast
  <2> QED
    BY <1>5, <2>2, <2>3
<1> QED
  BY <1>4, <1>5

\* A step of another request that leaves the rows and w's contents alone, or one of w
\* that goes on from where it was.
LEMMA GoesOnTurn ==
    ASSUME LifecycleInv, NEW w \in Fork, UNCHANGED rows, contents'[w] = contents[w],
           NEW q \in Request, NEW p, pc' = [pc EXCEPT ![q] = p],
           q = w => /\ p \in Unreserved => pc[w] \in Unreserved
                    /\ p \in {"token", "publish"} => pc[w] \in {"token", "publish"}
    PROVE  Turn(w)
<1>1. pc \in [Request -> Calls] /\ w \in Request
  BY DEF LifecycleInv, TypeOK, Request, Object, Calls
<1>2. CASE q # w
  BY <1>1, <1>2, Untouched
<1>3. CASE q = w
  BY <1>1, <1>3 DEF Turn, RowStaysOrGoes, Has
<1> QED
  BY <1>2, <1>3

\* Every step is one of the four.
LEMMA Turns ==
    ASSUME LifecycleInv, Apart, [Next]_vars, NEW w \in Fork, WholeAtLast(w)
    PROVE  Turn(w)
<1>1. /\ pc \in [Request -> Calls] /\ w \in Request /\ w \in Object /\ w \notin Create
      /\ contents \in [Object -> {"empty", "partial", "whole", "emptied", "torn"}]
      /\ rows \in [Name -> Row \cup {None}] /\ failures \in Nat /\ Object \cap Delete = {}
  BY RequestAssumption DEF LifecycleInv, TypeOK, Request, Object, Calls
<1>2. CASE UNCHANGED vars
  BY <1>2, Untouched DEF vars
<1>3. ASSUME NEW c \in Create, CreateStep(c)
      PROVE  Turn(w)
  <2>1. c \in Object /\ c \in Request /\ c # w
    BY <1>1 DEF Object, Request
  <2>2. CASE EnsureNamespace(c)
    <3>1. \E p : pc' = [pc EXCEPT ![c] = p]
      BY <1>1, <2>2, AnsweredMoves DEF EnsureNamespace
    <3> QED
      BY <2>1, <2>2, <3>1, GoesOnTurn DEF EnsureNamespace
  <2>3. CASE CreateRepository(c)
    BY <2>1, <2>3, ReserveTurn DEF CreateRepository, Unreserved
  <2>4. CASE Initialize(c)
    <3>1. \E p : pc' = [pc EXCEPT ![c] = p]
      BY <1>1, <2>4, AnsweredMoves DEF Initialize
    <3>2. contents'[w] = contents[w] /\ UNCHANGED rows
      BY <1>1, <2>1, <2>4 DEF Initialize
    <3> QED
      BY <2>1, <3>1, <3>2, GoesOnTurn
  <2> QED
    BY <1>3, <2>2, <2>3, <2>4 DEF CreateStep
<1>4. ASSUME NEW f \in Fork, ForkStep(f)
      PROVE  Turn(w)
  <2>1. f \in Object /\ f \in Request
    BY DEF Object, Request
  <2>2. CASE ResolveSource(f)
    <3>1. pc[f] \in Unreserved /\ \E p \in {"reserve", "done"} : pc' = [pc EXCEPT ![f] = p]
      BY <1>1, <2>2, AnsweredMoves DEF ResolveSource, Unreserved
    <3> QED
      BY <2>1, <2>2, <3>1, GoesOnTurn DEF ResolveSource
  <2>3. CASE ReserveFork(f)
    BY <2>1, <2>3, ReserveTurn DEF ReserveFork, Unreserved
  <2>4. CASE CopyBegins(f)
    <3>1. \E p \in {"copying", "release"} : pc' = [pc EXCEPT ![f] = p]
      BY <2>4 DEF CopyBegins, GivesUp
    <3> QED
      BY <2>1, <2>4, <3>1, GoesOnTurn DEF CopyBegins, Unreserved
  <2>5. CASE CopyFails(f)
    <3>1. UNCHANGED pc \/ pc' = [pc EXCEPT ![f] = "release"]
      BY <1>1, <2>5, AnsweredMoves DEF CopyFails, CopyEnds, GivesUp
    <3> QED
      BY <2>1, <2>5, <3>1, GoesOnTurn, Untouched DEF CopyFails, Unreserved
  <2> QED
    BY <1>4, <2>2, <2>3, <2>4, <2>5, WriteTurn, FinishForkTurn DEF ForkStep
<1>5. ASSUME NEW r \in Object, CleanupStep(r)
      PROVE  Turn(w)
  <2>1. r \in Request
    BY DEF Request
  <2>2. CASE DeleteRepositoryIfOwned(r)
    <3>1. \E p \in {"destroy", "done"} : pc' = [pc EXCEPT ![r] = p]
      BY <1>1, <2>2, AnsweredMoves DEF DeleteRepositoryIfOwned
    <3>2. /\ UNCHANGED contents
          /\ \A n \in Name : rows'[n] = rows[n] \/ rows'[n] = None
      BY <1>1, <2>2 DEF DeleteRepositoryIfOwned, Released
    <3>3. pc'[w] = pc[w] \/ pc'[w] \in {"release", "destroy", "done"}
      BY <1>1, <2>1, <3>1
    <3> QED
      BY <3>2, <3>3, RowsGoTurn
  <2>3. CASE DestroyTarget(r)
    <3>1. pc[r] = "destroy" /\ pc' = [pc EXCEPT ![r] = "done"] /\ Emptied(r) /\ UNCHANGED rows
      BY <1>1, <2>3, AnsweredMoves DEF DestroyTarget
    <3>2. CASE r = w
      <4>1. pc[w] \notin Unreserved /\ pc'[w] = "done"
        BY <1>1, <3>1, <3>2 DEF Unreserved
      <4> QED
        BY <3>1, <4>1, EmptiedTurn DEF Spent
    <3>3. CASE r # w
      <4>1. pc'[w] = pc[w]
        BY <1>1, <2>1, <3>1, <3>3
      <4> QED
        BY <3>1, <4>1, EmptiedTurn DEF Spent
    <3> QED
      BY <3>2, <3>3
  <2> QED
    BY <1>5, <2>2, <2>3 DEF CleanupStep
<1>6. ASSUME NEW d \in Delete, DeleteStep(d)
      PROVE  Turn(w)
  <2>1. UNCHANGED pc \/ \E p : pc' = [pc EXCEPT ![d] = p]
    BY <1>1, <1>6, AnsweredMoves
       DEF DeleteStep, DeleteRepository, DeleteNamespace, Discarded, DestroyDoomed
  <2>2. pc'[w] = pc[w]
    BY <1>1, <2>1
  <2>3. CASE DeleteRepository(d) \/ DeleteNamespace(d)
    <3>1. \A n \in Name : rows'[n] = rows[n] \/ rows'[n] = None
      BY <1>1, <2>3 DEF DeleteRepository, DeleteNamespace, Dropped
    <3>2. UNCHANGED contents
      BY <2>3 DEF DeleteRepository, DeleteNamespace
    <3> QED
      BY <2>2, <3>1, <3>2, RowsGoTurn
  <2>4. CASE Discarded(d)
    BY <2>2, <2>4, Untouched DEF Discarded
  <2>5. ASSUME NEW o \in Object, DestroyDoomed(d, o)
        PROVE  Turn(w)
    <3>1. Emptied(o) /\ UNCHANGED rows
      BY <2>5 DEF DestroyDoomed
    <3>2. Spent(o)
      BY <2>5 DEF DestroyDoomed, Spent
    <3> QED
      BY <2>2, <3>1, <3>2, EmptiedTurn
  <2> QED
    BY <1>6, <2>3, <2>4, <2>5 DEF DeleteStep
<1>7. ASSUME NEW r \in Request, CallFails(r)
      PROVE  Turn(w)
  <2>1. \E p \in {"release", "done"} : pc' = [pc EXCEPT ![r] = p]
    BY <1>7, ThrownEnds DEF CallFails
  <2> QED
    BY <1>7, <2>1, GoesOnTurn DEF CallFails, Unreserved
<1>8. ASSUME NEW r \in Object, TokenStep(r)
      PROVE  Turn(w)
  <2>1. /\ r \in Request /\ pc[r] = "token"
        /\ \E p \in {"publish", "release", "done"} : pc' = [pc EXCEPT ![r] = p]
    BY <1>1, <1>8, AnsweredMoves, ThrownEnds
       DEF TokenStep, CreateToken, CreateForkToken, GivesUp, Request
  <2>2. UNCHANGED <<rows, contents>>
    BY <1>8 DEF TokenStep, CreateToken, CreateForkToken
  <2> QED
    BY <2>1, <2>2, GoesOnTurn DEF Unreserved
<1>9. CASE CreateNamespace
  BY <1>9, Untouched DEF CreateNamespace
<1> QED
  BY <1>2, <1>3, <1>4, <1>5, <1>6, <1>7, <1>8, <1>9 DEF Next, RowStep

\* A step keeps the copy whole.
LEMMA WholeHolds ==
    ASSUME LifecycleInv, LifecycleInv', NEW w \in Fork, WholeAtLast(w), Turn(w)
    PROVE  WholeAtLast(w)'
<1>1. CASE RowStaysOrGoes(w)
  BY <1>1 DEF RowStaysOrGoes, WholeAtLast
<1>2. CASE NameReserved(w)
  BY <1>2 DEF NameReserved, WholeAtLast
<1>3. CASE RowPublished(w)
  BY <1>3 DEF RowPublished, WholeAtLast
<1>4. CASE CopyMoves(w)
  BY <1>4 DEF CopyMoves, WholeAtLast, Has
<1> QED
  BY <1>1, <1>2, <1>3, <1>4 DEF Turn

\* It is a step of the promise, or none.
LEMMA PromiseStep ==
    ASSUME LifecycleInv, NEW w \in Fork, w = Watched, WholeAtLast(w), Turn(w)
    PROVE  Promise!Next \/ UNCHANGED Promise!vars
<1>1. StatusOf(w) = IF Has(w, "ready") THEN "ready"
                    ELSE IF pc[w] \in Unreserved \/ Has(w, "forking") THEN "reserved" ELSE "released"
  BY DEF StatusOf, Has, Unreserved
<1>2. StatusOf(w)' = IF Has(w, "ready")' THEN "ready"
                     ELSE IF pc'[w] \in Unreserved \/ Has(w, "forking")' THEN "reserved"
                     ELSE "released"
  BY DEF StatusOf, Has, Unreserved
<1>3. /\ ~(Has(w, "ready") /\ Has(w, "forking"))
      /\ Has(w, "ready") \/ Has(w, "forking") => pc[w] \notin Unreserved
  BY OneRow
<1>4. CASE RowStaysOrGoes(w)
  <2>1. contents'[w] = contents[w] /\ (StatusOf(w)' = StatusOf(w) \/ StatusOf(w)' = "released")
    BY <1>1, <1>2, <1>3, <1>4 DEF RowStaysOrGoes
  <2> QED
    BY <2>1 DEF Promise!Next, Promise!Free, Promise!vars
<1>5. CASE NameReserved(w)
  <2>1. contents'[w] = contents[w] /\ StatusOf(w)' = StatusOf(w)
    BY <1>1, <1>2, <1>3, <1>5 DEF NameReserved
  <2> QED
    BY <2>1 DEF Promise!vars
<1>6. CASE RowPublished(w)
  <2>1. /\ contents'[w] = contents[w] /\ contents[w] = "whole"
        /\ StatusOf(w) = "reserved" /\ StatusOf(w)' = "ready"
    BY <1>1, <1>2, <1>3, <1>6 DEF RowPublished, WholeAtLast
  <2> QED
    BY <2>1 DEF Promise!Next, Promise!Publish
<1>7. CASE CopyMoves(w)
  <2>1. StatusOf(w)' = StatusOf(w) /\ (StatusOf(w) = "ready" => contents'[w] = contents[w])
    BY <1>1, <1>2, <1>7 DEF CopyMoves, Has
  <2> QED
    BY <2>1 DEF Promise!Next, Promise!Work, Promise!vars
<1> QED
  BY <1>4, <1>5, <1>6, <1>7 DEF Turn

\* ForkKeepsPromise: as long as no two forks ask for one name, a fork's name is
\* published over a whole copy, once, or released, and the copy stays as long as the
\* name serves it, whatever calls fail and whatever is deleted meanwhile
\* (repository-routes.ts, the fork route).
THEOREM ForkPromiseKept ==
    ASSUME Fork # {}
    PROVE  Spec /\ []Apart => ForkKeepsPromise
<1> DEFINE Kept == WholeAtLast(Watched)
<1>1. Watched \in Fork
  BY DEF Watched
<1>2. Init => Promise!Init /\ Kept
  <2> SUFFICES ASSUME Init PROVE Promise!Init /\ Kept
    OBVIOUS
  <2>1. /\ \A s \in {"forking", "ready"} : ~Has(Watched, s)
        /\ pc[Watched] = "start" /\ contents[Watched] = "empty"
    BY <1>1, RequestAssumption DEF Init, Has, Row, Object, Request
  <2>2. StatusOf(Watched) = "reserved"
    BY <2>1 DEF StatusOf, Has
  <2> QED
    BY <2>1, <2>2 DEF Promise!Init, WholeAtLast
<1>3. LifecycleInv /\ Kept /\ Apart /\ [Next]_vars => Kept'
  BY <1>1, NextHolds, Turns, WholeHolds
<1>4. LifecycleInv /\ Kept /\ Apart /\ [Next]_vars => [Promise!Next]_(Promise!vars)
  BY <1>1, Turns, PromiseStep
<1> QED
  BY InitHolds, NextHolds, <1>2, <1>3, <1>4, PTL DEF Spec, ForkKeepsPromise, Promise!Spec

-----------------------------------------------------------------------------
(***************************************************************************)
(* A token is one of the repository that has its name, for any names,      *)
(* requests and tokens; and tokens change nothing of what LifecycleProofs  *)
(* shows of the requests without them.                                     *)
(*                                                                         *)
(* TokensFollowRows is not inductive.  That a Git request reaches the      *)
(* repository its token is for rests on the token not being another's by   *)
(* the time the name is resolved: a request issues one token, and is past  *)
(* its only chance to when that token is presented.  AccessInv says so.    *)
(***************************************************************************)

\* A request that has issued its token, or never will.
Past(m) == \/ m \in Object /\ pc[m] \in PastCalls
           \/ m \in Issue /\ at[m] = "done"

\* A request has a name from its reservation to its token.
Named == \A o \in Object : pc[o] \in {"initialize", "copy", "copying", "token"} => name[o] \in Name

TokenRows ==
    \A m \in Minter : tokens[m] # None =>
        /\ rows[tokens[m].name] # None
        /\ rows[tokens[m].name].object = tokens[m].object
        /\ Past(m)

\* What a Git request holds between its authorization and its answer.
GitHolds(g) ==
    /\ at[g] \in {"resolve", "served"} => presented[g] \in Minter /\ Past(presented[g])
    /\ at[g] = "resolve" => about[g] \in Name
    /\ reached[g] # None => at[g] = "served"
    /\ at[g] = "resolve" /\ tokens[presented[g]] # None => tokens[presented[g]].name = about[g]
    /\ reached[g] # None /\ tokens[presented[g]] # None => tokens[presented[g]].object = reached[g]

IssueNamed == \A i \in Issue : at[i] = "token" => about[i] \in Name

AccessInv ==
    /\ LifecycleInv /\ AccessTypeOK /\ Named /\ TokenRows /\ IssueNamed
    /\ \A g \in Git : GitHolds(g)

-----------------------------------------------------------------------------
\* Seen without its tokens, a step is one of the requests alone.
LEMMA AccessSteps == [AccessNext]_avars => [Next]_vars
BY DEF AccessNext, avars, RowsMove, AnswerToken, ResolveForToken, IssueToken, Expire,
       RevokeToken, RevokeRepositoryToken, Authorize, Resolve, Next

LEMMA AccessInitHolds == AccessInit => AccessInv
<1> SUFFICES ASSUME AccessInit PROVE AccessInv
  OBVIOUS
<1>1. LifecycleInv /\ \A o \in Object : pc[o] = "start"
  BY InitHolds DEF AccessInit, Init, Request
<1>2. AccessTypeOK
  BY <1>1 DEF AccessInit, AccessTypeOK, LifecycleInv
<1>3. Named /\ TokenRows /\ IssueNamed
  BY <1>1 DEF Named, TokenRows, IssueNamed, AccessInit, Caller
<1>4. \A g \in Git : GitHolds(g)
  BY DEF GitHolds, AccessInit, Caller
<1> QED
  BY <1>1, <1>2, <1>3, <1>4 DEF AccessInv

\* A request gets its name in the call that reserves it, and keeps it.
LEMMA NamedHolds == ASSUME LifecycleInv, Named, [Next]_vars PROVE Named'
<1> DEFINE Calling == {"initialize", "copy", "copying", "token"}
<1> SUFFICES ASSUME NEW o \in Object, pc'[o] \in Calling PROVE name'[o] \in Name
  BY DEF Named
<1>1. pc \in [Request -> Calls] /\ o \in Request /\ o \notin Delete /\ failures \in Nat
      /\ name \in [Request -> Name \cup {None}]
  BY RequestAssumption DEF LifecycleInv, TypeOK, Request, Calls
<1>2. CASE pc[o] \in Calling /\ UNCHANGED name
  BY <1>2 DEF Named
<1>3. ASSUME NEW q \in Request, NEW p, pc' = [pc EXCEPT ![q] = p], UNCHANGED name,
             pc[q] \in Calling \/ p \notin Calling
      PROVE  name'[o] \in Name
  BY <1>1, <1>2, <1>3
<1>4. ASSUME NEW r \in Object, NEW status, NEW next, Reserve(r, status, next)
      PROVE  name'[o] \in Name
  <2>1. PICK n \in Name : name' = [name EXCEPT ![r] = n]
    BY <1>4 DEF Reserve
  <2>2. r \in Request /\ \E p : pc' = [pc EXCEPT ![r] = p]
    BY <1>1, <1>4, AnsweredMoves DEF Reserve, Request
  <2> QED
    BY <1>1, <2>1, <2>2 DEF Named
<1>5. ASSUME NEW c \in Create, CreateStep(c)
      PROVE  name'[o] \in Name
  <2>1. c \in Object /\ c \in Request
    BY DEF Object, Request
  <2>2. CASE EnsureNamespace(c)
    <3>1. \E p \in {"reserve", "done"} : pc' = [pc EXCEPT ![c] = p]
      BY <1>1, <2>2, AnsweredMoves DEF EnsureNamespace
    <3> QED
      BY <1>3, <2>1, <2>2, <3>1 DEF EnsureNamespace
  <2>3. CASE Initialize(c)
    <3>1. pc[c] = "initialize" /\ \E p : pc' = [pc EXCEPT ![c] = p]
      BY <1>1, <2>3, AnsweredMoves DEF Initialize
    <3> QED
      BY <1>3, <2>1, <2>3, <3>1 DEF Initialize
  <2> QED
    BY <1>4, <1>5, <2>1, <2>2, <2>3 DEF CreateStep, CreateRepository
<1>6. ASSUME NEW f \in Fork, ForkStep(f)
      PROVE  name'[o] \in Name
  <2>1. f \in Object /\ f \in Request
    BY DEF Object, Request
  <2>2. CASE ResolveSource(f)
    <3>1. \E p \in {"reserve", "done"} : pc' = [pc EXCEPT ![f] = p]
      BY <1>1, <2>2, AnsweredMoves DEF ResolveSource
    <3> QED
      BY <1>3, <2>1, <2>2, <3>1 DEF ResolveSource
  <2>3. CASE CopyBegins(f)
    <3>1. pc[f] = "copy" /\ \E p : pc' = [pc EXCEPT ![f] = p]
      BY <2>3 DEF CopyBegins
    <3> QED
      BY <1>3, <2>1, <2>3, <3>1 DEF CopyBegins
  <2>4. CASE WriteForkObject(f) \/ CopyFails(f) \/ CompleteFork(f)
    <3>1. \/ UNCHANGED pc
          \/ pc[f] = "copying" /\ \E p : pc' = [pc EXCEPT ![f] = p]
      BY <1>1, <2>4, AnsweredMoves DEF WriteForkObject, CopyFails, CompleteFork, CopyEnds
    <3>2. UNCHANGED name
      BY <2>4 DEF WriteForkObject, CopyFails, CompleteFork
    <3> QED
      BY <1>2, <1>3, <2>1, <3>1, <3>2
  <2>5. CASE FinishFork(f)
    <3>1. \E p \in {"release", "done"} : pc' = [pc EXCEPT ![f] = p]
      BY <1>1, <2>5, AnsweredMoves DEF FinishFork, GivesUp
    <3> QED
      BY <1>3, <2>1, <2>5, <3>1 DEF FinishFork
  <2> QED
    BY <1>4, <1>6, <2>1, <2>2, <2>3, <2>4, <2>5 DEF ForkStep, ReserveFork
<1>7. ASSUME NEW r \in Object, CleanupStep(r)
      PROVE  name'[o] \in Name
  <2>1. r \in Request /\ \E p \in {"destroy", "done"} : pc' = [pc EXCEPT ![r] = p]
    BY <1>1, <1>7, AnsweredMoves DEF CleanupStep, DeleteRepositoryIfOwned, DestroyTarget, Request
  <2>2. UNCHANGED name
    BY <1>7 DEF CleanupStep, DeleteRepositoryIfOwned, DestroyTarget
  <2> QED
    BY <1>3, <2>1, <2>2
<1>8. ASSUME NEW d \in Delete, DeleteStep(d)
      PROVE  name'[o] \in Name
  <2>1. UNCHANGED pc \/ \E p \in {"discard", "done"} : pc' = [pc EXCEPT ![d] = p]
    BY <1>1, <1>8, AnsweredMoves
       DEF DeleteStep, DeleteRepository, DeleteNamespace, Discarded, DestroyDoomed
  <2>2. d \in Request /\ UNCHANGED name
    BY <1>8 DEF DeleteStep, DeleteRepository, DeleteNamespace, Discarded, DestroyDoomed, Request
  <2> QED
    BY <1>2, <1>3, <2>1, <2>2
<1>9. ASSUME NEW r \in Request, CallFails(r)
      PROVE  name'[o] \in Name
  BY <1>3, <1>9, ThrownEnds DEF CallFails
<1>10. ASSUME NEW r \in Object, TokenStep(r)
       PROVE  name'[o] \in Name
  <2>1. r \in Request /\ pc[r] = "token" /\ \E p : pc' = [pc EXCEPT ![r] = p]
    BY <1>1, <1>10, AnsweredMoves DEF TokenStep, CreateToken, CreateForkToken, Request
  <2> QED
    BY <1>3, <1>10, <2>1 DEF TokenStep, CreateToken, CreateForkToken
<1>11. CASE CreateNamespace \/ UNCHANGED vars
  BY <1>2, <1>11 DEF CreateNamespace, vars
<1> QED
  BY <1>5, <1>6, <1>7, <1>8, <1>9, <1>10, <1>11 DEF Next, RowStep

-----------------------------------------------------------------------------
\* An issuer that is past its token stays so.
LEMMA PastHolds ==
    ASSUME AccessInv, AccessNext, NEW m \in Minter, Past(m)
    PROVE  Past(m)'
<1>1. CASE m \in Object /\ pc[m] \in PastCalls
  <2>1. Next \/ UNCHANGED vars
    BY AccessSteps
  <2> QED
    BY <1>1, <2>1, PastMoves DEF AccessInv, Past, vars
<1>2. CASE m \in Issue /\ at[m] = "done"
  <2>1. \A c \in Caller : \A p : at' = [at EXCEPT ![c] = p] => at'[m] = "done" \/ at[c] = "done"
    BY <1>2 DEF Caller, AccessInv, AccessTypeOK
  <2> QED
    BY <1>2, <2>1
       DEF AccessNext, RowsMove, AnswerToken, ResolveForToken, IssueToken, Expire, RevokeToken,
           RevokeRepositoryToken, Authorize, Resolve, Goes, access, Past, Caller
<1> QED
  BY <1>1, <1>2 DEF Past

\* A token row goes with the repository row it names.
LEMMA RowsMoveHolds == ASSUME AccessInv, RowsMove PROVE AccessInv'
<1> USE DEF AccessInv
<1>1. Next /\ AccessNext /\ UNCHANGED access
  BY DEF RowsMove, Next, AccessNext
<1>2. LifecycleInv' /\ Named'
  BY <1>1, NextHolds, NamedHolds
<1>3. \A m \in Minter : /\ tokens'[m] = tokens[m] \/ tokens'[m] = None
                        /\ tokens'[m] # None => rows'[tokens'[m].name] # None
  BY DEF RowsMove, Cascade
<1>4. AccessTypeOK'
  <2>1. tokens' \in [Minter -> Token \cup {None}]
    BY DEF RowsMove, Cascade, AccessTypeOK
  <2> QED
    BY <1>1, <1>2, <2>1 DEF AccessTypeOK, LifecycleInv, access
<1>5. TokenRows'
  <2> SUFFICES ASSUME NEW m \in Minter, tokens'[m] # None
               PROVE  /\ rows'[tokens'[m].name] # None
                      /\ rows'[tokens'[m].name].object = tokens'[m].object
                      /\ Past(m)'
    BY DEF TokenRows
  <2>1. tokens'[m] = tokens[m] /\ rows'[tokens[m].name] # None /\ tokens[m].name \in Name
    BY <1>3 DEF AccessTypeOK, Token
  <2>2. rows'[tokens[m].name].object = rows[tokens[m].name].object
    BY <1>1, <2>1, RowsKeepObject DEF TokenRows
  <2> QED
    BY <1>1, <2>1, <2>2, PastHolds DEF TokenRows
<1>6. ASSUME NEW g \in Git
      PROVE  GitHolds(g)'
  BY <1>1, <1>3, PastHolds DEF GitHolds, access, AccessTypeOK, Caller
<1> QED
  BY <1>1, <1>2, <1>4, <1>5, <1>6 DEF IssueNamed, access

\* A token is issued: to a request that is past it from then on, for the
\* repository that has the name.
LEMMA MintHolds ==
    ASSUME AccessInv, AccessNext, UNCHANGED <<rows, about, presented, reached>>,
           NEW r \in Object \cup Issue, NEW n \in Name, NEW scope \in Scope,
           r \in Minter => ~Past(r) /\ Past(r)',
           tokens' = Minted(r, n, scope),
           \A g \in Git : at'[g] = at[g]
    PROVE  AccessTypeOK /\ tokens' \in [Minter -> Token \cup {None}] /\ TokenRows'
           /\ \A g \in Git : GitHolds(g)'
<1> USE DEF AccessInv
<1>1. tokens' \in [Minter -> Token \cup {None}]
  BY DEF Minted, AccessTypeOK, Token, TypeOK, Row
<1>2. \A m \in Minter : m # r => tokens'[m] = tokens[m]
  BY DEF Minted, AccessTypeOK
<1>3. r \in Minter /\ tokens'[r] # None =>
          tokens'[r].name = n /\ rows[n] # None /\ tokens'[r].object = rows[n].object
  BY DEF Minted, AccessTypeOK, TokenRows
<1>4. TokenRows'
  BY <1>2, <1>3, PastHolds DEF TokenRows
<1>5. ASSUME NEW g \in Git
      PROVE  GitHolds(g)'
  <2>1. at[g] \in {"resolve", "served"} => presented[g] \in Minter /\ presented[g] # r
    BY DEF GitHolds
  <2> QED
    BY <1>2, <2>1, PastHolds DEF GitHolds
<1> QED
  BY <1>1, <1>4, <1>5

LEMMA AnswerTokenHolds == ASSUME AccessInv, NEW r \in Object, AnswerToken(r) PROVE AccessInv'
<1> USE DEF AccessInv
<1>1. Next /\ AccessNext /\ UNCHANGED access
  BY DEF AnswerToken, Next, AccessNext
<1>2. LifecycleInv' /\ Named'
  BY <1>1, NextHolds, NamedHolds
<1>3. r \in Request /\ failures \in Nat /\ pc \in [Request -> Calls]
  BY DEF Request, LifecycleInv, TypeOK, Calls
<1>4. pc[r] = "token" /\ \E p \in PastCalls : pc' = [pc EXCEPT ![r] = p]
  BY <1>3, AnsweredMoves, ThrownEnds
     DEF AnswerToken, TokenStep, CreateToken, CreateForkToken, GivesUp, PastCalls
<1>5. ~Past(r) /\ Past(r)'
  BY <1>3, <1>4, AccessAssumption DEF Past, PastCalls
<1>6. UNCHANGED rows /\ tokens' = Minted(r, name[r], "write") /\ name[r] \in Name
  BY <1>4 DEF AnswerToken, TokenStep, CreateToken, CreateForkToken, Named
<1>7. /\ tokens' \in [Minter -> Token \cup {None}] /\ TokenRows'
      /\ \A g \in Git : GitHolds(g)'
  BY <1>1, <1>5, <1>6, MintHolds DEF access, Scope
<1> QED
  BY <1>1, <1>2, <1>7 DEF AccessTypeOK, LifecycleInv, IssueNamed, access

LEMMA IssueHolds ==
    ASSUME AccessInv, NEW i \in Issue, ResolveForToken(i) \/ IssueToken(i)
    PROVE  AccessInv'
<1> USE DEF AccessInv
<1>1. AccessNext /\ UNCHANGED <<vars, presented, reached>>
  BY DEF AccessNext, ResolveForToken, IssueToken
<1>2. LifecycleInv' /\ Named'
  BY <1>1, NextHolds, NamedHolds DEF vars
<1>3. i \in Caller /\ i \notin Git /\ i \notin Object
  BY AccessAssumption DEF Caller
<1>4. CASE ResolveForToken(i)
  <2>1. /\ UNCHANGED tokens /\ at' = [at EXCEPT ![i] = "token"] /\ at[i] = "start"
        /\ \E n \in Name : about' = [about EXCEPT ![i] = n]
    BY <1>4 DEF ResolveForToken, Goes
  <2>2. AccessTypeOK' /\ IssueNamed'
    BY <1>1, <1>2, <1>3, <2>1 DEF AccessTypeOK, LifecycleInv, IssueNamed, Caller
  <2>3. TokenRows'
    BY <1>1, <2>1, PastHolds DEF TokenRows, vars
  <2>4. \A g \in Git : GitHolds(g)'
    BY <1>1, <1>3, <2>1, PastHolds DEF GitHolds, AccessTypeOK, Caller
  <2> QED
    BY <1>2, <2>2, <2>3, <2>4
<1>5. CASE IssueToken(i)
  <2>1. /\ UNCHANGED <<rows, about, presented, reached>>
        /\ at' = [at EXCEPT ![i] = "done"] /\ at[i] = "token"
    BY <1>5 DEF IssueToken, Goes, vars
  <2>2. PICK scope \in Scope : tokens' = Minted(i, about[i], scope)
    BY <1>5 DEF IssueToken
  <2>3. about[i] \in Name /\ ~Past(i) /\ Past(i)' /\ \A g \in Git : at'[g] = at[g]
    BY <1>3, <2>1 DEF IssueNamed, Past, AccessTypeOK, Caller
  <2>4. /\ tokens' \in [Minter -> Token \cup {None}] /\ TokenRows'
        /\ \A g \in Git : GitHolds(g)'
    BY <1>1, <2>1, <2>2, <2>3, MintHolds
  <2>5. AccessTypeOK' /\ IssueNamed'
    BY <1>1, <1>2, <2>1, <2>4 DEF AccessTypeOK, LifecycleInv, IssueNamed, Caller
  <2> QED
    BY <1>2, <2>4, <2>5
<1> QED
  BY <1>4, <1>5

\* A token that expires or is revoked keeps its name.
LEMMA EndHolds ==
    ASSUME AccessInv, NEW m \in Minter, Expire(m) \/ RevokeToken(m)
    PROVE  AccessInv'
<1> USE DEF AccessInv
<1>1. AccessNext /\ UNCHANGED <<vars, access>>
  BY DEF AccessNext, Expire, RevokeToken
<1>2. LifecycleInv' /\ Named'
  BY <1>1, NextHolds, NamedHolds DEF vars
<1>3. PICK x \in {"expired", "revoked"} :
          tokens[m] # None /\ tokens' = [tokens EXCEPT ![m].state = x]
  BY DEF Expire, RevokeToken
<1>4. tokens[m] \in Token
  BY <1>3 DEF AccessTypeOK
<1>5. tokens' = [tokens EXCEPT ![m] = [tokens[m] EXCEPT !.state = x]]
  BY <1>3, <1>4 DEF AccessTypeOK
<1>6. /\ [tokens[m] EXCEPT !.state = x] \in Token
      /\ [tokens[m] EXCEPT !.state = x].name = tokens[m].name
      /\ [tokens[m] EXCEPT !.state = x].object = tokens[m].object
  BY <1>4 DEF Token
<1> HIDE DEF Token
<1>7. AccessTypeOK'
  BY <1>1, <1>2, <1>5, <1>6 DEF AccessTypeOK, LifecycleInv, access
<1>8. \A q \in Minter : tokens'[q] # None =>
          /\ tokens[q] # None
          /\ tokens'[q].name = tokens[q].name /\ tokens'[q].object = tokens[q].object
  BY <1>3, <1>5, <1>6 DEF AccessTypeOK
<1>9. TokenRows'
  BY <1>1, <1>8, PastHolds DEF TokenRows, vars
<1>10. \A g \in Git : GitHolds(g)'
  BY <1>1, <1>8, PastHolds DEF GitHolds, access, AccessTypeOK, Caller
<1> QED
  BY <1>1, <1>2, <1>7, <1>9, <1>10 DEF IssueNamed, access

LEMMA GitStepHolds ==
    ASSUME AccessInv, NEW h \in Git, Authorize(h) \/ Resolve(h)
    PROVE  AccessInv'
<1> USE DEF AccessInv
<1>1. AccessNext /\ UNCHANGED <<vars, tokens>>
  BY DEF AccessNext, Authorize, Resolve
<1>2. LifecycleInv' /\ Named'
  BY <1>1, NextHolds, NamedHolds DEF vars
<1>3. h \in Caller /\ h \notin Issue
  BY AccessAssumption DEF Caller
<1>4. TokenRows'
  BY <1>1, PastHolds DEF TokenRows, vars
<1>5. CASE Authorize(h)
  <2>1. /\ at[h] = "start" /\ UNCHANGED reached
        /\ \/ at' = [at EXCEPT ![h] = "done"] /\ UNCHANGED <<about, presented>>
           \/ \E n \in Name, m \in Minter :
                 /\ tokens[m] # None /\ tokens[m].name = n
                 /\ about' = [about EXCEPT ![h] = n] /\ presented' = [presented EXCEPT ![h] = m]
                 /\ at' = [at EXCEPT ![h] = "resolve"]
    BY <1>5 DEF Authorize, Authorizes, Goes
  <2>2. AccessTypeOK' /\ IssueNamed'
    BY <1>1, <1>2, <1>3, <2>1 DEF AccessTypeOK, LifecycleInv, IssueNamed, Caller
  <2>3. ASSUME NEW g \in Git
        PROVE  GitHolds(g)'
    BY <1>1, <1>3, <1>4, <2>1, PastHolds DEF GitHolds, AccessTypeOK, Caller, TokenRows
  <2> QED
    BY <1>2, <1>4, <2>2, <2>3
<1>6. CASE Resolve(h)
  <2>1. /\ at[h] = "resolve" /\ UNCHANGED <<about, presented>>
        /\ \/ at' = [at EXCEPT ![h] = "done"] /\ UNCHANGED reached
           \/ /\ Ready(about[h]) /\ reached' = [reached EXCEPT ![h] = rows[about[h]].object]
              /\ at' = [at EXCEPT ![h] = "served"]
    BY <1>6 DEF Resolve, Goes
  <2>2. about[h] \in Name /\ (Ready(about[h]) => rows[about[h]].object \in Object)
    BY <2>1 DEF Ready, GitHolds, AccessTypeOK, TypeOK, Row
  <2>3. AccessTypeOK' /\ IssueNamed'
    BY <1>1, <1>2, <1>3, <2>1, <2>2 DEF AccessTypeOK, LifecycleInv, IssueNamed, Caller
  <2>4. ASSUME NEW g \in Git
        PROVE  GitHolds(g)'
    <3>1. CASE g # h
      BY <1>1, <1>3, <2>1, <3>1, PastHolds DEF GitHolds, AccessTypeOK, Caller
    <3>2. CASE g = h
      <4>1. presented[h] \in Minter /\ Past(presented[h]) /\ reached[h] = None
        BY <2>1 DEF GitHolds
      <4>2. tokens[presented[h]] # None => tokens[presented[h]].object = rows[about[h]].object
        BY <2>1, <4>1 DEF GitHolds, TokenRows
      <4> QED
        BY <1>1, <1>3, <2>1, <2>2, <3>2, <4>1, <4>2, PastHolds DEF GitHolds, AccessTypeOK, Caller
    <3> QED
      BY <3>1, <3>2
  <2> QED
    BY <1>2, <1>4, <2>3, <2>4
<1> QED
  BY <1>5, <1>6

LEMMA AccessNextHolds == AccessInv /\ [AccessNext]_avars => AccessInv'
<1> SUFFICES ASSUME AccessInv, [AccessNext]_avars PROVE AccessInv'
  OBVIOUS
<1>1. CASE UNCHANGED avars
  <2>1. LifecycleInv' /\ Named'
    BY <1>1, NextHolds, NamedHolds DEF AccessInv, avars
  <2> QED
    BY <1>1, <2>1
       DEF AccessInv, avars, access, vars, LifecycleInv, AccessTypeOK, TokenRows, IssueNamed,
           GitHolds, Past
<1>2. CASE AccessNext
  BY <1>2, RowsMoveHolds, AnswerTokenHolds, IssueHolds, EndHolds, GitStepHolds
     DEF AccessNext, RevokeRepositoryToken
<1> QED
  BY <1>1, <1>2

-----------------------------------------------------------------------------
\* With or without tokens, the requests behave the same: what holds of
\* RepositoryLifecycle's Spec holds here.
THEOREM AccessRefines == AccessSpec => Spec
<1>1. AccessInit => Init
  BY DEF AccessInit
<1> QED
  BY <1>1, AccessSteps, PTL DEF AccessSpec, Spec

\* The variables stay well typed, those of the requests and of the tokens.
THEOREM AccessTypes == AccessSpec => []AccessTypeOK
<1>1. AccessInv => AccessTypeOK
  BY DEF AccessInv
<1> QED
  BY AccessInitHolds, AccessNextHolds, <1>1, PTL DEF AccessSpec

\* A token is one of the repository that has its name, however often the name is
\* deleted and taken again, and a Git request reaches the repository its token is
\* for (token-registry.ts, authorizeToken, then repository-index.ts, getRepository).
THEOREM TokensNeverCross == AccessSpec => []TokensFollowRows
<1>1. AccessInv => TokensFollowRows
  BY DEF AccessInv, TokensFollowRows, TokenRows, GitHolds
<1> QED
  BY AccessInitHolds, AccessNextHolds, <1>1, PTL DEF AccessSpec

\* The same of a fork that is alone, beside any creates, deletions and tokens, which
\* is what the requests of TLC's instance are: it has no other to share a name with.
THEOREM LoneForkKeepsPromise ==
    ASSUME NEW f, Fork = {f}
    PROVE  AccessSpec => ForkKeepsPromise
<1>1. Fork # {} /\ Apart
  BY DEF Apart
<1> QED
  BY <1>1, AccessRefines, ForkPromiseKept, PTL
=============================================================================
