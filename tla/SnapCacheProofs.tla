--------------------------- MODULE SnapCacheProofs ---------------------------
(* Proofs about SnapCache, for any threads, paths and bound.  The argument:  *)
(* a file is read while the lock is held, so that what is loaded is newer    *)
(* than everything that was cached, returned or asked for until then.        *)
EXTENDS SnapCache, TLAPS

Assumptions == /\ NoThread \notin Threads /\ NoSnap \notin Nat /\ MaxVersion \in Nat

\* The assumptions on the constants, as one fact to cite
LEMMA AssumptionsHold == Assumptions
  BY NobodyAssumption, NoSnapAssumption, MaxVersionAssumption DEF Assumptions

\* The invariant holds at first.
LEMMA InitIInv == Init => IInv
  BY AssumptionsHold DEF Assumptions, Init, IInv, TypeOK, LockInv, FileInv, OrderInv, EraseInv,
     UpdateFresh, NeverOlder, AtLeast

\* Every step keeps the types.
LEMMA TypePreserved == TypeOK /\ [Next]_vars => TypeOK'
  <1> SUFFICES ASSUME TypeOK, [Next]_vars PROVE TypeOK'
    OBVIOUS
  <1> USE AssumptionsHold DEF Assumptions, TypeOK, Goto, history
  <1>1. ASSUME NEW p \in Paths, Change(p) PROVE TypeOK'
    BY <1>1 DEF Change
  <1>2. ASSUME NEW t \in Threads, NEW c \in {"get", "update", "invalidate"}, NEW p \in Paths,
               Begin(t, c, p)
        PROVE TypeOK'
    BY <1>2 DEF Begin
  <1>3. ASSUME NEW t \in Threads, Erase(t) PROVE TypeOK'
    BY <1>3 DEF Erase
  <1>4. ASSUME NEW t \in Threads, Clear(t) PROVE TypeOK'
    BY <1>4 DEF Clear
  <1>5. ASSUME NEW t \in Threads, Hit(t) PROVE TypeOK'
    BY <1>5 DEF Hit
  <1>6. ASSUME NEW t \in Threads, Miss(t) PROVE TypeOK'
    BY <1>6 DEF Miss
  <1>7. ASSUME NEW t \in Threads, Load(t) PROVE TypeOK'
    BY <1>7 DEF Load, Holder
  <1>8. ASSUME NEW t \in Threads, Store(t) PROVE TypeOK'
    BY <1>8 DEF Store
  <1>9. ASSUME NEW t \in Threads, Return(t) PROVE TypeOK'
    BY <1>9 DEF Return
  <1>10. CASE UNCHANGED vars
    BY <1>10 DEF vars
  <1> QED
    BY <1>1, <1>2, <1>3, <1>4, <1>5, <1>6, <1>7, <1>8, <1>9, <1>10 DEF Next

\* The lock is held by the thread between its load and its store.
LEMMA LockPreserved == IInv /\ [Next]_vars => LockInv'
  <1> SUFFICES ASSUME IInv, [Next]_vars PROVE LockInv'
    OBVIOUS
  <1> USE AssumptionsHold DEF Assumptions, IInv, TypeOK, Goto, history, LockInv
  <1>1. ASSUME NEW p \in Paths, Change(p)
        PROVE LockInv'
    BY <1>1 DEF Change
  <1>2. ASSUME NEW t \in Threads, NEW c \in {"get", "update", "invalidate"}, NEW p \in Paths, Begin(t, c, p)
        PROVE LockInv'
    BY <1>2 DEF Begin
  <1>3. ASSUME NEW t \in Threads, Erase(t)
        PROVE LockInv'
    BY <1>3 DEF Erase
  <1>4. ASSUME NEW t \in Threads, Clear(t)
        PROVE LockInv'
    BY <1>4 DEF Clear
  <1>5. ASSUME NEW t \in Threads, Hit(t)
        PROVE LockInv'
    BY <1>5 DEF Hit
  <1>6. ASSUME NEW t \in Threads, Miss(t)
        PROVE LockInv'
    BY <1>6 DEF Miss
  <1>7. ASSUME NEW t \in Threads, Load(t)
        PROVE LockInv'
    BY <1>7 DEF Load, Holder
  <1>8. ASSUME NEW t \in Threads, Store(t)
        PROVE LockInv'
    BY <1>8 DEF Store, Holder
  <1>9. ASSUME NEW t \in Threads, Return(t)
        PROVE LockInv'
    BY <1>9 DEF Return
  <1>10. CASE UNCHANGED vars
    BY <1>10 DEF vars
  <1> QED
    BY <1>1, <1>2, <1>3, <1>4, <1>5, <1>6, <1>7, <1>8, <1>9, <1>10 DEF Next

\* Nothing becomes newer than the file: it only changes to newer versions.
LEMMA FilePreserved == IInv /\ [Next]_vars => FileInv'
  <1> SUFFICES ASSUME IInv, [Next]_vars PROVE FileInv'
    OBVIOUS
  <1> USE AssumptionsHold DEF Assumptions, IInv, TypeOK, Goto, history, LockInv, FileInv
  <1>1. ASSUME NEW p \in Paths, Change(p)
        PROVE FileInv'
    BY <1>1 DEF Change
  <1>2. ASSUME NEW t \in Threads, NEW c \in {"get", "update", "invalidate"}, NEW p \in Paths, Begin(t, c, p)
        PROVE FileInv'
    BY <1>2 DEF Begin
  <1>3. ASSUME NEW t \in Threads, Erase(t)
        PROVE FileInv'
    BY <1>3 DEF Erase
  <1>4. ASSUME NEW t \in Threads, Clear(t)
        PROVE FileInv'
    BY <1>4 DEF Clear
  <1>5. ASSUME NEW t \in Threads, Hit(t)
        PROVE FileInv'
    BY <1>5 DEF Hit
  <1>6. ASSUME NEW t \in Threads, Miss(t)
        PROVE FileInv'
    BY <1>6 DEF Miss
  <1>7. ASSUME NEW t \in Threads, Load(t)
        PROVE FileInv'
    BY <1>7 DEF Load, Holder
  <1>8. ASSUME NEW t \in Threads, Store(t)
        PROVE FileInv'
    BY <1>8 DEF Store, Holder
  <1>9. ASSUME NEW t \in Threads, Return(t)
        PROVE FileInv'
    BY <1>9 DEF Return
  <1>10. CASE UNCHANGED vars
    BY <1>10 DEF vars
  <1> QED
    BY <1>1, <1>2, <1>3, <1>4, <1>5, <1>6, <1>7, <1>8, <1>9, <1>10 DEF Next

\* What is loaded under the lock is as new as the file, hence as all there was.
LEMMA OrderPreserved == IInv /\ [Next]_vars => OrderInv'
  <1> SUFFICES ASSUME IInv, [Next]_vars PROVE OrderInv'
    OBVIOUS
  <1> USE AssumptionsHold DEF Assumptions, IInv, TypeOK, Goto, history, LockInv, FileInv, OrderInv, AtLeast
  <1>1. ASSUME NEW p \in Paths, Change(p)
        PROVE OrderInv'
    BY <1>1 DEF Change
  <1>2. ASSUME NEW t \in Threads, NEW c \in {"get", "update", "invalidate"}, NEW p \in Paths, Begin(t, c, p)
        PROVE OrderInv'
    BY <1>2 DEF Begin
  <1>3. ASSUME NEW t \in Threads, Erase(t)
        PROVE OrderInv'
    BY <1>3 DEF Erase
  <1>4. ASSUME NEW t \in Threads, Clear(t)
        PROVE OrderInv'
    BY <1>4 DEF Clear
  <1>5. ASSUME NEW t \in Threads, Hit(t)
        PROVE OrderInv'
    BY <1>5 DEF Hit
  <1>6. ASSUME NEW t \in Threads, Miss(t)
        PROVE OrderInv'
    BY <1>6 DEF Miss
  <1>7. ASSUME NEW t \in Threads, Load(t)
        PROVE OrderInv'
    BY <1>7 DEF Load, Holder
  <1>8. ASSUME NEW t \in Threads, Store(t)
        PROVE OrderInv'
    BY <1>8 DEF Store, Holder
  <1>9. ASSUME NEW t \in Threads, Return(t)
        PROVE OrderInv'
    BY <1>9 DEF Return
  <1>10. CASE UNCHANGED vars
    BY <1>10 DEF vars
  <1> QED
    BY <1>1, <1>2, <1>3, <1>4, <1>5, <1>6, <1>7, <1>8, <1>9, <1>10 DEF Next

\* When a call has erased, all that can be cached is loaded later.
LEMMA ErasePreserved == IInv /\ [Next]_vars => EraseInv'
  <1> SUFFICES ASSUME IInv, [Next]_vars PROVE EraseInv'
    OBVIOUS
  <1> USE AssumptionsHold DEF Assumptions, IInv, TypeOK, Goto, history, LockInv, FileInv, OrderInv, EraseInv, AtLeast
  <1>1. ASSUME NEW p \in Paths, Change(p)
        PROVE EraseInv'
    BY <1>1 DEF Change
  <1>2. ASSUME NEW t \in Threads, NEW c \in {"get", "update", "invalidate"}, NEW p \in Paths, Begin(t, c, p)
        PROVE EraseInv'
    BY <1>2 DEF Begin
  <1>3. ASSUME NEW t \in Threads, Erase(t)
        PROVE EraseInv'
    BY <1>3 DEF Erase
  <1>4. ASSUME NEW t \in Threads, Clear(t)
        PROVE EraseInv'
    BY <1>4 DEF Clear
  <1>5. ASSUME NEW t \in Threads, Hit(t)
        PROVE EraseInv'
    BY <1>5 DEF Hit
  <1>6. ASSUME NEW t \in Threads, Miss(t)
        PROVE EraseInv'
    BY <1>6 DEF Miss
  <1>7. ASSUME NEW t \in Threads, Load(t)
        PROVE EraseInv'
    BY <1>7 DEF Load, Holder
  <1>8. ASSUME NEW t \in Threads, Store(t)
        PROVE EraseInv'
    BY <1>8 DEF Store, Holder
  <1>9. ASSUME NEW t \in Threads, Return(t)
        PROVE EraseInv'
    BY <1>9 DEF Return
  <1>10. CASE UNCHANGED vars
    BY <1>10 DEF vars
  <1> QED
    BY <1>1, <1>2, <1>3, <1>4, <1>5, <1>6, <1>7, <1>8, <1>9, <1>10 DEF Next

\* A hit or a store hands out what is cached or loaded, which is new enough.
LEMMA FreshPreserved == IInv /\ [Next]_vars => UpdateFresh' /\ NeverOlder'
  <1> SUFFICES ASSUME IInv, [Next]_vars PROVE UpdateFresh' /\ NeverOlder'
    OBVIOUS
  <1> USE AssumptionsHold DEF Assumptions, IInv, TypeOK, Goto, history, LockInv, FileInv, OrderInv, EraseInv, AtLeast, UpdateFresh, NeverOlder
  <1>1. ASSUME NEW p \in Paths, Change(p)
        PROVE UpdateFresh' /\ NeverOlder'
    BY <1>1 DEF Change
  <1>2. ASSUME NEW t \in Threads, NEW c \in {"get", "update", "invalidate"}, NEW p \in Paths, Begin(t, c, p)
        PROVE UpdateFresh' /\ NeverOlder'
    BY <1>2 DEF Begin
  <1>3. ASSUME NEW t \in Threads, Erase(t)
        PROVE UpdateFresh' /\ NeverOlder'
    BY <1>3 DEF Erase
  <1>4. ASSUME NEW t \in Threads, Clear(t)
        PROVE UpdateFresh' /\ NeverOlder'
    BY <1>4 DEF Clear
  <1>5. ASSUME NEW t \in Threads, Hit(t)
        PROVE UpdateFresh' /\ NeverOlder'
    BY <1>5 DEF Hit
  <1>6. ASSUME NEW t \in Threads, Miss(t)
        PROVE UpdateFresh' /\ NeverOlder'
    BY <1>6 DEF Miss
  <1>7. ASSUME NEW t \in Threads, Load(t)
        PROVE UpdateFresh' /\ NeverOlder'
    BY <1>7 DEF Load, Holder
  <1>8. ASSUME NEW t \in Threads, Store(t)
        PROVE UpdateFresh' /\ NeverOlder'
    BY <1>8 DEF Store, Holder
  <1>9. ASSUME NEW t \in Threads, Return(t)
        PROVE UpdateFresh' /\ NeverOlder'
    BY <1>9 DEF Return
  <1>10. CASE UNCHANGED vars
    BY <1>10 DEF vars
  <1> QED
    BY <1>1, <1>2, <1>3, <1>4, <1>5, <1>6, <1>7, <1>8, <1>9, <1>10 DEF Next

\* The inductive invariant holds in every behaviour.
THEOREM Invariance == Spec => []IInv
  <1>1. IInv /\ [Next]_vars => IInv'
    <2> SUFFICES ASSUME IInv, [Next]_vars PROVE IInv'
      OBVIOUS
    <2>1. TypeOK'
      BY TypePreserved DEF IInv
    <2> QED
      BY <2>1, LockPreserved, FilePreserved, OrderPreserved, ErasePreserved, FreshPreserved DEF IInv
  <1> QED
    BY <1>1, InitIInv, PTL DEF Spec

\* Type correctness of FileSnapCache's map, lock and calls.
THEOREM TypeCorrect == Spec => []TypeOK
  BY Invariance, PTL DEF IInv

\* updateAndGet returns the file as it was when the call began, or newer.
THEOREM UpdatesAreFresh == Spec => []UpdateFresh
  BY Invariance, PTL DEF IInv

\* No call returns an older version than one that returned before it began.
THEOREM NothingOlder == Spec => []NeverOlder
  BY Invariance, PTL DEF IInv
=============================================================================
