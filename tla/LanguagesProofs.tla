--------------------------- MODULE LanguagesProofs ---------------------------
(* Proofs about Languages for any threads, languages and addresses: who      *)
(* holds a language, an engine or a query holds the right one.               *)
EXTENDS Languages, FiniteSetTheorems, TLAPS

\* The steps of TSLoader::get, but for opening the library
Load(t) ==
  \/ \E l \in Langs : Get(t, l)
  \/ WalkFails(t) \/ WalkHits(t) \/ WalkMisses(t) \/ WalkLists(t)
  \/ Clone(t) \/ Build(t) \/ GetThrows(t) \/ OpenThrows(t)

\* They move their thread from one place of get to another, and touch the disk.
Loads(t) ==
  /\ op[t].at \in Loading \cup {"idle"}
  /\ \E o \in Ops : /\ op' = [op EXCEPT ![t] = o]
                    /\ o.at \in Loading \cup {"idle"}
                    /\ o.at \in Loading => lang[t] = None
  /\ UNCHANGED <<libraries, caches, tree>>

LEMMA OpTypes ==
  ASSUME NEW o \in Ops
  PROVE  /\ o.at = "idle" => o = Idle
         /\ o.at \in Loading => o \in [at : Loading, lang : Langs, round : {1, 2}]
         /\ o.at \in {"parse", "local"} => o.engine \in EngineAddrs
         /\ o.at \in Loading \cup {"idle", "make", "parse", "local"}
BY DEF Ops, Idle, Loading

LEMMA LoadMoves ==
  ASSUME TypeOK, OpInv, NEW t \in Threads, Load(t)
  PROVE  /\ Loads(t)
         /\ dir' \in [Langs -> States] /\ listing' \in [Langs -> States \cup {None}]
<1> DEFINE o == op[t]
<1>1. o \in Ops /\ (o.at \in Loading => lang[t] = None)
  BY DEF TypeOK, OpInv
<1>2. ASSUME NEW p \in Loading, NEW r \in {1, 2}, o.at \in Loading
      PROVE  [o EXCEPT !.at = p] \in Ops /\ [o EXCEPT !.at = p, !.round = r] \in Ops
             /\ [o EXCEPT !.at = p].at = p /\ [o EXCEPT !.at = p, !.round = r].at = p
  <2>1. o \in [at : Loading, lang : Langs, round : {1, 2}]
    BY <1>1, <1>2, OpTypes
  <2> QED
    BY <2>1 DEF Ops
<1>3. Idle \in Ops /\ Idle.at = "idle"
  BY DEF Ops, Idle
<1>4. CASE \E l \in Langs : Get(t, l)
  <2>1. PICK l \in Langs : Get(t, l)
    BY <1>4
  <2>2. [at |-> "walk", lang |-> l, round |-> 1] \in Ops
    BY DEF Ops, Loading
  <2> QED
    BY <2>1, <2>2, <1>3 DEF Get, Do, Loads, Loading, TypeOK, disk
<1>5. CASE WalkFails(t) \/ WalkHits(t) \/ WalkMisses(t)
  BY <1>5, <1>1, <1>2 DEF WalkFails, WalkHits, WalkMisses, AfterWalk, Do, Loads, Loading, TypeOK, disk
<1>6. CASE WalkLists(t)
  BY <1>6, <1>1, <1>2, OpTypes DEF WalkLists, AfterWalk, Do, Loads, Loading, TypeOK
<1>7. CASE Clone(t) \/ Build(t)
  BY <1>7, <1>1, <1>2 DEF Clone, Build, Do, Loads, Loading, TypeOK, States
<1>8. CASE GetThrows(t) \/ OpenThrows(t)
  BY <1>8, <1>3 DEF GetThrows, OpenThrows, Do, Loads, Loading, TypeOK, disk
<1> QED
  BY <1>4, <1>5, <1>6, <1>7, <1>8 DEF Load

\* The steps by what they touch
LEMMA Steps ==
  ASSUME [Next]_vars
  PROVE  \/ \E t \in Threads :
              \/ Load(t) \/ Open(t) \/ Drop(t) \/ PoolHits(t) \/ PoolMisses(t) \/ Parse(t)
              \/ DropTree(t) \/ Query(t)
              \/ \E e \in EngineAddrs : PoolMakes(t, e) \/ LocalEngine(t, e)
         \/ UNCHANGED vars
BY DEF Next, Load

LEMMA OwnedBy ==
  ASSUME NEW p, NEW o, NEW e
  PROVE  e \in Owned(p, o) <=>
           \/ \E a \in LangAddrs : p[a] = e
           \/ \E t \in Threads : o[t].at \in {"parse", "local"} /\ o[t].engine = e
BY DEF Owned

LEMMA HoldersCounted ==
  ASSUME NEW l
  PROVE  /\ IsFiniteSet(Holders(l)) /\ Cardinality(Holders(l)) \in Nat
         /\ Cardinality(Holders(l)) = 0 <=> Holders(l) = {}
<1>1. IsFiniteSet(Holders(l))
  <2>1. Holders(l) \subseteq Threads
    BY DEF Holders
  <2> QED
    BY <2>1, ThreadsAssumption, FS_Subset
<1> QED
  BY <1>1, FS_EmptySet, FS_CardinalityType

LEMMA HolderHas ==
  ASSUME NEW t \in Threads
  PROVE  t \in Holders(lang[t])
BY DEF Holders

\* What a thread holds is mapped.
LEMMA Mapped ==
  ASSUME TypeOK, LibInv, NEW t \in Threads, lang[t] # None
  PROVE  lang[t] \in Langs /\ at[lang[t]] \in LangAddrs
BY HolderHas DEF TypeOK, LibInv

-----------------------------------------------------------------------------
(* Types *)

LEMMA InitInv == Init => IInv
<1> SUFFICES ASSUME Init PROVE IInv
  OBVIOUS
<1>1. TypeOK
  BY FoldersAssumption DEF Init, TypeOK, Ops, States
<1>2. LibInv
  <2>1. \A l \in Langs : Holders(l) = {}
    BY NoneAssumption DEF Init, Holders
  <2> QED
    BY <2>1, FS_EmptySet DEF Init, LibInv
<1>3. OpInv /\ OwnInv /\ PoolInv /\ EngineFits /\ MissInv /\ ParentAlive /\ QueryInv
  BY OwnedBy DEF Init, Idle, OpInv, OwnInv, PoolInv, EngineFits, MissInv, ParentAlive, QueryInv, Loading
<1>4. ListInv
  BY NoneAssumption DEF Init, ListInv, Idle, States
<1> QED
  BY <1>1, <1>2, <1>3, <1>4 DEF IInv

LEMMA TypeStep == TypeOK /\ LibInv /\ OpInv /\ OwnInv /\ [Next]_vars => TypeOK'
<1> SUFFICES ASSUME TypeOK, LibInv, OpInv, OwnInv, [Next]_vars PROVE TypeOK'
  OBVIOUS
<1>1. ASSUME NEW t \in Threads, Load(t) PROVE TypeOK'
  <2>1. Loads(t) /\ dir' \in [Langs -> States] /\ listing' \in [Langs -> States \cup {None}]
    BY <1>1, LoadMoves
  <2> QED
    BY <2>1 DEF Loads, TypeOK, libraries, caches
<1>2. ASSUME NEW t \in Threads, Open(t) \/ Drop(t) PROVE TypeOK'
  <2>1. op[t] \in Ops /\ op' \in [Threads -> Ops]
    BY <1>2 DEF Open, Drop, Do, TypeOK, Ops
  <2>2. CASE Open(t)
    BY <2>1, <2>2, OpTypes DEF Open, TypeOK, disk, caches, Loading
  <2>3. CASE Drop(t)
    <3>1. PICK l \in Langs : l = lang[t]
      BY <2>3 DEF Drop, TypeOK
    <3>2. count[l] \in Nat \ {0}
      BY <3>1, HolderHas, HoldersCounted DEF LibInv, TypeOK
    <3>3. count' = [count EXCEPT ![l] = @ - 1] /\ (at' = [at EXCEPT ![l] = None] \/ at' = at)
      BY <2>3, <3>1 DEF Drop
    <3>4. count' \in [Langs -> Nat] /\ at' \in [Langs -> LangAddrs \cup {None}]
      BY <3>2, <3>3 DEF TypeOK
    <3> QED
      BY <2>1, <2>3, <3>4 DEF Drop, TypeOK, disk
  <2> QED
    BY <1>2, <2>2, <2>3
<1>3. ASSUME NEW t \in Threads, PoolHits(t) \/ PoolMisses(t) PROVE TypeOK'
  <2>1. PoolHits(t) => Cached(t) \in EngineAddrs
    BY Mapped DEF PoolHits, Cached, TypeOK
  <2> QED
    BY <1>3, <2>1 DEF PoolHits, PoolMisses, Do, TypeOK, Ops, disk, libraries, caches
<1>4. ASSUME NEW t \in Threads, NEW e \in EngineAddrs, PoolMakes(t, e) \/ LocalEngine(t, e) PROVE TypeOK'
  <2>1. lang[t] \in Langs
    BY <1>4 DEF PoolMakes, LocalEngine, OpInv, TypeOK
  <2>2. op' \in [Threads -> Ops] /\ engine' \in [EngineAddrs -> Langs \cup {None}]
    BY <1>4, <2>1 DEF PoolMakes, LocalEngine, Do, Collect, TypeOK, Ops
  <2> QED
    BY <1>4, <2>1, <2>2 DEF PoolMakes, LocalEngine, TypeOK, disk, libraries
<1>5. ASSUME NEW t \in Threads, Parse(t) \/ DropTree(t) PROVE TypeOK'
  <2>1. op' \in [Threads -> Ops] /\ engine' \in [EngineAddrs -> Langs \cup {None}]
    BY <1>5 DEF Parse, DropTree, Do, Collect, TypeOK, Ops
  <2>2. tree' \in [Threads -> [parent : EngineAddrs, lang : Langs] \cup {None}]
    <3>1. CASE Parse(t)
      <4>1. op[t].engine \in EngineAddrs
        BY <3>1, OpTypes DEF Parse, TypeOK
      <4>2. op[t].engine \in Owned(pool, op)
        BY <3>1, OwnedBy DEF Parse
      <4> QED
        BY <3>1, <4>1, <4>2, NoneAssumption DEF Parse, TypeOK, OwnInv
    <3> QED
      BY <3>1, <1>5 DEF DropTree, TypeOK
  <2> QED
    BY <1>5, <2>1, <2>2 DEF Parse, DropTree, TypeOK, disk, libraries
<1>6. ASSUME NEW t \in Threads, Query(t) PROVE TypeOK'
  <2>1. tree[t].parent \in EngineAddrs
    BY <1>6 DEF Query, TypeOK
  <2> QED
    BY <1>6, <2>1 DEF Query, TypeOK, disk, libraries
<1>7. ASSUME UNCHANGED vars PROVE TypeOK'
  BY <1>7 DEF vars, disk, libraries, caches, TypeOK
<1> QED
  BY <1>1, <1>2, <1>3, <1>4, <1>5, <1>6, <1>7, Steps


-----------------------------------------------------------------------------
(* Listings *)

LEMMA Walks ==
  ASSUME TypeOK, NEW t \in Threads, op[t].at \in Loading
  PROVE  op[t].lang \in Langs /\ dir[op[t].lang] \in States
         /\ listing[op[t].lang] \in States \cup {None}
BY OpTypes DEF TypeOK

LEMMA ListStep == TypeOK /\ ListInv /\ [Next]_vars => ListInv'
<1> SUFFICES ASSUME TypeOK, ListInv, [Next]_vars PROVE ListInv'
  OBVIOUS
<1>1. ASSUME UNCHANGED disk, NEW t \in Threads, op'[t].at # "list",
             \A u \in Threads \ {t} : op'[u] = op[u]
      PROVE  ListInv'
  BY <1>1 DEF ListInv, disk
<1>2. ASSUME NEW t \in Threads, \E l \in Langs : Get(t, l) PROVE ListInv'
  BY <1>2, <1>1 DEF Get, Do, TypeOK
<1>3. ASSUME NEW t \in Threads, WalkFails(t) \/ WalkHits(t) PROVE ListInv'
  <2>1. op[t] \in [at : Loading, lang : Langs, round : {1, 2}]
    BY <1>3, OpTypes DEF WalkFails, WalkHits, TypeOK, Loading
  <2>2. \A p \in {"open", "clone", "missing"} : [op[t] EXCEPT !.at = p].at # "list"
    BY <2>1
  <2> QED
    BY <1>3, <1>1, <2>2 DEF WalkFails, WalkHits, AfterWalk, Do, TypeOK
<1>4. ASSUME NEW t \in Threads, WalkMisses(t) PROVE ListInv'
  <2>1. op[t] \in [at : Loading, lang : Langs, round : {1, 2}]
    BY <1>4, OpTypes DEF WalkMisses, TypeOK, Loading
  <2> QED
    BY <1>4, <2>1 DEF WalkMisses, Do, ListInv, TypeOK, disk
<1>5. ASSUME NEW t \in Threads, WalkLists(t) PROVE ListInv'
  <2>1. op[t] \in [at : Loading, lang : Langs, round : {1, 2}]
    BY <1>5, OpTypes DEF WalkLists, TypeOK, Loading
  <2>2. op'[t].at # "list" /\ \A u \in Threads \ {t} : op'[u] = op[u]
    BY <1>5, <2>1 DEF WalkLists, AfterWalk, Do, TypeOK
  <2> QED
    BY <1>5, <2>1, <2>2 DEF WalkLists, ListInv, TypeOK
<1>6. ASSUME NEW t \in Threads, Clone(t) \/ Build(t) PROVE ListInv'
  <2>1. op[t] \in [at : Loading, lang : Langs, round : {1, 2}]
    BY <1>6, OpTypes DEF Clone, Build, TypeOK, Loading
  <2>2. op'[t].at # "list" /\ \A u \in Threads \ {t} : op'[u] = op[u]
    BY <1>6, <2>1 DEF Clone, Build, Do, TypeOK
  <2>3. \A l \in Langs : dir[l] # "absent" => dir'[l] # "absent"
    BY <1>6, <2>1 DEF Clone, Build, TypeOK
  <2>4. \A u \in Threads : op[u].at = "list" => op[u].lang \in Langs
    BY Walks DEF Loading
  <2> QED
    BY <1>6, <2>2, <2>3, <2>4 DEF Clone, Build, ListInv
<1>7. ASSUME NEW t \in Threads, GetThrows(t) \/ OpenThrows(t) \/ Open(t) PROVE ListInv'
  BY <1>7, <1>1 DEF GetThrows, OpenThrows, Open, Do, Idle, TypeOK
<1>8. ASSUME NEW t \in Threads, PoolHits(t) \/ PoolMisses(t) PROVE ListInv'
  BY <1>8, <1>1 DEF PoolHits, PoolMisses, Do, TypeOK
<1>9. ASSUME NEW t \in Threads, NEW e \in EngineAddrs, PoolMakes(t, e) \/ LocalEngine(t, e) PROVE ListInv'
  BY <1>9, <1>1 DEF PoolMakes, LocalEngine, Do, TypeOK
<1>10. ASSUME NEW t \in Threads, Parse(t) \/ DropTree(t) PROVE ListInv'
  BY <1>10, <1>1 DEF Parse, DropTree, Do, Idle, TypeOK
<1>11. ASSUME NEW t \in Threads, Drop(t) \/ Query(t) PROVE ListInv'
  BY <1>11 DEF Drop, Query, ListInv, disk
<1>12. ASSUME UNCHANGED vars PROVE ListInv'
  BY <1>12 DEF vars, disk, ListInv
<1> QED
  BY <1>2, <1>3, <1>4, <1>5, <1>6, <1>7, <1>8, <1>9, <1>10, <1>11, <1>12, Steps DEF Load

\* The only walks that miss the library
LEMMA MissesFound ==
  ASSUME TypeOK, ListInv, [Next]_vars,
         NEW t \in Threads, op[t].at # "missing", op'[t].at = "missing"
  PROVE  dir[op[t].lang] # "built" \/ op[t].lang \in early'
<1>1. WalkFails(t) \/ WalkHits(t) \/ WalkLists(t)
  <2>1. ASSUME NEW u \in Threads, u # t, Load(u) \/ Open(u) \/ PoolHits(u) \/ PoolMisses(u)
        PROVE  op'[t] = op[t]
    BY <2>1 DEF Load, Get, WalkFails, WalkHits, WalkMisses, WalkLists, AfterWalk, Clone, Build,
                GetThrows, OpenThrows, Open, PoolHits, PoolMisses, Do, TypeOK
  <2>2. ASSUME NEW u \in Threads, u # t, NEW e \in EngineAddrs,
               PoolMakes(u, e) \/ LocalEngine(u, e) \/ Parse(u) \/ DropTree(u)
        PROVE  op'[t] = op[t]
    BY <2>2 DEF PoolMakes, LocalEngine, Parse, DropTree, Do, TypeOK
  <2>3. ASSUME NEW u \in Threads, Drop(u) \/ Query(u) PROVE op' = op
    BY <2>3 DEF Drop, Query
  <2>4. ~(\E l \in Langs : Get(t, l)) /\ ~GetThrows(t) /\ ~OpenThrows(t) /\ ~Open(t)
    BY DEF Get, GetThrows, OpenThrows, Open, Do, Idle, TypeOK
  <2>5. ~WalkMisses(t) /\ ~Clone(t) /\ ~Build(t)
    <3> SUFFICES ASSUME op[t].at \in Loading, WalkMisses(t) \/ Clone(t) \/ Build(t) PROVE FALSE
      BY DEF WalkMisses, Clone, Build, Loading
    <3>1. op[t] \in [at : Loading, lang : Langs, round : {1, 2}]
      BY OpTypes DEF TypeOK
    <3> QED
      BY <3>1 DEF WalkMisses, Clone, Build, Do, TypeOK
  <2>6. ~PoolHits(t) /\ ~PoolMisses(t) /\ ~Parse(t) /\ ~DropTree(t)
    BY DEF PoolHits, PoolMisses, Parse, DropTree, Do, Idle, TypeOK
  <2>7. \A e \in EngineAddrs : ~PoolMakes(t, e) /\ ~LocalEngine(t, e)
    BY DEF PoolMakes, LocalEngine, Do, TypeOK
  <2>8. op' # op
    OBVIOUS
  <2>9. ASSUME NEW u \in Threads, u # t, Parse(u) \/ DropTree(u) PROVE op'[t] = op[t]
    BY <2>9 DEF Parse, DropTree, Do, TypeOK
  <2> QED
    BY <2>1, <2>2, <2>3, <2>4, <2>5, <2>6, <2>7, <2>8, <2>9, Steps DEF vars, Load
<1>2. op[t] \in [at : Loading, lang : Langs, round : {1, 2}]
  BY <1>1, OpTypes DEF WalkFails, WalkHits, WalkLists, TypeOK, Loading
<1>3. CASE WalkFails(t)
  BY <1>3 DEF WalkFails
<1>4. CASE WalkHits(t)
  <2>1. listing[op[t].lang] # "built"
    BY <1>2, <1>4 DEF WalkHits, AfterWalk, Do, TypeOK
  <2>2. listing[op[t].lang] = "source"
    BY <1>2, <1>4, <2>1, Walks DEF WalkHits, ListInv, States
  <2> QED
    BY <1>2, <1>4, <2>2 DEF WalkHits, ListInv, disk
<1>5. CASE WalkLists(t)
  BY <1>2, <1>5 DEF WalkLists, AfterWalk, Do, TypeOK
<1> QED
  BY <1>1, <1>3, <1>4, <1>5

-----------------------------------------------------------------------------
(* Libraries *)

LEMMA LibStep == TypeOK /\ LibInv /\ OpInv /\ [Next]_vars => LibInv'
<1> SUFFICES ASSUME TypeOK, LibInv, OpInv, [Next]_vars PROVE LibInv'
  OBVIOUS
<1>1. CASE UNCHANGED libraries
  BY <1>1 DEF LibInv, Holders, libraries
<1>2. ASSUME NEW t \in Threads, Open(t) PROVE LibInv'
  <2>0. PICK l \in Langs : l = op[t].lang
    BY <1>2, OpTypes DEF Open, TypeOK, Loading
  <2>1. lang[t] = None /\ lang' = [lang EXCEPT ![t] = l]
    BY <1>2, <2>0 DEF Open, OpInv, Loading
  <2>2. Holders(l)' = Holders(l) \cup {t} /\ t \notin Holders(l)
        /\ \A m \in Langs \ {l} : Holders(m)' = Holders(m)
    BY <2>1, NoneAssumption DEF Holders, TypeOK
  <2>3. Cardinality(Holders(l)') = Cardinality(Holders(l)) + 1
    BY <2>2, HoldersCounted, FS_AddElement
  <2>4. \A m \in Langs : count'[m] = Cardinality(Holders(m)')
    BY <1>2, <2>0, <2>2, <2>3 DEF Open, LibInv, TypeOK
  <2>5. at'[l] # None /\ \A m \in Langs \ {l} : at'[m] = at[m] /\ at'[m] # at'[l]
    BY <1>2, <2>0, NoneAssumption DEF Open, LibInv, TypeOK
  <2> QED
    BY <2>2, <2>4, <2>5 DEF LibInv
<1>3. ASSUME NEW t \in Threads, Drop(t) PROVE LibInv'
  <2>0. PICK l \in Langs : l = lang[t]
    BY <1>3 DEF Drop, TypeOK
  <2>1. lang' = [lang EXCEPT ![t] = None] /\ count' = [count EXCEPT ![l] = @ - 1]
    BY <1>3, <2>0 DEF Drop
  <2>2. Holders(l)' = Holders(l) \ {t} /\ t \in Holders(l)
        /\ \A m \in Langs \ {l} : Holders(m)' = Holders(m)
    BY <2>0, <2>1, NoneAssumption DEF Holders, TypeOK
  <2>3. Cardinality(Holders(l)') = Cardinality(Holders(l)) - 1
    BY <2>2, HoldersCounted, FS_RemoveElement
  <2>4. \A m \in Langs : count'[m] = Cardinality(Holders(m)')
    BY <2>1, <2>2, <2>3 DEF LibInv, TypeOK
  <2>5. LastClose(l) <=> Holders(l)' = {}
    <3>1. LastClose(l) <=> Cardinality(Holders(l)) = 1
      BY DEF LastClose, LibInv
    <3>2. IsFiniteSet(Holders(l) \ {t}) /\ Cardinality(Holders(l)) \in Nat
      BY HoldersCounted, FS_RemoveElement
    <3>3. Cardinality(Holders(l) \ {t}) = 0 <=> Holders(l) \ {t} = {}
      BY <3>2, FS_EmptySet
    <3> QED
      BY <3>1, <3>2, <3>3, <2>2, <2>3
  <2>6. at' = IF LastClose(l) THEN [at EXCEPT ![l] = None] ELSE at
    BY <1>3, <2>0 DEF Drop
  <2>7. Holders(l) # {}
    BY <2>2
  <2>8. \A m \in Langs : at'[m] = None <=> Holders(m)' = {}
    BY <2>2, <2>5, <2>6, <2>7 DEF LibInv, TypeOK
  <2>9. \A m \in Langs : at'[m] \in {at[m], None}
    BY <2>6 DEF TypeOK
  <2> QED
    BY <2>4, <2>8, <2>9 DEF LibInv
<1>4. ASSUME NEW t \in Threads, Load(t) PROVE UNCHANGED libraries
  BY <1>4, LoadMoves DEF Loads
<1> QED
  BY <1>1, <1>2, <1>3, <1>4, Steps
     DEF PoolHits, PoolMisses, Parse, DropTree, Query, PoolMakes, LocalEngine, vars

\* A library stays where it is while a thread holds it.
LEMMA Stays ==
  ASSUME TypeOK, LibInv, OpInv, [Next]_vars, NEW l \in Langs, Holders(l) # {}
  PROVE  at'[l] \in {at[l], None}
<1>1. ASSUME NEW t \in Threads, Open(t) PROVE at'[l] = at[l]
  BY <1>1 DEF Open, LibInv, TypeOK
<1>2. ASSUME NEW t \in Threads, Drop(t) PROVE at'[l] \in {at[l], None}
  BY <1>2 DEF Drop, TypeOK
<1>3. ASSUME NEW t \in Threads, Load(t) PROVE at' = at
  BY <1>3, LoadMoves DEF Loads, libraries
<1> QED
  BY <1>1, <1>2, <1>3, Steps
     DEF PoolHits, PoolMisses, Parse, DropTree, Query, PoolMakes, LocalEngine, vars, libraries

-----------------------------------------------------------------------------
(* Calls and engines *)

LEMMA OpStep == TypeOK /\ OpInv /\ OwnInv /\ [Next]_vars => OpInv'
<1> SUFFICES ASSUME TypeOK, OpInv, OwnInv, [Next]_vars PROVE OpInv'
  OBVIOUS
<1>1. ASSUME NEW t \in Threads, Load(t) PROVE OpInv'
  BY <1>1, LoadMoves DEF Loads, OpInv, TypeOK, Loading, libraries, caches
<1>2. ASSUME NEW t \in Threads, Open(t) \/ Drop(t) PROVE OpInv'
  BY <1>2 DEF Open, Drop, Do, Idle, OpInv, TypeOK, Loading, caches
<1>3. ASSUME NEW t \in Threads, PoolHits(t) \/ PoolMisses(t) PROVE OpInv'
  BY <1>3 DEF PoolHits, PoolMisses, Do, OpInv, TypeOK, Loading, libraries, caches
<1>4. ASSUME NEW t \in Threads, NEW e \in EngineAddrs, PoolMakes(t, e) PROVE OpInv'
  <2>1. op' = [op EXCEPT ![t] = [at |-> "parse", engine |-> e]] /\ tree' = tree /\ lang' = lang
    BY <1>4 DEF PoolMakes, Do, libraries
  <2>2. ASSUME NEW u \in Threads, op'[u].at = "local" PROVE engine'[op'[u].engine] = engine[op[u].engine]
    <3>1. u # t /\ op'[u] = op[u] /\ op[u].engine \in EngineAddrs
      BY <2>1, <2>2, OpTypes DEF TypeOK
    <3>2. op[u].engine \in Owned(pool, op) /\ op[u].engine \in Owned(pool', op')
      BY <3>1, <2>2, OwnedBy
    <3>3. op[u].engine # e
      BY <1>4, <3>1, <3>2, NoneAssumption DEF PoolMakes, New, OwnInv
    <3> QED
      BY <1>4, <3>1, <3>2, <3>3 DEF PoolMakes, Collect, TypeOK
  <2> QED
    BY <1>4, <2>1, <2>2 DEF PoolMakes, OpInv, TypeOK, Loading
<1>5. ASSUME NEW t \in Threads, NEW e \in EngineAddrs, LocalEngine(t, e) PROVE OpInv'
  <2>1. \A u \in Threads : op[u].at = "local" => op[u].engine # e
    BY <1>5, OwnedBy, NoneAssumption DEF LocalEngine, New, OwnInv
  <2> QED
    BY <1>5, <2>1, NoneAssumption DEF LocalEngine, Do, OpInv, TypeOK, Loading, libraries
<1>6. ASSUME NEW t \in Threads, Parse(t) \/ DropTree(t) PROVE OpInv'
  <2>1. op' = [op EXCEPT ![t] = Idle] /\ \A u \in Threads \ {t} : tree'[u] = tree[u]
    BY <1>6 DEF Parse, DropTree, Do, TypeOK
  <2>2. ASSUME NEW u \in Threads, op'[u].at = "local" PROVE engine'[op'[u].engine] = engine[op[u].engine]
    <3>1. u # t /\ op'[u] = op[u] /\ op[u].engine \in EngineAddrs
      BY <2>1, <2>2, OpTypes DEF TypeOK, Idle
    <3>2. op[u].engine \in Owned(pool', op')
      BY <3>1, <2>2, OwnedBy
    <3> QED
      BY <1>6, <3>1, <3>2 DEF Parse, DropTree, Collect, TypeOK
  <2> QED
    BY <1>6, <2>1, <2>2 DEF Parse, DropTree, OpInv, TypeOK, Loading, Idle, libraries
<1>7. ASSUME NEW t \in Threads, Query(t) PROVE OpInv'
  BY <1>7 DEF Query, OpInv, libraries
<1>8. ASSUME UNCHANGED vars PROVE OpInv'
  BY <1>8 DEF vars, libraries, caches, OpInv
<1> QED
  BY <1>1, <1>2, <1>3, <1>4, <1>5, <1>6, <1>7, <1>8, Steps

\* The steps that leave the pool and the engines alone
Beside(t) == Load(t) \/ Open(t) \/ Drop(t) \/ PoolHits(t) \/ PoolMisses(t) \/ Query(t)

LEMMA BesideOwns ==
  ASSUME TypeOK, OpInv, NEW t \in Threads, Beside(t)
  PROVE  /\ pool' = pool /\ engine' = engine
         /\ \A e : e \in Owned(pool', op') => e \in Owned(pool, op) \/ e = Cached(t)
         /\ \A e : e \in Owned(pool', op') => e \in Owned(pool, op) \/ PoolHits(t)
<1>1. pool' = pool /\ engine' = engine
  BY LoadMoves DEF Beside, Loads, Open, Drop, PoolHits, PoolMisses, Query, caches
<1>2. ASSUME NEW e, NEW u \in Threads, op'[u].at \in {"parse", "local"}, op'[u].engine = e
      PROVE  (op[u].at \in {"parse", "local"} /\ op[u].engine = e) \/ (e = Cached(t) /\ PoolHits(t))
  <2>1. CASE Load(t)
    BY <1>2, <2>1, LoadMoves DEF Loads, Loading, TypeOK
  <2>2. CASE PoolHits(t)
    BY <1>2, <2>2 DEF PoolHits, Do, TypeOK
  <2>3. CASE Open(t) \/ Drop(t) \/ PoolMisses(t) \/ Query(t)
    BY <1>2, <2>3 DEF Open, Drop, PoolMisses, Query, Do, Idle, TypeOK
  <2> QED
    BY <2>1, <2>2, <2>3 DEF Beside
<1> QED
  BY <1>1, <1>2, OwnedBy

\* An engine that somebody still owns is not touched.
LEMMA Survives ==
  ASSUME TypeOK, OpInv, [Next]_vars,
         NEW e \in EngineAddrs, engine[e] # None, e \in Owned(pool', op')
  PROVE  engine'[e] = engine[e]
<1>1. ASSUME NEW t \in Threads, Beside(t) PROVE engine' = engine
  BY <1>1, BesideOwns
<1>2. ASSUME NEW t \in Threads, NEW n \in EngineAddrs, PoolMakes(t, n) \/ LocalEngine(t, n)
      PROVE  engine'[e] = engine[e]
  BY <1>2 DEF PoolMakes, LocalEngine, New, Collect, TypeOK
<1>3. ASSUME NEW t \in Threads, Parse(t) \/ DropTree(t) PROVE engine'[e] = engine[e]
  BY <1>3 DEF Parse, DropTree, Collect, TypeOK
<1>4. UNCHANGED vars => engine' = engine
  BY DEF vars, caches
<1> QED
  BY <1>1, <1>2, <1>3, <1>4, Steps DEF Beside

\* What a new engine changes
LEMMA Makes ==
  ASSUME TypeOK, OpInv, NEW t \in Threads, NEW n \in EngineAddrs, PoolMakes(t, n) \/ LocalEngine(t, n)
  PROVE  /\ engine[n] = None /\ engine'[n] = lang[t] /\ lang[t] \in Langs
         /\ lang' = lang /\ at' = at /\ query' = query
         /\ \E place \in {"parse", "local"} : op' = [op EXCEPT ![t] = [at |-> place, engine |-> n]]
         /\ \A e \in EngineAddrs \ {n} : engine'[e] \in {engine[e], None}
         /\ \A e : e \in Owned(pool', op') => e \in Owned(pool, op) \/ e = n
<1>1. /\ engine[n] = None /\ lang' = lang /\ at' = at /\ query' = query /\ lang[t] # None
      /\ pool' = pool \/ pool' = [pool EXCEPT ![at[lang[t]]] = n]
  BY DEF PoolMakes, LocalEngine, New, OpInv, libraries
<1>2. lang[t] \in Langs
  BY <1>1 DEF TypeOK
<1>3. \E place \in {"parse", "local"} : op' = [op EXCEPT ![t] = [at |-> place, engine |-> n]]
  BY DEF PoolMakes, LocalEngine, Do
<1>4. n \in Owned(pool', op')
  <2>1. op'[t].at \in {"parse", "local"} /\ op'[t].engine = n
    BY <1>3 DEF TypeOK
  <2> QED
    BY <2>1, OwnedBy
<1>5. engine'[n] = lang[t] /\ \A e \in EngineAddrs \ {n} : engine'[e] \in {engine[e], None}
  BY <1>2, <1>4 DEF PoolMakes, LocalEngine, Collect, TypeOK
<1>6. \A e : e \in Owned(pool', op') => e \in Owned(pool, op) \/ e = n
  <2>1. \A a \in LangAddrs : pool'[a] \in {pool[a], n}
    BY <1>1 DEF TypeOK
  <2>2. \A u \in Threads : op'[u] = op[u] \/ op'[u].engine = n
    BY <1>3 DEF TypeOK
  <2> QED
    BY <2>1, <2>2, OwnedBy
<1> QED
  BY <1>1, <1>2, <1>3, <1>5, <1>6

\* What a thread that ends a call with an engine changes
LEMMA Ends ==
  ASSUME TypeOK, NEW t \in Threads, Parse(t) \/ DropTree(t)
  PROVE  /\ op' = [op EXCEPT ![t] = Idle] /\ pool' = pool /\ UNCHANGED <<libraries, query, stale>>
         /\ \A e : e \in Owned(pool', op') => e \in Owned(pool, op)
         /\ \A e \in EngineAddrs : engine'[e] \in {engine[e], None}
<1>1. op' = [op EXCEPT ![t] = Idle] /\ pool' = pool /\ UNCHANGED <<libraries, query, stale>>
  BY DEF Parse, DropTree, Do
<1>2. \A e : e \in Owned(pool', op') => e \in Owned(pool, op)
  <2>1. ASSUME NEW u \in Threads, op'[u].at \in {"parse", "local"}
        PROVE  op[u].at \in {"parse", "local"} /\ op'[u].engine = op[u].engine
    BY <1>1, <2>1 DEF TypeOK, Idle
  <2> SUFFICES ASSUME NEW e, e \in Owned(pool', op') PROVE e \in Owned(pool, op)
    OBVIOUS
  <2>2. \/ \E a \in LangAddrs : pool[a] = e
        \/ \E u \in Threads : op'[u].at \in {"parse", "local"} /\ op'[u].engine = e
    BY <1>1 DEF Owned
  <2> QED
    BY <2>1, <2>2, OwnedBy
<1>3. \A e \in EngineAddrs : engine'[e] \in {engine[e], None}
  BY DEF Parse, DropTree, Collect, TypeOK
<1> QED
  BY <1>1, <1>2, <1>3

LEMMA OwnedIsAddress ==
  ASSUME TypeOK, NEW e \in Owned(pool, op) \ {None}
  PROVE  e \in EngineAddrs
BY OwnedBy, OpTypes DEF TypeOK

LEMMA OwnStep == TypeOK /\ LibInv /\ OpInv /\ OwnInv /\ [Next]_vars => OwnInv'
<1> SUFFICES ASSUME TypeOK, LibInv, OpInv, OwnInv, [Next]_vars,
                    NEW e \in Owned(pool', op') \ {None}
             PROVE  engine'[e] # None
  BY DEF OwnInv
<1>1. ASSUME NEW t \in Threads, Beside(t) PROVE engine'[e] # None
  <2>1. PoolHits(t) => Cached(t) \in Owned(pool, op)
    BY OwnedBy, Mapped DEF PoolHits, Cached
  <2> QED
    BY <1>1, <2>1, BesideOwns DEF OwnInv
<1>2. ASSUME NEW t \in Threads, NEW n \in EngineAddrs, PoolMakes(t, n) \/ LocalEngine(t, n)
      PROVE  engine'[e] # None
  BY <1>2, Makes, Survives, OwnedIsAddress, NoneAssumption DEF OwnInv
<1>3. ASSUME NEW t \in Threads, Parse(t) \/ DropTree(t) PROVE engine'[e] # None
  BY <1>3, Ends, Survives, OwnedIsAddress DEF OwnInv
<1>4. ASSUME UNCHANGED vars PROVE engine'[e] # None
  BY <1>4 DEF vars, caches, OwnInv
<1> QED
  BY <1>1, <1>2, <1>3, <1>4, Steps DEF Beside

-----------------------------------------------------------------------------
(* The pool *)

LEMMA PoolStep ==
  TypeOK /\ LibInv /\ OpInv /\ OwnInv /\ PoolInv /\ EngineFits /\ [Next]_vars
    => PoolInv' /\ EngineFits'
<1> SUFFICES ASSUME TypeOK, LibInv, OpInv, OwnInv, PoolInv, EngineFits, [Next]_vars
             PROVE  PoolInv' /\ EngineFits'
  OBVIOUS
<1>1. ASSUME NEW t \in Threads, Load(t) PROVE PoolInv' /\ EngineFits'
  BY <1>1, LoadMoves DEF Loads, PoolInv, EngineFits, TypeOK, Loading, libraries, caches
<1>2. ASSUME NEW t \in Threads, Open(t) PROVE PoolInv' /\ EngineFits'
  <2>1. PICK l \in Langs : l = op[t].lang /\ op[t].at = "open"
    BY <1>2, OpTypes DEF Open, TypeOK, Loading
  <2>2. at' = at \/ (at[l] = None /\ \A m \in Langs \ {l} : at'[m] = at[m])
    BY <1>2, <2>1 DEF Open, TypeOK
  <2>3. UNCHANGED caches /\ \A u \in Threads : op'[u].at = "parse" => op'[u] = op[u] /\ lang'[u] = lang[u]
    BY <1>2 DEF Open, Do, Idle, TypeOK
  <2>4. PoolInv'
    BY <2>1, <2>2, <2>3, NoneAssumption DEF PoolInv, caches
  <2> QED
    BY <2>3, <2>4 DEF EngineFits, caches
<1>3. ASSUME NEW t \in Threads, Drop(t) PROVE PoolInv' /\ EngineFits'
  <2>1. PICK l \in Langs : l = lang[t]
    BY <1>3 DEF Drop, TypeOK
  <2>2. /\ at' = IF LastClose(l) THEN [at EXCEPT ![l] = None] ELSE at
        /\ stale' = IF LastClose(l) /\ pool[at[l]] # None THEN stale \cup {"language"} ELSE stale
        /\ pool' = pool /\ engine' = engine /\ op' = op /\ lang' = [lang EXCEPT ![t] = None]
    BY <1>3, <2>1 DEF Drop
  <2>3. at[l] \in LangAddrs
    BY <1>3, <2>1, Mapped DEF Drop
  <2>4. PoolInv'
    <3> SUFFICES ASSUME "language" \notin stale', NEW a \in LangAddrs, pool[a] # None
                 PROVE  \E m \in Langs : at'[m] = a /\ engine[pool[a]] = m
      BY <2>2 DEF PoolInv
    <3>1. PICK m \in Langs : at[m] = a /\ engine[pool[a]] = m
      BY <2>2 DEF PoolInv
    <3>2. at'[m] = a
      BY <2>2, <2>3, <3>1 DEF TypeOK
    <3> QED
      BY <3>1, <3>2
  <2>5. op[t].at # "parse"
    BY <1>3 DEF Drop, Idle
  <2>6. ASSUME NEW u \in Threads, op[u].at = "parse" PROVE lang'[u] = lang[u]
    BY <2>2, <2>5, <2>6 DEF TypeOK
  <2>7. "language" \notin stale' => "language" \notin stale
    BY <2>2
  <2> QED
    BY <2>2, <2>4, <2>6, <2>7 DEF EngineFits
<1>4. ASSUME NEW t \in Threads, PoolHits(t) PROVE PoolInv' /\ EngineFits'
  <2>1. "language" \notin stale => engine[Cached(t)] = lang[t]
    BY <1>4, Mapped, NoneAssumption DEF PoolHits, Cached, PoolInv, LibInv
  <2> QED
    BY <1>4, <2>1 DEF PoolHits, Do, PoolInv, EngineFits, TypeOK, libraries, caches
<1>5. ASSUME NEW t \in Threads, PoolMisses(t) PROVE PoolInv' /\ EngineFits'
  BY <1>5 DEF PoolMisses, Do, PoolInv, EngineFits, TypeOK, libraries
<1>6. ASSUME NEW t \in Threads, NEW n \in EngineAddrs, PoolMakes(t, n) PROVE PoolInv' /\ EngineFits'
  <2>1. engine'[n] = lang[t] /\ lang[t] \in Langs /\ at[lang[t]] \in LangAddrs /\ lang' = lang /\ at' = at
    BY <1>6, Makes, Mapped DEF OpInv, PoolMakes
  <2>2. pool' = [pool EXCEPT ![at[lang[t]]] = n] /\ op' = [op EXCEPT ![t] = [at |-> "parse", engine |-> n]]
        /\ stale \subseteq stale'
    BY <1>6 DEF PoolMakes, New, Do
  <2>3. PoolInv'
    <3> SUFFICES ASSUME "language" \notin stale', NEW a \in LangAddrs, pool'[a] # None
                 PROVE  \E m \in Langs : at[m] = a /\ engine'[pool'[a]] = m
      BY <2>1 DEF PoolInv
    <3>1. CASE a = at[lang[t]]
      BY <2>1, <2>2, <3>1 DEF TypeOK
    <3>2. CASE a # at[lang[t]]
      <4>1. pool'[a] = pool[a] /\ pool[a] \in EngineAddrs
        BY <2>2, <3>2 DEF TypeOK
      <4>2. PICK m \in Langs : at[m] = a /\ engine[pool[a]] = m
        BY <2>2, <4>1 DEF PoolInv
      <4>3. pool[a] \in Owned(pool', op')
        BY <4>1, OwnedBy
      <4> QED
        BY <4>1, <4>2, <4>3, Survives, NoneAssumption
    <3> QED
      BY <3>1, <3>2
  <2>4. ASSUME "language" \notin stale', NEW u \in Threads, op'[u].at = "parse"
        PROVE  engine'[op'[u].engine] = lang'[u]
    <3>1. CASE u = t
      BY <2>1, <2>2, <3>1 DEF TypeOK
    <3>2. CASE u # t
      <4>1. op'[u] = op[u] /\ op[u].engine \in EngineAddrs /\ engine[op[u].engine] = lang[u]
        BY <2>2, <2>4, <3>2, OpTypes DEF TypeOK, EngineFits
      <4>2. op[u].engine \in Owned(pool', op') /\ lang[u] # None
        BY <2>4, <4>1, OwnedBy DEF OpInv
      <4> QED
        BY <2>1, <4>1, <4>2, Survives
    <3> QED
      BY <3>1, <3>2
  <2> QED
    BY <2>3, <2>4 DEF EngineFits
<1>7. ASSUME NEW t \in Threads, NEW n \in EngineAddrs, LocalEngine(t, n) PROVE PoolInv' /\ EngineFits'
  <2>1. \A e \in Owned(pool, op) \ {None} : engine'[e] = engine[e]
    BY <1>7, OwnedIsAddress DEF LocalEngine, New, OwnInv, TypeOK
  <2>2. \A u \in Threads : op'[u].at = "parse" => op'[u] = op[u]
    BY <1>7 DEF LocalEngine, Do, TypeOK
  <2>3. pool' = pool /\ at' = at /\ lang' = lang /\ stale \subseteq stale'
    BY <1>7 DEF LocalEngine, New, libraries
  <2>4. PoolInv'
    BY <2>1, <2>3, OwnedBy DEF PoolInv
  <2>5. \A u \in Threads : op[u].at = "parse" => op[u].engine \in Owned(pool, op) \ {None}
    BY OwnedBy, OpTypes, NoneAssumption DEF TypeOK
  <2> QED
    BY <2>1, <2>2, <2>3, <2>4, <2>5 DEF EngineFits
<1>8. ASSUME NEW t \in Threads, Parse(t) \/ DropTree(t) PROVE PoolInv' /\ EngineFits'
  <2>1. UNCHANGED <<libraries, pool, stale>> /\ op' = [op EXCEPT ![t] = Idle]
    BY <1>8, Ends
  <2>2. \A a \in LangAddrs : pool[a] # None => engine'[pool[a]] = engine[pool[a]]
    BY <2>1, Survives, OwnedBy DEF TypeOK, OwnInv
  <2>3. ASSUME NEW u \in Threads, op'[u].at = "parse"
        PROVE  op'[u] = op[u] /\ engine'[op[u].engine] = engine[op[u].engine]
    <3>1. op'[u] = op[u] /\ op[u].engine \in EngineAddrs
      BY <2>1, <2>3, OpTypes DEF TypeOK, Idle
    <3>2. op[u].engine \in Owned(pool', op') /\ op[u].engine \in Owned(pool, op)
      BY <2>3, <3>1, OwnedBy
    <3> QED
      BY <3>1, <3>2, Survives, NoneAssumption DEF OwnInv
  <2>4. PoolInv'
    BY <2>1, <2>2 DEF PoolInv, libraries
  <2> QED
    BY <2>1, <2>3, <2>4 DEF EngineFits, libraries
<1>9. ASSUME NEW t \in Threads, Query(t) PROVE PoolInv' /\ EngineFits'
  BY <1>9 DEF Query, PoolInv, EngineFits, libraries
<1>10. ASSUME UNCHANGED vars PROVE PoolInv' /\ EngineFits'
  BY <1>10 DEF vars, libraries, caches, PoolInv, EngineFits
<1> QED
  BY <1>1, <1>2, <1>3, <1>4, <1>5, <1>6, <1>7, <1>8, <1>9, <1>10, Steps

-----------------------------------------------------------------------------
(* Trees *)

LEMMA MissStep ==
  TypeOK /\ LibInv /\ OpInv /\ OwnInv /\ MissInv /\ [Next]_vars => MissInv'
<1> SUFFICES ASSUME TypeOK, LibInv, OpInv, OwnInv, MissInv, [Next]_vars, "misses" \notin stale'
             PROVE  MissInv'
  BY DEF MissInv
<1>0. "misses" \notin stale
  <2>1. \A t \in Threads : Load(t) => stale' = stale
    BY LoadMoves DEF Loads, caches
  <2> QED
    BY <2>1, Steps DEF Open, Drop, PoolHits, PoolMisses, PoolMakes, LocalEngine, New, Parse,
                       DropTree, Query, vars, caches
<1>1. ASSUME NEW t \in Threads, Load(t) PROVE MissInv'
  <2>1. UNCHANGED <<libraries, caches, tree>>
        /\ \E o \in Ops : op' = [op EXCEPT ![t] = o] /\ o.at \in Loading \cup {"idle"}
    BY <1>1, LoadMoves DEF Loads
  <2>2. op[t].at # "local"
    BY <1>1, LoadMoves DEF Loads, Loading
  <2>3. op'[t].at \notin {"make", "parse"} /\ \A u \in Threads \ {t} : op'[u] = op[u]
    BY <2>1 DEF TypeOK, Loading
  <2> QED
    BY <1>0, <2>1, <2>2, <2>3 DEF MissInv, Cached, libraries, caches
<1>2. ASSUME NEW t \in Threads, Open(t) \/ Drop(t) PROVE MissInv'
  <2>1. /\ op[t].at \in {"open", "idle"} /\ op' = [op EXCEPT ![t] = Idle]
        /\ pool' = pool /\ tree' = tree /\ \A u \in Threads \ {t} : lang'[u] = lang[u]
    BY <1>2 DEF Open, Drop, Do, TypeOK, Idle, caches
  <2>2. ASSUME NEW u \in Threads, op'[u].at = "make"
        PROVE  u # t /\ op[u].at = "make" /\ lang'[u] = lang[u] /\ at'[lang[u]] = at[lang[u]]
    <3>1. u # t /\ op[u].at = "make" /\ lang'[u] = lang[u] /\ lang[u] # None
      BY <2>1, <2>2 DEF TypeOK, Idle, OpInv
    <3>2. at[lang[u]] # None /\ lang[u] \in Langs
      BY <3>1, Mapped, NoneAssumption
    <3>3. Open(t) => at'[lang[u]] = at[lang[u]]
      BY <3>2 DEF Open, TypeOK
    <3>4. Drop(t) => at'[lang[u]] = at[lang[u]]
      <4> SUFFICES ASSUME Drop(t) PROVE at'[lang[u]] = at[lang[u]]
        OBVIOUS
      <4>1. CASE lang[u] # lang[t]
        BY <3>2, <4>1 DEF Drop, TypeOK
      <4>2. CASE lang[u] = lang[t]
        <5>1. at'[lang[u]] # None
          <6>1. PICK l \in Langs : l = lang[u]
            BY <3>2
          <6>2. u \in Holders(l)'
            BY <3>1, <6>1 DEF Holders
          <6>3. LibInv'
            BY LibStep
          <6> QED
            BY <6>1, <6>2, <6>3 DEF LibInv
        <5> QED
          BY <3>2, <5>1 DEF Drop, TypeOK
      <4> QED
        BY <4>1, <4>2
    <3> QED
      BY <1>2, <3>1, <3>3, <3>4
  <2>3. ASSUME NEW u \in Threads, op'[u].at = "parse" PROVE op'[u] = op[u]
    BY <2>1, <2>3 DEF TypeOK, Idle
  <2>4. op[t].at # "local" /\ \A u \in Threads \ {t} : op'[u] = op[u]
    BY <2>1 DEF TypeOK
  <2> QED
    BY <1>0, <2>1, <2>2, <2>3, <2>4 DEF MissInv, Cached
<1>3. ASSUME NEW t \in Threads, PoolHits(t) PROVE MissInv'
  <2>1. /\ op' = [op EXCEPT ![t] = [at |-> "parse", engine |-> Cached(t)]]
        /\ UNCHANGED <<libraries, pool, tree>> /\ tree[t] = None /\ at[lang[t]] \in LangAddrs
    BY <1>3, Mapped DEF PoolHits, Do, caches
  <2>2. \A u \in Threads : op'[u].at = "make" => op[u].at = "make"
    BY <2>1 DEF TypeOK
  <2>3. \A u \in Threads \ {t} : op'[u] = op[u]
    BY <2>1 DEF TypeOK
  <2>4. op'[t].at = "parse" /\ op'[t].engine = Cached(t)
    BY <2>1 DEF TypeOK
  <2> QED
    BY <1>0, <2>1, <2>2, <2>3, <2>4 DEF MissInv, Cached, libraries
<1>4. ASSUME NEW t \in Threads, PoolMisses(t) PROVE MissInv'
  <2>1. /\ op'[t].at = "make" /\ \A u \in Threads \ {t} : op'[u] = op[u]
        /\ UNCHANGED <<libraries, pool, tree>> /\ Cached(t) = None /\ tree[t] = None
        /\ \A u \in Threads : op[u].at = "make" => lang[u] # lang[t]
    BY <1>4 DEF PoolMisses, Do, TypeOK
  <2> QED
    BY <1>0, <2>1 DEF MissInv, Cached, libraries
<1>5. ASSUME NEW t \in Threads, NEW n \in EngineAddrs, PoolMakes(t, n) PROVE MissInv'
  <2>1. /\ op[t].at = "make" /\ op'[t].at = "parse" /\ op'[t].engine = n
        /\ \A u \in Threads \ {t} : op'[u] = op[u]
        /\ UNCHANGED <<libraries, tree>> /\ pool' = [pool EXCEPT ![at[lang[t]]] = n]
    BY <1>5 DEF PoolMakes, Do, TypeOK
  <2>2. tree[t] = None /\ lang[t] # None
    BY <2>1 DEF OpInv
  <2>3. at[lang[t]] \in LangAddrs /\ lang[t] \in Langs
    BY <2>2, Mapped
  <2>4. pool[at[lang[t]]] = None
    BY <1>0, <2>1 DEF MissInv, Cached
  <2>5. pool'[at[lang[t]]] = n /\ \A a \in LangAddrs : pool[a] # None => pool'[a] = pool[a]
    BY <2>1, <2>3, <2>4 DEF TypeOK
  <2>6. ASSUME NEW u \in Threads, op'[u].at = "make"
        PROVE  Cached(u)' = None /\ \A w \in Threads \ {u} : op'[w].at = "make" => lang[w] # lang[u]
    <3>1. u # t /\ op[u].at = "make" /\ lang[u] # lang[t]
      BY <1>0, <2>1, <2>6 DEF MissInv
    <3>2. at[lang[u]] \in LangAddrs /\ at[lang[u]] # None /\ lang[u] \in Langs
      BY <3>1, Mapped, NoneAssumption DEF OpInv
    <3>3. at[lang[u]] # at[lang[t]]
      BY <2>3, <3>1, <3>2 DEF LibInv
    <3>4. pool'[at[lang[u]]] = pool[at[lang[u]]]
      BY <2>1, <3>2, <3>3 DEF TypeOK
    <3>5. Cached(u)' = Cached(u) /\ Cached(u) = None
      BY <1>0, <2>1, <3>1, <3>4 DEF Cached, MissInv, libraries
    <3> QED
      BY <1>0, <2>1, <3>1, <3>5 DEF MissInv
  <2>7. ASSUME NEW u \in Threads, op'[u].at = "parse"
        PROVE  \E a \in LangAddrs : pool'[a] = op'[u].engine
    <3>1. CASE u = t
      BY <2>1, <2>3, <2>5, <3>1
    <3>2. CASE u # t
      <4>1. op'[u] = op[u] /\ op[u].engine \in EngineAddrs
        BY <2>1, <2>7, <3>2, OpTypes DEF TypeOK
      <4> QED
        BY <1>0, <2>5, <2>7, <4>1, NoneAssumption DEF MissInv
    <3> QED
      BY <3>1, <3>2
  <2>8. ASSUME NEW u \in Threads, tree[u] # None, op'[u].at # "local"
        PROVE  \E a \in LangAddrs : pool'[a] = tree[u].parent
    <3>1. u # t /\ op[u].at # "local" /\ tree[u].parent \in EngineAddrs
      BY <2>1, <2>2, <2>8 DEF TypeOK
    <3> QED
      BY <1>0, <2>5, <2>8, <3>1, NoneAssumption DEF MissInv
  <2> QED
    BY <2>1, <2>6, <2>7, <2>8 DEF MissInv, libraries
<1>6. ASSUME NEW t \in Threads, NEW n \in EngineAddrs, LocalEngine(t, n) PROVE MissInv'
  <2>1. /\ op'[t].at = "local" /\ \A u \in Threads \ {t} : op'[u] = op[u] /\ tree'[u] = tree[u]
        /\ UNCHANGED <<libraries, pool>>
    BY <1>6 DEF LocalEngine, Do, TypeOK
  <2> QED
    BY <1>0, <2>1 DEF MissInv, Cached, libraries
<1>7. ASSUME NEW t \in Threads, Parse(t) \/ DropTree(t) PROVE MissInv'
  <2>1. UNCHANGED <<libraries, pool>> /\ op' = [op EXCEPT ![t] = Idle]
    BY <1>7, Ends
  <2>2. op'[t].at = "idle" /\ \A u \in Threads \ {t} : op'[u] = op[u] /\ tree'[u] = tree[u]
    BY <1>7, <2>1 DEF Parse, DropTree, TypeOK, Idle
  <2>3. tree'[t] = None \/ (op[t].at = "parse" /\ tree'[t].parent = op[t].engine)
    BY <1>7 DEF Parse, DropTree, TypeOK
  <2> QED
    BY <1>0, <2>1, <2>2, <2>3 DEF MissInv, Cached, libraries
<1>8. ASSUME NEW t \in Threads, Query(t) PROVE MissInv'
  BY <1>0, <1>8 DEF Query, MissInv, Cached, libraries
<1>9. ASSUME UNCHANGED vars PROVE MissInv'
  BY <1>0, <1>9 DEF vars, libraries, caches, MissInv, Cached
<1> QED
  BY <1>1, <1>2, <1>3, <1>4, <1>5, <1>6, <1>7, <1>8, <1>9, Steps

LEMMA AliveStep ==
  TypeOK /\ OpInv /\ OwnInv /\ ParentAlive /\ [Next]_vars /\ TypeOK' /\ OpInv' /\ MissInv'
    => ParentAlive'
<1> SUFFICES ASSUME TypeOK, OpInv, OwnInv, ParentAlive, [Next]_vars, TypeOK', OpInv', MissInv',
                    "misses" \notin stale', NEW t \in Threads, tree'[t] # None
             PROVE  engine'[tree'[t].parent] = tree'[t].lang
  BY DEF ParentAlive
<1> DEFINE e == tree'[t].parent
<1>1. e \in EngineAddrs /\ tree'[t].lang \in Langs
  BY DEF TypeOK
<1>2. e \in Owned(pool', op')
  <2>1. \/ op'[t].at = "local" /\ op'[t].engine = e
        \/ \E a \in LangAddrs : pool'[a] = e
    BY DEF OpInv, MissInv
  <2> QED
    BY <2>1, OwnedBy
<1>3. CASE tree'[t] = tree[t]
  <2>1. "misses" \notin stale
    <3>1. \A u \in Threads : Load(u) => stale' = stale
      BY LoadMoves DEF Loads, caches
    <3> QED
      BY <3>1, Steps DEF Open, Drop, PoolHits, PoolMisses, PoolMakes, LocalEngine, New, Parse,
                         DropTree, Query, vars, caches
  <2>2. engine[e] = tree[t].lang /\ engine[e] # None
    BY <1>1, <1>3, <2>1, NoneAssumption DEF ParentAlive
  <2> QED
    BY <1>1, <1>2, <1>3, <2>2, Survives
<1>4. CASE op'[t].at = "local"
  BY <1>4 DEF OpInv
<1>5. CASE Parse(t)
  <2>1. e = op[t].engine /\ tree'[t].lang = engine[e] /\ op[t].at = "parse"
    BY <1>5 DEF Parse, TypeOK
  <2>2. engine[e] # None
    BY <1>1, <2>1, OwnedBy, NoneAssumption DEF OwnInv
  <2> QED
    BY <1>1, <1>2, <2>1, <2>2, Survives
<1>6. tree'[t] = tree[t] \/ op'[t].at = "local" \/ Parse(t)
  <2>1. ASSUME NEW u \in Threads, Load(u) PROVE tree' = tree
    BY <2>1, LoadMoves DEF Loads
  <2>2. ASSUME NEW u \in Threads, NEW n \in EngineAddrs, LocalEngine(u, n)
        PROVE  tree'[t] = tree[t] \/ op'[t].at = "local"
    BY <2>2 DEF LocalEngine, Do, TypeOK
  <2>3. ASSUME NEW u \in Threads, Parse(u) PROVE tree'[t] = tree[t] \/ Parse(t)
    BY <2>3 DEF Parse, TypeOK
  <2>4. ASSUME NEW u \in Threads, DropTree(u) PROVE tree'[t] = tree[t]
    BY <2>4 DEF DropTree, TypeOK
  <2> QED
    BY <2>1, <2>2, <2>3, <2>4, Steps
       DEF Open, Drop, PoolHits, PoolMisses, PoolMakes, Query, vars
<1> QED
  BY <1>3, <1>4, <1>5, <1>6

-----------------------------------------------------------------------------
(* Queries *)

LEMMA QueryStep == TypeOK /\ OpInv /\ QueryInv /\ [Next]_vars => QueryInv'
<1> SUFFICES ASSUME TypeOK, OpInv, QueryInv, [Next]_vars, "engine" \notin stale',
                    NEW e \in EngineAddrs, engine'[e] # None
             PROVE  query'[e] \in {None, engine'[e]}
  BY DEF QueryInv
<1>1. "engine" \notin stale
  <2>1. \A t \in Threads : Load(t) => stale' = stale
    BY LoadMoves DEF Loads, caches
  <2> QED
    BY <2>1, Steps DEF Open, Drop, PoolHits, PoolMisses, PoolMakes, LocalEngine, New, Parse,
                       DropTree, Query, vars, caches
<1>2. CASE UNCHANGED <<engine, query>>
  BY <1>1, <1>2 DEF QueryInv
<1>3. ASSUME NEW t \in Threads, NEW n \in EngineAddrs, PoolMakes(t, n) \/ LocalEngine(t, n)
      PROVE  query'[e] \in {None, engine'[e]}
  <2>1. query' = query /\ engine'[n] = lang[t] /\ (e # n => engine'[e] \in {engine[e], None})
    BY <1>3, Makes
  <2>2. query[n] \in {None, lang[t]}
    BY <1>3 DEF PoolMakes, LocalEngine, New
  <2> QED
    BY <1>1, <2>1, <2>2 DEF QueryInv
<1>4. ASSUME NEW t \in Threads, Parse(t) \/ DropTree(t) PROVE query'[e] \in {None, engine'[e]}
  BY <1>1, <1>4, Ends DEF QueryInv
<1>5. ASSUME NEW t \in Threads, Query(t) PROVE query'[e] \in {None, engine'[e]}
  BY <1>1, <1>5 DEF Query, QueryInv, TypeOK
<1>6. ASSUME NEW t \in Threads, Load(t) PROVE UNCHANGED <<engine, query>>
  BY <1>6, LoadMoves DEF Loads, caches
<1> QED
  BY <1>2, <1>3, <1>4, <1>5, <1>6, Steps DEF Open, Drop, PoolHits, PoolMisses, vars, caches

-----------------------------------------------------------------------------
(* The theorems *)

LEMMA Invariance == Spec => []IInv
<1>1. Init => IInv
  BY InitInv
<1>2. IInv /\ [Next]_vars => IInv'
  BY TypeStep, ListStep, LibStep, OpStep, OwnStep, PoolStep, MissStep, AliveStep, QueryStep DEF IInv
<1> QED
  BY <1>1, <1>2, PTL DEF Spec

\* Every variable of the loader, the pools and the threads keeps its type.
THEOREM TypeCorrect == Spec => []TypeOK
<1>1. IInv => TypeOK
  BY DEF IInv
<1> QED
  BY <1>1, Invariance, PTL

\* TSLoader::get misses a library that is there only where a walk, its own first
\* one or another's, listed the directory while it was cloned and not built.
THEOREM Found == Spec => LibraryFound
<1> DEFINE Finds ==
      \A t \in Threads :
        op[t].at # "missing" /\ op'[t].at = "missing"
          => dir[op[t].lang] # "built" \/ op[t].lang \in early'
<1>1. IInv /\ [Next]_vars => [Finds]_vars
  BY MissesFound DEF IInv
<1> QED
  BY <1>1, Invariance, PTL DEF Spec, LibraryFound

\* dlopen and dlclose are balanced: a library that a thread holds is mapped,
\* and alone at its address, however many threads open and drop it.
THEOREM Held == Spec => []LibraryHeld
<1>1. IInv => LibraryHeld
  <2> SUFFICES ASSUME IInv, NEW t \in Threads, lang[t] # None
               PROVE  /\ at[lang[t]] # None
                      /\ \A l \in Langs \ {lang[t]} : at[l] # at[lang[t]]
    BY DEF LibraryHeld
  <2>1. lang[t] \in Langs /\ at[lang[t]] # None
    BY Mapped, NoneAssumption DEF IInv
  <2> QED
    BY <2>1 DEF IInv, LibInv
<1> QED
  BY <1>1, Invariance, PTL

\* TSEnginePool::get hands out an engine of the language asked for, unless a
\* library went while the pool kept its engine.
THEOREM EnginesFit == Spec => []EngineFits
<1>1. IInv => EngineFits
  BY DEF IInv
<1> QED
  BY <1>1, Invariance, PTL

\* A tree's engine lives as long as the tree, unless two threads have missed
\* the pool at once.
THEOREM ParentsAlive == Spec => []ParentAlive
<1>1. IInv => ParentAlive
  BY DEF IInv
<1> QED
  BY <1>1, Invariance, PTL

\* TSQueryCache keeps, for the engine of a tree, queries of its language,
\* unless an engine was placed where one of another language had been.
THEOREM QueriesFit == Spec => []QueryFits
<1>1. IInv => QueryFits
  <2> SUFFICES ASSUME IInv, NEW t \in Threads, tree[t] # None, stale \cap {"misses", "engine"} = {}
               PROVE  Kept(tree[t].parent) \in {None, tree[t].lang}
    BY DEF QueryFits
  <2>1. tree[t].parent \in EngineAddrs /\ tree[t].lang \in Langs
    BY DEF IInv, TypeOK
  <2>2. engine[tree[t].parent] = tree[t].lang
    BY DEF IInv, ParentAlive
  <2> QED
    BY <2>1, <2>2, NoneAssumption DEF IInv, QueryInv, Kept
<1> QED
  BY <1>1, Invariance, PTL

======================================================================================================
