--------------------------- MODULE CacheStoreProofs ---------------------------
(* Theorems about CacheStore, for every number of processes, originals,    *)
(* references, limits, retentions and faults.                              *)
EXTENDS CacheStore, FoldProofs, TLAPS

(* The sizes and the listing that a sweep records are of the right type.   *)
LEMMA SizeType ==
    ASSUME TypeOK, NEW r \in Refs, zst[r] # NoFile
    PROVE  Size(r) \in Nat
  BY CacheAssumption DEF TypeOK, Size, Files

(* The history variables keep their types however another process acts.    *)
LEMMA HistoryType ==
    ASSUME TypeOK, NEW p, NEW r, NEW ev \in SUBSET Event
    PROVE  Taken(p, r) \in [Procs -> BOOLEAN] /\ Stir(p, ev) \in [Procs -> SUBSET Event]
  BY DEF TypeOK, Taken, Stir

LEMMA RemoveZstType ==
    ASSUME TypeOK, NEW p, NEW r \in Refs, RemoveZst(p, r)
    PROVE  /\ zst' \in [Refs -> Files] /\ meta' \in [Refs -> Files] /\ mtime' \in [Refs -> Nat]
           /\ lost' \in [Procs -> BOOLEAN] /\ seen' \in [Procs -> SUBSET Event]
  <1>1. {"removed"} \in SUBSET Event  BY DEF Event
  <1>2. Taken(p, r) \in [Procs -> BOOLEAN] /\ Stir(p, {"removed"}) \in [Procs -> SUBSET Event]
    BY <1>1, HistoryType
  <1>. QED  BY <1>2 DEF RemoveZst, TypeOK, Files

LEMMA RemoveMetaType ==
    ASSUME TypeOK, NEW p, NEW r \in Refs, RemoveMeta(p, r)
    PROVE  /\ zst' \in [Refs -> Files] /\ meta' \in [Refs -> Files] /\ mtime' \in [Refs -> Nat]
           /\ lost' \in [Procs -> BOOLEAN] /\ seen' \in [Procs -> SUBSET Event]
  <1>1. {"removed"} \in SUBSET Event  BY DEF Event
  <1>2. Taken(p, r) \in [Procs -> BOOLEAN] /\ Stir(p, {"removed"}) \in [Procs -> SUBSET Event]
    BY <1>1, HistoryType
  <1>. QED  BY <1>2 DEF RemoveMeta, TypeOK, Files

LEMMA GotoType ==
    ASSUME TypeOK, NEW p, NEW label \in Labels, Goto(p, label)
    PROVE  pc' \in [Procs -> Labels]
  BY DEF TypeOK, Goto

LEMMA StirType ==
    ASSUME TypeOK, NEW p
    PROVE  /\ Stir(p, {"wrote"}) \in [Procs -> SUBSET Event]
           /\ Stir(p, {"removed"}) \in [Procs -> SUBSET Event]
  <1>1. {"wrote"} \in SUBSET Event /\ {"removed"} \in SUBSET Event
    BY DEF Event
  <1>. QED  BY <1>1, HistoryType

THEOREM Typing == Spec => []TypeOK
<1>1. Init => TypeOK
  BY CacheAssumption DEF Init, TypeOK, Files, Labels
<1>2. TypeOK /\ [Next]_vars => TypeOK'
  <2>. SUFFICES ASSUME TypeOK, [Next]_vars PROVE TypeOK'
    OBVIOUS
  <2>1. ASSUME NEW p \in Procs, NEW b \in Originals, HookBegin(p, b) PROVE TypeOK'
    BY <2>1, CacheAssumption, GotoType DEF HookBegin, TypeOK, files, sweep, Labels
  <2>2. ASSUME NEW p \in Procs, PutZst(p) PROVE TypeOK'
    <3>1. zst' \in [Refs -> Files] /\ mtime' \in [Refs -> Nat]
      BY <2>2, CacheAssumption DEF PutZst, TypeOK, Files, Contents
    <3>2. pc' \in [Procs -> Labels]
      BY <2>2, GotoType DEF PutZst, Labels
    <3>3. seen' \in [Procs -> SUBSET Event]
      BY <2>2, StirType DEF PutZst
    <3>4. lost' \in [Procs -> BOOLEAN]
      BY <2>2, Zenon DEF PutZst, TypeOK
    <3>. QED  BY <2>2, <3>1, <3>2, <3>3, <3>4 DEF PutZst, TypeOK, sweep
  <2>3. ASSUME NEW p \in Procs, PutMeta(p) PROVE TypeOK'
    <3>1. meta' \in [Refs -> Files]
      BY <2>3, CacheAssumption DEF PutMeta, TypeOK, Files, Contents
    <3>2. pc' \in [Procs -> Labels]
      BY <2>3, GotoType DEF PutMeta, Labels
    <3>3. seen' \in [Procs -> SUBSET Event]
      BY <2>3, StirType DEF PutMeta
    <3>. QED  BY <2>3, <3>1, <3>2, <3>3 DEF PutMeta, TypeOK, sweep
  <2>4. ASSUME NEW p \in Procs, PutFail(p) PROVE TypeOK'
    BY <2>4, CacheAssumption, GotoType DEF PutFail, Jump, TypeOK, files, sweep, Labels
  <2>5. ASSUME NEW p \in Procs, Emit(p) PROVE TypeOK'
    BY <2>5, CacheAssumption, GotoType DEF Emit, TypeOK, files, sweep, Labels
  <2>6. ASSUME NEW p \in Procs, PruneBegin(p) PROVE TypeOK'
    BY <2>6, CacheAssumption, GotoType DEF PruneBegin, Jump, TypeOK, files, sweep, Labels
  <2>7. ASSUME NEW p \in Procs, PruneList(p) PROVE TypeOK'
    <3>1. {Zst(r) : r \in {r \in Refs : zst[r] # NoFile}} \in SUBSET Name
      BY <2>7, SMT DEF Zst, Name
    <3>2. names' \in [Procs -> SUBSET Name]
      BY <2>7, <3>1 DEF PruneList, TypeOK
    <3>3. pc' \in [Procs -> Labels]
      BY <2>7, GotoType DEF PruneList, Labels
    <3>. QED  BY <2>7, <3>1, <3>2, <3>3 DEF PruneList, TypeOK, files
  <2>8. ASSUME NEW p \in Procs, PruneEnd(p) PROVE TypeOK'
    BY <2>8, CacheAssumption, GotoType DEF PruneEnd, Jump, TypeOK, files, sweep, Labels
  <2>9. ASSUME NEW p \in Procs, PruneFail(p) PROVE TypeOK'
    BY <2>9, CacheAssumption, GotoType DEF PruneFail, Jump, TypeOK, files, sweep, Labels
  <2>10. ASSUME NEW p \in Procs, NEW x \in names[p], PruneScan(p, x) PROVE TypeOK'
    <3>1. x \in Name /\ x[1] \in Refs
      BY DEF TypeOK, Name
    <3>2. names' \in [Procs -> SUBSET Name]
      BY <2>10 DEF PruneScan, TypeOK
    <3>3. CASE zst[x[1]] = NoFile
      <4>1. pc' \in [Procs -> Labels]
        BY <2>10, <3>3, GotoType DEF PruneScan, Labels
      <4>. QED  BY <2>10, <3>2, <3>3, <4>1 DEF PruneScan, TypeOK, files
    <3>4. CASE zst[x[1]] # NoFile
      <4>. DEFINE entry == [ref |-> x[1], size |-> Size(x[1]), created |-> mtime[x[1]]]
      <4>1. Size(x[1]) \in Nat
        BY <3>1, <3>4, SizeType
      <4>2. entry \in Item
        BY <3>1, <4>1 DEF TypeOK, Item
      <4>3. /\ items' = [items EXCEPT ![p] = @ \cup {entry}]
            /\ total' = [total EXCEPT ![p] = @ + Size(x[1])] /\ UNCHANGED pc
        BY <2>10, <3>4 DEF PruneScan
      <4>4. items' \in [Procs -> SUBSET Item] /\ total' \in [Procs -> Int]
        BY <4>1, <4>2, <4>3 DEF TypeOK
      <4>. QED  BY <2>10, <3>2, <4>3, <4>4 DEF PruneScan, TypeOK, files
    <3>. QED  BY <3>3, <3>4
  <2>11. ASSUME NEW p \in Procs, NEW x \in items[p], PruneKeep(p, x) PROVE TypeOK'
    BY <2>11, CacheAssumption, GotoType DEF PruneKeep, TypeOK, files, sweep, Labels
  <2>12. ASSUME NEW p \in Procs, NEW x \in items[p], PruneDropZst(p, x) PROVE TypeOK'
    <3>1. x.ref \in Refs
      BY DEF TypeOK, Item
    <3>2. pc' \in [Procs -> Labels]
      BY <2>12, GotoType DEF PruneDropZst, Labels
    <3>. QED  BY <2>12, <3>1, <3>2, RemoveZstType DEF PruneDropZst, TypeOK, sweep
  <2>13. ASSUME NEW p \in Procs, NEW x \in items[p], PruneDropMeta(p, x) PROVE TypeOK'
    <3>1. x.ref \in Refs /\ x.size \in Nat
      BY DEF TypeOK, Item
    <3>2. pc' \in [Procs -> Labels]
      BY <2>13, GotoType DEF PruneDropMeta, Labels
    <3>3. items' \in [Procs -> SUBSET Item] /\ total' \in [Procs -> Int]
      BY <2>13, <3>1 DEF PruneDropMeta, TypeOK
    <3>. QED  BY <2>13, <3>1, <3>2, <3>3, RemoveMetaType DEF PruneDropMeta, TypeOK
  <2>14. ASSUME NEW p \in Procs, ClearBegin(p) PROVE TypeOK'
    <3>1. {Zst(r) : r \in {r \in Refs : zst[r] # NoFile}} \in SUBSET Name
      BY <2>14, SMT DEF Zst, Name
    <3>2. {Json(r) : r \in {r \in Refs : meta[r] # NoFile}} \in SUBSET Name
      BY <2>14, SMT DEF Json, Name
    <3>3. names' \in [Procs -> SUBSET Name]
      BY <2>14, <3>1, <3>2 DEF ClearBegin, TypeOK
    <3>4. pc' \in [Procs -> Labels]
      BY <2>14, GotoType DEF ClearBegin, Labels
    <3>. QED  BY <2>14, <3>1, <3>2, <3>3, <3>4 DEF ClearBegin, TypeOK, files
  <2>15. ASSUME NEW p \in Procs, ClearEnd(p) PROVE TypeOK'
    BY <2>15, CacheAssumption, GotoType DEF ClearEnd, Jump, TypeOK, files, sweep, Labels
  <2>16. ASSUME NEW p \in Procs, ClearFail(p) PROVE TypeOK'
    BY <2>16, CacheAssumption, GotoType DEF ClearFail, Jump, TypeOK, files, sweep, Labels
  <2>17. ASSUME NEW p \in Procs, NEW x \in names[p], ClearRemove(p, x) PROVE TypeOK'
    <3>1. x[1] \in Refs
      BY DEF TypeOK, Name
    <3>2. pc' \in [Procs -> Labels]
      BY <2>17, GotoType DEF ClearRemove, TypeOK, Labels
    <3>3. names' \in [Procs -> SUBSET Name]
      BY <2>17 DEF ClearRemove, TypeOK
    <3>4. /\ zst' \in [Refs -> Files] /\ meta' \in [Refs -> Files] /\ mtime' \in [Refs -> Nat]
          /\ lost' \in [Procs -> BOOLEAN] /\ seen' \in [Procs -> SUBSET Event]
      BY <2>17, <3>1, RemoveZstType, RemoveMetaType DEF ClearRemove, TypeOK, files
    <3>. QED  BY <2>17, <3>2, <3>3, <3>4 DEF ClearRemove, TypeOK
  <2>18. ASSUME NEW p \in Procs, NEW r \in Refs \cup {NoRef}, GetBegin(p, r) PROVE TypeOK'
    BY <2>18, CacheAssumption, GotoType DEF GetBegin, TypeOK, files, sweep, Labels
  <2>19. ASSUME NEW p \in Procs, GetOpen(p) PROVE TypeOK'
    <3>1. body' \in [Procs -> Originals \cup {NoFile}]
      BY <2>19, CacheAssumption DEF GetOpen, Acceptable, TypeOK
    <3>2. pc' \in [Procs -> Labels]
      BY <2>19, GotoType DEF GetOpen, Labels
    <3>. QED  BY <2>19, <3>1, <3>2 DEF GetOpen, TypeOK, files, sweep
  <2>20. ASSUME NEW p \in Procs, GetMeta(p) PROVE TypeOK'
    BY <2>20, CacheAssumption, GotoType DEF GetMeta, Jump, TypeOK, files, sweep, Labels
  <2>21. ASSUME NEW p \in Procs, GetFail(p) PROVE TypeOK'
    BY <2>21, CacheAssumption, GotoType DEF GetFail, Jump, TypeOK, files, sweep, Labels
  <2>22. ASSUME NEW p \in Procs, Forget(p) PROVE TypeOK'
    BY <2>22, CacheAssumption, GotoType DEF Forget, TypeOK, files, sweep, Labels
  <2>23. ASSUME Tick PROVE TypeOK'
    <3>1. seen' \in [Procs -> SUBSET Event]
      BY <2>23 DEF Tick, TypeOK, Event
    <3>2. now' \in Nat
      BY <2>23, CacheAssumption DEF Tick, TypeOK
    <3>. QED  BY <2>23, <3>1, <3>2 DEF Tick, TypeOK, files, sweep
  <2>24. ASSUME NEW r \in Refs, Damage(r) PROVE TypeOK'
    <3>1. seen' \in [Procs -> SUBSET Event]
      BY <2>24 DEF Damage, TypeOK, Event
    <3>2. lost' \in [Procs -> BOOLEAN]
      BY <2>24, Zenon DEF Damage, TypeOK
    <3>3. zst' \in [Refs -> Files] /\ meta' \in [Refs -> Files] /\ mtime' \in [Refs -> Nat]
      BY <2>24 DEF Damage, TypeOK, Files
    <3>. QED  BY <2>24, <3>1, <3>2, <3>3 DEF Damage, TypeOK, sweep
  <2>26. ASSUME NEW p \in Procs, TooLarge(p) PROVE TypeOK'
    BY <2>26, CacheAssumption, GotoType DEF TooLarge, Jump, TypeOK, files, sweep, Labels
  <2>25. CASE UNCHANGED vars
    BY <2>25 DEF vars, files, sweep, TypeOK
  <2>. QED
    BY <2>1, <2>2, <2>3, <2>4, <2>5, <2>6, <2>7, <2>8, <2>9, <2>10, <2>11, <2>12, <2>13, <2>14, <2>15, <2>16, <2>17, <2>18, <2>19, <2>20, <2>21, <2>22, <2>23, <2>24, <2>25, <2>26
       DEF Next, Start, Proceed, Fail, HookStep, SweepStep, ClearStep, GetStep, Return, Crash, Procs
<1>. QED  BY <1>1, <1>2, PTL DEF Spec

-----------------------------------------------------------------------------
(* A hook or a reader whose own variables and whose view of the files do   *)
(* not change keeps what it knows.                                         *)
LEMMA HookFrame ==
    ASSUME NEW q \in Hooks, HookKeeps(q), UNCHANGED <<zst, meta>>,
           pc'[q] = pc[q], ref'[q] = ref[q], body'[q] = body[q],
           items'[q] = items[q], lost'[q] = lost[q]
    PROVE  HookKeeps(q)'
  BY DEF HookKeeps, Oldest

LEMMA ReaderFrame ==
    ASSUME NEW q \in Readers, ReaderKnows(q), UNCHANGED <<zst, meta>>,
           pc'[q] = pc[q], ref'[q] = ref[q], body'[q] = body[q], lost'[q] = lost[q]
    PROVE  ReaderKnows(q)'
  BY DEF ReaderKnows, Held, Intact, Acceptable, ReadMax

(* Writing an entry takes nothing from anybody.                            *)
LEMMA WriteKeeps ==
    ASSUME TypeOK, NEW q \in Hooks, HookKeeps(q), NEW b \in Originals,
           pc'[q] = pc[q], ref'[q] = ref[q], body'[q] = body[q],
           items'[q] = items[q], lost'[q] = lost[q],
           \/ zst' = [zst EXCEPT ![Ref[b]] = b] /\ UNCHANGED meta
           \/ meta' = [meta EXCEPT ![Ref[b]] = b] /\ UNCHANGED zst
    PROVE  HookKeeps(q)'
  BY CacheAssumption DEF TypeOK, HookKeeps, Oldest, Stored

LEMMA WriteHolds ==
    ASSUME TypeOK, NEW b \in Originals,
           \/ zst' = [zst EXCEPT ![Ref[b]] = b] /\ UNCHANGED meta
           \/ meta' = [meta EXCEPT ![Ref[b]] = b] /\ UNCHANGED zst
    PROVE  Held' \in {Held, Held \cup {Ref[b]}}
  <1>1. \A r \in Refs : Intact(r) => Intact(r)'
    BY CacheAssumption DEF TypeOK, Intact
  <1>2. \A r \in Refs \ {Ref[b]} : Intact(r)' => Intact(r)
    BY CacheAssumption DEF TypeOK, Intact
  <1>3. Held \subseteq Held' /\ Held' \subseteq Held \cup {Ref[b]}
    BY <1>1, <1>2 DEF Held
  <1>. QED  BY <1>3

LEMMA WriteKnows ==
    ASSUME TypeOK, NEW q \in Readers, ReaderKnows(q), NEW b \in Originals,
           pc'[q] = pc[q], ref'[q] = ref[q], body'[q] = body[q], lost'[q] = lost[q],
           \/ zst' = [zst EXCEPT ![Ref[b]] = b] /\ UNCHANGED meta
           \/ meta' = [meta EXCEPT ![Ref[b]] = b] /\ UNCHANGED zst
    PROVE  ReaderKnows(q)'
  <1>1. Held \subseteq Held'
    BY WriteHolds
  <1>. QED  BY <1>1 DEF ReaderKnows, Acceptable, ReadMax

(* Removing a file of r costs everybody else who relies on r its trust.    *)
LEMMA RemoveHolds ==
    ASSUME TypeOK, NEW p, NEW r \in Refs, RemoveZst(p, r) \/ RemoveMeta(p, r)
    PROVE  Held' = Held \ {r}
  <1>1. \A s \in Refs \ {r} : Intact(s)' <=> Intact(s)
    BY DEF TypeOK, Intact, RemoveZst, RemoveMeta
  <1>2. ~Intact(r)'
    BY CacheAssumption DEF TypeOK, Intact, RemoveZst, RemoveMeta, Contents
  <1>. QED  BY <1>1, <1>2 DEF Held

LEMMA RemoveKeeps ==
    ASSUME TypeOK, NEW p, NEW r \in Refs, RemoveZst(p, r) \/ RemoveMeta(p, r),
           NEW q \in Hooks, HookKeeps(q), q # p \/ ref[q] # r,
           pc'[q] = pc[q], ref'[q] = ref[q], body'[q] = body[q], items'[q] = items[q]
    PROVE  HookKeeps(q)'
  <1>1. lost'[q] = (lost[q] \/ (q # p /\ ref[q] = r))
    BY DEF RemoveZst, RemoveMeta, Taken, Procs
  <1>2. CASE ref[q] = r
    BY <1>1, <1>2 DEF HookKeeps, Oldest
  <1>3. CASE ref[q] # r
    <2>1. lost'[q] = lost[q]
      BY <1>1, <1>3 DEF TypeOK, Procs
    <2>2. ref[q] \in Refs => zst'[ref[q]] = zst[ref[q]] /\ meta'[ref[q]] = meta[ref[q]]
      BY <1>3 DEF RemoveZst, RemoveMeta, TypeOK
    <2>3. pc[q] \in {"putMeta"} \cup Stored => ref[q] \in Refs
      BY CacheAssumption DEF HookKeeps
    <2>. QED  BY <2>1, <2>2, <2>3 DEF HookKeeps, Oldest, Stored
  <1>. QED  BY <1>2, <1>3

LEMMA RemoveKnows ==
    ASSUME TypeOK, NEW p, NEW r \in Refs, RemoveZst(p, r) \/ RemoveMeta(p, r),
           NEW q \in Readers, ReaderKnows(q), q # p,
           pc'[q] = pc[q], ref'[q] = ref[q], body'[q] = body[q]
    PROVE  ReaderKnows(q)'
  <1>1. lost'[q] = (lost[q] \/ ref[q] = r)
    BY DEF RemoveZst, RemoveMeta, Taken, Procs
  <1>2. Held' = Held \ {r}
    BY RemoveHolds
  <1>. QED  BY <1>1, <1>2 DEF ReaderKnows, Acceptable, ReadMax

LEMMA DamageKeeps ==
    ASSUME TypeOK, NEW r \in Refs, Damage(r), NEW q \in Hooks, HookKeeps(q)
    PROVE  HookKeeps(q)'
  <1>1. lost'[q] = (lost[q] \/ ref[q] = r)
    BY DEF Damage, Procs
  <1>2. UNCHANGED <<pc, ref, body, items>>
    BY DEF Damage, sweep
  <1>3. CASE ref[q] = r
    BY <1>1, <1>2, <1>3 DEF HookKeeps, Oldest
  <1>4. CASE ref[q] # r
    <2>1. lost'[q] = lost[q]
      BY <1>1, <1>4 DEF TypeOK, Procs
    <2>2. ref[q] \in Refs => zst'[ref[q]] = zst[ref[q]] /\ meta'[ref[q]] = meta[ref[q]]
      BY <1>4 DEF Damage, TypeOK
    <2>3. pc[q] \in {"putMeta"} \cup Stored => ref[q] \in Refs
      BY CacheAssumption DEF HookKeeps
    <2>. QED  BY <1>2, <2>1, <2>2, <2>3 DEF HookKeeps, Oldest, Stored
  <1>. QED  BY <1>3, <1>4

LEMMA DamageHolds ==
    ASSUME TypeOK, NEW r \in Refs, Damage(r)
    PROVE  Held' \in {Held \ {r}, Held \cup {r}}
  <1>1. \A s \in Refs \ {r} : Intact(s)' <=> Intact(s)
    BY DEF TypeOK, Intact, Damage
  <1>2. CASE Intact(r)'
    BY <1>1, <1>2 DEF Held
  <1>3. CASE ~Intact(r)'
    BY <1>1, <1>3 DEF Held
  <1>. QED  BY <1>2, <1>3

LEMMA DamageKnows ==
    ASSUME TypeOK, NEW r \in Refs, Damage(r), NEW q \in Readers, ReaderKnows(q)
    PROVE  ReaderKnows(q)'
  <1>1. lost'[q] = (lost[q] \/ ref[q] = r) /\ UNCHANGED <<pc, ref, body>>
    BY DEF Damage, Procs
  <1>2. Held \ {r} \subseteq Held'
    BY DamageHolds
  <1>. QED  BY <1>1, <1>2 DEF ReaderKnows, Acceptable, ReadMax

-----------------------------------------------------------------------------
LEMMA InitStoreInv == Init => StoreInv
  BY CacheAssumption DEF Init, StoreInv, TypeOK, HookKeeps, ReaderKnows, Stored,
     Files, Labels, Procs

(* One step per action; the steps of a hook's own sweep never touch the    *)
(* reference it keeps.                                                     *)
LEMMA HookKeepsStep ==
    ASSUME StoreInv, TypeOK', [Next]_vars, NEW q \in Hooks
    PROVE  HookKeeps(q)'
  <1>. TypeOK /\ HookKeeps(q) /\ q \in Procs
    BY DEF StoreInv, Procs
  <1>1. ASSUME NEW p \in Hooks, NEW b \in Originals, HookBegin(p, b) PROVE HookKeeps(q)'
    BY <1>1, HookFrame, CacheAssumption DEF HookBegin, TypeOK, HookKeeps, Goto, Oldest, Stored, Procs, files, sweep
  <1>2. ASSUME NEW p \in Hooks, PutZst(p) PROVE HookKeeps(q)'
    <2>1. body[p] \in Originals /\ ref[p] = Ref[body[p]]
      BY <1>2 DEF PutZst, StoreInv, HookKeeps
    <2>2. CASE q = p
      BY <1>2, <2>1, <2>2, CacheAssumption DEF PutZst, TypeOK, HookKeeps, Goto, Stored
    <2>3. CASE q # p
      <3>1. /\ pc'[q] = pc[q] /\ ref'[q] = ref[q] /\ body'[q] = body[q]
            /\ items'[q] = items[q] /\ lost'[q] = lost[q]
        BY <1>2, <2>3 DEF PutZst, Goto, TypeOK, sweep
      <3>. QED  BY <1>2, <2>1, <3>1, WriteKeeps DEF PutZst
    <2>. QED  BY <2>2, <2>3
  <1>3. ASSUME NEW p \in Hooks, PutMeta(p) PROVE HookKeeps(q)'
    <2>1. body[p] \in Originals /\ ref[p] = Ref[body[p]]
      BY <1>3 DEF PutMeta, StoreInv, HookKeeps
    <2>2. CASE q = p
      BY <1>3, <2>1, <2>2, CacheAssumption DEF PutMeta, TypeOK, HookKeeps, Goto, Stored
    <2>3. CASE q # p
      <3>1. /\ pc'[q] = pc[q] /\ ref'[q] = ref[q] /\ body'[q] = body[q]
            /\ items'[q] = items[q] /\ lost'[q] = lost[q]
        BY <1>3, <2>3 DEF PutMeta, Goto, TypeOK, sweep
      <3>. QED  BY <1>3, <2>1, <3>1, WriteKeeps DEF PutMeta
    <2>. QED  BY <2>2, <2>3
  <1>4. ASSUME NEW p \in Hooks, PutFail(p) PROVE HookKeeps(q)'
    BY <1>4, HookFrame, CacheAssumption DEF PutFail, Jump, TypeOK, HookKeeps, Goto, Oldest, Stored, Procs, files, sweep
  <1>5. ASSUME NEW p \in Hooks, Emit(p) PROVE HookKeeps(q)'
    BY <1>5, HookFrame, CacheAssumption DEF Emit, TypeOK, HookKeeps, Goto, Oldest, Stored, Procs, files, sweep
  <1>6. ASSUME NEW p \in Pruners, PruneBegin(p) PROVE HookKeeps(q)'
    BY <1>6, HookFrame, CacheAssumption DEF PruneBegin, Jump, TypeOK, HookKeeps, Goto, Oldest, Stored, Procs, files, sweep
  <1>7. ASSUME NEW p \in Hooks \cup Pruners, PruneList(p) PROVE HookKeeps(q)'
    BY <1>7, HookFrame, CacheAssumption DEF PruneList, TypeOK, HookKeeps, Goto, Oldest, Stored, Procs, files, sweep
  <1>8. ASSUME NEW p \in Hooks \cup Pruners, PruneEnd(p) PROVE HookKeeps(q)'
    BY <1>8, HookFrame, CacheAssumption DEF PruneEnd, Jump, TypeOK, HookKeeps, Goto, Oldest, Stored, Procs, files, sweep
  <1>9. ASSUME NEW p \in Hooks \cup Pruners, PruneFail(p) PROVE HookKeeps(q)'
    BY <1>9, HookFrame, CacheAssumption DEF PruneFail, Jump, TypeOK, HookKeeps, Goto, Oldest, Stored, Procs, files, sweep
  <1>10. ASSUME NEW p \in Hooks \cup Pruners, NEW x \in names[p], PruneScan(p, x) PROVE HookKeeps(q)'
    BY <1>10, HookFrame, CacheAssumption DEF PruneScan, TypeOK, HookKeeps, Goto, Oldest, Stored, Procs, files, sweep
  <1>11. ASSUME NEW p \in Hooks \cup Pruners, NEW x \in items[p], PruneKeep(p, x) PROVE HookKeeps(q)'
    BY <1>11, HookFrame, CacheAssumption DEF PruneKeep, TypeOK, HookKeeps, Goto, Oldest, Stored, Procs, files, sweep
  <1>12. ASSUME NEW p \in Hooks \cup Pruners, NEW x \in items[p], PruneDropZst(p, x) PROVE HookKeeps(q)'
    <2>1. x.ref \in Refs /\ x.ref # ref[p]
      BY <1>12 DEF PruneDropZst, Doomed, TypeOK, Item, Procs
    <2>2. CASE q # p
      <3>1. pc'[q] = pc[q] /\ ref'[q] = ref[q] /\ body'[q] = body[q] /\ items'[q] = items[q]
        BY <1>12, <2>2 DEF PruneDropZst, Goto, TypeOK, sweep
      <3>. QED  BY <1>12, <2>1, <2>2, <3>1, RemoveKeeps DEF PruneDropZst
    <2>3. CASE q = p
      <3>1. /\ pc[q] = "sweep" /\ pc'[q] = "dropMeta"
            /\ UNCHANGED <<ref, body, items, meta>>
        BY <1>12, <2>3 DEF PruneDropZst, RemoveZst, Goto, TypeOK, sweep
      <3>2. lost'[q] = lost[q]
        BY <1>12, <2>3 DEF PruneDropZst, RemoveZst, Taken, TypeOK
      <3>3. ref[q] \in Refs => zst'[ref[q]] = zst[ref[q]]
        BY <1>12, <2>1, <2>3 DEF PruneDropZst, RemoveZst, TypeOK
      <3>4. ref[q] \in Refs
        BY <3>1, CacheAssumption DEF HookKeeps, Stored
      <3>5. ASSUME NEW y \in items[q], Oldest(y, items[q]) PROVE y.ref # ref[q]
        <4>1. Oldest(x, items[q])
          BY <1>12, <2>3 DEF PruneDropZst, Turn
        <4>2. x \in Item /\ y \in Item /\ x \in items[q]
          BY <2>3 DEF TypeOK
        <4>3. /\ x.ref \in Nat /\ y.ref \in Nat
              /\ x.created \in Nat /\ y.created \in Nat
          BY <4>2, CacheAssumption DEF Item
        <4>4. /\ x.created < y.created \/ (x.created = y.created /\ x.ref <= y.ref)
              /\ y.created < x.created \/ (y.created = x.created /\ y.ref <= x.ref)
          BY <3>5, <4>1, <4>2 DEF Oldest
        <4>5. y.ref = x.ref
          BY <4>3, <4>4
        <4>. QED  BY <2>1, <2>3, <4>5
      <3>. QED  BY <3>1, <3>2, <3>3, <3>4, <3>5 DEF HookKeeps, Stored, Oldest
    <2>. QED  BY <2>2, <2>3
  <1>13. ASSUME NEW p \in Hooks \cup Pruners, NEW x \in items[p], PruneDropMeta(p, x) PROVE HookKeeps(q)'
    <2>1. x.ref \in Refs /\ Oldest(x, items[p]) /\ pc[p] = "dropMeta"
      BY <1>13 DEF PruneDropMeta, Turn, TypeOK, Item
    <2>2. CASE q # p
      <3>1. pc'[q] = pc[q] /\ ref'[q] = ref[q] /\ body'[q] = body[q] /\ items'[q] = items[q]
        BY <1>13, <2>2 DEF PruneDropMeta, Goto, TypeOK
      <3>. QED  BY <1>13, <2>1, <2>2, <3>1, RemoveKeeps DEF PruneDropMeta
    <2>3. CASE q = p
      <3>1. x.ref # ref[q]
        BY <2>1, <2>3 DEF HookKeeps
      <3>2. pc'[q] = "sweep" /\ UNCHANGED <<ref, body, zst>>
        BY <1>13, <2>3 DEF PruneDropMeta, RemoveMeta, Goto, TypeOK
      <3>3. lost'[q] = lost[q]
        BY <1>13, <2>3 DEF PruneDropMeta, RemoveMeta, Taken, TypeOK
      <3>4. ref[q] \in Refs => meta'[ref[q]] = meta[ref[q]]
        BY <1>13, <2>1, <3>1 DEF PruneDropMeta, RemoveMeta, TypeOK
      <3>5. ref[q] \in Refs
        BY <2>1, <2>3, CacheAssumption DEF HookKeeps, Stored
      <3>. QED  BY <2>1, <2>3, <3>2, <3>3, <3>4, <3>5 DEF HookKeeps, Stored
    <2>. QED  BY <2>2, <2>3
  <1>14. ASSUME NEW p \in Clearers, ClearBegin(p) PROVE HookKeeps(q)'
    BY <1>14, HookFrame, CacheAssumption DEF ClearBegin, TypeOK, HookKeeps, Goto, Oldest, Stored, Procs, files, sweep
  <1>15. ASSUME NEW p \in Clearers, ClearEnd(p) PROVE HookKeeps(q)'
    BY <1>15, HookFrame, CacheAssumption DEF ClearEnd, Jump, TypeOK, HookKeeps, Goto, Oldest, Stored, Procs, files, sweep
  <1>16. ASSUME NEW p \in Clearers, ClearFail(p) PROVE HookKeeps(q)'
    BY <1>16, HookFrame, CacheAssumption DEF ClearFail, Jump, TypeOK, HookKeeps, Goto, Oldest, Stored, Procs, files, sweep
  <1>17. ASSUME NEW p \in Clearers, NEW x \in names[p], ClearRemove(p, x) PROVE HookKeeps(q)'
    <2>1. x[1] \in Refs /\ q # p
      BY CacheAssumption DEF TypeOK, Name, Procs
    <2>2. ref'[q] = ref[q] /\ body'[q] = body[q] /\ items'[q] = items[q] /\ pc'[q] = pc[q]
      BY <1>17, <2>1 DEF ClearRemove, Goto, TypeOK
    <2>. QED  BY <1>17, <2>1, <2>2, RemoveKeeps, HookFrame DEF ClearRemove, files
  <1>18. ASSUME NEW p \in Readers, NEW r \in Refs \cup {NoRef}, GetBegin(p, r) PROVE HookKeeps(q)'
    BY <1>18, HookFrame, CacheAssumption DEF GetBegin, TypeOK, HookKeeps, Goto, Oldest, Stored, Procs, files, sweep
  <1>19. ASSUME NEW p \in Readers, GetOpen(p) PROVE HookKeeps(q)'
    BY <1>19, HookFrame, CacheAssumption DEF GetOpen, TypeOK, HookKeeps, Goto, Oldest, Stored, Procs, files, sweep
  <1>20. ASSUME NEW p \in Readers, GetMeta(p) PROVE HookKeeps(q)'
    BY <1>20, HookFrame, CacheAssumption DEF GetMeta, Jump, TypeOK, HookKeeps, Goto, Oldest, Stored, Procs, files, sweep
  <1>21. ASSUME NEW p \in Readers, GetFail(p) PROVE HookKeeps(q)'
    BY <1>21, HookFrame, CacheAssumption DEF GetFail, Jump, TypeOK, HookKeeps, Goto, Oldest, Stored, Procs, files, sweep
  <1>22. ASSUME NEW p \in Procs, Forget(p) PROVE HookKeeps(q)'
    BY <1>22, HookFrame, CacheAssumption DEF Forget, TypeOK, HookKeeps, Goto, Oldest, Stored, Procs, files, sweep
  <1>23. ASSUME Tick PROVE HookKeeps(q)'
    BY <1>23, HookFrame, CacheAssumption DEF Tick, TypeOK, HookKeeps, Goto, Oldest, Stored, Procs, files, sweep
  <1>24. ASSUME NEW r \in Refs, Damage(r) PROVE HookKeeps(q)'
    BY <1>24, DamageKeeps
  <1>26. ASSUME NEW p \in Hooks, TooLarge(p) PROVE HookKeeps(q)'
    BY <1>26, HookFrame, CacheAssumption DEF TooLarge, Jump, TypeOK, HookKeeps, Goto, Oldest, Stored, Procs, files, sweep
  <1>25. CASE UNCHANGED vars
    BY <1>25, HookFrame DEF vars, files, sweep
  <1>. QED
    BY <1>1, <1>2, <1>3, <1>4, <1>5, <1>6, <1>7, <1>8, <1>9, <1>10, <1>11, <1>12, <1>13, <1>14, <1>15, <1>16, <1>17, <1>18, <1>19, <1>20, <1>21, <1>22, <1>23, <1>24, <1>25, <1>26
       DEF Next, Start, Proceed, Fail, HookStep, SweepStep, ClearStep, GetStep, Return, Crash, Procs

LEMMA ReaderKnowsStep ==
    ASSUME StoreInv, TypeOK', [Next]_vars, NEW q \in Readers
    PROVE  ReaderKnows(q)'
  <1>. TypeOK /\ ReaderKnows(q) /\ q \in Procs
    BY DEF StoreInv, Procs
  <1>1. ASSUME NEW p \in Hooks, NEW b \in Originals, HookBegin(p, b) PROVE ReaderKnows(q)'
    BY <1>1, ReaderFrame, CacheAssumption DEF HookBegin, TypeOK, ReaderKnows, Goto, Procs, files, sweep
  <1>2. ASSUME NEW p \in Hooks, PutZst(p) PROVE ReaderKnows(q)'
    <2>1. body[p] \in Originals /\ ref[p] = Ref[body[p]]
      BY <1>2 DEF PutZst, StoreInv, HookKeeps
    <2>2. q # p
      BY CacheAssumption
    <2>3. pc'[q] = pc[q] /\ ref'[q] = ref[q] /\ body'[q] = body[q] /\ lost'[q] = lost[q]
      BY <1>2, <2>2 DEF PutZst, Goto, TypeOK
    <2>. QED  BY <1>2, <2>1, <2>3, WriteKnows DEF PutZst
  <1>3. ASSUME NEW p \in Hooks, PutMeta(p) PROVE ReaderKnows(q)'
    <2>1. body[p] \in Originals /\ ref[p] = Ref[body[p]]
      BY <1>3 DEF PutMeta, StoreInv, HookKeeps
    <2>2. pc'[q] = pc[q] /\ ref'[q] = ref[q] /\ body'[q] = body[q] /\ lost'[q] = lost[q]
      BY <1>3, CacheAssumption DEF PutMeta, Goto, TypeOK
    <2>. QED  BY <1>3, <2>1, <2>2, WriteKnows DEF PutMeta
  <1>4. ASSUME NEW p \in Hooks, PutFail(p) PROVE ReaderKnows(q)'
    BY <1>4, ReaderFrame, CacheAssumption DEF PutFail, Jump, TypeOK, ReaderKnows, Goto, Procs, files, sweep
  <1>5. ASSUME NEW p \in Hooks, Emit(p) PROVE ReaderKnows(q)'
    BY <1>5, ReaderFrame, CacheAssumption DEF Emit, TypeOK, ReaderKnows, Goto, Procs, files, sweep
  <1>6. ASSUME NEW p \in Pruners, PruneBegin(p) PROVE ReaderKnows(q)'
    BY <1>6, ReaderFrame, CacheAssumption DEF PruneBegin, Jump, TypeOK, ReaderKnows, Goto, Procs, files, sweep
  <1>7. ASSUME NEW p \in Hooks \cup Pruners, PruneList(p) PROVE ReaderKnows(q)'
    BY <1>7, ReaderFrame, CacheAssumption DEF PruneList, TypeOK, ReaderKnows, Goto, Procs, files, sweep
  <1>8. ASSUME NEW p \in Hooks \cup Pruners, PruneEnd(p) PROVE ReaderKnows(q)'
    BY <1>8, ReaderFrame, CacheAssumption DEF PruneEnd, Jump, TypeOK, ReaderKnows, Goto, Procs, files, sweep
  <1>9. ASSUME NEW p \in Hooks \cup Pruners, PruneFail(p) PROVE ReaderKnows(q)'
    BY <1>9, ReaderFrame, CacheAssumption DEF PruneFail, Jump, TypeOK, ReaderKnows, Goto, Procs, files, sweep
  <1>10. ASSUME NEW p \in Hooks \cup Pruners, NEW x \in names[p], PruneScan(p, x) PROVE ReaderKnows(q)'
    BY <1>10, ReaderFrame, CacheAssumption DEF PruneScan, TypeOK, ReaderKnows, Goto, Procs, files, sweep
  <1>11. ASSUME NEW p \in Hooks \cup Pruners, NEW x \in items[p], PruneKeep(p, x) PROVE ReaderKnows(q)'
    BY <1>11, ReaderFrame, CacheAssumption DEF PruneKeep, TypeOK, ReaderKnows, Goto, Procs, files, sweep
  <1>12. ASSUME NEW p \in Hooks \cup Pruners, NEW x \in items[p], PruneDropZst(p, x) PROVE ReaderKnows(q)'
    <2>1. x.ref \in Refs /\ q # p
      BY CacheAssumption DEF TypeOK, Item, Procs
    <2>2. pc'[q] = pc[q] /\ ref'[q] = ref[q] /\ body'[q] = body[q]
      BY <1>12, <2>1 DEF PruneDropZst, Goto, TypeOK
    <2>. QED  BY <1>12, <2>1, <2>2, RemoveKnows DEF PruneDropZst
  <1>13. ASSUME NEW p \in Hooks \cup Pruners, NEW x \in items[p], PruneDropMeta(p, x) PROVE ReaderKnows(q)'
    <2>1. x.ref \in Refs /\ q # p
      BY CacheAssumption DEF TypeOK, Item, Procs
    <2>2. pc'[q] = pc[q] /\ ref'[q] = ref[q] /\ body'[q] = body[q]
      BY <1>13, <2>1 DEF PruneDropMeta, Goto, TypeOK
    <2>. QED  BY <1>13, <2>1, <2>2, RemoveKnows DEF PruneDropMeta
  <1>14. ASSUME NEW p \in Clearers, ClearBegin(p) PROVE ReaderKnows(q)'
    BY <1>14, ReaderFrame, CacheAssumption DEF ClearBegin, TypeOK, ReaderKnows, Goto, Procs, files, sweep
  <1>15. ASSUME NEW p \in Clearers, ClearEnd(p) PROVE ReaderKnows(q)'
    BY <1>15, ReaderFrame, CacheAssumption DEF ClearEnd, Jump, TypeOK, ReaderKnows, Goto, Procs, files, sweep
  <1>16. ASSUME NEW p \in Clearers, ClearFail(p) PROVE ReaderKnows(q)'
    BY <1>16, ReaderFrame, CacheAssumption DEF ClearFail, Jump, TypeOK, ReaderKnows, Goto, Procs, files, sweep
  <1>17. ASSUME NEW p \in Clearers, NEW x \in names[p], ClearRemove(p, x) PROVE ReaderKnows(q)'
    <2>1. x[1] \in Refs /\ q # p
      BY CacheAssumption DEF TypeOK, Name, Procs
    <2>2. pc'[q] = pc[q] /\ ref'[q] = ref[q] /\ body'[q] = body[q]
      BY <1>17, <2>1 DEF ClearRemove, Goto, TypeOK
    <2>. QED  BY <1>17, <2>1, <2>2, RemoveKnows, ReaderFrame DEF ClearRemove, files
  <1>18. ASSUME NEW p \in Readers, NEW r \in Refs \cup {NoRef}, GetBegin(p, r) PROVE ReaderKnows(q)'
    <2>1. CASE q # p
      BY <1>18, <2>1, ReaderFrame DEF GetBegin, TypeOK, Goto, files, sweep
    <2>2. CASE q = p
      <3>1. Held' = Held
        BY <1>18 DEF GetBegin, files, Held, Intact
      <3>2. /\ pc'[q] = (IF r = NoRef THEN "gotErr" ELSE "open")
            /\ ref'[q] = r /\ lost'[q] = (r \notin Held)
        BY <1>18, <2>2 DEF GetBegin, Goto, TypeOK
      <3>. QED  BY <3>1, <3>2 DEF ReaderKnows
    <2>. QED  BY <2>1, <2>2
  <1>19. ASSUME NEW p \in Readers, GetOpen(p) PROVE ReaderKnows(q)'
    <2>1. CASE q # p
      BY <1>19, <2>1, ReaderFrame DEF GetOpen, TypeOK, Goto, files, sweep
    <2>2. CASE q = p
      <3>1. Held' = Held /\ ref'[q] = ref[q] /\ lost'[q] = lost[q] /\ pc[q] = "open"
        BY <1>19, <2>2 DEF GetOpen, files, Held, Intact
      <3>2. CASE Acceptable(p, zst[ref[p]])
        <4>1. body'[q] = zst[ref[p]] /\ pc'[q] = "readMeta"
          BY <1>19, <2>2, <3>2 DEF GetOpen, Goto, TypeOK
        <4>. QED  BY <2>2, <3>1, <3>2, <4>1 DEF ReaderKnows, Acceptable, ReadMax
      <3>3. CASE ~Acceptable(p, zst[ref[p]])
        <4>1. pc'[q] = "gotErr"
          BY <1>19, <2>2, <3>3 DEF GetOpen, Goto, TypeOK
        <4>. QED  BY <3>1, <4>1 DEF ReaderKnows
      <3>. QED  BY <3>2, <3>3
    <2>. QED  BY <2>1, <2>2
  <1>20. ASSUME NEW p \in Readers, GetMeta(p) PROVE ReaderKnows(q)'
    <2>1. CASE q # p
      BY <1>20, <2>1, ReaderFrame DEF GetMeta, Jump, TypeOK, Goto, files, sweep
    <2>2. CASE q = p
      <3>1. /\ UNCHANGED <<ref, body>> /\ pc[q] = "readMeta"
            /\ pc'[q] \in {"gotOk", "gotErr"}
        BY <1>20, <2>2 DEF GetMeta, Jump, Goto, TypeOK
      <3>. QED  BY <3>1 DEF ReaderKnows, Acceptable, ReadMax
    <2>. QED  BY <2>1, <2>2
  <1>21. ASSUME NEW p \in Readers, GetFail(p) PROVE ReaderKnows(q)'
    BY <1>21, ReaderFrame, CacheAssumption DEF GetFail, Jump, TypeOK, ReaderKnows, Goto, Procs, files, sweep
  <1>22. ASSUME NEW p \in Procs, Forget(p) PROVE ReaderKnows(q)'
    BY <1>22, ReaderFrame, CacheAssumption DEF Forget, TypeOK, ReaderKnows, Goto, Procs, files, sweep
  <1>23. ASSUME Tick PROVE ReaderKnows(q)'
    BY <1>23, ReaderFrame, CacheAssumption DEF Tick, TypeOK, ReaderKnows, Goto, Procs, files, sweep
  <1>24. ASSUME NEW r \in Refs, Damage(r) PROVE ReaderKnows(q)'
    BY <1>24, DamageKnows
  <1>26. ASSUME NEW p \in Hooks, TooLarge(p) PROVE ReaderKnows(q)'
    BY <1>26, ReaderFrame, CacheAssumption DEF TooLarge, Jump, TypeOK, ReaderKnows, Goto, Procs, files, sweep
  <1>25. CASE UNCHANGED vars
    BY <1>25, ReaderFrame DEF vars, files, sweep
  <1>. QED
    BY <1>1, <1>2, <1>3, <1>4, <1>5, <1>6, <1>7, <1>8, <1>9, <1>10, <1>11, <1>12, <1>13, <1>14, <1>15, <1>16, <1>17, <1>18, <1>19, <1>20, <1>21, <1>22, <1>23, <1>24, <1>25, <1>26
       DEF Next, Start, Proceed, Fail, HookStep, SweepStep, ClearStep, GetStep, Return, Crash, Procs

THEOREM StoreInvariant == Spec => []StoreInv
<1>1. StoreInv /\ TypeOK' /\ [Next]_vars => StoreInv'
  BY HookKeepsStep, ReaderKnowsStep DEF StoreInv
<1>. QED  BY InitStoreInv, Typing, <1>1, PTL DEF Spec

(* A marker names an original that can be read back, unless somebody other *)
(* than the hook that wrote it took one of its files.                      *)
THEOREM MarkersAreBacked == Spec => []EmittedUnlessTaken
<1>1. StoreInv => EmittedUnlessTaken
  BY CacheAssumption DEF StoreInv, EmittedUnlessTaken, HookKeeps, Held, Intact
<1>. QED  BY StoreInvariant, <1>1, PTL

-----------------------------------------------------------------------------
(* What the readers' part of a state means for the promise.                *)
LEMMA SameClients ==
    ASSUME \A q \in Readers : pc'[q] = pc[q] /\ ref'[q] = ref[q] /\ body'[q] = body[q]
    PROVE  UNCHANGED <<Phases, Asked, Replies>>
  BY DEF ClientPhase, ClientReply, Phases, Asked, Replies

LEMMA SameSteady ==
    ASSUME \A q \in Readers : pc'[q] = pc[q] /\ lost'[q] = lost[q]
    PROVE  UNCHANGED Steady
  BY DEF ClientSteady, Steady

LEMMA OneClient ==
    ASSUME NEW p \in Readers,
           \A q \in Readers \ {p} : /\ pc'[q] = pc[q] /\ ref'[q] = ref[q]
                                   /\ body'[q] = body[q] /\ lost'[q] = lost[q]
    PROVE  /\ Phases'  = [Phases EXCEPT ![p] = ClientPhase(p)']
           /\ Asked'   = [Asked EXCEPT ![p] = ref'[p]]
           /\ Steady'  = [Steady EXCEPT ![p] = ClientSteady(p)']
           /\ Replies' = [Replies EXCEPT ![p] = ClientReply(p)']
  <1>1. Phases' = [Phases EXCEPT ![p] = ClientPhase(p)']
    BY DEF Phases, ClientPhase
  <1>2. Asked' = [Asked EXCEPT ![p] = ref'[p]]
    BY DEF Asked
  <1>3. Steady' = [Steady EXCEPT ![p] = ClientSteady(p)']
    BY DEF Steady, ClientSteady
  <1>4. Replies' = [Replies EXCEPT ![p] = ClientReply(p)']
    BY DEF Replies, ClientReply
  <1>. QED  BY <1>1, <1>2, <1>3, <1>4

LEMMA ClientView ==
    ASSUME NEW p \in Readers
    PROVE  /\ Phases[p] = ClientPhase(p) /\ Asked[p] = ref[p]
           /\ Steady[p] = ClientSteady(p) /\ Replies[p] = ClientReply(p)
           /\ Phases = [Phases EXCEPT ![p] = Phases[p]]
           /\ Asked = [Asked EXCEPT ![p] = Asked[p]]
           /\ Steady = [Steady EXCEPT ![p] = Steady[p]]
           /\ Replies = [Replies EXCEPT ![p] = Replies[p]]
  BY DEF Phases, Asked, Steady, Replies

LEMMA StoreStep ==
    ASSUME StoreInv, NEW b \in Originals,
           \A q \in Readers : /\ pc'[q] = pc[q] /\ ref'[q] = ref[q]
                             /\ body'[q] = body[q] /\ lost'[q] = lost[q],
           Held' = Held \/ Held' = Held \cup {Ref[b]}
    PROVE  [Promise!Next]_Promise!vars
  <1>1. CASE Held' = Held
    BY <1>1, SameClients, SameSteady DEF Promise!vars
  <1>2. CASE Held' = Held \cup {Ref[b]}
    <2>1. Promise!Store(Ref[b])
      BY <1>2, SameClients, SameSteady DEF Promise!Store
    <2>. QED  BY <2>1, CacheAssumption DEF Promise!Next
  <1>. QED  BY <1>1, <1>2

LEMMA DisturbStep ==
    ASSUME StoreInv, NEW r \in Refs,
           \A q \in Readers : /\ pc'[q] = pc[q] /\ ref'[q] = ref[q] /\ body'[q] = body[q]
                             /\ lost'[q] = (lost[q] \/ ref[q] = r),
           Held' \in {Held \ {r}, Held \cup {r}}
    PROVE  Promise!Next
  <1>1. Steady' = [q \in Readers |-> Steady[q] /\ Asked[q] # r]
    BY DEF Steady, Asked, ClientSteady
  <1>2. Promise!Disturb(r)
    BY <1>1, SameClients DEF Promise!Disturb
  <1>. QED  BY <1>2 DEF Promise!Next

LEMMA SilentStep ==
    ASSUME UNCHANGED <<zst, meta>>,
           \A q \in Readers : /\ pc'[q] = pc[q] /\ ref'[q] = ref[q]
                             /\ body'[q] = body[q] /\ lost'[q] = lost[q]
    PROVE  UNCHANGED Promise!vars
  <1>1. Held' = Held
    BY DEF Held, Intact
  <1>. QED  BY <1>1, SameClients, SameSteady DEF Promise!vars

(* Steps of hooks, sweeps and clears, seen by the readers.                 *)
LEMMA OthersStep ==
    ASSUME StoreInv, NEW p \in Procs \ Readers, NEW r \in Refs,
           RemoveZst(p, r) \/ RemoveMeta(p, r),
           \A q \in Readers : pc'[q] = pc[q] /\ ref'[q] = ref[q] /\ body'[q] = body[q]
    PROVE  Promise!Next
  <1>1. \A q \in Readers : lost'[q] = (lost[q] \/ ref[q] = r)
    BY DEF RemoveZst, RemoveMeta, Taken, Procs
  <1>2. Held' = Held \ {r}
    BY RemoveHolds DEF StoreInv
  <1>. QED  BY <1>1, <1>2, DisturbStep

LEMMA FailStep ==
    ASSUME StoreInv, NEW p \in Readers, pc[p] \in {"open", "readMeta"}, Held' = Held,
           pc' = [pc EXCEPT ![p] = "gotErr"], UNCHANGED <<ref, body, lost>>,
           \/ "io" \in Faults
           \/ ~(ClientSteady(p) /\ \E b \in Originals : Length[b] <= ReadMax(p) /\ Ref[b] = ref[p])
    PROVE  [Promise!Next]_Promise!vars
  <1>1. TypeOK /\ p \in Procs /\ Readers \subseteq Procs
    BY DEF StoreInv, Procs
  <1>2. UNCHANGED Asked
    BY DEF Asked
  <1>3. UNCHANGED Steady
    <2>1. \A q \in Readers : ClientSteady(q)' = ClientSteady(q)
      BY <1>1 DEF ClientSteady, TypeOK
    <2>. QED  BY <2>1, Zenon DEF Steady
  <1>4. Phases' = [Phases EXCEPT ![p] = "failed"] /\ UNCHANGED Replies
    BY <1>1 DEF Phases, ClientPhase, Replies, ClientReply, TypeOK
  <1>5. Phases[p] = "asking" /\ Asked[p] = ref[p] /\ Steady[p] = ClientSteady(p)
    BY ClientView DEF ClientPhase
  <1>6. Promise!MustAnswer(p) => "io" \in Faults
    BY <1>5 DEF Promise!MustAnswer
  <1>7. Promise!Fail(p)
    BY <1>2, <1>3, <1>4, <1>5, <1>6 DEF Promise!Fail
  <1>. QED  BY <1>7 DEF Promise!Next

LEMMA PromiseStep ==
    ASSUME StoreInv, [Next]_vars
    PROVE  [Promise!Next]_Promise!vars
  <1>. /\ TypeOK /\ Readers \subseteq Procs
       /\ Hooks \cap Readers = {} /\ Pruners \cap Readers = {} /\ Clearers \cap Readers = {}
    BY CacheAssumption DEF StoreInv, Procs
  <1>1. ASSUME NEW p \in Hooks, NEW b \in Originals, HookBegin(p, b)
         PROVE  [Promise!Next]_Promise!vars
    BY <1>1, SilentStep DEF HookBegin, Goto, TypeOK, files, sweep
  <1>2. ASSUME NEW p \in Hooks, PutZst(p)
         PROVE  [Promise!Next]_Promise!vars
    <2>1. body[p] \in Originals /\ ref[p] = Ref[body[p]]
      BY <1>2 DEF PutZst, StoreInv, HookKeeps
    <2>2. \A q \in Readers : /\ pc'[q] = pc[q] /\ ref'[q] = ref[q]
                            /\ body'[q] = body[q] /\ lost'[q] = lost[q]
      <3>1. \A q \in Readers : q # p
        OBVIOUS
      <3>2. lost' = [lost EXCEPT ![p] = FALSE] /\ pc' = [pc EXCEPT ![p] = "putMeta"]
            /\ UNCHANGED <<ref, body>>
        BY <1>2 DEF PutZst, Goto
      <3>. QED  BY <3>1, <3>2 DEF TypeOK
    <2>3. Held' \in {Held, Held \cup {Ref[body[p]]}}
      BY <1>2, <2>1, WriteHolds DEF PutZst
    <2>. QED  BY <2>1, <2>2, <2>3, StoreStep
  <1>3. ASSUME NEW p \in Hooks, PutMeta(p)
         PROVE  [Promise!Next]_Promise!vars
    <2>1. body[p] \in Originals /\ ref[p] = Ref[body[p]]
      BY <1>3 DEF PutMeta, StoreInv, HookKeeps
    <2>2. \A q \in Readers : /\ pc'[q] = pc[q] /\ ref'[q] = ref[q]
                            /\ body'[q] = body[q] /\ lost'[q] = lost[q]
      BY <1>3 DEF PutMeta, Goto, TypeOK
    <2>3. Held' \in {Held, Held \cup {Ref[body[p]]}}
      BY <1>3, <2>1, WriteHolds DEF PutMeta
    <2>. QED  BY <2>1, <2>2, <2>3, StoreStep
  <1>4. ASSUME NEW p \in Hooks, PutFail(p)
         PROVE  [Promise!Next]_Promise!vars
    BY <1>4, SilentStep DEF PutFail, Jump, Goto, TypeOK, files, sweep
  <1>5. ASSUME NEW p \in Hooks, Emit(p)
         PROVE  [Promise!Next]_Promise!vars
    BY <1>5, SilentStep DEF Emit, Goto, TypeOK, files, sweep
  <1>6. ASSUME NEW p \in Pruners, PruneBegin(p)
         PROVE  [Promise!Next]_Promise!vars
    BY <1>6, SilentStep DEF PruneBegin, Jump, Goto, TypeOK, files, sweep
  <1>7. ASSUME NEW p \in Hooks \cup Pruners, PruneList(p)
         PROVE  [Promise!Next]_Promise!vars
    BY <1>7, SilentStep DEF PruneList, Goto, TypeOK, files, sweep
  <1>8. ASSUME NEW p \in Hooks \cup Pruners, PruneEnd(p)
         PROVE  [Promise!Next]_Promise!vars
    BY <1>8, SilentStep DEF PruneEnd, Jump, Goto, TypeOK, files, sweep
  <1>9. ASSUME NEW p \in Hooks \cup Pruners, PruneFail(p)
         PROVE  [Promise!Next]_Promise!vars
    BY <1>9, SilentStep DEF PruneFail, Jump, Goto, TypeOK, files, sweep
  <1>10. ASSUME NEW p \in Hooks \cup Pruners, NEW x \in names[p], PruneScan(p, x)
         PROVE  [Promise!Next]_Promise!vars
    <2>1. UNCHANGED <<zst, meta, ref, body, lost>>
      BY <1>10 DEF PruneScan, files
    <2>2. pc' = [pc EXCEPT ![p] = "aborted"] \/ UNCHANGED pc
      BY <1>10 DEF PruneScan, Goto
    <2>3. \A q \in Readers : pc'[q] = pc[q]
      BY <2>2 DEF TypeOK
    <2>. QED  BY <2>1, <2>3, SilentStep
  <1>11. ASSUME NEW p \in Hooks \cup Pruners, NEW x \in items[p], PruneKeep(p, x)
         PROVE  [Promise!Next]_Promise!vars
    BY <1>11, SilentStep DEF PruneKeep, Goto, TypeOK, files, sweep
  <1>12. ASSUME NEW p \in Hooks \cup Pruners, NEW x \in items[p], PruneDropZst(p, x)
         PROVE  [Promise!Next]_Promise!vars
    <2>1. x.ref \in Refs /\ p \in Procs \ Readers
      BY DEF TypeOK, Item, Procs
    <2>2. \A q \in Readers : pc'[q] = pc[q] /\ ref'[q] = ref[q] /\ body'[q] = body[q]
      BY <1>12 DEF PruneDropZst, Goto, TypeOK
    <2>. QED  BY <1>12, <2>1, <2>2, OthersStep DEF PruneDropZst
  <1>13. ASSUME NEW p \in Hooks \cup Pruners, NEW x \in items[p], PruneDropMeta(p, x)
         PROVE  [Promise!Next]_Promise!vars
    <2>1. x.ref \in Refs /\ p \in Procs \ Readers
      BY DEF TypeOK, Item, Procs
    <2>2. \A q \in Readers : pc'[q] = pc[q] /\ ref'[q] = ref[q] /\ body'[q] = body[q]
      BY <1>13 DEF PruneDropMeta, Goto, TypeOK
    <2>. QED  BY <1>13, <2>1, <2>2, OthersStep DEF PruneDropMeta
  <1>14. ASSUME NEW p \in Clearers, ClearBegin(p)
         PROVE  [Promise!Next]_Promise!vars
    BY <1>14, SilentStep DEF ClearBegin, Goto, TypeOK, files, sweep
  <1>15. ASSUME NEW p \in Clearers, ClearEnd(p)
         PROVE  [Promise!Next]_Promise!vars
    BY <1>15, SilentStep DEF ClearEnd, Jump, Goto, TypeOK, files, sweep
  <1>16. ASSUME NEW p \in Clearers, ClearFail(p)
         PROVE  [Promise!Next]_Promise!vars
    BY <1>16, SilentStep DEF ClearFail, Jump, Goto, TypeOK, files, sweep
  <1>17. ASSUME NEW p \in Clearers, NEW x \in names[p], ClearRemove(p, x)
         PROVE  [Promise!Next]_Promise!vars
    <2>1. x[1] \in Refs /\ p \in Procs \ Readers
      BY DEF TypeOK, Name, Procs
    <2>2. \A q \in Readers : pc'[q] = pc[q] /\ ref'[q] = ref[q] /\ body'[q] = body[q]
      <3>1. pc' = [pc EXCEPT ![p] = "clearErr"] \/ UNCHANGED pc
        BY <1>17 DEF ClearRemove, Goto
      <3>2. UNCHANGED <<ref, body>>
        BY <1>17 DEF ClearRemove
      <3>. QED  BY <2>1, <3>1, <3>2 DEF TypeOK
    <2>3. CASE RemoveZst(p, x[1]) \/ RemoveMeta(p, x[1])
      BY <2>1, <2>2, <2>3, OthersStep
    <2>4. CASE UNCHANGED <<files, lost, seen>>
      BY <2>2, <2>4, SilentStep DEF files
    <2>. QED  BY <1>17, <2>3, <2>4 DEF ClearRemove
  <1>18. ASSUME NEW p \in Readers, NEW r \in Refs \cup {NoRef}, GetBegin(p, r)
         PROVE  [Promise!Next]_Promise!vars
    <2>1. p \in Procs /\ pc[p] = "idle" /\ ref[p] = NoRef
      BY <1>18 DEF GetBegin, StoreInv, ReaderKnows, Procs
    <2>2. Held' = Held /\ UNCHANGED body
      BY <1>18 DEF GetBegin, files, Held, Intact
    <2>3. /\ pc'[p] = (IF r = NoRef THEN "gotErr" ELSE "open")
          /\ ref'[p] = r /\ lost'[p] = (r \notin Held)
      BY <1>18, <2>1 DEF GetBegin, Goto, TypeOK
    <2>4. \A q \in Readers \ {p} : /\ pc'[q] = pc[q] /\ ref'[q] = ref[q]
                                  /\ body'[q] = body[q] /\ lost'[q] = lost[q]
      BY <1>18, <2>1, <2>2 DEF GetBegin, Goto, TypeOK
    <2>5. ClientPhase(p) = "idle" /\ ~ClientSteady(p) /\ ClientReply(p) = NoFile
      BY <2>1 DEF ClientPhase, ClientSteady, ClientReply
    <2>6. ClientReply(p)' = NoFile
      BY <2>3 DEF ClientReply
    <2>7. UNCHANGED Replies
      BY <2>4, <2>5, <2>6, OneClient, ClientView
    <2>8. CASE r = NoRef
      <3>1. ClientPhase(p)' = "failed" /\ ~ClientSteady(p)'
        BY <2>3, <2>8, CacheAssumption DEF ClientPhase, ClientSteady, Held
      <3>2. UNCHANGED Asked
        BY <2>1, <2>3, <2>4, <2>8, OneClient, ClientView
      <3>3. UNCHANGED Steady
        BY <2>4, <2>5, <3>1, Zenon DEF Steady, ClientSteady
      <3>4. Promise!Refuse(p)
        BY <2>2, <2>4, <2>5, <2>7, <3>1, <3>2, <3>3, OneClient, ClientView DEF Promise!Refuse
      <3>. QED  BY <3>4 DEF Promise!Next
    <2>9. CASE r # NoRef
      <3>1. ClientPhase(p)' = "asking"
        BY <2>3, <2>9 DEF ClientPhase
      <3>2. pc'[p] = "open"
        BY <2>3, <2>9
      <3>3. ClientSteady(p)' = (r \in Held)
        <4>1. ClientSteady(p)' = ~lost'[p]
          BY <3>2 DEF ClientSteady
        <4>2. CASE r \in Held
          <5>1. lost'[p] = FALSE
            BY <2>3, <4>2
          <5>. QED  BY <4>1, <4>2, <5>1
        <4>3. CASE r \notin Held
          <5>1. lost'[p] = TRUE
            BY <2>3, <4>3
          <5>. QED  BY <4>1, <4>3, <5>1
        <4>. QED  BY <4>2, <4>3
      <3>4. Promise!Ask(p, r)
        BY <2>2, <2>3, <2>4, <2>5, <2>7, <3>1, <3>3, OneClient, ClientView DEF Promise!Ask
      <3>. QED  BY <2>9, <3>4 DEF Promise!Next
    <2>. QED  BY <2>8, <2>9
  <1>19. ASSUME NEW p \in Readers, GetOpen(p)
         PROVE  [Promise!Next]_Promise!vars
    <2>1. /\ p \in Procs /\ pc[p] = "open" /\ ref[p] \in Refs /\ Held' = Held
          /\ UNCHANGED <<zst, ref, lost>>
      BY <1>19 DEF GetOpen, StoreInv, ReaderKnows, Procs, files, Held, Intact
    <2>2. CASE Acceptable(p, zst[ref[p]])
      <3>1. pc' = [pc EXCEPT ![p] = "readMeta"] /\ body' = [body EXCEPT ![p] = zst[ref[p]]]
        BY <1>19, <2>2 DEF GetOpen, Goto
      <3>2. UNCHANGED Phases
        BY <2>1, <3>1 DEF Phases, ClientPhase, TypeOK
      <3>3. UNCHANGED Steady
        <4>1. \A q \in Readers : ClientSteady(q)' = ClientSteady(q)
          BY <2>1, <3>1 DEF ClientSteady, TypeOK
        <4>. QED  BY <4>1, Zenon DEF Steady
      <3>4. UNCHANGED <<Asked, Replies>>
        BY <2>1, <3>1 DEF Asked, Replies, ClientReply, TypeOK
      <3>. QED  BY <2>1, <3>2, <3>3, <3>4 DEF Promise!vars
    <2>3. CASE ~Acceptable(p, zst[ref[p]])
      <3>1. pc' = [pc EXCEPT ![p] = "gotErr"] /\ UNCHANGED body
        BY <1>19, <2>3 DEF GetOpen, Goto
      <3>2. ~(ClientSteady(p) /\ \E b \in Originals : Length[b] <= ReadMax(p) /\ Ref[b] = ref[p])
        <4>. SUFFICES ASSUME ClientSteady(p), NEW b \in Originals,
                             Length[b] <= ReadMax(p), Ref[b] = ref[p]
                      PROVE  FALSE
          OBVIOUS
        <4>1. ref[p] \in Held
          BY <2>1 DEF StoreInv, ReaderKnows, ClientSteady
        <4>2. zst[ref[p]] = b
          BY <4>1, CacheAssumption DEF Held, Intact
        <4>. QED  BY <2>3, <4>2 DEF Acceptable
      <3>. QED  BY <2>1, <3>1, <3>2, FailStep
    <2>. QED  BY <2>2, <2>3
  <1>20. ASSUME NEW p \in Readers, GetMeta(p)
         PROVE  [Promise!Next]_Promise!vars
    <2>1. /\ p \in Procs /\ pc[p] = "readMeta" /\ ref[p] \in Refs /\ Held' = Held
          /\ Acceptable(p, body[p]) /\ UNCHANGED <<ref, body, lost>>
      BY <1>20 DEF GetMeta, Jump, StoreInv, ReaderKnows, Procs, files, Held, Intact
    <2>2. CASE meta[ref[p]] = body[p]
      <3>1. pc' = [pc EXCEPT ![p] = "gotOk"]
        BY <1>20, <2>2 DEF GetMeta, Jump, Goto
      <3>2. UNCHANGED Asked
        BY <2>1 DEF Asked
      <3>3. UNCHANGED Steady
        <4>1. \A q \in Readers : ClientSteady(q)' = ClientSteady(q)
          BY <2>1, <3>1 DEF ClientSteady, TypeOK
        <4>. QED  BY <4>1, Zenon DEF Steady
      <3>4. /\ Phases' = [Phases EXCEPT ![p] = "answered"]
            /\ Replies' = [Replies EXCEPT ![p] = body[p]]
        BY <2>1, <3>1 DEF Phases, ClientPhase, Replies, ClientReply, TypeOK
      <3>5. /\ Phases[p] = "asking" /\ Asked[p] = ref[p]
            /\ body[p] \in Originals /\ Length[body[p]] <= ReadMax(p) /\ Ref[body[p]] = ref[p]
        BY <2>1 DEF Phases, ClientPhase, Asked, Acceptable
      <3>6. Promise!Answer(p, body[p])
        BY <2>1, <3>2, <3>3, <3>4, <3>5 DEF Promise!Answer
      <3>. QED  BY <3>5, <3>6 DEF Promise!Next
    <2>3. CASE meta[ref[p]] # body[p]
      <3>1. pc' = [pc EXCEPT ![p] = "gotErr"]
        BY <1>20, <2>3 DEF GetMeta, Jump, Goto
      <3>2. ~ClientSteady(p)
        <4>. SUFFICES ASSUME ClientSteady(p) PROVE FALSE
          OBVIOUS
        <4>1. ref[p] \in Held
          BY <2>1 DEF StoreInv, ReaderKnows, ClientSteady
        <4>2. zst[ref[p]] = body[p]
          BY <2>1, <4>1, CacheAssumption DEF Held, Intact, Acceptable
        <4>. QED  BY <2>3, <4>1, <4>2 DEF Held, Intact
      <3>. QED  BY <2>1, <3>1, <3>2, FailStep
    <2>. QED  BY <2>2, <2>3
  <1>21. ASSUME NEW p \in Readers, GetFail(p)
         PROVE  [Promise!Next]_Promise!vars
    <2>1. /\ p \in Procs /\ pc[p] \in {"open", "readMeta"} /\ Held' = Held
          /\ "io" \in Faults /\ pc' = [pc EXCEPT ![p] = "gotErr"] /\ UNCHANGED <<ref, body, lost>>
      BY <1>21 DEF GetFail, Jump, Goto, Procs, files, Held, Intact
    <2>. QED  BY <2>1, FailStep
  <1>22. ASSUME NEW p \in Procs, Forget(p)
         PROVE  [Promise!Next]_Promise!vars
    <2>1. /\ pc' = [pc EXCEPT ![p] = "idle"] /\ ref' = [ref EXCEPT ![p] = NoRef]
          /\ body' = [body EXCEPT ![p] = NoFile] /\ lost' = [lost EXCEPT ![p] = FALSE]
          /\ UNCHANGED <<zst, meta>>
      BY <1>22 DEF Forget, Goto, files
    <2>2. \A q \in Readers \ {p} : /\ pc'[q] = pc[q] /\ ref'[q] = ref[q]
                                  /\ body'[q] = body[q] /\ lost'[q] = lost[q]
      BY <2>1 DEF TypeOK
    <2>3. CASE p \notin Readers
      BY <2>1, <2>2, <2>3, SilentStep
    <2>4. CASE p \in Readers
      <3>1. pc'[p] = "idle" /\ ref'[p] = NoRef /\ Held' = Held
        BY <2>1 DEF TypeOK, Held, Intact
      <3>2. ClientPhase(p)' = "idle" /\ ClientSteady(p)' = FALSE /\ ClientReply(p)' = NoFile
        BY <3>1 DEF ClientPhase, ClientSteady, ClientReply
      <3>3. Promise!Leave(p)
        BY <2>2, <2>4, <3>1, <3>2, OneClient DEF Promise!Leave
      <3>. QED  BY <2>4, <3>3 DEF Promise!Next
    <2>. QED  BY <2>3, <2>4
  <1>23. ASSUME Tick
         PROVE  [Promise!Next]_Promise!vars
    BY <1>23, SilentStep DEF Tick, Goto, TypeOK, files, sweep
  <1>24. ASSUME NEW r \in Refs, Damage(r)
         PROVE  [Promise!Next]_Promise!vars
    <2>1. \A q \in Readers : /\ pc'[q] = pc[q] /\ ref'[q] = ref[q] /\ body'[q] = body[q]
                            /\ lost'[q] = (lost[q] \/ ref[q] = r)
      BY <1>24 DEF Damage, Procs
    <2>. QED  BY <1>24, <2>1, DamageHolds, DisturbStep
  <1>26. ASSUME NEW p \in Hooks, TooLarge(p)
         PROVE  [Promise!Next]_Promise!vars
    BY <1>26, SilentStep DEF TooLarge, Jump, Goto, TypeOK, files, sweep
  <1>25. CASE UNCHANGED vars
    BY <1>25, SilentStep DEF vars, files, sweep
  <1>. QED
    BY <1>1, <1>2, <1>3, <1>4, <1>5, <1>6, <1>7, <1>8, <1>9, <1>10, <1>11, <1>12, <1>13, <1>14, <1>15, <1>16, <1>17, <1>18, <1>19, <1>20, <1>21, <1>22, <1>23, <1>24, <1>25, <1>26
       DEF Next, Start, Proceed, Fail, HookStep, SweepStep, ClearStep, GetStep, Return, Crash, Procs

(* Whatever hooks, sweeps, clears, crashes and damage do, readers see the  *)
(* store that OriginalStore promises: exact bytes, or an error with cause. *)
THEOREM StoreImplementsPromise == Spec => ImplementsPromise
<1>1. Init => Promise!Init
  <2>. SUFFICES ASSUME Init PROVE Promise!Init
    OBVIOUS
  <2>1. Held = {}
    BY CacheAssumption DEF Init, Held, Intact, Contents
  <2>2. \A q \in Readers : /\ ClientPhase(q) = "idle" /\ ref[q] = NoRef
                          /\ ClientSteady(q) = FALSE /\ ClientReply(q) = NoFile
    BY DEF Init, ClientPhase, ClientSteady, ClientReply, Procs
  <2>. QED  BY <2>1, <2>2, Zenon DEF Promise!Init, Phases, Asked, Steady, Replies
<1>2. StoreInv /\ [Next]_vars => [Promise!Next]_Promise!vars
  BY PromiseStep
<1>. QED  BY StoreInvariant, <1>1, <1>2, PTL DEF Spec, Promise!Spec, ImplementsPromise

-----------------------------------------------------------------------------
(* `tokenslim cache clear`, for any number of processes of any kind: a     *)
(* success with no writer meanwhile means an empty directory.              *)

(* What a clear knows while nobody has written since it listed the         *)
(* directory: a file that is there is one it has still to remove.          *)
StillListed(p) ==
    pc[p] \in {"clear", "cleared"} /\ "wrote" \notin seen[p] =>
        \A r \in Refs : /\ zst[r] # NoFile => pc[p] = "clear" /\ Zst(r) \in names[p]
                        /\ meta[r] # NoFile => pc[p] = "clear" /\ Json(r) \in names[p]

ClearInv == \A p \in Clearers : StillListed(p)

(* A step of somebody else that writes nothing.                            *)
LEMMA OthersOnlyRemove ==
    ASSUME NEW p \in Clearers, StillListed(p),
           pc'[p] = pc[p], names'[p] = names[p], seen[p] \subseteq seen'[p],
           \A r \in Refs : zst'[r] \in {zst[r], NoFile} /\ meta'[r] \in {meta[r], NoFile}
    PROVE  StillListed(p)'
    BY DEF StillListed

(* A step that somebody who is clearing gets to know of as a write.        *)
LEMMA SomebodyWrites ==
    ASSUME NEW p \in Clearers, pc'[p] = pc[p], pc[p] \in Visiting => "wrote" \in seen'[p]
    PROVE  StillListed(p)'
    BY DEF StillListed, Visiting

(* A call that is not in the loop of Clear.                                *)
LEMMA NotClearing ==
    ASSUME NEW p \in Clearers, pc'[p] \notin {"clear", "cleared"}
    PROVE  StillListed(p)'
    BY DEF StillListed

(* No two entries of the directory have one name.                          *)
LEMMA EntryNames ==
    \A r, s \in Refs : Zst(r) # Json(s) /\ (r # s => Zst(r) # Zst(s) /\ Json(r) # Json(s))
    BY DEF Zst, Json

(* The steps of the clear itself.                                          *)
LEMMA ClearersOwn ==
    ASSUME TypeOK, NEW p \in Clearers, StillListed(p),
           ClearBegin(p) \/ ClearStep(p) \/ ClearFail(p) \/ Forget(p)
    PROVE  StillListed(p)'
<1>0. p \in Procs
    BY DEF Procs
<1>1. CASE ClearBegin(p)
    BY <1>0, <1>1 DEF ClearBegin, Goto, TypeOK, StillListed, files
<1>2. CASE ClearEnd(p)
    BY <1>0, <1>2 DEF ClearEnd, Jump, Goto, TypeOK, StillListed, files, sweep
<1>3. ASSUME NEW x \in names[p], ClearRemove(p, x) PROVE StillListed(p)'
    <2>1. x \in Refs \X {0, 1}
        BY <1>0 DEF TypeOK, Name
    <2>2. PICK r \in Refs, k \in {0, 1} : x = <<r, k>>
        BY <2>1
    <2>3. names'[p] = names[p] \ {x} /\ pc[p] = "clear"
        BY <1>0, <1>3 DEF ClearRemove, TypeOK
    <2>. x[1] = r /\ x[2] = k
        BY <2>2
    <2>4. CASE k = 0 /\ RemoveMeta(p, r) /\ UNCHANGED pc
        <3>1. x = Json(r)
            BY <2>2, <2>4 DEF Json
        <3>2. /\ zst' = zst /\ \A s \in Refs : meta'[s] # NoFile => s # r /\ meta[s] # NoFile
              /\ pc' = pc /\ seen'[p] = seen[p]
            BY <1>0, <2>4 DEF RemoveMeta, Stir, TypeOK
        <3>3. \A s \in Refs : Zst(s) # x /\ (s # r => Json(s) # x)
            BY <3>1, EntryNames
        <3> QED BY <2>3, <3>2, <3>3 DEF StillListed
    <2>5. CASE k = 1 /\ RemoveZst(p, r) /\ UNCHANGED pc
        <3>1. x = Zst(r)
            BY <2>2, <2>5 DEF Zst
        <3>2. /\ meta' = meta /\ \A s \in Refs : zst'[s] # NoFile => s # r /\ zst[s] # NoFile
              /\ pc' = pc /\ seen'[p] = seen[p]
            BY <1>0, <2>5 DEF RemoveZst, Stir, TypeOK
        <3>3. \A s \in Refs : Json(s) # x /\ (s # r => Zst(s) # x)
            BY <3>1, EntryNames
        <3> QED BY <2>3, <3>2, <3>3 DEF StillListed
    <2>6. CASE Goto(p, "clearErr")
        BY <1>0, <2>6, NotClearing DEF Goto, TypeOK
    <2> QED BY <1>3, <2>2, <2>4, <2>5, <2>6 DEF ClearRemove
<1>4. CASE ClearFail(p) \/ Forget(p)
    BY <1>0, <1>4, NotClearing DEF ClearFail, Jump, Forget, Goto, TypeOK
<1> QED BY <1>1, <1>2, <1>3, <1>4 DEF ClearStep

(* A step of another process that leaves p's call alone and changes no     *)
(* file, takes one file away, or is a Put.                                 *)
Distant(p, q) ==
    /\ pc'[p] = pc[p] /\ names'[p] = names[p] /\ seen[p] \subseteq seen'[p]
    /\ items'[p] = items[p] /\ total'[p] = total[p] /\ ref'[p] = ref[p] /\ now' = now
    /\ \/ UNCHANGED files
       \/ \E r \in Refs : RemoveZst(q, r) \/ RemoveMeta(q, r)
       \/ seen' = Stir(q, {"wrote"})

LEMMA OthersSteps ==
    ASSUME TypeOK, NEW p \in Clearers, StillListed(p), NEW q \in Procs, q # p, Distant(p, q)
    PROVE  StillListed(p)'
<1>. USE DEF Distant
<1>0. p \in Procs
    BY DEF Procs
<1>1. CASE UNCHANGED files
    BY <1>1, OthersOnlyRemove DEF files
<1>2. ASSUME NEW r \in Refs, RemoveZst(q, r) \/ RemoveMeta(q, r) PROVE StillListed(p)'
    <2>1. \A s \in Refs : zst'[s] \in {zst[s], NoFile} /\ meta'[s] \in {meta[s], NoFile}
        BY <1>2 DEF RemoveZst, RemoveMeta, TypeOK
    <2> QED BY <2>1, OthersOnlyRemove
<1>3. CASE seen' = Stir(q, {"wrote"})
    BY <1>0, <1>3, SomebodyWrites DEF Stir
<1> QED BY <1>1, <1>2, <1>3

(* Only a Put writes, and no process touches another's call.               *)
LEMMA NextIsDistant ==
    ASSUME TypeOK, NEW p \in Procs, NEW q \in Procs, q # p,
           \/ \E b \in Originals : HookBegin(q, b)
           \/ HookStep(q) \/ PruneBegin(q) \/ ClearBegin(q) \/ ClearStep(q)
           \/ (\E r \in Refs \cup {NoRef} : GetBegin(q, r)) \/ GetStep(q)
           \/ Fail(q) \/ Forget(q)
    PROVE  Distant(p, q)
<1>1. CASE \/ \E b \in Originals : HookBegin(q, b)
           \/ PruneBegin(q) \/ ClearBegin(q) \/ Forget(q)
           \/ \E r \in Refs \cup {NoRef} : GetBegin(q, r)
    BY <1>1 DEF HookBegin, PruneBegin, ClearBegin, Forget, GetBegin, Jump, Goto, sweep,
                Distant, TypeOK
<1>2. CASE PutZst(q) \/ PutMeta(q)
    BY <1>2 DEF PutZst, PutMeta, Goto, Stir, sweep, Distant, TypeOK
<1>3. CASE TooLarge(q) \/ Emit(q) \/ PruneList(q) \/ PruneEnd(q) \/ ClearEnd(q)
    BY <1>3 DEF TooLarge, Emit, PruneList, PruneEnd, ClearEnd, Jump, Goto, sweep,
                Distant, TypeOK
<1>4. CASE GetStep(q) \/ Fail(q)
    BY <1>4 DEF GetStep, GetOpen, GetMeta, Fail, PutFail, PruneFail, ClearFail, GetFail,
                Jump, Goto, sweep, Distant, TypeOK
<1>5. ASSUME NEW x \in names[q], PruneScan(q, x) PROVE Distant(p, q)
    BY <1>5 DEF PruneScan, Goto, sweep, Distant, TypeOK
<1>6. ASSUME NEW x \in items[q],
             PruneKeep(q, x) \/ PruneDropZst(q, x) \/ PruneDropMeta(q, x)
      PROVE Distant(p, q)
    <2>1. x.ref \in Refs
        BY DEF TypeOK, Item
    <2>2. CASE PruneKeep(q, x)
        BY <2>2 DEF PruneKeep, sweep, Distant, TypeOK
    <2>3. CASE PruneDropZst(q, x)
        BY <2>1, <2>3 DEF PruneDropZst, RemoveZst, Stir, Goto, sweep, Distant, TypeOK
    <2>4. CASE PruneDropMeta(q, x)
        BY <2>1, <2>4 DEF PruneDropMeta, RemoveMeta, Stir, Goto, sweep, Distant, TypeOK
    <2> QED BY <1>6, <2>2, <2>3, <2>4
<1>7. ASSUME NEW x \in names[q], ClearRemove(q, x) PROVE Distant(p, q)
    <2>1. x[1] \in Refs
        BY DEF TypeOK, Name
    <2>2. CASE UNCHANGED files
        BY <1>7, <2>2 DEF ClearRemove, RemoveMeta, RemoveZst, Stir, Goto, sweep, Distant, TypeOK
    <2>3. CASE RemoveMeta(q, x[1]) /\ UNCHANGED pc
        BY <1>7, <2>1, <2>3 DEF ClearRemove, RemoveMeta, Stir, sweep, Distant, TypeOK
    <2>4. CASE RemoveZst(q, x[1]) /\ UNCHANGED pc
        BY <1>7, <2>1, <2>4 DEF ClearRemove, RemoveZst, Stir, sweep, Distant, TypeOK
    <2> QED BY <1>7, <2>2, <2>3, <2>4 DEF ClearRemove
<1> QED BY <1>1, <1>2, <1>3, <1>4, <1>5, <1>6, <1>7
        DEF HookStep, SweepStep, ClearStep

(* The steps that are nobody's.                                            *)
LEMMA WorldSteps ==
    ASSUME TypeOK, NEW p \in Clearers, StillListed(p),
           Tick \/ (\E r \in Refs : Damage(r)) \/ UNCHANGED vars
    PROVE  StillListed(p)'
<1>0. p \in Procs
    BY DEF Procs
<1>1. CASE Tick
    BY <1>0, <1>1, OthersOnlyRemove DEF Tick, files, sweep
<1>2. ASSUME NEW r \in Refs, Damage(r) PROVE StillListed(p)'
    BY <1>0, <1>2, SomebodyWrites DEF Damage, sweep
<1>3. CASE UNCHANGED vars
    BY <1>3, OthersOnlyRemove DEF vars, files, sweep
<1> QED BY <1>1, <1>2, <1>3

(* Every step leaves every clear knowing what it has still to remove.      *)
LEMMA ClearInvStep == TypeOK /\ ClearInv /\ [Next]_vars => ClearInv'
<1>. SUFFICES ASSUME TypeOK, ClearInv, [Next]_vars, NEW p \in Clearers PROVE StillListed(p)'
    BY DEF ClearInv
<1>0. StillListed(p) /\ p \in Procs /\ p \notin Hooks /\ p \notin Pruners /\ p \notin Readers
    BY CacheAssumption DEF ClearInv, Procs
<1>1. CASE Tick \/ (\E r \in Refs : Damage(r)) \/ UNCHANGED vars
    BY <1>0, <1>1, WorldSteps
<1>2. ASSUME NEW q \in Procs, q # p,
             \/ \E b \in Originals : HookBegin(q, b)
             \/ HookStep(q) \/ PruneBegin(q) \/ ClearBegin(q) \/ ClearStep(q)
             \/ (\E r \in Refs \cup {NoRef} : GetBegin(q, r)) \/ GetStep(q)
             \/ Fail(q) \/ Forget(q)
      PROVE StillListed(p)'
    <2>1. Distant(p, q)
        BY <1>0, <1>2, NextIsDistant
    <2> QED BY <1>0, <1>2, <2>1, OthersSteps
<1>3. CASE ClearBegin(p) \/ ClearStep(p) \/ ClearFail(p) \/ Forget(p)
    BY <1>0, <1>3, ClearersOwn
<1>4. CASE Start
    BY <1>0, <1>2, <1>3, <1>4 DEF Start, Procs
<1>5. ASSUME NEW q \in Procs, Proceed(q) \/ Fail(q) \/ Crash(q) PROVE StillListed(p)'
    <2>1. CASE q = p
        BY <1>0, <1>3, <1>5, <2>1 DEF Proceed, Return, Fail, Crash
    <2>2. CASE q # p
        BY <1>2, <1>5, <2>2 DEF Proceed, HookStep, Return, Crash
    <2> QED BY <2>1, <2>2
<1> QED BY <1>1, <1>4, <1>5 DEF Next

(* Clear either reports an error or empties the directory, whoever removes *)
(* files at the same time: only a write made while it runs can survive it. *)
THEOREM ClearsEverything == Spec => []ClearLeavesNothing
<1>1. Init => ClearInv
    BY DEF Init, ClearInv, StillListed, Procs
<1>2. ClearInv => ClearLeavesNothing
    BY DEF ClearInv, StillListed, ClearLeavesNothing
<1> QED BY <1>1, <1>2, ClearInvStep, Typing, PTL DEF Spec

-----------------------------------------------------------------------------
(* Prune, for any number of processes and entries: while nobody disturbs a *)
(* sweep, what it knows agrees with the directory.                         *)
Sizes      == [r \in Refs |-> Size(r)]
Pending(p) == {r \in Refs : Zst(r) \in names[p]}
Waiting(p) == {x.ref : x \in items[p]}

(* An entry as the directory has it.                                       *)
Current(x) == x.ref \in Listed /\ x.size = Size(x.ref) /\ x.created = mtime[x.ref]

(* An entry that stays for good.                                           *)
Stays(p, r) == r = ref[p] \/ (~Expired(p, r) /\ ~(Limit[p] > 0 /\ total[p] > Limit[p]))

(* Each entry of the directory has still to be collected, or to be decided,*)
(* or it stays; the running total is the size of those collected.          *)
Tracks(p) ==
    /\ names[p] = {Zst(r) : r \in Pending(p)} /\ Pending(p) \subseteq Listed
    /\ \A x \in items[p] : Current(x) /\ x.ref \notin Pending(p)
    /\ total[p] = SumOver(Sizes, Listed \ Pending(p))
    /\ \A r \in Listed \ (Pending(p) \cup Waiting(p)) : names[p] = {} /\ Stays(p, r)

(* Between the two removals: one entry is gone, the total has it still.    *)
Half(p, v) ==
    /\ names[p] = {} /\ v \in items[p] /\ Oldest(v, items[p]) /\ v.ref \notin Listed
    /\ \A x \in items[p] \ {v} : Current(x)
    /\ total[p] = SumOver(Sizes, Listed) + v.size
    /\ \A r \in Listed \ Waiting(p) : Stays(p, r)

Undisturbed(p) ==
    /\ pc[p] \in {"sweep", "pruned"} => Tracks(p)
    /\ pc[p] = "dropMeta" => \E v \in items[p] : Half(p, v)

SweepKnows(p) ==
    /\ pc[p] \in {"idle", "putZst", "putMeta", "list"} => items[p] = {} /\ total[p] = 0
    /\ pc[p] = "pruned" => names[p] = {} /\ items[p] = {}
    /\ seen[p] = {} => Undisturbed(p)

SweepInv == IsFiniteSet(Listed) /\ \A p \in Procs : SweepKnows(p)

-----------------------------------------------------------------------------
LEMMA SizesAre ==
    ASSUME TypeOK
    PROVE  /\ Listed \subseteq Refs
           /\ \A r \in Listed : Sizes[r] = Size(r) /\ Size(r) \in Nat /\ Sizes[r] \in Int
    BY SizeType DEF Listed, Sizes

(* A call that is not in a sweep.                                          *)
LEMMA NotSweeping ==
    ASSUME NEW p \in Procs, pc'[p] \notin {"sweep", "dropMeta", "pruned"},
           pc'[p] \in {"idle", "putZst", "putMeta", "list"} => items'[p] = {} /\ total'[p] = 0
    PROVE  SweepKnows(p)'
    BY DEF SweepKnows, Undisturbed

(* Nothing has happened to the directory or to the sweep.                  *)
LEMMA SameSweep ==
    ASSUME NEW p \in Procs, SweepKnows(p), UNCHANGED files, now' = now,
           pc'[p] = pc[p] \/ (pc[p] = "sweep" /\ pc'[p] = "pruned" /\ names[p] = {} /\ items[p] = {}),
           names'[p] = names[p], items'[p] = items[p], total'[p] = total[p], ref'[p] = ref[p],
           seen[p] \subseteq seen'[p]
    PROVE  SweepKnows(p)'
<1>1. /\ Listed' = Listed /\ Sizes' = Sizes /\ Pending(p)' = Pending(p) /\ Waiting(p)' = Waiting(p)
      /\ \A r \in Refs : Stays(p, r)' <=> Stays(p, r)
      /\ \A x : Current(x)' <=> Current(x)
    BY DEF files, Listed, Sizes, Size, Pending, Waiting, Stays, Expired, Current
<1>2. Listed \subseteq Refs
    BY DEF Listed
<1>3. Tracks(p) => Tracks(p)'
    BY <1>1, <1>2 DEF Tracks
<1>4. \A v : Half(p, v) => Half(p, v)'
    BY <1>1, <1>2 DEF Half
<1>5. seen'[p] = {} => seen[p] = {}
    OBVIOUS
<1>6. Undisturbed(p) => Undisturbed(p)'
    BY <1>3, <1>4 DEF Undisturbed
<1> QED BY <1>5, <1>6 DEF SweepKnows

(* A step of another process is noticed by every sweep that it disturbs.   *)
LEMMA OthersDisturb ==
    ASSUME TypeOK, NEW p \in Procs, SweepKnows(p), NEW q \in Procs, q # p, Distant(p, q)
    PROVE  SweepKnows(p)'
<1>1. CASE pc[p] \notin Visiting
    BY <1>1, NotSweeping DEF Distant, Visiting, SweepKnows
<1>2. CASE pc[p] \in Visiting
    <2>1. UNCHANGED files \/ seen'[p] # {}
        BY <1>2 DEF Distant, RemoveZst, RemoveMeta, Stir, files
    <2>2. CASE UNCHANGED files
        BY <2>2, SameSweep DEF Distant
    <2>3. CASE seen'[p] # {}
        BY <2>3 DEF Distant, SweepKnows
    <2> QED BY <2>1, <2>2, <2>3
<1> QED BY <1>1, <1>2

(* So are the steps that are nobody's.                                     *)
LEMMA WorldDisturbs ==
    ASSUME TypeOK, NEW p \in Procs, SweepKnows(p),
           Tick \/ (\E r \in Refs : Damage(r)) \/ UNCHANGED vars
    PROVE  SweepKnows(p)'
<1>1. CASE UNCHANGED vars
    BY <1>1, SameSweep DEF vars, sweep
<1>2. CASE Tick \/ \E r \in Refs : Damage(r)
    <2>1. /\ pc' = pc /\ names' = names /\ items' = items /\ total' = total
          /\ pc[p] \in Visiting => seen'[p] # {}
        BY <1>2 DEF Tick, Damage, sweep
    <2>2. CASE pc[p] \notin Visiting
        BY <2>1, <2>2, NotSweeping DEF Visiting, SweepKnows
    <2>3. CASE pc[p] \in Visiting
        BY <2>1, <2>3 DEF SweepKnows
    <2> QED BY <2>2, <2>3
<1> QED BY <1>1, <1>2

(* The listing: every entry is still to be collected.                      *)
LEMMA ListSweep ==
    ASSUME TypeOK, NEW p \in Procs, SweepKnows(p), PruneList(p)
    PROVE  SweepKnows(p)'
<1>1. /\ pc[p] = "list" /\ pc'[p] = "sweep" /\ names'[p] = {Zst(r) : r \in Listed}
      /\ UNCHANGED <<files, now, ref, items, total, seen>>
    BY DEF PruneList, Goto, TypeOK, Listed
<1>2. items'[p] = {} /\ total'[p] = 0
    BY <1>1 DEF SweepKnows
<1>3. Listed' = Listed /\ Pending(p)' = Listed
    <2>1. Listed' = Listed
        BY <1>1 DEF files, Listed
    <2>2. \A r \in Refs : Zst(r) \in names'[p] <=> r \in Listed
        BY <1>1, EntryNames DEF Listed
    <2> QED BY <2>1, <2>2 DEF Pending, Listed
<1>4. SumOver(Sizes', {}) = 0
    BY SumEmpty
<1>5. Listed' \ Pending(p)' = {}
    BY <1>3
<1>6. Tracks(p)'
    BY <1>1, <1>2, <1>3, <1>4, <1>5 DEF Tracks
<1> QED BY <1>1, <1>6 DEF SweepKnows, Undisturbed

(* An entry is collected.                                                  *)
LEMMA ScanSweep ==
    ASSUME TypeOK, IsFiniteSet(Listed), NEW p \in Procs, SweepKnows(p),
           NEW x \in names[p], PruneScan(p, x)
    PROVE  SweepKnows(p)'
<1>1. /\ pc[p] = "sweep" /\ names'[p] = names[p] \ {x}
      /\ UNCHANGED <<files, now, ref, seen>>
    BY DEF PruneScan, TypeOK
<1>2. CASE zst[x[1]] = NoFile
    BY <1>2, NotSweeping DEF PruneScan, Goto, TypeOK
<1>3. CASE zst[x[1]] # NoFile
    <2>. DEFINE r == x[1]  entry == [ref |-> r, size |-> Size(r), created |-> mtime[r]]
    <2>1. pc'[p] = "sweep" /\ items'[p] = items[p] \cup {entry} /\ total'[p] = total[p] + Size(r)
        BY <1>1, <1>3 DEF PruneScan, TypeOK
    <2>2. ASSUME seen[p] = {} PROVE Tracks(p)'
        <3>1. Tracks(p)
            BY <1>1, <2>2 DEF SweepKnows, Undisturbed
        <3>2. x = Zst(r) /\ r \in Pending(p) /\ r \in Listed
            <4>1. PICK s \in Pending(p) : x = Zst(s)
                BY <3>1 DEF Tracks
            <4> QED BY <3>1, <4>1 DEF Tracks, Zst
        <3>. HIDE DEF r, entry
        <3>3. Listed' = Listed /\ Sizes' = Sizes /\ \A y : Current(y)' <=> Current(y)
            BY <1>1 DEF files, Listed, Sizes, Size, Current
        <3>4. Pending(p)' = Pending(p) \ {r}
            <4>1. \A s \in Refs : Zst(s) # x \/ s = r
                BY <3>2, EntryNames DEF Listed
            <4> QED BY <1>1, <3>2, <4>1 DEF Pending
        <3>5. names'[p] = {Zst(s) : s \in Pending(p)'} /\ Pending(p)' \subseteq Listed
            <4>1. \A s \in Pending(p) : Zst(s) # x \/ s = r
                BY <3>2, EntryNames DEF Pending
            <4>2. names[p] = {Zst(s) : s \in Pending(p)} /\ Pending(p) \subseteq Listed
                BY <3>1 DEF Tracks
            <4> QED BY <1>1, <3>2, <3>4, <4>1, <4>2
        <3>6. Current(entry) /\ entry.ref = r
            BY <3>2 DEF Current, entry
        <3>7. \A y \in items'[p] : Current(y) /\ y.ref \notin Pending(p)'
            BY <2>1, <3>1, <3>4, <3>6 DEF Tracks
        <3>8. total'[p] = SumOver(Sizes, Listed \ Pending(p)')
            <4>. DEFINE S == Listed \ Pending(p)
            <4>1. IsFiniteSet(S) /\ r \notin S /\ Listed \ Pending(p)' = S \cup {r}
                BY <3>2, <3>4, FS_Subset
            <4>2. \A y \in S \cup {r} : Sizes[y] \in Int
                BY <3>2, SizesAre
            <4>3. total[p] = SumOver(Sizes, S)
                BY <3>1 DEF Tracks
            <4>4. Sizes[r] = Size(r)
                BY <3>2, SizesAre
            <4>. HIDE DEF S
            <4>5. SumOver(Sizes, S \cup {r}) = SumOver(Sizes, S) + Sizes[r]
                BY <4>1, <4>2, SumAdd
            <4> QED BY <2>1, <4>1, <4>3, <4>4, <4>5
        <3>9. \A s \in Listed : s \in Pending(p)' \/ s \in Waiting(p)'
            <4>1. \A s \in Listed : s \in Pending(p) \/ s \in Waiting(p)
                BY <3>1 DEF Tracks
            <4>2. r \in Waiting(p)' /\ Waiting(p) \subseteq Waiting(p)'
                BY <2>1, <3>6 DEF Waiting
            <4> QED BY <3>4, <4>1, <4>2
        <3> QED BY <3>3, <3>5, <3>7, <3>8, <3>9 DEF Tracks
    <2> QED BY <1>1, <2>1, <2>2 DEF SweepKnows, Undisturbed
<1> QED BY <1>2, <1>3

(* An entry that is neither expired nor too much stays.                    *)
LEMMA KeepSweep ==
    ASSUME TypeOK, NEW p \in Procs, SweepKnows(p), NEW x \in items[p], PruneKeep(p, x)
    PROVE  SweepKnows(p)'
<1>1. /\ pc[p] = "sweep" /\ names[p] = {} /\ ~Doomed(p, x) /\ items'[p] = items[p] \ {x}
      /\ UNCHANGED <<files, now, pc, ref, names, total, seen>>
    BY DEF PruneKeep, Turn, TypeOK
<1>2. ASSUME seen[p] = {} PROVE Tracks(p)'
    <2>1. Tracks(p)
        BY <1>1, <1>2 DEF SweepKnows, Undisturbed
    <2>2. /\ Listed' = Listed /\ Sizes' = Sizes /\ Pending(p)' = Pending(p)
          /\ \A y : Current(y)' <=> Current(y)
          /\ \A r \in Refs : Stays(p, r)' <=> Stays(p, r)
        BY <1>1 DEF files, Listed, Sizes, Size, Pending, Current, Stays, Expired
    <2>3. Stays(p, x.ref) /\ x.ref \in Listed
        BY <1>1, <2>1 DEF Tracks, Current, Doomed, Stays, Expired
    <2>4. \A r \in Waiting(p) : r = x.ref \/ r \in Waiting(p)'
        BY <1>1 DEF Waiting
    <2>5. \A r \in Listed \ (Pending(p) \cup Waiting(p)') : names[p] = {} /\ Stays(p, r)
        BY <1>1, <2>1, <2>3, <2>4 DEF Tracks
    <2>6. Listed \subseteq Refs
        BY DEF Listed
    <2> QED BY <1>1, <2>1, <2>2, <2>5, <2>6 DEF Tracks
<1> QED BY <1>1, <1>2 DEF SweepKnows, Undisturbed

(* The first removal: what the total counts is gone.                       *)
LEMMA DropZstSweep ==
    ASSUME TypeOK, IsFiniteSet(Listed), NEW p \in Procs, SweepKnows(p),
           NEW x \in items[p], PruneDropZst(p, x)
    PROVE  SweepKnows(p)'
<1>. DEFINE r == x.ref
<1>1. /\ pc[p] = "sweep" /\ pc'[p] = "dropMeta" /\ names[p] = {} /\ Oldest(x, items[p])
      /\ UNCHANGED <<meta, now, ref, names, items, total>> /\ seen'[p] = seen[p]
      /\ zst' = [zst EXCEPT ![r] = NoFile] /\ mtime' = [mtime EXCEPT ![r] = 0]
    BY DEF PruneDropZst, Turn, RemoveZst, Stir, Goto, TypeOK, sweep
<1>2. ASSUME seen[p] = {} PROVE Half(p, x)'
    <2>1. Tracks(p)
        BY <1>1, <1>2 DEF SweepKnows, Undisturbed
    <2>2. Pending(p) = {}
        BY <1>1 DEF Pending
    <2>3. r \in Listed /\ Current(x)
        BY <2>1 DEF Tracks, Current
    <2>4. /\ Listed' = Listed \ {r}
          /\ \A s \in Listed \ {r} : Size(s)' = Size(s) /\ mtime'[s] = mtime[s]
        BY <1>1, <2>3 DEF Listed, Size, TypeOK
    <2>5. ASSUME NEW y \in items[p] \ {x} PROVE Current(y)'
        <3>1. Current(y) /\ y \in Item /\ x \in Item
            BY <2>1 DEF Tracks, TypeOK
        <3>2. y.ref # r
            BY <2>3, <3>1 DEF Current, Item
        <3> QED BY <2>4, <3>1, <3>2 DEF Current
    <2>6. total'[p] = SumOver(Sizes', Listed') + x.size
        <3>. DEFINE S == Listed \ {r}
        <3>1. IsFiniteSet(S) /\ r \notin S /\ Listed = S \cup {r}
            BY <2>3, FS_Subset
        <3>2. \A y \in S \cup {r} : Sizes[y] \in Int /\ Sizes[y] = Size(y)
            BY <3>1, SizesAre
        <3>3. \A y \in S : Sizes'[y] = Sizes[y]
            <4>1. \A y \in S : y \in Refs
                BY DEF Listed
            <4> QED BY <2>4, <4>1 DEF Sizes
        <3>4. total[p] = SumOver(Sizes, Listed)
            <4>1. Listed \ Pending(p) = Listed
                BY <2>2
            <4> QED BY <2>1, <4>1 DEF Tracks
        <3>5. Sizes[r] = x.size
            BY <2>3, <3>2 DEF Current
        <3>. DEFINE f == Sizes  e == Sizes'
        <3>6. \A y \in S : f[y] \in Int /\ f[y] = e[y]
            BY <3>2, <3>3
        <3>. HIDE DEF S, f, e
        <3>7. SumOver(f, S \cup {r}) = SumOver(f, S) + f[r]
            BY <3>1, <3>2, SumAdd DEF f
        <3>8. SumOver(f, S) = SumOver(e, S)
            BY <3>1, <3>6, SumSame
        <3> QED BY <1>1, <2>4, <3>1, <3>4, <3>5, <3>7, <3>8 DEF f, e, S
    <2>7. \A s \in Listed' \ Waiting(p)' : Stays(p, s)'
        <3>1. Waiting(p)' = Waiting(p) /\ \A s \in Listed \ Waiting(p) : Stays(p, s)
            BY <1>1, <2>1, <2>2 DEF Tracks, Waiting
        <3> QED BY <1>1, <2>4, <3>1 DEF Stays, Expired
    <2>8. Oldest(x, items[p])'
        BY <1>1 DEF Oldest
    <2>9. r \notin Listed'
        BY <2>4
    <2> QED BY <1>1, <2>5, <2>6, <2>7, <2>8, <2>9 DEF Half
<1> QED BY <1>1, <1>2 DEF SweepKnows, Undisturbed

(* The second removal: the total agrees again.                             *)
LEMMA DropMetaSweep ==
    ASSUME TypeOK, IsFiniteSet(Listed), NEW p \in Procs, SweepKnows(p),
           NEW x \in items[p], PruneDropMeta(p, x)
    PROVE  SweepKnows(p)'
<1>1. /\ pc[p] = "dropMeta" /\ pc'[p] = "sweep" /\ names[p] = {} /\ Oldest(x, items[p])
      /\ UNCHANGED <<zst, mtime, now, ref, names>> /\ seen'[p] = seen[p]
      /\ meta' = [meta EXCEPT ![x.ref] = NoFile]
      /\ items'[p] = items[p] \ {x} /\ total'[p] = total[p] - x.size
    BY DEF PruneDropMeta, Turn, RemoveMeta, Stir, Goto, TypeOK
<1>2. ASSUME seen[p] = {} PROVE Tracks(p)'
    <2>1. PICK v \in items[p] : Half(p, v)
        BY <1>1, <1>2 DEF SweepKnows, Undisturbed
    <2>2. v = x
        <3>1. v \in Item /\ x \in Item
            BY DEF TypeOK
        <3>2. /\ v.created \in Nat /\ x.created \in Nat
              /\ v.ref \in Nat /\ x.ref \in Nat
            BY <3>1, CacheAssumption DEF Item
        <3>3. Oldest(v, items[p]) /\ Oldest(x, items[p]) /\ v \in items[p]
            BY <1>1, <2>1 DEF Half
        <3>4. \/ v.created < x.created
              \/ v.created = x.created /\ v.ref <= x.ref
            BY <3>3 DEF Oldest
        <3>5. \/ x.created < v.created
              \/ x.created = v.created /\ x.ref <= v.ref
            BY <3>3 DEF Oldest
        <3>6. v.created = x.created /\ v.ref = x.ref
            BY <3>2, <3>4, <3>5
        <3> QED BY <2>1, <3>6 DEF Half, Current
    <2>3. /\ Listed' = Listed /\ x.ref \notin Listed /\ Pending(p)' = {}
          /\ \A s \in Listed : Size(s)' = Size(s) /\ s \in Refs
        BY <1>1, <2>1, <2>2 DEF Half, Listed, Size, Pending, TypeOK
    <2>4. ASSUME NEW y \in items'[p] PROVE Current(y)'
        BY <1>1, <2>1, <2>2, <2>3 DEF Half, Current
    <2>5. total'[p] = SumOver(Sizes', Listed')
        <3>. DEFINE f == Sizes  e == Sizes'  S == Listed
        <3>1. \A y \in S : f[y] \in Int /\ f[y] = e[y]
            BY <2>3, SizesAre DEF Sizes
        <3>2. total[p] = SumOver(f, S) + x.size /\ x.size \in Nat
            BY <2>1, <2>2 DEF Half, TypeOK, Item
        <3>3. IsFiniteSet(S)
            OBVIOUS
        <3>. HIDE DEF f, e, S
        <3>4. SumOver(f, S) = SumOver(e, S) /\ SumOver(f, S) \in Int
            BY <3>1, <3>3, SumSame, SumInt
        <3> QED BY <1>1, <2>3, <3>2, <3>4 DEF e, S
    <2>6. \A s \in Listed \ Waiting(p)' : Stays(p, s)'
        <3>1. \A s \in Waiting(p) : s = x.ref \/ s \in Waiting(p)'
            BY <1>1 DEF Waiting
        <3>2. \A s \in Listed \ Waiting(p)' : Stays(p, s)
            BY <2>1, <2>2, <2>3, <3>1 DEF Half
        <3>3. Limit[p] \in Int /\ total[p] \in Int /\ x.size \in Nat
            BY CacheAssumption DEF TypeOK, Item
        <3> QED BY <1>1, <3>2, <3>3 DEF Stays, Expired
    <2>7. Listed' \ Pending(p)' = Listed' /\ names'[p] = {}
        BY <1>1, <2>3
    <2> QED BY <2>3, <2>4, <2>5, <2>6, <2>7 DEF Tracks
<1> QED BY <1>1, <1>2 DEF SweepKnows, Undisturbed

(* All the steps of a process itself.                                      *)
LEMMA OwnSweep ==
    ASSUME TypeOK, IsFiniteSet(Listed), NEW p \in Procs, SweepKnows(p),
           \/ \E b \in Originals : HookBegin(p, b)
           \/ HookStep(p) \/ PruneBegin(p) \/ ClearBegin(p) \/ ClearStep(p)
           \/ (\E r \in Refs \cup {NoRef} : GetBegin(p, r)) \/ GetStep(p)
           \/ Fail(p) \/ Forget(p)
    PROVE  SweepKnows(p)'
<1>1. CASE \/ \E b \in Originals : HookBegin(p, b)
           \/ PruneBegin(p) \/ ClearBegin(p) \/ Forget(p)
           \/ \E r \in Refs \cup {NoRef} : GetBegin(p, r)
    BY <1>1, NotSweeping DEF HookBegin, PruneBegin, ClearBegin, Forget, GetBegin, Jump, Goto, sweep,
                SweepKnows, TypeOK
<1>2. CASE PutZst(p) \/ PutMeta(p)
    BY <1>2, NotSweeping DEF PutZst, PutMeta, Goto, sweep, SweepKnows, TypeOK
<1>3. CASE TooLarge(p) \/ Emit(p) \/ ClearEnd(p)
    BY <1>3, NotSweeping DEF TooLarge, Emit, ClearEnd, Jump, Goto, sweep, SweepKnows, TypeOK
<1>4. CASE GetStep(p) \/ Fail(p)
    BY <1>4, NotSweeping DEF GetStep, GetOpen, GetMeta, Fail, PutFail, PruneFail, ClearFail, GetFail,
                Jump, Goto, sweep, SweepKnows, TypeOK
<1>5. ASSUME NEW x \in names[p], ClearRemove(p, x) PROVE SweepKnows(p)'
    BY <1>5, NotSweeping DEF ClearRemove, Goto, TypeOK
<1>6. CASE PruneEnd(p)
    BY <1>6, SameSweep DEF PruneEnd, Jump, Goto, sweep, TypeOK
<1>7. CASE SweepStep(p)
    BY <1>6, <1>7, ListSweep, ScanSweep, KeepSweep, DropZstSweep, DropMetaSweep DEF SweepStep
<1> QED BY <1>1, <1>2, <1>3, <1>4, <1>5, <1>7 DEF HookStep, ClearStep

(* A step adds one entry to the directory at most.                         *)
LEMMA ListedStaysFinite ==
    ASSUME TypeOK, IsFiniteSet(Listed), [Next]_vars
    PROVE  IsFiniteSet(Listed)'
<1>1. \E r : \A s \in Refs : s # r => zst'[s] \in {zst[s], NoFile}
    <2>1. CASE UNCHANGED zst
        BY <2>1
    <2>2. ASSUME NEW r, NEW c, zst' = [zst EXCEPT ![r] = c] PROVE \A s \in Refs : s # r => zst'[s] \in {zst[s], NoFile}
        BY <2>2 DEF TypeOK
    <2>3. \/ UNCHANGED zst
          \/ \E r, c : zst' = [zst EXCEPT ![r] = c]
        <3>1. CASE Start \/ Tick \/ UNCHANGED vars
            BY <3>1 DEF Start, Tick, HookBegin, PruneBegin, ClearBegin, GetBegin, Jump, vars, files
        <3>2. CASE \E r \in Refs : Damage(r)
            BY <3>2 DEF Damage
        <3>3. ASSUME NEW p \in Procs, Proceed(p) PROVE \/ UNCHANGED zst \/ \E r, c : zst' = [zst EXCEPT ![r] = c]
            BY <3>3 DEF Proceed, HookStep, SweepStep, ClearStep, GetStep, Return, Forget, PutZst, TooLarge, PutMeta,
                        Emit, PruneList, PruneEnd, PruneScan, PruneKeep, PruneDropZst, PruneDropMeta, ClearEnd,
                        ClearRemove, GetOpen, GetMeta, RemoveZst, RemoveMeta, Jump, files
        <3>4. ASSUME NEW p \in Procs, Fail(p) \/ Crash(p) PROVE UNCHANGED zst
            BY <3>4 DEF Fail, PutFail, PruneFail, ClearFail, GetFail, Crash, Forget, Jump, files
        <3> QED BY <3>1, <3>2, <3>3, <3>4 DEF Next
    <2> QED BY <2>1, <2>2, <2>3
<1>2. PICK r : \A s \in Refs : s # r => zst'[s] \in {zst[s], NoFile}
    BY <1>1
<1>3. Listed' \subseteq Listed \cup {r}
    BY <1>2 DEF Listed
<1>4. IsFiniteSet(Listed \cup {r})
    BY FS_AddElement
<1> QED BY <1>3, <1>4, FS_Subset

LEMMA SweepInvStep == TypeOK /\ SweepInv /\ [Next]_vars => SweepInv'
<1>. SUFFICES ASSUME TypeOK, SweepInv, [Next]_vars PROVE SweepInv'
    OBVIOUS
<1>0. IsFiniteSet(Listed) /\ IsFiniteSet(Listed)'
    BY ListedStaysFinite DEF SweepInv
<1>. SUFFICES ASSUME NEW p \in Procs PROVE SweepKnows(p)'
    BY <1>0 DEF SweepInv
<1>1. SweepKnows(p)
    BY DEF SweepInv
<1>2. CASE Tick \/ (\E r \in Refs : Damage(r)) \/ UNCHANGED vars
    BY <1>1, <1>2, WorldDisturbs
<1>3. ASSUME NEW q \in Procs,
             \/ \E b \in Originals : HookBegin(q, b)
             \/ HookStep(q) \/ PruneBegin(q) \/ ClearBegin(q) \/ ClearStep(q)
             \/ (\E r \in Refs \cup {NoRef} : GetBegin(q, r)) \/ GetStep(q)
             \/ Fail(q) \/ Forget(q)
      PROVE SweepKnows(p)'
    <2>1. CASE q = p
        BY <1>0, <1>1, <1>3, <2>1, OwnSweep
    <2>2. CASE q # p
        <3>1. Distant(p, q)
            BY <1>3, <2>2, NextIsDistant
        <3> QED BY <1>1, <2>2, <3>1, OthersDisturb
    <2> QED BY <2>1, <2>2
<1>4. CASE Start
    BY <1>3, <1>4 DEF Start, Procs
<1>5. ASSUME NEW q \in Procs, Proceed(q) \/ Fail(q) \/ Crash(q) PROVE SweepKnows(p)'
    BY <1>3, <1>5 DEF Proceed, HookStep, Return, Crash
<1> QED BY <1>2, <1>4, <1>5 DEF Next

LEMMA SweepInvariant == Spec => [](TypeOK /\ SweepInv)
<1>1. Init => SweepInv
    <2> SUFFICES ASSUME Init PROVE SweepInv
        OBVIOUS
    <2>1. Listed = {}
        BY DEF Init, Listed
    <2>2. \A p \in Procs : SweepKnows(p)
        BY DEF Init, SweepKnows, Undisturbed
    <2> QED BY <2>1, <2>2, FS_EmptySet DEF SweepInv
<1> QED BY <1>1, SweepInvStep, Typing, PTL DEF Spec

(* What the directory holds is the sum that the sweeps keep.               *)
LEMMA DiskIs ==
    ASSUME TypeOK, IsFiniteSet(Listed)
    PROVE  DiskTotal = SumOver(Sizes, Listed)
<1>. DEFINE M == Listed
            Choice(t) == CHOOSE x \in t : TRUE
            FitsIn(g) == g = [t \in SUBSET M |-> IF t = {} THEN 0 ELSE Size(Choice(t)) + g[t \ {Choice(t)}]]
            iter == CHOOSE g : FitsIn(g)
            c == Picking(M)
            f == Sizes
<1>0. \A r \in M : f[r] = Size(r) /\ f[r] \in Int
    BY SizesAre
<1>1. Picks(c, M) /\ \E g : Summed(g, f, c, M) /\ SumOver(f, M) = g[M]
    BY <1>0, SumOverIs
<1>2. \A t \in SUBSET M : c[t] = Choice(t)
    BY DEF Picking
<1>3. ASSUME NEW g PROVE FitsIn(g) <=> Summed(g, f, c, M)
    <2>. HIDE DEF c, Choice, M, f
    <2>1. ASSUME NEW t \in SUBSET M, t # {}
          PROVE  f[c[t]] = Size(Choice(t)) /\ c[t] = Choice(t)
        <3>1. c[t] \in t
            BY <1>1, <2>1 DEF Picks
        <3> QED BY <1>0, <1>2, <3>1
    <2> QED BY <2>1 DEF Summed
<1>4. DiskTotal = iter[M]
    BY DEF DiskTotal, MapThenSumSet, MapThenFoldSet
<1>5. IsFiniteSet(M)
    OBVIOUS
<1>. HIDE DEF c, FitsIn, Choice, M, f
<1>6. PICK g : Summed(g, f, c, M) /\ SumOver(f, M) = g[M]
    BY <1>1
<1>7. Summed(iter, f, c, M)
    BY <1>3, <1>6
<1>8. iter[M] = g[M]
    BY <1>0, <1>1, <1>5, <1>6, <1>7, SumUnique
<1> QED BY <1>4, <1>6, <1>8 DEF M, f

(* SweepMeetsBudget: the running total of an undisturbed sweep is what the *)
(* directory holds, so it ends within the budget and with nothing expired. *)
THEOREM SweepsMeetTheBudget == Spec => []SweepMeetsBudget
<1>1. TypeOK /\ SweepInv => SweepMeetsBudget
    <2> SUFFICES ASSUME TypeOK, SweepInv, NEW p \in Procs, pc[p] = "pruned", seen[p] = {}
                 PROVE  /\ \A r \in Listed \ {ref[p]} : ~Expired(p, r)
                        /\ OverBudget(p) => Listed \subseteq {ref[p]}
        BY DEF SweepMeetsBudget
    <2>1. IsFiniteSet(Listed) /\ Tracks(p) /\ names[p] = {} /\ items[p] = {}
        BY DEF SweepInv, SweepKnows, Undisturbed
    <2>2. Pending(p) = {} /\ Waiting(p) = {}
        BY <2>1 DEF Pending, Waiting
    <2>3. Listed \ (Pending(p) \cup Waiting(p)) = Listed /\ Listed \ Pending(p) = Listed
        BY <2>2
    <2>4. total[p] = DiskTotal /\ \A r \in Listed : Stays(p, r)
        BY <2>1, <2>3, DiskIs DEF Tracks
    <2> QED BY <2>4 DEF Stays, OverBudget
<1> QED BY <1>1, SweepInvariant, PTL

(* SweepTakesOldest: such a sweep takes only what is expired or too much,  *)
(* and never while an older entry than that is there.                      *)
THEOREM SweepsTakeTheOldest == Spec => SweepTakesOldest
<1>1. TypeOK /\ SweepInv /\ [Next]_vars =>
        [\A p \in Procs, r \in Refs :
            pc[p] = "sweep" /\ pc'[p] = "dropMeta" /\ seen[p] = {} /\ Victim(r) =>
               /\ Expired(p, r) \/ OverBudget(p)
               /\ \A s \in Listed \ {ref[p]} : ~Older(s, r)]_vars
    <2> SUFFICES ASSUME TypeOK, SweepInv, Next, NEW p \in Procs, NEW r \in Refs,
                        pc[p] = "sweep", pc'[p] = "dropMeta", seen[p] = {}, Victim(r)
                 PROVE  /\ Expired(p, r) \/ OverBudget(p)
                        /\ \A s \in Listed \ {ref[p]} : ~Older(s, r)
        OBVIOUS
    <2>1. PICK x \in items[p] : PruneDropZst(p, x)
        <3>1. ASSUME NEW q \in Procs, q # p,
                     \/ \E b \in Originals : HookBegin(q, b)
                     \/ HookStep(q) \/ PruneBegin(q) \/ ClearBegin(q) \/ ClearStep(q)
                     \/ (\E s \in Refs \cup {NoRef} : GetBegin(q, s)) \/ GetStep(q)
                     \/ Fail(q) \/ Forget(q)
              PROVE FALSE
            BY <3>1, NextIsDistant DEF Distant
        <3>2. Proceed(p) \/ Fail(p) \/ Crash(p) \/ (Start /\ \A q \in Procs : q # p => TRUE)
            \/ Tick \/ (\E s \in Refs : Damage(s)) \/ \E q \in Procs : q # p /\ (Proceed(q) \/ Fail(q) \/ Crash(q))
            BY DEF Next
        <3>3. ~Tick /\ ~(\E s \in Refs : Damage(s))
            BY DEF Tick, Damage
        <3>4. ~\E q \in Procs : q # p /\ (Proceed(q) \/ Fail(q) \/ Crash(q))
            BY <3>1 DEF Proceed, HookStep, Return, Crash
        <3>5. ~Start
            BY <3>1 DEF Start, HookBegin, PruneBegin, ClearBegin, GetBegin, Procs
        <3>6. ~Fail(p) /\ ~Crash(p)
            BY DEF Fail, PutFail, PruneFail, ClearFail, GetFail, Jump, Goto, TypeOK, Crash, Forget
        <3>7. Proceed(p)
            BY <3>2, <3>3, <3>4, <3>5, <3>6
        <3>8. SweepStep(p)
            BY <3>7 DEF Proceed, HookStep, ClearStep, GetStep, Return, Finished, PutZst, TooLarge, PutMeta, Emit,
                        ClearEnd, ClearRemove, GetOpen, GetMeta, Jump
        <3> QED BY <3>8 DEF SweepStep, PruneList, PruneEnd, PruneScan, PruneKeep, PruneDropMeta, Jump, Goto, TypeOK
    <2>2. /\ names[p] = {} /\ Oldest(x, items[p]) /\ Doomed(p, x) /\ x.ref = r
        BY <2>1 DEF PruneDropZst, Turn, RemoveZst, Victim, TypeOK
    <2>3. IsFiniteSet(Listed) /\ Tracks(p)
        BY DEF SweepInv, SweepKnows, Undisturbed
    <2>4. Pending(p) = {} /\ Listed \ Pending(p) = Listed
        BY <2>2 DEF Pending
    <2>5. total[p] = DiskTotal /\ \A s \in Listed \ Waiting(p) : Stays(p, s)
        BY <2>3, <2>4, DiskIs DEF Tracks
    <2>6. Current(x) /\ \A y \in items[p] : Current(y)
        BY <2>3 DEF Tracks
    <2>7. Expired(p, r) \/ OverBudget(p)
        BY <2>2, <2>5, <2>6 DEF Doomed, Expired, OverBudget, Current
    <2>8. ASSUME NEW s \in Listed \ {ref[p]}, Older(s, r) PROVE FALSE
        <3>1. mtime[s] \in Nat /\ mtime[r] \in Nat /\ now \in Nat /\ Retention[p] \in Nat
              /\ s \in Nat /\ r \in Nat
            BY CacheAssumption DEF TypeOK, Listed
        <3>2. CASE s \in Waiting(p)
            <4>1. PICK y \in items[p] : y.ref = s
                BY <3>2 DEF Waiting
            <4>2. y.created = mtime[s] /\ x.created = mtime[r]
                BY <2>2, <2>6, <4>1 DEF Current
            <4> QED BY <2>2, <2>8, <3>1, <4>1, <4>2 DEF Oldest, Older
        <3>3. CASE s \notin Waiting(p)
            <4>1. ~Expired(p, s) /\ ~OverBudget(p)
                BY <2>5, <3>3 DEF Stays, OverBudget
            <4>2. Expired(p, r)
                BY <2>7, <4>1
            <4> QED BY <2>8, <3>1, <4>1, <4>2 DEF Expired, Older
        <3> QED BY <3>2, <3>3
    <2> QED BY <2>7, <2>8
<1> QED BY <1>1, SweepInvariant, PTL DEF Spec, SweepTakesOldest
===============================================================================
