------------------------ MODULE DirectoryCacheProofs ------------------------
(***************************************************************************)
(* Proofs about svfs/cache.go: type correctness and the access limit for   *)
(* any callers, the exactness of nodeCount and the size limit for the      *)
(* fills of a read-only mount.                                             *)
(***************************************************************************)
EXTENDS DirectoryCache, FiniteSetTheorems, TLAPS

(* Adding or replacing one entry of the cache keeps it well-formed.        *)
LEMMA PutType ==
  ASSUME CacheTypeOK, NEW d \in Dirs, NEW e \in Entry
  PROVE  /\ DOMAIN Put(d, e) \subseteq Dirs
         /\ Put(d, e) \in [DOMAIN Put(d, e) -> Entry]
BY DEF CacheTypeOK, Put

(* So does taking one entry away.                                          *)
LEMMA WithoutType ==
  ASSUME CacheTypeOK, NEW d \in Dirs
  PROVE  /\ DOMAIN Without(d) \subseteq Dirs
         /\ Without(d) \in [DOMAIN Without(d) -> Entry]
BY DEF CacheTypeOK, Without

(* Counting an access yields an entry, which counts one access more as     *)
(* long as it had not reached the access limit.                            *)
LEMMA AccessedType ==
  ASSUME NEW e \in Entry
  PROVE  /\ Accessed(e) \in Entry
         /\ Accessed(e).temporary = e.temporary
         /\ Accessed(e).nodes = e.nodes
         /\ Accessed(e).age = e.age
         /\ e.accessCount < AccessCap => Accessed(e).accessCount = e.accessCount + 1
BY CacheAssumption DEF Entry, Accessed

(* The cardinality of a set of names is a natural number.                  *)
LEMMA NamesCardinality ==
  ASSUME NEW ns \in SUBSET Names
  PROVE  IsFiniteSet(ns) /\ Cardinality(ns) \in Nat
BY CacheAssumption, FS_Subset, FS_CardinalityType

(* nodeCount stays an unsigned integer whatever is added to or taken from  *)
(* it.                                                                     *)
LEMMA CountType ==
  ASSUME nodeCount \in 0 .. CountModulus - 1, NEW k \in Nat
  PROVE  /\ (nodeCount + k) % CountModulus \in 0 .. CountModulus - 1
         /\ (nodeCount - k) % CountModulus \in 0 .. CountModulus - 1
BY CacheAssumption

(* Evicting an entry keeps the cache well-formed.                          *)
LEMMA EvictType ==
  ASSUME CacheTypeOK, NEW d \in Dirs, NEW e \in Entry, Evict(d, e)
  PROVE  CacheTypeOK'
<1>1. CASE e.temporary
  BY <1>1, PutType DEF Evict, CacheTypeOK
<1>2. CASE ~e.temporary
  <2>1. Cardinality(e.nodes) \in Nat
    BY NamesCardinality DEF Entry
  <2>2. nodeCount' \in 0 .. CountModulus - 1
    BY <1>2, <2>1, CountType DEF Evict, CacheTypeOK
  <2> QED
    BY <1>2, <2>2, WithoutType DEF Evict, CacheTypeOK
<1> QED
  BY <1>1, <1>2

(* Adding a listing keeps it well-formed.                                  *)
LEMMA AddAllType ==
  ASSUME CacheTypeOK, NEW d \in Dirs, NEW ns \in SUBSET Names, AddAll(d, ns)
  PROVE  CacheTypeOK'
<1> DEFINE e == [age |-> 0, accessCount |-> 0, temporary |-> OverLimit(ns), nodes |-> ns]
<1>1. OverLimit(ns) \in BOOLEAN
  BY DEF OverLimit
<1>2. e \in Entry
  BY <1>1, CacheAssumption DEF Entry
<1>3. content' = Put(d, e)
  BY DEF AddAll
<1>4. nodeCount' \in 0 .. CountModulus - 1
  BY NamesCardinality, CountType DEF AddAll, CacheTypeOK
<1> QED
  BY <1>2, <1>3, <1>4, PutType DEF CacheTypeOK

(* A read keeps it well-formed, whether it evicts the entry or not.        *)
LEMMA GetAllType ==
  ASSUME CacheTypeOK, NEW d \in Dirs, GetAll(d)
  PROVE  CacheTypeOK'
<1>1. CASE d \notin DOMAIN content
  BY <1>1 DEF GetAll, cacheVars, CacheTypeOK
<1>2. CASE d \in DOMAIN content
  <2> DEFINE e == Accessed(content[d])
  <2>1. e \in Entry
    BY <1>2, AccessedType DEF CacheTypeOK
  <2>2. CASE Expired(e) \/ LastAccess(e)
    BY <1>2, <2>1, <2>2, EvictType DEF GetAll
  <2>3. CASE ~(Expired(e) \/ LastAccess(e))
    BY <1>2, <2>1, <2>3, PutType DEF GetAll, CacheTypeOK
  <2> QED
    BY <2>2, <2>3
<1> QED
  BY <1>1, <1>2

(* Adding a node to an entry, and taking one away, keep the cache          *)
(* well-formed.                                                            *)
LEMMA SetDeleteType ==
  ASSUME CacheTypeOK, NEW d \in Dirs, NEW n \in Names, Set(d, n) \/ Delete(d, n)
  PROVE  CacheTypeOK'
BY DEF CacheTypeOK, Set, Delete, Entry

(* A removal of the whole entry, when it is there.                         *)
LEMMA DeleteAllType ==
  ASSUME CacheTypeOK, NEW d \in Dirs, DeleteAll(d)
  PROVE  CacheTypeOK'
<1>1. CASE DeleteAllPanics(d)
  BY <1>1 DEF DeleteAll, cacheVars, CacheTypeOK
<1>2. CASE ~DeleteAllPanics(d)
  BY <1>2, EvictType DEF DeleteAll, DeleteAllPanics, CacheTypeOK
<1> QED
  BY <1>1, <1>2

(* So does time: ages stop just after the timeout.                         *)
LEMMA TickType ==
  ASSUME CacheTypeOK, Tick
  PROVE  CacheTypeOK'
<1>1. ASSUME NEW d \in DOMAIN content
      PROVE  [content[d] EXCEPT !.age = IF Expired(content[d]) THEN @ ELSE @ + 1] \in Entry
  BY CacheAssumption DEF CacheTypeOK, Entry, Expired
<1> QED
  BY <1>1 DEF Tick, CacheTypeOK

(* The cache is well-formed, whoever calls its methods in whatever order:  *)
(* in particular nodeCount never leaves the range of an unsigned integer.  *)
THEOREM CacheTypeCorrect == CacheSpec => []CacheTypeOK
<1>1. CacheInit => CacheTypeOK
  BY CacheAssumption DEF CacheInit, CacheTypeOK
<1>2. CacheTypeOK /\ [CacheNext]_cacheVars => CacheTypeOK'
  <2> SUFFICES ASSUME CacheTypeOK, [CacheNext]_cacheVars
               PROVE  CacheTypeOK'
    OBVIOUS
  <2>1. ASSUME NEW d \in Dirs, NEW ns \in SUBSET Names, AddAll(d, ns)
        PROVE  CacheTypeOK'
    BY <2>1, AddAllType
  <2>2. ASSUME NEW d \in Dirs, GetAll(d)
        PROVE  CacheTypeOK'
    BY <2>2, GetAllType
  <2>3. ASSUME NEW d \in Dirs, DeleteAll(d)
        PROVE  CacheTypeOK'
    BY <2>3, DeleteAllType
  <2>4. ASSUME NEW d \in Dirs, NEW n \in Names, Set(d, n)
        PROVE  CacheTypeOK'
    BY <2>4, SetDeleteType
  <2>5. ASSUME NEW d \in Dirs, NEW n \in Names, Delete(d, n)
        PROVE  CacheTypeOK'
    BY <2>5, SetDeleteType
  <2>6. CASE Tick
    BY <2>6, TickType
  <2>7. CASE UNCHANGED cacheVars
    BY <2>7 DEF cacheVars, CacheTypeOK
  <2> QED
    BY <2>1, <2>2, <2>3, <2>4, <2>5, <2>6, <2>7 DEF CacheNext
<1> QED
  BY <1>1, <1>2, PTL DEF CacheSpec

-----------------------------------------------------------------------------
(* What each method does to the entries as their readers see them: which   *)
(* directories have one, its age and its nodes.                            *)
SameEntry(x) ==
  /\ x \in DOMAIN content' <=> x \in DOMAIN content
  /\ x \in DOMAIN content => /\ content'[x].nodes = content[x].nodes
                             /\ content'[x].age = content[x].age

(* Set and Delete change the nodes of one entry.                           *)
LEMMA SetEffect ==
  ASSUME CacheTypeOK, NEW d \in Dirs, NEW n \in Names, Set(d, n)
  PROVE  /\ DOMAIN content' = DOMAIN content
         /\ \A x \in Dirs \ {d} : SameEntry(x)
         /\ d \in DOMAIN content => /\ content'[d].nodes = content[d].nodes \cup {n}
                                    /\ content'[d].age = content[d].age
BY DEF CacheTypeOK, Entry, Set, SameEntry

LEMMA DeleteEffect ==
  ASSUME CacheTypeOK, NEW d \in Dirs, NEW n \in Names, Delete(d, n)
  PROVE  /\ DOMAIN content' = DOMAIN content
         /\ \A x \in Dirs \ {d} : SameEntry(x)
         /\ d \in DOMAIN content => /\ content'[d].nodes = content[d].nodes \ {n}
                                    /\ content'[d].age = content[d].age
BY DEF CacheTypeOK, Entry, Delete, SameEntry

(* AddAll replaces it.                                                     *)
LEMMA AddAllEffect ==
  ASSUME NEW d \in Dirs, NEW ns \in SUBSET Names, AddAll(d, ns)
  PROVE  /\ DOMAIN content' = DOMAIN content \cup {d}
         /\ \A x \in Dirs \ {d} : SameEntry(x)
         /\ content'[d].nodes = ns
BY DEF AddAll, Put, SameEntry

(* An eviction takes it away or leaves its nodes and its age alone.        *)
LEMMA EvictEffect ==
  ASSUME NEW d \in DOMAIN content, NEW e, Evict(d, e),
         e.nodes = content[d].nodes, e.age = content[d].age
  PROVE  /\ \A x \in Dirs \ {d} : SameEntry(x)
         /\ d \in DOMAIN content' => SameEntry(d)
BY DEF Evict, Put, Without, SameEntry

LEMMA DeleteAllEffect ==
  ASSUME NEW d \in Dirs, DeleteAll(d)
  PROVE  /\ \A x \in Dirs \ {d} : SameEntry(x)
         /\ d \in DOMAIN content' => SameEntry(d)
<1>1. CASE d \notin DOMAIN content
  BY <1>1 DEF DeleteAll, DeleteAllPanics, cacheVars, SameEntry
<1>2. CASE d \in DOMAIN content
  BY <1>2, EvictEffect DEF DeleteAll, DeleteAllPanics
<1> QED
  BY <1>1, <1>2

LEMMA GetAllEffect ==
  ASSUME CacheTypeOK, NEW d \in Dirs, GetAll(d)
  PROVE  /\ \A x \in Dirs \ {d} : SameEntry(x)
         /\ d \in DOMAIN content' => SameEntry(d)
<1>1. CASE d \notin DOMAIN content
  BY <1>1 DEF GetAll, cacheVars, SameEntry
<1>2. CASE d \in DOMAIN content
  <2> DEFINE e == Accessed(content[d])
  <2>1. e.nodes = content[d].nodes /\ e.age = content[d].age
    BY <1>2, AccessedType DEF CacheTypeOK
  <2>2. CASE Evict(d, e)
    BY <1>2, <2>1, <2>2, EvictEffect
  <2>3. CASE content' = Put(d, e)
    BY <1>2, <2>1, <2>3 DEF Put, SameEntry
  <2> QED
    BY <1>2, <2>2, <2>3 DEF GetAll
<1> QED
  BY <1>1, <1>2

(* Time leaves the nodes alone and never makes an expired entry young.     *)
LEMMA TickEffect ==
  ASSUME CacheTypeOK, Tick
  PROVE  /\ DOMAIN content' = DOMAIN content
         /\ \A x \in DOMAIN content : content'[x].nodes = content[x].nodes
         /\ \A x \in Dirs : PeekFound(x)' => PeekFound(x)
<1>1. DOMAIN content' = DOMAIN content
  BY DEF Tick
<1>2. ASSUME NEW x \in DOMAIN content
      PROVE  /\ content'[x].nodes = content[x].nodes
             /\ Expired(content[x]) => content'[x].age = content[x].age
  BY <1>2 DEF Tick, CacheTypeOK, Entry
<1> QED
  BY <1>1, <1>2 DEF PeekFound, Expired

-----------------------------------------------------------------------------
(* Evicting an entry, or putting it back when its access count is below    *)
(* the limit, keeps the access limit.                                      *)
LEMMA EvictLimit ==
  ASSUME CacheTypeOK, AccessLimit, NEW d \in Dirs, NEW e \in Entry, Evict(d, e)
  PROVE  AccessLimit'
BY DEF Evict, Put, Without, AccessLimit

(* Putting an entry that is within the access limit keeps the limit.       *)
LEMMA PutLimit ==
  ASSUME CacheTypeOK, AccessLimit, NEW d \in Dirs, NEW e \in Entry,
         e.temporary \/ CacheMaxAccess < 0 \/ e.accessCount < CacheMaxAccess,
         content' = Put(d, e)
  PROVE  AccessLimit'
<1> SUFFICES ASSUME NEW x \in DOMAIN content', ~content'[x].temporary, CacheMaxAccess >= 0
             PROVE  content'[x].accessCount < CacheMaxAccess
  BY DEF AccessLimit
<1>1. CASE x = d
  BY <1>1, CacheAssumption DEF Put
<1>2. CASE x # d
  BY <1>2 DEF Put, AccessLimit
<1> QED
  BY <1>1, <1>2

(* A read that is not the last one leaves the count below the limit: it    *)
(* goes up by one from below the limit and does not reach it.              *)
LEMMA GetAllLimit ==
  ASSUME CacheTypeOK, AccessLimit, NEW d \in Dirs, GetAll(d)
  PROVE  AccessLimit'
<1>1. CASE d \notin DOMAIN content
  BY <1>1 DEF GetAll, cacheVars, AccessLimit
<1>2. CASE d \in DOMAIN content
  <2> DEFINE e == Accessed(content[d])
  <2>1. content[d] \in Entry /\ e \in Entry
    BY <1>2, AccessedType DEF CacheTypeOK
  <2>2. CASE Expired(e) \/ LastAccess(e)
    BY <1>2, <2>1, <2>2, EvictLimit DEF GetAll
  <2>3. CASE ~(Expired(e) \/ LastAccess(e))
    <3>1. content' = Put(d, e)
      BY <1>2, <2>3 DEF GetAll
    <3>2. e.temporary \/ CacheMaxAccess < 0 \/ e.accessCount < CacheMaxAccess
      <4>1. CASE ~e.temporary /\ CacheMaxAccess >= 0
        <5>1. content[d].accessCount < CacheMaxAccess
          BY <1>2, <2>1, <4>1, AccessedType DEF AccessLimit
        <5>2. e.accessCount = content[d].accessCount + 1
          BY <2>1, <5>1, AccessedType, CacheAssumption DEF Entry
        <5>3. e.accessCount # CacheMaxAccess
          BY <2>3, <4>1 DEF LastAccess
        <5> QED
          BY <2>1, <5>1, <5>2, <5>3, CacheAssumption DEF Entry
      <4> QED
        BY <4>1, CacheAssumption
    <3> QED
      BY <2>1, <3>1, <3>2, PutLimit
  <2> QED
    BY <2>2, <2>3
<1> QED
  BY <1>1, <1>2

(* Whoever calls the cache, an entry that is kept has been read less often *)
(* than cache-max-access allows.                                           *)
THEOREM AccessLimitHolds == CacheSpec => []AccessLimit
<1>1. CacheInit => AccessLimit
  BY DEF CacheInit, AccessLimit
<1>2. CacheTypeOK /\ AccessLimit /\ [CacheNext]_cacheVars => AccessLimit'
  <2> SUFFICES ASSUME CacheTypeOK, AccessLimit, [CacheNext]_cacheVars
               PROVE  AccessLimit'
    OBVIOUS
  <2>1. ASSUME NEW d \in Dirs, NEW ns \in SUBSET Names, AddAll(d, ns)
        PROVE  AccessLimit'
    <3> DEFINE e == [age |-> 0, accessCount |-> 0, temporary |-> OverLimit(ns), nodes |-> ns]
    <3>1. e \in Entry
      BY CacheAssumption DEF Entry, OverLimit
    <3>2. e.temporary \/ CacheMaxAccess < 0 \/ e.accessCount < CacheMaxAccess
      BY CacheAssumption DEF OverLimit
    <3> QED
      BY <2>1, <3>1, <3>2, PutLimit DEF AddAll
  <2>2. ASSUME NEW d \in Dirs, GetAll(d)
        PROVE  AccessLimit'
    BY <2>2, GetAllLimit
  <2>3. ASSUME NEW d \in Dirs, DeleteAll(d)
        PROVE  AccessLimit'
    <3>1. CASE DeleteAllPanics(d)
      BY <2>3, <3>1 DEF DeleteAll, cacheVars, AccessLimit
    <3>2. CASE ~DeleteAllPanics(d)
      BY <2>3, <3>2, EvictLimit DEF DeleteAll, DeleteAllPanics, CacheTypeOK
    <3> QED
      BY <3>1, <3>2
  <2>4. ASSUME NEW d \in Dirs, NEW n \in Names, Set(d, n) \/ Delete(d, n)
        PROVE  AccessLimit'
    BY <2>4 DEF Set, Delete, AccessLimit, CacheTypeOK, Entry
  <2>5. CASE Tick
    BY <2>5 DEF Tick, AccessLimit, CacheTypeOK, Entry
  <2>6. CASE UNCHANGED cacheVars
    BY <2>6 DEF cacheVars, AccessLimit
  <2> QED
    BY <2>1, <2>2, <2>3, <2>4, <2>5, <2>6 DEF CacheNext
<1> QED
  BY <1>1, <1>2, CacheTypeCorrect, PTL DEF CacheSpec

-----------------------------------------------------------------------------
(* The nodes of directory d's entry, as they appear in Counted.            *)
CountedIn(d, ns) == {d} \X ns

(* They are as many as the entry has nodes.                                *)
LEMMA CountedInCardinality ==
  ASSUME NEW d \in Dirs, NEW ns \in SUBSET Names
  PROVE  /\ IsFiniteSet(CountedIn(d, ns))
         /\ Cardinality(CountedIn(d, ns)) = Cardinality(ns)
<1>1. IsFiniteSet(ns) /\ IsFiniteSet({d}) /\ Cardinality({d}) = 1
  BY NamesCardinality, FS_Singleton
<1>2. /\ IsFiniteSet({d} \X ns)
      /\ Cardinality({d} \X ns) = Cardinality({d}) * Cardinality(ns)
  BY <1>1, FS_Product
<1>3. Cardinality(ns) \in Nat
  BY NamesCardinality
<1> QED
  BY <1>1, <1>2, <1>3 DEF CountedIn

(* There are fewer counted nodes than nodeCount can hold.                  *)
LEMMA CountedFits ==
  ASSUME NEW S \in SUBSET (Dirs \X Names)
  PROVE  /\ IsFiniteSet(S)
         /\ Cardinality(S) \in Nat
         /\ Cardinality(S) < CountModulus
<1>1. IsFiniteSet(Dirs \X Names)
  BY CacheAssumption, FS_Product
<1>2. IsFiniteSet(S) /\ Cardinality(S) <= Cardinality(Dirs \X Names)
  BY <1>1, FS_Subset
<1>3. Cardinality(S) \in Nat /\ Cardinality(Dirs \X Names) \in Nat
  BY <1>1, <1>2, FS_CardinalityType
<1> QED
  BY <1>2, <1>3, CacheAssumption

(* Evicting a counted entry subtracts what it contributed.                 *)
LEMMA EvictCount ==
  ASSUME CacheTypeOK, CountExact, NEW d \in DOMAIN content, NEW e \in Entry,
         e.temporary = content[d].temporary, e.nodes = content[d].nodes,
         Evict(d, e)
  PROVE  CountExact'
<1> USE DEF CountExact
<1>0. d \in Dirs /\ content[d] \in Entry
  BY DEF CacheTypeOK
<1>1. CASE e.temporary
  <2>1. Counted' = Counted
    BY <1>1 DEF Evict, Put, Counted
  <2> QED
    BY <1>1, <2>1 DEF Evict
<1>2. CASE ~e.temporary
  <2> DEFINE C == CountedIn(d, e.nodes)
  <2>1. C \subseteq Counted
    BY <1>0, <1>2 DEF CountedIn, Counted, Entry
  <2>2. Counted' = Counted \ C
    BY <1>2 DEF Evict, Without, CountedIn, Counted
  <2>3. IsFiniteSet(Counted) /\ Cardinality(Counted) \in Nat /\ Cardinality(Counted) < CountModulus
    BY CountedFits DEF Counted
  <2>4. IsFiniteSet(C) /\ Cardinality(C) = Cardinality(e.nodes) /\ Cardinality(C) \in Nat
    BY <1>0, CountedInCardinality, NamesCardinality DEF Entry
  <2>5. /\ Cardinality(Counted \ C) = Cardinality(Counted) - Cardinality(Counted \cap C)
        /\ Counted \cap C = C
    BY <2>1, <2>3, FS_Difference
  <2>6. Cardinality(Counted \ C) \in Nat
    BY <2>3, FS_Difference, FS_CardinalityType
  <2>7. nodeCount' = (Cardinality(Counted) - Cardinality(C)) % CountModulus
    BY <1>2, <2>4 DEF Evict
  <2>8. Cardinality(Counted \ C) < CountModulus
    BY CountedFits DEF Counted
  <2> QED
    BY <2>2, <2>5, <2>6, <2>7, <2>8, CacheAssumption
<1> QED
  BY <1>1, <1>2

(* A listing that is added for good, over no entry or a temporary one,     *)
(* adds its nodes to those that count.                                     *)
LEMMA FillCount ==
  ASSUME CacheTypeOK, CountExact, NEW d \in Dirs, NEW ns \in SUBSET Names, Fill(d, ns)
  PROVE  CountExact'
<1> USE DEF CountExact
<1> DEFINE C == CountedIn(d, ns)
<1>1. Counted \cap C = {}
  BY DEF Fill, CountedIn, Counted
<1>2. CASE OverLimit(ns)
  <2>1. Counted' = Counted
    BY <1>2 DEF Fill, AddAll, Put, Counted
  <2> QED
    BY <1>2, <2>1 DEF Fill, AddAll
<1>3. CASE ~OverLimit(ns)
  <2>1. Counted' = Counted \cup C
    BY <1>3 DEF Fill, AddAll, Put, CountedIn, Counted
  <2>2. C \in SUBSET (Dirs \X Names) /\ Counted \in SUBSET (Dirs \X Names)
    BY DEF CountedIn, Counted
  <2>3. /\ IsFiniteSet(Counted) /\ Cardinality(Counted) \in Nat
        /\ IsFiniteSet(C) /\ Cardinality(C) \in Nat
        /\ Cardinality(Counted \cup C) \in Nat
        /\ Cardinality(Counted \cup C) < CountModulus
    BY <2>2, CountedFits
  <2>4. Cardinality(Counted \cup C) = Cardinality(Counted) + Cardinality(C)
    BY <1>1, <2>3, FS_Union, FS_EmptySet
  <2>5. Cardinality(C) = Cardinality(ns)
    BY CountedInCardinality
  <2>6. nodeCount' = (Cardinality(Counted) + Cardinality(C)) % CountModulus
    BY <1>3, <2>5 DEF Fill, AddAll
  <2> QED
    BY <2>1, <2>3, <2>4, <2>6, CacheAssumption
<1> QED
  BY <1>2, <1>3

(* A read only changes what counts when it evicts the entry.               *)
LEMMA GetAllCount ==
  ASSUME CacheTypeOK, CountExact, NEW d \in Dirs, GetAll(d)
  PROVE  CountExact'
<1>1. CASE d \notin DOMAIN content
  BY <1>1 DEF GetAll, cacheVars, CountExact, Counted
<1>2. CASE d \in DOMAIN content
  <2> DEFINE e == Accessed(content[d])
  <2>1. e \in Entry /\ e.temporary = content[d].temporary /\ e.nodes = content[d].nodes
    BY <1>2, AccessedType DEF CacheTypeOK
  <2>2. CASE Expired(e) \/ LastAccess(e)
    BY <1>2, <2>1, <2>2, EvictCount DEF GetAll
  <2>3. CASE ~(Expired(e) \/ LastAccess(e))
    <3>1. content' = Put(d, e) /\ UNCHANGED nodeCount
      BY <1>2, <2>3 DEF GetAll
    <3>2. Counted' = Counted
      BY <1>2, <2>1, <3>1 DEF Put, Counted
    <3> QED
      BY <3>1, <3>2 DEF CountExact
  <2> QED
    BY <2>2, <2>3
<1> QED
  BY <1>1, <1>2

(* Time does not change what counts.                                       *)
LEMMA TickCount ==
  ASSUME CacheTypeOK, Tick
  PROVE  Counted' = Counted /\ UNCHANGED nodeCount
BY DEF Tick, Counted, CacheTypeOK, Entry

(* The fills of a read-only mount are calls any caller could make.         *)
LEMMA FillIsCache == FillSpec => CacheSpec
<1>1. FillNext => CacheNext
  BY DEF FillNext, CacheNext, Fill
<1> QED
  BY <1>1, PTL DEF FillSpec, CacheSpec

(* On a read-only mount nodeCount is the number of the nodes cached for    *)
(* good: what an eviction subtracts is what the fill added.                *)
THEOREM CountExactHolds == FillSpec => []CountExact
<1>1. CacheInit => CountExact
  <2>1. ASSUME CacheInit PROVE Counted = {}
    BY <2>1 DEF CacheInit, Counted
  <2> QED
    BY <2>1, FS_EmptySet DEF CacheInit, CountExact
<1>2. CacheTypeOK /\ CountExact /\ [FillNext]_cacheVars => CountExact'
  <2> SUFFICES ASSUME CacheTypeOK, CountExact, [FillNext]_cacheVars
               PROVE  CountExact'
    OBVIOUS
  <2>1. ASSUME NEW d \in Dirs, NEW ns \in SUBSET Names, Fill(d, ns)
        PROVE  CountExact'
    BY <2>1, FillCount
  <2>2. ASSUME NEW d \in Dirs, GetAll(d)
        PROVE  CountExact'
    BY <2>2, GetAllCount
  <2>3. CASE Tick
    BY <2>3, TickCount DEF CountExact
  <2>4. CASE UNCHANGED cacheVars
    BY <2>4 DEF cacheVars, CountExact, Counted
  <2> QED
    BY <2>1, <2>2, <2>3, <2>4 DEF FillNext
<1> QED
  BY <1>1, <1>2, FillIsCache, CacheTypeCorrect, PTL DEF FillSpec

(* On a read-only mount the cache never holds more nodes for good than     *)
(* cache-max-entries allows: nodeCount is exact, and a fill that would     *)
(* take it to the limit is temporary.                                      *)
THEOREM EntriesWithinLimitHolds == FillSpec => []EntriesWithinLimit
<1> DEFINE Within == CacheMaxEntries >= 0 => nodeCount <= CacheMaxEntries
<1>1. CacheInit => Within
  BY CacheAssumption DEF CacheInit
<1>2. CacheTypeOK /\ CountExact /\ CountExact' /\ Within /\ [FillNext]_cacheVars => Within'
  <2> SUFFICES ASSUME CacheTypeOK, CountExact, CountExact', Within, [FillNext]_cacheVars,
                      CacheMaxEntries >= 0
               PROVE  nodeCount' <= CacheMaxEntries
    BY CacheAssumption
  <2>0. nodeCount \in Nat /\ nodeCount <= CacheMaxEntries
    BY CacheAssumption DEF CacheTypeOK
  <2>1. ASSUME NEW d \in Dirs, NEW ns \in SUBSET Names, Fill(d, ns)
        PROVE  nodeCount' <= CacheMaxEntries
    <3>1. Cardinality(ns) \in Nat
      BY NamesCardinality
    <3>2. (nodeCount + Cardinality(ns)) % CountModulus \in Nat
      BY <2>0, <3>1, CacheAssumption
    <3> QED
      BY <2>0, <2>1, <3>2, CacheAssumption DEF Fill, AddAll, OverLimit
  <2>2. ASSUME NEW d \in Dirs, GetAll(d)
        PROVE  nodeCount' <= CacheMaxEntries
    <3>1. Counted' \subseteq Counted
      <4>1. CASE d \notin DOMAIN content
        BY <2>2, <4>1 DEF GetAll, cacheVars, Counted
      <4>2. CASE d \in DOMAIN content
        <5>1. content[d] \in Entry
          BY <4>2 DEF CacheTypeOK
        <5>2. /\ Accessed(content[d]).temporary = content[d].temporary
              /\ Accessed(content[d]).nodes = content[d].nodes
          BY <5>1, AccessedType
        <5> QED
          BY <2>2, <4>2, <5>2 DEF GetAll, Evict, Put, Without, Counted
      <4> QED
        BY <4>1, <4>2
    <3>2. /\ IsFiniteSet(Counted)
          /\ Cardinality(Counted') \in Nat /\ Cardinality(Counted) \in Nat
      BY <3>1, CountedFits DEF Counted
    <3>3. Cardinality(Counted') <= Cardinality(Counted)
      BY <3>1, <3>2, FS_Subset
    <3> QED
      BY <2>0, <3>2, <3>3, CacheAssumption DEF CountExact
  <2>3. CASE Tick \/ UNCHANGED cacheVars
    BY <2>0, <2>3, TickCount DEF cacheVars
  <2> QED
    BY <2>1, <2>2, <2>3 DEF FillNext
<1>3. Within /\ CountExact => EntriesWithinLimit
  BY DEF CountExact, EntriesWithinLimit
<1> QED
  BY <1>1, <1>2, <1>3, CountExactHolds, FillIsCache, CacheTypeCorrect, PTL DEF FillSpec
=============================================================================
