--------------------------- MODULE DirectoryCache ---------------------------
(***************************************************************************)
(* The cache of directory listings, svfs/cache.go: one entry per directory *)
(* ("container:path"), with the names its listing had, its age, how often  *)
(* it was read and whether it is temporary.  Every method runs from its    *)
(* first line to its last under Cache.mutex, so every method is one        *)
(* action.  An entry's own mutex is only ever taken under Cache.mutex and  *)
(* has no state of its own here.                                           *)
(*                                                                         *)
(* What a method returns is an operator of its own (PeekFound, GetFound,   *)
(* GetAllHit), evaluated in the state the action starts from.              *)
(***************************************************************************)
EXTENDS Integers, FiniteSets

CONSTANTS
  Dirs,             \* cache keys, "container:path"
  Names,            \* names of direntries
  CacheMaxEntries,  \* option cache-max-entries, negative for no limit
  CacheMaxAccess,   \* option cache-max-access, negative for no limit
  CacheTimeout,     \* option cache-ttl, in ticks of the clock
  CountModulus,     \* nodeCount is an unsigned integer modulo this (2^64)
  AccessCap         \* accessCount is not counted beyond this

ASSUME CacheAssumption ==
  /\ IsFiniteSet(Dirs) /\ IsFiniteSet(Names)
  /\ CacheMaxEntries \in Int /\ CacheMaxAccess \in Int
  /\ CacheTimeout \in Nat
  /\ CountModulus \in Nat \ {0} /\ Cardinality(Dirs \X Names) < CountModulus
  /\ AccessCap \in Nat /\ CacheMaxAccess < AccessCap

VARIABLES
  content,    \* the entries, a function on the directories that have one
  nodeCount   \* how many nodes the cache believes its entries hold

cacheVars == <<content, nodeCount>>

Entry == [age : 0 .. CacheTimeout + 1, accessCount : 0 .. AccessCap,
          temporary : BOOLEAN, nodes : SUBSET Names]

CacheTypeOK ==
  /\ DOMAIN content \subseteq Dirs
  /\ content \in [DOMAIN content -> Entry]
  /\ nodeCount \in 0 .. CountModulus - 1

CacheInit == content = << >> /\ nodeCount = 0

-----------------------------------------------------------------------------
Put(d, e) == [x \in DOMAIN content \cup {d} |-> IF x = d THEN e ELSE content[x]]
Without(d) == [x \in DOMAIN content \ {d} |-> content[x]]

(* date.Add(CacheTimeout) has passed.  An age stands for the entry's date: *)
(* it stops growing once the entry has expired.                            *)
Expired(e) == e.age > CacheTimeout

Accessed(e) ==
  [e EXCEPT !.accessCount = IF @ < AccessCap THEN @ + 1 ELSE @]

(* Mutant: the limit is checked before the new nodes are counted.          *)
OverLimitStale(ns) == (CacheMaxEntries >= 0 /\ nodeCount >= CacheMaxEntries) \/ CacheMaxAccess = 0

(* The limit check of AddAll, in the order its operators bind: the sum is  *)
(* taken modulo CountModulus before it is compared.                        *)
OverLimit(ns) ==
  \/ /\ CacheMaxEntries >= 0
     /\ (nodeCount + Cardinality(ns)) % CountModulus >= CacheMaxEntries
  \/ CacheMaxAccess = 0

AddAll(d, ns) ==
  /\ content' = Put(d, [age |-> 0, accessCount |-> 0,
                        temporary |-> OverLimit(ns), nodes |-> ns])
  /\ nodeCount' = IF OverLimit(ns) THEN nodeCount
                  ELSE (nodeCount + Cardinality(ns)) % CountModulus

(* Mutants: temporary entries are evicted like the others; and with a      *)
(* signed counter.                                                         *)
EvictAny(d, e) ==
  /\ content' = Without(d)
  /\ nodeCount' = (nodeCount - Cardinality(e.nodes)) % CountModulus
EvictAnySigned(d, e) ==
  /\ content' = Without(d)
  /\ nodeCount' = nodeCount - Cardinality(e.nodes)

(* deleteAll spares a temporary entry, and counts what it deletes as it is *)
(* now, not as it was when it was added.                                   *)
Evict(d, e) ==
  IF e.temporary
  THEN content' = Put(d, e) /\ UNCHANGED nodeCount
  ELSE /\ content' = Without(d)
       /\ nodeCount' = (nodeCount - Cardinality(e.nodes)) % CountModulus

(* DeleteAll dereferences a missing entry before it looks at "found": the  *)
(* caller panics (the FUSE server answers EIO) and the cache is as before. *)
DeleteAllPanics(d) == d \notin DOMAIN content
DeleteAll(d) ==
  IF DeleteAllPanics(d) THEN UNCHANGED cacheVars ELSE Evict(d, content[d])

PeekFoundExpired(d) == d \in DOMAIN content  \* mutant: no expiry
PeekFound(d) == d \in DOMAIN content /\ ~Expired(content[d])

GetFound(d, n) == d \in DOMAIN content /\ n \in content[d].nodes

GetAllHit(d) == PeekFound(d)
LastAccessLate(e) == e.temporary \/ e.accessCount > CacheMaxAccess  \* mutant: off by one
LastAccess(e) == e.temporary \/ (CacheMaxAccess >= 0 /\ e.accessCount = CacheMaxAccess)
GetAll(d) ==
  IF d \notin DOMAIN content THEN UNCHANGED cacheVars
  ELSE LET e == Accessed(content[d])
       IN  IF Expired(e) \/ LastAccess(e)
           THEN Evict(d, e)
           ELSE content' = Put(d, e) /\ UNCHANGED nodeCount

(* Set and Delete change the entry's nodes and leave nodeCount alone.      *)
Set(d, n) ==
  /\ content' = IF d \in DOMAIN content
                THEN [content EXCEPT ![d].nodes = @ \cup {n}] ELSE content
  /\ UNCHANGED nodeCount
Delete(d, n) ==
  /\ content' = IF d \in DOMAIN content
                THEN [content EXCEPT ![d].nodes = @ \ {n}] ELSE content
  /\ UNCHANGED nodeCount

(* Time passes: every entry that has not expired yet gets older.           *)
Tick ==
  /\ \E d \in DOMAIN content : ~Expired(content[d])
  /\ content' = [d \in DOMAIN content |->
                   [content[d] EXCEPT !.age = IF Expired(content[d]) THEN @ ELSE @ + 1]]
  /\ UNCHANGED nodeCount

-----------------------------------------------------------------------------
(* Any callers, in any order.                                              *)
CacheNext ==
  \/ \E d \in Dirs, ns \in SUBSET Names : AddAll(d, ns)
  \/ \E d \in Dirs : GetAll(d)
  \/ \E d \in Dirs : DeleteAll(d)
  \/ \E d \in Dirs, n \in Names : Set(d, n)
  \/ \E d \in Dirs, n \in Names : Delete(d, n)
  \/ Tick
CacheSpec == CacheInit /\ [][CacheNext]_cacheVars

(* A read-only mount whose listings do not overlap: nothing is Set or      *)
(* deleted, and a listing is added only after GetAll missed, so over no    *)
(* entry or over a temporary one.                                          *)
Fill(d, ns) ==
  /\ d \in DOMAIN content => content[d].temporary /\ Expired(content[d])
  /\ AddAll(d, ns)
FillNext ==
  \/ \E d \in Dirs, ns \in SUBSET Names : Fill(d, ns)
  \/ \E d \in Dirs : GetAll(d)
  \/ Tick
FillSpec == CacheInit /\ [][FillNext]_cacheVars

-----------------------------------------------------------------------------
(* An entry that is in the cache for good has not been read as often as    *)
(* the access limit allows: the read that reaches it evicts the entry,     *)
(* whichever of its reads came before or after it expired.                 *)
AccessLimit ==
  \A d \in DOMAIN content :
    /\ ~content[d].temporary
    /\ CacheMaxAccess >= 0
    => content[d].accessCount < CacheMaxAccess

(* The nodes of the entries that count towards cache-max-entries.          *)
Counted == {p \in Dirs \X Names :
              /\ p[1] \in DOMAIN content
              /\ ~content[p[1]].temporary
              /\ p[2] \in content[p[1]].nodes}

(* nodeCount is what it claims to be; it never wraps below zero either.    *)
CountExact == nodeCount = Cardinality(Counted)

(* cmd/mount.go:198, README.md:136: at most cache-max-entries nodes are    *)
(* kept, temporary entries aside.                                          *)
EntriesWithinLimit ==
  CacheMaxEntries >= 0 => Cardinality(Counted) <= CacheMaxEntries
=============================================================================
