----------------------------- MODULE ListingProofs -----------------------------
(***************************************************************************)
(* A listing receives each of its results and closes its channel after the *)
(* last one was sent, for any number of listings, nodes and workers and    *)
(* any bound of the channels; it misses only what was released between its *)
(* two looks into the cache of changing objects.                           *)
(***************************************************************************)
EXTENDS Listing, FiniteSetTheorems, TLAPS

(* The inductive invariant.                                                *)
Inv == TypeOK /\ NoSendAfterClose /\ NoResultLost /\ ListingInvariant

USE ListingAssumption

(* A task is on its way, and a value is in a sequence.                     *)
Has(s, x) == \E i \in DOMAIN s : s[i] = x
OnWay(l, n) == <<l, n>> \in spawned \/ InChan(l, n) \/ InWork(l, n) \/ InResults(l, n)

LEMMA OutstandingIs ==
  ASSUME NEW l \in Listings PROVE Outstanding(l) = {n \in Nodes : OnWay(l, n)}
BY DEF Outstanding, OnWay, InChan, InWork, InResults

LEMMA OutstandingFinite ==
  ASSUME NEW l \in Listings
  PROVE  IsFiniteSet(Outstanding(l)) /\ Cardinality(Outstanding(l)) \in Nat
<1>1. Outstanding(l) \subseteq Nodes
  BY DEF Outstanding
<1> QED
  BY <1>1, FS_Subset, FS_CardinalityType

-----------------------------------------------------------------------------
(* Sequences without repetitions, as they grow and shrink.                 *)
LEMMA AppendHas ==
  ASSUME NEW S, NEW s \in Seq(S), NEW e \in S
  PROVE  /\ Append(s, e) \in Seq(S)
         /\ \A x : Has(Append(s, e), x) <=> Has(s, x) \/ x = e
         /\ NoRepeats(s) /\ ~Has(s, e) => NoRepeats(Append(s, e))
<1>1. /\ Append(s, e) \in Seq(S) /\ Len(Append(s, e)) = Len(s) + 1
      /\ \A i \in 1 .. Len(s) : Append(s, e)[i] = s[i]
      /\ Append(s, e)[Len(s) + 1] = e
      /\ DOMAIN s = 1 .. Len(s) /\ DOMAIN Append(s, e) = 1 .. Len(s) + 1 /\ Len(s) \in Nat
  OBVIOUS
<1>2. ASSUME NEW x PROVE Has(Append(s, e), x) <=> Has(s, x) \/ x = e
  BY <1>1 DEF Has
<1>3. ASSUME NoRepeats(s), ~Has(s, e) PROVE NoRepeats(Append(s, e))
  BY <1>1, <1>3 DEF Has, NoRepeats
<1> QED
  BY <1>1, <1>2, <1>3

LEMMA TailHas ==
  ASSUME NEW S, NEW s \in Seq(S), s # << >>, NoRepeats(s)
  PROVE  /\ Head(s) \in S /\ Tail(s) \in Seq(S) /\ NoRepeats(Tail(s)) /\ Has(s, Head(s))
         /\ \A x : Has(Tail(s), x) <=> Has(s, x) /\ x # Head(s)
<1>1. /\ Len(s) \in Nat \ {0} /\ Tail(s) \in Seq(S) /\ Len(Tail(s)) = Len(s) - 1
      /\ \A i \in 1 .. Len(s) - 1 : Tail(s)[i] = s[i + 1]
      /\ Head(s) = s[1] /\ s[1] \in S
      /\ DOMAIN s = 1 .. Len(s) /\ DOMAIN Tail(s) = 1 .. Len(s) - 1
  OBVIOUS
<1>2. NoRepeats(Tail(s)) /\ Has(s, Head(s))
  BY <1>1 DEF NoRepeats, Has
<1>3. ASSUME NEW x, Has(Tail(s), x) PROVE Has(s, x) /\ x # Head(s)
  <2>1. PICK i \in 1 .. Len(s) - 1 : Tail(s)[i] = x
    BY <1>1, <1>3 DEF Has
  <2>2. s[i + 1] = x /\ i + 1 \in DOMAIN s /\ i + 1 # 1 /\ 1 \in DOMAIN s
    BY <1>1, <2>1
  <2> QED
    BY <1>1, <2>2 DEF Has, NoRepeats
<1>4. ASSUME NEW x, Has(s, x), x # Head(s) PROVE Has(Tail(s), x)
  <2>1. PICK i \in 1 .. Len(s) : s[i] = x
    BY <1>1, <1>4 DEF Has
  <2> DEFINE j == i - 1
  <2>2. j \in 1 .. Len(s) - 1 /\ j + 1 = i
    BY <1>1, <1>4, <2>1
  <2>3. Tail(s)[j] = x /\ j \in DOMAIN Tail(s)
    BY <1>1, <2>1, <2>2
  <2> QED
    BY <2>3 DEF Has
<1> QED
  BY <1>1, <1>2, <1>3, <1>4

(* No task is no task.                                                     *)
LEMMA NoTaskIsNone == \A l, n : NoTask # <<l, n>>
BY DEF NoTask

-----------------------------------------------------------------------------
LEMMA InvInit == Init => Inv
<1> SUFFICES ASSUME Init PROVE Inv
  OBVIOUS
<1> USE DEF Init
<1>1. TypeOK
  <2>1. \A l \in Listings : Len(results[l]) <= ListerConcurrency
    BY FS_CardinalityType
  <2> QED
    BY <2>1 DEF TypeOK
<1>2. \A l \in Listings, n \in Nodes : ~OnWay(l, n)
  BY NoTaskIsNone DEF OnWay, InChan, InWork, InResults
<1>3. \A l \in Listings : Outstanding(l) = {}
  BY <1>2, OutstandingIs
<1>4. NoSendAfterClose /\ NoResultLost
  <2>1. Cardinality({}) = 0
    BY FS_EmptySet
  <2>2. ASSUME NEW l \in Listings PROVE count[l] - done[l] = Cardinality(Outstanding(l))
    <3>1. count[l] = 0 /\ done[l] = 0 /\ Outstanding(l) = {}
      BY <1>3
    <3> QED
      BY <2>1, <3>1
  <2> QED
    BY <1>3, <2>2 DEF NoSendAfterClose, NoResultLost
<1>5. InOnePlace
  BY <1>2 DEF InOnePlace, OnWay, NoRepeats
<1>6. Accounted
  BY DEF Accounted
<1> QED
  BY <1>1, <1>4, <1>5, <1>6 DEF Inv, ListingInvariant

(* Steps of the lister: tasks move from one place to the next.             *)
LEMMA Moved ==
  ASSUME Inv, UNCHANGED listVars, UNCHANGED changeVars,
         \A l \in Listings, n \in Nodes : OnWay(l, n)' <=> OnWay(l, n)
  PROVE  NoSendAfterClose' /\ NoResultLost' /\ Accounted'
         /\ \A l \in Listings : Outstanding(l)' = Outstanding(l)
<1>1. ASSUME NEW l \in Listings PROVE Outstanding(l)' = Outstanding(l)
  BY DEF Outstanding, OnWay, InChan, InWork, InResults
<1> QED
  BY <1>1 DEF Inv, listVars, changeVars, NoSendAfterClose, NoResultLost, ListingInvariant,
              Accounted

(* Steps of one listing: what the others have on their way stays there.    *)
LEMMA Others ==
  ASSUME Inv, NEW l \in Listings,
         \A k \in Listings \ {l}, n \in Nodes : OnWay(k, n)' <=> OnWay(k, n),
         \A k \in Listings \ {l} : /\ phase'[k] = phase[k] /\ todo'[k] = todo[k]
                                   /\ current'[k] = current[k] /\ children'[k] = children[k]
                                   /\ count'[k] = count[k] /\ done'[k] = done[k],
         changing' = changing, \A k \in Listings \ {l} : released'[k] = released[k],
         phase'[l] \in {"idle", "answer"} => Outstanding(l)' = {},
         count'[l] - done'[l] = Cardinality(Outstanding(l)'),
         phase'[l] # "get" => current'[l] = {},
         phase'[l] \in {"wait", "answer"} => todo'[l] = {},
         current'[l] \subseteq changing \cup released'[l],
         phase'[l] # "idle" =>
           Nodes \subseteq todo'[l] \cup current'[l] \cup children'[l] \cup Outstanding(l)' \cup released'[l]
  PROVE  NoSendAfterClose' /\ NoResultLost' /\ Accounted'
<1>1. ASSUME NEW k \in Listings \ {l} PROVE Outstanding(k)' = Outstanding(k)
  <2>1. \A n \in Nodes : OnWay(k, n)' <=> OnWay(k, n)
    OBVIOUS
  <2>2. Outstanding(k) = {n \in Nodes : OnWay(k, n)}
    BY OutstandingIs
  <2>3. Outstanding(k)' = {n \in Nodes : OnWay(k, n)'}
    BY DEF Outstanding, OnWay, InChan, InWork, InResults
  <2> QED
    BY <2>1, <2>2, <2>3
<1>2. NoSendAfterClose'
  BY <1>1 DEF Inv, NoSendAfterClose
<1>3. NoResultLost'
  BY <1>1 DEF Inv, NoResultLost
<1>4. Accounted'
  BY <1>1 DEF Inv, ListingInvariant, Accounted
<1> QED
  BY <1>2, <1>3, <1>4

-----------------------------------------------------------------------------
(* The lister's steps.                                                     *)
LEMMA SendTaskStep ==
  ASSUME Inv, NEW t \in Tasks, SendTask(t) PROVE Inv'
<1> USE DEF SendTask
<1>1. PICK l \in Listings, n \in Nodes : t = <<l, n>>
  BY DEF Tasks
<1>2. /\ taskChan' \in Seq(Tasks)
      /\ \A x : Has(taskChan', x) <=> Has(taskChan, x) \/ x = t
      /\ NoRepeats(taskChan) /\ ~Has(taskChan, t) => NoRepeats(taskChan')
  BY AppendHas DEF Inv, TypeOK
<1>3. ~InChan(l, n) /\ ~InWork(l, n) /\ ~InResults(l, n)
  BY <1>1 DEF Inv, ListingInvariant, InOnePlace
<1>4. ASSUME NEW k \in Listings, NEW m \in Nodes
      PROVE  /\ InChan(k, m)' <=> InChan(k, m) \/ <<k, m>> = t
             /\ InWork(k, m)' <=> InWork(k, m)
             /\ InResults(k, m)' <=> InResults(k, m)
  BY <1>2 DEF InChan, InWork, InResults, Has
<1>5. \A k \in Listings, m \in Nodes : OnWay(k, m)' <=> OnWay(k, m)
  BY <1>4 DEF OnWay
<1>6. NoSendAfterClose' /\ NoResultLost' /\ Accounted'
      /\ \A k \in Listings : Outstanding(k)' = Outstanding(k)
  BY <1>5, Moved
<1>7. TypeOK'
  BY <1>2 DEF Inv, TypeOK, listVars, changeVars
<1>8. InOnePlace'
  <2>1. \A k \in Listings, m \in Nodes :
          /\ m \in todo'[k] => m \notin Outstanding(k)'
          /\ <<k, m>> \in spawned' => ~InChan(k, m)' /\ ~InWork(k, m)' /\ ~InResults(k, m)'
          /\ InChan(k, m)' => ~InWork(k, m)' /\ ~InResults(k, m)'
          /\ InWork(k, m)' => ~InResults(k, m)'
    BY <1>1, <1>3, <1>4, <1>6 DEF Inv, ListingInvariant, InOnePlace, listVars
  <2>2. NoRepeats(taskChan')
    BY <1>1, <1>2, <1>3 DEF Inv, ListingInvariant, InOnePlace, InChan, Has
  <2> QED
    BY <2>1, <2>2 DEF Inv, ListingInvariant, InOnePlace
<1> QED
  BY <1>6, <1>7, <1>8 DEF Inv, ListingInvariant

LEMMA TakeTaskStep ==
  ASSUME Inv, NEW w \in Workers, TakeTask(w) PROVE Inv'
<1> USE DEF TakeTask
<1> DEFINE t == Head(taskChan)
<1>1. /\ t \in Tasks /\ taskChan' \in Seq(Tasks) /\ NoRepeats(taskChan') /\ Has(taskChan, t)
      /\ \A x : Has(taskChan', x) <=> Has(taskChan, x) /\ x # t
  BY TailHas DEF Inv, TypeOK, ListingInvariant, InOnePlace
<1>2. PICK l \in Listings, n \in Nodes : t = <<l, n>>
  BY <1>1 DEF Tasks
<1>3. <<l, n>> \notin spawned /\ InChan(l, n) /\ ~InWork(l, n) /\ ~InResults(l, n)
  BY <1>1, <1>2 DEF Inv, ListingInvariant, InOnePlace, InChan, Has
<1>4. work' = [work EXCEPT ![w] = t] /\ work \in [Workers -> Tasks \cup {NoTask}] /\ work[w] = NoTask
  BY DEF Inv, TypeOK
<1>5. ASSUME NEW k \in Listings, NEW m \in Nodes
      PROVE  /\ InChan(k, m)' <=> InChan(k, m) /\ <<k, m>> # t
             /\ InWork(k, m)' <=> InWork(k, m) \/ <<k, m>> = t
             /\ InResults(k, m)' <=> InResults(k, m)
  BY <1>1, <1>4, NoTaskIsNone DEF InChan, InWork, InResults, Has
<1>6. \A k \in Listings, m \in Nodes : OnWay(k, m)' <=> OnWay(k, m)
  BY <1>2, <1>3, <1>5 DEF OnWay
<1>7. NoSendAfterClose' /\ NoResultLost' /\ Accounted'
      /\ \A k \in Listings : Outstanding(k)' = Outstanding(k)
  BY <1>6, Moved
<1>8. TypeOK'
  BY <1>1, <1>4 DEF Inv, TypeOK, listVars, changeVars
<1>9. InOnePlace'
  <2>1. \A k \in Listings, m \in Nodes :
          /\ m \in todo'[k] => m \notin Outstanding(k)'
          /\ <<k, m>> \in spawned' => ~InChan(k, m)' /\ ~InWork(k, m)' /\ ~InResults(k, m)'
          /\ InChan(k, m)' => ~InWork(k, m)' /\ ~InResults(k, m)'
          /\ InWork(k, m)' => ~InResults(k, m)'
    <3> SUFFICES ASSUME NEW k \in Listings, NEW m \in Nodes
                 PROVE  /\ m \in todo'[k] => m \notin Outstanding(k)'
                        /\ <<k, m>> \in spawned' => ~InChan(k, m)' /\ ~InWork(k, m)' /\ ~InResults(k, m)'
                        /\ InChan(k, m)' => ~InWork(k, m)' /\ ~InResults(k, m)'
                        /\ InWork(k, m)' => ~InResults(k, m)'
      OBVIOUS
    <3>1. m \in todo'[k] => m \notin Outstanding(k)'
      BY <1>7 DEF Inv, ListingInvariant, InOnePlace, listVars
    <3>2. /\ <<k, m>> \in spawned => ~InChan(k, m) /\ ~InWork(k, m) /\ ~InResults(k, m)
          /\ InChan(k, m) => ~InWork(k, m) /\ ~InResults(k, m)
          /\ InWork(k, m) => ~InResults(k, m)
      BY DEF Inv, ListingInvariant, InOnePlace
    <3> QED
      BY <1>2, <1>3, <1>5, <3>1, <3>2
  <2>2. \A v \in Workers : v # w => work'[v] = work[v] /\ work[v] # t
    BY <1>2, <1>3, <1>4 DEF InWork
  <2>3. \A u, v \in Workers : work'[u] # NoTask /\ work'[u] = work'[v] => u = v
    BY <1>4, <2>2 DEF Inv, ListingInvariant, InOnePlace
  <2>4. \A v \in Workers : fetched'[v] => work'[v] # NoTask
    BY <1>2, <1>4, NoTaskIsNone DEF Inv, ListingInvariant, InOnePlace
  <2> QED
    BY <1>1, <2>1, <2>3, <2>4 DEF Inv, ListingInvariant, InOnePlace
<1> QED
  BY <1>7, <1>8, <1>9 DEF Inv, ListingInvariant

LEMMA FetchDetailsStep ==
  ASSUME Inv, NEW w \in Workers, FetchDetails(w) PROVE Inv'
<1> USE DEF FetchDetails
<1>1. \A k \in Listings, m \in Nodes :
        /\ InChan(k, m)' <=> InChan(k, m)
        /\ InWork(k, m)' <=> InWork(k, m)
        /\ InResults(k, m)' <=> InResults(k, m)
  BY DEF InChan, InWork, InResults
<1>2. \A k \in Listings, m \in Nodes : OnWay(k, m)' <=> OnWay(k, m)
  BY <1>1 DEF OnWay
<1>3. NoSendAfterClose' /\ NoResultLost' /\ Accounted'
      /\ \A k \in Listings : Outstanding(k)' = Outstanding(k)
  BY <1>2, Moved
<1>4. TypeOK'
  BY DEF Inv, TypeOK, listVars, changeVars
<1>5. InOnePlace'
  <2>1. \A v \in Workers : fetched'[v] => work'[v] # NoTask
    BY DEF Inv, TypeOK, ListingInvariant, InOnePlace
  <2> QED
    BY <1>1, <1>3, <2>1 DEF Inv, ListingInvariant, InOnePlace, listVars
<1> QED
  BY <1>3, <1>4, <1>5 DEF Inv, ListingInvariant

LEMMA SendResultStep ==
  ASSUME Inv, NEW w \in Workers, SendResult(w) PROVE Inv'
<1>1. work[w] \in Tasks /\ work \in [Workers -> Tasks \cup {NoTask}] /\ fetched[w]
  BY DEF SendResult, Inv, TypeOK, ListingInvariant, InOnePlace
<1>2. PICK l \in Listings, n \in Nodes : work[w] = <<l, n>>
  BY <1>1 DEF Tasks
<1>3. /\ results' = [results EXCEPT ![l] = Append(results[l], n)]
      /\ work' = [work EXCEPT ![w] = NoTask]
      /\ fetched' = [fetched EXCEPT ![w] = FALSE]
      /\ UNCHANGED <<listVars, spawned, taskChan, changeVars>>
  BY <1>2 DEF SendResult
<1>4. <<l, n>> \notin spawned /\ ~InChan(l, n) /\ InWork(l, n) /\ ~InResults(l, n)
  BY <1>2 DEF Inv, ListingInvariant, InOnePlace, InWork
<1>5. results[l] \in Seq(Nodes) /\ results'[l] = Append(results[l], n)
      /\ \A k \in Listings \ {l} : results'[k] = results[k]
  BY <1>3 DEF Inv, TypeOK
<1>6. /\ results'[l] \in Seq(Nodes)
      /\ \A x : Has(results'[l], x) <=> Has(results[l], x) \/ x = n
      /\ NoRepeats(results[l]) /\ ~Has(results[l], n) => NoRepeats(results'[l])
  BY <1>5, AppendHas
<1>7. ASSUME NEW k \in Listings, NEW m \in Nodes
      PROVE  /\ InChan(k, m)' <=> InChan(k, m)
             /\ InWork(k, m)' <=> InWork(k, m) /\ <<k, m>> # <<l, n>>
             /\ InResults(k, m)' <=> InResults(k, m) \/ <<k, m>> = <<l, n>>
  <2>1. InChan(k, m)' <=> InChan(k, m)
    BY <1>3 DEF InChan
  <2>2. InWork(k, m)' <=> InWork(k, m) /\ <<k, m>> # <<l, n>>
    BY <1>1, <1>2, <1>3, NoTaskIsNone DEF InWork, Inv, ListingInvariant, InOnePlace
  <2>3. InResults(k, m)' <=> InResults(k, m) \/ <<k, m>> = <<l, n>>
    BY <1>5, <1>6 DEF InResults, Has
  <2> QED
    BY <2>1, <2>2, <2>3
<1>8. \A k \in Listings, m \in Nodes : OnWay(k, m)' <=> OnWay(k, m)
  BY <1>3, <1>4, <1>7 DEF OnWay
<1>9. NoSendAfterClose' /\ NoResultLost' /\ Accounted'
      /\ \A k \in Listings : Outstanding(k)' = Outstanding(k)
  BY <1>3, <1>8, Moved
<1>10. TypeOK'
  <2>1. Len(results[l]) < ListerConcurrency /\ ListerConcurrency \in Nat
    BY <1>2, FS_CardinalityType DEF SendResult
  <2>2. Len(results'[l]) = Len(results[l]) + 1 /\ Len(results[l]) \in Nat
    BY <1>5
  <2>3. \A k \in Listings : Len(results[k]) <= ListerConcurrency
    BY DEF Inv, TypeOK
  <2>4. Len(results'[l]) <= ListerConcurrency
    BY <2>1, <2>2
  <2>5. \A k \in Listings : Len(results'[k]) <= ListerConcurrency
    BY <1>5, <2>3, <2>4
  <2> QED
    BY <1>3, <1>5, <1>6, <2>5 DEF Inv, TypeOK, listVars, changeVars
<1>11. InOnePlace'
  <2>1. \A k \in Listings, m \in Nodes :
          /\ m \in todo'[k] => m \notin Outstanding(k)'
          /\ <<k, m>> \in spawned' => ~InChan(k, m)' /\ ~InWork(k, m)' /\ ~InResults(k, m)'
          /\ InChan(k, m)' => ~InWork(k, m)' /\ ~InResults(k, m)'
          /\ InWork(k, m)' => ~InResults(k, m)'
    BY <1>3, <1>4, <1>7, <1>9 DEF Inv, ListingInvariant, InOnePlace, listVars
  <2>2. NoRepeats(results'[l])
    BY <1>4, <1>6 DEF Inv, ListingInvariant, InOnePlace, InResults, Has
  <2>3. \A k \in Listings : NoRepeats(results'[k])
    BY <1>5, <2>2 DEF Inv, ListingInvariant, InOnePlace
  <2>4. \A u, v \in Workers : work'[u] # NoTask /\ work'[u] = work'[v] => u = v
    BY <1>1, <1>3 DEF Inv, ListingInvariant, InOnePlace
  <2>5. \A v \in Workers : fetched'[v] => work'[v] # NoTask
    BY <1>1, <1>3 DEF Inv, TypeOK, ListingInvariant, InOnePlace
  <2>6. NoRepeats(taskChan')
    BY <1>3 DEF Inv, ListingInvariant, InOnePlace
  <2> QED
    BY <2>1, <2>3, <2>4, <2>5, <2>6 DEF InOnePlace
<1> QED
  BY <1>9, <1>10, <1>11 DEF Inv, ListingInvariant

-----------------------------------------------------------------------------
(* A listing's own steps.  Most leave what is on its way alone.            *)
LEMMA Still ==
  ASSUME Inv, UNCHANGED <<listerVars, results>>,
         \A l \in Listings : todo'[l] \subseteq todo[l] \/ Outstanding(l) = {}
  PROVE  /\ InOnePlace'
         /\ \A l \in Listings : Outstanding(l)' = Outstanding(l)
         /\ \A l \in Listings, n \in Nodes : OnWay(l, n)' <=> OnWay(l, n)
<1> USE DEF listerVars
<1>1. \A l \in Listings, n \in Nodes :
        /\ InChan(l, n)' <=> InChan(l, n)
        /\ InWork(l, n)' <=> InWork(l, n)
        /\ InResults(l, n)' <=> InResults(l, n)
  BY DEF InChan, InWork, InResults
<1>2. \A l \in Listings : Outstanding(l)' = Outstanding(l)
  BY DEF Outstanding
<1>3. \A l \in Listings, n \in Nodes : n \in todo'[l] => n \notin Outstanding(l)'
  BY <1>2 DEF Inv, ListingInvariant, InOnePlace
<1> QED
  BY <1>1, <1>2, <1>3 DEF Inv, ListingInvariant, InOnePlace, OnWay

LEMMA StartListingStep ==
  ASSUME Inv, NEW l \in Listings, StartListing(l) PROVE Inv'
<1> USE DEF StartListing
<1>1. Outstanding(l) = {}
  BY DEF Inv, NoSendAfterClose
<1>2. TypeOK'
  BY DEF Inv, TypeOK, listerVars, changeVars
<1>3. /\ phase'[l] = "loop" /\ todo'[l] = Nodes /\ count'[l] = 0 /\ done'[l] = 0
      /\ current'[l] = current[l] /\ phase[l] = "idle"
      /\ \A k \in Listings \ {l} : /\ phase'[k] = phase[k] /\ todo'[k] = todo[k]
                                   /\ current'[k] = current[k] /\ children'[k] = children[k]
                                   /\ count'[k] = count[k] /\ done'[k] = done[k]
                                   /\ released'[k] = released[k]
  BY DEF Inv, TypeOK
<1>4. InOnePlace' /\ Outstanding(l)' = {}
      /\ \A k \in Listings, n \in Nodes : OnWay(k, n)' <=> OnWay(k, n)
  BY <1>1, <1>3, Still
<1>5. count'[l] - done'[l] = Cardinality(Outstanding(l)')
  <2>1. Cardinality({}) = 0
    BY FS_EmptySet
  <2> QED
    BY <1>3, <1>4, <2>1
<1>6. current'[l] = {}
  BY <1>3 DEF Inv, ListingInvariant, Accounted
<1>7. NoSendAfterClose' /\ NoResultLost' /\ Accounted'
  BY <1>3, <1>4, <1>5, <1>6, Others
<1> QED
  BY <1>2, <1>4, <1>7 DEF Inv, ListingInvariant

LEMMA LoopChangingStep ==
  ASSUME Inv, NEW l \in Listings, LoopChanging(l) PROVE Inv'
<1>1. PICK n \in todo[l] \cap changing :
        /\ phase' = [phase EXCEPT ![l] = "get"]
        /\ todo' = [todo EXCEPT ![l] = @ \ {n}]
        /\ current' = [current EXCEPT ![l] = {n}]
  BY DEF LoopChanging
<1>2. phase[l] = "loop" /\ UNCHANGED <<count, done, children, listerVars, results, changeVars>>
  BY DEF LoopChanging
<1>3. TypeOK'
  BY <1>1, <1>2 DEF Inv, TypeOK, listerVars, changeVars
<1>4. /\ phase'[l] = "get" /\ todo'[l] = todo[l] \ {n} /\ current'[l] = {n}
      /\ \A k \in Listings \ {l} : phase'[k] = phase[k] /\ todo'[k] = todo[k] /\ current'[k] = current[k]
  BY <1>1 DEF Inv, TypeOK
<1>5. InOnePlace' /\ Outstanding(l)' = Outstanding(l)
      /\ \A k \in Listings, m \in Nodes : OnWay(k, m)' <=> OnWay(k, m)
  BY <1>2, <1>4, Still
<1>6. current[l] = {} /\ count[l] - done[l] = Cardinality(Outstanding(l))
      /\ Nodes \subseteq todo[l] \cup current[l] \cup children[l] \cup Outstanding(l) \cup released[l]
  BY <1>2 DEF Inv, ListingInvariant, Accounted, NoResultLost
<1>7. NoSendAfterClose' /\ NoResultLost' /\ Accounted'
  BY <1>1, <1>2, <1>4, <1>5, <1>6, Others DEF changeVars
<1> QED
  BY <1>3, <1>5, <1>7 DEF Inv, ListingInvariant

LEMMA LoopGetStep ==
  ASSUME Inv, NEW l \in Listings, LoopGet(l) PROVE Inv'
<1> USE DEF LoopGet
<1>1. TypeOK'
  BY DEF Inv, TypeOK, listerVars, changeVars
<1>2. /\ phase[l] = "get" /\ phase'[l] = "loop" /\ current'[l] = {}
      /\ children'[l] = children[l] \cup (current[l] \cap changing)
      /\ \A k \in Listings \ {l} : /\ phase'[k] = phase[k] /\ current'[k] = current[k]
                                   /\ children'[k] = children[k]
  BY DEF Inv, TypeOK
<1>3. InOnePlace' /\ Outstanding(l)' = Outstanding(l)
      /\ \A k \in Listings, m \in Nodes : OnWay(k, m)' <=> OnWay(k, m)
  BY Still
<1>4. count[l] - done[l] = Cardinality(Outstanding(l)) /\ current[l] \subseteq changing \cup released[l]
      /\ Nodes \subseteq todo[l] \cup current[l] \cup children[l] \cup Outstanding(l) \cup released[l]
  BY <1>2 DEF Inv, ListingInvariant, Accounted, NoResultLost
<1>5. NoSendAfterClose' /\ NoResultLost' /\ Accounted'
  BY <1>2, <1>3, <1>4, Others DEF changeVars
<1> QED
  BY <1>1, <1>3, <1>5 DEF Inv, ListingInvariant

LEMMA EndLoopStep ==
  ASSUME Inv, NEW l \in Listings, EndLoop(l) PROVE Inv'
<1> USE DEF EndLoop
<1>1. TypeOK'
  BY DEF Inv, TypeOK, listerVars, changeVars
<1>2. /\ phase[l] = "loop" /\ todo[l] = {}
      /\ phase'[l] = IF count[l] > 0 THEN "wait" ELSE "answer"
      /\ \A k \in Listings \ {l} : phase'[k] = phase[k]
  BY DEF Inv, TypeOK
<1>3. InOnePlace' /\ Outstanding(l)' = Outstanding(l)
      /\ \A k \in Listings, m \in Nodes : OnWay(k, m)' <=> OnWay(k, m)
  BY Still
<1>4. count[l] - done[l] = Cardinality(Outstanding(l)) /\ current[l] = {}
      /\ Nodes \subseteq todo[l] \cup current[l] \cup children[l] \cup Outstanding(l) \cup released[l]
  BY <1>2 DEF Inv, ListingInvariant, Accounted, NoResultLost
<1>5. phase'[l] = "answer" => Outstanding(l) = {}
  <2>1. ASSUME ~(count[l] > 0) PROVE Cardinality(Outstanding(l)) = 0
    BY <1>4, <2>1, OutstandingFinite DEF Inv, TypeOK
  <2> QED
    BY <1>2, <2>1, OutstandingFinite, FS_EmptySet
<1>6. NoSendAfterClose' /\ NoResultLost' /\ Accounted'
  BY <1>2, <1>3, <1>4, <1>5, Others DEF changeVars
<1> QED
  BY <1>1, <1>3, <1>6 DEF Inv, ListingInvariant

LEMMA AnsweredStep ==
  ASSUME Inv, NEW l \in Listings, Answered(l) PROVE Inv'
<1> USE DEF Answered
<1>1. TypeOK'
  BY DEF Inv, TypeOK, listerVars, changeVars
<1>2. /\ phase[l] = "answer" /\ phase'[l] = "idle"
      /\ \A k \in Listings \ {l} : phase'[k] = phase[k]
  BY DEF Inv, TypeOK
<1>3. InOnePlace' /\ Outstanding(l)' = Outstanding(l)
      /\ \A k \in Listings, m \in Nodes : OnWay(k, m)' <=> OnWay(k, m)
  BY Still
<1>4. count[l] - done[l] = Cardinality(Outstanding(l)) /\ current[l] = {} /\ Outstanding(l) = {}
  BY <1>2 DEF Inv, ListingInvariant, Accounted, NoResultLost, NoSendAfterClose
<1>5. NoSendAfterClose' /\ NoResultLost' /\ Accounted'
  BY <1>2, <1>3, <1>4, Others DEF changeVars
<1> QED
  BY <1>1, <1>3, <1>5 DEF Inv, ListingInvariant

LEMMA ChangeStep ==
  ASSUME Inv, NEW n \in Nodes, OpenForWriting(n) \/ Released(n) PROVE Inv'
<1> USE DEF OpenForWriting, Released, listVars
<1>1. TypeOK'
  <2>1. released' \in [Listings -> SUBSET Nodes]
    <3>1. released \in [Listings -> SUBSET Nodes]
      BY DEF Inv, TypeOK
    <3>2. CASE Released(n)
      <4>1. released' = [l \in Listings |-> IF n \in current[l] THEN released[l] \cup {n} ELSE released[l]]
        BY <3>2
      <4>2. \A l \in Listings : (IF n \in current[l] THEN released[l] \cup {n} ELSE released[l]) \in SUBSET Nodes
        BY <3>1
      <4> QED
        BY <4>1, <4>2
    <3> QED
      BY <3>1, <3>2
  <2>2. UNCHANGED <<listVars, listerVars, results>> /\ changing' \subseteq Nodes /\ opens' \in 0 .. MaxOpens
    BY DEF Inv, TypeOK
  <2> QED
    BY <2>1, <2>2 DEF Inv, TypeOK, listerVars
<1>2. UNCHANGED <<listVars, listerVars, results>>
      /\ \A l \in Listings : /\ released[l] \subseteq released'[l]
                              /\ current[l] \cap changing \subseteq changing' \cup released'[l]
  BY DEF Inv, TypeOK
<1>3. InOnePlace' /\ \A l \in Listings : Outstanding(l)' = Outstanding(l)
  BY <1>2, Still
<1>4. NoSendAfterClose' /\ NoResultLost'
  BY <1>2, <1>3 DEF Inv, NoSendAfterClose, NoResultLost
<1>5. Accounted'
  BY <1>2, <1>3 DEF Inv, ListingInvariant, Accounted
<1> QED
  BY <1>1, <1>3, <1>4, <1>5 DEF Inv, ListingInvariant

(* A node becomes a child at once, or a task.                              *)
LEMMA LoopNodeStep ==
  ASSUME Inv, NEW l \in Listings, LoopNode(l) PROVE Inv'
<1>1. PICK n \in todo[l] \ changing :
        /\ todo' = [todo EXCEPT ![l] = @ \ {n}]
        /\ IF n \in Detailed THEN AddTask(l, n) ELSE AddChild(l, n)
  BY DEF LoopNode
<1>2. phase[l] = "loop" /\ UNCHANGED <<phase, current, done, taskChan, work, fetched, results, changeVars>>
  BY DEF LoopNode
<1>3. /\ todo'[l] = todo[l] \ {n} /\ n \in Nodes
      /\ \A k \in Listings \ {l} : todo'[k] = todo[k]
  BY <1>1 DEF Inv, TypeOK
<1>4. current[l] = {} /\ count[l] - done[l] = Cardinality(Outstanding(l)) /\ n \notin Outstanding(l)
      /\ Nodes \subseteq todo[l] \cup current[l] \cup children[l] \cup Outstanding(l) \cup released[l]
  BY <1>1, <1>2, <1>3 DEF Inv, ListingInvariant, Accounted, NoResultLost, InOnePlace
<1>5. CASE n \notin Detailed
  <2>1. /\ children' = [children EXCEPT ![l] = children[l] \cup {n}]
        /\ UNCHANGED <<count, spawned>>
    BY <1>1, <1>5 DEF AddChild
  <2>2. /\ children'[l] = children[l] \cup {n}
        /\ \A k \in Listings \ {l} : children'[k] = children[k]
    BY <2>1 DEF Inv, TypeOK
  <2>3. TypeOK'
    BY <1>1, <1>2, <1>3, <2>1 DEF Inv, TypeOK, changeVars
  <2>4. InOnePlace' /\ Outstanding(l)' = Outstanding(l)
        /\ \A k \in Listings, m \in Nodes : OnWay(k, m)' <=> OnWay(k, m)
    BY <1>2, <1>3, <2>1, Still DEF listerVars
  <2>5. NoSendAfterClose' /\ NoResultLost' /\ Accounted'
    BY <1>2, <1>3, <1>4, <2>1, <2>2, <2>4, Others DEF changeVars
  <2> QED
    BY <2>3, <2>4, <2>5 DEF Inv, ListingInvariant
<1>6. CASE n \in Detailed
  <2>1. /\ spawned' = spawned \cup {<<l, n>>}
        /\ count' = [count EXCEPT ![l] = count[l] + 1]
        /\ UNCHANGED children
    BY <1>1, <1>6 DEF AddTask
  <2>2. /\ count'[l] = count[l] + 1 /\ count[l] \in Nat /\ done[l] \in Nat
        /\ \A k \in Listings \ {l} : count'[k] = count[k]
    BY <2>1 DEF Inv, TypeOK
  <2>3. TypeOK'
    BY <1>1, <1>2, <1>3, <2>1, <2>2 DEF Inv, TypeOK, changeVars, Tasks
  <2>4. ASSUME NEW k \in Listings, NEW m \in Nodes
        PROVE  /\ InChan(k, m)' <=> InChan(k, m)
               /\ InWork(k, m)' <=> InWork(k, m)
               /\ InResults(k, m)' <=> InResults(k, m)
               /\ <<k, m>> \in spawned' <=> <<k, m>> \in spawned \/ (k = l /\ m = n)
    BY <1>2, <2>1 DEF InChan, InWork, InResults
  <2>5. \A k \in Listings \ {l}, m \in Nodes : OnWay(k, m)' <=> OnWay(k, m)
    BY <2>4 DEF OnWay
  <2>6. Outstanding(l)' = Outstanding(l) \cup {n}
    <3>1. \A m \in Nodes : OnWay(l, m)' <=> OnWay(l, m) \/ m = n
      BY <2>4 DEF OnWay
    <3>2. Outstanding(l) = {m \in Nodes : OnWay(l, m)}
      BY OutstandingIs
    <3>3. Outstanding(l)' = {m \in Nodes : OnWay(l, m)'}
      BY DEF Outstanding, OnWay, InChan, InWork, InResults
    <3> QED
      BY <1>3, <3>1, <3>2, <3>3
  <2>7. Cardinality(Outstanding(l)') = Cardinality(Outstanding(l)) + 1
    BY <1>4, <2>6, OutstandingFinite, FS_AddElement
  <2>8. count'[l] - done'[l] = Cardinality(Outstanding(l)')
    BY <1>2, <1>4, <2>2, <2>7, OutstandingFinite
  <2>9. NoSendAfterClose' /\ NoResultLost' /\ Accounted'
    BY <1>2, <1>3, <1>4, <2>1, <2>2, <2>5, <2>6, <2>8, Others DEF changeVars
  <2>10. InOnePlace'
    <3>1. ~InChan(l, n) /\ ~InWork(l, n) /\ ~InResults(l, n)
      BY <1>3, <1>4 DEF Outstanding, InChan, InWork, InResults
    <3> SUFFICES ASSUME NEW k \in Listings, NEW m \in Nodes
                 PROVE  /\ m \in todo'[k] => m \notin Outstanding(k)'
                        /\ <<k, m>> \in spawned' => ~InChan(k, m)' /\ ~InWork(k, m)' /\ ~InResults(k, m)'
                        /\ InChan(k, m)' => ~InWork(k, m)' /\ ~InResults(k, m)'
                        /\ InWork(k, m)' => ~InResults(k, m)'
      BY <1>2 DEF Inv, ListingInvariant, InOnePlace
    <3>2. m \in todo'[k] => m \notin Outstanding(k)'
      <4>1. CASE k = l
        BY <1>3, <2>6, <4>1 DEF Inv, ListingInvariant, InOnePlace
      <4>2. CASE k # l
        <5>1. Outstanding(k) = {j \in Nodes : OnWay(k, j)}
          BY OutstandingIs
        <5>2. Outstanding(k)' = {j \in Nodes : OnWay(k, j)'}
          BY DEF Outstanding, OnWay, InChan, InWork, InResults
        <5>3. m \in todo'[k] => m \in todo[k]
          BY <1>3, <4>2
        <5> QED
          BY <2>5, <4>2, <5>1, <5>2, <5>3 DEF Inv, ListingInvariant, InOnePlace
      <4> QED
        BY <4>1, <4>2
    <3>3. /\ <<k, m>> \in spawned => ~InChan(k, m) /\ ~InWork(k, m) /\ ~InResults(k, m)
          /\ InChan(k, m) => ~InWork(k, m) /\ ~InResults(k, m)
          /\ InWork(k, m) => ~InResults(k, m)
      BY DEF Inv, ListingInvariant, InOnePlace
    <3> QED
      BY <2>4, <3>1, <3>2, <3>3
  <2> QED
    BY <2>3, <2>9, <2>10 DEF Inv, ListingInvariant
<1> QED
  BY <1>5, <1>6

(* A result is received, the last one perhaps.                             *)
LEMMA ReceiveStep ==
  ASSUME Inv, NEW l \in Listings, Receive(l) PROVE Inv'
<1> DEFINE n == Head(results[l])
<1>1. /\ phase[l] = "wait" /\ results[l] # << >>
      /\ children' = [children EXCEPT ![l] = children[l] \cup {n}]
      /\ results' = [results EXCEPT ![l] = Tail(results[l])]
      /\ done' = [done EXCEPT ![l] = done[l] + 1]
      /\ phase' = [phase EXCEPT ![l] = IF done'[l] = count[l] THEN "answer" ELSE "wait"]
      /\ UNCHANGED <<todo, current, count, listerVars, changeVars>>
  BY DEF Receive
<1>2. /\ n \in Nodes /\ Tail(results[l]) \in Seq(Nodes) /\ NoRepeats(Tail(results[l]))
      /\ Has(results[l], n)
      /\ \A x : Has(Tail(results[l]), x) <=> Has(results[l], x) /\ x # n
  BY <1>1, TailHas DEF Inv, TypeOK, ListingInvariant, InOnePlace
<1>3. /\ children'[l] = children[l] \cup {n} /\ results'[l] = Tail(results[l])
      /\ done'[l] = done[l] + 1 /\ count'[l] = count[l] /\ count[l] \in Nat /\ done[l] \in Nat
      /\ phase'[l] = IF done[l] + 1 = count[l] THEN "answer" ELSE "wait"
      /\ \A k \in Listings \ {l} : /\ phase'[k] = phase[k] /\ children'[k] = children[k]
                                   /\ done'[k] = done[k] /\ results'[k] = results[k]
  BY <1>1 DEF Inv, TypeOK
<1>4. TypeOK'
  <2>1. Len(results'[l]) = Len(results[l]) - 1 /\ Len(results[l]) \in Nat
        /\ Len(results[l]) <= ListerConcurrency /\ ListerConcurrency \in Nat
    BY <1>1, <1>3, FS_CardinalityType DEF Inv, TypeOK
  <2>2. Len(results'[l]) <= ListerConcurrency
    BY <2>1
  <2>3. \A k \in Listings : Len(results[k]) <= ListerConcurrency
    BY DEF Inv, TypeOK
  <2>4. \A k \in Listings : Len(results'[k]) <= ListerConcurrency
    BY <1>3, <2>2, <2>3
  <2> QED
    BY <1>1, <1>2, <1>3, <2>4 DEF Inv, TypeOK, listerVars, changeVars
<1>5. ASSUME NEW k \in Listings, NEW m \in Nodes
      PROVE  /\ InChan(k, m)' <=> InChan(k, m)
             /\ InWork(k, m)' <=> InWork(k, m)
             /\ InResults(k, m)' <=> InResults(k, m) /\ ~(k = l /\ m = n)
             /\ <<k, m>> \in spawned' <=> <<k, m>> \in spawned
  <2>1. InResults(k, m)' <=> InResults(k, m) /\ ~(k = l /\ m = n)
    <3>1. InResults(k, m)' <=> Has(results'[k], m)
      BY DEF InResults, Has
    <3>2. InResults(k, m) <=> Has(results[k], m)
      BY DEF InResults, Has
    <3>3. CASE k = l
      BY <1>2, <1>3, <3>1, <3>2, <3>3
    <3>4. CASE k # l
      BY <1>3, <3>1, <3>2, <3>4
    <3> QED
      BY <3>3, <3>4
  <2> QED
    BY <1>1, <2>1 DEF InChan, InWork, listerVars
<1>6. InResults(l, n) /\ ~InChan(l, n) /\ ~InWork(l, n) /\ <<l, n>> \notin spawned
  <2>1. InResults(l, n)
    BY <1>2 DEF InResults, Has
  <2> QED
    BY <1>2, <2>1 DEF Inv, ListingInvariant, InOnePlace
<1>7. \A k \in Listings, m \in Nodes : OnWay(k, m)' <=> OnWay(k, m) /\ ~(k = l /\ m = n)
  BY <1>5, <1>6 DEF OnWay
<1>8. ASSUME NEW k \in Listings
      PROVE  /\ Outstanding(k) = {m \in Nodes : OnWay(k, m)}
             /\ Outstanding(k)' = {m \in Nodes : OnWay(k, m)'}
  <2>1. Outstanding(k) = {m \in Nodes : OnWay(k, m)}
    BY OutstandingIs
  <2>2. Outstanding(k)' = {m \in Nodes : OnWay(k, m)'}
    BY DEF Outstanding, OnWay, InChan, InWork, InResults
  <2> QED
    BY <2>1, <2>2
<1>9. Outstanding(l)' = Outstanding(l) \ {n} /\ n \in Outstanding(l)
  <2>1. OnWay(l, n)
    BY <1>6 DEF OnWay
  <2> QED
    BY <1>2, <1>7, <1>8, <2>1
<1>10. Cardinality(Outstanding(l)') = Cardinality(Outstanding(l)) - 1
       /\ IsFiniteSet(Outstanding(l)')
  BY <1>9, OutstandingFinite, FS_RemoveElement
<1>11. count[l] - done[l] = Cardinality(Outstanding(l)) /\ current[l] = {} /\ todo[l] = {}
       /\ Nodes \subseteq todo[l] \cup current[l] \cup children[l] \cup Outstanding(l) \cup released[l]
  BY <1>1 DEF Inv, ListingInvariant, Accounted, NoResultLost
<1>12. count'[l] - done'[l] = Cardinality(Outstanding(l)')
  BY <1>3, <1>10, <1>11, OutstandingFinite
<1>13. phase'[l] = "answer" => Outstanding(l)' = {}
  <2>1. ASSUME phase'[l] = "answer" PROVE Cardinality(Outstanding(l)') = 0
    BY <1>3, <1>12, <2>1
  <2> QED
    BY <1>10, <2>1, FS_EmptySet
<1>14. NoSendAfterClose' /\ NoResultLost' /\ Accounted'
  <2>1. \A k \in Listings \ {l}, m \in Nodes : OnWay(k, m)' <=> OnWay(k, m)
    BY <1>7
  <2>2. phase'[l] \in {"answer", "wait"}
    BY <1>3
  <2>3. Nodes \subseteq todo'[l] \cup current'[l] \cup children'[l] \cup Outstanding(l)' \cup released[l]
    BY <1>1, <1>3, <1>9, <1>11
  <2> QED
    BY <1>1, <1>3, <1>11, <1>12, <1>13, <2>1, <2>2, <2>3, Others DEF changeVars
<1>15. InOnePlace'
  <2>1. \A k \in Listings, m \in Nodes : m \in todo'[k] => m \notin Outstanding(k)'
    <3> SUFFICES ASSUME NEW k \in Listings, NEW m \in Nodes, m \in todo'[k]
                 PROVE  m \notin Outstanding(k)'
      OBVIOUS
    <3>1. m \notin Outstanding(k)
      BY <1>1 DEF Inv, ListingInvariant, InOnePlace
    <3> QED
      BY <1>7, <1>8, <3>1
  <2>2. \A k \in Listings : NoRepeats(results'[k])
    BY <1>2, <1>3 DEF Inv, ListingInvariant, InOnePlace
  <2>3. \A k \in Listings, m \in Nodes :
          /\ <<k, m>> \in spawned => ~InChan(k, m) /\ ~InWork(k, m) /\ ~InResults(k, m)
          /\ InChan(k, m) => ~InWork(k, m) /\ ~InResults(k, m)
          /\ InWork(k, m) => ~InResults(k, m)
    BY DEF Inv, ListingInvariant, InOnePlace
  <2> QED
    BY <1>1, <1>5, <2>1, <2>2, <2>3 DEF Inv, ListingInvariant, InOnePlace, listerVars
<1> QED
  BY <1>4, <1>14, <1>15 DEF Inv, ListingInvariant

LEMMA InvStep ==
  ASSUME Inv, [Next]_vars PROVE Inv'
<1>1. ASSUME NEW l \in Listings, StartListing(l) \/ ReadDirAll(l) PROVE Inv'
  BY <1>1, StartListingStep, LoopChangingStep, LoopNodeStep, LoopGetStep, EndLoopStep, ReceiveStep,
     AnsweredStep DEF ReadDirAll
<1>2. ASSUME NEW w \in Workers, ProcessTasks(w) PROVE Inv'
  BY <1>2, TakeTaskStep, FetchDetailsStep, SendResultStep DEF ProcessTasks
<1>3. CASE UNCHANGED vars
  <2>1. InOnePlace' /\ \A l \in Listings : Outstanding(l)' = Outstanding(l)
    BY <1>3, Still DEF vars, listVars, listerVars
  <2>2. TypeOK'
    BY <1>3 DEF Inv, TypeOK, vars, listVars, listerVars, changeVars
  <2>3. NoSendAfterClose' /\ NoResultLost' /\ Accounted'
    BY <1>3, <2>1 DEF Inv, ListingInvariant, NoSendAfterClose, NoResultLost, Accounted, vars,
                      listVars, changeVars
  <2> QED
    BY <2>1, <2>2, <2>3 DEF Inv, ListingInvariant
<1> QED
  BY <1>1, <1>2, <1>3, SendTaskStep, ChangeStep DEF Next

-----------------------------------------------------------------------------
(* A listing and the lister keep to their types: a worker that sends has a *)
(* task (lister.go:48-57), a channel holds nodes.                          *)
THEOREM ListingTypeCorrect == Spec => []TypeOK
<1>1. Inv /\ [Next]_vars => Inv'
  BY InvStep
<1>2. Inv => TypeOK
  BY DEF Inv
<1> QED
  BY InvInit, <1>1, <1>2, PTL DEF Spec

(* What is on its way is in one place, and what is missing is accounted    *)
(* for: ListingInvariant is the strengthening the other properties need.   *)
THEOREM ListingInvariantHolds == Spec => []ListingInvariant
<1>1. Inv /\ [Next]_vars => Inv'
  BY InvStep
<1>2. Inv => ListingInvariant
  BY DEF Inv
<1> QED
  BY InvInit, <1>1, <1>2, PTL DEF Spec

(* directory.go:113, lister.go:57: no worker sends to a result channel     *)
(* that ReadDirAll has closed.                                             *)
THEOREM NoSendAfterCloseHolds == Spec => []NoSendAfterClose
<1>1. Inv /\ [Next]_vars => Inv'
  BY InvStep
<1>2. Inv => NoSendAfterClose
  BY DEF Inv
<1> QED
  BY InvInit, <1>1, <1>2, PTL DEF Spec

(* directory.go:206-216: what a listing still waits for is exactly what is *)
(* on its way to it.                                                       *)
THEOREM NoResultLostHolds == Spec => []NoResultLost
<1>1. Inv /\ [Next]_vars => Inv'
  BY InvStep
<1>2. Inv => NoResultLost
  BY DEF Inv
<1> QED
  BY InvInit, <1>1, <1>2, PTL DEF Spec

(* directory.go:175-176: the nodes a listing lacks have been released      *)
(* between its own Exist and Get of them.                                  *)
THEOREM MissesOnlyReleasedHolds == Spec => []MissesOnlyReleased
<1>1. Inv /\ [Next]_vars => Inv'
  BY InvStep
<1>2. Inv => MissesOnlyReleased
  BY DEF Inv, ListingInvariant, Accounted, NoSendAfterClose, MissesOnlyReleased
<1> QED
  BY InvInit, <1>1, <1>2, PTL DEF Spec
=============================================================================
