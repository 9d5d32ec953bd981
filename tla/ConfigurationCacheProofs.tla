----------------------- MODULE ConfigurationCacheProofs -----------------------
(***************************************************************************)
(* Proofs about ConfigurationCache and the store it is built on, for any   *)
(* number of requests.                                                     *)
(***************************************************************************)
EXTENDS ConfigurationCache, FiniteSetTheorems, WellFoundedInduction, TLAPS

(* The store's module has cardinalities of its own name, not of its own.   *)
LEMMA StoreCardinality == \A S : Store!Cardinality(S) = Cardinality(S)
BY DEF Store!Cardinality, Cardinality

(* A bounded set of numbers that is not empty has a highest.               *)
LEMMA HighestExists ==
  ASSUME NEW b \in Nat, NEW S \in SUBSET (0 .. b), S # {}
  PROVE  \E m \in S : \A n \in S : n <= m
<1> DEFINE T == {k \in Nat : b - k \in S}
<1>1. \A x, y \in Nat : <<x, y>> \in OpToRel(<, Nat) <=> x < y
  BY DEF OpToRel
<1>2. T \subseteq Nat /\ T # {}
  <2>1. PICK n \in S : TRUE
    OBVIOUS
  <2>2. b - n \in Nat /\ b - (b - n) = n
    OBVIOUS
  <2> QED
    BY <2>2
<1>3. PICK k \in T : \A j \in T : ~(<<j, k>> \in OpToRel(<, Nat))
  <2> HIDE DEF T
  <2> QED
    BY <1>2, NatLessThanWellFounded, WFMin
<1>4. ASSUME NEW n \in S
      PROVE  n <= b - k
  <2>1. b - n \in T
    OBVIOUS
  <2>2. ~(b - n < k)
    BY <1>1, <1>3, <2>1
  <2> QED
    BY <2>2
<1> QED
  BY <1>4

(* The latest revision is one there is.                                    *)
LEMMA LatestExists ==
  ASSUME Store!TypeOK
  PROVE  /\ Store!FindLatest \in Store!Latest \cup {None}
         /\ Store!FindLatest # None => Store!FindLatest.number \in DOMAIN revisions
<1>1. CASE DOMAIN revisions = {}
  BY <1>1 DEF Store!FindLatest
<1>2. CASE DOMAIN revisions # {}
  <2>1. DOMAIN revisions \in SUBSET Store!Number /\ 1 + Cardinality(Requests) \in Nat
    BY RequestsAssumption, FS_CardinalityType DEF Store!TypeOK
  <2>2. \E m \in DOMAIN revisions : \A n \in DOMAIN revisions : n <= m
    BY <1>2, <2>1, StoreCardinality, HighestExists DEF Store!Number
  <2> DEFINE top == CHOOSE n \in DOMAIN revisions : \A m \in DOMAIN revisions : m <= n
  <2>3. top \in DOMAIN revisions
    BY <2>2
  <2>4. Store!FindLatest = [number |-> top, content |-> revisions[top]]
    BY <1>2 DEF Store!FindLatest
  <2> QED
    BY <2>1, <2>3, <2>4 DEF Store!TypeOK, Store!Latest
<1> QED
  BY <1>1, <1>2

----------------------------------------------------------------------------
(* The numbers of revisions.                                               *)

(* The requests that have added a number are finitely many.                *)
LEMMA RevisedFinite ==
  /\ IsFiniteSet(Store!Revised)
  /\ Cardinality(Store!Revised) \in Nat
  /\ Cardinality(Store!Revised) <= Cardinality(Requests)
  /\ Cardinality(Requests) \in Nat
<1>1. Store!Revised \in SUBSET Requests
  BY DEF Store!Revised
<1> QED
  BY <1>1, RequestsAssumption, FS_Subset, FS_CardinalityType

(* A request takes steps of its own only.                                  *)
LEMMA HandleFrame ==
  ASSUME Store!TypeOK, NEW r \in Requests, Store!Handle(r)
  PROVE  \A q \in Requests : q # r => step'[q] = step[q] /\ op'[q] = op[q]
                                      /\ read'[q] = read[q] /\ found'[q] = found[q]
BY DEF Store!TypeOK, Store!Handle, Store!Begin, Store!Update, Store!Revise, Store!Announce,
       Store!SeekActive, Store!CompareActive, Store!CheckTarget, Store!SetActive,
       Store!ConfirmActive, Store!DeleteRevisions, Store!ClearActive, Store!Advance, Store!Finish

(* Only Revise adds a number.                                              *)
LEMMA RevisedStep ==
  ASSUME Store!TypeOK, Store!StepsAreOfKind, NEW r \in Requests, Store!Handle(r)
  PROVE  IF Store!Revise(r)
         THEN r \notin Store!Revised /\ Store!Revised' = Store!Revised \cup {r}
         ELSE Store!Revised' = Store!Revised
<1> USE DEF Store!TypeOK, Store!Revised, Store!Has, Store!Advance, Store!Finish
<1>1. \A q \in Requests : q # r => (q \in Store!Revised' <=> q \in Store!Revised)
  BY HandleFrame
<1>2. CASE Store!Revise(r)
  <2>1. r \notin Store!Revised /\ r \in Store!Revised'
    BY <1>2 DEF Store!Revise
  <2> QED
    BY <1>1, <1>2, <2>1
<1>3. CASE ~Store!Revise(r)
  <2>1. r \in Store!Revised' <=> r \in Store!Revised
    BY <1>3 DEF Store!Handle, Store!Begin, Store!Update, Store!Announce,
       Store!SeekActive, Store!CompareActive, Store!CheckTarget, Store!SetActive,
       Store!ConfirmActive, Store!DeleteRevisions, Store!ClearActive, Store!StepsAreOfKind
  <2> QED
    BY <1>1, <1>3, <2>1
<1> QED
  BY <1>2, <1>3

(* Numbers have the bound of their type.                                   *)
LEMMA HighestTyped == 0 .. 1 + Cardinality(Store!Revised) \subseteq Store!Number
BY StoreCardinality, RevisedFinite DEF Store!Number

(* Their number never falls, and a revision adds one to it.                *)
LEMMA RevisedGrows ==
  ASSUME Store!TypeOK, Store!StepsAreOfKind, NEW r \in Requests, Store!Handle(r)
  PROVE  /\ Cardinality(Store!Revised)' \in Nat
         /\ Cardinality(Store!Revised)' >= Cardinality(Store!Revised)
         /\ Store!Revise(r) =>
                Cardinality(Store!Revised)' = Cardinality(Store!Revised) + 1
<1>1. CASE Store!Revise(r)
  BY <1>1, RevisedStep, RevisedFinite, FS_AddElement
<1>2. CASE ~Store!Revise(r)
  BY <1>2, RevisedStep, RevisedFinite
<1> QED
  BY <1>1, <1>2

(* What a request does to the numbers of the store and of those who read.  *)
LEMMA NumbersStep ==
  ASSUME Store!TypeOK, Store!StepsAreOfKind, Store!NumbersBounded,
         NEW r \in Requests, Store!Handle(r)
  PROVE  Store!NumbersBounded' /\ DOMAIN revisions' \subseteq Nat
<1> DEFINE top == 1 + Cardinality(Store!Revised)
<1>1. /\ top \in Nat /\ top' \in Nat /\ top' >= top
      /\ Store!Revise(r) => top' = top + 1
  BY RevisedGrows, RevisedFinite
<1>2. /\ \A n \in DOMAIN revisions : n \in Nat /\ n <= top
      /\ \A q \in Requests : read[q] # None => read[q].number \in Nat /\ read[q].number <= top
  BY StoreCardinality, RevisedFinite
     DEF Store!TypeOK, Store!NumbersBounded, Store!Number, Store!Latest
<1>3. ASSUME NEW n \in DOMAIN revisions'
      PROVE  n \in Nat /\ n <= top'
  <2>1. CASE n \in DOMAIN revisions
    BY <1>1, <1>2, <2>1
  <2>2. CASE n \notin DOMAIN revisions
    <3>1. CASE Store!Update(r)
      <4>1. n = Store!UpdatedNumber(read[r])
        BY <1>3, <2>2, <3>1 DEF Store!Update, Store!SaveRevision
      <4> QED
        BY <1>1, <1>2, <4>1 DEF Store!UpdatedNumber
    <3>2. CASE Store!Revise(r)
      <4>1. n = Store!RevisedNumber(read[r])
        BY <1>3, <2>2, <3>2 DEF Store!Revise, Store!SaveRevision
      <4> QED
        BY <1>1, <1>2, <3>2, <4>1 DEF Store!RevisedNumber
    <3>3. CASE Store!DeleteRevisions(r)
      BY <1>3, <3>3 DEF Store!DeleteRevisions
    <3> QED
      BY <1>3, <2>2, <3>1, <3>2, <3>3
         DEF Store!Handle, Store!Begin, Store!Announce, Store!SeekActive, Store!CompareActive,
             Store!CheckTarget, Store!SetActive, Store!ConfirmActive, Store!ClearActive
  <2> QED
    BY <2>1, <2>2
<1>4. ASSUME NEW q \in Requests, read'[q] # None
      PROVE  read'[q].number <= top'
  <2>1. read'[q] = read[q] \/ read'[q] = Store!FindLatest
    BY <1>4 DEF Store!TypeOK, Store!Handle, Store!Begin, Store!Update, Store!Revise,
       Store!Announce, Store!SeekActive, Store!CompareActive, Store!CheckTarget,
       Store!SetActive, Store!ConfirmActive, Store!DeleteRevisions, Store!ClearActive,
       Store!Finish
  <2> QED
    BY <1>1, <1>2, <1>4, <2>1, LatestExists
<1> QED
  BY <1>3, <1>4, StoreCardinality DEF Store!NumbersBounded

(* The types of the store.                                                 *)
LEMMA StoreTypeStep ==
  ASSUME Store!TypeOK, Store!StepsAreOfKind, Store!NumbersBounded,
         NEW r \in Requests, Store!Handle(r)
  PROVE  Store!TypeOK'
<1> USE DEF Store!TypeOK
<1>1. DOMAIN revisions' \subseteq Store!Number
  <2>1. Cardinality(Store!Revised)' \in Nat
        /\ Cardinality(Store!Revised)' <= Cardinality(Requests)
    <3>1. Store!Revised' \in SUBSET Requests
      BY DEF Store!Revised
    <3> QED
      BY <3>1, RequestsAssumption, FS_Subset, FS_CardinalityType
  <2>2. \A n \in DOMAIN revisions' : n \in Nat /\ n <= 1 + Cardinality(Store!Revised)'
    BY NumbersStep, StoreCardinality DEF Store!NumbersBounded
  <2> QED
    BY <2>1, <2>2, StoreCardinality, RevisedFinite DEF Store!Number
<1>2. \A n \in DOMAIN revisions' : revisions'[n] \in Store!Content
  <2>1. \A c \in SUBSET Requests : Store!Changed(r, c) \subseteq SUBSET Requests
    BY DEF Store!Changed
  <2>2. read[r] # None => read[r].content \in SUBSET Requests
    BY DEF Store!Latest, Store!Content
  <2> QED
    BY <2>1, <2>2
       DEF Store!Handle, Store!Begin, Store!Update, Store!Revise, Store!Announce,
           Store!SeekActive, Store!CompareActive, Store!CheckTarget, Store!SetActive,
           Store!ConfirmActive, Store!DeleteRevisions, Store!ClearActive,
           Store!SaveRevision, Store!Content
<1>3. active' \in Store!Number \cup {None}
  BY DEF Store!Handle, Store!Begin, Store!Update, Store!Revise, Store!Announce,
         Store!SeekActive, Store!CompareActive, Store!CheckTarget, Store!SetActive,
         Store!ConfirmActive, Store!DeleteRevisions, Store!ClearActive, Store!Has,
         Store!Operation
<1>4. op' \in [Requests -> Store!Operation \cup {None}]
  BY DEF Store!Handle, Store!Begin, Store!Update, Store!Revise, Store!Announce,
         Store!SeekActive, Store!CompareActive, Store!CheckTarget, Store!SetActive,
         Store!ConfirmActive, Store!DeleteRevisions, Store!ClearActive
<1>5. step' \in [Requests -> Store!Step]
  BY DEF Store!Handle, Store!Begin, Store!Update, Store!Revise, Store!Announce,
         Store!SeekActive, Store!CompareActive, Store!CheckTarget, Store!SetActive,
         Store!ConfirmActive, Store!DeleteRevisions, Store!ClearActive, Store!Advance,
         Store!Finish, Store!Step
<1>6. /\ read' \in [Requests -> Store!Latest \cup {None}]
      /\ found' \in [Requests -> Store!Number \cup {None}]
  BY LatestExists
     DEF Store!Handle, Store!Begin, Store!Update, Store!Revise, Store!Announce,
         Store!SeekActive, Store!CompareActive, Store!CheckTarget, Store!SetActive,
         Store!ConfirmActive, Store!DeleteRevisions, Store!ClearActive, Store!Finish
<1>7. stream' \subseteq Requests /\ overlapped' \in BOOLEAN
  BY DEF Store!Handle, Store!Begin, Store!Update, Store!Revise, Store!Announce,
         Store!SeekActive, Store!CompareActive, Store!CheckTarget, Store!SetActive,
         Store!ConfirmActive, Store!DeleteRevisions, Store!ClearActive, Store!Send
<1> QED
  BY <1>1, <1>2, <1>3, <1>4, <1>5, <1>6, <1>7

(* Every request keeps to the steps of its operation.                      *)
LEMMA KindStep ==
  ASSUME Store!TypeOK, Store!StepsAreOfKind, NEW r \in Requests, Store!Handle(r)
  PROVE  Store!StepsAreOfKind'
<1>1. /\ step'[r] = "cleared" => op'[r].kind = "delete"
      /\ step'[r] = "checked" => op'[r].kind = "activate"
  BY DEF Store!TypeOK, Store!StepsAreOfKind, Store!Handle, Store!Begin, Store!Update,
         Store!Revise, Store!Announce, Store!SeekActive, Store!CompareActive,
         Store!CheckTarget, Store!SetActive, Store!ConfirmActive, Store!DeleteRevisions,
         Store!ClearActive, Store!Advance, Store!Finish, Store!Has
<1> QED
  BY <1>1, HandleFrame DEF Store!StepsAreOfKind

----------------------------------------------------------------------------
(* Revisions without gaps, and an active one that exists.                  *)

(* Writes only add revisions, at a number that was read or the next one;   *)
(* a deletion has them all.                                                *)
LEMMA RevisionsStep ==
  ASSUME Store!TypeOK, NEW r \in Requests, Store!Handle(r)
  PROVE  \/ DOMAIN revisions' = DOMAIN revisions
         \/ /\ step[r] = "read"
            /\ DOMAIN revisions' =
                   DOMAIN revisions \cup {IF read[r] = None THEN 0 ELSE read[r].number}
         \/ /\ step[r] = "read"
            /\ DOMAIN revisions' =
                   DOMAIN revisions \cup {IF read[r] = None THEN 0 ELSE read[r].number + 1}
         \/ /\ Store!DeleteRevisions(r)
            /\ DOMAIN revisions' = {}
<1>1. CASE Store!Update(r)
  BY <1>1 DEF Store!Update, Store!Advance, Store!Finish, Store!SaveRevision, Store!UpdatedNumber
<1>2. CASE Store!Revise(r)
  BY <1>2 DEF Store!Revise, Store!Advance, Store!SaveRevision, Store!RevisedNumber
<1>3. CASE Store!DeleteRevisions(r)
  BY <1>3 DEF Store!DeleteRevisions
<1> QED
  BY <1>1, <1>2, <1>3
     DEF Store!Handle, Store!Begin, Store!Announce, Store!SeekActive, Store!CompareActive,
         Store!CheckTarget, Store!SetActive, Store!ConfirmActive, Store!ClearActive

(* A deletion that runs beside nobody finds nobody who has read.           *)
LEMMA OverlapStep ==
  ASSUME Store!TypeOK, NEW r \in Requests, Store!Handle(r), ~overlapped'
  PROVE  /\ ~overlapped
         /\ Store!DeleteRevisions(r) =>
                /\ step'[r] = "cleared"
                /\ \A q \in Requests : q # r => step'[q] \in {"none", "done"}
<1>1. CASE Store!DeleteRevisions(r)
  BY <1>1, HandleFrame DEF Store!DeleteRevisions, Store!Advance, Store!TypeOK
<1> QED
  BY <1>1 DEF Store!Handle, Store!Begin, Store!Update, Store!Revise, Store!Announce,
              Store!SeekActive, Store!CompareActive, Store!CheckTarget, Store!SetActive,
              Store!ConfirmActive, Store!ClearActive

(* Revisions stay contiguous.                                              *)
LEMMA ContiguousStep ==
  ASSUME Store!TypeOK, Store!ReadsExist, Store!RevisionsContiguous,
         NEW r \in Requests, Store!Handle(r)
  PROVE  Store!RevisionsContiguous'
<1> SUFFICES ASSUME ~overlapped', NEW n \in DOMAIN revisions'
             PROVE  0 .. n \subseteq DOMAIN revisions'
  BY DEF Store!RevisionsContiguous
<1>1. ~overlapped /\ \A m \in DOMAIN revisions : m \in Nat /\ 0 .. m \subseteq DOMAIN revisions
  BY OverlapStep, StoreCardinality, RevisedFinite
     DEF Store!RevisionsContiguous, Store!TypeOK, Store!Number
<1>2. ASSUME NEW m, step[r] = "read",
             m = (IF read[r] = None THEN 0 ELSE read[r].number)
                 \/ m = (IF read[r] = None THEN 0 ELSE read[r].number + 1)
      PROVE  m \in Nat /\ 0 .. m \subseteq DOMAIN revisions \cup {m}
  <2>1. CASE read[r] = None
    BY <1>2, <2>1
  <2>2. CASE read[r] # None
    <3>1. read[r].number \in DOMAIN revisions
      BY <1>1, <1>2, <2>2 DEF Store!ReadsExist, Store!Exists
    <3> QED
      BY <1>1, <1>2, <2>2, <3>1
  <2> QED
    BY <2>1, <2>2
<1>3. CASE DOMAIN revisions' = DOMAIN revisions \/ DOMAIN revisions' = {}
  BY <1>1, <1>3
<1>4. ASSUME NEW m, m \in Nat, 0 .. m \subseteq DOMAIN revisions \cup {m},
             DOMAIN revisions' = DOMAIN revisions \cup {m}
      PROVE  0 .. n \subseteq DOMAIN revisions'
  BY <1>1, <1>4
<1> QED
  BY <1>2, <1>3, <1>4, RevisionsStep

(* What a request has read stays there.                                    *)
LEMMA ReadsStep ==
  ASSUME Store!TypeOK, Store!StepsAreOfKind, Store!ReadsExist,
         NEW r \in Requests, Store!Handle(r)
  PROVE  Store!ReadsExist'
<1> SUFFICES ASSUME ~overlapped', NEW q \in Requests
             PROVE  /\ step'[q] = "read" /\ read'[q] # None => read'[q].number \in DOMAIN revisions'
                    /\ step'[q] = "checked" => op'[q].target \in DOMAIN revisions'
  BY DEF Store!ReadsExist, Store!Exists
<1>1. ~overlapped
  BY OverlapStep
<1>2. CASE Store!DeleteRevisions(r)
  BY <1>2, OverlapStep
<1>3. CASE ~Store!DeleteRevisions(r)
  <2>1. DOMAIN revisions \subseteq DOMAIN revisions'
    BY <1>3, RevisionsStep
  <2>2. CASE q # r
    BY <1>1, <2>1, <2>2, HandleFrame DEF Store!ReadsExist, Store!Exists
  <2>3. CASE q = r
    BY <1>1, <1>3, <2>1, <2>3, LatestExists
       DEF Store!TypeOK, Store!Handle, Store!Begin, Store!Update, Store!Revise,
           Store!Announce, Store!SeekActive, Store!CompareActive, Store!CheckTarget,
           Store!SetActive, Store!ConfirmActive, Store!ClearActive, Store!Advance,
           Store!Finish, Store!Exists
  <2> QED
    BY <2>2, <2>3
<1> QED
  BY <1>2, <1>3

(* The active revision stays there as long as deletions run alone and to   *)
(* their end.                                                              *)
LEMMA ActiveStep ==
  ASSUME Store!TypeOK, Store!ReadsExist, Store!ActiveExists,
         NEW r \in Requests, Store!Handle(r)
  PROVE  Store!ActiveExists'
<1> SUFFICES ASSUME ~overlapped', \A q \in Requests : step'[q] # "cleared", active' # None
             PROVE  active' \in DOMAIN revisions'
  BY DEF Store!ActiveExists, Store!DeletionsClean, Store!Exists
<1>1. ~overlapped /\ ~Store!DeleteRevisions(r)
  BY OverlapStep
<1>2. DOMAIN revisions \subseteq DOMAIN revisions'
  BY <1>1, RevisionsStep
<1>3. CASE Store!SetActive(r)
  BY <1>1, <1>2, <1>3 DEF Store!SetActive, Store!Advance, Store!ReadsExist, Store!Exists
<1>4. CASE Store!ClearActive(r)
  BY <1>4 DEF Store!ClearActive
<1>5. CASE ~Store!SetActive(r) /\ ~Store!ClearActive(r)
  <2>1. active' = active /\ step[r] # "cleared"
    BY <1>1, <1>5
       DEF Store!Handle, Store!Begin, Store!Update, Store!Revise, Store!Announce,
           Store!SeekActive, Store!CompareActive, Store!CheckTarget, Store!ConfirmActive,
           Store!Advance, Store!Finish
  <2>2. \A q \in Requests : step[q] # "cleared"
    BY <2>1, HandleFrame
  <2> QED
    BY <1>1, <1>2, <2>1, <2>2 DEF Store!ActiveExists, Store!DeletionsClean, Store!Exists
<1> QED
  BY <1>3, <1>4, <1>5

----------------------------------------------------------------------------
(* The cache.                                                              *)

(* What either endpoint answers depends on the store alone.                *)
LEMMA CurrentKept ==
  ASSUME UNCHANGED <<revisions, active>>
  PROVE  /\ Store!FindLatest' = Store!FindLatest
         /\ \A k \in Reader : Current(k)' = Current(k)
BY DEF Current, LatestValue, ActiveValue, OrLatest, Store!FindLatest, Store!Exists

(* Answers are values.                                                     *)
LEMMA AnswersTyped ==
  ASSUME Store!TypeOK, NEW latest \in Store!Latest \cup {None},
         NEW number \in Store!Number \cup {None}
  PROVE  /\ NoValue \in Value
         /\ LatestValue(latest) \in Value
         /\ ActiveValue(latest, number) \in Value
BY DEF NoValue, LatestValue, ActiveValue, OrLatest, Value, Store!TypeOK, Store!Latest,
       Store!Content, Store!Exists

(* The types of the cache, beside those of the store.                      *)
CacheTyped ==
    /\ cached \in [endpoint : Reader, value : Value] \cup {None}
    /\ retrieval \in Retrieval \cup {None}
    /\ waiting \subseteq Reader
    /\ retrieval = None <=> waiting = {}
    /\ silent \in BOOLEAN
    /\ misread \in BOOLEAN

(* A step of the cache: all but those of the store's requests.             *)
CacheStep ==
    \/ \E r \in Requests : EventArrives(r) \/ EventLost(r)
    \/ \E k \in Reader : Hit(k) \/ Miss(k)
    \/ Retrieve
    \/ Expire

(* A slot, a retrieval and those who wait for it keep their types.         *)
LEMMA CacheTypeStep ==
  ASSUME TypeOK, [Next]_vars
  PROVE  CacheTyped'
<1> USE DEF TypeOK, CacheTyped
<1>1. Store!FindLatest \in Store!Latest \cup {None} /\ NoValue \in Value
  BY LatestExists, AnswersTyped
<1>2. ASSUME NEW r \in Requests, Change(r)
      PROVE  CacheTyped'
  BY <1>2 DEF Change
<1>3. ASSUME NEW r \in Requests, EventArrives(r) \/ EventLost(r)
      PROVE  CacheTyped'
  BY <1>3 DEF EventArrives, EventLost, ClearCached
<1>4. ASSUME NEW k \in Reader, Hit(k)
      PROVE  CacheTyped'
  BY <1>4 DEF Hit, Give
<1>5. ASSUME NEW k \in Reader, Miss(k)
      PROVE  CacheTyped'
  <2>1. waiting' # {} /\ waiting' \subseteq Reader
    BY <1>5 DEF Miss
  <2>2. retrieval' \in Retrieval
    BY <1>1, <1>5 DEF Miss, Retrieval
  <2>3. retrieval' # None
    BY <2>2, NoRetrievalAssumption
  <2> QED
    BY <1>5, <2>1, <2>2, <2>3 DEF Miss
<1>6. CASE ReadEntity
  BY <1>1, <1>6, AnswersTyped, NoRetrievalAssumption DEF ReadEntity, Proceed, Retrieval
<1>7. CASE ReadActive
  BY <1>7, NoRetrievalAssumption DEF ReadActive, Proceed, Retrieval, Store!TypeOK
<1>8. CASE ReadRevision
  <2>1. ActiveValue(retrieval.latest, retrieval.found) \in Value
    BY <1>8, AnswersTyped DEF ReadRevision, Proceed, Retrieval
  <2> QED
    BY <1>8, <2>1, NoRetrievalAssumption DEF ReadRevision, Proceed, Retrieval
<1>9. CASE Receive
  BY <1>9 DEF Receive, Settle, Give, Retrieval
<1>10. CASE RetrievalFails
  BY <1>10 DEF RetrievalFails, Settle
<1>11. CASE Expire
  BY <1>11 DEF Expire, ClearCached
<1>12. CASE UNCHANGED vars
  BY <1>12 DEF vars, cacheVars
<1> QED
  BY <1>2, <1>3, <1>4, <1>5, <1>6, <1>7, <1>8, <1>9, <1>10, <1>11, <1>12 DEF Next, Retrieve

(* The cache does nothing to the store but take events off the stream.     *)
LEMMA CacheStepFrame ==
  ASSUME CacheStep \/ UNCHANGED vars
  PROVE  /\ UNCHANGED <<revisions, active, op, step, read, found, overlapped>>
         /\ stream' \subseteq stream
BY DEF CacheStep, EventArrives, EventLost, Hit, Miss, Retrieve, ReadEntity, ReadActive,
       ReadRevision, Proceed, Receive, RetrievalFails, Expire, vars, storeVars

(* The cache keeps what holds of the store.                                *)
LEMMA StoreKept ==
  ASSUME IInv, CacheStep \/ UNCHANGED vars
  PROVE  /\ Store!TypeOK' /\ Store!NumbersBounded' /\ Store!StepsAreOfKind'
         /\ RevisionsContiguous' /\ Store!ReadsExist' /\ ActiveExists'
<1> USE CacheStepFrame DEF IInv
<1>1. Store!TypeOK'
  BY DEF TypeOK, Store!TypeOK
<1>2. Store!Revised' = Store!Revised
  BY DEF Store!Revised, Store!Has
<1>3. Store!NumbersBounded' /\ Store!StepsAreOfKind'
  BY <1>2 DEF Store!NumbersBounded, Store!StepsAreOfKind
<1>4. RevisionsContiguous' /\ Store!ReadsExist' /\ ActiveExists'
  BY DEF RevisionsContiguous, Store!RevisionsContiguous, Store!ReadsExist, ActiveExists,
         Store!ActiveExists, Store!DeletionsClean, Store!Exists
<1> QED
  BY <1>1, <1>3, <1>4

(* Requests keep what holds of the store.                                  *)
LEMMA StoreStep ==
  ASSUME IInv, NEW r \in Requests, Store!Handle(r)
  PROVE  /\ Store!TypeOK' /\ Store!NumbersBounded' /\ Store!StepsAreOfKind'
         /\ RevisionsContiguous' /\ Store!ReadsExist' /\ ActiveExists'
BY StoreTypeStep, NumbersStep, KindStep, ContiguousStep, ReadsStep, ActiveStep
   DEF IInv, TypeOK, RevisionsContiguous, ActiveExists

(* A request sends its event as it ends, and takes no step after that.     *)
LEMMA SendStep ==
  ASSUME Store!TypeOK, StreamIsDone, NEW r \in Requests, Store!Handle(r)
  PROVE  /\ step[r] # "done"
         /\ stream \subseteq stream'
         /\ stream' \subseteq stream \cup {r}
         /\ r \in stream' => step'[r] = "done" /\ op'[r] # None
         /\ step[r] # "none" => op' = op
BY DEF StreamIsDone, Store!TypeOK, Store!Handle, Store!Begin, Store!Update, Store!Revise,
       Store!Announce, Store!SeekActive, Store!CompareActive, Store!CheckTarget,
       Store!SetActive, Store!ConfirmActive, Store!DeleteRevisions, Store!ClearActive,
       Store!Advance, Store!Finish, Store!Send, Store!Has

(* Only requests that are over have an event on its way.                   *)
LEMMA StreamStep ==
  ASSUME IInv, [Next]_vars
  PROVE  StreamIsDone'
<1> USE DEF IInv, TypeOK, StreamIsDone
<1>1. ASSUME NEW r \in Requests, Change(r)
      PROVE  StreamIsDone'
  BY <1>1, SendStep, HandleFrame DEF Change, Store!TypeOK
<1>2. CASE CacheStep \/ UNCHANGED vars
  BY <1>2, CacheStepFrame
<1> QED
  BY <1>1, <1>2 DEF Next, CacheStep

(* A write is noticed by a retrieval that has begun to read.               *)
LEMMA RetrievalStep ==
  ASSUME IInv, [Next]_vars
  PROVE  RetrievalIsCurrent'
<1> USE DEF IInv, TypeOK, RetrievalIsCurrent
<1>1. ASSUME NEW r \in Requests, Change(r)
      PROVE  RetrievalIsCurrent'
  <2>1. CASE UNCHANGED <<revisions, active>>
    BY <1>1, <2>1, CurrentKept DEF Change, Retrieval
  <2>2. CASE <<revisions, active>>' # <<revisions, active>>
    BY <1>1, <2>2 DEF Change
  <2> QED
    BY <2>1, <2>2
<1>2. ASSUME CacheStep \/ UNCHANGED vars
      PROVE  UNCHANGED <<revisions, active>> /\ Store!FindLatest' = Store!FindLatest
             /\ \A k \in Reader : Current(k)' = Current(k)
  BY <1>2, CacheStepFrame, CurrentKept
<1>3. ASSUME NEW r \in Requests, EventArrives(r) \/ EventLost(r)
      PROVE  RetrievalIsCurrent'
  BY <1>2, <1>3 DEF EventArrives, EventLost, CacheStep, Retrieval
<1>4. ASSUME NEW k \in Reader, Hit(k) \/ Miss(k)
      PROVE  RetrievalIsCurrent'
  <2>1. CASE UNCHANGED <<retrieval, silent>>
    BY <1>2, <1>4, <2>1 DEF CacheStep, Retrieval
  <2>2. CASE retrieval' = [endpoint |-> k, at |-> "sent", latest |-> None,
                           found |-> None, value |-> NoValue]
    BY <2>2
  <2> QED
    BY <1>4, <2>1, <2>2 DEF Hit, Miss
<1>5. CASE ReadEntity
  <2> DEFINE latest == Store!FindLatest
  <2>1. /\ retrieval \in Retrieval /\ silent' = silent
        /\ retrieval' = IF retrieval.endpoint = "latest"
                        THEN [retrieval EXCEPT !.at = "answered", !.value = LatestValue(latest)]
                        ELSE [retrieval EXCEPT !.at = "entity", !.latest = latest]
    BY <1>5 DEF ReadEntity, Proceed
  <2>2. LatestValue(latest) = Current("latest")
    BY DEF Current
  <2>3. latest' = latest /\ \A k \in Reader : Current(k)' = Current(k)
    BY <1>2, <1>5 DEF CacheStep, Retrieve
  <2> HIDE DEF latest
  <2>4. CASE retrieval.endpoint = "latest"
    BY <2>1, <2>2, <2>3, <2>4 DEF Retrieval
  <2>5. CASE retrieval.endpoint # "latest"
    <3>1. retrieval.endpoint = "active"
      BY <2>1, <2>5 DEF Retrieval, Reader
    <3> QED
      BY <2>1, <2>3, <2>5, <3>1 DEF Retrieval, latest
  <2> QED
    BY <2>4, <2>5
<1>6. CASE ReadActive
  BY <1>2, <1>6 DEF ReadActive, Proceed, CacheStep, Retrieve, Retrieval
<1>7. CASE ReadRevision
  BY <1>2, <1>7 DEF ReadRevision, Proceed, CacheStep, Retrieve, Retrieval, Current
<1>8. CASE Receive \/ RetrievalFails
  BY <1>8 DEF Receive, RetrievalFails, Settle
<1>9. CASE Expire \/ UNCHANGED vars
  BY <1>2, <1>9 DEF Expire, CacheStep, vars, cacheVars, Retrieval
<1> QED
  BY <1>1, <1>3, <1>4, <1>5, <1>6, <1>7, <1>8, <1>9 DEF Next, Retrieve

(* A change of the store is of a kind the SDK does not hear of, or its     *)
(* event is still to come.                                                 *)
LEMMA WriteStep ==
  ASSUME Store!TypeOK, Store!StepsAreOfKind, NEW r \in Requests, Store!Handle(r),
         <<revisions, active>>' # <<revisions, active>>, op[r].kind \in Announced
  PROVE  step'[r] = "saved" /\ op'[r] = op[r] /\ op[r] # None
BY DEF Announced, Store!TypeOK, Store!StepsAreOfKind, Store!Handle, Store!Begin, Store!Update,
       Store!Revise, Store!Announce, Store!SeekActive, Store!CompareActive,
       Store!CheckTarget, Store!SetActive, Store!ConfirmActive, Store!DeleteRevisions,
       Store!ClearActive, Store!Advance, Store!Finish, Store!Has

(* A stale value is about to be cleared, unless silent tells.              *)
LEMMA StaleStep ==
  ASSUME IInv, [Next]_vars
  PROVE  StaleIsAnnounced'
<1> USE DEF IInv, TypeOK
<1> SUFFICES ASSUME Stale', ~silent'
             PROVE  \E q \in Requests :
                        /\ op'[q] # None /\ op'[q].kind \in Announced
                        /\ step'[q] = "saved" \/ q \in stream'
  BY DEF StaleIsAnnounced
<1> DEFINE Coming == \E q \in Requests :
                         /\ op[q] # None /\ op[q].kind \in Announced
                         /\ step[q] = "saved" \/ q \in stream
<1>1. ASSUME NEW r \in Requests, Change(r)
      PROVE  \E q \in Requests :
                 /\ op'[q] # None /\ op'[q].kind \in Announced
                 /\ step'[q] = "saved" \/ q \in stream'
  <2>1. CASE UNCHANGED <<revisions, active>>
    <3>1. Stale /\ ~silent
      BY <1>1, <2>1, CurrentKept DEF Change, Stale
    <3>2. PICK q \in Requests : /\ op[q] # None /\ op[q].kind \in Announced
                                /\ step[q] = "saved" \/ q \in stream
      BY <3>1 DEF StaleIsAnnounced
    <3>3. CASE q # r
      BY <1>1, <3>2, <3>3, HandleFrame, SendStep DEF Change
    <3>4. CASE q = r
      BY <1>1, <3>2, <3>4, SendStep DEF Change, EndsUnannounced, StreamIsDone
    <3> QED
      BY <3>3, <3>4
  <2>2. CASE <<revisions, active>>' # <<revisions, active>>
    BY <1>1, <2>2, WriteStep DEF Change
  <2> QED
    BY <2>1, <2>2
<1>2. CASE CacheStep \/ UNCHANGED vars
  <2>1. UNCHANGED <<revisions, active>> /\ Store!FindLatest' = Store!FindLatest
        /\ \A k \in Reader : Current(k)' = Current(k)
    BY <1>2, CacheStepFrame, CurrentKept
  <2>2. ASSUME NEW r \in Requests, EventArrives(r)
        PROVE  Coming /\ op[r].kind \notin Announced
    BY <2>1, <2>2 DEF EventArrives, ClearCached, Listens, Announced, Stale, StaleIsAnnounced
  <2>3. ASSUME NEW r \in Requests, EventLost(r)
        PROVE  FALSE
    BY <2>3 DEF EventLost
  <2>4. ASSUME NEW k \in Reader, Hit(k) \/ Miss(k)
        PROVE  Coming
    BY <2>1, <2>4 DEF Hit, Miss, Stale, StaleIsAnnounced
  <2>5. CASE Receive
    BY <2>1, <2>5 DEF Receive, RetrievalIsCurrent, Stale, Retrieval
  <2>6. CASE ReadEntity \/ ReadActive \/ ReadRevision \/ RetrievalFails \/ UNCHANGED vars
    BY <2>1, <2>6
       DEF ReadEntity, ReadActive, ReadRevision, RetrievalFails, Proceed, vars, storeVars,
           cacheVars, Stale, StaleIsAnnounced
  <2>7. CASE Expire
    BY <2>7 DEF Expire, ClearCached, Stale
  <2>8. ASSUME Coming, ~\E r \in Requests : EventArrives(r) \/ EventLost(r)
        PROVE  \E q \in Requests :
                   /\ op'[q] # None /\ op'[q].kind \in Announced
                   /\ step'[q] = "saved" \/ q \in stream'
    BY <1>2, <2>8
       DEF CacheStep, Hit, Miss, Retrieve, ReadEntity, ReadActive, ReadRevision, Proceed,
           Receive, RetrievalFails, Expire, vars, storeVars
  <2>9. ASSUME NEW r \in Requests, EventArrives(r)
        PROVE  \E q \in Requests :
                   /\ op'[q] # None /\ op'[q].kind \in Announced
                   /\ step'[q] = "saved" \/ q \in stream'
    BY <2>2, <2>9 DEF EventArrives
  <2> QED
    BY <1>2, <2>3, <2>4, <2>5, <2>6, <2>7, <2>8, <2>9 DEF CacheStep, Retrieve
<1> QED
  BY <1>1, <1>2 DEF Next, CacheStep

----------------------------------------------------------------------------
(* The theorems.                                                           *)

(* Every reachable state satisfies the inductive invariant.                *)
THEOREM Invariance == Spec => []IInv
<1>1. Init => IInv
  <2> SUFFICES ASSUME Init
               PROVE  IInv
    OBVIOUS
  <2> USE DEF Init, Store!Init
  <2>1. Cardinality(Requests) \in Nat
    BY RevisedFinite
  <2>2. PICK n \in 0 .. 2 : /\ revisions = [k \in 0 .. n - 1 |-> {}]
                            /\ active \in {None} \cup 0 .. n - 1
    OBVIOUS
  <2>3. DOMAIN revisions = 0 .. n - 1
    BY <2>2
  <2>4. TypeOK
    <3>1. 0 .. n - 1 \subseteq Store!Number
      BY <2>1, StoreCardinality DEF Store!Number
    <3>2. Store!TypeOK
      BY <2>2, <2>3, <3>1 DEF Store!TypeOK, Store!Content, Store!Step
    <3> QED
      BY <3>2 DEF TypeOK
  <2>5. Store!NumbersBounded
    <3>1. \A m \in 0 .. n - 1 : m \in Int /\ m <= 1
      OBVIOUS
    <3> QED
      BY <2>3, <3>1, RevisedFinite, StoreCardinality DEF Store!NumbersBounded
  <2>6. RevisionsContiguous /\ ActiveExists
    BY <2>2, <2>3
       DEF RevisionsContiguous, Store!RevisionsContiguous, ActiveExists, Store!ActiveExists,
           Store!Exists
  <2> QED
    BY <2>4, <2>5, <2>6
       DEF IInv, Store!StepsAreOfKind, Store!ReadsExist, StreamIsDone, RetrievalIsCurrent,
           StaleIsAnnounced, Stale
<1>2. IInv /\ [Next]_vars => IInv'
  <2> SUFFICES ASSUME IInv, [Next]_vars
               PROVE  IInv'
    OBVIOUS
  <2>1. /\ Store!TypeOK' /\ Store!NumbersBounded' /\ Store!StepsAreOfKind'
        /\ RevisionsContiguous' /\ Store!ReadsExist' /\ ActiveExists'
    <3>1. CASE \E r \in Requests : Change(r)
      BY <3>1, StoreStep DEF Change
    <3>2. CASE CacheStep \/ UNCHANGED vars
      BY <3>2, StoreKept
    <3> QED
      BY <3>1, <3>2 DEF Next, CacheStep
  <2>2. CacheTyped'
    BY CacheTypeStep DEF IInv
  <2> QED
    BY <2>1, <2>2, StreamStep, RetrievalStep, StaleStep DEF IInv, TypeOK, CacheTyped
<1> QED
  BY <1>1, <1>2, PTL DEF Spec

(* The slot holds a value or nothing, and readers wait for a retrieval     *)
(* just while one is on its way.                                           *)
THEOREM TypeCorrect == Spec => []TypeOK
BY Invariance, PTL DEF IInv

(* Revisions are numbered from zero without a gap, for any number of       *)
(* requests, until a deletion runs beside another of them.                 *)
THEOREM RevisionsContiguousAlways == Spec => []RevisionsContiguous
BY Invariance, PTL DEF IInv

(* The revision that is active is there, as long as deletions run alone    *)
(* and to their end.                                                       *)
THEOREM ActiveExistsAlways == Spec => []ActiveExists
BY Invariance, PTL DEF IInv

(* A value that is no longer what its endpoint answers is about to be      *)
(* cleared, unless the cache could not have heard of the change.           *)
THEOREM StaleIsAnnouncedAlways == Spec => []StaleIsAnnounced
BY Invariance, PTL DEF IInv
=============================================================================
