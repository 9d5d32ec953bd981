------------------------ MODULE EndpointStatusProofs ------------------------
(***************************************************************************)
(* Proofs about EndpointStatus, for any runs of the check at once, any     *)
(* requests, sample sizes and numbers of crashes.                          *)
(***************************************************************************)
EXTENDS EndpointStatus, FiniteSetTheorems, TLAPS

(* Of the samples no more fail than there are.                             *)
LEMMA FailedFacts ==
  ASSUME TypeOK
  PROVE  Failed(entries) \in 0 .. SampleSize
<1> DEFINE n == Len(entries)
           S == {i \in 1 .. n : ~entries[i]}
<1>1. n \in Nat /\ n <= SampleSize /\ SampleSize \in Nat
  BY SampleAssumption DEF TypeOK
<1> HIDE DEF n
<1>2. IsFiniteSet(1 .. n) /\ Cardinality(1 .. n) = n
  BY <1>1, FS_Interval
<1>3. S \subseteq 1 .. n
  OBVIOUS
<1> HIDE DEF S
<1>4. Cardinality(S) \in Nat /\ Cardinality(S) <= n
  BY <1>2, <1>3, FS_Subset, FS_CardinalityType
<1> QED
  BY <1>1, <1>4 DEF Failed, S, n

(* A change of health is to one that is known, and never to the same.      *)
LEMMA NewHealthFacts ==
  ASSUME NEW health \in Health, NEW failed
  PROVE  NewHealth(health, failed) \in Health /\ NewHealth(health, failed) # "n/a"
BY DEF NewHealth, Health

----------------------------------------------------------------------------
(* Who holds an entity.                                                    *)

(* The others hold what they held.                                         *)
Beside(h) ==
    /\ \A g : g # h => /\ g \in Holders' <=> g \in Holders
                       /\ g \in Saving' <=> g \in Saving
    /\ \A g \in Holders \ {h} : Held(g)' = Held(g)

Stays == Holders' = Holders /\ Saving' = Saving /\ \A g \in Holders : Held(g)' = Held(g)

Leaves(h) == Holders' = Holders \ {h} /\ Saving' = Saving \ {h}
             /\ \A g \in Holders \ {h} : Held(g)' = Held(g)

(* A step of a run of the check, and what the run then holds.              *)
LEMMA CheckFrame ==
  ASSUME TypeOK, NEW c \in Checks, UNCHANGED request, NEW x, check' = [check EXCEPT ![c] = x]
  PROVE  /\ Beside(c)
         /\ c \in Saving <=> check[c].at = "saving"
         /\ c \in Saving' <=> x.at = "saving"
         /\ c \in Holders <=> check[c].at \in {"saving", "autoSaving"}
         /\ c \in Holders' <=> x.at \in {"saving", "autoSaving"}
         /\ Held(c) = check[c].entity /\ Held(c)' = x.entity
BY HandlersAssumption DEF TypeOK, Beside, Saving, Holders, Held

(* A step of a request, and what the request then holds.                   *)
LEMMA RequestFrame ==
  ASSUME TypeOK, NEW r \in Requests, UNCHANGED check, NEW x,
         request' = [request EXCEPT ![r] = x]
  PROVE  /\ Beside(r)
         /\ r \notin Saving /\ r \notin Saving'
         /\ r \in Holders <=> request[r].at = "saving"
         /\ r \in Holders' <=> x.at = "saving"
         /\ Held(r) = request[r].entity /\ Held(r)' = x.entity
BY HandlersAssumption DEF TypeOK, Beside, Saving, Holders, Held

(* Who held nothing and holds nothing leaves all as it was.                *)
LEMMA StaysFacts ==
  ASSUME NEW h, Beside(h), h \notin Holders, h \notin Holders'
  PROVE  Stays
<1>1. h \notin Saving /\ h \notin Saving'
  BY DEF Holders
<1>2. Holders' = Holders
  BY DEF Beside
<1>3. Saving' = Saving
  BY <1>1 DEF Beside
<1> QED
  BY <1>2, <1>3 DEF Beside, Stays

(* Who held an entity and holds none has left.                             *)
LEMMA LeavesFacts ==
  ASSUME NEW h, Beside(h), h \notin Holders'
  PROVE  Leaves(h)
<1>1. h \notin Saving'
  BY DEF Holders
<1> QED
  BY <1>1 DEF Beside, Leaves

----------------------------------------------------------------------------
(* The health on record, the healths held and the one announced.           *)

(* What holds of them.                                                     *)
HealthInv == stale \subseteq Holders /\ EntitiesFresh /\ NothingAnnounced /\ AnnouncedIsComing

(* Nothing of it changes.                                                  *)
LEMMA NothingStep ==
  ASSUME HealthInv, Stays, UNCHANGED <<doc, history>>
  PROVE  HealthInv'
BY DEF HealthInv, Stays, history, EntitiesFresh, NothingAnnounced, AnnouncedIsComing, Saving,
       Holders

(* The application is started or stopped: its health starts over.          *)
LEMMA EnabledStep ==
  ASSUME HealthInv, TypeOK, Stays, NEW enabled \in BOOLEAN, SetEnabled(enabled),
         UNCHANGED announced
  PROVE  HealthInv'
<1>1. doc'.health = "n/a" /\ stale' = IF doc.health = "n/a" THEN stale ELSE Holders
  BY DEF SetEnabled, TypeOK, Doc
<1>2. stale' \subseteq Holders'
  BY <1>1 DEF HealthInv, Stays
<1>3. EntitiesFresh'
  BY <1>1 DEF HealthInv, EntitiesFresh, Stays, TypeOK
<1>4. NothingAnnounced'
  BY <1>1 DEF HealthInv, NothingAnnounced, Stays
<1>5. AnnouncedIsComing'
  BY <1>1 DEF HealthInv, AnnouncedIsComing, Stays, SetEnabled, Holders
<1> QED
  BY <1>2, <1>3, <1>4, <1>5 DEF HealthInv

(* A held entity is saved.                                                 *)
LEMMA SavedStep ==
  ASSUME HealthInv, TypeOK, NEW h \in Holders, Leaves(h), NEW e, Save(h, e),
         e.health = Held(h).health, e.enabled = Held(h).enabled, UNCHANGED announced
  PROVE  HealthInv'
<1> USE DEF HealthInv, Leaves, Save
<1>1. stale' \subseteq Holders'
  OBVIOUS
<1>2. CASE e.health = doc.health
  <2>1. /\ stale' = stale \ {h} /\ (lost' <=> lost) /\ doc'.health = doc.health
        /\ h \notin Saving \ stale
    BY <1>2 DEF EntitiesFresh, TypeOK, Saving, Holders
  <2>2. EntitiesFresh'
    BY <2>1 DEF EntitiesFresh, Holders
  <2>3. AnnouncedIsComing'
    BY <1>2, <2>1 DEF AnnouncedIsComing, Holders
  <2> QED
    BY <1>1, <2>2, <2>3 DEF NothingAnnounced
<1>3. CASE e.health # doc.health
  <2>1. stale' = Holders' /\ (lost' <=> lost \/ h \in stale) /\ doc'.health = e.health
    BY <1>3
  <2>2. EntitiesFresh'
    BY <2>1 DEF EntitiesFresh
  <2>3. AnnouncedIsComing'
    <3> SUFFICES ASSUME announced # "nothing", ~lost, h \notin stale
                 PROVE  e.health \notin {"n/a", announced} =>
                            \E c \in Saving' : Held(c)'.health = announced
      BY <2>1 DEF AnnouncedIsComing, Holders
    <3>1. h \in Saving
      BY <1>3 DEF EntitiesFresh
    <3>2. CASE e.health # announced
      <4>1. PICK c \in Saving \ stale : Held(c).health = announced
        BY <3>1, <3>2 DEF AnnouncedIsComing
      <4> QED
        BY <3>2, <4>1 DEF Holders
    <3> QED
      BY <3>2
  <2> QED
    BY <1>1, <2>2, <2>3 DEF NothingAnnounced
<1> QED
  BY <1>2, <1>3

(* A save of a health fails, and lost tells.                               *)
LEMMA LostStep ==
  ASSUME HealthInv, NEW h, Leaves(h), stale' = stale \ {h}, lost', UNCHANGED <<doc, announced>>
  PROVE  HealthInv'
BY DEF HealthInv, Leaves, EntitiesFresh, NothingAnnounced, AnnouncedIsComing, Holders

(* Whoever was not going to save a health gives up.                        *)
LEMMA GivesUpStep ==
  ASSUME HealthInv, NEW h, h \notin Saving, Leaves(h), stale' = stale \ {h},
         UNCHANGED <<doc, lost, announced>>
  PROVE  HealthInv'
BY DEF HealthInv, Leaves, EntitiesFresh, NothingAnnounced, AnnouncedIsComing, Holders

(* A run of the check has found a change of health, and announces it.      *)
LEMMA AnnounceStep ==
  ASSUME HealthInv, TypeOK, NEW c \in Checks, c \notin Holders, Beside(c), c \in Saving',
         Held(c)'.health = announced', announced' \in {"online", "offline"},
         announced' # doc.health, UNCHANGED <<doc, stale, lost>>
  PROVE  HealthInv'
<1> USE DEF HealthInv
<1>1. Saving' = Saving \cup {c} /\ Holders' = Holders \cup {c}
  <2>1. Saving' = Saving \cup {c}
    BY DEF Beside
  <2>2. c \in Holders'
    BY DEF Holders
  <2> QED
    BY <2>1, <2>2 DEF Beside
<1>2. \A g \in Holders : Held(g)' = Held(g)
  BY DEF Beside
<1>3. stale' \subseteq Holders' /\ c \notin stale
  BY <1>1
<1>4. EntitiesFresh'
  <2> SUFFICES ASSUME NEW h \in Holders' \ stale
               PROVE  IF h \in Saving'
                      THEN /\ Held(h)'.health # doc.health
                           /\ doc.health # "n/a" => Held(h)'.health = announced'
                      ELSE Held(h)'.health = doc.health
    BY DEF EntitiesFresh
  <2>1. CASE h = c
    BY <2>1
  <2>2. CASE h # c /\ h \in Saving
    <3>1. Held(h)' = Held(h) /\ h \in Holders
      BY <1>1, <1>2, <2>2
    <3>2. Held(h).health \in {"online", "offline"}
      <4>1. check[h].entity.health # "n/a" /\ check[h].entity \in Doc /\ Held(h) = check[h].entity
        BY <2>2 DEF TypeOK, Saving, Held
      <4> QED
        BY <4>1 DEF Doc, Health
    <3> QED
      BY <1>1, <2>2, <3>1, <3>2 DEF EntitiesFresh, TypeOK, Doc, Health
  <2>3. CASE h # c /\ h \notin Saving
    BY <1>1, <1>2, <2>3 DEF EntitiesFresh
  <2> QED
    BY <2>1, <2>2, <2>3
<1>5. NothingAnnounced'
  BY DEF NothingAnnounced
<1>6. AnnouncedIsComing'
  BY <1>1, <1>3 DEF AnnouncedIsComing
<1> QED
  BY <1>3, <1>4, <1>5, <1>6

(* Who reads the entity for a save of the status holds the health there    *)
(* is.                                                                     *)
LEMMA ReadStep ==
  ASSUME HealthInv, NEW h, h \notin Holders, Beside(h), h \notin Saving', h \in Holders',
         Held(h)'.health = doc.health, Held(h)'.enabled = doc.enabled,
         UNCHANGED <<doc, history>>
  PROVE  HealthInv'
<1> USE DEF HealthInv, history
<1>1. Saving' = Saving /\ Holders' = Holders \cup {h}
  <2>1. h \notin Saving
    BY DEF Holders
  <2>2. Saving' = Saving
    BY <2>1 DEF Beside
  <2> QED
    BY <2>2 DEF Beside
<1>2. \A g \in Holders : Held(g)' = Held(g)
  BY DEF Beside
<1>3. stale' \subseteq Holders' /\ EntitiesFresh'
  BY <1>1, <1>2 DEF EntitiesFresh
<1>4. NothingAnnounced'
  BY <1>1, <1>2 DEF NothingAnnounced
<1>5. AnnouncedIsComing'
  BY <1>1, <1>2 DEF AnnouncedIsComing, Holders
<1> QED
  BY <1>3, <1>4, <1>5

(* The pod dies with all runs of the check; announcements that were not    *)
(* saved are lost.                                                         *)
LEMMA DiesStep ==
  ASSUME HealthInv, TypeOK, PodDies
  PROVE  HealthInv'
<1> USE DEF HealthInv
<1>1. Saving' = {} /\ Holders' = Holders \ Checks /\ \A h \in Holders' : Held(h)' = Held(h)
  BY HandlersAssumption DEF PodDies, Saving, Holders, Held, IdleCheck
<1>2. Saving \subseteq Checks
  BY DEF Saving
<1>3. stale' \subseteq Holders' /\ EntitiesFresh'
  BY <1>1, <1>2 DEF PodDies, EntitiesFresh
<1>4. NothingAnnounced'
  BY <1>1 DEF PodDies, NothingAnnounced
<1>5. AnnouncedIsComing'
  BY <1>1 DEF PodDies, AnnouncedIsComing
<1> QED
  BY <1>3, <1>4, <1>5

(* Steps of a run of the check.                                            *)
LEMMA CheckStep ==
  ASSUME HealthInv, TypeOK, NEW c \in Checks, Ping(c) \/ Check(c)
  PROVE  HealthInv'
<1> USE DEF IdleCheck, history
<1>1. AfterHealth.at \notin {"saving", "autoSaving"}
  BY DEF AfterHealth
<1>2. ASSUME NEW x, check' = [check EXCEPT ![c] = x], UNCHANGED <<request, doc, history>>,
             check[c].at \notin {"saving", "autoSaving"}, x.at \notin {"saving", "autoSaving"}
      PROVE  HealthInv'
  BY <1>2, CheckFrame, StaysFacts, NothingStep
<1>3. CASE Ping(c) \/ ReadSamples(c) \/ CheckFails(c)
  <2>1. /\ check' = [check EXCEPT ![c] = check'[c]] /\ UNCHANGED <<request, doc, history>>
        /\ check[c].at \notin {"saving", "autoSaving"}
        /\ check'[c].at \notin {"saving", "autoSaving"}
    <3>1. CASE Ping(c)
      BY <3>1 DEF Ping, TypeOK
    <3>2. CASE ReadSamples(c)
      <4>1. CASE check[c].at = "pinged"
        BY <3>2, <4>1 DEF ReadSamples, TypeOK
      <4>2. CASE check[c].at = "auto"
        <5> DEFINE x == IF Len(entries) < SampleSize \/ Failed(entries) \notin {0, SampleSize}
                        THEN IdleCheck
                        ELSE [IdleCheck EXCEPT !.at = "autoSampled", !.failed = Failed(entries)]
        <5>1. check' = [check EXCEPT ![c] = x] /\ UNCHANGED <<request, doc, history>>
          BY <3>2, <4>2 DEF ReadSamples
        <5>2. x.at \in {"idle", "autoSampled"}
          OBVIOUS
        <5> HIDE DEF x
        <5> QED
          BY <4>2, <5>1, <5>2 DEF TypeOK
      <4> QED
        BY <3>2, <4>1, <4>2 DEF ReadSamples
    <3>3. CASE CheckFails(c)
      BY <3>3 DEF CheckFails, TypeOK
    <3> QED
      BY <1>3, <3>1, <3>2, <3>3
  <2> QED
    BY <1>2, <2>1
<1>4. CASE Determine(c)
  <2> DEFINE health == NewHealth(doc.health, check[c].failed)
             e == [doc EXCEPT !.health = health]
  <2>1. CASE health = doc.health
    BY <1>1, <1>2, <1>4, <2>1 DEF Determine
  <2>2. CASE health # doc.health
    <3>1. health \in {"online", "offline"}
      BY NewHealthFacts DEF TypeOK, Doc, Health
    <3>2. /\ check' = [check EXCEPT ![c] = [IdleCheck EXCEPT !.at = "saving", !.entity = e]]
          /\ announced' = health /\ UNCHANGED <<request, doc, stale, lost>>
          /\ check[c].at = "sampled"
      BY <1>4, <2>2 DEF Determine
    <3>3. e.health = health
      BY DEF TypeOK, Doc
    <3> DEFINE x == [IdleCheck EXCEPT !.at = "saving", !.entity = e]
    <3>4. x.at = "saving" /\ x.entity = e /\ check' = [check EXCEPT ![c] = x]
      BY <3>2
    <3> HIDE DEF e, health, x
    <3>5. c \notin Holders /\ Beside(c) /\ c \in Saving' /\ Held(c)' = e
      BY <3>2, <3>4, CheckFrame
    <3> QED
      BY <2>2, <3>1, <3>2, <3>3, <3>5, AnnounceStep
  <2> QED
    BY <2>1, <2>2
<1>5. CASE SaveHealth(c) \/ SaveHealthFails(c)
  <2>1. check' = [check EXCEPT ![c] = AfterHealth] /\ check[c].at = "saving"
        /\ UNCHANGED <<request, announced>>
    BY <1>5 DEF SaveHealth, SaveHealthFails
  <2>2. c \in Holders /\ Leaves(c) /\ Held(c) = check[c].entity
    BY <1>1, <2>1, CheckFrame, LeavesFacts
  <2>3. CASE SaveHealth(c)
    BY <2>1, <2>2, <2>3, SavedStep DEF SaveHealth
  <2>4. CASE SaveHealthFails(c)
    BY <2>1, <2>2, <2>4, LostStep DEF SaveHealthFails
  <2> QED
    BY <1>5, <2>3, <2>4
<1>6. CASE DetermineStatus(c)
  <2>1. PICK status : check' = [check EXCEPT ![c] =
                     IF status = doc.status THEN IdleCheck
                     ELSE [IdleCheck EXCEPT !.at = "autoSaving",
                                            !.entity = [doc EXCEPT !.status = status]]]
    BY <1>6 DEF DetermineStatus
  <2>2. check[c].at = "autoSampled" /\ UNCHANGED <<request, doc, history>>
    BY <1>6 DEF DetermineStatus
  <2>3. CASE status = doc.status
    BY <1>2, <2>1, <2>2, <2>3
  <2>4. CASE status # doc.status
    <3> DEFINE e == [doc EXCEPT !.status = status]
    <3>1. e.health = doc.health /\ e.enabled = doc.enabled
      BY DEF TypeOK, Doc
    <3> DEFINE x == [IdleCheck EXCEPT !.at = "autoSaving", !.entity = e]
    <3>2. check' = [check EXCEPT ![c] = x] /\ x.at = "autoSaving" /\ x.entity = e
      BY <2>1, <2>4
    <3> HIDE DEF e, x
    <3>3. c \notin Holders /\ Beside(c) /\ c \notin Saving' /\ c \in Holders' /\ Held(c)' = e
      BY <2>2, <3>2, CheckFrame
    <3> QED
      BY <2>2, <3>1, <3>3, ReadStep
  <2> QED
    BY <2>3, <2>4
<1>7. CASE SaveStatus(c)
  <2> DEFINE x == IdleCheck
  <2>1. check' = [check EXCEPT ![c] = x] /\ x.at = "idle" /\ UNCHANGED request
        /\ check[c].at = "autoSaving"
    BY <1>7 DEF SaveStatus
  <2> HIDE DEF x
  <2>2. c \in Holders /\ Leaves(c) /\ Held(c) = check[c].entity
    BY <2>1, CheckFrame, LeavesFacts
  <2> QED
    BY <1>7, <2>2, SavedStep DEF SaveStatus
<1> QED
  BY <1>3, <1>4, <1>5, <1>6, <1>7 DEF Check

(* Steps of a request.                                                     *)
LEMMA RequestStep ==
  ASSUME HealthInv, TypeOK, NEW r \in Requests, Request(r)
  PROVE  HealthInv'
<1> USE DEF IdleRequest
<1>1. ASSUME NEW x, request' = [request EXCEPT ![r] = x], UNCHANGED check,
             request[r].at # "saving", x.at # "saving"
      PROVE  Stays
  BY <1>1, RequestFrame, StaysFacts
<1>2. ASSUME Finish(r), UNCHANGED check
      PROVE  /\ request' = [request EXCEPT ![r] = [IdleRequest EXCEPT !.at = "done"]]
             /\ Leaves(r) /\ r \notin Saving /\ Held(r) = request[r].entity
  <2> DEFINE x == [IdleRequest EXCEPT !.at = "done"]
  <2>1. request' = [request EXCEPT ![r] = x] /\ x.at = "done"
    BY <1>2 DEF Finish
  <2> HIDE DEF x
  <2>2. Leaves(r) /\ r \notin Saving /\ Held(r) = request[r].entity
    BY <1>2, <2>1, RequestFrame, LeavesFacts
  <2> QED
    BY <2>1, <2>2 DEF x
<1>9. ASSUME Finish(r), UNCHANGED check, request[r].at # "saving"
      PROVE  Stays
  <2> DEFINE x == [IdleRequest EXCEPT !.at = "done"]
  <2>1. request' = [request EXCEPT ![r] = x] /\ x.at = "done"
    BY <1>9 DEF Finish
  <2> HIDE DEF x
  <2> QED
    BY <1>1, <1>9, <2>1
<1>3. CASE SwitchQuietly(r)
  <2>1. Stays /\ UNCHANGED announced
    BY <1>3, <1>9 DEF SwitchQuietly
  <2> QED
    BY <1>3, <2>1, EnabledStep DEF SwitchQuietly
<1>4. CASE Toggle(r)
  <2>1. request' = [request EXCEPT ![r] = request'[r]] /\ UNCHANGED <<check, doc, history>>
        /\ request[r].at # "saving" /\ request'[r].at # "saving"
    BY <1>4 DEF Toggle, TypeOK
  <2> QED
    BY <1>1, <2>1, NothingStep
<1>5. CASE Switch(r)
  <2>1. Stays /\ UNCHANGED announced
    BY <1>5, <1>9 DEF Switch
  <2>2. SetEnabled(request[r].at = "enabling") /\ (request[r].at = "enabling") \in BOOLEAN
    BY <1>5 DEF Switch
  <2> QED
    BY <2>1, <2>2, EnabledStep
<1>6. CASE ReadForStatus(r)
  <2>1. request' = [request EXCEPT ![r] = [at |-> "saving", entity |-> doc]]
        /\ request[r].at = "new" /\ UNCHANGED <<check, doc, history>>
    BY <1>6 DEF ReadForStatus
  <2> DEFINE x == [at |-> "saving", entity |-> doc]
  <2>3. request' = [request EXCEPT ![r] = x] /\ x.at = "saving" /\ x.entity = doc
    BY <2>1
  <2> HIDE DEF x
  <2>2. r \notin Holders /\ Beside(r) /\ r \notin Saving' /\ r \in Holders' /\ Held(r)' = doc
    BY <2>1, <2>3, RequestFrame
  <2> QED
    BY <2>1, <2>2, ReadStep
<1>7. CASE SetStatus(r)
  <2>1. PICK status : Save(r, [request[r].entity EXCEPT !.status = status])
    BY <1>7 DEF SetStatus
  <2> DEFINE e == [request[r].entity EXCEPT !.status = status]
  <2>2. e.health = request[r].entity.health /\ e.enabled = request[r].entity.enabled
    BY DEF TypeOK, Doc
  <2> HIDE DEF e
  <2>3. r \in Holders
    BY <1>7 DEF SetStatus, Holders
  <2>4. UNCHANGED announced /\ Leaves(r) /\ Held(r) = request[r].entity /\ Save(r, e)
    BY <1>2, <1>7, <2>1 DEF SetStatus, e
  <2> QED
    BY <2>2, <2>3, <2>4, SavedStep
<1>8. CASE RequestFails(r)
  BY <1>2, <1>8, GivesUpStep DEF RequestFails
<1> QED
  BY <1>3, <1>4, <1>5, <1>6, <1>7, <1>8 DEF Request

(* The cache of the pod has no part in it.                                 *)
LEMMA HealthStep ==
  ASSUME HealthInv, TypeOK, [Next]_vars
  PROVE  HealthInv'
<1>1. CASE Control \/ FindEnabledApps \/ LoadCache \/ LoadFails \/ UNCHANGED vars
  <2>1. UNCHANGED <<check, request, doc, history>>
    BY <1>1 DEF Control, TakeStarted, StartChecks, TakeStopped, FindEnabledApps, LoadCache,
           LoadFails, vars
  <2>2. Stays
    BY <2>1 DEF Stays, Holders, Saving, Held
  <2> QED
    BY <2>1, <2>2, NothingStep
<1> QED
  BY <1>1, CheckStep, RequestStep, DiesStep DEF Next

----------------------------------------------------------------------------
(* The types.                                                              *)

(* A sample more, and the first one less.                                  *)
LEMMA AppendTail ==
  ASSUME NEW S, NEW s \in Seq(S), NEW x \in S
  PROVE  /\ Append(s, x) \in Seq(S) /\ Len(Append(s, x)) = Len(s) + 1 /\ Len(s) \in Nat
         /\ Tail(Append(s, x)) \in Seq(S) /\ Len(Tail(Append(s, x))) = Len(s)
<1>1. Append(s, x) \in Seq(S) /\ Len(Append(s, x)) = Len(s) + 1 /\ Len(s) \in Nat
  OBVIOUS
<1>2. \A t \in Seq(S) : Len(t) > 0 => Tail(t) \in Seq(S) /\ Len(Tail(t)) = Len(t) - 1
  OBVIOUS
<1> QED
  BY <1>1, <1>2

(* The types of checks, requests and what they read and write.             *)
LEMMA CheckTyped ==
  ASSUME TypeOK, NEW c \in Checks, Ping(c) \/ Check(c), stale' \subseteq Holders'
  PROVE  TypeOK'
<1> USE DEF TypeOK, podVars, history
<1> DEFINE At == {"idle", "pinged", "sampled", "saving", "auto", "autoSampled", "autoSaving"}
           Run == [at : At, failed : 0 .. SampleSize, entity : Doc]
<1>1. /\ Failed(entries) \in 0 .. SampleSize /\ 0 \in 0 .. SampleSize
      /\ IdleCheck \in Run /\ AfterHealth \in Run /\ NoDoc \in Doc
      /\ AfterHealth.at # "saving" /\ IdleCheck.at # "saving"
  <2>1. NoDoc \in Doc
    BY DEF NoDoc, Doc, Health, Status
  <2>2. Failed(entries) \in 0 .. SampleSize /\ 0 \in 0 .. SampleSize
    BY FailedFacts, SampleAssumption
  <2>3. IdleCheck \in Run /\ IdleCheck.at = "idle"
    BY <2>1, <2>2 DEF IdleCheck
  <2>4. [IdleCheck EXCEPT !.at = "auto"] \in Run /\ [IdleCheck EXCEPT !.at = "auto"].at = "auto"
    BY <2>3
  <2>5. AfterHealth \in Run /\ AfterHealth.at # "saving"
    BY <2>3, <2>4 DEF AfterHealth
  <2> QED
    BY <2>1, <2>2, <2>3, <2>5
<1>2. ASSUME NEW x \in Run, check' = [check EXCEPT ![c] = x],
             x.at = "saving" => x.entity.health # "n/a"
      PROVE  /\ check' \in [Checks -> Run]
             /\ \A g \in Saving' : check'[g].entity.health # "n/a"
  BY <1>2 DEF Saving
<1>3. CASE Ping(c)
  <2>1. entries' \in Seq(BOOLEAN) /\ Len(entries') <= SampleSize
    <3>1. PICK ok \in BOOLEAN :
              LET all == Append(entries, ok)
              IN  entries' = IF Len(all) > SampleSize THEN Tail(all) ELSE all
      BY <1>3 DEF Ping
    <3> DEFINE all == Append(entries, ok)
    <3>2. /\ all \in Seq(BOOLEAN) /\ Len(all) = Len(entries) + 1 /\ Len(entries) \in Nat
          /\ Tail(all) \in Seq(BOOLEAN) /\ Len(Tail(all)) = Len(entries)
      BY AppendTail
    <3>3. entries' = IF Len(all) > SampleSize THEN Tail(all) ELSE all
      BY <3>1
    <3>4. Len(entries) <= SampleSize /\ SampleSize \in Nat
      BY SampleAssumption
    <3> HIDE DEF all, TypeOK
    <3>5. CASE Len(all) > SampleSize
      BY <3>2, <3>3, <3>4, <3>5
    <3>6. CASE ~(Len(all) > SampleSize)
      BY <3>2, <3>3, <3>4, <3>6
    <3> QED
      BY <3>5, <3>6
  <2> DEFINE x == [check[c] EXCEPT !.at = "pinged"]
  <2>2. x \in Run /\ x.at # "saving" /\ check' = [check EXCEPT ![c] = x]
    BY <1>3 DEF Ping
  <2> HIDE DEF x, Run
  <2>3. check' \in [Checks -> Run] /\ \A g \in Saving' : check'[g].entity.health # "n/a"
    BY <1>2, <2>2
  <2> QED
    BY <1>3, <2>1, <2>3 DEF Ping, Run
<1>4. ASSUME NEW x \in Run, check' = [check EXCEPT ![c] = x],
             x.at = "saving" => x.entity.health # "n/a",
             UNCHANGED <<entries, request, events, podVars>>,
             doc' \in Doc, announced' \in {"nothing", "online", "offline"}, lost' \in BOOLEAN
      PROVE  TypeOK'
  BY <1>2, <1>4
<1>6. CASE CheckFails(c)
  BY <1>1, <1>4, <1>6 DEF CheckFails
<1>7. CASE ReadSamples(c)
  <2>1. CASE check[c].at = "pinged"
    <3> DEFINE x == [check[c] EXCEPT !.at = "sampled", !.failed = Failed(entries)]
    <3>1. x \in Run /\ x.at # "saving" /\ check' = [check EXCEPT ![c] = x]
      BY <1>1, <1>7, <2>1 DEF ReadSamples
    <3> HIDE DEF x, Run
    <3> QED
      BY <1>4, <1>7, <3>1 DEF ReadSamples
  <2>2. CASE check[c].at = "auto"
    <3> DEFINE x == IF Len(entries) < SampleSize \/ Failed(entries) \notin {0, SampleSize}
                    THEN IdleCheck
                    ELSE [IdleCheck EXCEPT !.at = "autoSampled", !.failed = Failed(entries)]
    <3>1. x \in Run /\ x.at # "saving"
      BY <1>1
    <3>2. check' = [check EXCEPT ![c] = x]
      BY <1>7, <2>2 DEF ReadSamples
    <3> HIDE DEF x, Run
    <3> QED
      BY <1>4, <1>7, <3>1, <3>2 DEF ReadSamples
  <2> QED
    BY <1>7, <2>1, <2>2 DEF ReadSamples
<1>8. CASE Determine(c)
  <2> DEFINE health == NewHealth(doc.health, check[c].failed)
             x == [IdleCheck EXCEPT !.at = "saving", !.entity = [doc EXCEPT !.health = health]]
  <2>1. health \in {"online", "offline"}
    BY NewHealthFacts DEF Doc, Health
  <2>2. CASE health = doc.health
    BY <1>1, <1>4, <1>8, <2>2 DEF Determine
  <2>3. CASE health # doc.health
    <3>1. [doc EXCEPT !.health = health] \in Doc
      BY <2>1 DEF Doc, Health
    <3>2. x \in Run /\ x.entity.health # "n/a"
      <4> HIDE DEF health
      <4> QED
        BY <1>1, <2>1, <3>1 DEF IdleCheck, Doc
    <3>3. check' = [check EXCEPT ![c] = x] /\ announced' = health
      BY <1>8, <2>3 DEF Determine
    <3> HIDE DEF x, health, Run
    <3> QED
      BY <1>4, <1>8, <2>1, <3>2, <3>3 DEF Determine
  <2> QED
    BY <2>2, <2>3
<1>9. CASE SaveHealth(c) \/ SaveHealthFails(c)
  BY <1>1, <1>4, <1>9 DEF SaveHealth, SaveHealthFails, Save
<1>10. CASE DetermineStatus(c)
  <2>1. PICK status \in {doc.status, AutoStatus(check[c].failed)} : check' = [check EXCEPT ![c] =
                     IF status = doc.status THEN IdleCheck
                     ELSE [IdleCheck EXCEPT !.at = "autoSaving",
                                            !.entity = [doc EXCEPT !.status = status]]]
    BY <1>10 DEF DetermineStatus
  <2> DEFINE x == IF status = doc.status THEN IdleCheck
                  ELSE [IdleCheck EXCEPT !.at = "autoSaving",
                                         !.entity = [doc EXCEPT !.status = status]]
  <2>2. status \in Status
    BY <2>1 DEF AutoStatus, Doc, Status
  <2>3. [doc EXCEPT !.status = status] \in Doc
    BY <2>2 DEF Doc
  <2>4. x \in Run /\ x.at # "saving"
    BY <1>1, <2>3
  <2>5. check' = [check EXCEPT ![c] = x]
    BY <2>1
  <2> HIDE DEF x, Run
  <2> QED
    BY <1>4, <1>10, <2>4, <2>5 DEF DetermineStatus
<1>11. CASE SaveStatus(c)
  BY <1>1, <1>4, <1>11 DEF SaveStatus, Save
<1> QED
  BY <1>3, <1>6, <1>7, <1>8, <1>9, <1>10, <1>11 DEF Check

(* The same of the steps of requests.                                      *)
LEMMA RequestTyped ==
  ASSUME TypeOK, NEW r \in Requests, Request(r), stale' \subseteq Holders'
  PROVE  TypeOK'
<1> USE DEF TypeOK, podVars, history
<1>1. NoDoc \in Doc /\ \A enabled \in BOOLEAN :
          [doc EXCEPT !.enabled = enabled, !.health = "n/a"] \in Doc
  BY DEF NoDoc, Doc, Health, Status
<1>2. Saving' = Saving
  BY DEF Saving, Request, SwitchQuietly, Toggle, Switch, ReadForStatus, SetStatus, RequestFails
<1>3. CASE SwitchQuietly(r)
  BY <1>1, <1>2, <1>3 DEF SwitchQuietly, SetEnabled, Finish, IdleRequest
<1>4. CASE Toggle(r)
  BY <1>2, <1>4 DEF Toggle
<1>5. CASE Switch(r)
  BY <1>1, <1>2, <1>5 DEF Switch, SetEnabled, Finish, IdleRequest
<1>6. CASE ReadForStatus(r)
  BY <1>2, <1>6 DEF ReadForStatus
<1>7. CASE SetStatus(r)
  <2>1. doc' \in Doc
    BY <1>7 DEF SetStatus, Save, Doc
  <2> QED
    BY <1>1, <1>2, <1>7, <2>1 DEF SetStatus, Save, Finish, IdleRequest
<1>8. CASE RequestFails(r)
  BY <1>1, <1>2, <1>8 DEF RequestFails, Finish, IdleRequest
<1> QED
  BY <1>3, <1>4, <1>5, <1>6, <1>7, <1>8 DEF Request

(* The same of every step.                                                 *)
LEMMA TypeStep ==
  ASSUME TypeOK, StartingRuns, [Next]_vars, stale' \subseteq Holders'
  PROVE  TypeOK' /\ StartingRuns'
<1>1. CASE Control \/ FindEnabledApps \/ LoadCache \/ LoadFails \/ UNCHANGED vars
  <2>1. UNCHANGED <<doc, entries, check, request, announced, stale, lost, crashes>>
    BY <1>1 DEF Control, TakeStarted, StartChecks, TakeStopped, FindEnabledApps, LoadCache,
       LoadFails, vars, podVars, history
  <2>2. /\ events' \subseteq Requests \X {"start", "stop"}
        /\ starting' \subseteq Requests
        /\ pod' \in {"starting", "running", "failed"}
        /\ found' \in {"nothing", "enabled", "disabled"}
        /\ scheduled' \in BOOLEAN
    BY <1>1 DEF Control, TakeStarted, StartChecks, TakeStopped, FindEnabledApps, LoadCache,
       LoadFails, Cached, vars, podVars, TypeOK
  <2>3. (scheduled' => pod' = "running") /\ StartingRuns'
    <3> USE DEF TypeOK, StartingRuns
    <3>1. ASSUME NEW r \in Requests, TakeStarted(r)
          PROVE  (scheduled' => pod' = "running") /\ StartingRuns'
      BY <3>1 DEF TakeStarted
    <3>2. ASSUME NEW r \in Requests, StartChecks(r)
          PROVE  (scheduled' => pod' = "running") /\ StartingRuns'
      BY <3>2 DEF StartChecks
    <3>3. ASSUME NEW r \in Requests, TakeStopped(r)
          PROVE  (scheduled' => pod' = "running") /\ StartingRuns'
      BY <3>3 DEF TakeStopped
    <3>4. CASE FindEnabledApps \/ UNCHANGED vars
      BY <3>4 DEF FindEnabledApps, vars, podVars
    <3>5. CASE LoadCache
      BY <3>5 DEF LoadCache
    <3>6. CASE LoadFails
      BY <3>6 DEF LoadFails
    <3> QED
      BY <1>1, <3>1, <3>2, <3>3, <3>4, <3>5, <3>6 DEF Control
  <2> QED
    BY <2>1, <2>2, <2>3 DEF TypeOK, Saving
<1>2. CASE PodDies
  <2>1. crashes' \in 0 .. MaxCrashes
    BY <1>2, BoundsAssumption DEF PodDies, TypeOK
  <2>2. check' \in [Checks -> [at : {"idle", "pinged", "sampled", "saving", "auto",
                                    "autoSampled", "autoSaving"},
                              failed : 0 .. SampleSize, entity : Doc]]
        /\ Saving' = {}
    BY <1>2, SampleAssumption DEF PodDies, IdleCheck, NoDoc, Doc, Health, Status, Saving
  <2> QED
    BY <1>2, <2>1, <2>2 DEF PodDies, TypeOK, StartingRuns
<1>3. ASSUME NEW c \in Checks, Ping(c) \/ Check(c)
      PROVE  TypeOK' /\ StartingRuns'
  <2>1. UNCHANGED podVars
    BY <1>3 DEF Check, Ping, ReadSamples, Determine, SaveHealth, SaveHealthFails,
       DetermineStatus, SaveStatus, CheckFails
  <2> QED
    BY <1>3, <2>1, CheckTyped DEF StartingRuns, podVars
<1>4. ASSUME NEW r \in Requests, Request(r)
      PROVE  TypeOK' /\ StartingRuns'
  <2>1. UNCHANGED podVars
    BY <1>4 DEF Request, SwitchQuietly, Toggle, Switch, ReadForStatus, SetStatus, RequestFails
  <2> QED
    BY <1>4, <2>1, RequestTyped DEF StartingRuns, podVars
<1> QED
  BY <1>1, <1>2, <1>3, <1>4 DEF Next

----------------------------------------------------------------------------
(* The theorems.                                                           *)

(* Every reachable state satisfies the inductive invariant.                *)
THEOREM Invariance == Spec => []IInv
<1>1. Init => IInv
  <2> SUFFICES ASSUME Init
               PROVE  IInv
    OBVIOUS
  <2>1. Holders = {} /\ Saving = {}
    BY DEF Init, Holders, Saving, IdleCheck, IdleRequest
  <2>2. TypeOK
    <3>1. NoDoc \in Doc
          /\ [enabled |-> FALSE, health |-> "offline", status |-> "operational"] \in Doc
          /\ [enabled |-> TRUE, health |-> "n/a", status |-> "operational"] \in Doc
      BY DEF Doc, NoDoc, Health, Status
    <3>2. 0 \in 0 .. SampleSize /\ 0 \in 0 .. MaxCrashes
      BY SampleAssumption, BoundsAssumption
    <3>3. entries \in Seq(BOOLEAN) /\ Len(entries) <= SampleSize
      BY SampleAssumption DEF Init
    <3> QED
      BY <2>1, <3>1, <3>2, <3>3 DEF Init, TypeOK, IdleCheck, IdleRequest
  <2> QED
    BY <2>1, <2>2 DEF Init, IInv, StartingRuns, EntitiesFresh, NothingAnnounced, AnnouncedIsComing
<1>2. IInv /\ [Next]_vars => IInv'
  <2> SUFFICES ASSUME IInv, [Next]_vars
               PROVE  IInv'
    OBVIOUS
  <2>1. HealthInv'
    BY HealthStep DEF IInv, HealthInv, TypeOK
  <2> QED
    BY <2>1, TypeStep DEF IInv, HealthInv
<1> QED
  BY <1>1, <1>2, PTL DEF Spec

(* Samples, runs, requests and the cache of the pod have their types, and  *)
(* no more samples are kept than are looked at.                            *)
THEOREM TypeCorrect == Spec => []TypeOK
BY Invariance, PTL DEF IInv

(* The health on record of an enabled application is the one announced     *)
(* last when no change is being saved, however many runs of its check      *)
(* overlap, unless a save failed or undid another.                         *)
THEOREM HealthIsAnnouncedAlways == Spec => []HealthIsAnnounced
<1>1. IInv => HealthIsAnnounced
  BY DEF IInv, NothingAnnounced, AnnouncedIsComing, HealthIsAnnounced
<1> QED
  BY <1>1, Invariance, PTL
=============================================================================
