------------------------ MODULE NotificationsProofs ------------------------
(***************************************************************************)
(* Proofs about Notifications, for any events, types, subscribers and size *)
(* of the pages, and any number of crashes.                                *)
(***************************************************************************)
EXTENDS Notifications, SequenceTheorems, TLAPS

(* The types of an event are numbered from one.                            *)
LEMMA TypesAreNumbered ==
  /\ Types = 1 .. Len(Subscribed) /\ 1 \in Types
  /\ \A t \in Types : t \in Nat /\ t > 0 /\ SubscribersOf(t) \subseteq Subscribers
<1>1. Subscribed \in Seq(Seq(Subscribers)) /\ Subscribed # <<>>
  BY SubscribedAssumption
<1>2. Types = 1 .. Len(Subscribed) /\ Len(Subscribed) \in Nat /\ Len(Subscribed) > 0
  BY <1>1 DEF Types
<1>3. 1 \in Types /\ \A t \in Types : t \in Nat /\ t > 0
  BY <1>2
<1>4. \A t \in Types : SubscribersOf(t) \subseteq Subscribers
  BY DEF Subscribers
<1> QED
  BY <1>2, <1>3, <1>4

(* A handler at a type is not idle.                                        *)
LEMMA AtTypeFacts ==
  ASSUME NEW t \in Types
  PROVE  /\ AtType(t) # Idle
         /\ AtType(t).type = t /\ AtType(t).skip = 0 /\ AtType(t).found = {}
         /\ AtType(t) \in [type : {0} \cup Types, skip : Nat, found : SUBSET Subscribers]
         /\ Idle \in [type : {0} \cup Types, skip : Nat, found : SUBSET Subscribers]
         /\ Idle.type = 0 /\ Idle.skip = 0
BY TypesAreNumbered DEF AtType, Idle

----------------------------------------------------------------------------
(* Pages.                                                                  *)

(* A part of a sequence that ends in it.                                   *)
LEMMA PartFacts ==
  ASSUME NEW S, NEW s \in Seq(S), NEW m \in Nat \ {0}, NEW n \in Nat, n <= Len(s)
  PROVE  /\ SubSeq(s, m, n) \in Seq(S)
         /\ Len(SubSeq(s, m, n)) = IF m <= n THEN n - m + 1 ELSE 0
         /\ \A i \in 1 .. n - m + 1 : SubSeq(s, m, n)[i] = s[m + i - 1]
<1>1. m \in Int /\ n \in Int
  OBVIOUS
<1>2. \A i \in m .. n : s[i] \in S
  OBVIOUS
<1> QED
  BY <1>1, <1>2, SubSeqProperties

(* A sequence up to one of its elements.                                   *)
LEMMA PrefixFacts ==
  ASSUME NEW S, NEW s \in Seq(S), NEW n \in Nat, n <= Len(s)
  PROVE  /\ SubSeq(s, 1, n) \in Seq(S) /\ Len(SubSeq(s, 1, n)) = n
         /\ \A i \in 1 .. n : SubSeq(s, 1, n)[i] = s[i]
OBVIOUS

(* A page holds what follows the part that was skipped, and all of it if   *)
(* it is not full: with what it found before, a handler has found everyone *)
(* up to the end of the page, and nobody else.                             *)
LEMMA PageFacts ==
  ASSUME TypeOK, NEW e \in Events, job[e].type \in Types
  PROVE  /\ Found(e) \in SUBSET Subscribers
         /\ \A s \in Found(e) :
                \/ s \in job[e].found
                \/ \E k \in DOMAIN subscriptions[job[e].type] :
                       subscriptions[job[e].type][k] = s
         /\ \A k \in DOMAIN subscriptions[job[e].type] :
                k > job[e].skip /\ (~HasNext(Page(e)) \/ k <= job[e].skip + PageSize)
                    => subscriptions[job[e].type][k] \in Found(e)
         /\ HasNext(Page(e)) =>
                1 .. job[e].skip + PageSize \subseteq DOMAIN subscriptions[job[e].type]
<1> DEFINE list == subscriptions[job[e].type]
           skip == job[e].skip
           rest == SubSeq(list, skip + 1, Len(list))
           n    == IF Len(rest) < PageSize THEN Len(rest) ELSE PageSize
           page == Page(e)
<1>0. PageSize \in Nat \ {0}
  BY BoundsAssumption
<1>1. /\ list \in Seq(Subscribers) /\ Len(list) \in Nat /\ DOMAIN list = 1 .. Len(list)
      /\ skip \in Nat /\ skip + 1 \in Nat \ {0} /\ job[e].found \in SUBSET Subscribers
  BY DEF TypeOK
<1>2. /\ rest = SubSeq(list, skip + 1, Len(list))
      /\ page = SubSeq(rest, 1, n)
  BY DEF Page
<1>3. n = IF Len(rest) < PageSize THEN Len(rest) ELSE PageSize
  OBVIOUS
<1>4. Found(e) = job[e].found \cup {page[k] : k \in DOMAIN page}
  BY DEF Found
<1>5. HasNext(page) <=> Len(page) = PageSize
  BY DEF HasNext
<1> HIDE DEF list, skip, rest, n, page
<1>n. Len(list) \in Nat /\ skip \in Nat /\ PageSize \in Nat /\ PageSize > 0
  BY <1>0, <1>1
<1>6. /\ rest \in Seq(Subscribers)
      /\ Len(rest) = IF skip + 1 <= Len(list) THEN Len(list) - (skip + 1) + 1 ELSE 0
      /\ \A i \in 1 .. Len(list) - (skip + 1) + 1 : rest[i] = list[skip + 1 + i - 1]
  BY <1>1, <1>2, PartFacts
<1>7. Len(rest) = IF skip < Len(list) THEN Len(list) - skip ELSE 0
  <2>1. Len(rest) = IF skip + 1 <= Len(list) THEN Len(list) - (skip + 1) + 1 ELSE 0
    BY <1>6
  <2> QED
    BY <1>n, <2>1
<1>8. n \in Nat /\ n <= Len(rest) /\ n <= PageSize /\ (n # PageSize => n = Len(rest))
      /\ Len(rest) \in Nat
  BY <1>n, <1>3, <1>7
<1>9. page \in Seq(Subscribers) /\ Len(page) = n /\ \A i \in 1 .. n : page[i] = rest[i]
  BY <1>2, <1>6, <1>8, PrefixFacts
<1>10. DOMAIN page = 1 .. n
  BY <1>9
<1>11. ASSUME NEW k \in 1 .. n
       PROVE  skip + k \in DOMAIN list /\ page[k] = list[skip + k]
  <2>1. /\ k \in 1 .. Len(list) - (skip + 1) + 1 /\ skip + 1 + k - 1 = skip + k
        /\ skip + k \in 1 .. Len(list)
    BY <1>n, <1>7, <1>8
  <2>2. rest[k] = list[skip + k]
    BY <1>6, <2>1
  <2> QED
    BY <1>1, <1>9, <2>1, <2>2
<1>12. ASSUME NEW k \in DOMAIN list, k > skip, ~HasNext(page) \/ k <= skip + PageSize
       PROVE  list[k] \in Found(e)
  <2>1. k \in 1 .. Len(list)
    BY <1>1
  <2>2. n # PageSize \/ k <= skip + PageSize
    BY <1>5, <1>9, <1>12
  <2>3. k - skip \in 1 .. n /\ skip + (k - skip) = k
    BY <1>n, <1>7, <1>8, <1>12, <2>1, <2>2
  <2> DEFINE i == k - skip
  <2> HIDE DEF i
  <2>4. i \in 1 .. n /\ skip + i = k
    BY <2>3 DEF i
  <2>5. page[i] = list[k]
    BY <1>11, <2>4
  <2> QED
    BY <1>4, <1>10, <2>4, <2>5
<1>15. HasNext(page) => 1 .. skip + PageSize \subseteq DOMAIN list
  <2> SUFFICES ASSUME HasNext(page)
               PROVE  skip + PageSize <= Len(list)
    BY <1>n, <1>1
  <2>1. n = PageSize
    BY <1>5, <1>9
  <2> QED
    BY <1>n, <1>7, <1>8, <2>1
<1>13. \A s \in Found(e) : s \in job[e].found \/ \E k \in DOMAIN list : list[k] = s
  BY <1>4, <1>10, <1>11
<1>14. Found(e) \in SUBSET Subscribers
  BY <1>1, <1>13
<1> QED
  BY <1>12, <1>13, <1>14, <1>15 DEF list, skip, page

(* Two parts put together.                                                 *)
LEMMA JoinedFacts ==
  ASSUME NEW S, NEW s \in Seq(S), NEW k \in 1 .. Len(s),
         NEW before \in Seq(S), NEW behind \in Seq(S), NEW r \in Seq(S),
         Len(before) = k - 1, \A i \in 1 .. k - 1 : before[i] = s[i],
         Len(behind) = Len(s) - k, \A i \in 1 .. Len(s) - k : behind[i] = s[k + i],
         Len(r) = Len(before) + Len(behind),
         \A i \in 1 .. Len(before) + Len(behind) :
             r[i] = IF i <= Len(before) THEN before[i] ELSE behind[i - Len(before)]
  PROVE  /\ Len(r) = Len(s) - 1
         /\ \A i \in DOMAIN r : r[i] = IF i < k THEN s[i] ELSE s[i + 1]
<1>1. k \in Nat /\ Len(s) \in Nat /\ Len(r) = Len(s) - 1 /\ DOMAIN r = 1 .. Len(s) - 1
  OBVIOUS
<1>2. ASSUME NEW i \in 1 .. Len(s) - 1
      PROVE  r[i] = IF i < k THEN s[i] ELSE s[i + 1]
  <2>1. CASE i < k
    BY <1>1, <2>1
  <2>2. CASE ~(i < k)
    <3>1. i - (k - 1) \in 1 .. Len(s) - k /\ k + (i - (k - 1)) = i + 1
      BY <1>1, <2>2
    <3>2. r[i] = behind[i - (k - 1)]
      BY <1>1, <2>2
    <3> QED
      BY <2>2, <3>1, <3>2
  <2> QED
    BY <2>1, <2>2
<1> QED
  BY <1>1, <1>2

(* Deleting a subscription moves those behind it up.                       *)
LEMMA RemoveFacts ==
  ASSUME NEW S, NEW s \in Seq(S), NEW k \in 1 .. Len(s)
  PROVE  \E r \in Seq(S) :
            /\ r = SubSeq(s, 1, k - 1) \o SubSeq(s, k + 1, Len(s))
            /\ DOMAIN r = 1 .. Len(s) - 1
            /\ \A i \in DOMAIN r : r[i] = IF i < k THEN s[i] ELSE s[i + 1]
<1> DEFINE before == SubSeq(s, 1, k - 1)
           behind == SubSeq(s, k + 1, Len(s))
           r == before \o behind
<1>0. /\ k - 1 \in Nat /\ k - 1 <= Len(s) /\ 1 \in Nat \ {0}
      /\ k + 1 \in Nat \ {0} /\ Len(s) \in Nat /\ Len(s) <= Len(s)
  OBVIOUS
<1>1. before \in Seq(S) /\ Len(before) = k - 1 /\ \A i \in 1 .. k - 1 : before[i] = s[i]
  <2>1. /\ before \in Seq(S)
        /\ Len(before) = IF 1 <= k - 1 THEN (k - 1) - 1 + 1 ELSE 0
        /\ \A i \in 1 .. (k - 1) - 1 + 1 : before[i] = s[1 + i - 1]
    BY <1>0, PartFacts
  <2> HIDE DEF before
  <2>2. Len(before) = k - 1
    BY <1>0, <2>1
  <2>3. ASSUME NEW i \in 1 .. k - 1
        PROVE  before[i] = s[i]
    <3>1. i \in 1 .. (k - 1) - 1 + 1 /\ 1 + i - 1 = i
      BY <1>0
    <3> QED
      BY <2>1, <3>1
  <2> QED
    BY <2>1, <2>2, <2>3
<1>2. /\ behind \in Seq(S) /\ Len(behind) = Len(s) - k
      /\ \A i \in 1 .. Len(s) - k : behind[i] = s[k + i]
  <2>1. /\ behind \in Seq(S)
        /\ Len(behind) = IF k + 1 <= Len(s) THEN Len(s) - (k + 1) + 1 ELSE 0
        /\ \A i \in 1 .. Len(s) - (k + 1) + 1 : behind[i] = s[k + 1 + i - 1]
    BY <1>0, PartFacts
  <2> HIDE DEF behind
  <2>2. Len(behind) = Len(s) - k
    <3>1. Len(behind) = IF k + 1 <= Len(s) THEN Len(s) - (k + 1) + 1 ELSE 0
      BY <2>1
    <3> QED
      BY <1>0, <3>1
  <2>3. ASSUME NEW i \in 1 .. Len(s) - k
        PROVE  behind[i] = s[k + i]
    <3>1. i \in 1 .. Len(s) - (k + 1) + 1 /\ k + 1 + i - 1 = k + i
      BY <1>0
    <3> QED
      BY <2>1, <3>1
  <2> QED
    BY <2>1, <2>2, <2>3
<1>3. r = SubSeq(s, 1, k - 1) \o SubSeq(s, k + 1, Len(s)) /\ r = before \o behind
  OBVIOUS
<1> HIDE DEF before, behind, r
<1>4. /\ r \in Seq(S) /\ Len(r) = Len(before) + Len(behind)
      /\ \A i \in 1 .. Len(before) + Len(behind) :
             r[i] = IF i <= Len(before) THEN before[i] ELSE behind[i - Len(before)]
  <2>1. before \in Seq(S) /\ behind \in Seq(S)
    BY <1>1, <1>2
  <2> QED
    BY <1>3, <2>1, ConcatProperties, Zenon
<1>5. /\ Len(r) = Len(s) - 1
      /\ \A i \in DOMAIN r : r[i] = IF i < k THEN s[i] ELSE s[i + 1]
  BY <1>1, <1>2, <1>4, JoinedFacts, ZenonT(30)
<1>6. DOMAIN r = 1 .. Len(s) - 1
  <2>1. DOMAIN r = 1 .. Len(r)
    BY <1>4
  <2> QED
    BY <1>5, <2>1
<1> QED
  BY <1>3, <1>4, <1>5, <1>6, Zenon

----------------------------------------------------------------------------
(* Subscriptions that end.                                                 *)

(* The list of the type, without the subscription of one who may leave.    *)
LEMMA UnsubscribeFacts ==
  ASSUME TypeOK, NEW t \in Types, NEW k \in DOMAIN subscriptions[t], Unsubscribe(t, k)
  PROVE  /\ k \in 1 .. Len(subscriptions[t]) /\ Len(subscriptions[t]) \in Nat
         /\ DOMAIN subscriptions[t] = 1 .. Len(subscriptions[t])
         /\ subscriptions[t][k] \in Leaving
         /\ \E r \in Seq(Subscribers) :
               /\ subscriptions' = [subscriptions EXCEPT ![t] = r]
               /\ DOMAIN r = 1 .. Len(subscriptions[t]) - 1
               /\ \A i \in DOMAIN r :
                     r[i] = IF i < k THEN subscriptions[t][i] ELSE subscriptions[t][i + 1]
<1> DEFINE s == subscriptions[t]
<1>1. /\ s \in Seq(Subscribers) /\ k \in 1 .. Len(s) /\ Len(s) \in Nat
      /\ DOMAIN s = 1 .. Len(s) /\ s[k] \in Leaving
  BY DEF TypeOK, Unsubscribe
<1>2. subscriptions' = [subscriptions EXCEPT
                            ![t] = SubSeq(s, 1, k - 1) \o SubSeq(s, k + 1, Len(s))]
  BY DEF Unsubscribe
<1> HIDE DEF s
<1>3. PICK r \in Seq(Subscribers) :
          /\ r = SubSeq(s, 1, k - 1) \o SubSeq(s, k + 1, Len(s))
          /\ DOMAIN r = 1 .. Len(s) - 1
          /\ \A i \in DOMAIN r : r[i] = IF i < k THEN s[i] ELSE s[i + 1]
  BY <1>1, RemoveFacts
<1>4. subscriptions' = [subscriptions EXCEPT ![t] = r]
  BY <1>2, <1>3, Zenon
<1> QED
  BY <1>1, <1>3, <1>4, Zenon DEF s

----------------------------------------------------------------------------
(* The notifications of a page.                                            *)

(* A handler that has read its last page makes notifications for           *)
(* subscribers of the type, none of which was made before.                 *)
LEMMA NotesFacts ==
  ASSUME TypeOK, HandlersWork, StaySubscribed, NotesInOrder,
         NEW e \in Events, job[e] # Idle,
         NEW n \in Notes(e, job[e].type, Found(e))
  PROVE  /\ n \in Note /\ n.event = e /\ n.type = job[e].type /\ n.to \in Found(e)
         /\ n.batch = batch[e] /\ ~Made(n)
<1> DEFINE t == job[e].type
           found == Found(e)
           b == batch[e]
<1>1. /\ t \in Types /\ t \in Nat /\ job[e].found \subseteq SubscribersOf(t)
      /\ b \in Nat /\ b >= 1 /\ b \in Batch
  BY TypesAreNumbered DEF HandlersWork, TypeOK, Batch
<1>2. found \subseteq SubscribersOf(t) /\ found \subseteq Subscribers
  BY <1>1, PageFacts DEF StaySubscribed
<1>3. PICK s \in found : n = [event |-> e, type |-> t, to |-> s, batch |-> b]
  BY DEF Notes
<1> HIDE DEF t, found, b
<1>4. n \in Note /\ n.event = e /\ n.type = t /\ n.to = s /\ n.batch = b
  BY <1>1, <1>2, <1>3 DEF Note
<1>5. ~Made(n)
  BY <1>1, <1>4 DEF NotesInOrder, t, b
<1> QED
  BY <1>4, <1>5 DEF t, found, b

(* A handler goes on to the next type, or is done with its event.          *)
LEMMA FinishTypeFacts ==
  ASSUME TypeOK, HandlersWork, NEW e \in Events, job[e] # Idle, FinishType(e)
  PROVE  \E x : /\ job' = [job EXCEPT ![e] = x]
                /\ \/ /\ job[e].type + 1 \in Types /\ x = AtType(job[e].type + 1)
                      /\ x # Idle /\ x.type = job[e].type + 1 /\ x.skip = 0 /\ x.found = {}
                      /\ UNCHANGED eventVars
                   \/ /\ job[e].type + 1 \notin Types /\ x = Idle
                      /\ x.type = 0 /\ x.skip = 0
                      /\ EventQueue!Complete(e)
                /\ x \in [type : {0} \cup Types, skip : Nat, found : SUBSET Subscribers]
<1>1. CASE job[e].type + 1 \in Types
  BY <1>1, AtTypeFacts DEF FinishType
<1>2. CASE job[e].type + 1 \notin Types
  BY <1>2, AtTypeFacts, TypesAreNumbered DEF FinishType
<1> QED
  BY <1>1, <1>2

(* What a handler that reads a page is at.                                 *)
LEMMA ReadPageFacts ==
  ASSUME TypeOK, HandlersWork, NEW e \in Events, ReadPage(e)
  PROVE  \E x : /\ job' = [job EXCEPT ![e] = x]
                /\ x.type = job[e].type /\ x.skip = job[e].skip + PageSize
                /\ x.found = Found(e) /\ x # Idle
                /\ x \in [type : {0} \cup Types, skip : Nat, found : SUBSET Subscribers]
<1> DEFINE x == [job[e] EXCEPT !.skip = @ + PageSize, !.found = Found(e)]
           R == [type : {0} \cup Types, skip : Nat, found : SUBSET Subscribers]
<1>1. job[e] \in R /\ job[e] # Idle /\ job[e].type \in Types /\ PageSize \in Nat
  BY BoundsAssumption DEF TypeOK, ReadPage, HandlersWork
<1>2. Found(e) \in SUBSET Subscribers
  BY <1>1, PageFacts
<1>3. job' = [job EXCEPT ![e] = x]
  BY DEF ReadPage
<1>4. /\ x \in R /\ x.type = job[e].type /\ x.skip = job[e].skip + PageSize
      /\ x.found = Found(e)
  <2> DEFINE r == job[e]
             f == Found(e)
  <2>1. r \in R /\ f \in SUBSET Subscribers /\ PageSize \in Nat
    BY <1>1, <1>2
  <2>2. x = [r EXCEPT !.skip = @ + PageSize, !.found = f]
    OBVIOUS
  <2> HIDE DEF x, r, f
  <2>3. x = [type |-> r.type, skip |-> r.skip + PageSize, found |-> f]
    BY <2>1, <2>2
  <2>4. r.type \in {0} \cup Types /\ r.skip + PageSize \in Nat
    BY <2>1
  <2>5. x \in R /\ x.type = r.type /\ x.skip = r.skip + PageSize /\ x.found = f
    BY <2>1, <2>3, <2>4
  <2> QED
    BY <2>5 DEF r, f
<1> HIDE DEF x
<1>5. x # Idle
  BY <1>1, <1>4, TypesAreNumbered DEF Idle
<1> QED
  BY <1>3, <1>4, <1>5

(* Types are kept.                                                         *)
LEMMA TypeStep ==
  ASSUME TypeOK, HandlersWork, StaySubscribed, NotesInOrder, [Next]_vars
  PROVE  TypeOK'
<1> USE DEF TypeOK, eventVars, sendVars
<1>b. MaxCrashes \in Nat /\ PageSize \in Nat
  BY BoundsAssumption
<1>1. ASSUME NEW e \in Events, Publish(e)
      PROVE  TypeOK'
  BY <1>1 DEF Publish, EventQueue!Accept
<1>2. ASSUME NEW e \in Events, CrashProcessing(e)
      PROVE  TypeOK'
  BY <1>2, <1>b, AtTypeFacts, TypesAreNumbered
     DEF CrashProcessing, CountCrash, EventQueue!Interrupt
<1>3. ASSUME NEW t \in Types, NEW k \in DOMAIN subscriptions[t], Unsubscribe(t, k)
      PROVE  TypeOK'
  <2>3. subscriptions' \in [Types -> Seq(Subscribers)]
    BY <1>3, UnsubscribeFacts
  <2>4. shifted' \subseteq Events \X Types
    BY <1>3 DEF Unsubscribe
  <2> QED
    BY <1>3, <2>3, <2>4 DEF Unsubscribe
<1>4. ASSUME NEW n \in Note, CrashSending(n)
      PROVE  TypeOK'
  BY <1>4, <1>b DEF CrashSending, CountCrash, SendQueue!Interrupt, SendQueue!Accepted
<1>5. ASSUME NEW e \in Events, Start(e)
      PROVE  TypeOK'
  <2>1. batch[e] + 1 \in Batch
    <3>1. job[e] = Idle /\ item[e] # "acked"
      BY <1>5 DEF Start, CanProcess, EventQueue!Accepted
    <3>2. batch[e] <= crashes /\ batch[e] \in Nat /\ crashes \in 0 .. MaxCrashes
      BY <1>b, <3>1 DEF HandlersWork, Batch
    <3> QED
      BY <1>b, <3>2 DEF Batch
  <2>2. AtType(1) \in [type : {0} \cup Types, skip : Nat, found : SUBSET Subscribers]
    BY TypesAreNumbered, AtTypeFacts
  <2> QED
    BY <1>5, <2>1, <2>2 DEF Start
<1>6. ASSUME NEW e \in Events, StartFails(e)
      PROVE  TypeOK'
  <2>1. /\ item' \in [Events -> {"unsent", "lost", "accepted", "retried", "acked", "dead"}]
        /\ failures' \in [Events -> Nat] /\ succeeded' \subseteq Events
    <3>1. CASE EventQueue!Retry(e)
      BY <3>1 DEF EventQueue!Retry
    <3>2. CASE EventQueue!GiveUp(e)
      BY <3>2 DEF EventQueue!GiveUp
    <3> QED
      BY <1>6, <3>1, <3>2 DEF StartFails
  <2> QED
    BY <1>6, <2>1 DEF StartFails
<1>7. ASSUME NEW e \in Events, ReadPage(e)
      PROVE  TypeOK'
  BY <1>7, ReadPageFacts DEF ReadPage
<1>8. ASSUME NEW e \in Events, ReadLastPage(e)
      PROVE  TypeOK'
  <2>1. job[e] # Idle /\ FinishType(e)
    BY <1>8 DEF ReadLastPage
  <2>2. /\ item' \in [Events -> {"unsent", "lost", "accepted", "retried", "acked", "dead"}]
        /\ failures' \in [Events -> Nat] /\ succeeded' \subseteq Events
        /\ job' \in [Events -> [type : {0} \cup Types, skip : Nat, found : SUBSET Subscribers]]
    <3>1. PICK x \in [type : {0} \cup Types, skip : Nat, found : SUBSET Subscribers] :
              /\ job' = [job EXCEPT ![e] = x]
              /\ UNCHANGED eventVars \/ EventQueue!Complete(e)
      BY <2>1, FinishTypeFacts
    <3> QED
      BY <3>1 DEF EventQueue!Complete
  <2>3. enqueuing' \subseteq {n \in Note : sendItem[n] = "unsent"}
    BY <1>8, <2>1, NotesFacts DEF ReadLastPage, Made
  <2> QED
    BY <1>8, <2>2, <2>3 DEF ReadLastPage
<1>9. ASSUME NEW e \in Events, GenerationFails(e)
      PROVE  TypeOK'
  <2>1. job[e] # Idle /\ FinishType(e) /\ job[e].type \in Types
    BY <1>9 DEF GenerationFails, HandlersWork
  <2>2. /\ item' \in [Events -> {"unsent", "lost", "accepted", "retried", "acked", "dead"}]
        /\ failures' \in [Events -> Nat] /\ succeeded' \subseteq Events
        /\ job' \in [Events -> [type : {0} \cup Types, skip : Nat, found : SUBSET Subscribers]]
    <3>1. PICK x \in [type : {0} \cup Types, skip : Nat, found : SUBSET Subscribers] :
              /\ job' = [job EXCEPT ![e] = x]
              /\ UNCHANGED eventVars \/ EventQueue!Complete(e)
      BY <2>1, FinishTypeFacts
    <3> QED
      BY <3>1 DEF EventQueue!Complete
  <2> QED
    BY <1>9, <2>1, <2>2 DEF GenerationFails
<1>10. ASSUME NEW n \in Note, Enqueue(n)
       PROVE  TypeOK'
  BY <1>10 DEF Enqueue, SendQueue!Accept, SendQueue!Accepted
<1>11. ASSUME NEW n \in Note, Send(n)
       PROVE  TypeOK'
  BY <1>11 DEF Send, CanSend, Deliver
<1>12. ASSUME NEW n \in Note, SendDone(n)
       PROVE  TypeOK'
  BY <1>12 DEF SendDone, SendQueue!Complete, SendQueue!Accepted
<1>13. ASSUME NEW n \in Note, SendFails(n)
       PROVE  TypeOK'
  <2>1. /\ sendItem' \in [Note -> {"unsent", "lost", "accepted", "retried", "acked", "dead"}]
        /\ sendFailures' \in [Note -> Nat] /\ sendSucceeded' \subseteq Note
        /\ sendItem[n] # "unsent" /\ \A m \in Note \ {n} : sendItem'[m] = sendItem[m]
    <3>1. CASE SendQueue!Retry(n)
      BY <3>1 DEF SendQueue!Retry
    <3>2. CASE SendQueue!GiveUp(n)
      BY <3>2 DEF SendQueue!GiveUp
    <3> QED
      BY <1>13, <3>1, <3>2 DEF SendFails
  <2>2. delivered' \in [Note -> Nat] /\ sendFailed' \subseteq Note /\ n \notin sent
    <3>1. delivered' \in [Note -> Nat]
      <4>1. CASE Deliver(n)
        BY <4>1 DEF Deliver
      <4> QED
        BY <1>13, <4>1 DEF SendFails
    <3>2. sendFailed' \subseteq Note
      BY <1>13 DEF SendFails, AnnounceFailure
    <3> QED
      BY <1>13, <3>1, <3>2 DEF SendFails, CanSend
  <2>3. /\ enqueuing' \subseteq {m \in Note : sendItem'[m] = "unsent"}
        /\ sent' \subseteq {m \in Note : sendItem'[m] \in SendQueue!Accepted}
    BY <1>13, <2>1, <2>2 DEF SendFails
  <2> QED
    BY <1>13, <2>1, <2>2, <2>3 DEF SendFails, SendQueue!Accepted
<1>14. CASE UNCHANGED vars
  BY <1>14 DEF vars
<1> QED
  BY <1>1, <1>2, <1>3, <1>4, <1>5, <1>6, <1>7, <1>8, <1>9, <1>10, <1>11, <1>12, <1>13, <1>14
     DEF Next, Work, Process

----------------------------------------------------------------------------
(* What a step does to one event and to one notification.                  *)

(* The bound on the crashes is out of the way: they only get more.         *)
LEMMA CrashesGrow ==
  ASSUME TypeOK, [Next]_vars
  PROVE  crashes \in Nat /\ crashes' \in Nat /\ crashes <= crashes'
<1>1. crashes \in Nat
  BY BoundsAssumption DEF TypeOK
<1>2. crashes' = crashes \/ crashes' = crashes + 1
  BY DEF Next, Work, Process, Publish, CrashProcessing, Unsubscribe, CrashSending, Start,
     StartFails, ReadPage, ReadLastPage, GenerationFails, Enqueue, Send, SendDone, SendFails,
     CountCrash, vars
<1> QED
  BY <1>1, <1>2

(* Only the handler of an event changes what it is at, and an event        *)
(* without one is not done by any step.                                    *)
LEMMA EventStep ==
  ASSUME TypeOK, HandlersWork, [Next]_vars, NEW e \in Events
  PROVE  \/ /\ job'[e] = job[e] /\ batch'[e] = batch[e]
            /\ \/ item'[e] = item[e]
               \/ job[e] = Idle /\ item[e] # "acked" /\ item'[e] # "acked"
         \/ Start(e) \/ ReadPage(e) \/ ReadLastPage(e) \/ GenerationFails(e)
         \/ CrashProcessing(e)
<1> DEFINE Same == job'[e] = job[e] /\ batch'[e] = batch[e] /\ item'[e] = item[e]
           Elsewhere == /\ job'[e] = job[e] /\ batch'[e] = batch[e]
                        /\ \/ item'[e] = item[e]
                           \/ job[e] = Idle /\ item[e] # "acked" /\ item'[e] # "acked"
<1> USE DEF TypeOK, eventVars
<1>1. ASSUME NEW f \in Events, Publish(f)
      PROVE  Elsewhere
  BY <1>1 DEF Publish, EventQueue!Accept, HandlersWork, EventQueue!Accepted
<1>2. ASSUME NEW f \in Events, f # e, CrashProcessing(f)
      PROVE  Same
  BY <1>2 DEF CrashProcessing, EventQueue!Interrupt
<1>3. ASSUME NEW f \in Events, f # e, Start(f)
      PROVE  Same
  BY <1>3 DEF Start
<1>4. ASSUME NEW f \in Events, StartFails(f)
      PROVE  Elsewhere
  <2>1. /\ job[f] = Idle /\ item[f] # "acked" /\ UNCHANGED <<job, batch>>
        /\ EventQueue!Retry(f) \/ EventQueue!GiveUp(f)
    BY <1>4 DEF StartFails, CanProcess, EventQueue!Accepted
  <2>2. item' = [item EXCEPT ![f] = "retried"] \/ item' = [item EXCEPT ![f] = "dead"]
    BY <2>1 DEF EventQueue!Retry, EventQueue!GiveUp
  <2> QED
    BY <2>1, <2>2
<1>5. ASSUME NEW f \in Events, f # e, ReadPage(f)
      PROVE  Same
  BY <1>5 DEF ReadPage
<1>6. ASSUME NEW f \in Events, f # e, ReadLastPage(f) \/ GenerationFails(f)
      PROVE  Same
  <2>1. job[f] # Idle /\ FinishType(f) /\ UNCHANGED batch
    BY <1>6 DEF ReadLastPage, GenerationFails
  <2>2. PICK x : job' = [job EXCEPT ![f] = x] /\ (UNCHANGED eventVars \/ EventQueue!Complete(f))
    BY <2>1, FinishTypeFacts
  <2> QED
    BY <1>6, <2>1, <2>2 DEF EventQueue!Complete
<1>7. ASSUME NEW n \in Note, Enqueue(n) \/ Send(n) \/ SendDone(n) \/ SendFails(n) \/ CrashSending(n)
      PROVE  Same
  BY <1>7 DEF Enqueue, Send, SendDone, SendFails, CrashSending
<1>8. ASSUME NEW t \in Types, NEW k \in DOMAIN subscriptions[t], Unsubscribe(t, k)
      PROVE  Same
  BY <1>8 DEF Unsubscribe
<1>9. CASE UNCHANGED vars
  BY <1>9 DEF vars
<1> HIDE DEF TypeOK
<1> QED
  BY <1>1, <1>2, <1>3, <1>4, <1>5, <1>6, <1>7, <1>8, <1>9 DEF Next, Work, Process

(* The handler of the event goes on, or is gone, with the event as it was. *)
LEMMA HandlerStep ==
  ASSUME TypeOK, HandlersWork, NEW e \in Events
  PROVE  /\ Start(e) => /\ job'[e] = AtType(1) /\ batch'[e] = batch[e] + 1
                        /\ item'[e] = item[e] /\ item[e] \in EventQueue!Accepted
                        /\ job[e] = Idle
         /\ ReadPage(e) => /\ job'[e].type = job[e].type /\ job[e] # Idle
                           /\ job'[e].skip = job[e].skip + PageSize
                           /\ job'[e].found = Found(e)
                           /\ batch'[e] = batch[e] /\ item'[e] = item[e]
         /\ ReadLastPage(e) \/ GenerationFails(e) =>
                /\ \/ /\ job[e].type + 1 \in Types /\ job'[e] = AtType(job[e].type + 1)
                      /\ item'[e] = item[e]
                   \/ job[e].type + 1 \notin Types /\ job'[e] = Idle /\ item'[e] = "acked"
                /\ batch'[e] = batch[e] /\ job[e] # Idle
         /\ CrashProcessing(e) => /\ job'[e] = Idle /\ item'[e] # "acked"
                                  /\ batch'[e] = batch[e] /\ crashes' = crashes + 1
                                  /\ job[e] # Idle
<1> USE DEF TypeOK, eventVars
<1>1. ASSUME Start(e)
      PROVE  /\ job'[e] = AtType(1) /\ batch'[e] = batch[e] + 1 /\ item'[e] = item[e]
             /\ item[e] \in EventQueue!Accepted /\ job[e] = Idle
  BY <1>1 DEF Start, CanProcess
<1>2. ASSUME ReadPage(e)
      PROVE  /\ job'[e].type = job[e].type /\ job'[e].skip = job[e].skip + PageSize
             /\ job'[e].found = Found(e) /\ batch'[e] = batch[e] /\ item'[e] = item[e]
             /\ job[e] # Idle
  <2>1. PICK x : /\ job' = [job EXCEPT ![e] = x]
                 /\ x.type = job[e].type /\ x.skip = job[e].skip + PageSize /\ x.found = Found(e)
    BY <1>2, ReadPageFacts
  <2>2. job'[e] = x
    BY <2>1
  <2> QED
    BY <1>2, <2>1, <2>2 DEF ReadPage
<1>3. ASSUME ReadLastPage(e) \/ GenerationFails(e)
      PROVE  /\ \/ /\ job[e].type + 1 \in Types /\ job'[e] = AtType(job[e].type + 1)
                   /\ item'[e] = item[e]
                \/ job[e].type + 1 \notin Types /\ job'[e] = Idle /\ item'[e] = "acked"
             /\ batch'[e] = batch[e] /\ job[e] # Idle
  <2>1. job[e] # Idle /\ FinishType(e) /\ UNCHANGED batch
    BY <1>3 DEF ReadLastPage, GenerationFails
  <2> QED
    BY <2>1 DEF FinishType, EventQueue!Complete
<1>4. ASSUME CrashProcessing(e)
      PROVE  /\ job'[e] = Idle /\ item'[e] # "acked" /\ batch'[e] = batch[e]
             /\ crashes' = crashes + 1 /\ job[e] # Idle
  BY <1>4 DEF CrashProcessing, CountCrash, EventQueue!Interrupt
<1> HIDE DEF TypeOK
<1> QED
  BY <1>1, <1>2, <1>3, <1>4

(* What becomes of a notification is up to its own steps.                  *)
LEMMA NoteStep ==
  ASSUME TypeOK, [Next]_vars, NEW n \in Note
  PROVE  \/ /\ sendItem'[n] = sendItem[n] /\ sendFailures'[n] = sendFailures[n]
            /\ delivered'[n] = delivered[n]
            /\ (n \in sent') = (n \in sent) /\ (n \in sendFailed') = (n \in sendFailed)
         \/ Enqueue(n) \/ Send(n) \/ SendDone(n) \/ SendFails(n) \/ CrashSending(n)
<1> DEFINE Same == /\ sendItem'[n] = sendItem[n] /\ sendFailures'[n] = sendFailures[n]
                   /\ delivered'[n] = delivered[n]
                   /\ (n \in sent') = (n \in sent)
                   /\ (n \in sendFailed') = (n \in sendFailed)
<1> USE DEF TypeOK, sendVars
<1>1. ASSUME NEW m \in Note, m # n, Enqueue(m)
      PROVE  Same
  BY <1>1 DEF Enqueue, SendQueue!Accept
<1>2. ASSUME NEW m \in Note, m # n, Send(m)
      PROVE  Same
  BY <1>2 DEF Send, Deliver
<1>3. ASSUME NEW m \in Note, m # n, SendDone(m)
      PROVE  Same
  BY <1>3 DEF SendDone, SendQueue!Complete
<1>4. ASSUME NEW m \in Note, m # n, SendFails(m)
      PROVE  Same
  <2>1. sendItem'[n] = sendItem[n] /\ sendFailures'[n] = sendFailures[n]
    BY <1>4 DEF SendFails, SendQueue!Retry, SendQueue!GiveUp
  <2>2. delivered'[n] = delivered[n]
    BY <1>4 DEF SendFails, Deliver
  <2> QED
    BY <1>4, <2>1, <2>2 DEF SendFails, AnnounceFailure
<1>5. ASSUME NEW m \in Note, m # n, CrashSending(m)
      PROVE  Same
  BY <1>5 DEF CrashSending, SendQueue!Interrupt
<1>6. ASSUME NEW e \in Events, Process(e) \/ Publish(e) \/ CrashProcessing(e)
      PROVE  Same
  BY <1>6 DEF Process, Start, StartFails, ReadPage, ReadLastPage, GenerationFails, Publish,
     CrashProcessing
<1>7. ASSUME NEW t \in Types, NEW k \in DOMAIN subscriptions[t], Unsubscribe(t, k)
      PROVE  Same
  BY <1>7 DEF Unsubscribe
<1>8. CASE UNCHANGED vars
  BY <1>8 DEF vars
<1> HIDE DEF TypeOK
<1> QED
  BY <1>1, <1>2, <1>3, <1>4, <1>5, <1>6, <1>7, <1>8 DEF Next, Work

(* A notification that was made stays made, and only a handler that has    *)
(* read its last page makes one.                                           *)
LEMMA MadeStep ==
  ASSUME TypeOK, [Next]_vars, NEW n \in Note
  PROVE  /\ Made(n) => Made(n)'
         /\ Made(n)' => \/ Made(n)
                        \/ \E e \in Events : /\ ReadLastPage(e)
                                             /\ n \in Notes(e, job[e].type, Found(e))
<1> USE DEF TypeOK, sendVars, Made
<1>1. ASSUME NEW m \in Note, Enqueue(m)
      PROVE  Made(n)' <=> Made(n)
  BY <1>1 DEF Enqueue, SendQueue!Accept
<1>2. ASSUME NEW m \in Note, Send(m)
      PROVE  Made(n)' <=> Made(n)
  BY <1>2 DEF Send
<1>3. ASSUME NEW m \in Note, SendDone(m)
      PROVE  Made(n)' <=> Made(n)
  BY <1>3 DEF SendDone, SendQueue!Complete, SendQueue!Accepted
<1>4. ASSUME NEW m \in Note, SendFails(m)
      PROVE  Made(n)' <=> Made(n)
  <2>1. \/ sendItem[m] # "unsent" /\ sendItem' = [sendItem EXCEPT ![m] = "retried"]
        \/ sendItem[m] # "unsent" /\ sendItem' = [sendItem EXCEPT ![m] = "dead"]
    BY <1>4 DEF SendFails, SendQueue!Retry, SendQueue!GiveUp
  <2> QED
    BY <1>4, <2>1 DEF SendFails
<1>5. ASSUME NEW m \in Note, CrashSending(m)
      PROVE  Made(n)' <=> Made(n)
  BY <1>5 DEF CrashSending, SendQueue!Interrupt
<1>6. ASSUME NEW e \in Events,
             \/ Publish(e) \/ CrashProcessing(e) \/ Start(e) \/ StartFails(e) \/ ReadPage(e)
             \/ GenerationFails(e)
      PROVE  Made(n)' <=> Made(n)
  BY <1>6 DEF Publish, CrashProcessing, Start, StartFails, ReadPage, GenerationFails
<1>7. ASSUME NEW e \in Events, ReadLastPage(e)
      PROVE  Made(n)' <=> Made(n) \/ n \in Notes(e, job[e].type, Found(e))
  BY <1>7 DEF ReadLastPage
<1>8. ASSUME NEW t \in Types, NEW k \in DOMAIN subscriptions[t], Unsubscribe(t, k)
      PROVE  Made(n)' <=> Made(n)
  BY <1>8 DEF Unsubscribe
<1>9. CASE UNCHANGED vars
  BY <1>9 DEF vars
<1> HIDE DEF TypeOK, Made
<1> QED
  BY <1>1, <1>2, <1>3, <1>4, <1>5, <1>6, <1>7, <1>8, <1>9 DEF Next, Work, Process

(* Announced failures and subscribers who left stay on record.             *)
LEMMA ExcusesKept ==
  ASSUME [Next]_vars
  PROVE  generationFailed \subseteq generationFailed' /\ shifted \subseteq shifted'
BY DEF Next, Work, Process, Publish, CrashProcessing, Unsubscribe, CrashSending, Start,
   StartFails, ReadPage, ReadLastPage, GenerationFails, Enqueue, Send, SendDone, SendFails, vars

(* Subscriptions change only where one ends.                               *)
LEMMA SubscriptionsKept ==
  ASSUME [Next]_vars
  PROVE  \/ subscriptions' = subscriptions
         \/ \E t \in Types : \E k \in DOMAIN subscriptions[t] : Unsubscribe(t, k)
BY DEF Next, Work, Process, Publish, CrashProcessing, CrashSending, Start,
   StartFails, ReadPage, ReadLastPage, GenerationFails, Enqueue, Send, SendDone, SendFails, vars

----------------------------------------------------------------------------
(* The parts of the inductive invariant.                                   *)

(* Handlers keep their events, and generate no more than that.             *)
LEMMA HandlersWorkStep ==
  ASSUME TypeOK, HandlersWork, StaySubscribed, [Next]_vars
  PROVE  HandlersWork'
<1> SUFFICES ASSUME NEW e \in Events
             PROVE  /\ job'[e] # Idle =>
                           /\ item'[e] \in EventQueue!Accepted
                           /\ job'[e].type \in Types
                           /\ job'[e].found \subseteq SubscribersOf(job'[e].type)
                           /\ batch'[e] >= 1
                    /\ batch'[e] <= crashes' + 1
                    /\ job'[e] = Idle /\ item'[e] # "acked" => batch'[e] <= crashes'
  BY DEF HandlersWork, EventQueue!Accepted
<1>1. /\ crashes \in Nat /\ crashes' \in Nat /\ crashes <= crashes' /\ batch[e] \in Nat
  BY CrashesGrow, BoundsAssumption DEF TypeOK, Batch
<1>2. /\ job[e] # Idle =>
             /\ item[e] \in EventQueue!Accepted
             /\ job[e].type \in Types
             /\ job[e].found \subseteq SubscribersOf(job[e].type)
             /\ batch[e] >= 1
      /\ batch[e] <= crashes + 1
      /\ job[e] = Idle /\ item[e] # "acked" => batch[e] <= crashes
  BY DEF HandlersWork
<1>3. CASE job'[e] = job[e] /\ batch'[e] = batch[e] /\ item'[e] = item[e]
  BY <1>1, <1>2, <1>3
<1>4. CASE /\ job'[e] = job[e] /\ batch'[e] = batch[e]
           /\ job[e] = Idle /\ item[e] # "acked" /\ item'[e] # "acked"
  BY <1>1, <1>2, <1>4
<1>5. CASE Start(e)
  <2>1. /\ job'[e] = AtType(1) /\ batch'[e] = batch[e] + 1 /\ item'[e] = item[e]
        /\ item[e] \in EventQueue!Accepted /\ job[e] = Idle /\ item[e] # "acked"
    BY <1>5, HandlerStep DEF EventQueue!Accepted
  <2>2. job'[e] # Idle /\ job'[e].type = 1 /\ job'[e].found = {} /\ 1 \in Types
    BY <2>1, AtTypeFacts, TypesAreNumbered
  <2> QED
    BY <1>1, <1>2, <2>1, <2>2
<1>6. CASE ReadPage(e)
  <2>1. /\ job'[e].type = job[e].type /\ job[e] # Idle /\ job'[e].found = Found(e)
        /\ batch'[e] = batch[e] /\ item'[e] = item[e]
    BY <1>6, HandlerStep
  <2>2. Found(e) \subseteq SubscribersOf(job[e].type)
    BY <1>2, <2>1, PageFacts DEF StaySubscribed
  <2>3. job'[e] # Idle
    BY <1>2, <2>1, TypesAreNumbered DEF Idle
  <2> QED
    BY <1>1, <1>2, <2>1, <2>2, <2>3
<1>7. CASE ReadLastPage(e) \/ GenerationFails(e)
  <2>1. /\ \/ /\ job[e].type + 1 \in Types /\ job'[e] = AtType(job[e].type + 1)
              /\ item'[e] = item[e]
           \/ job[e].type + 1 \notin Types /\ job'[e] = Idle /\ item'[e] = "acked"
        /\ batch'[e] = batch[e] /\ job[e] # Idle
    BY <1>7, HandlerStep
  <2>2. CASE job'[e] = Idle /\ item'[e] = "acked"
    BY <1>1, <1>2, <2>1, <2>2
  <2>3. CASE job[e].type + 1 \in Types /\ job'[e] = AtType(job[e].type + 1) /\ item'[e] = item[e]
    <3>1. /\ job'[e] # Idle /\ job'[e].type = job[e].type + 1 /\ job'[e].found = {}
      BY <2>3, AtTypeFacts
    <3> QED
      BY <1>1, <1>2, <2>1, <2>3, <3>1
  <2> QED
    BY <2>1, <2>2, <2>3
<1>8. CASE CrashProcessing(e)
  BY <1>1, <1>2, <1>8, HandlerStep
<1> QED
  BY <1>3, <1>4, <1>5, <1>6, <1>7, <1>8, EventStep

(* Whoever stays keeps the subscription when another one ends.             *)
LEMMA StaySubscribedStep ==
  ASSUME TypeOK, StaySubscribed, [Next]_vars
  PROVE  StaySubscribed'
<1>1. CASE subscriptions' = subscriptions
  BY <1>1 DEF StaySubscribed
<1>2. ASSUME NEW t \in Types, NEW k \in DOMAIN subscriptions[t], Unsubscribe(t, k)
      PROVE  StaySubscribed'
  <2> DEFINE s == subscriptions[t]
  <2>1. k \in 1 .. Len(s) /\ Len(s) \in Nat /\ DOMAIN s = 1 .. Len(s) /\ s[k] \in Leaving
    BY <1>2, UnsubscribeFacts
  <2>2. PICK r \in Seq(Subscribers) :
            /\ subscriptions' = [subscriptions EXCEPT ![t] = r]
            /\ DOMAIN r = 1 .. Len(s) - 1
            /\ \A i \in DOMAIN r : r[i] = IF i < k THEN s[i] ELSE s[i + 1]
    BY <1>2, UnsubscribeFacts
  <2>5. subscriptions'[t] = r /\ \A u \in Types \ {t} : subscriptions'[u] = subscriptions[u]
    BY <2>2 DEF TypeOK
  <2>6. /\ \A i \in DOMAIN s : s[i] \in SubscribersOf(t)
        /\ \A x \in SubscribersOf(t) \ Leaving : \E i \in DOMAIN s : s[i] = x
    BY DEF StaySubscribed
  <2> HIDE DEF s
  <2>8. \A i \in DOMAIN r : r[i] \in SubscribersOf(t)
    BY <2>1, <2>2, <2>6
  <2>9. ASSUME NEW x \in SubscribersOf(t) \ Leaving
        PROVE  \E i \in DOMAIN r : r[i] = x
    <3>1. PICK i \in 1 .. Len(s) : s[i] = x
      BY <2>1, <2>6
    <3>2. i # k
      BY <2>1, <3>1
    <3>3. CASE i < k
      BY <2>1, <2>2, <3>1, <3>3
    <3>4. CASE i > k
      <4>1. i - 1 \in DOMAIN r /\ ~(i - 1 < k) /\ (i - 1) + 1 = i
        BY <2>1, <2>2, <3>4
      <4>2. r[i - 1] = s[i]
        BY <2>2, <4>1
      <4> QED
        BY <3>1, <4>1, <4>2
    <3> QED
      BY <2>1, <3>2, <3>3, <3>4
  <2> QED
    BY <2>5, <2>8, <2>9 DEF StaySubscribed
<1> QED
  BY <1>1, <1>2, SubscriptionsKept

(* Who was found on the pages read is still on them, or one has left.      *)
LEMMA PagesReadStep ==
  ASSUME TypeOK, HandlersWork, PagesRead, [Next]_vars
  PROVE  PagesRead'
<1> SUFFICES ASSUME NEW e \in Events, NEW k \in 1 .. job'[e].skip,
                    job'[e] # Idle, <<e, job'[e].type>> \notin shifted'
             PROVE  /\ k \in DOMAIN subscriptions'[job'[e].type]
                    /\ subscriptions'[job'[e].type][k] \in job'[e].found
  BY DEF PagesRead
<1>1. ASSUME NEW i \in 1 .. job[e].skip, job[e] # Idle, <<e, job[e].type>> \notin shifted
      PROVE  /\ i \in DOMAIN subscriptions[job[e].type]
             /\ subscriptions[job[e].type][i] \in job[e].found
  BY <1>1 DEF PagesRead
<1>2. shifted \subseteq shifted' /\ job[e].skip \in Nat
  BY ExcusesKept DEF TypeOK
<1>3. ASSUME NEW t \in Types, NEW j \in DOMAIN subscriptions[t], Unsubscribe(t, j)
      PROVE  /\ k \in DOMAIN subscriptions'[job'[e].type]
             /\ subscriptions'[job'[e].type][k] \in job'[e].found
  <2> DEFINE s == subscriptions[t]
  <2>1. j \in 1 .. Len(s) /\ Len(s) \in Nat
    BY <1>3, UnsubscribeFacts
  <2>2. PICK r \in Seq(Subscribers) :
            /\ subscriptions' = [subscriptions EXCEPT ![t] = r]
            /\ DOMAIN r = 1 .. Len(s) - 1
            /\ \A i \in DOMAIN r : r[i] = IF i < j THEN s[i] ELSE s[i + 1]
    BY <1>3, UnsubscribeFacts
  <2>3. /\ job' = job
        /\ shifted' = shifted \cup
               {<<f, t>> : f \in {f \in Events : job[f].type = t /\ j <= job[f].skip}}
    BY <1>3 DEF Unsubscribe
  <2>4. k \in DOMAIN subscriptions[job[e].type] /\ subscriptions[job[e].type][k] \in job[e].found
    BY <1>1, <1>2, <2>3
  <2>5. job[e].type \in Types /\ subscriptions \in [Types -> Seq(Subscribers)]
    BY <2>3 DEF HandlersWork, TypeOK
  <2>6. CASE job[e].type = t
    <3>1. ~(j <= job[e].skip)
      BY <2>3, <2>6
    <3>2. k \in Nat /\ k >= 1 /\ k < j
      BY <1>2, <2>1, <2>3, <3>1
    <3>3. k \in DOMAIN r
      BY <2>1, <2>2, <3>2
    <3>4. r[k] = s[k]
      BY <2>2, <3>2, <3>3
    <3>5. subscriptions'[t] = r
      BY <2>2, <2>5
    <3> QED
      BY <2>3, <2>4, <2>6, <3>3, <3>4, <3>5
  <2>7. CASE job[e].type # t
    BY <2>2, <2>3, <2>4, <2>5, <2>7
  <2> QED
    BY <2>6, <2>7
<1>4. CASE subscriptions' = subscriptions
  <2>1. CASE job'[e] = job[e]
    BY <1>1, <1>2, <1>4, <2>1
  <2>2. CASE Start(e)
    <3>1. job'[e].skip = 0
      BY <2>2, HandlerStep, AtTypeFacts, TypesAreNumbered
    <3> QED
      BY <3>1
  <2>3. CASE ReadPage(e)
    <3>1. /\ job'[e].type = job[e].type /\ job'[e].skip = job[e].skip + PageSize
          /\ job'[e].found = Found(e) /\ job[e] # Idle /\ HasNext(Page(e))
      BY <2>3, HandlerStep DEF ReadPage
    <3>2. job[e].type \in Types /\ PageSize \in Nat
      BY <3>1, BoundsAssumption DEF HandlersWork
    <3>3. k \in 1 .. job[e].skip + PageSize /\ k \in Nat /\ k <= job[e].skip + PageSize
      BY <1>2, <3>1, <3>2
    <3>4. k \in DOMAIN subscriptions[job[e].type]
      BY <3>1, <3>2, <3>3, PageFacts
    <3>5. CASE k \in 1 .. job[e].skip
      <4>1. subscriptions[job[e].type][k] \in job[e].found
        BY <1>1, <1>2, <3>1, <3>5
      <4> QED
        BY <1>4, <3>1, <3>4, <4>1 DEF Found
    <3>6. CASE k > job[e].skip
      <4>1. subscriptions[job[e].type][k] \in Found(e)
        BY <3>2, <3>3, <3>4, <3>6, PageFacts
      <4> QED
        BY <1>4, <3>1, <3>4, <4>1
    <3> QED
      BY <1>2, <3>3, <3>5, <3>6
  <2>4. CASE ReadLastPage(e) \/ GenerationFails(e)
    <3>1. job[e].type + 1 \in Types /\ job'[e] = AtType(job[e].type + 1)
      BY <2>4, HandlerStep
    <3>2. job'[e].skip = 0
      BY <3>1, AtTypeFacts
    <3> QED
      BY <3>2
  <2>5. CASE CrashProcessing(e)
    BY <2>5, HandlerStep
  <2> QED
    BY <2>1, <2>2, <2>3, <2>4, <2>5, EventStep
<1> QED
  BY <1>3, <1>4, SubscriptionsKept

(* Notifications are made for the type that the handler then leaves.       *)
LEMMA NotesInOrderStep ==
  ASSUME TypeOK, HandlersWork, StaySubscribed, NotesInOrder, [Next]_vars
  PROVE  NotesInOrder'
<1> SUFFICES ASSUME NEW n \in Note, Made(n)'
             PROVE  /\ n.batch <= batch'[n.event]
                    /\ job'[n.event] # Idle /\ n.batch = batch'[n.event]
                           => n.type < job'[n.event].type
  BY DEF NotesInOrder
<1> DEFINE e == n.event
<1>1. /\ e \in Events /\ n.type \in Types /\ n.type \in Nat /\ n.batch \in Nat
      /\ batch[e] \in Nat /\ (job[e] # Idle => job[e].type \in Nat)
  BY BoundsAssumption, TypesAreNumbered DEF Note, Batch, TypeOK, HandlersWork
<1>2. CASE Made(n)
  <2>1. /\ n.batch <= batch[e]
        /\ job[e] # Idle /\ n.batch = batch[e] => n.type < job[e].type
    BY <1>2 DEF NotesInOrder
  <2> HIDE DEF e
  <2>2. CASE job'[e] = job[e] /\ batch'[e] = batch[e]
    BY <2>1, <2>2 DEF e
  <2>3. CASE Start(e)
    <3>1. batch'[e] = batch[e] + 1
      BY <1>1, <2>3, HandlerStep
    <3>2. n.batch <= batch[e] /\ n.batch \in Nat /\ batch[e] \in Nat
      BY <1>1, <2>1
    <3>3. n.batch <= batch'[e] /\ n.batch # batch'[e]
      BY <3>1, <3>2
    <3> QED
      BY <3>3 DEF e
  <2>4. CASE ReadPage(e)
    <3>1. job'[e].type = job[e].type /\ batch'[e] = batch[e] /\ job[e] # Idle
      BY <1>1, <2>4, HandlerStep
    <3> QED
      BY <2>1, <3>1 DEF e
  <2>5. CASE ReadLastPage(e) \/ GenerationFails(e)
    <3>1. /\ job[e] # Idle /\ batch'[e] = batch[e]
          /\ \/ job[e].type + 1 \in Types /\ job'[e] = AtType(job[e].type + 1)
             \/ job'[e] = Idle
      BY <1>1, <2>5, HandlerStep
    <3>2. CASE job'[e] = Idle
      BY <2>1, <3>1, <3>2 DEF e
    <3>3. CASE job[e].type + 1 \in Types /\ job'[e] = AtType(job[e].type + 1)
      <4>1. job'[e].type = job[e].type + 1
        BY <3>3, AtTypeFacts
      <4> QED
        BY <1>1, <2>1, <3>1, <4>1 DEF e
    <3> QED
      BY <3>1, <3>2, <3>3
  <2>6. CASE CrashProcessing(e)
    <3>1. batch'[e] = batch[e] /\ job'[e] = Idle
      BY <1>1, <2>6, HandlerStep
    <3> QED
      BY <2>1, <3>1 DEF e
  <2> QED
    BY <1>1, <2>2, <2>3, <2>4, <2>5, <2>6, EventStep
<1>3. ASSUME NEW f \in Events, ReadLastPage(f), n \in Notes(f, job[f].type, Found(f))
      PROVE  /\ n.batch <= batch'[e]
             /\ job'[e] # Idle /\ n.batch = batch'[e] => n.type < job'[e].type
  <2>1. /\ job[f] # Idle /\ batch'[f] = batch[f]
        /\ \/ job[f].type + 1 \in Types /\ job'[f] = AtType(job[f].type + 1)
           \/ job'[f] = Idle
    BY <1>3, HandlerStep
  <2>2. e = f /\ n.type = job[f].type /\ n.batch = batch[f]
    BY <1>3, <2>1, NotesFacts
  <2>3. job[f].type + 1 \in Types => AtType(job[f].type + 1).type = job[f].type + 1
    BY AtTypeFacts
  <2> HIDE DEF e
  <2> QED
    BY <1>1, <2>1, <2>2, <2>3
<1> QED
  BY <1>2, <1>3, MadeStep

(* Whoever stays subscribed to a type is noted when the type is passed.    *)
LEMMA TypesNotedStep ==
  ASSUME TypeOK, HandlersWork, StaySubscribed, PagesRead, NotesInOrder, TypesNoted, [Next]_vars
  PROVE  TypesNoted'
<1> SUFFICES ASSUME NEW e \in Events, NEW t \in Types, NEW s \in SubscribersOf(t) \ Leaving,
                    item'[e] = "acked" \/ t < job'[e].type
             PROVE  \/ <<e, t>> \in generationFailed' \cup shifted'
                    \/ \E n \in NotesOf(e, t, s) : Made(n)'
  BY DEF TypesNoted, NotesOf
<1>1. generationFailed \subseteq generationFailed' /\ shifted \subseteq shifted'
  BY ExcusesKept
<1>2. \A n \in NotesOf(e, t, s) : n \in Note /\ (Made(n) => Made(n)')
  BY MadeStep DEF NotesOf
<1>3. CASE item[e] = "acked" \/ t < job[e].type
  <2>1. \/ <<e, t>> \in generationFailed \cup shifted
        \/ \E n \in NotesOf(e, t, s) : Made(n)
    BY <1>3 DEF TypesNoted
  <2> QED
    BY <1>1, <1>2, <2>1
<1>4. CASE ~(item[e] = "acked" \/ t < job[e].type)
  <2>1. t \in Nat /\ t > 0 /\ Types = 1 .. Len(Subscribed) /\ Len(Subscribed) \in Nat
    BY TypesAreNumbered, SubscribedAssumption
  <2>2. ~Start(e)
    <3> SUFFICES ASSUME Start(e)
                 PROVE  FALSE
      OBVIOUS
    <3>1. job'[e].type = 1 /\ item'[e] = item[e]
      BY HandlerStep, AtTypeFacts, TypesAreNumbered
    <3> QED
      BY <1>4, <2>1, <3>1
  <2>3. ~ReadPage(e)
    BY <1>4, HandlerStep
  <2>4. ~CrashProcessing(e)
    <3> SUFFICES ASSUME CrashProcessing(e)
                 PROVE  FALSE
      OBVIOUS
    <3>1. job'[e].type = 0 /\ item'[e] # "acked"
      BY HandlerStep, AtTypeFacts
    <3> QED
      BY <2>1, <3>1
  <2>5. ReadLastPage(e) \/ GenerationFails(e)
    BY <1>4, <2>2, <2>3, <2>4, EventStep
  <2>6. /\ job[e] # Idle /\ job[e].type \in Types
        /\ \/ job[e].type + 1 \in Types /\ job'[e] = AtType(job[e].type + 1)
           \/ job[e].type + 1 \notin Types
    BY <2>5, HandlerStep DEF HandlersWork
  <2>7. job[e].type = t
    <3>1. job[e].type \in Nat /\ job[e].type <= t
      BY <1>4, <2>1, <2>6
    <3>2. CASE job[e].type + 1 \notin Types
      BY <2>1, <2>6, <3>1, <3>2
    <3>3. CASE job[e].type + 1 \in Types /\ job'[e] = AtType(job[e].type + 1)
      <4>1. job'[e].type = job[e].type + 1 /\ item'[e] # "acked"
        BY <1>4, <2>5, <3>3, AtTypeFacts, HandlerStep
      <4> QED
        BY <2>1, <3>1, <4>1
    <3> QED
      BY <2>6, <3>2, <3>3
  <2>8. CASE GenerationFails(e)
    BY <2>7, <2>8 DEF GenerationFails
  <2>9. CASE ReadLastPage(e) /\ <<e, t>> \notin shifted
    <3>1. ~HasNext(Page(e)) /\ enqueuing' = enqueuing \cup Notes(e, t, Found(e))
      BY <2>7, <2>9 DEF ReadLastPage
    <3>2. PICK k \in DOMAIN subscriptions[t] : subscriptions[t][k] = s
      BY DEF StaySubscribed
    <3>3. k \in Nat /\ k >= 1 /\ job[e].skip \in Nat
      BY DEF TypeOK
    <3>4. s \in Found(e)
      <4>1. CASE k > job[e].skip
        BY <2>6, <2>7, <3>1, <3>2, <4>1, PageFacts
      <4>2. CASE k <= job[e].skip
        <5>1. k \in 1 .. job[e].skip
          BY <3>3, <4>2
        <5> QED
          BY <2>6, <2>7, <2>9, <3>2, <5>1 DEF PagesRead, Found
      <4> QED
        BY <3>3, <4>1, <4>2
    <3>5. PICK n \in Notes(e, t, Found(e)) : n.event = e /\ n.type = t /\ n.to = s
      <4>1. [event |-> e, type |-> t, to |-> s, batch |-> batch[e]] \in Notes(e, t, Found(e))
        BY <3>4 DEF Notes
      <4> QED
        BY <4>1
    <3>6. n \in Note
      BY <2>6, <2>7, NotesFacts
    <3>7. n \in NotesOf(e, t, s)
      BY <3>5, <3>6 DEF NotesOf
    <3>8. Made(n)'
      BY <3>1 DEF Made
    <3> QED
      BY <3>7, <3>8
  <2> QED
    BY <1>1, <2>5, <2>8, <2>9
<1> QED
  BY <1>3, <1>4

(* A notification is sent once, until its sending fails or a pod dies.     *)
LEMMA DeliveredOnceStep ==
  ASSUME TypeOK, DeliveredOnce, [Next]_vars
  PROVE  DeliveredOnce'
<1> SUFFICES ASSUME NEW n \in Note
             PROVE  /\ sendItem'[n] \in {"unsent", "lost"} => delivered'[n] = 0
                    /\ n \in sent' => delivered'[n] > 0
                    /\ crashes' = 0 /\ sendFailures'[n] = 0 =>
                           /\ delivered'[n] <= 1
                           /\ n \notin sent' /\ sendItem'[n] \in SendQueue!Accepted
                                  => delivered'[n] = 0
  BY DEF DeliveredOnce, CanSend, SendQueue!Accepted
<1>1. /\ delivered[n] \in Nat /\ sendFailures[n] \in Nat
      /\ crashes \in Nat /\ crashes' \in Nat /\ crashes <= crashes'
  BY CrashesGrow DEF TypeOK
<1>2. /\ sendItem[n] \in {"unsent", "lost"} => delivered[n] = 0
      /\ n \in sent => delivered[n] > 0
      /\ crashes = 0 /\ sendFailures[n] = 0 =>
             /\ delivered[n] <= 1
             /\ n \notin sent /\ sendItem[n] \in SendQueue!Accepted => delivered[n] = 0
  BY DEF DeliveredOnce, CanSend
<1>3. CASE /\ sendItem'[n] = sendItem[n] /\ sendFailures'[n] = sendFailures[n]
           /\ delivered'[n] = delivered[n] /\ (n \in sent') = (n \in sent)
  BY <1>1, <1>2, <1>3
<1>4. CASE Enqueue(n)
  <2>1. /\ sendItem[n] = "unsent" /\ delivered'[n] = delivered[n]
        /\ n \in sent' <=> n \in sent
    BY <1>4 DEF Enqueue, SendQueue!Accept
  <2> QED
    BY <1>1, <1>2, <2>1
<1>5. CASE Send(n)
  <2>1. /\ n \notin sent /\ sendItem[n] \in SendQueue!Accepted /\ n \in sent'
        /\ delivered'[n] = delivered[n] + 1
        /\ sendItem' = sendItem /\ sendFailures' = sendFailures /\ crashes' = crashes
    BY <1>5 DEF Send, CanSend, Deliver, TypeOK, sendVars
  <2> QED
    BY <1>1, <1>2, <2>1 DEF SendQueue!Accepted
<1>6. CASE SendDone(n)
  <2>1. /\ delivered' = delivered /\ n \notin sent' /\ sendItem'[n] = "acked"
        /\ sendFailures' = sendFailures /\ crashes' = crashes
    BY <1>6 DEF SendDone, SendQueue!Complete, TypeOK
  <2> QED
    BY <1>1, <1>2, <2>1 DEF SendQueue!Accepted
<1>7. CASE SendFails(n)
  <2>1. sendItem'[n] \in {"retried", "dead"} /\ sendFailures'[n] = sendFailures[n] + 1
    BY <1>7 DEF SendFails, SendQueue!Retry, SendQueue!GiveUp, TypeOK
  <2>2. n \notin sent'
    BY <1>7 DEF SendFails, CanSend
  <2> QED
    BY <1>1, <2>1, <2>2
<1>8. CASE CrashSending(n)
  <2>1. /\ n \notin sent' /\ sendItem'[n] = "retried" /\ crashes' = crashes + 1
    BY <1>8 DEF CrashSending, CountCrash, SendQueue!Interrupt, TypeOK, sendVars
  <2> QED
    BY <1>1, <2>1
<1> QED
  BY <1>3, <1>4, <1>5, <1>6, <1>7, <1>8, NoteStep

(* The last failure of a notification is announced, and no other one.      *)
LEMMA FailuresAnnouncedStep ==
  ASSUME TypeOK, DeliveredOnce, FailuresAnnounced, [Next]_vars
  PROVE  FailuresAnnounced'
<1> SUFFICES ASSUME NEW n \in Note
             PROVE  /\ sendItem'[n] = "acked" => delivered'[n] > 0
                    /\ sendItem'[n] = "dead" <=> n \in sendFailed'
  BY DEF FailuresAnnounced
<1>1. /\ sendItem[n] = "acked" => delivered[n] > 0
      /\ sendItem[n] = "dead" <=> n \in sendFailed
  BY DEF FailuresAnnounced
<1>2. CASE /\ sendItem'[n] = sendItem[n] /\ delivered'[n] = delivered[n]
           /\ (n \in sendFailed') = (n \in sendFailed)
  BY <1>1, <1>2
<1>3. CASE Enqueue(n)
  BY <1>1, <1>3 DEF Enqueue, SendQueue!Accept, TypeOK
<1>4. CASE Send(n)
  BY <1>1, <1>4 DEF Send, Deliver, TypeOK, sendVars
<1>5. CASE SendDone(n)
  BY <1>1, <1>5 DEF SendDone, SendQueue!Complete, SendQueue!Accepted, TypeOK, DeliveredOnce
<1>6. CASE SendFails(n)
  <2>1. CASE SendQueue!Retry(n)
    BY <1>1, <1>6, <2>1 DEF SendFails, AnnounceFailure, SendQueue!Retry, TypeOK
  <2>2. CASE SendQueue!GiveUp(n)
    BY <1>1, <1>6, <2>2 DEF SendFails, AnnounceFailure, SendQueue!GiveUp, TypeOK
  <2> QED
    BY <1>6, <2>1, <2>2 DEF SendFails
<1>7. CASE CrashSending(n)
  BY <1>1, <1>7 DEF CrashSending, SendQueue!Interrupt, SendQueue!Accepted, TypeOK, sendVars
<1> QED
  BY <1>2, <1>3, <1>4, <1>5, <1>6, <1>7, NoteStep

----------------------------------------------------------------------------
(* Theorems.                                                               *)

(* The inductive invariant holds from the start.                           *)
LEMMA InitFacts == Init => IInv
<1> SUFFICES ASSUME Init
             PROVE  IInv
  OBVIOUS
<1>0. /\ MaxCrashes \in Nat /\ Subscribed \in Seq(Seq(Subscribers))
      /\ Idle \in [type : {0} \cup Types, skip : Nat, found : SUBSET Subscribers]
      /\ Idle.type = 0 /\ Idle.skip = 0
  BY BoundsAssumption, SubscribedAssumption, TypesAreNumbered, AtTypeFacts
<1>1. /\ item = [e \in Events |-> "unsent"] /\ sendItem = [n \in Note |-> "unsent"]
      /\ failures = [e \in Events |-> 0] /\ sendFailures = [n \in Note |-> 0]
      /\ succeeded = {} /\ sendSucceeded = {}
      /\ subscriptions = Subscribed /\ job = [e \in Events |-> Idle]
      /\ batch = [e \in Events |-> 0] /\ enqueuing = {} /\ sent = {}
      /\ delivered = [n \in Note |-> 0] /\ generationFailed = {} /\ sendFailed = {}
      /\ shifted = {} /\ crashes = 0
  BY DEF Init, EventQueue!Init, SendQueue!Init
<1>2. TypeOK
  <2>1. Subscribed \in [Types -> Seq(Subscribers)]
    BY <1>0 DEF Types
  <2> QED
    BY <1>0, <1>1, <2>1 DEF TypeOK
<1>3. HandlersWork
  <2>1. \A e \in Events : job[e] = Idle /\ batch[e] = 0
    BY <1>1
  <2>2. crashes = 0 /\ 0 <= crashes /\ 0 <= crashes + 1
    BY <1>1
  <2>3. \A e \in Events : batch[e] <= crashes /\ batch[e] <= crashes + 1
    BY <2>1, <2>2, Zenon
  <2> QED
    BY <2>1, <2>3, Zenon DEF HandlersWork
<1>4. StaySubscribed
  BY <1>1 DEF StaySubscribed, SubscribersOf
<1>5. PagesRead
  BY <1>1 DEF PagesRead
<1>6. NotesInOrder
  BY <1>1 DEF NotesInOrder, Made
<1>7. TypesNoted
  <2>1. \A t \in Types : t \in Nat /\ t > 0
    BY TypesAreNumbered
  <2> QED
    BY <1>0, <1>1, <2>1 DEF TypesNoted
<1>8. DeliveredOnce
  BY <1>1 DEF DeliveredOnce
<1>9. FailuresAnnounced
  BY <1>1 DEF FailuresAnnounced
<1> QED
  BY <1>2, <1>3, <1>4, <1>5, <1>6, <1>7, <1>8, <1>9 DEF IInv

(* The inductive invariant always holds.                                   *)
THEOREM Invariance == Spec => []IInv
<1>1. IInv /\ [Next]_vars => IInv'
  <2> SUFFICES ASSUME IInv, [Next]_vars
               PROVE  IInv'
    OBVIOUS
  <2>0. /\ TypeOK /\ HandlersWork /\ StaySubscribed /\ PagesRead /\ NotesInOrder
        /\ TypesNoted /\ DeliveredOnce /\ FailuresAnnounced
    BY DEF IInv
  <2>1. TypeOK' /\ HandlersWork' /\ StaySubscribed' /\ PagesRead'
    BY <2>0, TypeStep, HandlersWorkStep, StaySubscribedStep, PagesReadStep
  <2>2. NotesInOrder' /\ TypesNoted' /\ DeliveredOnce' /\ FailuresAnnounced'
    BY <2>0, NotesInOrderStep, TypesNotedStep, DeliveredOnceStep, FailuresAnnouncedStep
  <2> QED
    BY <2>1, <2>2 DEF IInv
<1> QED
  BY InitFacts, <1>1, PTL DEF Spec

(* Every variable keeps to its values, whatever runs side by side.         *)
THEOREM TypeCorrect == Spec => []TypeOK
<1>1. IInv => TypeOK
  BY DEF IInv
<1> QED
  BY <1>1, Invariance, PTL

(* Whoever stays subscribed is not passed over by the paging, unless the   *)
(* failure of the type was announced or a subscription behind the cursor   *)
(* of the handler ended: for pages of any size, and retries and crashes.   *)
THEOREM NobodyPassedOverAlways == Spec => []NobodyPassedOver
<1>1. IInv => NobodyPassedOver
  BY DEF IInv, TypesNoted, NobodyPassedOver
<1> QED
  BY <1>1, Invariance, PTL

(* Without a crash an event is generated for once, so that two deliveries  *)
(* to a subscriber are of one notification, whose sending had failed.      *)
THEOREM DuplicatesExplainedAlways == Spec => []DuplicatesExplained
<1>1. IInv => DuplicatesExplained
  <2> SUFFICES ASSUME IInv, NEW e \in Events, NEW t \in Types, NEW s \in Subscribers,
                      ~(crashes > 0), \A n \in NotesOf(e, t, s) : ~(sendFailures[n] > 0),
                      NEW n \in NotesOf(e, t, s), NEW m \in NotesOf(e, t, s),
                      delivered[n] > 0, delivered[m] > 0
               PROVE  n = m /\ delivered[n] = 1
    BY DEF DuplicatesExplained
  <2>1. TypeOK /\ HandlersWork /\ NotesInOrder /\ DeliveredOnce
    BY DEF IInv
  <2>2. crashes = 0
    BY <2>1, BoundsAssumption DEF TypeOK
  <2>3. ASSUME NEW l \in NotesOf(e, t, s), delivered[l] > 0
        PROVE  l.batch = 1 /\ delivered[l] = 1
    <3>1. /\ l \in Note /\ l.event = e /\ sendFailures[l] = 0 /\ delivered[l] \in Nat
      BY <2>1 DEF NotesOf, TypeOK
    <3>2. Made(l)
      BY <2>1, <2>3, <3>1 DEF DeliveredOnce, Made
    <3>3. l.batch \in Nat /\ l.batch >= 1 /\ batch[e] \in Nat
      BY <2>1, <3>1, BoundsAssumption DEF Note, Batch, TypeOK
    <3>4. l.batch <= batch[e] /\ batch[e] <= 1
      BY <2>1, <2>2, <3>1, <3>2 DEF NotesInOrder, HandlersWork
    <3>5. delivered[l] <= 1
      BY <2>1, <2>2, <3>1 DEF DeliveredOnce
    <3> QED
      BY <2>3, <3>1, <3>3, <3>4, <3>5
  <2>4. n.batch = m.batch /\ delivered[n] = 1
    BY <2>3
  <2> QED
    BY <2>4 DEF NotesOf, Note
<1> QED
  BY <1>1, Invariance, PTL

(* The queue is done with a notification that was sent or whose failure    *)
(* was announced, and no announced failure is retried.                     *)
THEOREM FailuresAnnouncedAlways == Spec => []FailuresAnnounced
<1>1. IInv => FailuresAnnounced
  BY DEF IInv
<1> QED
  BY <1>1, Invariance, PTL

----------------------------------------------------------------------------
(* The queues.                                                             *)

(* What the jobs do to an event is what its queue allows.                  *)
LEMMA EventQueueStep == [Next]_vars => [EventQueue!Next]_(EventQueue!avars)
<1> SUFFICES ASSUME [Next]_vars
             PROVE  EventQueue!Next \/ UNCHANGED eventVars
  BY DEF EventQueue!avars, eventVars
<1>1. ASSUME NEW e \in Events, Publish(e) \/ CrashProcessing(e) \/ Process(e)
      PROVE  \/ UNCHANGED eventVars
             \/ EventQueue!Accept(e) \/ EventQueue!Interrupt(e) \/ EventQueue!Retry(e)
             \/ EventQueue!GiveUp(e) \/ EventQueue!Complete(e)
  BY <1>1 DEF Publish, CrashProcessing, Process, Start, StartFails, ReadPage, ReadLastPage,
     GenerationFails, FinishType
<1>2. ASSUME NEW n \in Note,
             Enqueue(n) \/ Send(n) \/ SendDone(n) \/ SendFails(n) \/ CrashSending(n)
      PROVE  UNCHANGED eventVars
  BY <1>2 DEF Enqueue, Send, SendDone, SendFails, CrashSending
<1>3. ASSUME NEW t \in Types, NEW k \in DOMAIN subscriptions[t], Unsubscribe(t, k)
      PROVE  UNCHANGED eventVars
  BY <1>3 DEF Unsubscribe
<1>4. CASE UNCHANGED vars
  BY <1>4 DEF vars
<1> QED
  BY <1>1, <1>2, <1>3, <1>4 DEF Next, Work, EventQueue!Next

(* And so is what they do to a notification.                               *)
LEMMA SendQueueStep == [Next]_vars => [SendQueue!Next]_(SendQueue!avars)
<1> SUFFICES ASSUME [Next]_vars
             PROVE  SendQueue!Next \/ UNCHANGED sendVars
  BY DEF SendQueue!avars, sendVars
<1>1. ASSUME NEW n \in Note,
             Enqueue(n) \/ Send(n) \/ SendDone(n) \/ SendFails(n) \/ CrashSending(n)
      PROVE  \/ UNCHANGED sendVars
             \/ SendQueue!Accept(n) \/ SendQueue!Interrupt(n) \/ SendQueue!Retry(n)
             \/ SendQueue!GiveUp(n) \/ SendQueue!Complete(n)
  BY <1>1 DEF Enqueue, Send, SendDone, SendFails, CrashSending
<1>2. ASSUME NEW e \in Events, Publish(e) \/ CrashProcessing(e) \/ Process(e)
      PROVE  UNCHANGED sendVars
  BY <1>2 DEF Publish, CrashProcessing, Process, Start, StartFails, ReadPage, ReadLastPage,
     GenerationFails
<1>3. ASSUME NEW t \in Types, NEW k \in DOMAIN subscriptions[t], Unsubscribe(t, k)
      PROVE  UNCHANGED sendVars
  BY <1>3 DEF Unsubscribe
<1>4. CASE UNCHANGED vars
  BY <1>4 DEF vars
<1> QED
  BY <1>1, <1>2, <1>3, <1>4 DEF Next, Work, SendQueue!Next

(* Both jobs keep the protocol of their queue, one outcome for a delivery, *)
(* though the first fills the queue of the second.                         *)
THEOREM KeepsQueueProtocols == Spec => EventQueue!Spec /\ SendQueue!Spec
<1>1. Init => EventQueue!Init /\ SendQueue!Init
  BY DEF Init
<1> QED
  BY <1>1, EventQueueStep, SendQueueStep, PTL DEF Spec, EventQueue!Spec, SendQueue!Spec
=============================================================================
