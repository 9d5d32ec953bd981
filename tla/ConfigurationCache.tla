-------------------------- MODULE ConfigurationCache --------------------------
(***************************************************************************)
(* A service that keeps a configuration in the cache of the service SDK,   *)
(* over the configuration-service that has it (ConfigurationRevisions).    *)
(*                                                                         *)
(* The cache has one slot for the configuration, whichever of its two      *)
(* readers asks: getConfiguration wants the latest revision,               *)
(* getServiceConfiguration the active one or else the latest.  A slot is   *)
(* emptied by its time to live and by the events of the update stream, and *)
(* filled by the one retrieval that may be on its way, however old its     *)
(* answer has become by then.                                              *)
(***************************************************************************)
EXTENDS Integers, FiniteSets

CONSTANTS
    Requests,     \* requests made of the configuration
    None          \* no revision, no value, no retrieval

ASSUME RequestsAssumption == IsFiniteSet(Requests)
ASSUME NoneAssumption == None \notin Nat

VARIABLES
    revisions, active, op, step, read, found, stream, overlapped,  \* the store
    cached,       \* the value in the slot, with the endpoint that answered it
    retrieval,    \* the retrieval on its way
    waiting,      \* the readers that wait for it
    silent,       \* history: the store has changed with no event left to come
                  \* for it since the slot was filled or its retrieval began
    misread       \* history: a reader of the active revision was given the
                  \* latest one although the two differed

Store == INSTANCE ConfigurationRevisions

storeVars == <<revisions, active, op, step, read, found, stream, overlapped>>
cacheVars == <<cached, retrieval, waiting, silent, misread>>
vars == <<storeVars, cacheVars>>

Reader == {"latest", "active"}

(* The configuration itself; the active endpoint adds its number.          *)
Value == [content : (SUBSET Requests) \cup {None}, number : Store!Number \cup {None}]

NoValue == [content |-> None, number |-> None]

Retrieval == [endpoint : Reader, at : {"sent", "entity", "active", "answered"},
              latest : Store!Latest \cup {None}, found : Store!Number \cup {None},
              value : Value]

ASSUME NoRetrievalAssumption == None \notin Retrieval

TypeOK ==
    /\ Store!TypeOK
    /\ cached \in [endpoint : Reader, value : Value] \cup {None}
    /\ retrieval \in Retrieval \cup {None}
    /\ waiting \subseteq Reader
    /\ retrieval = None <=> waiting = {}
    /\ silent \in BOOLEAN
    /\ misread \in BOOLEAN

Init ==
    /\ Store!Init
    /\ cached = None
    /\ retrieval = None
    /\ waiting = {}
    /\ silent = FALSE
    /\ misread = FALSE

----------------------------------------------------------------------------
(* The endpoints, as functions of what their handlers have read.           *)

(* GET latest: an empty object where there is no revision.                 *)
LatestValue(latest) ==
    [content |-> IF latest = None THEN {} ELSE latest.content, number |-> None]

(* The latest revision as getActiveRevision falls back to it: nothing at   *)
(* all where there is none.                                                *)
OrLatest(latest) ==
    IF latest = None THEN NoValue
    ELSE [content |-> latest.content, number |-> latest.number]

(* GET active: the revision the active document names, if it is there.     *)
ActiveValue(latest, number) ==
    IF number # None /\ Store!Exists(number)
    THEN [content |-> revisions[number], number |-> number]
    ELSE OrLatest(latest)

(* What either endpoint answers to a request that nothing runs beside.     *)
Current(endpoint) ==
    IF endpoint = "latest" THEN LatestValue(Store!FindLatest)
    ELSE ActiveValue(Store!FindLatest, active)

----------------------------------------------------------------------------
(* The readers.                                                            *)

(* Reader k is given a value.  It is misread where it is the content of    *)
(* the latest revision just now, and not that of the active revision.      *)
Give(k, value) ==
    misread' = (misread \/ /\ k = "active"
                           /\ active # None /\ Store!Exists(active)
                           /\ value = Current("latest")
                           /\ value.content # revisions[active])

(* A reader finds the slot filled.                                         *)
Hit(k) ==
    /\ cached # None
    /\ Give(k, cached.value)
    /\ UNCHANGED <<storeVars, cached, retrieval, waiting, silent>>

(* The slot is empty: the reader starts a retrieval or waits for the one   *)
(* on its way, whichever endpoint that one asks.                           *)
Miss(k) ==
    /\ cached = None
    /\ IF retrieval = None
       THEN /\ retrieval' = [endpoint |-> k, at |-> "sent", latest |-> None,
                             found |-> None, value |-> NoValue]
            /\ silent' = FALSE
       ELSE UNCHANGED <<retrieval, silent>>
    /\ waiting' = waiting \cup {k}
    /\ UNCHANGED <<storeVars, cached, misread>>

----------------------------------------------------------------------------
(* The retrieval: its request at configuration-service, and its answer.    *)

Proceed(from, to) ==
    /\ retrieval # None /\ retrieval.at = from
    /\ retrieval' = to
    /\ UNCHANGED <<storeVars, cached, waiting, silent, misread>>

ReadEntity ==
    LET latest == Store!FindLatest
    IN  Proceed("sent",
            IF retrieval.endpoint = "latest"
            THEN [retrieval EXCEPT !.at = "answered", !.value = LatestValue(latest)]
            ELSE [retrieval EXCEPT !.at = "entity", !.latest = latest])

ReadActive ==
    Proceed("entity", [retrieval EXCEPT !.at = "active", !.found = active])

ReadRevision ==
    Proceed("active",
        [retrieval EXCEPT !.at = "answered", !.latest = None, !.found = None,
                          !.value = ActiveValue(retrieval.latest, retrieval.found)])

(* Every reader that waited gets the answer, and clears the execution they *)
(* shared before anyone can ask again.                                     *)
Settle ==
    /\ retrieval' = None
    /\ waiting' = {}

(* The answer is cached, also where it is no value.                        *)
Receive ==
    /\ retrieval # None /\ retrieval.at = "answered"
    /\ cached' = [endpoint |-> retrieval.endpoint, value |-> retrieval.value]
    /\ IF "active" \in waiting
       THEN Give("active", retrieval.value)
       ELSE UNCHANGED misread
    /\ Settle
    /\ UNCHANGED <<storeVars, silent>>

(* The request fails: its readers get no value, and nothing is cached.     *)
RetrievalFails ==
    /\ retrieval # None
    /\ Settle
    /\ UNCHANGED <<storeVars, cached, silent, misread>>

----------------------------------------------------------------------------
(* What empties the slot.                                                  *)

(* Mutant: only updates clear the cache.                                   *)
ListensToUpdates == {"update"}

(* The events handleConfigurationUpdates has handlers for.                 *)
Listens == {"update", "activate"}

ClearCached == cached' = None

(* An event of the stream arrives.                                         *)
EventArrives(r) ==
    /\ r \in stream
    /\ stream' = stream \ {r}
    /\ IF op[r].kind \in Listens THEN ClearCached ELSE UNCHANGED cached
    /\ UNCHANGED <<revisions, active, op, step, read, found, overlapped,
                   retrieval, waiting, silent, misread>>

(* It is lost: the socket was down, or event-service did not publish it.   *)
EventLost(r) ==
    /\ r \in stream
    /\ stream' = stream \ {r}
    /\ silent' = TRUE
    /\ UNCHANGED <<revisions, active, op, step, read, found, overlapped,
                   cached, retrieval, waiting, misread>>

(* Mutant: a time to live of zero, with which node-cache keeps for ever.   *)
ExpireNever == FALSE /\ UNCHANGED vars

(* The time to live is over.                                               *)
Expire ==
    /\ cached # None
    /\ ClearCached
    /\ UNCHANGED <<storeVars, retrieval, waiting, silent, misread>>

----------------------------------------------------------------------------
(* A request made of the store takes a step.  Of a change no event will    *)
(* follow that a service listens for, or that a retrieval which has begun  *)
(* to read may outlive, the cache will hear nothing; nor of an activation  *)
(* that ends without its event.                                            *)
Announced == {"update", "activate"}

EndsUnannounced(r) == step[r] = "saved" /\ r \notin stream'

Change(r) ==
    /\ Store!Handle(r)
    /\ silent' = (silent \/ EndsUnannounced(r)
                         \/ /\ <<revisions, active>>' # <<revisions, active>>
                            /\ \/ op[r].kind \notin Announced
                               \/ retrieval # None /\ retrieval.at # "sent")
    /\ UNCHANGED <<cached, retrieval, waiting, misread>>

Retrieve == ReadEntity \/ ReadActive \/ ReadRevision \/ Receive \/ RetrievalFails

Next ==
    \/ \E r \in Requests : Change(r) \/ EventArrives(r) \/ EventLost(r)
    \/ \E k \in Reader : Hit(k) \/ Miss(k)
    \/ Retrieve
    \/ Expire

Spec == Init /\ [][Next]_vars

(* The cache has a time to live of a quarter of an hour, or of ten.  No    *)
(* request, retrieval or event need go on.                                 *)
FairSpec == Spec /\ WF_vars(Expire)

----------------------------------------------------------------------------
(* Properties.                                                             *)

RevisionsContiguous == Store!RevisionsContiguous

ActiveExists == Store!ActiveExists

Stale == cached # None /\ cached.value # Current(cached.endpoint)

(* Websocket invalidation can miss updates (types.ts:95), but only some: a *)
(* stale value is about to be cleared unless the event was lost or never   *)
(* sent, the change was not of a kind the SDK listens for, or it was made  *)
(* while the value was on its way.                                         *)
StaleIsAnnounced ==
    Stale /\ ~silent =>
        \E r \in Requests :
            /\ op[r] # None /\ op[r].kind \in Announced
            /\ step[r] = "saved" \/ r \in stream

(* Changed configuration may not be applied at once but catches up         *)
(* (docs/important-notes.md:10): once the requests for changes are over,   *)
(* no stale value stays.                                                   *)
CatchesUp == <>[](~Stale)

(* getServiceConfiguration retrieves the active revision, with fallback to *)
(* the latest (configurationService.ts:31).                                *)
ServiceGetsActive == ~misread

----------------------------------------------------------------------------
(* The inductive invariant behind the safety properties.                   *)

(* An event is on its way once its request is over.                        *)
StreamIsDone == \A r \in stream : step[r] = "done" /\ op[r] # None

(* What a retrieval has read is what there is, unless silent tells.        *)
RetrievalIsCurrent ==
    retrieval # None =>
        /\ retrieval.at \in {"entity", "active"} => retrieval.endpoint = "active"
        /\ ~silent =>
            /\ retrieval.at \in {"entity", "active"} => retrieval.latest = Store!FindLatest
            /\ retrieval.at = "active" => retrieval.found = active
            /\ retrieval.at = "answered" => retrieval.value = Current(retrieval.endpoint)

IInv ==
    /\ TypeOK
    /\ Store!NumbersBounded
    /\ Store!StepsAreOfKind
    /\ RevisionsContiguous
    /\ Store!ReadsExist
    /\ ActiveExists
    /\ StreamIsDone
    /\ RetrievalIsCurrent
    /\ StaleIsAnnounced
=============================================================================
