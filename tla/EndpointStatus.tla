---------------------------- MODULE EndpointStatus ----------------------------
(***************************************************************************)
(* status-service: the health checks of an application and its status.     *)
(*                                                                         *)
(* A pod that runs jobs has a cache of the scheduled checks, which follows *)
(* the enabled flag of the application's status by events and by a reload  *)
(* every five minutes.  A check pings the application, works out from the  *)
(* last samples whether its health has changed, sends an event if so, and  *)
(* then saves the status.  That save, the one of the automatic status and  *)
(* that of a user's status write all of the entity each has read.          *)
(***************************************************************************)
EXTENDS Integers, Sequences, FiniteSets

CONSTANTS
    Checks,       \* runs of the check that may be under way at once
    Requests,     \* requests of users, each made once
    SampleSize,   \* samples looked at (ENTRY_SAMPLE_SIZE, QUERY_SIZE)
    MinFailed,    \* failed ones that make it offline (UNHEALTHY_MIN_FAIL_COUNT)
    AutoChange,   \* whether the application has autoChangeStatus
    MaxCrashes    \* bound: ends of the pod over a behaviour

ASSUME HandlersAssumption == Checks \cap Requests = {}
ASSUME SampleAssumption ==
    SampleSize \in Nat \ {0} /\ MinFailed \in 1 .. SampleSize
ASSUME AutoAssumption == AutoChange \in BOOLEAN
ASSUME BoundsAssumption == MaxCrashes \in Nat

VARIABLES
    doc,          \* the status document of the application
    entries,      \* the last samples, true for a good one
    check,        \* what each run of the check is at
    request,      \* what each request is at
    events,       \* started and stopped events on their way to the pod
    starting,     \* started events whose application is being looked up
    pod,          \* starting, running, or failed to load its checks
    found,        \* what the search for enabled applications has found
    scheduled,    \* whether the cache of the pod has a job for the application
    announced,    \* history: the last health event sent
    stale,        \* history: who holds an entity whose health was replaced since
    lost,         \* history: a save of health failed, or undid another
    crashes

podVars == <<starting, pod, found, scheduled, crashes>>
history == <<announced, stale, lost>>
vars == <<doc, entries, check, request, events, podVars, history>>

Health == {"n/a", "online", "offline"}
Status == {"operational", "reported-issues"}
Doc == [enabled : BOOLEAN, health : Health, status : Status]

NoDoc == [enabled |-> FALSE, health |-> "n/a", status |-> "operational"]
IdleCheck == [at |-> "idle", failed |-> 0, entity |-> NoDoc]
IdleRequest == [at |-> "new", entity |-> NoDoc]

(* Checks that have announced the change they are going to save.           *)
Saving == {c \in Checks : check[c].at = "saving"}

(* All who have read the entity they are going to save.                    *)
Holders ==
    Saving \cup {c \in Checks : check[c].at = "autoSaving"}
        \cup {r \in Requests : request[r].at = "saving"}

TypeOK ==
    /\ doc \in Doc
    /\ entries \in Seq(BOOLEAN) /\ Len(entries) <= SampleSize
    /\ check \in [Checks -> [at : {"idle", "pinged", "sampled", "saving", "auto",
                                   "autoSampled", "autoSaving"},
                             failed : 0 .. SampleSize, entity : Doc]]
    /\ \A c \in Saving : check[c].entity.health # "n/a"
    /\ request \in [Requests -> [at : {"new", "enabling", "disabling", "saving", "done"},
                                 entity : Doc]]
    /\ events \subseteq Requests \X {"start", "stop"}
    /\ starting \subseteq Requests
    /\ pod \in {"starting", "running", "failed"}
    /\ found \in {"nothing", "enabled", "disabled"}
    /\ scheduled \in BOOLEAN /\ (scheduled => pod = "running")
    /\ announced \in {"nothing", "online", "offline"}
    /\ stale \subseteq Holders
    /\ lost \in BOOLEAN
    /\ crashes \in 0 .. MaxCrashes

(* A new application, whose health is offline without anyone being told,   *)
(* or one that has just been enabled.                                      *)
Init ==
    /\ doc \in {[enabled |-> FALSE, health |-> "offline", status |-> "operational"],
               [enabled |-> TRUE, health |-> "n/a", status |-> "operational"]}
    /\ entries = <<>>
    /\ check = [c \in Checks |-> IdleCheck]
    /\ request = [r \in Requests |-> IdleRequest]
    /\ events = {} /\ starting = {}
    /\ pod = "starting" /\ found = "nothing" /\ scheduled = FALSE
    /\ announced = "nothing" /\ stale = {} /\ lost = FALSE
    /\ crashes = 0

----------------------------------------------------------------------------
(* The check (createCheckEndpointJob).                                     *)

Failed(samples) == Cardinality({i \in 1 .. Len(samples) : ~samples[i]})

(* Mutant: samples are not limited to the last.                            *)
PingUnlimited(c) ==
    /\ scheduled /\ check[c] = IdleCheck
    /\ \E ok \in BOOLEAN : entries' = Append(entries, ok)
    /\ check' = [check EXCEPT ![c].at = "pinged"]
    /\ UNCHANGED <<doc, request, events, podVars, history>>

(* The schedule fires; the ping is answered, or not, and recorded.  The    *)
(* job's cancellation does not stop a run that is under way.               *)
Ping(c) ==
    /\ scheduled /\ check[c] = IdleCheck
    /\ \E ok \in BOOLEAN :
        LET all == Append(entries, ok)
        IN  entries' = IF Len(all) > SampleSize THEN Tail(all) ELSE all
    /\ check' = [check EXCEPT ![c].at = "pinged"]
    /\ UNCHANGED <<doc, request, events, podVars, history>>

(* A token, a configuration or the store fails: the run ends.              *)
CheckFails(c) ==
    /\ check[c].at \in {"pinged", "sampled", "auto", "autoSampled"}
    /\ check' = [check EXCEPT ![c] = IdleCheck]
    /\ UNCHANGED <<doc, entries, request, events, podVars, history>>

(* The samples are read; the automatic status reads them once more, and    *)
(* changes nothing unless there are enough of them and all agree.          *)
ReadSamples(c) ==
    /\ \/ check[c].at = "pinged" /\ check' = [check EXCEPT ![c].at = "sampled",
                                                           ![c].failed = Failed(entries)]
       \/ check[c].at = "auto" /\ check' = [check EXCEPT ![c] =
              IF Len(entries) < SampleSize \/ Failed(entries) \notin {0, SampleSize}
              THEN IdleCheck
              ELSE [IdleCheck EXCEPT !.at = "autoSampled", !.failed = Failed(entries)]]
    /\ UNCHANGED <<doc, entries, request, events, podVars, history>>

(* getNewEndpointStatus.                                                   *)
NewHealth(health, failed) ==
    IF health = "n/a" THEN IF failed > 0 THEN "offline" ELSE "online"
    ELSE IF health = "offline" /\ failed = 0 THEN "online"
    ELSE IF health = "online" /\ failed >= MinFailed THEN "offline"
    ELSE health

AfterHealth == IF AutoChange THEN [IdleCheck EXCEPT !.at = "auto"] ELSE IdleCheck

(* The status is read.  A change is announced before it is saved.          *)
Determine(c) ==
    LET health == NewHealth(doc.health, check[c].failed)
    IN  /\ check[c].at = "sampled"
        /\ IF health = doc.health
           THEN /\ check' = [check EXCEPT ![c] = AfterHealth]
                /\ UNCHANGED announced
           ELSE /\ check' = [check EXCEPT ![c] = [IdleCheck EXCEPT
                                !.at = "saving", !.entity = [doc EXCEPT !.health = health]]]
                /\ announced' = health
        /\ UNCHANGED <<doc, entries, request, events, podVars, stale, lost>>

(* All of the entity is written, over what others have made of it since it *)
(* was read.                                                               *)
Save(by, entity) ==
    /\ doc' = entity
    /\ stale' = (IF entity.health = doc.health THEN stale ELSE stale \cup Holders) \ {by}
    /\ lost' = (lost \/ (by \in stale /\ entity.health # doc.health))

SaveHealth(c) ==
    /\ check[c].at = "saving"
    /\ Save(c, check[c].entity)
    /\ check' = [check EXCEPT ![c] = AfterHealth]
    /\ UNCHANGED <<entries, request, events, podVars, announced>>

(* Its failure is logged.                                                  *)
SaveHealthFails(c) ==
    /\ check[c].at = "saving"
    /\ check' = [check EXCEPT ![c] = AfterHealth]
    /\ stale' = stale \ {c} /\ lost' = TRUE
    /\ UNCHANGED <<doc, entries, request, events, podVars, announced>>

(* checkAndUpdateAutoChangeStatus.  Whether the samples go back five       *)
(* minutes is left open.                                                   *)
AutoStatus(failed) ==
    IF failed = SampleSize THEN "reported-issues" ELSE "operational"

DetermineStatus(c) ==
    /\ check[c].at = "autoSampled"
    /\ \E status \in {doc.status, AutoStatus(check[c].failed)} :
        check' = [check EXCEPT ![c] =
                     IF status = doc.status THEN IdleCheck
                     ELSE [IdleCheck EXCEPT !.at = "autoSaving",
                                            !.entity = [doc EXCEPT !.status = status]]]
    /\ UNCHANGED <<doc, entries, request, events, podVars, history>>

(* This save is not awaited.                                               *)
SaveStatus(c) ==
    /\ check[c].at = "autoSaving"
    /\ Save(c, check[c].entity)
    /\ check' = [check EXCEPT ![c] = IdleCheck]
    /\ UNCHANGED <<entries, request, events, podVars, announced>>

Check(c) ==
    \/ ReadSamples(c) \/ Determine(c) \/ SaveHealth(c) \/ SaveHealthFails(c)
    \/ DetermineStatus(c) \/ SaveStatus(c) \/ CheckFails(c)

----------------------------------------------------------------------------
(* Requests.                                                               *)

Finish(r) == request' = [request EXCEPT ![r] = [IdleRequest EXCEPT !.at = "done"]]

(* Mutant: the health of before is kept.                                   *)
SetEnabledOnly(enabled) ==
    /\ doc' = [doc EXCEPT !.enabled = enabled]
    /\ lost' = (lost /\ Saving # {})
    /\ UNCHANGED stale

(* enable and disable of the repository, of a document read again: health  *)
(* starts over.                                                            *)
SetEnabled(enabled) ==
    /\ doc' = [doc EXCEPT !.enabled = enabled, !.health = "n/a"]
    /\ stale' = IF doc.health = "n/a" THEN stale ELSE Holders
    /\ lost' = (lost /\ Saving # {})

(* PATCH enable and disable send no event.                                 *)
SwitchQuietly(r) ==
    /\ request[r] = IdleRequest
    /\ \E enabled \in BOOLEAN : SetEnabled(enabled)
    /\ Finish(r)
    /\ UNCHANGED <<entries, check, events, podVars, announced>>

(* PATCH toggle sends the event of what it is going to do, which may get   *)
(* lost.                                                                   *)
Toggle(r) ==
    /\ request[r] = IdleRequest
    /\ request' = [request EXCEPT ![r].at = IF doc.enabled THEN "disabling" ELSE "enabling"]
    /\ events' \in {events, events \cup {<<r, IF doc.enabled THEN "stop" ELSE "start">>}}
    /\ UNCHANGED <<doc, entries, check, podVars, history>>

Switch(r) ==
    /\ request[r].at \in {"enabling", "disabling"}
    /\ SetEnabled(request[r].at = "enabling")
    /\ Finish(r)
    /\ UNCHANGED <<entries, check, events, podVars, announced>>

(* PATCH status: the entity is read, and saved with the user's status.     *)
ReadForStatus(r) ==
    /\ request[r] = IdleRequest
    /\ request' = [request EXCEPT ![r] = [at |-> "saving", entity |-> doc]]
    /\ UNCHANGED <<doc, entries, check, events, podVars, history>>

SetStatus(r) ==
    /\ request[r].at = "saving"
    /\ \E status \in Status : Save(r, [request[r].entity EXCEPT !.status = status])
    /\ Finish(r)
    /\ UNCHANGED <<entries, check, events, podVars, announced>>

(* The store fails, or the pod of the request dies.                        *)
RequestFails(r) ==
    /\ request[r].at \in {"enabling", "disabling", "saving"}
    /\ Finish(r)
    /\ stale' = stale \ {r}
    /\ UNCHANGED <<doc, entries, check, events, podVars, announced, lost>>

Request(r) ==
    \/ SwitchQuietly(r) \/ Toggle(r) \/ Switch(r) \/ ReadForStatus(r) \/ SetStatus(r)
    \/ RequestFails(r)

----------------------------------------------------------------------------
(* The cache of the pod that runs the checks.                              *)

(* The queue is told done() at once, whatever comes of the event.          *)
TakeStarted(r) ==
    /\ pod = "running" /\ <<r, "start">> \in events
    /\ events' = events \ {<<r, "start">>}
    /\ starting' = starting \cup {r}
    /\ UNCHANGED <<doc, entries, check, request, pod, found, scheduled, crashes, history>>

(* The application is found, and its check scheduled unless it is.         *)
StartChecks(r) ==
    /\ r \in starting
    /\ starting' = starting \ {r}
    /\ scheduled' = TRUE
    /\ UNCHANGED <<doc, entries, check, request, events, pod, found, crashes, history>>

TakeStopped(r) ==
    /\ pod = "running" /\ <<r, "stop">> \in events
    /\ events' = events \ {<<r, "stop">>}
    /\ scheduled' = FALSE
    /\ UNCHANGED <<doc, entries, check, request, starting, pod, found, crashes, history>>

(* findEnabledApps, at the start of the pod and every five minutes.        *)
FindEnabledApps ==
    /\ pod \in {"starting", "running"} /\ found = "nothing"
    /\ found' = IF doc.enabled THEN "enabled" ELSE "disabled"
    /\ UNCHANGED <<doc, entries, check, request, events, starting, pod, scheduled, crashes,
                   history>>

(* Mutant: checks that are no longer enabled stay in the cache.            *)
CachedAdding == scheduled \/ found = "enabled"

(* What is enabled is scheduled anew, what is not is cancelled.            *)
Cached == found = "enabled"

(* loadHealthChecks, which then sets up events and reloads; reloadCache.   *)
LoadCache ==
    /\ found # "nothing"
    /\ found' = "nothing"
    /\ scheduled' = Cached
    /\ pod' = "running"
    /\ UNCHANGED <<doc, entries, check, request, events, starting, crashes, history>>

(* The search fails.  At the start that is the end of it: neither reloads  *)
(* nor events are ever set up, and the pod stays.                          *)
LoadFails ==
    /\ pod # "failed"
    /\ found' = "nothing"
    /\ pod' = IF pod = "starting" THEN "failed" ELSE pod
    /\ UNCHANGED <<doc, entries, check, request, events, starting, scheduled, crashes, history>>

(* The pod dies, also when the application of an event cannot be looked up *)
(* and nothing catches that.  Announcements under way are not saved.       *)
PodDies ==
    /\ crashes < MaxCrashes
    /\ crashes' = crashes + 1
    /\ pod' = "starting" /\ found' = "nothing" /\ scheduled' = FALSE
    /\ starting' = {}
    /\ check' = [c \in Checks |-> IdleCheck]
    /\ stale' = stale \ Checks
    /\ lost' = (lost \/ Saving # {})
    /\ UNCHANGED <<doc, entries, request, events, announced>>

Control == \E r \in Requests : TakeStarted(r) \/ StartChecks(r) \/ TakeStopped(r)

Next ==
    \/ \E c \in Checks : Ping(c) \/ Check(c)
    \/ \E r \in Requests : Request(r)
    \/ Control \/ FindEnabledApps \/ LoadCache \/ LoadFails \/ PodDies

Spec == Init /\ [][Next]_vars

(* The queue delivers, what is awaited comes back, and not every reload    *)
(* fails.                                                                  *)
FairSpec ==
    /\ Spec
    /\ WF_vars(Control) /\ WF_vars(FindEnabledApps) /\ SF_vars(LoadCache)

----------------------------------------------------------------------------
(* Properties.                                                             *)

(* Subscribers are told of every change of health (docs/tutorials/status-  *)
(* service/notifications.md): when no change is being saved, the health on *)
(* record of an enabled application is the one announced last, unless a    *)
(* save failed or undid another since it was last started or stopped.      *)
HealthIsAnnounced ==
    doc.enabled /\ ~lost /\ Saving = {} =>
        doc.health \in {"n/a", announced}

(* An application that stays enabled is in the end checked for good, and   *)
(* one that stays disabled no longer, however events were lost, reordered  *)
(* or overtaken by a reload, in a pod that could load its checks.          *)
CacheFollowsStatus ==
    /\ <>[](doc.enabled /\ pod = "running") => <>[]scheduled
    /\ <>[](~doc.enabled) => <>[](~scheduled)

----------------------------------------------------------------------------
(* The inductive invariant behind HealthIsAnnounced.                       *)

(* The entity that h is going to save.                                     *)
Held(h) == IF h \in Checks THEN check[h].entity ELSE request[h].entity

(* An entity that is not stale has the health on record, or the one that   *)
(* is to replace it: from a health that was known, the one announced last. *)
EntitiesFresh ==
    \A h \in Holders \ stale :
        IF h \in Saving
        THEN /\ Held(h).health # doc.health
             /\ doc.health # "n/a" => Held(h).health = announced
        ELSE Held(h).health = doc.health

(* Until a health is announced, no enabled application has one.            *)
NothingAnnounced ==
    announced = "nothing" =>
        /\ Saving = {}
        /\ \A d \in {doc} \cup {Held(h) : h \in Holders} : d.enabled => d.health = "n/a"

(* The health announced last is on record, or about to be saved; and about *)
(* to be saved, without being stale, if another is.                        *)
AnnouncedIsComing ==
    announced # "nothing" /\ ~lost =>
        /\ doc.health \notin {"n/a", announced} =>
               \E c \in Saving : Held(c).health = announced
        /\ (\E c \in Saving \ stale : Held(c).health # announced) =>
               \E c \in Saving \ stale : Held(c).health = announced

(* Events are taken by a pod that has set them up.                         *)
StartingRuns == starting # {} => pod = "running"

IInv == TypeOK /\ StartingRuns /\ EntitiesFresh /\ NothingAnnounced /\ AnnouncedIsComing
=============================================================================
