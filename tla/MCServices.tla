----------------------------- MODULE MCServices -----------------------------
(***************************************************************************)
(* The runs over those parts of the two capstones that share no state, and  *)
(* over the token issuer of the lessons, which serves as they do.  An       *)
(* initial state picks the part that moves; the others keep their initial  *)
(* state, so a run is the disjoint union of the state spaces of its Parts, *)
(* and each property speaks of the states in which its part moves.         *)
(***************************************************************************)
EXTENDS SlidingWindow, SlugAllocation, CredentialGate, BookmarkTags, KeysetPages, SweepSchedule, KeyRotation, ServiceRun

CONSTANT Parts    \* the parts a run lets move

VARIABLE part     \* the one that moves

(* The redirect reads and the refresh tokens, on instances small enough    *)
(* for liveness; their safety has runs of its own.                         *)
VARIABLES rNow, rRows, rLastId, rExpiresAt, rCreatedAt, rDeletedAt, rCache, rFlights, rReqs, rPending,
          tNow, tToken, tLastId, tReq, tPresented, tLoggedOut, tDead

Redirect == INSTANCE RedirectCache WITH
    Slugs <- {"s1"}, Requests <- {"r1", "r2"}, Procs <- {"p1"}, Lifetimes <- {0}, MaxId <- 1, MaxTime <- 1,
    TTL <- 1, NegativeTTL <- 1, LoadTimeout <- 0, PutTimeout <- 0,
    now <- rNow, rows <- rRows, lastId <- rLastId, expiresAt <- rExpiresAt, createdAt <- rCreatedAt,
    deletedAt <- rDeletedAt, cache <- rCache, flights <- rFlights, reqs <- rReqs, pending <- rPending

Refresh == INSTANCE RefreshTokens WITH
    Requests <- {"r1", "r2"}, PoolSize <- 3, TTL <- 1, DBFails <- TRUE, MaxId <- 2, MaxTime <- 1, Stride <- 1,
    now <- tNow, token <- tToken, lastId <- tLastId, req <- tReq, presented <- tPresented,
    loggedOut <- tLoggedOut, dead <- tDead

redirectVars == <<rNow, rRows, rLastId, rExpiresAt, rCreatedAt, rDeletedAt, rCache, rFlights, rReqs, rPending>>
refreshVars  == <<tNow, tToken, tLastId, tReq, tPresented, tLoggedOut, tDead>>

allVars == <<part, vars, slugVars, gateVars, tagVars, pageVars, sweepVars, keyVars, redirectVars, refreshVars, runVars>>

ServicesInit ==
    /\ part \in Parts
    /\ Init /\ SlugInit /\ GateInit /\ TagInit /\ PageInit /\ SweepInit /\ KeyInit /\ RunInit /\ Redirect!Init /\ Refresh!Init
    /\ part # "run"      => program = "worker"
    /\ part # "redirect" => rCache = [s \in {"s1"} |-> Redirect!Absent]

ServicesNext ==
    /\ UNCHANGED part
    /\ \/ /\ part = "window" /\ Next
          /\ UNCHANGED <<slugVars, gateVars, tagVars, pageVars, sweepVars, keyVars, redirectVars, refreshVars, runVars>>
       \/ /\ part = "slug" /\ SlugNext
          /\ UNCHANGED <<vars, gateVars, tagVars, pageVars, sweepVars, keyVars, redirectVars, refreshVars, runVars>>
       \/ /\ part = "gate" /\ GateNext
          /\ UNCHANGED <<vars, slugVars, tagVars, pageVars, sweepVars, keyVars, redirectVars, refreshVars, runVars>>
       \/ /\ part = "tags" /\ TagNext
          /\ UNCHANGED <<vars, slugVars, gateVars, pageVars, sweepVars, keyVars, redirectVars, refreshVars, runVars>>
       \/ /\ part = "pages" /\ PageNext
          /\ UNCHANGED <<vars, slugVars, gateVars, tagVars, sweepVars, keyVars, redirectVars, refreshVars, runVars>>
       \/ /\ part = "sweep" /\ SweepNext
          /\ UNCHANGED <<vars, slugVars, gateVars, tagVars, pageVars, keyVars, redirectVars, refreshVars, runVars>>
       \/ /\ part = "redirect" /\ Redirect!Next
          /\ UNCHANGED <<vars, slugVars, gateVars, tagVars, pageVars, sweepVars, keyVars, refreshVars, runVars>>
       \/ /\ part = "refresh" /\ Refresh!Next
          /\ UNCHANGED <<vars, slugVars, gateVars, tagVars, pageVars, sweepVars, keyVars, redirectVars, runVars>>
       \/ /\ part = "keys" /\ KeyNext
          /\ UNCHANGED <<vars, slugVars, gateVars, tagVars, pageVars, sweepVars, redirectVars, refreshVars, runVars>>
       \/ /\ part = "run" /\ RunNext
          /\ UNCHANGED <<vars, slugVars, gateVars, tagVars, pageVars, sweepVars, keyVars, redirectVars, refreshVars>>

(* Every step a request takes on its own; the schedulers and servers of the *)
(* sweep run, and a replica that stopped is started again.                  *)
ServicesFairness ==
    /\ SlugFairness /\ TagFairness
    /\ WF_sweepVars(part = "sweep" /\ WorkerStep) /\ WF_sweepVars(part = "sweep" /\ PassHour)
    /\ \A r \in Replicas : WF_sweepVars(part = "sweep" /\ Fire(r)) /\ WF_sweepVars(part = "sweep" /\ StartReplica(r))
    /\ WF_runVars(part = "run" /\ RunStep)
    /\ Redirect!Fairness /\ Refresh!Fairness

ServicesSpec == ServicesInit /\ [][ServicesNext]_allVars
ServicesFairSpec == ServicesSpec /\ ServicesFairness

(* Every reader that waits for a fetch is answered (RedirectCache).        *)
EveryRedirectAnswered == Redirect!EveryRequestAnswered
(* Who loses the race for a token is answered (RefreshTokens).             *)
LoserAlwaysAnswered == Refresh!LoserIsAnswered

(* Whoever waits for a fetch, a row, the unique index or a connection is    *)
(* answered: redirects, refreshes, creates and saves.                       *)
RequestsAnswered == EveryCreateAnswered /\ EverySaveAnswered /\ EveryRedirectAnswered /\ LoserAlwaysAnswered

(* The parts keep their types.                                             *)
ServicesTypeOK == TypeOK /\ SlugTypeOK /\ GateTypeOK /\ TagTypeOK /\ PageTypeOK /\ SweepTypeOK

-----------------------------------------------------------------------------
(* Constants of the runs. *)
MCWishes == {[user |-> "u1", url |-> "x", tags |-> <<"a", "b">>, category |-> "g"],
             [user |-> "u1", url |-> "x", tags |-> <<"b", "a", "b">>, category |-> None],
             [user |-> "u2", url |-> "x", tags |-> <<"a">>, category |-> "g"]}
MCOwnerOf == [c \in {"g"} |-> "u1"]
=============================================================================
