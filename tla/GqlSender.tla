----------------------------- MODULE GqlSender -----------------------------
(***************************************************************************)
(* How a GraphQL connection chooses the endpoint of its queries: all are   *)
(* asked for their latency, the first that is fast enough is taken, else   *)
(* the fastest when all have answered; what is taken serves for a while.   *)
(***************************************************************************)
EXTENDS Naturals, FiniteSets

CONSTANTS
    Endpoints, Queries,
    Latencies,      \* what an endpoint may answer; 0 is no answer
    MaxLatency,
    Retries,        \* 5 in the code
    NoEndpoint      \* undefined

(* A single endpoint is used without measuring it. *)
ASSUME GqlAssumption ==
    /\ \A e \in Endpoints : Endpoints # {e}
    /\ 0 \in Latencies /\ Latencies \subseteq Nat
    /\ NoEndpoint \notin Endpoints /\ Retries \in Nat \ {0}

VARIABLES
    currentEndpoint,
    fresh,          \* it is not yet time to detect the latency again
    resolution,     \* _resolutionPromise: "none", "pending" or "rejected"
    latency,        \* what the endpoints asked in this try have answered
    asked,          \* those yet to answer
    fastest,        \* lastLatency
    retry,
    query,          \* where each query is
    measured        \* history: the answers of the try that chose the endpoint

gqlVars == <<currentEndpoint, fresh, resolution, latency, asked, fastest, retry, query, measured>>

Unmeasured == [e \in Endpoints |-> 0]
Detection == <<latency, asked, fastest, retry>>

GqlInit ==
    /\ currentEndpoint = NoEndpoint /\ fresh = FALSE
    /\ resolution = "none" /\ latency = Unmeasured /\ asked = {} /\ fastest = NoEndpoint
    /\ retry = 0
    /\ query = [q \in Queries |-> "idle"] /\ measured = Unmeasured

Move(q, place) == query' = [query EXCEPT ![q] = place]

SendDirectly(q) ==
    /\ query[q] = "idle" /\ currentEndpoint # NoEndpoint /\ fresh
    /\ Move(q, "fetching")
    /\ UNCHANGED <<currentEndpoint, fresh, resolution, Detection, measured>>

(* Already resolving.  A resolution that was rejected is never deleted, and *)
(* every later query waits for it and fails.                                *)
JoinResolution(q) ==
    /\ query[q] = "idle" /\ ~(currentEndpoint # NoEndpoint /\ fresh) /\ resolution # "none"
    /\ Move(q, IF resolution = "rejected" THEN "failed" ELSE "waiting")
    /\ UNCHANGED <<currentEndpoint, fresh, resolution, Detection, measured>>

AskAll == asked' = Endpoints /\ latency' = Unmeasured /\ fastest' = NoEndpoint

StartResolution(q) ==
    /\ query[q] = "idle" /\ ~(currentEndpoint # NoEndpoint /\ fresh) /\ resolution = "none"
    /\ currentEndpoint' = NoEndpoint /\ resolution' = "pending"
    /\ AskAll /\ retry' = 0
    /\ Move(q, "waiting")
    /\ UNCHANGED <<fresh, measured>>

FastEnough(ms) == ms > 0 /\ ms <= MaxLatency

(* Mutant: the endpoint that answered last is kept, however slow. *)
LatestOf(e, ms) == e

FasterOf(e, ms) ==
    IF fastest = NoEndpoint \/ latency[fastest] = 0 THEN e
    ELSE IF ms # 0 /\ ms < latency[fastest] THEN e ELSE fastest

Choose(e) ==
    /\ currentEndpoint' = e /\ fresh' = TRUE /\ resolution' = "none"
    /\ measured' = latency'
    /\ query' = [q \in Queries |-> IF query[q] = "waiting" THEN "fetching" ELSE query[q]]
    /\ asked' = {} /\ UNCHANGED retry

(* All have answered and none with a latency: ask again, five times. *)
TryAgain ==
    /\ retry' = retry + 1
    /\ IF retry + 1 < Retries
         THEN asked' = Endpoints /\ UNCHANGED <<query, resolution>>
         ELSE /\ asked' = {} /\ resolution' = "rejected"
              /\ query' = [q \in Queries |-> IF query[q] = "waiting" THEN "failed" ELSE query[q]]
    /\ UNCHANGED <<currentEndpoint, fresh, measured>>

(* checkLatency() of one endpoint ends, with a latency or without. *)
EndpointAnswers(e, ms) ==
    /\ e \in asked
    /\ latency' = [latency EXCEPT ![e] = ms]
    /\ IF FastEnough(ms)
         THEN Choose(e) /\ UNCHANGED fastest
         ELSE IF asked # {e}
         THEN /\ asked' = asked \ {e} /\ fastest' = FasterOf(e, ms)
              /\ UNCHANGED <<currentEndpoint, fresh, resolution, retry, query, measured>>
         ELSE IF latency'[FasterOf(e, ms)] = 0
         THEN TryAgain /\ fastest' = NoEndpoint
         ELSE Choose(FasterOf(e, ms)) /\ UNCHANGED fastest

(* It is time to detect the latency again. *)
GoStale == fresh /\ fresh' = FALSE
           /\ UNCHANGED <<currentEndpoint, resolution, Detection, query, measured>>

EndQuery(q) ==
    /\ query[q] = "fetching"
    /\ Move(q, "idle")
    /\ UNCHANGED <<currentEndpoint, fresh, resolution, Detection, measured>>

GqlNext ==
    \/ GoStale
    \/ \E q \in Queries : SendDirectly(q) \/ JoinResolution(q) \/ StartResolution(q) \/ EndQuery(q)
    \/ \E e \in Endpoints, ms \in Latencies : EndpointAnswers(e, ms)

GqlSpec == GqlInit /\ [][GqlNext]_gqlVars

(* The endpoint in use answered in the try that chose it, fast enough or as *)
(* fast as any, however the answers came.                                   *)
EndpointIsFastest ==
    currentEndpoint # NoEndpoint =>
        \/ FastEnough(measured[currentEndpoint])
        \/ /\ measured[currentEndpoint] > 0
           /\ \A e \in Endpoints : measured[e] = 0 \/ measured[currentEndpoint] <= measured[e]
=============================================================================
