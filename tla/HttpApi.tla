------------------------------- MODULE HttpApi -------------------------------
(***************************************************************************)
(* The path of a request through the HTTP interface: the layers of         *)
(* create_router_inner around the handlers, the governor of the route's    *)
(* group, the permission check, and for POST /workflows/{id}/start the     *)
(* limiter of starts of one workflow, whose sweep, look-up and insertion   *)
(* are three steps on a shared map.  Requests run concurrently.  The caller is the   *)
(* identity "anonymous", which a deployment without trust_x_user_id has    *)
(* for everyone, so one governor state per group is shared by all.         *)
(***************************************************************************)
EXTENDS Naturals, FiniteSets, Sequences

CONSTANTS HttpRequests, Startable,  \* connections, each with a request at a time; workflow ids
          MaxArrivals,
          START_RATE_LIMIT_WINDOW,  \* 2 s in the code, here in ticks
          EVICTION_THRESHOLD,       \* 10 000 in the code
          Burst, MaxTime, NoTime

ASSUME HttpAssumption ==
    START_RATE_LIMIT_WINDOW \in Nat /\ NoTime \notin Nat /\ NoTime \notin Startable

VARIABLES time,
          arrivals,    \* requests so far
          request,     \* request -> [step, path, token, workflow, now]
          reply,       \* request -> [status, body] as it stands on its way out
          allowance,   \* group -> requests its governor still admits
          last_start,  \* workflow -> time of its last admitted start, or NoTime
          starts,      \* admitted starts, as [workflow, at], at being the check's clock
          racing       \* history: workflows of which two checks have overlapped, or whose
                       \* entry was swept away during a check

httpVars == <<time, arrivals, request, reply, allowance, last_start, starts, racing>>

\* A public path, a path without a route, a route of the read group, and a start
\* whose body is within or above the limit.
HttpPaths == {"public", "unknown", "read", "start", "start_oversized"}
GroupOf(path) == IF path \in {"start", "start_oversized"} THEN "write" ELSE "read"

HttpInit ==
    /\ time = 0 /\ arrivals = 0 /\ starts = <<>> /\ racing = {}
    /\ request = [r \in HttpRequests |-> [step |-> "none"]]
    /\ reply = [r \in HttpRequests |-> [status |-> 0, body |-> "none"]]
    /\ allowance = [g \in {"read", "write"} |-> Burst]
    /\ last_start = [w \in Startable |-> NoTime]

\* The governors give back one request per interval, up to the burst.
TimePasses ==
    /\ time < MaxTime /\ time' = time + 1
    /\ allowance' = [g \in DOMAIN allowance |-> IF allowance[g] < Burst THEN allowance[g] + 1 ELSE Burst]
    /\ UNCHANGED <<arrivals, request, reply, last_start, starts, racing>>

Goes(r, step) == request' = [request EXCEPT ![r].step = step] /\ UNCHANGED reply

Answers(r, status, body) ==
    /\ reply' = [reply EXCEPT ![r] = [status |-> status, body |-> body]]
    /\ request' = [request EXCEPT ![r].step = "out"]

\* External: a caller.
Arrive(r, path, token, w) ==
    /\ request[r].step = "none" /\ (w = NoTime <=> path # "start")
    /\ request' = [request EXCEPT ![r] =
           [step |-> "auth", path |-> path, token |-> token, workflow |-> w, now |-> NoTime]]
    /\ arrivals < MaxArrivals /\ arrivals' = arrivals + 1
    /\ reply' = [reply EXCEPT ![r] = [status |-> 0, body |-> "none"]]
    /\ UNCHANGED <<time, allowance, last_start, starts, racing>>

auth_middleware(r) ==
    /\ request[r].step = "auth"
    /\ IF request[r].path = "public" \/ request[r].token THEN Goes(r, "route")
       ELSE Answers(r, 401, "envelope")
    /\ UNCHANGED <<time, arrivals, allowance, last_start, starts, racing>>

\* No route: a bare 404.  Otherwise the group's governor, which refuses in plain
\* text, and then the extractors, where a body above the limit ends.
RouteRequest(r) ==
    LET path == request[r].path  g == GroupOf(path) IN
    /\ request[r].step = "route"
    /\ IF path = "unknown" \/ allowance[g] = 0 THEN UNCHANGED allowance
       ELSE allowance' = [allowance EXCEPT ![g] = @ - 1]
    /\ CASE path = "unknown" -> Answers(r, 404, "bare")
         [] path # "unknown" /\ allowance[g] = 0 -> Answers(r, 429, "text")
         [] path = "start_oversized" /\ allowance[g] > 0 -> Answers(r, 413, "text")
         [] OTHER -> Goes(r, "handler")
    /\ UNCHANGED <<time, arrivals, last_start, starts, racing>>

\* The other handlers answer at once, with a result or an error of write_error.
HandleOther(r, status) ==
    /\ request[r].step = "handler" /\ request[r].path # "start"
    /\ Answers(r, status, IF status = 200 THEN "data" ELSE "envelope")
    /\ UNCHANGED <<time, arrivals, allowance, last_start, starts, racing>>

-----------------------------------------------------------------------------
(* start_workflow and StartRateLimiter::check *)

HttpForbidden(r) ==
    /\ request[r].step = "handler" /\ request[r].path = "start"
    /\ Answers(r, 403, "envelope") /\ UNCHANGED <<time, arrivals, allowance, last_start, starts, racing>>

BeingChecked(w) ==
    {r \in HttpRequests : request[r].step \in {"sweep", "look", "insert"} /\ request[r].workflow = w}

\* The clock is read first; the map may be looked at later.
CheckBegins(r) ==
    LET w == request[r].workflow IN
    /\ request[r].step = "handler" /\ request[r].path = "start"
    /\ request' = [request EXCEPT ![r].step = "sweep", ![r].now = time]
    /\ racing' = IF BeingChecked(w) = {} THEN racing ELSE racing \cup {w}
    /\ UNCHANGED <<time, arrivals, reply, allowance, last_start, starts>>

RecentStart(last, now, window) == last # NoTime /\ (last > now \/ now - last < window)

RetainedNone(now) == [w \in Startable |-> NoTime]

\* Above the threshold, entries older than two windows are dropped.
Retained(now) ==
    IF Cardinality({w \in Startable : last_start[w] # NoTime}) <= EVICTION_THRESHOLD THEN last_start
    ELSE [w \in Startable |-> IF RecentStart(last_start[w], now, 2 * START_RATE_LIMIT_WINDOW)
                              THEN last_start[w] ELSE NoTime]

\* Whoever comes while another one sweeps goes on without.
SweepStarts(r) ==
    /\ request[r].step = "sweep"
    /\ \/ last_start' = Retained(request[r].now)
       \/ UNCHANGED last_start /\ \E o \in HttpRequests \ {r} : request[o].step = "sweep"
    /\ racing' = racing \cup {w \in Startable : last_start[w] # last_start'[w] /\ BeingChecked(w) \ {r} # {}}
    /\ Goes(r, "look") /\ UNCHANGED <<time, arrivals, allowance, starts>>

LookUpStart(r) ==
    LET q == request[r] IN
    /\ q.step = "look"
    /\ IF RecentStart(last_start[q.workflow], q.now, START_RATE_LIMIT_WINDOW) THEN Answers(r, 429, "error_only")
       ELSE Goes(r, "insert")
    /\ UNCHANGED <<time, arrivals, allowance, last_start, starts, racing>>

\* The insertion, whether or not the engine will start anything.
InsertStart(r) ==
    LET q == request[r] IN
    /\ q.step = "insert"
    /\ last_start' = [last_start EXCEPT ![q.workflow] = q.now]
    /\ starts' = Append(starts, [workflow |-> q.workflow, at |-> q.now])
    /\ Goes(r, "engine") /\ UNCHANGED <<time, arrivals, allowance, racing>>

\* The engine's answer, as the handler maps it.  BudgetExceeded is not among the
\* cases it names and becomes a 500, although error_to_status says 429.
EngineErrors == [ok |-> 200, NotFound |-> 404, HttpForbidden |-> 403, validation |-> 400,
                 BudgetExceeded |-> 500]
EngineAnswers(r, outcome) ==
    /\ request[r].step = "engine"
    /\ Answers(r, EngineErrors[outcome], IF outcome = "ok" THEN "data" ELSE "envelope")
    /\ UNCHANGED <<time, arrivals, allowance, last_start, starts, racing>>

-----------------------------------------------------------------------------
(* error_envelope_middleware, outside of everything above *)

is_error_envelope(body) == body = "envelope"

LeaveHttp(r) ==
    /\ request[r].step = "out"
    /\ reply' = [reply EXCEPT ![r].body =
           IF reply[r].status < 400 \/ is_error_envelope(@) THEN @ ELSE "envelope"]
    /\ request' = [request EXCEPT ![r] = [step |-> "none"]]
    /\ UNCHANGED <<time, arrivals, allowance, last_start, starts, racing>>

HttpNext ==
    \/ TimePasses
    \/ \E r \in HttpRequests :
        \/ \E path \in HttpPaths, token \in BOOLEAN, w \in Startable \cup {NoTime} : Arrive(r, path, token, w)
        \/ auth_middleware(r) \/ RouteRequest(r) \/ HttpForbidden(r)
        \/ \E status \in {200, 404} : HandleOther(r, status)
        \/ CheckBegins(r) \/ SweepStarts(r) \/ LookUpStart(r) \/ InsertStart(r)
        \/ \E outcome \in DOMAIN EngineErrors : EngineAnswers(r, outcome)
        \/ LeaveHttp(r)

HttpSpec == HttpInit /\ [][HttpNext]_httpVars

-----------------------------------------------------------------------------
(* Properties *)

\* Two starts of a workflow are at least a window apart, also across the sweeping
\* away of old entries, as long as no two checks of that workflow overlapped and no
\* sweep by another request fell into one.  When they do (the time was read before,
\* and get and insert are separate) two starts may be admitted at once.
StartsSpaced ==
    \A i, j \in DOMAIN starts :
        i < j /\ starts[i].workflow = starts[j].workflow /\ starts[i].workflow \notin racing =>
            starts[j].at - starts[i].at >= START_RATE_LIMIT_WINDOW

=============================================================================
