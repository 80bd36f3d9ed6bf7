# A TLA+ model of the AWS RDS ODBC library

The repository holds the cluster-aware parts of an ODBC driver for Amazon RDS and
Aurora: a topology monitor and failover for Aurora clusters, a monitor of the
transaction routers of Aurora limitless clusters, host selection, and IAM and secrets
manager authentication. Most of it is threads that share connection handles, caches
and counters, and ODBC calls that may fail at any moment: unit tests drive one such
sequence at a time with mocks, TLC drives all of them.

This directory holds models of these parts, written from the source under `src/src`
(paths below are relative to it), the configurations TLC checks them with, and proofs
checked by TLAPS. `PROJECT.json` maps every definition to the lines it stands for and
lists components, runs, mutants, hazards, findings and theorems.

## The system

| part | state | operations | modelled in |
|---|---|---|---|
| topology monitor, `failover/cluster_topology_monitor.*` | connection members (main, writer, reader) with mutexes, stop and request flags, node threads, ignore window, shared topology cache | `Run`, node thread loop, `ForceRefresh`, destructor | `ClusterTopologyMonitor` |
| failover service tracker, `failover/failover_service.*` | map of trackers: service, reference count, failovers in progress | `StartFailoverService`, `StopFailoverService`, `FailoverConnection` | `FailoverServiceTracker` over `RefCountedService` |
| failover service, same files | `curr_host_`, `conn_info_`, the caller's handle | `Failover`: reader and writer procedures | `FailoverService` |
| limitless monitor, `limitless/*` | map of services, reference count, router list, polling thread and its handles | `GetLimitlessInstance`, `StopLimitlessMonitorService`, `Run` | `LimitlessMonitorService` over `RefCountedService` |
| round robin selector, `host_selector/round_robin_*` | cache of cluster infos: last host, counter, weights | `GetHost`, `SetRoundRobinWeight`, `ClearCache` | `RoundRobinHostSelector` over `SlidingCacheMap` |
| sliding cache, `util/sliding_cache_map.*` | entries with a sliding expiry | `Put`, `putIfAbsent`, `Get`, `Find`, `Size`, `Clear` | `SlidingCacheMap` |
| query helpers, `util/odbc_helper.*`, `failover/cluster_topology_query_helper.*`, `limitless/limitless_query_helper.*` | the handles and bound variables of a call | `GetWriterId`, `GetNodeId`, `QueryTopology`, `QueryForLimitlessRouters`, `CheckLimitlessCluster`, `CheckConnection`, `TestConnectionToServer` | `OdbcQuery` over `QueryPromise` |
| authentication, `authentication/*` | SDK reference count, two mutexes, token cache, the SDK objects of a call | `GenerateConnectAuthToken` (IAM, ADFS, OKTA), `GetCredentialsFromSecretsManager`, `GetCachedToken`, `UpdateCachedToken` | `Authentication` over `AwsSdk` |
| logger, `util/logger_wrapper.*`, `util/rds_logger_service.*` | a user count, a flag, the settings of glog | `Initialize`, `InitializeMinimal`, `Shutdown` | `Logger`, with authentication in `AuthenticatedClients` |
| random and highest weight selectors, `host_selector/*` | none | `GetHost` | in `FailoverService` and `LimitlessMonitorService` |
| dialects, host information, string utilities | constants, plain data, nothing | | the queries' answers in `OdbcQuery`; else not modelled |

How they interact: a client's `FailoverConnection` finds the tracker of its cluster,
and the failover asks the monitor of that service to refresh the topology
(`ForceRefresh`), reads the topology cache the monitor publishes to, and chooses hosts
with a selector. The monitor talks to its node threads through members and flags, and
to clients through the cache, a request flag and a condition variable. The limitless
service uses the round robin and the highest weight selector on the list its polling
thread publishes.

What is hard: the hand-over of connection handles between threads that can all free
them; two-step accesses (test and use, look up and count) with a lock released in
between; threads joined with mutexes held; failed connects and queries that look like
answers; entries that expire; clients that come and go in any order. The list, with
lines, is under "hazards" in `PROJECT.json`.

## The modules

**`ClusterTopologyMonitor`**. Four kinds of actors: the main thread (`mpc`), a node
thread per host (`npc`), callers of `ForceRefresh` (`cpc`), the destructor (`dpc`). A
control point names the place in the code; an action is one critical section, one
ODBC call or one unlocked access. Connection handles are identities with a state in
`conn` (free, allocated, connected to a host); `main_hdbc`, `node_writer_hdbc`,
`node_reader_hdbc` and `hdbc[n]` are the places that own them, which is what
`OneOwner` and `NoHandleLeak` are about. A topology is the set of hosts and the one
marked writer. Time is abstract: waits may end at any moment, and the end of the
ignore window is unset, ahead or behind. The environment fails over, drops
connections and expires the cache entry; connects and queries may fail. Each such
event counts against `MaxFaults`.
The code has three states from which the monitor does not recover, and which the
liveness properties name: `JoinDeadlock`, the finding of `MonitorJoinDeadlock`;
`HandOverLost`, where the connection that a node thread handed over dies before the
main thread has taken it, and no node thread is left; and `ReaderLost`, where the
reader connection all node threads share dies, which its owner does not replace, before
a topology has told the main thread to monitor the writer. `Stuck` is any of them.

**`FailoverServiceTracker`**. One cluster id, several threads; `Contains`,
`PutIfAbsent`, `Increment`, `Decrement` are separate actions because they are separate
critical sections, and `FailoverConnection` looks up, flags and uses the service in
three without the mutex. `Decrement` tests the count and the flag in one step and resets
the service in another, so that a failover may raise its flag between the two.
`liberties`, chosen initially from `Liberties`, says how the clients behave: whether
starts and stops overlap (`SerialCalls` if not), whether a service that ended is
started again (`Restart`), and whether a client fails over that has not started the
service (`AnyFailover`). What holds depends on it, so that the properties are stated in
layers: parts of `CountsAreRight` need nothing of the clients, others that they
call one at a time; `FailoverOnLiveService` needs in addition that they fail over only
what they have started, `HeldServiceLives` that an ended service is not started again,
and the refinement needs both (`Disciplined`).
**`RefCountedService`** is what it promises: the service is there while somebody has
started and not stopped it. The refinement maps `users` to the threads that hold the
service, under the discipline.

**`FailoverService`**. Several threads fail over with handles of their own and share
`curr_host_` and `conn_info_`. The reader procedure's loops over candidates, the
original writer, the four tests of the deadline and the writer procedure are all
there; the monitor is reduced to the cache it publishes and to `hung`: a main thread in
the `JoinDeadlock` keeps `hdbc_mutex_` for ever, and so the writer failover that asks it
to verify the writer (`ForceRefresh`). The selector depends on the
configured strategy: any remaining reader (`RANDOM`, `ROUND_ROBIN`), or one of those of
the highest weight. A topology's weight is the replica lag times a hundred plus the
load, so that the highest weight is that of the busiest reader, and an idle one may
have the weight zero, for which the round robin selector throws: `unweighted` are the
candidates without a weight, and `SelectorMayThrow` ends the failover.
**`FailoverPromise`** is what the caller of `FailoverConnection` sees: an answer that
says whether there is a connection, and the connection, of the role the mode asks for.
While a thread is in `Failover` its handle is the failover's own; the refinement maps
what is visible between calls, and lets the caller keep nothing from a failed one.

**`LimitlessMonitorService`**. One service id, several clients that call with or
without it (the second kind lets `NewService` find the id, and is refused when it is in
use), the polling thread with its environment and connection handle. Half-failed
`Open` leaves a service without a thread. `serial` is chosen initially: clients that
make their calls one at a time, or not; the refinement of `RefCountedService` is
claimed for the former.

**`RoundRobinHostSelector`**. `GetHost` is one action, as it holds its mutex
throughout: filter, cache entries, update of weights (with the early exits of invalid
strings, which leave partial updates), rotation. Infos are shared by several cache
entries and identified by a number. The history variable `log` holds, for each cluster,
the latest results of identical calls (`MaxLog` of them; it ends with a call that is
different, and with the entries that keep the state of the rotation), so that the
rotation is a state property: `WeightedRotation` compares each run of a host with its
weight and each change of host with the order of the names; the results of any whole
cycle are then as many for each host as its weight says.

**`SlidingCacheMap`**. Pure operators on a cache whose entries carry the time that is
left, used by the selector.

**`OdbcQuery`**. A call of any query helper, one action per call into the driver, each
of which may fail and then takes the program's error path. `held` are the handles the
call has allocated; some helpers free the statement themselves when they fail, others
leave it to the caller. Rows have a column that may be NULL, and `buffer` is the
variable bound to it, with what it held before. The weights of hosts are computed as
the code does. Calls do not interact, as each works on a connection nobody else uses
meanwhile; that the users keep to it is what the other modules show. **`QueryPromise`**
is what a caller relies on: an answer at once, the server's, or less of it after an
error.

**`AwsSdk`**. Who initialises and who shuts down the SDK is decided on an atomic
counter, outside the mutex that protects the two calls. **`Authentication`** extends it
with what a thread does while the SDK counts it: an action per exchange with an
identity provider, STS or the secrets manager, which may fail or give a page;
`clients[t]` are the objects of the SDK the thread owns at that point, `type[t]` is the
method the token is asked for with, and `failed[t]` remembers that an exchange failed,
or that the default chain of IAM found no credentials, which the code does not notice.
A page is what parsing makes of it: the sequence of characters that matter to the loop
of `EscapeHtmlEntity`, and the number of parameters of its form. `page[t]` is what is
left of the one the thread is at, and each turn of the loop is an action.
A token is the time it was signed at. The cache has one entry; a lookup and an update take three steps each (read the clock, begin and end the access), and
`raced` records that two accesses overlapped, which the code does not prevent: a lookup
may then return anything (`Torn`). **`Logger`** has one action per operation, as each
holds its mutex throughout. **`AuthenticatedClients`** composes both: threads log
around their calls for tokens, with or without output, in the order of the examples in
`docs/authentication`.

The `MC*` modules define the sets the configurations use. The `*Proofs` modules hold
the theorems. Definitions introduced by a comment "Mutant of ..." are deliberate
errors; `PROJECT.json` names for each property one that TLC must refute.

## The runs

Passing runs (violations of the properties would be errors of the code):

| run | instance | what it shows |
|---|---|---|
| `MonitorSafety` | 2 hosts, 5 handles, one caller verifying, one fault out of failover, drop, query, partial topology | handles have one owner and do not leak; a connection taken for the writer's is; a query outside the mutex meets no handle that was given to another connection; hand-over of the writer connection stops the node threads; the unlocked reader connection is safe |
| `MonitorRecovery` | 2 hosts, 5 handles, no callers, any two faults of all kinds (failover, drop, connect, query, partial topology, expiry), a cache that starts empty or stale; fair | panic mode ends unless one of two connections is lost (`HandOverLost`, `ReaderLost`); the writer is published in the end, unless the monitor is `Stuck`; joins end and the ignore window closes, unless in the `JoinDeadlock` |
| `MonitorService` | a caller that waits or not, one fault out of failover, drop, connect, query, a cache that starts empty, the destructor at any time; fair | requests are satisfied unless the monitor is `Stuck` or destroyed, destruction ends unless it meets the `JoinDeadlock` |
| `Tracker` | 4 threads under each of the 8 disciplines, failovers at any time | for all clients: failovers are counted, no reference is left over; for those that call one at a time: every start is counted, the service lives as long as it is held if an ended one is not started again, and a failover has it from the look-up to the end if only holders fail over; for disciplined ones: it ends when unused, and implements `RefCountedService` |
| `Failover` | 2 hosts, 2 threads, 3 modes and 3 strategies, one fault of any kind; fair | it implements `FailoverPromise`: a client gets a connection exactly when the result says so, never the writer's from a strict reader failover, a reader's from a writer failover only if the role query failed; giving up only late, or by the round robin selector; every failover returns but for one that asks a monitor in the `JoinDeadlock` to verify the writer |
| `Limitless` | 2 clients, 2 routers, 2 attempts, two faults, clients with and without discipline; fair | nothing is left of a stopped service; routers arrive and are not forgotten; a search tries all; refinement of `RefCountedService` |
| `RoundRobin` | clusters of 2 and 1 hosts, time to live 2, calls with several valid (1:3, 1:1) and invalid weights | types with the weights of a half parsed string, turns as long as the weights and in the order of the names, expired entries are purged |
| `OdbcQuery` | result sets of up to 3 rows, loads of 0, 4, 97 and 130 percent and NULL, failures of any driver calls; fair | driver calls get live handles, nothing is left allocated, router weights are valid, an answer is the server's or less; every call returns |
| `Authentication` | 2 threads, 3 points in time, tokens that last 1, four types of which one is invalid, with and without fetches of credentials, and three pages: one that escaping gets through, one it does not, one with an empty form; fair | SDK up when used by tokens alone and down when unused, its objects destroyed before; the log follows its users; no token after a failed exchange of ADFS or OKTA, no expired token from the cache; every call returns that does not meet one of the latter two kinds of page |

Runs that TLC ends with a counterexample, one property each, stating a comment or a
document that the code does not keep: `MonitorJoinDeadlock` (node threads joined with
a mutex they wait for), `TrackerRestart` (a service that was stopped is started again:
success without a service), `LimitlessDoubleFree` (a handle that a failed reconnect has
freed is freed again by the next round). They are listed under "findings".

Bounds. Two hosts are the smallest cluster with a writer and a reader and with a
failover; a node thread per host gives all pairs of racing threads. Five handles are
one more than can be owned at once (two hosts, three members), so that allocation
never fails for the bound. One or two faults suffice for a fault in each step of a
recovery, and two for one that interrupts the recovery from another; what more faults
together could lead to is not checked. Two clients exhibit every race
between two critical sections, four tracker threads those of two starts against a stop
and a failover. A time to live of 2 distinguishes fresh, touched and expired entries.
Three rows are enough for a NULL after a row that set the variable, and for an error
after part of a list; 4 and 97 percent are just inside the limits of the weights, 130
outside. Two threads are all a decision on a counter of the SDK or the logger can be
about (one that comes, one that goes), and all an overlap in the token cache takes; with
three points in time a token is looked up before, at and after its end.
The theorems below remove the bounds for most safety properties. `MonitorService` starts
with an empty cache and has no partial topologies, for a reason: a topology of readers
only, left by a query that fails half way, can keep a node thread and with it the
destructor waiting for good. `MonitorRecovery`, which has no destructor, has them, and
starts empty or with a stale topology that lists the first host alone, as writer.

`CHECK_DEADLOCK FALSE` stands where the system may stop: a monitor without faults left
and without callers in its last state or in the `JoinDeadlock`, a service that nobody calls again,
a thread that has crashed (`Tracker*`), the end of time with all calls made (`Authentication`),
all bounds used up. `OdbcQuery` does not stop.

Fairness. Weak fairness of each thread's own steps: the operating system schedules
threads, ODBC calls return (with an error at worst) and sleeps end. Clients are fair
only inside a call; making one is their choice. No fairness of faults. The clock moves
on (`WindowEnds`, `TimePasses`). In `OdbcQuery` (`WF_vars(Step)`) the driver answers
every call, and in `Authentication` (`WF_clientVars(StepAuth(t))`) servers answer or the
request times out, as the HTTP clients are given timeouts. Strong fairness is assumed
of nothing, so that the liveness properties do not depend on how fairly mutexes are handed out.

## Claims refuted

Some comments, documents and tests claim more than the code does; the modules state
the claims at their ends, after their properties. Only three have a run;
the others can be repeated by putting the property into a configuration like this
(2 hosts etc. as in the passing runs, `SPECIFICATION Spec` unless said otherwise):

| property | configuration |
|---|---|
| `MainConnNotTakenAway` | monitor, requests `{"verify"}`, `NoStale`, no faults |
| `HandedOverConnTracked` | monitor, no requests, faults `{"drop"}`, 1 fault, `FairSpec` |
| `WindowIgnoresRequests` | monitor, requests `{"nowait"}`, `FullStale`, faults `{"failover"}`, 1 fault |
| `ChangeMeansOtherWriter` | monitor, no requests, faults `{"query"}`, 1 fault |
| `ReaderConnCleanedUp`, `NodesNotifiedOfEnd` | monitor, no requests, no faults, `CanDestroy = TRUE` |
| `PanicEnds` without one of its two exceptions, `WriterPublished` without one of the three parts of `Stuck` | as `MonitorRecovery` |
| `EveryStartCounted` and `HeldServiceLives` without `SerialCalls` | tracker, 2 threads, `Liberties = {{"overlap"}}` |
| `NotCleanedUpDuringFailover`, and `FailoverOnLiveService` without `~AnyFailover` | tracker, 2 threads, `Liberties = {{"borrow"}}` |
| `VerifiedWriterNotRetried` | failover, 1 thread, `{<<"STRICT_READER", "RANDOM">>}`, faults `{"connect"}`, 1 fault |
| `RemovedCandidateIsWriter` | failover, 1 thread, `{<<"STRICT_READER", "RANDOM">>}`, faults `{"query"}`, 1 fault |
| `CurrentHostIsConnected` | failover, 2 threads, `{<<"READER_OR_WRITER", "RANDOM">>}`, faults `{"connect"}`, 1 fault |
| `CurrentHostIsWriter` | failover, 1 thread, `{<<"STRICT_WRITER", "RANDOM">>}`, faults `{"failover", "query"}`, 2 faults |
| `ServedClientCounted` | limitless, 2 clients, 1 router, `Disciplines = {FALSE}`, no faults |
| `InvalidWeightsThrow` | as `RoundRobin` |
| `NoHostsInTopology` | as `Failover` |
| `WeightIsOwn` | as `OdbcQuery` |
| `SdkUpWhileUsed` without `~mixed`, `ObjectsAlwaysNeedSdk`, `CacheIsWhole`, `TokenHasCredentials`, `EscapingEnds`, `FormHasParameters` | as `Authentication` |
| `CachedTokenIsValid` | as `Authentication`, `Prompt = FALSE` |
| `NeverAborts` | as `Authentication`, `Directories = {"logs", "nowhere"}`, `Unusable = {"nowhere"}` |

What they mean for the passing properties: the tracker and the limitless service count
references correctly only for clients that do not overlap their calls, so the
properties say so; `ConnectsClosedHandle` is stated outside strict reader mode, where
a rejected original writer stays connected; `SdkUpWhileUsed` excludes fetches of
credentials, which do not take the mutex of token generation, and `ObjectsNeedSdk` for
the same reason, their client being destroyed after the SDK; `GivesUpOnlyLate` excludes
the weight zero under round robin; `HitIsValid` is about clients that cache a token as
soon as they have it and accesses to the cache that do not overlap; `LogFollowsUsers`
is about log locations that can be created. `CallReturns` names the pages on which a call
does not return: one with an ampersand, a semicolon later on and no entity the code
knows between them keeps the loop of `EscapeHtmlEntity`, and `global_auth_mutex`, for
good (`Endless`), and one whose form has no parameters is undefined behaviour.
`NoTokenAfterFailure` is about ADFS and OKTA: for IAM a token is signed although no
credentials were found. The liveness of the monitor is stated up to the states in which
it is `Stuck`, and `FailoverReturns` up to a monitor that `hung`.

## What is proved

For all values of the constants (finite sets where counts are involved), TLAPS checks
the theorems listed in `PROJECT.json`. Where an invariant is proved for every instance
and says less than the other properties of its run (types, and the lemmas on the way to
the rest), it is no longer among the run's properties.

- `ClusterTopologyMonitorProofs`: type correctness and every safety property of the
  run. None of them is inductive. `Inv` adds that node monitors are set up only while
  there is no node thread, that the main thread looks for a writer only without a
  writer connection, that this connection has a handle until the members are destroyed,
  and that a node thread which reached a server has one. `HandOverStopsNodes`,
  `RegularModeStopsNodes` and `ReaderConnectionStays` follow. `OneOwner` and
  `NoHandleLeak` need, for each place that may own a handle, when it does and that no
  other place does at the same time, the control points included at which a handle is
  on its way from one to another (`HandlesHaveOneOwner`, `NoHandleIsLost`). On top of
  these, where each owned connection may lead to gives `WriterConnectionMatchesHost`,
  and what the main thread knows of the handle it queries without `hdbc_mutex_` gives
  `QueriedHandleNotReused`.
- `FailoverServiceTrackerProofs`: an invariant in layers. `AnyInv` assumes nothing of the
  clients: the flag is the number of failovers under way, and references do not outnumber
  the holders. With `SerialCalls` at most one thread is
  between two critical sections, and references and holders are as many
  (`CountsForAnyClients`); if no ended service is started again, it lives as long as it
  is held (`HeldServiceStays`). If clients fail over only what they hold, a failover has the
  service from its look-up on, since its client's reference keeps any stop from deciding
  to end it (`FailoverIsSafe`). With both (`Disciplined`) come `UnusedServiceEnds` and the
  refinement of `RefCountedService`. Each property names the
  discipline it needs, and the refuted claims above show that it does.
- `FailoverServiceProofs`: type correctness, `ConnectsClosedHandle`,
  `RemainingAreCandidates`, `GivesUpOnlyLate`, the refinement of `FailoverPromise`, and
  what it says of roles as two action properties of its own (`StrictReaderGetsReader`,
  `WriterFailoverAsksRole`). The invariant `ThreadInv` says which mode belongs to which control
  point and what the handle is there; the action properties follow from the lemmas
  `WhoSucceeds` and `WhoFails`, which name the steps that can end a failover, and the
  refinement maps each of these steps to an answer of the promise and the others to
  stutters.
- `RoundRobinHostSelectorProofs`: type correctness, `WeightedRotation` for all clusters,
  weights and sequences of calls, and that every call purges what has expired. The
  invariant `RotationInv` says of an info that its weights are those of the string it
  remembers, whatever was entered around it, and that less is left of a host's turn
  than its weight (`InfoOK`); of the cache that no two clusters share an info
  (`InfosApart`); and of a log that all its hosts have one info in the cache, for longer
  than the log is kept, and that what is left of the turn completes the last run
  (`Continues`). Lemmas on the operations of `SlidingCacheMap` (`LookedFacts`,
  `UpdateCacheFacts`, `TickFacts`), a counting argument that an unused info exists, and
  the two lemmas on logs, `NextResult` and `OldestForgotten`, carry the steps.
- `LimitlessMonitorServiceProofs`: type correctness, `NothingLeftBehind`,
  `RoutersStayKnown`, `GivesUpOnlyAllDown` without any assumption on the clients (at
  most one of them joins, the service is gone by then, a thread that ended has no
  handles; as many routers are down as there were tries), and the refinement of
  `RefCountedService` for serial clients (`SerialInv`).
- `OdbcQueryProofs`: all invariants of the run and the refinement of `QueryPromise`, for
  result sets of any length. The invariant says which handles are allocated at each
  control point, and that what has been fetched is the result up to the next row.
- `AwsSdkProofs`: that the count is exact and both properties of the SDK; the key is
  that an initialised SDK has a thread that is counted or about to shut it down.
- `AuthenticationProofs`: the calls with their exchanges implement `AwsSdk` (`UsesSdk`),
  so that the above carries over; then `ObjectsNeedSdk`, `NoTokenAfterFailure` and
  `HitIsValid`, whose invariant says where in its call each kind of thread is, what it
  owns there, and that the entry of the cache and the token about to be written expire
  no later than a lifetime after they were signed; and `LogFollowsUsers`, from the
  counter being the number of users that asked for output. `ClientsKeepBoth` takes both
  to the composition.

Model-checked only: liveness under fairness, which is beyond the prover. The properties under
"Claims refuted" are false of the code.

## What is not modelled

Data races on containers, beyond the order of accesses and a torn result; durations;
the texts of SQL, rows, connection strings, URLs, pages, JSON and diagnostics, and the
regular expressions that take them apart, of which the models keep the outcomes that
matter; the AWS SDK and glog, which are external. `FailoverService::is_connected_to_writer`,
`OdbcHelper::BindColumn` and the host availability strategy have no caller. The string,
URL and connection string utilities keep no state; what they decide (a cluster id, a
mode, a region) is an input of the models.

## Plan

1. (done) monitor, tracker, failover service, limitless monitor, round robin, sliding
   cache, SDK life cycle; first theorems of each but the round robin.
2. (done) query helpers and handles, authentication with its exchanges and token cache,
   logger, the selectors' weights in `FailoverService`.
3. (done) Proofs of the monitor's handles and connections; the tracker for clients
   without discipline; the promise of a failover as a specification that
   `FailoverService` implements; the rotation, with lemmas on `SlidingCacheMap`.
4. Extend: the composition of tracker and monitor, where a destructor that hangs blocks
   the map; partial topologies in `MonitorService`; the hosts `ForceRefresh` puts back
   into the cache after newer ones were published. Prove: what the cache of the monitor
   may hold (a complete topology or none, without faults), and the refinement of
   `RefCountedService` for limitless clients that only order their starts and stops.
