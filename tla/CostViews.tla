------------------------------ MODULE CostViews ------------------------------
(***************************************************************************)
(* The numbers behind the dashboard's panels: what clients/langfuse.py     *)
(* fetches for a window, what the service's caches keep of it, and what    *)
(* aggregations.py makes of the kept rows when a request is served.        *)
(*                                                                         *)
(* An entry of a cache is served long after it was fetched, beside entries *)
(* fetched at other instants, and the trend lays older rows over a window  *)
(* that ends now.  TTLCache and CostService model when an entry is fetched *)
(* and dropped; here an entry is the instant of its fetch.                 *)
(*                                                                         *)
(* Langfuse records observations, each of cost 1, so that the cost of a    *)
(* set of observations is its size.  A fetch at instant f sees those of    *)
(* the instants before f; a trace bears the time of its first observation. *)
(* One window (`hours`) is modelled: no entry is shared between windows.   *)
(***************************************************************************)
EXTENDS Integers, Sequences, FiniteSets, FiniteSetsExt, SequencesExt, Sums

CONSTANTS
  Project, Trace, Model,
  Owner,       \* the project of each trace
  Name,        \* the name of each trace, None when it reached Langfuse without
  Session,     \* the session of each trace, or None
  Stage,       \* the stage in a periodic session's id, None for other sessions
  Dated,       \* the traces whose timestamp is there and can be parsed
  VendorModel, \* the models whose id contains a "/"
  Window,      \* the window's length in instants
  Buckets,     \* the number of slots of the trend
  Granule,     \* instants per time bucket of a metrics query
  Limit,       \* rows per page
  MaxNow,      \* bound on time
  MaxSpend,    \* bound on the observations
  MaxEntries,  \* bound on the cache entries held at once
  None         \* absent

ASSUME WindowAssumption == {Window, Buckets, Granule, Limit} \subseteq Nat \ {0}
ASSUME FiniteAssumption ==
  IsFiniteSet(Project) /\ IsFiniteSet(Trace) /\ IsFiniteSet(Model) /\ IsFiniteSet(DOMAIN Stage)
ASSUME TableAssumption ==
  /\ Owner \in [Trace -> Project]
  /\ Name \in [Trace -> Range(Name)]
  /\ Session \in [Trace -> DOMAIN Stage \cup {None}]
  /\ Stage \in [DOMAIN Stage -> Range(Stage)]
  /\ Dated \subseteq Trace
ASSUME BoundAssumption == MaxNow \in Nat
ASSUME NoneAssumption == None \notin Nat \cup DOMAIN Stage

VARIABLES
  now,    \* the present instant
  spend,  \* the observations Langfuse has
  entry,  \* instant each cache entry was fetched at, None while cold
  pager   \* a client that pages through /api/by-agent

vars == <<now, spend, entry, pager>>

-----------------------------------------------------------------------------
\* The caches _cache, _model_cache, _backend_cache, _agent_usage_cache.
Cache == {"traces", "models", "backends", "agents"}
Backend == {"openrouter", "claude-sdk"}

FirstPage == [offset |-> 0, rows |-> <<>>, steady |-> TRUE, more |-> TRUE]

Init ==
  /\ now = 0
  /\ spend = {}
  /\ entry = [c \in Cache |-> [p \in Project |-> None]]
  /\ pager = FirstPage

-----------------------------------------------------------------------------
(* What a fetch at instant f returns.                                      *)

\* backend_for_model
BackendOf(m) == IF m \in VendorModel THEN "openrouter" ELSE "claude-sdk"

InWindow(at, f) == f - Window <= at /\ at < f

Start(t) == Min({o.at : o \in {x \in spend : x.trace = t}})
Recorded(f) == {t \in Trace : \E o \in spend : o.trace = t /\ o.at < f}

\* fetch_traces_window: the traces that began in the window, with what they
\* had cost by then.
TracesOf(p, f) ==
  {[trace |-> t, at |-> Start(t), spent |-> {o \in spend : o.trace = t /\ o.at < f}] :
     t \in {u \in Recorded(f) : Owner[u] = p /\ InWindow(Start(u), f)}}

\* _metrics: the observations in the window, which the queries below group.
Observed(p, f) == {o \in spend : Owner[o.trace] = p /\ InWindow(o.at, f)}

\* fetch_model_usage_window
ModelUsage(p, f) ==
  [m \in Model |-> Cardinality({o \in Observed(p, f) : o.model = m})]

\* fetch_backend_cost_window: per time bucket and backend
BackendCost(p, f) ==
  [k \in (0 .. MaxNow \div Granule) \X Backend |->
     Cardinality({o \in Observed(p, f) :
                    o.at \div Granule = k[1] /\ BackendOf(o.model) = k[2]})]

\* Mutant: a name keeps one backend only.
AgentUsageOneBackend(p, f) ==
  [k \in (Range(Name) \ {None}) \X Backend |->
     LET named == {o \in Observed(p, f) : Name[o.trace] = k[1]}
         vendor == {o \in named : BackendOf(o.model) = "openrouter"}
     IN  IF k[2] = "openrouter" THEN Cardinality(vendor)
         ELSE IF vendor = {} THEN Cardinality(named) ELSE 0]

\* fetch_agent_usage_window: per name of the trace and backend; observations
\* of unnamed traces are skipped.
AgentUsage(p, f) ==
  [k \in (Range(Name) \ {None}) \X Backend |->
     Cardinality({o \in Observed(p, f) :
                    Name[o.trace] = k[1] /\ BackendOf(o.model) = k[2]})]

-----------------------------------------------------------------------------
(* What the requests make of the cached entries.  A project without an     *)
(* entry contributes nothing: its fetch failed, or it is about to be made. *)

Known(c) == {p \in Project : entry[c][p] # None}

\* _gather, flattened
Gathered == UNION {TracesOf(p, entry["traces"][p]) : p \in Known("traces")}

\* _trace_cost, summed over some of them
CostOf(S) == Cardinality(UNION {g.spent : g \in S})

\* Labels of rows: names, the unnamed rest, and one per session without stage.
Unnamed == [unnamed |-> None]
Labels == ((Range(Name) \cup Range(Stage)) \ {None})
            \cup {[unnamed |-> s] : s \in DOMAIN Stage} \cup {Unnamed}

\* _trace_label: the name; without one the stage of a periodic session, or
\* the session; without that a common label.
Label(t) ==
  IF Name[t] # None THEN Name[t]
  ELSE IF Session[t] = None THEN Unnamed
  ELSE IF Stage[Session[t]] # None THEN Stage[Session[t]]
  ELSE [unnamed |-> Session[t]]

\* Mutant: traces without a session are skipped here too.
AggregateByNameOfSessions ==
  [l \in Labels |-> CostOf({g \in Gathered : Label(g.trace) = l /\ Session[g.trace] # None})]

\* aggregate_by_name over what by_agent gathered
AggregateByName ==
  [l \in Labels |-> CostOf({g \in Gathered : Label(g.trace) = l})]

\* aggregate_by_session; traces without a session are skipped
AggregateBySession(S) ==
  [s \in DOMAIN Stage |-> CostOf({g \in S : Session[g.trace] = s})]

\* Per project, the cost that summary (backend "all" or one) reports, from the
\* per-model rows, ...
SummaryCost(p, b) ==
  LET usage == ModelUsage(p, entry["models"][p])
  IN  Total([m \in Model |-> IF b \in {"all", BackendOf(m)} THEN usage[m] ELSE 0])

\* merge_model_costs, behind by_model
MergeModelCosts ==
  [m \in Model |-> Total([p \in Known("models") |-> ModelUsage(p, entry["models"][p])[m]])]

\* ... that backend_cost_series spreads over its time buckets, ...
SeriesCost(p, b) ==
  LET cost == BackendCost(p, entry["backends"][p])
  IN  Total([k \in DOMAIN cost |-> IF b \in {"all", k[2]} THEN cost[k] ELSE 0])

\* ... and that aggregate_by_name_backend reports for a name.
AgentCost(p, n, b) == AgentUsage(p, entry["agents"][p])[<<n, b>>]

-----------------------------------------------------------------------------
(* cost_trend: `Buckets` slots over the window that ends now.              *)

\* Python's int(): towards zero.
Truncate(n, d) == IF n >= 0 THEN n \div d ELSE - ((- n) \div d)

\* The slot of a trace, outside 0 .. Buckets - 1 when it is left out.
Index(at) == Truncate((at - (now - Window)) * Buckets, Window)

\* _parse_ts: a trace without a timestamp, or with one that is no ISO time, is
\* in no slot.
Timed == {g \in Gathered : g.trace \in Dated}

\* Mutant: the last slot is never filled.
CostTrendShort ==
  [i \in 0 .. Buckets - 1 |->
     CostOf({g \in Timed : i < Buckets - 1 /\ Index(g.at) = i})]

CostTrend == [i \in 0 .. Buckets - 1 |-> CostOf({g \in Timed : Index(g.at) = i})]

-----------------------------------------------------------------------------
(* highlights for one backend.                                             *)

\* The names in the agent rows of backend b.
BackendNames(b) ==
  {n \in Range(Name) \ {None} : \E p \in Known("agents") : AgentCost(p, n, b) > 0}

\* The traces left to choose the most expensive from.
Candidates(b) ==
  LET names == BackendNames(b)
  IN  {g \in Gathered : b = "all" \/ Name[g.trace] \in names}

MostExpensiveTrace(b) ==
  LET from == Candidates(b)
  IN  {g \in from : \A h \in from : CostOf({h}) <= CostOf({g})}

MostExpensiveSession(b) ==
  Max({0} \cup Range(AggregateBySession(Candidates(b))))

-----------------------------------------------------------------------------
(* Actions: time, spend, fetches, and a client that turns pages.           *)

\* Instants are counted from the first spend: before it there is nothing to see.
Tick ==
  /\ spend # {}
  /\ now < MaxNow
  /\ now' = now + 1
  /\ UNCHANGED <<spend, entry, pager>>

\* Spend in the last instant would never be seen.
Spend(t, m) ==
  /\ now < MaxNow
  /\ Cardinality(spend) < MaxSpend
  /\ spend' = spend \cup {[trace |-> t, model |-> m, at |-> now]}
  /\ UNCHANGED <<now, entry, pager>>

Held == {k \in Cache \X Project : entry[k[1]][k[2]] # None}

\* A cold or a background fetch of one key, from the first instant that has
\* something to see.  The cache's own steps in between are TTLCache's.
Fetch(c, p) ==
  /\ now > 0
  /\ entry[c][p] # None \/ Cardinality(Held) < MaxEntries
  /\ entry' = [entry EXCEPT ![c][p] = now]
  /\ pager' = [pager EXCEPT !.steady = @ /\ (c # "traces" \/ pager.offset = 0)]
  /\ UNCHANGED <<now, spend>>

\* _sorted_cost_rows: by cost; the cached rows decide between equal costs.
Rows ==
  LET rows == AggregateByName
  IN  CHOOSE r \in SetToSeqs({l \in Labels : rows[l] > 0}) :
        \A i, j \in DOMAIN r : i < j => rows[r[i]] >= rows[r[j]]

\* Mutant: no more pages once the next one would be the last.
PageEndsEarly(rows, offset) ==
  [items |-> SubSeq(rows, offset + 1, Min({offset + Limit, Len(rows)})),
   has_more |-> offset + Limit + Limit < Len(rows)]

\* _paginate
Page(rows, offset) ==
  [items |-> SubSeq(rows, offset + 1, Min({offset + Limit, Len(rows)})),
   has_more |-> offset + Limit < Len(rows)]

\* GET /api/by-agent with the next offset.
NextPage ==
  /\ Known("traces") = Project
  /\ pager.more
  /\ LET page == Page(Rows, pager.offset)
     IN  pager' = [pager EXCEPT !.offset = @ + Limit,
                                !.rows = @ \o page.items,
                                !.more = page.has_more]
  /\ UNCHANGED <<now, spend, entry>>

PageAgain ==
  /\ ~ pager.more
  /\ pager' = FirstPage
  /\ UNCHANGED <<now, spend, entry>>

Next ==
  \/ Tick
  \/ \E t \in Trace, m \in Model : Spend(t, m)
  \/ \E c \in Cache, p \in Project : Fetch(c, p)
  \/ NextPage
  \/ PageAgain

Spec == Init /\ [][Next]_vars

-----------------------------------------------------------------------------
(* Properties.                                                             *)

\* Every cached trace is in one row of the by-agent view, named or not, only
\* traces without a session are missing from the by-session view, and the
\* by-model view adds up to the summary's total.
GroupsConserve ==
  /\ Total(AggregateByName) = CostOf(Gathered)
  /\ Total(AggregateBySession(Gathered)) =
       CostOf({g \in Gathered : Session[g.trace] # None})
  /\ Total(MergeModelCosts) =
       Total([p \in Known("models") |-> SummaryCost(p, "all")])

\* service.py:261-264: "the headline total, the per-model rows, and the
\* per-backend totals all reconcile -- a backend can never exceed the total".
\* The backend trend is cached apart from the summary, so this does not hold.
BackendWithinTotal ==
  \A p \in Known("models") \cap Known("backends"), b \in Backend :
    SeriesCost(p, b) <= SummaryCost(p, "all")

\* What holds of them: what the backend trend shows beyond the summary was
\* recorded, and what it lacks has left the window, between the two fetches;
\* time buckets, rows and backends make no difference.
TotalsDifferByAge ==
  \A p \in Known("models") \cap Known("backends") :
    LET older == Observed(p, entry["models"][p])
        newer == Observed(p, entry["backends"][p])
    IN  \A b \in Backend \cup {"all"} :
          SeriesCost(p, b) - SummaryCost(p, b) =
            LET ofB(S) == Cardinality({o \in S : b \in {"all", BackendOf(o.model)}})
            IN  ofB(newer \ older) - ofB(older \ newer)

\* aggregations.py:197: "Bucket total cost over the time window into *buckets*
\* equal slots".  A row that left the window since its fetch is in the first
\* slot all the same, so this does not hold.
EqualSlots ==
  \A i \in 0 .. Buckets - 1 :
    CostTrend[i] =
      CostOf({g \in Timed :
                LET x == (g.at - (now - Window)) * Buckets
                IN  i * Window <= x /\ x < (i + 1) * Window})

\* What holds of them, however old the rows: the first slot takes also what
\* began within one slot's length before the window, every other slot what it
\* covers and no more.
TrendSlots ==
  \A i \in 0 .. Buckets - 1 :
    CostTrend[i] =
      CostOf({g \in Timed :
                LET x == (g.at - (now - Window)) * Buckets
                IN  x < (i + 1) * Window /\ IF i = 0 THEN - Window < x ELSE i * Window <= x})

\* test_aggregations.py:193, "buckets sum to total": right after its fetches the
\* trend and the traces without a usable timestamp, which it leaves out, add up
\* to the by-agent total.
FreshTrendIsTotal ==
  (\A p \in Known("traces") : entry["traces"][p] = now)
    => Total(CostTrend) + CostOf(Gathered \ Timed) = Total(AggregateByName)

\* While an entry is served stale, the trend can only lose what leaves the
\* window: nothing that was left out before comes back.
TrendOnlyLoses ==
  [][entry' = entry => Total(CostTrend)' <= Total(CostTrend)]_vars

\* The backend filter of the highlights goes by names in separately cached
\* rows: with rows of the same age it finds every named trace that used the
\* backend in the window.  The most expensive session costs as much, at least,
\* as the most expensive trace if that belongs to one.
HighlightsAgree ==
  /\ \A b \in Backend, g \in Gathered :
       LET p == Owner[g.trace]
           f == entry["traces"][p]
       IN  /\ entry["agents"][p] = f
           /\ Name[g.trace] # None
           /\ \E o \in Observed(p, f) : o.trace = g.trace /\ BackendOf(o.model) = b
           => g \in Candidates(b)
  /\ \A b \in Backend \cup {"all"} : \A g \in MostExpensiveTrace(b) :
       Session[g.trace] # None => MostExpensiveSession(b) >= CostOf({g})

\* A client that turns the pages of a view until has_more is false has every
\* row once and in order, provided the view was not fetched again meanwhile.
PagesAreComplete ==
  [][NextPage /\ ~ pager'.more /\ pager.steady => pager'.rows = Rows]_vars

=============================================================================
