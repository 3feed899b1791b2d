------------------------------- MODULE Usage -------------------------------
(***************************************************************************)
(* Rate limits and usage counters (usage.Service).  A request made with an *)
(* access token is charged to the minute, hour and day windows of the      *)
(* token, and of the token and storage, one after the other; the first     *)
(* window that is full refuses it.  Without Redis the windows are entries  *)
(* of the same map as the metrics.                                         *)
(***************************************************************************)
EXTENDS Naturals, Sequences, FiniteSets, FiniteSetsExt

CONSTANTS Reqs,        \* requests made with the token, each once
          Windows,     \* <<"minute", "hour", ...>>, in the order of the checks
          Span,        \* window -> its length in ticks of the clock
          Limit,       \* window -> limit, 0 when the window is not limited
          Targets,     \* request -> the storages it may name, or "none"
          MaxClock,    \* bound on the clock
          MaxSeries    \* maxCounterSeries

ASSUME UsageAssumption ==
  /\ IsFiniteSet(Reqs) /\ Len(Windows) \in Nat
  /\ \A i \in 1 .. Len(Windows) : Span[Windows[i]] \in Nat \ {0}
                                  /\ Limit[Windows[i]] \in Nat
  /\ MaxClock \in Nat /\ MaxSeries \in Nat

VARIABLES clock,     \* time, in the smallest window
          inRedisRL, \* whether the windows are in Redis
          charged,   \* <<storage or "none", window, index>> -> the counts its
                     \* key has had, a new one after each time it expired
          series,    \* the keys of the in-memory map that are metrics
          asking     \* each request: its storage, its next charge, the key it
                     \* is about to increment, and what it has incremented

usageVars == <<clock, inRedisRL, charged, series, asking>>

NotAsked == [storage |-> "none", next |-> 0, key |-> <<>>, through |-> {},
             status |-> "new", recorded |-> FALSE]

UsageInit == /\ clock = 0
             /\ inRedisRL \in BOOLEAN
             /\ charged = [k \in {} |-> <<>>]
             /\ series = {}
             /\ asking = [r \in Reqs |-> NotAsked]

-----------------------------------------------------------------------------
\* The charges of a request in order: an odd position is a window of the
\* token, and the even one after it the same window of the token and storage,
\* which is left out when no storage is named; both when there is no limit.
WindowAt(i) == Windows[(i + 1) \div 2]
ChargeAt(storage, i) == <<IF i % 2 = 1 THEN "none" ELSE storage, WindowAt(i)>>
Due(storage) == {i \in 1 .. 2 * Len(Windows) :
                   Limit[WindowAt(i)] > 0 /\ (i % 2 = 1 \/ storage # "none")}

\* The charge that follows position i, or 0.
Following(storage, i) == LET due == {j \in Due(storage) : j > i}
                         IN  IF due = {} THEN 0 ELSE Min(due)

\* The key of a window now; the counts of a key, and those after an INCR.
Key(c) == <<c[1], c[2], clock \div Span[c[2]]>>
Counts(k) == IF k \in DOMAIN charged THEN charged[k] ELSE <<0>>
Incremented(k) == [Counts(k) EXCEPT ![Len(Counts(k))] = @ + 1]
Charge(k) == charged' = [j \in DOMAIN charged \cup {k} |->
                           IF j = k THEN Incremented(k) ELSE charged[j]]

\* A request whose charges are all made is let through.
Admit(next) == IF next = 0 THEN "ok" ELSE "asking"

\* rateLimitMiddleware and handleRequest ask Allow first.
Allow(r) == \E s \in Targets[r] :
  /\ asking[r].status = "new"
  /\ asking' = [asking EXCEPT ![r].storage = s, ![r].next = Following(s, 0),
                              ![r].status = Admit(Following(s, 0))]
  /\ UNCHANGED <<clock, inRedisRL, charged, series>>

\* The limit compared with the count before the increment.
Within_OffByOne(n, w) == n <= Limit[w] + 1

\* Whether the n-th request of a window is within its limit.
Within(n, w) == n <= Limit[w]

\* With Redis the key is named before the INCR is sent ...
NameKey(r) ==
  /\ inRedisRL /\ asking[r].status = "asking" /\ asking[r].key = <<>>
  /\ asking' = [asking EXCEPT
                  ![r].key = Key(ChargeAt(asking[r].storage, asking[r].next))]
  /\ UNCHANGED <<clock, inRedisRL, charged, series>>

\* ... and in memory both happen under the mutex.
incrementWindow(r) ==
  LET c == ChargeAt(asking[r].storage, asking[r].next)
      next == Following(asking[r].storage, asking[r].next)
      k == IF inRedisRL THEN asking[r].key ELSE Key(c)
      n == Incremented(k)
  IN  /\ asking[r].status = "asking" /\ (inRedisRL => asking[r].key # <<>>)
      /\ Charge(k)
      /\ asking' = [asking EXCEPT
           ![r].next = next,
           ![r].key = <<>>,
           ![r].through = @ \cup {<<k, Len(n)>>},
           ![r].status = IF Within(n[Len(n)], c[2])
                         THEN Admit(next) ELSE "rate_limited"]
      /\ UNCHANGED <<clock, inRedisRL, series>>

\* Redis does not answer: the request fails, what is charged stays charged.
incrementFails(r) ==
  /\ asking[r].key # <<>>
  /\ UNCHANGED charged \/ Charge(asking[r].key)
  /\ asking' = [asking EXCEPT ![r].status = "error", ![r].key = <<>>]
  /\ UNCHANGED <<clock, inRedisRL, series>>

\* The keys of the in-memory map: without Redis the windows are among them.
InMap(metrics) == Cardinality(metrics)
                  + (IF inRedisRL THEN 0 ELSE Cardinality(DOMAIN charged))

\* Every metric gets a series.
bumpCounter_NoCap(metrics, k) == metrics \cup {k}

\* A metric gets a new series only below the cap.
bumpCounter(metrics, k) == IF k \notin metrics /\ InMap(metrics) >= MaxSeries
                           THEN metrics ELSE metrics \cup {k}

\* The metrics of a request, bumped one after the other under its labels.
Metrics(storage, status) ==
  LET bump(metrics, name) == bumpCounter(metrics, <<name, storage, status>>)
      requests == bump(series, "requests")
      failures == CASE status = "rate_limited" -> bump(requests, "rate_limited")
                    [] status = "error" -> bump(requests, "errors")
                    [] OTHER -> requests
  IN  bump(bump(failures, "bytes_in"), "bytes_out")

\* Record: what was admitted ends as ok or, in dispatch, as an error.
Record(r) == \E status \in {"ok", "error", "rate_limited"} :
  /\ ~asking[r].recorded
  /\ \/ asking[r].status = status
     \/ asking[r].status = "ok" /\ status = "error"
  /\ series' = Metrics(asking[r].storage, status)
  /\ asking' = [asking EXCEPT ![r].recorded = TRUE]
  /\ UNCHANGED <<clock, inRedisRL, charged>>

\* A failed health check is counted too, with Redis in a series of its own.
RecordStatusError ==
  /\ ~inRedisRL
  /\ series' = bumpCounter(series, <<"status_errors", "none", "none">>)
  /\ UNCHANGED <<clock, inRedisRL, charged, asking>>

Tick ==
  /\ clock < MaxClock
  /\ clock' = clock + 1
  /\ UNCHANGED <<inRedisRL, charged, series, asking>>

\* A key lives for the length of its window from its first INCR, so it may be
\* gone as soon as the window has ended.
ExpireKey == \E k \in DOMAIN charged :
  /\ inRedisRL /\ clock \div Span[k[2]] > k[3]
  /\ charged[k][Len(charged[k])] > 0
  /\ charged' = [charged EXCEPT ![k] = Append(@, 0)]
  /\ UNCHANGED <<clock, inRedisRL, series, asking>>

UsageNext == \/ Tick \/ ExpireKey \/ RecordStatusError
             \/ \E r \in Reqs : \/ Allow(r) \/ NameKey(r) \/ incrementWindow(r)
                                \/ incrementFails(r) \/ Record(r)

UsageSpec == UsageInit /\ [][UsageNext]_usageVars

-----------------------------------------------------------------------------
Admitted == {r \in Reqs : asking[r].status = "ok"}

\* However the charges of concurrent requests interleave, and wherever the
\* clock turns between them, no window lets more requests through than its
\* limit (service.go:297).  In Redis that is so from one expiry of the
\* window's key to the next: an INCR that arrives late may start the key anew.
AdmittedWithinLimit ==
  \A charge \in UNION {asking[r].through : r \in Reqs} :
    /\ Cardinality({r \in Admitted : charge \in asking[r].through})
         <= Limit[charge[1][2]]
    /\ ~inRedisRL => charge[2] = 1

\* The cap holds for the metrics although the windows grow in the same map,
\* and a request goes uncounted only when the map is full (service.go:326).
UncountedOnlyWhenFull ==
  /\ Cardinality(series) <= MaxSeries
  /\ \A r \in Reqs : asking[r].recorded /\ InMap(series) < MaxSeries =>
       \E m \in series : m[1] = "bytes_out" /\ m[2] = asking[r].storage
                        /\ m[3] \in {asking[r].status, "error"}
=============================================================================
