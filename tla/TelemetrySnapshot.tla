------------------------- MODULE TelemetrySnapshot -------------------------
(***************************************************************************)
(* What internal/telemetry/service.go computes from the recorded events    *)
(* and the profiles for the dashboard: buildSnapshot, profileMetric and    *)
(* networkScore as operators.                                              *)
(*                                                                         *)
(* An event is a record [n, kind, profile, at, latency]; profiles is a     *)
(* function from identifiers to [launched, opened, ready, proxied], where  *)
(* opened says that launchCount is positive.  Times are integers in units  *)
(* of which BucketDuration make a bucket of the activity chart.  Counters  *)
(* and labels that follow from one field of one profile are left out.      *)
(***************************************************************************)
EXTENDS Integers, FiniteSets, FiniteSetsExt, SequencesExt

CONSTANTS BucketCount,      \* 12
          BucketDuration,   \* 2 hours
          Never             \* LastLaunchedAt of a profile never opened

ASSUME BucketAssumption == {BucketCount, BucketDuration} \subseteq Nat \ {0}

LaunchKinds == {"launch_succeeded", "launch_failed"}
ProxyKinds == {"proxy_succeeded", "proxy_failed"}
NoEvent == [n |-> 0, kind |-> "", profile |-> Never, at |-> 0, latency |-> 0]

\* Go's integer division rounds toward zero, \div rounds down.
Quotient(a, b) == IF a >= 0 THEN a \div b ELSE -((-a) \div b)

Start(now) == (now - (now % BucketDuration)) - (BucketCount - 1) * BucketDuration
Bucket(now, at) == Quotient(at - Start(now), BucketDuration)
\* Events less than one bucket before Start have bucket 0 as well.
InChart(now, at) == Bucket(now, at) \in 0..(BucketCount - 1)

About(e, p, kinds) == e.profile = p /\ e.kind \in kinds

\* Bug: the last one in the log is the latest.
BugLatest(events, p, kinds) ==
    FoldLeft(LAMBDA last, e : IF About(e, p, kinds) THEN e ELSE last, NoEvent, events)

\* latestLaunch and latestProxy, event by event: a later event replaces an
\* earlier one wherever they stand in the log; of two at one time the first
\* stays.
Latest(events, p, kinds) ==
    LET latest[i \in 0..Len(events)] ==
            IF i = 0 THEN NoEvent
            ELSE IF About(events[i], p, kinds) /\ (latest[i - 1] = NoEvent \/ events[i].at > latest[i - 1].at)
                 THEN events[i] ELSE latest[i - 1]
    IN  latest[Len(events)]

\* Bug: every profile that was opened counts, recorded or not.
BugUnrecorded(profiles, events) == {p \in DOMAIN profiles : profiles[p].launched # Never}

\* Profiles whose last opening no event tells of.
Unrecorded(profiles, events) ==
    {p \in DOMAIN profiles : profiles[p].launched # Never
        /\ \A i \in DOMAIN events : ~ (events[i].kind = "launch_succeeded" /\ events[i].profile = p)}

Charted(now, events, kind) ==
    Cardinality({i \in DOMAIN events : events[i].kind = kind /\ InChart(now, events[i].at)})

\* SuccessfulLaunches24h, the sum of the buckets' Launches.
Launches(now, profiles, events) ==
    Charted(now, events, "launch_succeeded")
      + Cardinality({p \in Unrecorded(profiles, events) : InChart(now, profiles[p].launched)})

Healthy(profile, proxy) == profile.proxied /\ proxy.kind = "proxy_succeeded" /\ proxy.latency < 500

Points(profile, launch, proxy) ==
    (IF profile.ready THEN 0 ELSE IF profile.opened THEN 3 ELSE 1)
      + (IF launch.kind = "launch_failed" THEN 3 ELSE 0)
      + (IF ~ profile.proxied \/ Healthy(profile, proxy) THEN 0
         ELSE IF proxy = NoEvent THEN 1
         ELSE IF proxy.kind = "proxy_failed" THEN 3 ELSE 2)

Risk(points) == IF points >= 3 THEN "high" ELSE IF points > 0 THEN "medium" ELSE "low"

profileMetric(profile, launch, proxy) ==
    [score |-> IF profile.ready THEN 100 ELSE 0,
     risk |-> Risk(Points(profile, launch, proxy)),
     tested |-> profile.proxied /\ proxy # NoEvent,
     healthy |-> Healthy(profile, proxy),
     latency |-> IF profile.proxied THEN proxy.latency ELSE 0]

networkScore(profile, proxy) ==
    CASE ~ profile.proxied -> 100
      [] profile.proxied /\ proxy = NoEvent -> 50
      [] profile.proxied /\ proxy.kind = "proxy_failed" -> 0
      [] OTHER -> IF proxy.latency < 100 THEN 100 ELSE IF proxy.latency < 250 THEN 80
                  ELSE IF proxy.latency < 500 THEN 60 ELSE 30

\* The middle one of the measured latencies, the upper one of two.
Median(metrics) ==
    LET measured == {p \in DOMAIN metrics : metrics[p].tested /\ metrics[p].latency > 0}
        upTo(l) == Cardinality({p \in measured : metrics[p].latency <= l})
        upper == {p \in measured : upTo(metrics[p].latency) > Cardinality(measured) \div 2}
    IN  IF measured = {} THEN 0 ELSE Min({metrics[p].latency : p \in upper})

sessionSignal(now, profiles, events) ==
    LET succeeded == Charted(now, events, "launch_succeeded")
        attempts == succeeded + Charted(now, events, "launch_failed")
    IN  IF attempts > 0 THEN (succeeded * 100) \div attempts
        ELSE IF \E p \in DOMAIN profiles : profiles[p].opened THEN 100 ELSE 0

\* The metrics of the profiles, with what their latest events say.
Metrics(profiles, events) ==
    [p \in DOMAIN profiles |->
        profileMetric(profiles[p], Latest(events, p, LaunchKinds), Latest(events, p, ProxyKinds))]

Average(values) ==
    IF DOMAIN values = {} THEN 0
    ELSE MapThenSumSet(LAMBDA p : values[p], DOMAIN values) \div Cardinality(DOMAIN values)

buildSnapshot(now, profiles, events) ==
    LET metrics == Metrics(profiles, events)
        fingerprint == Average([p \in DOMAIN profiles |-> metrics[p].score])
        network == Average([p \in DOMAIN profiles |-> networkScore(profiles[p], Latest(events, p, ProxyKinds))])
        sessions == sessionSignal(now, profiles, events)
    IN  [launches |-> Launches(now, profiles, events),
         metrics |-> metrics,
         attention |-> Cardinality({p \in DOMAIN metrics : metrics[p].risk = "high"}),
         median |-> Median(metrics),
         overall |-> (fingerprint * 45 + network * 30 + sessions * 25) \div 100]
=============================================================================
