-------------------------- MODULE Refresher_proofs --------------------------
(***************************************************************************)
(* Proofs about Refresher, for any servers, adapters and bounds: what the   *)
(* loop of getLatestMetric finds on a page, and what that and the locals of *)
(* the goroutine mean for the metrics it stores.                            *)
(***************************************************************************)
EXTENDS Refresher, TLAPS

-----------------------------------------------------------------------------
(* The loop of getLatestMetric.                                             *)

\* An empty family has no latest sample.
LEMMA LatestOfNone == getLatestMetric(<<>>) = 0
<1> DEFINE F(best) == [i \in 0..Len(<<>>) |->
                          IF i = 0 THEN 0 ELSE Newer(<<>>, best[i - 1], i)]
           g == [i \in 0..0 |-> 0]
           b == CHOOSE h : h = F(h)
<1>1. Len(<<>>) = 0
  OBVIOUS
<1>2. g = F(g)
  BY <1>1
<1>3. b = F(b)
  <2> HIDE DEF g, F
  <2> QED BY <1>2
<1>4. b[0] = 0
  BY <1>1, <1>3
<1> QED
  BY <1>1, <1>4 DEF getLatestMetric

\* A family of one or two samples is scanned in order, from the nil that the
\* loop starts with.
LEMMA LatestOfFew ==
    ASSUME NEW family, NEW n \in {1, 2}, Len(family) = n
    PROVE  getLatestMetric(family) =
               IF n = 1 THEN Newer(family, 0, 1)
               ELSE Newer(family, Newer(family, 0, 1), 2)
<1> DEFINE N(x, i) == Newer(family, x, i)
           F(best) == [i \in 0..n |-> IF i = 0 THEN 0 ELSE N(best[i - 1], i)]
           g == [i \in 0..n |-> IF i = 0 THEN 0
                                ELSE IF i = 1 THEN N(0, 1) ELSE N(N(0, 1), 2)]
           b == CHOOSE h : h = F(h)
<1>1. getLatestMetric(family) = b[n]
  BY DEF getLatestMetric
<1> HIDE DEF N
<1>2. g = F(g)
  <2> SUFFICES ASSUME NEW i \in 0..n
               PROVE  g[i] = F(g)[i]
    OBVIOUS
  <2>1. i \in {0, 1, 2}
    <3> HIDE DEF g, F, b
    <3> QED OBVIOUS
  <2>2. i # 0 => i - 1 \in 0..n
    <3> HIDE DEF g, F, b
    <3> QED BY <2>1
  <2> QED
    BY <2>1, <2>2
<1>3. b = F(b)
  <2> HIDE DEF g, F
  <2> QED BY <1>2
<1> HIDE DEF b
<1>4. b[0] = 0 /\ b[1] = N(b[0], 1)
  BY <1>3
<1>5. n = 2 => b[2] = N(b[1], 2)
  BY <1>3
<1> QED
  BY <1>1, <1>4, <1>5 DEF N

\* On every page of a server, with an older sample before or after the current
\* one or with one of other labels, the loop finds the current figure.
LEMMA LatestIsCurrent ==
    ASSUME NEW a, NEW family \in Families(a)
    PROVE  /\ getLatestMetric(family) \in {1, 2}
           /\ family[getLatestMetric(family)].figure = [from |-> a, at |-> figures[a]]
<1> DEFINE current == Sample(a, figures[a], 2, TRUE)
           older == Sample(a, 0, 1, TRUE)
           other == Sample(a, 0, 3, FALSE)
<1>1. family \in {<<current>>, <<older, current>>, <<current, older>>, <<other, current>>}
  BY DEF Families
<1>2. /\ current.match = TRUE /\ current.ts = 2
      /\ current.figure = [from |-> a, at |-> figures[a]]
      /\ older.match = TRUE /\ older.ts = 1 /\ other.match = FALSE
  BY DEF Sample
<1> HIDE DEF current, older, other
<1>3. CASE family = <<current>>
  <2>1. Len(family) = 1 /\ family[1] = current
    BY <1>3
  <2>2. getLatestMetric(family) = 1
    BY <2>1, <1>2, LatestOfFew DEF Newer
  <2> QED BY <2>1, <2>2, <1>2
<1>4. CASE family = <<older, current>>
  <2>1. Len(family) = 2 /\ family[1] = older /\ family[2] = current
    BY <1>4
  <2>2. getLatestMetric(family) = 2
    BY <2>1, <1>2, LatestOfFew DEF Newer
  <2> QED BY <2>1, <2>2, <1>2
<1>5. CASE family = <<current, older>>
  <2>1. Len(family) = 2 /\ family[1] = current /\ family[2] = older
    BY <1>5
  <2>2. getLatestMetric(family) = 1
    BY <2>1, <1>2, LatestOfFew DEF Newer
  <2> QED BY <2>1, <2>2, <1>2
<1>6. CASE family = <<other, current>>
  <2>1. Len(family) = 2 /\ family[1] = other /\ family[2] = current
    BY <1>6
  <2>2. getLatestMetric(family) = 2
    BY <2>1, <1>2, LatestOfFew DEF Newer
  <2> QED BY <2>1, <2>2, <1>2
<1> QED
  BY <1>1, <1>3, <1>4, <1>5, <1>6

\* promToPodMetrics keeps a figure or replaces it by the current one of the
\* server that was asked, whatever the page lacks.
LEMMA ScrapedIsCurrent ==
    ASSUME NEW a, NEW family \in Families(a) \cup {<<>>}, NEW name, NEW existing
    PROVE  Scraped(name, family, existing)
               \in {existing, [from |-> a, at |-> figures[a]]}
<1>1. CASE family = <<>>
  BY <1>1, LatestOfNone DEF Scraped
<1>2. CASE family \in Families(a)
  BY <1>2, LatestIsCurrent DEF Scraped
<1> QED
  BY <1>1, <1>2

-----------------------------------------------------------------------------
(* The inductive invariant.                                                 *)

Figures == {"queue", "kv"}

\* A figure that is there was true of its server then.
Past(figure) ==
    figure.from # None =>
        figure.from \in Address /\ figure.at \in Nat /\ figure.at <= figures[figure.from]

\* Storing new in the place of old does not go back.
Succeeds(old, new) ==
    old.from # None =>
        new.from # None /\ (new.from = old.from => new.at >= old.at)

ServersInv == clock \in Nat /\ figures \in [Address -> 0..clock]

TargetInv == pod \in Address /\ (pc \in {"fetch", "store"} => target \in Address)

FigureInv ==
    /\ \A f \in Figures : Past(metrics[f])
    /\ (pc = "store" /\ updated # NoMetrics) =>
        \A f \in Figures : Past(updated[f]) /\ Succeeds(metrics[f], updated[f])

\* What is stored after the stop ends the last round of the loop.
LateInv ==
    \/ late = 0
    \/ late = 1 /\ Stopped /\ pc \in {"loop", "exited"}

\* Once figures of a former address are stored, the target is the new one.
StaleInv ==
    \/ stale = 0
    \/ stale = 1 /\ (pc \in {"fetch", "store"} => target = pod)

RInv == ServersInv /\ TargetInv /\ FigureInv /\ LateInv /\ StaleInv

\* A refresher that NewPodMetrics has just created satisfies the invariant.
LEMMA RInvInit == Init => RInv
<1> SUFFICES ASSUME Init PROVE RInv
  OBVIOUS
<1>1. ServersInv /\ LateInv /\ StaleInv
  BY DEF Init, ServersInv, LateInv, StaleInv
<1>2. TargetInv
  BY RefresherAssumption DEF Init, TargetInv
<1>3. FigureInv
  BY DEF Init, FigureInv, Figures, Past, NewMetrics, NoFigure
<1> QED
  BY <1>1, <1>2, <1>3 DEF RInv

\* A figure stays true of its past while the load of servers changes.
LEMMA PastStays ==
    ASSUME NEW figure, Past(figure), ServersInv, figures' \in [Address -> Nat],
           \A a \in Address : figures'[a] >= figures[a]
    PROVE  figure.from # None =>
               figure.from \in Address /\ figure.at \in Nat /\ figure.at <= figures'[figure.from]
  BY DEF Past, ServersInv

\* The load of a server changes, or it starts anew: the goroutine is untouched.
LEMMA ServersStep ==
    ASSUME RInv, NEW a \in Address, LoadChanges(a) \/ ServerRestarts(a)
    PROVE  RInv'
<1>1. /\ clock' = clock + 1
      /\ figures' = [figures EXCEPT ![a] = clock']
      /\ UNCHANGED <<pod, closed, cancelled, metrics, pc, target, updated, late, stale>>
  BY DEF LoadChanges, ServerRestarts, control, goroutine, history
<1>2. ServersInv'
  BY <1>1 DEF RInv, ServersInv
<1>3. figures' \in [Address -> Nat] /\ \A b \in Address : figures'[b] >= figures[b]
  BY <1>1 DEF RInv, ServersInv
<1>4. ASSUME NEW figure, Past(figure)
      PROVE  figure.from # None =>
                 figure.from \in Address /\ figure.at \in Nat /\ figure.at <= figures'[figure.from]
  BY <1>3, <1>4, PastStays DEF RInv
<1>5. FigureInv'
  BY <1>1, <1>4 DEF RInv, FigureInv, Past, Succeeds
<1>6. TargetInv' /\ LateInv' /\ StaleInv'
  BY <1>1 DEF RInv, TargetInv, LateInv, StaleInv, Stopped
<1> QED
  BY <1>2, <1>5, <1>6 DEF RInv

\* FetchMetrics returns the figures it was given or the current ones of the
\* server it asked, so storing them later does not go back.
LEMMA FetchStep ==
    ASSUME RInv, FetchMetrics \/ FetchPartially
    PROVE  RInv'
<1>1. /\ pc = "fetch" /\ pc' = "store"
      /\ UNCHANGED <<clock, figures, pod, closed, cancelled, metrics, target, late, stale>>
  BY DEF FetchMetrics, FetchPartially, servers, control, history
<1>2. target \in Address
  BY <1>1 DEF RInv, TargetInv
<1>3. PICK queue, kv, lora, max :
          /\ queue \in Families(target) \cup {<<>>} /\ kv \in Families(target) \cup {<<>>}
          /\ updated' = promToPodMetrics([queue |-> queue, kv |-> kv, lora |-> lora,
                                          max |-> max], metrics)
  BY DEF FetchMetrics, FetchPartially
<1> DEFINE now == [from |-> target, at |-> figures[target]]
<1>4. /\ updated'["queue"] = Scraped("queue", queue, metrics["queue"])
      /\ updated'["kv"] = Scraped("kv", kv, metrics["kv"])
  BY <1>3 DEF promToPodMetrics
<1>5. \A f \in Figures : updated'[f] \in {metrics[f], now}
  <2>1. Scraped("queue", queue, metrics["queue"]) \in {metrics["queue"], now}
    BY <1>3, ScrapedIsCurrent
  <2>2. Scraped("kv", kv, metrics["kv"]) \in {metrics["kv"], now}
    BY <1>3, ScrapedIsCurrent
  <2> QED
    BY <1>4, <2>1, <2>2 DEF Figures
<1>6. figures[target] \in Nat /\ target # None
  BY <1>2, RefresherAssumption DEF RInv, ServersInv
<1>7. ASSUME NEW f \in Figures
      PROVE  Past(updated'[f]) /\ Succeeds(metrics[f], updated'[f])
  <2>1. Past(metrics[f])
    BY DEF RInv, FigureInv
  <2>2. CASE updated'[f] = metrics[f]
    BY <2>1, <2>2 DEF Past, Succeeds
  <2>3. CASE updated'[f] = now
    <3>1. updated'[f].from = target /\ updated'[f].at = figures[target]
      BY <2>3
    <3> QED
      BY <2>1, <3>1, <1>2, <1>6 DEF Past, Succeeds
  <2> QED
    BY <1>5, <2>2, <2>3
<1>8. FigureInv'
  BY <1>1, <1>7 DEF RInv, FigureInv, Past, Succeeds
<1>9. ServersInv' /\ TargetInv' /\ LateInv' /\ StaleInv'
  BY <1>1 DEF RInv, ServersInv, TargetInv, LateInv, StaleInv, Stopped
<1> QED
  BY <1>8, <1>9 DEF RInv

\* The end of refreshMetrics stores what FetchMetrics returned.
LEMMA StoreStep ==
    ASSUME RInv, Store
    PROVE  RInv'
<1>1. /\ pc = "store" /\ pc' = "loop"
      /\ UNCHANGED <<clock, figures, pod, closed, cancelled>>
  BY DEF Store, servers, control
<1>2. ServersInv' /\ TargetInv'
  BY <1>1 DEF RInv, ServersInv, TargetInv
<1>3. FigureInv'
  BY <1>1 DEF Store, RInv, FigureInv, Past
<1>4. late = 0
  BY <1>1 DEF RInv, LateInv
<1>5. late' = 0 \/ (late' = 1 /\ Stopped')
  BY <1>1, <1>4 DEF Store, history, Stopped
<1>6. LateInv'
  BY <1>1, <1>5 DEF LateInv
<1>7. stale = 0 \/ (stale = 1 /\ target = pod)
  BY <1>1 DEF RInv, StaleInv
<1>8. stale' = 0 \/ stale' = 1
  BY <1>7 DEF Store, history
<1>9. StaleInv'
  BY <1>1, <1>8 DEF StaleInv
<1> QED
  BY <1>2, <1>3, <1>6, <1>9 DEF RInv

\* Every step of the goroutine, the servers and the reconcilers keeps it.
LEMMA RInvNext == RInv /\ [Next]_vars => RInv'
<1> SUFFICES ASSUME RInv, [Next]_vars PROVE RInv'
  OBVIOUS
<1> USE DEF RInv, ServersInv, TargetInv, FigureInv, LateInv, StaleInv, Stopped, Past, Succeeds
<1>1. ASSUME NEW a \in Address, LoadChanges(a) \/ ServerRestarts(a) PROVE RInv'
  BY <1>1, ServersStep
<1>2. CASE UpdatePod
  BY <1>2 DEF UpdatePod, servers, goroutine
<1>3. CASE PoolChanges
  BY <1>3 DEF PoolChanges, servers, goroutine, history
<1>4. CASE StopRefreshLoop \/ ParentDone
  BY <1>4 DEF StopRefreshLoop, ParentDone, servers, goroutine, history
<1>5. CASE Select
  BY <1>5 DEF Select, servers, control, history
<1>6. CASE PoolGet
  BY <1>6 DEF PoolGet, servers, control, history
<1>7. CASE GetPod
  BY <1>7 DEF GetPod, servers, control, history
<1>8. CASE FetchMetrics \/ FetchPartially
  BY <1>8, FetchStep
<1>9. CASE FetchFails
  BY <1>9 DEF FetchFails, servers, control, history
<1>10. CASE Store
  BY <1>10, StoreStep
<1>11. CASE UNCHANGED vars
  BY <1>11 DEF vars, servers, control, goroutine, history
<1> QED
  BY <1>1, <1>2, <1>3, <1>4, <1>5, <1>6, <1>7, <1>8, <1>9, <1>10, <1>11 DEF Next, Refresh

\* The figures are of the past of their server, and what is about to be stored
\* succeeds what is there, in every behaviour.
THEOREM RInvCorrect == Spec => []RInv
<1> QED
  BY RInvInit, RInvNext, PTL DEF Spec

\* Once the loop was told to stop, at most the scrape under way is stored.
THEOREM StopTakesEffectCorrect == Spec => []StopTakesEffect
<1>1. RInv => StopTakesEffect
  BY DEF RInv, LateInv, StopTakesEffect
<1> QED
  BY <1>1, RInvCorrect, PTL

\* Figures of a former address are stored at most once per move of the pod.
THEOREM OneStaleStoreCorrect == Spec => []OneStaleStore
<1>1. RInv => OneStaleStore
  BY DEF RInv, StaleInv, OneStaleStore
<1> QED
  BY <1>1, RInvCorrect, PTL

\* Only Store changes the metrics, and what it stores succeeds them.
LEMMA StoresSucceed ==
    ASSUME RInv, [Next]_vars, NEW f \in Figures
    PROVE  Succeeds(metrics[f], metrics'[f])
<1>1. metrics[f].from # None => metrics[f].at \in Nat
  BY DEF RInv, FigureInv, Past
<1>2. CASE Store
  BY <1>1, <1>2 DEF Store, RInv, FigureInv, Succeeds
<1>3. CASE UNCHANGED metrics
  BY <1>1, <1>3 DEF Succeeds
<1> QED
  BY <1>2, <1>3 DEF Next, Refresh, LoadChanges, ServerRestarts, UpdatePod, PoolChanges,
     StopRefreshLoop, ParentDone, Select, PoolGet, GetPod, FetchMetrics, FetchPartially, FetchFails, vars

\* No page, whatever samples it has or lacks, and no failed scrape replaces a
\* figure by an older one of the same server or by none.
THEOREM NeverBackwardCorrect == Spec => NeverBackward
<1> DEFINE Forward == \A f \in {"queue", "kv"} :
        \/ metrics[f].from = None
        \/ /\ metrics'[f].from # None
           /\ metrics'[f].from = metrics[f].from => metrics'[f].at >= metrics[f].at
<1>1. RInv /\ [Next]_vars => [Forward]_vars
  BY StoresSucceed DEF Succeeds, Figures
<1> QED
  BY <1>1, RInvCorrect, PTL DEF Spec, NeverBackward
=============================================================================
