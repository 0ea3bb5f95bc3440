--------------------------- MODULE DecisionProofs ---------------------------
(***************************************************************************)
(* What holds of every decision: for device lists of any length, any       *)
(* records, answers and thresholds, and any number of claimants and        *)
(* levels.                                                                 *)
(***************************************************************************)
EXTENDS Decision, ArbiterProofs, FiniteSetTheorems

(***************************************************************************)
(* The loops of the arbiter.  An induction over the slice is an induction  *)
(* over the behaviour that gathers it, one claim at a time.                *)
(***************************************************************************)

Claims == {Intent(c, l) : c \in Claimants, l \in Levels}

\* f is what the running minimum over s computes.
Runs(f, s) ==
  f = [n \in DOMAIN s |->
         IF n = 1 THEN s[1].level
         ELSE IF s[n].level < f[n - 1] THEN s[n].level ELSE f[n - 1]]

Least(s) == Meet(LevelsOf(Intents(s)))

\* The running minimum exists, and ends in the meet.
Computed(s) ==
  s # <<>> => /\ \E f : Runs(f, s)
              /\ \A f : Runs(f, s) => f[Len(s)] = Least(s)

\* A claim is a record of two fields.
LEMMA ClaimFields ==
  ASSUME NEW i \in Claims
  PROVE  i.level \in Levels /\ i.level \in Nat /\ i.claimant \in Claimants
BY LevelsAreNaturals DEF Claims, Intent

\* The claims of a slice are those of the slice before, and the one appended.
LEMMA IntentsOfAppend ==
  ASSUME NEW s \in Seq(Claims), NEW i \in Claims
  PROVE  Intents(Append(s, i)) = Intents(s) \cup {i}
<1>. DEFINE t == Append(s, i)
            n == Len(s)
<1>1. n \in Nat /\ DOMAIN s = 1..n /\ DOMAIN t = 1..(n + 1)
  OBVIOUS
<1>2. t[n + 1] = i /\ \A m \in 1..n : t[m] = s[m]
  OBVIOUS
<1>. HIDE DEF t, n
<1>3. DOMAIN t = DOMAIN s \cup {n + 1}
  BY <1>1
<1>4. {t[m] : m \in DOMAIN t} = {s[m] : m \in DOMAIN s} \cup {i}
  BY <1>1, <1>2, <1>3
<1>. QED  BY <1>4 DEF Intents, ToSet, t

\* The claims of a slice that has any are some, each with a natural level.
LEMMA IntentsOfSlice ==
  ASSUME NEW s \in Seq(Claims), s # <<>>
  PROVE  /\ Intents(s) # {} /\ Intents(s) \subseteq Claims
         /\ LevelsOf(Intents(s)) # {} /\ LevelsOf(Intents(s)) \in SUBSET Nat
<1>1. Intents(s) # {} /\ Intents(s) \subseteq Claims
  <2>1. 1 \in DOMAIN s /\ \A n \in DOMAIN s : s[n] \in Claims
    OBVIOUS
  <2>. QED  BY <2>1 DEF Intents, ToSet
<1>2. \A i \in Intents(s) : i.level \in Nat
  BY <1>1, ClaimFields
<1>. QED  BY <1>1, <1>2 DEF LevelsOf

\* The meet of one level more is the lower of it and the meet before.
LEMMA MeetOfOneMore ==
  ASSUME NEW S \in SUBSET Nat, S # {}, NEW l \in Nat
  PROVE  Meet(S \cup {l}) = IF l < Meet(S) THEN l ELSE Meet(S)
<1>1. Meet(S) \in S /\ \A m \in S : Meet(S) <= m
  BY MeetIsLeast
<1>2. Meet(S \cup {l}) \in S \cup {l} /\ \A m \in S \cup {l} : Meet(S \cup {l}) <= m
  <2>1. S \cup {l} \in SUBSET Nat /\ S \cup {l} # {}
    OBVIOUS
  <2>. QED  BY <2>1, MeetIsLeast
<1>. DEFINE low == Meet(S)
            new == Meet(S \cup {l})
<1>3. /\ low \in S /\ \A m \in S : low <= m
      /\ new \in S \cup {l} /\ \A m \in S \cup {l} : new <= m
  BY <1>1, <1>2
<1>. HIDE DEF low, new
<1>4. new = IF l < low THEN l ELSE low
  <2>1. low \in Nat /\ new \in Nat /\ new <= l /\ new <= low
    BY <1>3
  <2>2. CASE new = l
    BY <2>1, <2>2
  <2>3. CASE new \in S
    BY <1>3, <2>1, <2>3
  <2>. QED  BY <1>3, <2>2, <2>3
<1>. QED  BY <1>4 DEF low, new

\* The meet of a slice with one claim more.
LEMMA LeastOfAppend ==
  ASSUME NEW s \in Seq(Claims), NEW i \in Claims
  PROVE  Least(Append(s, i)) = IF s # <<>> /\ ~(i.level < Least(s)) THEN Least(s) ELSE i.level
<1>1. LevelsOf(Intents(Append(s, i))) = LevelsOf(Intents(s)) \cup {i.level}
  BY IntentsOfAppend DEF LevelsOf
<1>2. i.level \in Nat
  BY ClaimFields
<1>3. CASE s = <<>>
  <2>1. LevelsOf(Intents(s)) = {}
    BY <1>3 DEF LevelsOf, Intents, ToSet
  <2>2. Meet({i.level}) = i.level
    <3>1. {i.level} \in SUBSET Nat /\ {i.level} # {}
      BY <1>2
    <3>2. Meet({i.level}) \in {i.level}
      BY <3>1, MeetIsLeast
    <3>. QED  BY <3>2
  <2>. QED  BY <1>1, <1>3, <2>1, <2>2 DEF Least
<1>4. CASE s # <<>>
  BY <1>1, <1>2, <1>4, IntentsOfSlice, MeetOfOneMore DEF Least
<1>. QED  BY <1>3, <1>4

\* One round of the loop: it goes on from where it was, whatever it computed.
LEMMA OneRound ==
  ASSUME NEW s \in Seq(Claims), NEW i \in Claims, Computed(s)
  PROVE  Computed(Append(s, i))
<1>. DEFINE n == Len(s)
            t == Append(s, i)
<1>1. /\ n \in Nat /\ DOMAIN s = 1..n /\ DOMAIN t = 1..(n + 1) /\ Len(t) = n + 1
      /\ t[n + 1] = i /\ \A m \in 1..n : t[m] = s[m]
      /\ n = 0 <=> s = <<>>
  OBVIOUS
<1>2. Least(t) = IF s # <<>> /\ ~(i.level < Least(s)) THEN Least(s) ELSE i.level
  BY LeastOfAppend
<1>3. CASE s = <<>>
  <2>1. n = 0 /\ Least(t) = i.level /\ t[1] = i
    BY <1>1, <1>2, <1>3
  <2>. HIDE DEF n, t
  <2>2. \A f : Runs(f, t) <=> f = [m \in 1..1 |-> i.level]
    BY <1>1, <2>1 DEF Runs
  <2>3. \A f : Runs(f, t) => f[Len(t)] = Least(t)
    <3>1. Len(t) = 1
      BY <1>1, <2>1
    <3>2. 1 \in 1..1
      OBVIOUS
    <3>. QED  BY <2>1, <2>2, <3>1, <3>2
  <2>4. \E f : Runs(f, t)
    BY <2>2
  <2>5. Computed(t)
    BY <2>3, <2>4 DEF Computed
  <2>. QED  BY <2>5 DEF t
<1>4. CASE s # <<>>
  <2>1. PICK g : Runs(g, s)
    BY <1>4 DEF Computed
  <2>2. \A f : Runs(f, s) => f[n] = Least(s)
    BY <1>4 DEF Computed
  <2>. DEFINE lower(l) == IF i.level < l THEN i.level ELSE l
              h == [m \in 1..(n + 1) |-> IF m = n + 1 THEN lower(g[n]) ELSE g[m]]
  <2>. HIDE DEF n, t
  <2>3. n >= 1 /\ n \in Nat
    BY <1>1, <1>4
  <2>4. Runs(h, t)
    <3>1. g = [m \in 1..n |-> IF m = 1 THEN s[1].level
                              ELSE IF s[m].level < g[m - 1] THEN s[m].level ELSE g[m - 1]]
      BY <1>1, <2>1 DEF Runs
    <3>2. ASSUME NEW m \in 1..(n + 1)
          PROVE  h[m] = IF m = 1 THEN t[1].level
                        ELSE IF t[m].level < h[m - 1] THEN t[m].level ELSE h[m - 1]
      <4>1. CASE m = n + 1
        <5>1. m # 1 /\ m - 1 = n /\ h[n] = g[n] /\ t[m] = i /\ h[m] = lower(g[n])
          BY <1>1, <2>3, <4>1
        <5>. QED  BY <5>1
      <4>2. CASE m \in 1..n
        <5>1. h[m] = g[m] /\ t[m] = s[m] /\ t[1] = s[1]
          BY <1>1, <2>3, <4>2
        <5>2. m # 1 => h[m - 1] = g[m - 1]
          BY <2>3, <4>2
        <5>3. g[m] = IF m = 1 THEN s[1].level
                     ELSE IF s[m].level < g[m - 1] THEN s[m].level ELSE g[m - 1]
          BY <3>1, <4>2
        <5>. HIDE DEF h
        <5>. QED  BY <5>1, <5>2, <5>3
      <4>. QED  BY <2>3, <4>1, <4>2
    <3>. QED  BY <1>1, <3>2 DEF Runs
  <2>5. ASSUME NEW f, Runs(f, t) PROVE f[n + 1] = Least(t)
    <3>. DEFINE e == [m \in 1..n |-> f[m]]
    <3>1. f = [m \in 1..(n + 1) |-> IF m = 1 THEN t[1].level
                                    ELSE IF t[m].level < f[m - 1] THEN t[m].level ELSE f[m - 1]]
      BY <1>1, <2>5 DEF Runs
    <3>2. ASSUME NEW m \in 1..n
          PROVE  e[m] = IF m = 1 THEN s[1].level
                        ELSE IF s[m].level < e[m - 1] THEN s[m].level ELSE e[m - 1]
      <4>1. f[m] = IF m = 1 THEN t[1].level
                   ELSE IF t[m].level < f[m - 1] THEN t[m].level ELSE f[m - 1]
        <5>1. m \in 1..(n + 1)
          BY <2>3
        <5>. QED  BY <3>1, <5>1
      <4>2. e[m] = f[m] /\ t[m] = s[m] /\ t[1] = s[1]
        BY <1>1, <2>3
      <4>3. m # 1 => e[m - 1] = f[m - 1]
        BY <2>3
      <4>. HIDE DEF e
      <4>. QED  BY <4>1, <4>2, <4>3
    <3>3. Runs(e, s)
      BY <1>1, <3>2 DEF Runs
    <3>4. f[n] = Least(s)
      <4>1. e[n] = f[n]
        BY <2>3
      <4>. QED  BY <2>2, <3>3, <4>1
    <3>5. f[n + 1] = IF i.level < f[n] THEN i.level ELSE f[n]
      <4>1. n + 1 \in 1..(n + 1) /\ n + 1 # 1 /\ (n + 1) - 1 = n
        BY <2>3
      <4>2. f[n + 1] = IF t[n + 1].level < f[n] THEN t[n + 1].level ELSE f[n]
        BY <3>1, <4>1
      <4>. QED  BY <1>1, <4>2
    <3>. QED  BY <1>2, <1>4, <3>4, <3>5
  <2>6. Computed(t)
    <3>. HIDE DEF h
    <3>. QED  BY <1>1, <2>4, <2>5 DEF Computed
  <2>. QED  BY <2>6 DEF t
<1>. QED  BY <1>3, <1>4

\* So the loops resolve what the set of claims resolves to.
LEMMA LoopResolves ==
  ASSUME NEW s \in Seq(Claims), s # <<>>, Computed(s)
  PROVE  ResolveLoop(s) = Resolve(Intents(s))
<1>1. Runs(LowestSoFar(s), s)
  <2>1. \E f : Runs(f, s)
    BY DEF Computed
  <2>2. LowestSoFar(s) = CHOOSE f : Runs(f, s)
    BY DEF LowestSoFar, Runs
  <2>. QED  BY <2>1, <2>2
<1>2. LowestSoFar(s)[Len(s)] = Meet(LevelsOf(Intents(s)))
  BY <1>1 DEF Computed, Least
<1>. QED  BY <1>2 DEF ResolveLoop, Resolve

\* What has been gathered are claims, one of each claimant, and the loops
\* resolve them.
Collected ==
  /\ holding \subseteq Claimants
  /\ gathered \in Seq(Claims)
  /\ \A i, j \in Intents(gathered) : i.claimant = j.claimant => i = j
  /\ Computed(gathered)

\* Nothing has been gathered yet.
LEMMA NothingCollected ==
  ASSUME gathered' = <<>>, holding' \subseteq Claimants
  PROVE  Collected'
<1>1. Intents(<<>>) = {} /\ <<>> \in Seq(Claims) /\ Computed(<<>>)
  BY DEF Intents, ToSet, Computed
<1>. QED  BY <1>1 DEF Collected

\* At first there is no claim.
LEMMA CollectedInit == DecisionInit => Collected
<1>1. Intents(<<>>) = {} /\ <<>> \in Seq(Claims) /\ Computed(<<>>)
  BY DEF Intents, ToSet, Computed
<1>. QED  BY <1>1 DEF DecisionInit, Collected

\* A claim is gathered after the others, of a claimant that has none yet.
LEMMA CollectedStep == Collected /\ [DecisionNext]_decisionVars => Collected'
<1>. SUFFICES ASSUME Collected, [DecisionNext]_decisionVars PROVE Collected'
  OBVIOUS
<1>1. CASE Judge \/ Decided
  BY <1>1, NothingCollected DEF Judge, Decided
<1>2. CASE Read \/ UNCHANGED decisionVars
  BY <1>2 DEF Read, decisionVars, Collected
<1>3. CASE GatherHolding
  <2>1. PICK c \in holding, l \in Levels : Gather(c, l)
    BY <1>3 DEF GatherHolding
  <2>. DEFINE i == Intent(c, l)
  <2>2. i \in Claims /\ i.claimant = c
    BY DEF Collected, Claims, Intent
  <2>3. gathered' = Append(gathered, i) /\ \A j \in Intents(gathered) : j.claimant # c
    BY <2>1 DEF Gather, ClaimantsOf
  <2>. HIDE DEF i
  <2>4. gathered' \in Seq(Claims) /\ Computed(gathered')
    BY <2>2, <2>3, OneRound DEF Collected
  <2>5. Intents(gathered') = Intents(gathered) \cup {i}
    BY <2>2, <2>3, IntentsOfAppend DEF Collected
  <2>6. \A j, k \in Intents(gathered') : j.claimant = k.claimant => j = k
    BY <2>2, <2>3, <2>5 DEF Collected
  <2>7. holding' = holding
    BY <1>3 DEF GatherHolding
  <2>. QED  BY <2>4, <2>6, <2>7 DEF Collected
<1>. QED  BY <1>1, <1>2, <1>3 DEF DecisionNext

\* Every slice the reconciler gathers is one the loops resolve.
LEMMA AlwaysCollected == DecisionSpec => []Collected
BY CollectedInit, CollectedStep, PTL DEF DecisionSpec

\* The resolution is that of the set of claims: the order in which they were
\* gathered from the cache does not matter, for any number of claimants.
THEOREM OrderIndependentHolds == DecisionSpec => []OrderIndependent
<1>1. Collected => OrderIndependent
  BY LoopResolves DEF Collected, OrderIndependent
<1>. QED  BY <1>1, AlwaysCollected, PTL

\* What a resolution says of the claims.
LEMMA Resolution ==
  ASSUME NEW G, G \subseteq Claims, G # {}
  PROVE  LET r == Resolve(G) IN
         /\ r.level \in Nat
         /\ \A i \in G : r.level <= i.level
         /\ \E i \in G : i.level = r.level
         /\ \A c : c \in r.winners <=> \E i \in G : i.claimant = c /\ i.level = r.level
         /\ \A c : c \in r.deferred <=> \E i \in G : i.claimant = c /\ i.level # r.level
<1>. DEFINE level == Meet(LevelsOf(G))
<1>1. LevelsOf(G) \in SUBSET Nat /\ LevelsOf(G) # {}
  BY ClaimFields DEF LevelsOf
<1>2. level \in LevelsOf(G) /\ \A m \in LevelsOf(G) : level <= m
  BY <1>1, MeetIsLeast
<1>3. /\ Resolve(G).level = level
      /\ Resolve(G).winners = ClaimantsOf({i \in G : i.level = level})
      /\ Resolve(G).deferred = ClaimantsOf({i \in G : i.level # level})
  BY DEF Resolve
<1>. HIDE DEF level
<1>. QED  BY <1>1, <1>2, <1>3 DEF ClaimantsOf, LevelsOf

\* A preview names as newly deferred exactly the present winners when the added
\* claim undercuts them, and blames them when it does not win itself.
THEOREM PreviewHolds == DecisionSpec => []PreviewIsTheCounterfactual
<1>1. Collected => PreviewIsTheCounterfactual
  <2>. SUFFICES ASSUME Collected, gathered # <<>>, NEW l \in Levels,
                       NEW c \in Claimants \ ClaimantsOf(Intents(gathered))
                PROVE  LET now == ResolveLoop(gathered)
                           seen == Preview(c, l)
                       IN  /\ seen.wouldDefer = (IF l < now.level THEN now.winners ELSE {})
                           /\ seen.deferredBy = (IF l > now.level THEN now.winners ELSE {})
                           /\ seen.effective <= l
    BY DEF PreviewIsTheCounterfactual
  <2>. DEFINE i == Intent(c, l)
              G == Intents(gathered)
              now == Resolve(G)
              then == Resolve(G \cup {i})
  <2>1. i \in Claims /\ i.claimant = c /\ i.level = l /\ l \in Nat
    BY LevelsAreNaturals DEF Claims, Intent
  <2>2. gathered \in Seq(Claims) /\ G \subseteq Claims /\ G # {}
    BY IntentsOfSlice DEF Collected
  <2>3. \A j \in G : j.claimant # c
    BY DEF ClaimantsOf
  <2>4. \A j, k \in G : j.claimant = k.claimant => j = k
    BY DEF Collected
  <2>5. ResolveLoop(gathered) = now
    BY LoopResolves DEF Collected
  <2>6. ResolveLoop(Append(gathered, i)) = then
    <3>1. Append(gathered, i) \in Seq(Claims) /\ Append(gathered, i) # <<>>
      BY <2>1, <2>2
    <3>. HIDE DEF i
    <3>. QED  BY <2>1, <2>2, <3>1, OneRound, LoopResolves, IntentsOfAppend DEF Collected
  <2>7. /\ Preview(c, l).effective = then.level
        /\ Preview(c, l).deferredBy = IF then.level # l THEN then.winners \ {c} ELSE {}
        /\ Preview(c, l).wouldDefer = (then.deferred \ now.deferred) \ {c}
    BY <2>5, <2>6 DEF Preview, NewlyDeferred, DeferredOf
  <2>. HIDE DEF i, G
  <2>8. /\ now.level \in Nat
        /\ \A j \in G : now.level <= j.level
        /\ \E j \in G : j.level = now.level
        /\ \A b : b \in now.winners <=> \E j \in G : j.claimant = b /\ j.level = now.level
        /\ \A b : b \in now.deferred <=> \E j \in G : j.claimant = b /\ j.level # now.level
    BY <2>2, Resolution
  <2>9. LET G1 == G \cup {i} IN
        /\ then.level \in Nat
        /\ \A j \in G1 : then.level <= j.level
        /\ \E j \in G1 : j.level = then.level
        /\ \A b : b \in then.winners <=> \E j \in G1 : j.claimant = b /\ j.level = then.level
        /\ \A b : b \in then.deferred <=> \E j \in G1 : j.claimant = b /\ j.level # then.level
    <3>1. G \cup {i} \subseteq Claims /\ G \cup {i} # {}
      BY <2>1, <2>2
    <3>. QED  BY <3>1, Resolution
  <2>. HIDE DEF now, then
  <2>0. \A j \in G : j.level \in Nat
    BY <2>2, ClaimFields
  <2>10. then.level = IF l < now.level THEN l ELSE now.level
    BY <2>0, <2>1, <2>8, <2>9
  <2>11. then.level <= l
    BY <2>1, <2>9
  <2>12. CASE l < now.level
    <3>1. then.level = l /\ ~(l > now.level)
      BY <2>1, <2>8, <2>10, <2>12
    <3>2. \A j \in G : j.level # l
      BY <2>0, <2>1, <2>8, <2>12
    <3>3. (then.deferred \ now.deferred) \ {c} = now.winners
      BY <2>1, <2>3, <2>4, <2>8, <2>9, <3>1, <3>2
    <3>. QED  BY <2>5, <2>7, <2>11, <2>12, <3>1, <3>3
  <2>13. CASE ~(l < now.level)
    <3>1. then.level = now.level /\ (then.level # l <=> l > now.level)
      BY <2>1, <2>8, <2>10, <2>13
    <3>2. (then.deferred \ now.deferred) \ {c} = {}
      BY <2>1, <2>8, <2>9, <3>1
    <3>3. then.level # l => then.winners \ {c} = now.winners
      BY <2>1, <2>3, <2>8, <2>9, <3>1
    <3>. QED  BY <2>5, <2>7, <2>11, <2>13, <3>1, <3>2, <3>3
  <2>. QED  BY <2>12, <2>13
<1>. QED  BY <1>1, AlwaysCollected, PTL

(***************************************************************************)
(* A reading of the console.  Nothing is assumed of a device record: each  *)
(* block of stateFromDevices has heads of its own among the keys.          *)
(***************************************************************************)

\* What is said under keys that begin with one of the heads, and one value of
\* each key only.
Speaks(view, heads) ==
  /\ \A said \in view : said = <<said[1], said[2]>> /\ said[1][1] \in heads
  /\ \A p, q \in view : p[1] = q[1] => p = q

\* One key that is published, or none.
LEMMA Published ==
  ASSUME NEW key, NEW value, NEW said
  PROVE  said \in Publish(key, value) <=> value # "" /\ said = <<key, value>>
BY DEF Publish

\* A block of one key.
LEMMA PublishSpeaks ==
  ASSUME NEW head, NEW value
  PROVE  Speaks(Publish(<<head>>, value), {head})
<1>1. \A said \in Publish(<<head>>, value) : said = <<<<head>>, value>>
  BY Published
<1>. QED  BY <1>1 DEF Speaks

\* Silence speaks under any heads.
LEMMA SilenceSpeaks == \A H : Speaks({}, H)
BY DEF Speaks

\* Blocks that have no head in common say nothing of each other's keys.
LEMMA SpeakTogether ==
  ASSUME NEW V, NEW W, NEW H, NEW K, Speaks(V, H), Speaks(W, K), H \cap K = {}
  PROVE  Speaks(V \cup W, H \cup K)
BY DEF Speaks

\* The gateway.
LEMMA GatewaySpeaks == ASSUME NEW list PROVE Speaks(GatewayKeys(list), {"wan", "isp"})
<1>. DEFINE d == CHOOSE d \in Gateway(list) : TRUE
            wan == Publish(<<"wan">>, WanFrom(d).value)
            isp == Publish(<<"isp">>, IspFrom(d))
<1>1. Speaks(wan, {"wan"}) /\ Speaks(isp, {"isp"})
  BY PublishSpeaks
<1>2. GatewayKeys(list) = IF Gateway(list) = {} THEN {} ELSE wan \cup isp
  BY DEF GatewayKeys
<1>. HIDE DEF wan, isp
<1>3. Speaks(wan \cup isp, {"wan"} \cup {"isp"})
  BY <1>1, SpeakTogether
<1>. QED  BY <1>2, <1>3, SilenceSpeaks DEF Speaks

\* The modem.
LEMMA ModemSpeaks == ASSUME NEW list PROVE Speaks(ModemKeys(list), {"data"})
<1>. DEFINE modems == FirstOf(list, {i \in DOMAIN list : list[i].modem # {}})
            value == DataUsageFrom(CHOOSE d \in modems : TRUE)
<1>1. ModemKeys(list) = IF modems = {} THEN {} ELSE Publish(<<"data", "usage">>, value)
  BY DEF ModemKeys
<1>. HIDE DEF modems, value
<1>2. \A said \in ModemKeys(list) : said = <<<<"data", "usage">>, value>>
  <2>1. \A said \in Publish(<<"data", "usage">>, value) : said = <<<<"data", "usage">>, value>>
    BY Published
  <2>. QED  BY <1>1, <2>1
<1>. QED  BY <1>2 DEF Speaks

\* The UPS: four keys, each of its own.
LEMMA UPSSpeaks == ASSUME NEW list PROVE Speaks(UPSKeys(list), {"ups"})
<1>. DEFINE found == FirstOf(list, {i \in DOMAIN list : list[i].ups # {}})
            u == CHOOSE u \in (CHOOSE d \in found : TRUE).ups : TRUE
            status == IF u.onBattery THEN "on-battery" ELSE "online"
            battery == BatteryLevel(u.charge)
            runtime == RuntimeLevel(u.runtime)
            output == LoadLevel(u.output, u.budget)
<1>1. UPSKeys(list) = IF found = {} THEN {}
        ELSE Publish(<<"ups">>, status) \cup Publish(<<"ups", "battery">>, battery)
               \cup Publish(<<"ups", "runtime">>, runtime) \cup Publish(<<"ups", "load">>, output)
  BY DEF UPSKeys
<1>. HIDE DEF found, status, battery, runtime, output
<1>2. \A said \in UPSKeys(list) :
        \/ said = <<<<"ups">>, status>>
        \/ said = <<<<"ups", "battery">>, battery>>
        \/ said = <<<<"ups", "runtime">>, runtime>>
        \/ said = <<<<"ups", "load">>, output>>
  <2>1. /\ \A said \in Publish(<<"ups">>, status) : said = <<<<"ups">>, status>>
        /\ \A said \in Publish(<<"ups", "battery">>, battery) :
             said = <<<<"ups", "battery">>, battery>>
        /\ \A said \in Publish(<<"ups", "runtime">>, runtime) :
             said = <<<<"ups", "runtime">>, runtime>>
        /\ \A said \in Publish(<<"ups", "load">>, output) : said = <<<<"ups", "load">>, output>>
    BY Published
  <2>. QED  BY <1>1, <2>1
<1>3. \A said \in UPSKeys(list) : said = <<said[1], said[2]>> /\ said[1][1] = "ups"
  BY <1>2
<1>4. ASSUME NEW p \in UPSKeys(list), NEW q \in UPSKeys(list), p[1] = q[1] PROVE p = q
  <2>1. /\ <<"ups">> # <<"ups", "battery">> /\ <<"ups">> # <<"ups", "runtime">>
        /\ <<"ups">> # <<"ups", "load">> /\ <<"ups", "battery">> # <<"ups", "runtime">>
        /\ <<"ups", "battery">> # <<"ups", "load">> /\ <<"ups", "runtime">> # <<"ups", "load">>
    OBVIOUS
  <2>. QED  BY <1>2, <1>4, <2>1
<1>. QED  BY <1>3, <1>4 DEF Speaks

\* The devices by name: one value of each name that is not shared.
LEMMA DeviceSpeaks == ASSUME NEW list PROVE Speaks(DeviceKeys(list), {"devices", "device"})
<1>. DEFINE alone(i) == list[i].name # "" /\ \A j \in Counted(list) \ {i} : list[j].name # list[i].name
            all == Publish(<<"devices">>, IF \E i \in Counted(list) : list[i].state = "offline"
                                          THEN "degraded" ELSE "all-online")
<1>1. PerDevice(list) =
        {<<<<"device", list[i].name>>, list[i].state>> : i \in {i \in Counted(list) : alone(i)}}
  BY DEF PerDevice
<1>2. Speaks(PerDevice(list), {"device"})
  <2>1. ASSUME NEW p \in PerDevice(list), NEW q \in PerDevice(list), p[1] = q[1] PROVE p = q
    <3>1. PICK i \in Counted(list) : alone(i) /\ p = <<<<"device", list[i].name>>, list[i].state>>
      BY <1>1
    <3>2. PICK j \in Counted(list) : alone(j) /\ q = <<<<"device", list[j].name>>, list[j].state>>
      BY <1>1
    <3>3. list[i].name = list[j].name
      BY <2>1, <3>1, <3>2
    <3>. QED  BY <3>1, <3>2, <3>3
  <2>2. ASSUME NEW p \in PerDevice(list) PROVE p = <<p[1], p[2]>> /\ p[1][1] = "device"
    <3>1. PICK i \in Counted(list) : p = <<<<"device", list[i].name>>, list[i].state>>
      BY <1>1
    <3>. QED  BY <3>1
  <2>. QED  BY <2>1, <2>2 DEF Speaks
<1>3. Speaks(all, {"devices"})
  BY PublishSpeaks
<1>4. DeviceKeys(list) = IF Counted(list) = {} THEN {}
                         ELSE all \cup (IF PerDeviceKeys THEN PerDevice(list) ELSE {})
  BY DEF DeviceKeys
<1>. HIDE DEF all
<1>5. Speaks(all \cup PerDevice(list), {"devices"} \cup {"device"})
  BY <1>2, <1>3, SpeakTogether
<1>. QED  BY <1>3, <1>4, <1>5 DEF Speaks

\* The outlets by address: one value of each address that is not shared.
LEMMA OutletSpeaks == ASSUME NEW list PROVE Speaks(OutletKeys(list), {"outlet"})
<1>. DEFINE table == OutletTable(list)
            readable == {i \in DOMAIN table : OutletSuffix(table[i]) # "" /\ table[i].relay # ""}
            alone == {i \in readable :
                        \A j \in readable \ {i} : OutletSuffix(table[j]) # OutletSuffix(table[i])}
<1>1. OutletKeys(list) = {<<<<"outlet", OutletSuffix(table[i])>>, table[i].relay>> : i \in alone}
  BY DEF OutletKeys
<1>2. \A i, j \in alone : OutletSuffix(table[i]) = OutletSuffix(table[j]) => i = j
  OBVIOUS
<1>. HIDE DEF table, alone
<1>3. ASSUME NEW p \in OutletKeys(list), NEW q \in OutletKeys(list), p[1] = q[1] PROVE p = q
  <2>1. PICK i \in alone : p = <<<<"outlet", OutletSuffix(table[i])>>, table[i].relay>>
    BY <1>1
  <2>2. PICK j \in alone : q = <<<<"outlet", OutletSuffix(table[j])>>, table[j].relay>>
    BY <1>1
  <2>3. OutletSuffix(table[i]) = OutletSuffix(table[j])
    BY <1>3, <2>1, <2>2
  <2>. QED  BY <1>2, <2>1, <2>2, <2>3
<1>4. \A p \in OutletKeys(list) : p = <<p[1], p[2]>> /\ p[1][1] = "outlet"
  BY <1>1
<1>. QED  BY <1>3, <1>4 DEF Speaks

\* The tallies of one key.
LEMMA TalliesSpeak ==
  ASSUME NEW list
  PROVE  /\ Speaks(FirmwareKeys(list), {"firmware"})
         /\ Speaks(TemperatureKeys(list), {"temperature"})
         /\ Speaks(PoEKeys(list), {"poe"})
BY PublishSpeaks, SilenceSpeaks DEF FirmwareKeys, TemperatureKeys, PoEKeys

\* How the keys of the device list begin.
DeviceHeads ==
  {"wan", "isp", "data", "ups", "devices", "device", "firmware", "temperature", "poe", "outlet"}

\* The device list speaks under the heads of its blocks.
LEMMA DevicesSpeak == ASSUME NEW list PROVE Speaks(StateFromDevices(list), DeviceHeads)
<1>1. Speaks(GatewayKeys(list) \cup ModemKeys(list), {"wan", "isp", "data"})
  <2>1. {"wan", "isp"} \cap {"data"} = {} /\ {"wan", "isp"} \cup {"data"} = {"wan", "isp", "data"}
    OBVIOUS
  <2>2. Speaks(GatewayKeys(list) \cup ModemKeys(list), {"wan", "isp"} \cup {"data"})
    BY <2>1, GatewaySpeaks, ModemSpeaks, SpeakTogether
  <2>. QED  BY <2>1, <2>2
<1>2. Speaks(UPSKeys(list) \cup DeviceKeys(list), {"ups", "devices", "device"})
  <2>1. /\ {"ups"} \cap {"devices", "device"} = {}
        /\ {"ups"} \cup {"devices", "device"} = {"ups", "devices", "device"}
    OBVIOUS
  <2>2. Speaks(UPSKeys(list) \cup DeviceKeys(list), {"ups"} \cup {"devices", "device"})
    BY <2>1, UPSSpeaks, DeviceSpeaks, SpeakTogether
  <2>. QED  BY <2>1, <2>2
<1>3. Speaks(FirmwareKeys(list) \cup TemperatureKeys(list), {"firmware", "temperature"})
  <2>1. /\ {"firmware"} \cap {"temperature"} = {}
        /\ {"firmware"} \cup {"temperature"} = {"firmware", "temperature"}
    OBVIOUS
  <2>2. Speaks(FirmwareKeys(list) \cup TemperatureKeys(list), {"firmware"} \cup {"temperature"})
    BY <2>1, TalliesSpeak, SpeakTogether
  <2>. QED  BY <2>1, <2>2
<1>4. Speaks(PoEKeys(list) \cup OutletKeys(list), {"poe", "outlet"})
  <2>1. {"poe"} \cap {"outlet"} = {} /\ {"poe"} \cup {"outlet"} = {"poe", "outlet"}
    OBVIOUS
  <2>2. Speaks(PoEKeys(list) \cup OutletKeys(list), {"poe"} \cup {"outlet"})
    BY <2>1, TalliesSpeak, OutletSpeaks, SpeakTogether
  <2>. QED  BY <2>1, <2>2
<1>. DEFINE V == GatewayKeys(list) \cup ModemKeys(list)
            W == UPSKeys(list) \cup DeviceKeys(list)
            X == FirmwareKeys(list) \cup TemperatureKeys(list)
            Y == PoEKeys(list) \cup OutletKeys(list)
            H == {"wan", "isp", "data"}
            I == {"ups", "devices", "device"}
            J == {"firmware", "temperature"}
            K == {"poe", "outlet"}
<1>5. StateFromDevices(list) = (V \cup W) \cup (X \cup Y)
  BY DEF StateFromDevices
<1>6. /\ H \cap I = {} /\ J \cap K = {} /\ (H \cup I) \cap (J \cup K) = {}
      /\ (H \cup I) \cup (J \cup K) = DeviceHeads
  BY DEF DeviceHeads
<1>7. Speaks(V, H) /\ Speaks(W, I) /\ Speaks(X, J) /\ Speaks(Y, K)
  BY <1>1, <1>2, <1>3, <1>4
<1>. HIDE DEF V, W, X, Y, H, I, J, K
<1>8. Speaks(V \cup W, H \cup I) /\ Speaks(X \cup Y, J \cup K)
  BY <1>6, <1>7, SpeakTogether
<1>. QED  BY <1>5, <1>6, <1>8, SpeakTogether

\* Of the uplink the device list says which it is and nothing of its quality.
LEMMA NoQualityFromDevices ==
  ASSUME NEW list, NEW said \in StateFromDevices(list)
  PROVE  said[1] # <<"wan", "quality">>
<1>1. CASE said \in GatewayKeys(list)
  <2>1. <<"wan">> # <<"wan", "quality">> /\ <<"isp">> # <<"wan", "quality">>
    OBVIOUS
  <2>2. said[1] \in {<<"wan">>, <<"isp">>}
    <3>. DEFINE d == CHOOSE d \in Gateway(list) : TRUE
                wan == WanFrom(d).value
                isp == IspFrom(d)
    <3>1. said \in Publish(<<"wan">>, wan) \/ said \in Publish(<<"isp">>, isp)
      BY <1>1 DEF GatewayKeys
    <3>. HIDE DEF wan, isp
    <3>2. said = <<<<"wan">>, wan>> \/ said = <<<<"isp">>, isp>>
      BY <3>1, Published
    <3>. QED  BY <3>2
  <2>. QED  BY <2>1, <2>2
<1>2. CASE said \notin GatewayKeys(list)
  <2>1. said[1][1] # "wan"
    BY <1>2, ModemSpeaks, UPSSpeaks, DeviceSpeaks, TalliesSpeak, OutletSpeaks
       DEF StateFromDevices, Speaks
  <2>. QED  BY <2>1
<1>. QED  BY <1>1, <1>2

\* What the health answer adds: the internet, the wifi, and the quality of the
\* uplink that the devices resolved.
LEMMA HealthSpeaks ==
  ASSUME NEW answer, NEW uplink
  PROVE  /\ \A said \in MergeHealth(answer, uplink) :
              /\ said = <<said[1], said[2]>>
              /\ said[1] \in {<<"internet">>, <<"wifi">>, <<"wan", "quality">>}
              /\ said[1] = <<"wan", "quality">> <=> said \in QualityKeys(answer, uplink)
         /\ \A p, q \in MergeHealth(answer, uplink) : p[1] = q[1] => p = q
<1>. DEFINE internet == InternetFrom(answer.www)
            wifi == WifiFrom(answer.wlan)
            quality == WanQualityFrom(CHOOSE e \in LiveEntry(answer, uplink) : TRUE)
<1>1. \A said \in QualityKeys(answer, uplink) : said = <<<<"wan", "quality">>, quality>>
  BY DEF QualityKeys, Publish
<1>2. MergeHealth(answer, uplink) =
        Publish(<<"internet">>, internet) \cup Publish(<<"wifi">>, wifi)
          \cup QualityKeys(answer, uplink)
  BY DEF MergeHealth
<1>. HIDE DEF internet, wifi, quality
<1>3. /\ <<"internet">> # <<"wifi">> /\ <<"internet">> # <<"wan", "quality">>
      /\ <<"wifi">> # <<"wan", "quality">>
  OBVIOUS
<1>4. \A said \in MergeHealth(answer, uplink) :
        \/ said = <<<<"internet">>, internet>>
        \/ said = <<<<"wifi">>, wifi>>
        \/ said \in QualityKeys(answer, uplink) /\ said = <<<<"wan", "quality">>, quality>>
  <2>1. \A said \in Publish(<<"internet">>, internet) : said = <<<<"internet">>, internet>>
    BY Published
  <2>2. \A said \in Publish(<<"wifi">>, wifi) : said = <<<<"wifi">>, wifi>>
    BY Published
  <2>. SUFFICES ASSUME NEW said \in MergeHealth(answer, uplink)
                PROVE  \/ said = <<<<"internet">>, internet>>
                       \/ said = <<<<"wifi">>, wifi>>
                       \/ /\ said \in QualityKeys(answer, uplink)
                          /\ said = <<<<"wan", "quality">>, quality>>
    OBVIOUS
  <2>3. CASE said \in QualityKeys(answer, uplink)
    BY <1>1, <2>3
  <2>4. CASE said \in Publish(<<"internet">>, internet) \/ said \in Publish(<<"wifi">>, wifi)
    BY <2>1, <2>2, <2>4
  <2>5. \/ said \in QualityKeys(answer, uplink)
        \/ said \in Publish(<<"internet">>, internet) \/ said \in Publish(<<"wifi">>, wifi)
    BY <1>2
  <2>. QED  BY <2>3, <2>4, <2>5
<1>5. ASSUME NEW said \in MergeHealth(answer, uplink)
      PROVE  /\ said = <<said[1], said[2]>>
             /\ said[1] \in {<<"internet">>, <<"wifi">>, <<"wan", "quality">>}
             /\ said[1] = <<"wan", "quality">> <=> said \in QualityKeys(answer, uplink)
  BY <1>1, <1>3, <1>4
<1>6. ASSUME NEW p \in MergeHealth(answer, uplink), NEW q \in MergeHealth(answer, uplink),
             p[1] = q[1]
      PROVE  p = q
  BY <1>3, <1>4, <1>6
<1>. QED  BY <1>5, <1>6

\* A view in which nothing is lost, and one in which something is.
LEMMA Views ==
  /\ Sees({}) = StateFromDevices(devices) \cup MergeHealth(health, LiveUplink(devices))
  /\ Sees({"health"}) = StateFromDevices(devices)
  /\ Sees({"devices"}) = MergeHealth(health, NoSignal)
  /\ Sees(Endpoints) = {}
BY DEF Sees, Observed, Endpoints

\* Without the device list nothing is known of the quality of an uplink.
LEMMA NoQualityOfNoUplink == QualityKeys(health, NoSignal) = {}
BY DEF QualityKeys, NoSignal

\* The rest of the health answer does not depend on the uplink.
LEMMA HealthWithoutDevices ==
  /\ MergeHealth(health, NoSignal) \subseteq MergeHealth(health, LiveUplink(devices))
  /\ \A said \in MergeHealth(health, LiveUplink(devices)) :
       said \in MergeHealth(health, NoSignal) \/ said[1] = <<"wan", "quality">>
<1>1. MergeHealth(health, NoSignal) =
        Publish(<<"internet">>, InternetFrom(health.www))
          \cup Publish(<<"wifi">>, WifiFrom(health.wlan))
  BY NoQualityOfNoUplink DEF MergeHealth
<1>2. MergeHealth(health, LiveUplink(devices)) =
        MergeHealth(health, NoSignal) \cup QualityKeys(health, LiveUplink(devices))
  BY <1>1 DEF MergeHealth
<1>. QED  BY <1>2, HealthSpeaks

\* Losing an endpoint hides its keys and says nothing else, for every list of
\* devices and every answer.
THEOREM PartialViewHolds == DecisionSpec => []PartialViewOnlyHides
<1>1. PartialViewOnlyHides
  <2>. DEFINE whole == Sees({})
  <2>1. \A lost \in SUBSET Endpoints : lost \in {{}, {"devices"}, {"health"}, Endpoints}
    BY DEF Endpoints
  <2>2. \A lost \in SUBSET Endpoints : Sees(lost) \subseteq whole
    <3>1. /\ Sees({"health"}) \subseteq whole /\ Sees({"devices"}) \subseteq whole
          /\ Sees(Endpoints) \subseteq whole
      BY Views, HealthWithoutDevices
    <3>. QED  BY <2>1, <3>1
  <2>3. \A said \in whole :
          said \in Sees({"devices"}) \cup Sees({"health"}) \/ said[1] = <<"wan", "quality">>
    BY Views, HealthWithoutDevices
  <2>4. \A lost \in (SUBSET Endpoints) \ {{}} : <<"wan", "quality">> \notin KeysOf(Sees(lost))
    <3>1. \A said \in Sees({"health"}) : said[1] # <<"wan", "quality">>
      BY Views, NoQualityFromDevices
    <3>2. \A said \in Sees({"devices"}) : said[1] # <<"wan", "quality">>
      BY Views, HealthSpeaks, NoQualityOfNoUplink
    <3>3. \A said \in Sees(Endpoints) : said[1] # <<"wan", "quality">>
      BY Views
    <3>. SUFFICES ASSUME NEW lost \in (SUBSET Endpoints) \ {{}}, NEW said \in Sees(lost)
                  PROVE  said[1] # <<"wan", "quality">>
      BY DEF KeysOf
    <3>4. lost = {"devices"} \/ lost = {"health"} \/ lost = Endpoints
      <4>1. lost \in SUBSET Endpoints /\ lost # {}
        OBVIOUS
      <4>2. lost \in {{}, {"devices"}, {"health"}, Endpoints}
        BY <2>1, <4>1
      <4>. QED  BY <4>1, <4>2
    <3>. QED  BY <3>1, <3>2, <3>3, <3>4
  <2>. QED  BY <2>2, <2>3, <2>4 DEF PartialViewOnlyHides
<1>. QED  BY <1>1, PTL

\* What was resolved names its index; what was not names none.
LEMMA Resolved ==
  ASSUME NEW claims
  PROVE  /\ ResolveSignal(claims).value # "" =>
              Cardinality(claims) = 1 /\ ResolveSignal(claims).index = CHOOSE i \in claims : TRUE
         /\ ResolveSignal(claims).value = "" => ResolveSignal(claims) = NoSignal
BY DEF ResolveSignal, NoSignal

\* The uplink that a device resolves to, if its index is known, is one that the
\* device claims or names, and the only one of those.
LEMMA LiveIsClaimed ==
  ASSUME NEW d, WanFrom(d).index # 0
  PROVE  \/ /\ Cardinality(ClaimedUplinks(d)) = 1
            /\ WanFrom(d).index = CHOOSE i \in ClaimedUplinks(d) : TRUE
         \/ /\ Cardinality(NamedUplinks(d)) = 1
            /\ WanFrom(d).index = CHOOSE i \in NamedUplinks(d) : TRUE
<1>. DEFINE claimed == ResolveSignal(ClaimedUplinks(d))
            named == ResolveSignal(NamedUplinks(d))
<1>1. WanFrom(d) = IF claimed.value # "" THEN claimed
                   ELSE IF named.value # "" THEN named
                   ELSE IF ClaimedUplinks(d) = {} THEN NoSignal
                   ELSE [value |-> "backup", index |-> 0]
  BY DEF WanFrom
<1>2. /\ claimed.value # "" => /\ Cardinality(ClaimedUplinks(d)) = 1
                               /\ claimed.index = CHOOSE i \in ClaimedUplinks(d) : TRUE
      /\ named.value # "" => /\ Cardinality(NamedUplinks(d)) = 1
                             /\ named.index = CHOOSE i \in NamedUplinks(d) : TRUE
  BY Resolved
<1>. HIDE DEF claimed, named
<1>3. claimed.value # "" \/ named.value # ""
  <2>1. NoSignal.index = 0 /\ [value |-> "backup", index |-> 0].index = 0
    BY DEF NoSignal
  <2>. QED  BY <1>1, <2>1
<1>4. CASE claimed.value # ""
  BY <1>1, <1>2, <1>4
<1>5. CASE claimed.value = "" /\ named.value # ""
  BY <1>1, <1>2, <1>5
<1>. QED  BY <1>3, <1>4, <1>5

\* What has been read are records and answers of a console.
Reading == health \in HealthAnswers /\ devices \in Seq(DeviceRecords)

\* A poll adds records and starts again from none.
LEMMA AlwaysReading == DecisionSpec => []Reading
<1>1. DecisionInit => Reading
  BY DEF DecisionInit, ReadingInit, Reading
<1>2. Reading /\ [DecisionNext]_decisionVars => Reading'
  <2>. SUFFICES ASSUME Reading, [DecisionNext]_decisionVars PROVE Reading'
    OBVIOUS
  <2>1. CASE Read
    BY <2>1 DEF Read, NextRecord, Reading
  <2>2. CASE Judge
    <3>1. devices' = <<>> /\ health' \in HealthAnswers
      BY <2>2 DEF Judge, NextPoll
    <3>. QED  BY <3>1 DEF Reading
  <2>3. CASE GatherHolding \/ Decided \/ UNCHANGED decisionVars
    BY <2>3 DEF GatherHolding, Decided, decisionVars, Reading
  <2>. QED  BY <2>1, <2>2, <2>3 DEF DecisionNext
<1>. QED  BY <1>1, <1>2, PTL DEF DecisionSpec

\* The figures of other uplinks than those of a set do not matter to an uplink
\* of the set.
LEMMA OthersDoNotMatter ==
  ASSUME NEW answer, NEW uplink, NEW indexes, uplink.index \in indexes,
         answer = [www |-> answer.www, wlan |-> answer.wlan, uptimeStats |-> answer.uptimeStats]
  PROVE  MergeHealth([answer EXCEPT !.uptimeStats = {e \in @ : e.index \in indexes}], uplink)
           = MergeHealth(answer, uplink)
<1>. DEFINE others == [answer EXCEPT !.uptimeStats = {e \in @ : e.index \in indexes}]
<1>1. /\ others.www = answer.www /\ others.wlan = answer.wlan
      /\ others.uptimeStats = {e \in answer.uptimeStats : e.index \in indexes}
  OBVIOUS
<1>. HIDE DEF others
<1>2. LiveEntry(others, uplink) = LiveEntry(answer, uplink)
  BY <1>1 DEF LiveEntry
<1>3. QualityKeys(others, uplink) = QualityKeys(answer, uplink)
  BY <1>2 DEF QualityKeys
<1>4. MergeHealth(others, uplink) = MergeHealth(answer, uplink)
  BY <1>1, <1>3 DEF MergeHealth
<1>. QED  BY <1>4 DEF others

\* The quality published is that of the port the traffic is on, for any number
\* of uplinks and any figures of the others.
THEOREM QualityHolds == DecisionSpec => []QualityIsOfTheLiveUplink
<1>1. Reading => QualityIsOfTheLiveUplink
  <2>. DEFINE gateway == CHOOSE d \in Gateway(devices) : TRUE
              uplink == LiveUplink(devices)
              indexes == ClaimedUplinks(gateway) \cup NamedUplinks(gateway)
              others == [health EXCEPT !.uptimeStats = {e \in @ : e.index \in indexes}]
  <2>. SUFFICES ASSUME Reading, <<"wan", "quality">> \in KeysOf(Sees({}))
                PROVE  /\ Gateway(devices) # {}
                       /\ 1 \in {Cardinality(ClaimedUplinks(gateway)),
                                 Cardinality(NamedUplinks(gateway))}
                       /\ Observed(devices, others, {}) = Sees({})
    BY DEF QualityIsOfTheLiveUplink
  <2>1. PICK said \in Sees({}) : said[1] = <<"wan", "quality">>
    BY DEF KeysOf
  <2>2. said \in QualityKeys(health, uplink)
    BY <2>1, Views, NoQualityFromDevices, HealthSpeaks
  <2>3. uplink.index >= WanPrimaryIndex
    BY <2>2 DEF QualityKeys, LiveEntry
  <2>4. uplink.index # 0
    BY <2>3 DEF WanPrimaryIndex
  <2>5. Gateway(devices) # {} /\ uplink = WanFrom(gateway)
    BY <2>4 DEF LiveUplink, NoSignal
  <2>6. \/ /\ Cardinality(ClaimedUplinks(gateway)) = 1
           /\ uplink.index = CHOOSE i \in ClaimedUplinks(gateway) : TRUE
        \/ /\ Cardinality(NamedUplinks(gateway)) = 1
           /\ uplink.index = CHOOSE i \in NamedUplinks(gateway) : TRUE
    <3>. HIDE DEF gateway, uplink
    <3>. QED  BY <2>4, <2>5, LiveIsClaimed
  <2>7. uplink.index \in indexes
    <3>. HIDE DEF gateway, uplink
    <3>1. \A S : Cardinality(S) = 1 => S # {}
      BY FS_EmptySet
    <3>2. \A S : S # {} => (CHOOSE i \in S : TRUE) \in S
      OBVIOUS
    <3>3. CASE /\ Cardinality(ClaimedUplinks(gateway)) = 1
               /\ uplink.index = CHOOSE i \in ClaimedUplinks(gateway) : TRUE
      BY <3>1, <3>2, <3>3
    <3>4. CASE /\ Cardinality(NamedUplinks(gateway)) = 1
               /\ uplink.index = CHOOSE i \in NamedUplinks(gateway) : TRUE
      BY <3>1, <3>2, <3>4
    <3>. QED  BY <2>6, <3>3, <3>4
  <2>8. health = [www |-> health.www, wlan |-> health.wlan, uptimeStats |-> health.uptimeStats]
    BY AnswersAreRecords DEF Reading
  <2>9. MergeHealth(others, uplink) = MergeHealth(health, uplink)
    <3>. HIDE DEF gateway, indexes, uplink
    <3>. QED  BY <2>7, <2>8, OthersDoNotMatter
  <2>10. Observed(devices, others, {}) = StateFromDevices(devices) \cup MergeHealth(others, uplink)
    <3>. HIDE DEF others
    <3>. QED  BY DEF Observed
  <2>11. Observed(devices, others, {}) = Sees({})
    <3>. HIDE DEF others
    <3>. QED  BY <2>9, <2>10, Views DEF uplink
  <2>. HIDE DEF gateway, others
  <2>. QED  BY <2>5, <2>6, <2>11
<1>. QED  BY <1>1, AlwaysReading, PTL

\* What the device list says is said by the block of its head.
LEMMA SaidByBlock ==
  ASSUME NEW list, NEW said \in StateFromDevices(list)
  PROVE  /\ said[1][1] \in {"devices", "device"} => said \in DeviceKeys(list)
         /\ said[1][1] = "outlet" => said \in OutletKeys(list)
         /\ said[1][1] = "ups" => said \in UPSKeys(list)
         /\ said[1][1] = "firmware" => said \in FirmwareKeys(list)
         /\ said[1][1] = "temperature" => said \in TemperatureKeys(list)
         /\ said[1][1] = "poe" => said \in PoEKeys(list)
BY GatewaySpeaks, ModemSpeaks, UPSSpeaks, DeviceSpeaks, TalliesSpeak, OutletSpeaks
   DEF StateFromDevices, Speaks

\* No two things of one name speak through one key, whatever the console lists.
THEOREM NoNameHolds == DecisionSpec => []NoNameSpeaksForTwo
<1>. DEFINE uplink == LiveUplink(devices)
<1>1. ASSUME NEW said \in Sees({}), said[1][1] \in {"device", "outlet"}
      PROVE  said \in StateFromDevices(devices)
  <2>1. <<"internet">>[1] = "internet" /\ <<"wifi">>[1] = "wifi" /\ <<"wan", "quality">>[1] = "wan"
    OBVIOUS
  <2>2. CASE said \in MergeHealth(health, uplink)
    <3>1. said[1] \in {<<"internet">>, <<"wifi">>, <<"wan", "quality">>}
      BY <2>2, HealthSpeaks
    <3>. QED  BY <1>1, <2>1, <3>1
  <2>. QED  BY <2>2, Views
<1>2. ASSUME NEW p \in Sees({}), NEW q \in Sees({}), p[1] = q[1] PROVE p = q
  <2>1. /\ \A r \in StateFromDevices(devices) :
             r[1] \notin {<<"internet">>, <<"wifi">>, <<"wan", "quality">>}
    <3>1. /\ <<"internet">>[1] \notin DeviceHeads /\ <<"wifi">>[1] \notin DeviceHeads
      BY DEF DeviceHeads
    <3>2. \A r \in StateFromDevices(devices) : r[1][1] \in DeviceHeads
      BY DevicesSpeak DEF Speaks
    <3>. QED  BY <3>1, <3>2, NoQualityFromDevices
  <2>2. \A r \in MergeHealth(health, uplink) :
          r[1] \in {<<"internet">>, <<"wifi">>, <<"wan", "quality">>}
    BY HealthSpeaks
  <2>3. CASE p \in StateFromDevices(devices) /\ q \in StateFromDevices(devices)
    BY <1>2, <2>3, DevicesSpeak DEF Speaks
  <2>4. CASE p \in MergeHealth(health, uplink) /\ q \in MergeHealth(health, uplink)
    BY <1>2, <2>4, HealthSpeaks
  <2>5. \A r \in Sees({}) : r \in StateFromDevices(devices) \/ r \in MergeHealth(health, uplink)
    BY Views
  <2>. HIDE DEF uplink
  <2>. QED  BY <1>2, <2>1, <2>2, <2>3, <2>4, <2>5
<1>3. ASSUME NEW i \in Adopted(devices), NEW j \in Adopted(devices),
             devices[i].name = devices[j].name,
             devices[i].state = "online", devices[j].state = "offline"
      PROVE  <<"device", devices[i].name>> \notin KeysOf(Sees({}))
  <2>. SUFFICES ASSUME NEW said \in Sees({}), said[1] = <<"device", devices[i].name>>
                PROVE  FALSE
    BY DEF KeysOf
  <2>1. said[1][1] = "device"
    OBVIOUS
  <2>2. said \in DeviceKeys(devices)
    BY <1>1, <2>1, SaidByBlock
  <2>3. said \in PerDevice(devices)
    <3>1. ASSUME NEW value, said \in Publish(<<"devices">>, value) PROVE FALSE
      <4>1. said[1] = <<"devices">>
        <5>1. \A r \in Publish(<<"devices">>, value) : r = <<<<"devices">>, value>>
          BY Published
        <5>. QED  BY <3>1, <5>1
      <4>2. <<"devices">>[1] = "devices"
        OBVIOUS
      <4>. QED  BY <2>1, <4>1, <4>2
    <3>. QED  BY <2>2, <3>1 DEF DeviceKeys
  <2>4. PICK k \in Counted(devices) :
          /\ said = <<<<"device", devices[k].name>>, devices[k].state>>
          /\ \A m \in Counted(devices) \ {k} : devices[m].name # devices[k].name
    BY <2>3 DEF PerDevice
  <2>5. devices[k].name = devices[i].name
    BY <2>4
  <2>6. i \in Counted(devices) /\ j \in Counted(devices) /\ i # j
    BY <1>3 DEF Counted
  <2>. QED  BY <1>3, <2>4, <2>5, <2>6
<1>4. LET table == OutletTable(devices) IN
      \A i, j \in DOMAIN table :
        OutletSuffix(table[i]) = OutletSuffix(table[j])
          /\ table[i].relay = "on" /\ table[j].relay = "off"
        => <<"outlet", OutletSuffix(table[i])>> \notin KeysOf(Sees({}))
  <2>. DEFINE table == OutletTable(devices)
              readable == {i \in DOMAIN table : OutletSuffix(table[i]) # "" /\ table[i].relay # ""}
              alone == {i \in readable :
                          \A j \in readable \ {i} : OutletSuffix(table[j]) # OutletSuffix(table[i])}
  <2>. SUFFICES ASSUME NEW i \in DOMAIN table, NEW j \in DOMAIN table,
                       OutletSuffix(table[i]) = OutletSuffix(table[j]),
                       table[i].relay = "on", table[j].relay = "off",
                       NEW said \in Sees({}), said[1] = <<"outlet", OutletSuffix(table[i])>>
                PROVE  FALSE
    BY DEF KeysOf
  <2>1. said[1][1] = "outlet"
    OBVIOUS
  <2>2. said \in OutletKeys(devices)
    BY <1>1, <2>1, SaidByBlock
  <2>3. OutletKeys(devices)
          = {<<<<"outlet", OutletSuffix(table[k])>>, table[k].relay>> : k \in alone}
    BY DEF OutletKeys
  <2>4. PICK k \in alone : said = <<<<"outlet", OutletSuffix(table[k])>>, table[k].relay>>
    BY <2>2, <2>3
  <2>. HIDE DEF table
  <2>5. OutletSuffix(table[k]) = OutletSuffix(table[i])
    BY <2>4
  <2>6. OutletSuffix(table[k]) # ""
    OBVIOUS
  <2>7. i \in readable /\ j \in readable /\ i # j
    BY <2>5, <2>6
  <2>. QED  BY <2>5, <2>7
<1>5. NoNameSpeaksForTwo
  BY <1>2, <1>3, <1>4 DEF NoNameSpeaksForTwo
<1>. QED  BY <1>5, PTL

(***************************************************************************)
(* While a list is read it grows by one record, and what the records       *)
(* before it raised stays raised.                                          *)
(***************************************************************************)

\* more is list and one record after it.
Grows(list, more) ==
  /\ \E n \in Nat : DOMAIN list = 1..n /\ DOMAIN more = 1..(n + 1)
  /\ \A i \in DOMAIN list : more[i] = list[i]

\* A record read is one record more.
LEMMA AppendGrows ==
  ASSUME NEW S, NEW list \in Seq(S), NEW d \in S
  PROVE  Grows(list, Append(list, d))
<1>1. /\ Len(list) \in Nat /\ DOMAIN list = 1..Len(list)
      /\ DOMAIN Append(list, d) = 1..(Len(list) + 1)
  OBVIOUS
<1>2. \A i \in DOMAIN list : Append(list, d)[i] = list[i]
  OBVIOUS
<1>. QED  BY <1>1, <1>2 DEF Grows

\* The first record of a kind stays the first.
LEMMA FirstStays ==
  ASSUME NEW list, NEW more, Grows(list, more),
         NEW H \in SUBSET DOMAIN list, NEW K \in SUBSET DOMAIN more,
         K \cap DOMAIN list = H, FirstOf(list, H) # {}
  PROVE  FirstOf(more, K) = FirstOf(list, H)
<1>1. PICK n \in Nat : DOMAIN list = 1..n /\ DOMAIN more = 1..(n + 1)
  BY DEF Grows
<1>2. PICK h \in H : \A j \in H : h <= j
  BY DEF FirstOf
<1>3. h \in 1..n /\ H \subseteq 1..n /\ K \subseteq 1..(n + 1) /\ K \cap (1..n) = H
  BY <1>1
<1>4. {i \in H : \A j \in H : i <= j} = {h}
  <2>1. \A i \in H : i <= h => i = h
    BY <1>2, <1>3
  <2>. QED  BY <1>2, <2>1
<1>5. {i \in K : \A j \in K : i <= j} = {h}
  <2>1. \A j \in K : j \in H \/ j = n + 1
    BY <1>3
  <2>2. h \in K /\ \A j \in K : h <= j
    BY <1>2, <1>3, <2>1
  <2>3. \A i \in K : i <= h => i = h
    BY <1>3, <2>2
  <2>. QED  BY <2>2, <2>3
<1>6. more[h] = list[h]
  BY <1>1 DEF Grows
<1>. QED  BY <1>4, <1>5, <1>6 DEF FirstOf

\* So the UPS that answered goes on answering.
LEMMA UPSStays ==
  ASSUME NEW list, NEW more, Grows(list, more)
  PROVE  UPSKeys(list) \subseteq UPSKeys(more)
<1>. DEFINE H == {i \in DOMAIN list : list[i].ups # {}}
            K == {i \in DOMAIN more : more[i].ups # {}}
<1>1. /\ DOMAIN list \subseteq DOMAIN more
      /\ \A i \in DOMAIN list : more[i] = list[i]
  BY DEF Grows
<1>2. /\ H \in SUBSET DOMAIN list /\ K \in SUBSET DOMAIN more
      /\ K \cap DOMAIN list = H
  BY <1>1
<1>3. CASE FirstOf(list, H) = {}
  BY <1>3 DEF UPSKeys
<1>4. CASE FirstOf(list, H) # {}
  <2>1. FirstOf(more, K) = FirstOf(list, H)
    <3>. HIDE DEF H, K
    <3>. QED  BY <1>2, <1>4, FirstStays
  <2>2. UPSKeys(more) = UPSKeys(list)
    BY <2>1 DEF UPSKeys
  <2>. QED  BY <2>2
<1>. QED  BY <1>3, <1>4

\* The records that count go on counting, and say the same.
LEMMA RecordsStay ==
  ASSUME NEW list, NEW more, Grows(list, more)
  PROVE  /\ Adopted(list) \subseteq Adopted(more)
         /\ Counted(list) \subseteq Counted(more)
         /\ \A i \in Adopted(list) : more[i] = list[i]
         /\ Counted(list) \subseteq Adopted(list)
<1>1. /\ DOMAIN list \subseteq DOMAIN more
      /\ \A i \in DOMAIN list : more[i] = list[i]
  BY DEF Grows
<1>2. /\ Adopted(list) \subseteq Adopted(more)
      /\ \A i \in Adopted(list) : more[i] = list[i]
  BY <1>1 DEF Adopted
<1>3. Counted(list) \subseteq Adopted(list)
  BY DEF Counted
<1>4. Counted(list) \subseteq Counted(more)
  BY <1>2, <1>3 DEF Counted
<1>. QED  BY <1>2, <1>3, <1>4

\* What is published is in the view.
LEMMA PublishedValue ==
  ASSUME NEW key, NEW value, value # ""
  PROVE  <<key, value>> \in Publish(key, value)
BY DEF Publish

\* Some record raised the alarm, and it is among the records of the longer list.
LEMMA AlarmsStay ==
  ASSUME NEW list, NEW more, Grows(list, more)
  PROVE  /\ <<<<"devices">>, "degraded">> \in DeviceKeys(list)
              => <<<<"devices">>, "degraded">> \in DeviceKeys(more)
         /\ <<<<"firmware">>, "updates-available">> \in FirmwareKeys(list)
              => <<<<"firmware">>, "updates-available">> \in FirmwareKeys(more)
         /\ <<<<"temperature">>, "high">> \in TemperatureKeys(list)
              => <<<<"temperature">>, "high">> \in TemperatureKeys(more)
         /\ <<<<"poe">>, "insufficient">> \in PoEKeys(list)
              => <<<<"poe">>, "insufficient">> \in PoEKeys(more)
<1>1. ASSUME <<<<"devices">>, "degraded">> \in DeviceKeys(list)
      PROVE  <<<<"devices">>, "degraded">> \in DeviceKeys(more)
  <2>. DEFINE value == IF \E i \in Counted(list) : list[i].state = "offline"
                       THEN "degraded" ELSE "all-online"
  <2>1. <<<<"devices">>, "degraded">> \notin PerDevice(list)
    <3>1. \A i : <<<<"devices">>, "degraded">> # <<<<"device", list[i].name>>, list[i].state>>
      <4>1. \A name : <<"devices">> # <<"device", name>>
        OBVIOUS
      <4>. QED  BY <4>1
    <3>. QED  BY <3>1 DEF PerDevice
  <2>2. <<<<"devices">>, "degraded">> \in Publish(<<"devices">>, value)
    BY <1>1, <2>1 DEF DeviceKeys
  <2>3. value = "degraded"
    <3>. HIDE DEF value
    <3>1. \A said \in Publish(<<"devices">>, value) : said = <<<<"devices">>, value>>
      BY Published
    <3>2. <<<<"devices">>, "degraded">> = <<<<"devices">>, value>>
      BY <2>2, <3>1
    <3>. QED  BY <3>2
  <2>4. PICK i \in Counted(list) : list[i].state = "offline"
    BY <2>3
  <2>5. i \in Counted(more) /\ more[i].state = "offline"
    BY <2>4, RecordsStay
  <2>6. Publish(<<"devices">>, "degraded") \subseteq DeviceKeys(more)
    BY <2>5 DEF DeviceKeys
  <2>. QED  BY <2>6, PublishedValue
<1>2. ASSUME <<<<"firmware">>, "updates-available">> \in FirmwareKeys(list)
      PROVE  <<<<"firmware">>, "updates-available">> \in FirmwareKeys(more)
  <2>. DEFINE reporting == {i \in Adopted(list) : list[i].upgradable # ""}
              value == IF \E i \in reporting : list[i].upgradable = "yes"
                       THEN "updates-available" ELSE "current"
  <2>1. <<<<"firmware">>, "updates-available">> \in Publish(<<"firmware">>, value)
    BY <1>2 DEF FirmwareKeys
  <2>2. value = "updates-available"
    <3>. HIDE DEF value
    <3>1. \A said \in Publish(<<"firmware">>, value) : said = <<<<"firmware">>, value>>
      BY Published
    <3>2. <<<<"firmware">>, "updates-available">> = <<<<"firmware">>, value>>
      BY <2>1, <3>1
    <3>. QED  BY <3>2
  <2>3. PICK i \in Adopted(list) : list[i].upgradable = "yes"
    BY <2>2
  <2>4. i \in Adopted(more) /\ more[i].upgradable = "yes"
    BY <2>3, RecordsStay
  <2>5. Publish(<<"firmware">>, "updates-available") \subseteq FirmwareKeys(more)
    BY <2>4 DEF FirmwareKeys
  <2>. QED  BY <2>5, PublishedValue
<1>3. ASSUME <<<<"temperature">>, "high">> \in TemperatureKeys(list)
      PROVE  <<<<"temperature">>, "high">> \in TemperatureKeys(more)
  <2>. DEFINE hot(d) == d.overheating \/ Hottest(d) >= HighTemperature
              instrumented == {i \in Adopted(list) : Instrumented(list[i])}
              value == IF \E i \in instrumented : hot(list[i]) THEN "high" ELSE "normal"
  <2>1. <<<<"temperature">>, "high">> \in Publish(<<"temperature">>, value)
    BY <1>3 DEF TemperatureKeys
  <2>2. value = "high"
    <3>. HIDE DEF value
    <3>1. \A said \in Publish(<<"temperature">>, value) : said = <<<<"temperature">>, value>>
      BY Published
    <3>2. <<<<"temperature">>, "high">> = <<<<"temperature">>, value>>
      BY <2>1, <3>1
    <3>. QED  BY <3>2
  <2>3. PICK i \in Adopted(list) : Instrumented(list[i]) /\ hot(list[i])
    BY <2>2
  <2>4. i \in Adopted(more) /\ Instrumented(more[i]) /\ hot(more[i])
    BY <2>3, RecordsStay
  <2>5. Publish(<<"temperature">>, "high") \subseteq TemperatureKeys(more)
    BY <2>4 DEF TemperatureKeys
  <2>. QED  BY <2>5, PublishedValue
<1>4. ASSUME <<<<"poe">>, "insufficient">> \in PoEKeys(list)
      PROVE  <<<<"poe">>, "insufficient">> \in PoEKeys(more)
  <2>. DEFINE short(d) == Watts(d) * 100 >= MaxPoEUtilization * d.poeBudget
              switches == {i \in Adopted(list) : Measurable(list[i])}
              value == IF \E i \in switches : short(list[i]) THEN "insufficient" ELSE "ok"
  <2>1. <<<<"poe">>, "insufficient">> \in Publish(<<"poe">>, value)
    BY <1>4 DEF PoEKeys
  <2>2. value = "insufficient"
    <3>. HIDE DEF value
    <3>1. \A said \in Publish(<<"poe">>, value) : said = <<<<"poe">>, value>>
      BY Published
    <3>2. <<<<"poe">>, "insufficient">> = <<<<"poe">>, value>>
      BY <2>1, <3>1
    <3>. QED  BY <3>2
  <2>3. PICK i \in Adopted(list) : Measurable(list[i]) /\ short(list[i])
    BY <2>2
  <2>4. i \in Adopted(more) /\ Measurable(more[i]) /\ short(more[i])
    BY <2>3, RecordsStay
  <2>5. Publish(<<"poe">>, "insufficient") \subseteq PoEKeys(more)
    BY <2>4 DEF PoEKeys
  <2>. QED  BY <2>5, PublishedValue
<1>. QED  BY <1>1, <1>2, <1>3, <1>4

\* Every alarm is raised by the device list.
LEMMA AlarmsOfDevices ==
  ASSUME NEW said \in Sees({}) \cap Alarms
  PROVE  said \in StateFromDevices(devices)
<1>1. said[1] \in {<<"devices">>, <<"temperature">>, <<"poe">>, <<"firmware">>, <<"ups">>}
  BY DEF Alarms
<1>2. said[1][1] \in {"devices", "temperature", "poe", "firmware", "ups"}
  BY <1>1
<1>3. CASE said \in MergeHealth(health, LiveUplink(devices))
  <2>1. said[1] \in {<<"internet">>, <<"wifi">>, <<"wan", "quality">>}
    BY <1>3, HealthSpeaks
  <2>2. said[1][1] \in {"internet", "wifi", "wan"}
    BY <2>1
  <2>. QED  BY <1>2, <2>2
<1>. QED  BY <1>3, Views

\* No alarm that a list has raised is taken back by the records after it, for
\* lists of any length.
THEOREM AlarmsHold == DecisionSpec => AlarmsAreNotMasked
<1>1. Reading /\ [DecisionNext]_decisionVars
        => [Len(devices') > Len(devices) => Sees({}) \cap Alarms \subseteq Sees({})']_devices
  <2>. SUFFICES ASSUME Reading, [DecisionNext]_decisionVars, Len(devices') > Len(devices),
                       NEW said \in Sees({}) \cap Alarms
                PROVE  said \in Sees({})'
    OBVIOUS
  <2>1. PICK d \in DeviceRecords : devices' = Append(devices, d)
    <3>1. CASE Read
      BY <3>1 DEF Read, NextRecord
    <3>2. CASE Judge
      <4>1. devices' = <<>> /\ Len(devices) \in Nat
        BY <3>2 DEF Judge, NextPoll, Reading
      <4>2. Len(devices') = 0
        BY <4>1
      <4>. QED  BY <4>1, <4>2
    <3>3. CASE GatherHolding \/ Decided \/ UNCHANGED decisionVars
      <4>1. devices' = devices /\ Len(devices) \in Nat
        BY <3>3 DEF GatherHolding, Decided, decisionVars, Reading
      <4>. QED  BY <4>1
    <3>. QED  BY <3>1, <3>2, <3>3 DEF DecisionNext
  <2>2. Grows(devices, devices')
    BY <2>1, AppendGrows DEF Reading
  <2>3. said \in StateFromDevices(devices)
    BY AlarmsOfDevices
  <2>4. said \in StateFromDevices(devices')
    <3>1. CASE said = <<<<"devices">>, "degraded">>
      <4>1. said[1][1] = "devices"
        BY <3>1
      <4>2. said \in DeviceKeys(devices')
        BY <2>2, <2>3, <3>1, <4>1, SaidByBlock, AlarmsStay
      <4>. QED  BY <4>2 DEF StateFromDevices
    <3>2. CASE said = <<<<"temperature">>, "high">>
      <4>1. said[1][1] = "temperature"
        BY <3>2
      <4>2. said \in TemperatureKeys(devices')
        BY <2>2, <2>3, <3>2, <4>1, SaidByBlock, AlarmsStay
      <4>. QED  BY <4>2 DEF StateFromDevices
    <3>3. CASE said = <<<<"poe">>, "insufficient">>
      <4>1. said[1][1] = "poe"
        BY <3>3
      <4>2. said \in PoEKeys(devices')
        BY <2>2, <2>3, <3>3, <4>1, SaidByBlock, AlarmsStay
      <4>. QED  BY <4>2 DEF StateFromDevices
    <3>4. CASE said = <<<<"firmware">>, "updates-available">>
      <4>1. said[1][1] = "firmware"
        BY <3>4
      <4>2. said \in FirmwareKeys(devices')
        BY <2>2, <2>3, <3>4, <4>1, SaidByBlock, AlarmsStay
      <4>. QED  BY <4>2 DEF StateFromDevices
    <3>5. CASE said = <<<<"ups">>, "on-battery">>
      <4>1. said[1][1] = "ups"
        BY <3>5
      <4>2. said \in UPSKeys(devices')
        BY <2>2, <2>3, <4>1, SaidByBlock, UPSStays
      <4>. QED  BY <4>2 DEF StateFromDevices
    <3>. QED  BY <3>1, <3>2, <3>3, <3>4, <3>5 DEF Alarms
  <2>5. Sees({})' = StateFromDevices(devices') \cup MergeHealth(health', LiveUplink(devices'))
    BY DEF Sees, Observed
  <2>. QED  BY <2>4, <2>5
<1>. QED  BY <1>1, AlwaysReading, PTL DEF DecisionSpec, AlarmsAreNotMasked
=============================================================================
