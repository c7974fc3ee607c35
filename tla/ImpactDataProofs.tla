-------------------------- MODULE ImpactDataProofs --------------------------
(* The data of git-impact, for any repository, windows and limits: what is  *)
(* deployed where, which deployments are ambiguous, and the groups.         *)
EXTENDS ImpactData, FiniteSetTheorems, TLAPS

Collecting == pc \in {"prs", "api_prs", "api_files", "tags", "releases"}

Inferring == pc \in {"release", "tag"}

(* Nothing that a query left out is newer than anything that was taken.     *)
Newest(s, at) ==
    /\ Range(s) \subseteq Existing(at)
    /\ path = "query" => \A x \in Existing(at) \ Range(s), a \in DOMAIN s : at[x] <= at[s[a]]

(* The steps before the first loop leave the later variables alone.         *)
Fresh ==
    /\ Collecting => releases = <<>> /\ (pc # "api_files" => i = 1)
    /\ Collecting \/ pc = "failed" => chosen = None /\ j = 1 /\ deployments = <<>>
    /\ Collecting \/ Inferring => sorted = <<>> /\ start = 1 /\ end = 1 /\ ambiguousByPR = <<>>
    /\ pc # "done" => names = <<>> /\ groups = <<>>

Taken ==
    /\ pc = "releases" => Newest(tags, created)
    /\ ~Collecting /\ pc # "failed" => Newest(releases, published) /\ Newest(tags, created)

(* What the loop over the items of S holds: the first of them in time that  *)
(* is usable for a merge at t, or None.                                     *)
Picked(x, S, at, t) ==
    IF x = None THEN \A y \in S : ~Usable(t, at[y])
    ELSE x \in S /\ Usable(t, at[x]) /\ \A y \in S : Usable(t, at[y]) => at[x] <= at[y]

(* What a loop that is at item n of s has seen of it.                       *)
Before(s, n) == {s[k] : k \in 1 .. (n - 1)}

\* The tags that can be a deployment, and the times the linker takes for theirs.
VersionsOf(S) == {t \in S : IsVersionTag(t)}

TagTimes == [t \in Tags |-> CreatedAt(t)]

\* The loops of inferDeployment, over pull requests, releases and tags.
Looping ==
    /\ Inferring => DOMAIN deployments = Before(prs, i)
    /\ pc = "release" /\ i <= Len(prs) =>
         Picked(chosen, Before(releases, j), published, merged[prs[i]])
    /\ pc = "tag" =>
         /\ i <= Len(prs)
         /\ Picked(None, Range(releases), published, merged[prs[i]])
         /\ Picked(chosen, VersionsOf(Before(tags, j)), TagTimes, merged[prs[i]])

(* A deployment is the release, or else the version tag, that comes first.  *)
Placed(p, d) ==
    /\ d.source = "release" =>
         d.marker # None /\ Picked(d.marker, Range(releases), published, merged[p])
         /\ d.at = published[d.marker]
    /\ d.source # "release" => Picked(None, Range(releases), published, merged[p])
    /\ d.source = "tag" =>
         d.marker # None /\ Picked(d.marker, VersionsOf(Range(tags)), TagTimes, merged[p])
         /\ d.at = CreatedAt(d.marker)
    /\ d.source = "fallback_merge_time" =>
         Picked(None, VersionsOf(Range(tags)), TagTimes, merged[p]) /\ d.at = merged[p]

Deploying == \A p \in DOMAIN deployments : Placed(p, deployments[p])

(* The releases in their order, cut where the gap is longer than the        *)
(* window: the cluster under way begins after such a gap and has none.      *)
At(k) == published[sorted[k]]

Ordered ==
    /\ Range(sorted) = Range(releases)
    /\ \A a, b \in DOMAIN sorted : a < b => sorted[a] # sorted[b] /\ At(a) <= At(b)

Cut(k) == At(k) > At(k - 1) + AmbiguousWindow

Clustering ==
    /\ start < end
    /\ start <= Len(sorted) =>
         /\ end <= Len(sorted) + 1
         /\ start # 1 => Cut(start)
         /\ \A t \in At(start) .. (At(end - 1) - 1) :
              \E k \in start .. (end - 1) : At(k) \in (t + 1) .. (t + AmbiguousWindow)

(* The pull requests that two releases of R, with no gap between them, have *)
(* among them besides another.                                              *)
AmbiguousIn(R) ==
    {p \in Range(prs) :
       \E q, r \in R, o \in Range(prs) \ {p} :
         /\ q # r /\ Between(merged[p], q, r) /\ Between(merged[o], q, r)
         /\ Bridged(published[q], published[r])}

Scanning ==
    /\ pc = "scan" => Ordered /\ Clustering /\ DOMAIN ambiguousByPR = AmbiguousIn(Before(sorted, start))
    /\ pc \in {"scan", "groups", "done"} => DOMAIN deployments = Range(prs)

DataInv ==
    /\ TypeOK /\ Fresh /\ Taken /\ Looping /\ Deploying /\ Scanning
    /\ AmbiguousAmongOptions /\ AmbiguityIsInClusters /\ GroupsCountPRs

-----------------------------------------------------------------------------
(* The orders a query or the API may answer in.                             *)
LEMMA SeqsOf ==
  ASSUME NEW S, IsFiniteSet(S), NEW s \in SetToSeqs(S)
  PROVE  /\ s \in Seq(S) /\ DOMAIN s = 1 .. Len(s) /\ Range(s) = S /\ Len(s) = Cardinality(S)
         /\ \A a, b \in DOMAIN s : a # b => s[a] # s[b]
<1> DEFINE n == Cardinality(S)
<1>1. n \in Nat
  BY FS_CardinalityType
<1>2. s \in [1 .. n -> S] /\ \A a, b \in 1 .. n : a # b => s[a] # s[b]
  BY DEF SetToSeqs
<1>3. s \in Seq(S) /\ DOMAIN s = 1 .. Len(s) /\ Len(s) = n
  BY <1>1, <1>2
<1>4. s \in Injection(1 .. n, S)
  BY <1>2 DEF Injection, IsInjective
<1>5. Cardinality(1 .. n) = n
  BY <1>1, FS_Interval
<1>6. s \in Surjection(1 .. n, S)
  BY <1>4, <1>5, FS_Injection
<1>7. Range(s) = S
  BY <1>2, <1>6 DEF Surjection, Range
<1> QED BY <1>2, <1>3, <1>7

(* Some of them, in any order.                                              *)
LEMMA SomeOf ==
  ASSUME NEW S, IsFiniteSet(S), NEW s \in SetToAllKPermutations(S)
  PROVE  s \in Seq(S) /\ DOMAIN s = 1 .. Len(s) /\ Range(s) \subseteq S
<1>1. PICK T \in SUBSET S : s \in SetToSeqs(T)
  BY DEF SetToAllKPermutations
<1>2. IsFiniteSet(T)
  BY FS_Subset
<1>3. s \in Seq(T) /\ DOMAIN s = 1 .. Len(s) /\ Range(s) = T
  BY <1>1, <1>2, SeqsOf
<1> QED BY <1>3

(* What a limit leaves out is not newer than what it lets through.          *)
LEMMA NewestFirstIs ==
  ASSUME NEW at, NEW S, IsFiniteSet(S), NEW n, NEW s \in NewestFirst(at, S, n)
  PROVE  /\ s \in Seq(S) /\ DOMAIN s = 1 .. Len(s) /\ Range(s) \subseteq S
         /\ \A x \in S \ Range(s), a \in DOMAIN s : at[x] <= at[s[a]]
<1>3. s \in Seq(S) /\ DOMAIN s = 1 .. Len(s) /\ Range(s) \subseteq S
  BY SomeOf DEF NewestFirst, UpTo
<1>5. \A x \in S \ Range(s), a \in DOMAIN s : at[x] <= at[s[a]]
  BY DEF NewestFirst
<1> QED BY <1>3, <1>5

(* What exists of a finite set is finite.                                   *)
LEMMA ExistingIn ==
  ASSUME NEW S, NEW at \in [S -> Times], IsFiniteSet(S)
  PROVE  IsFiniteSet(Existing(at)) /\ Existing(at) \subseteq S
<1>1. Existing(at) \subseteq S
  BY DEF Existing
<1> QED BY <1>1, FS_Subset

(* What a sequence holds, which is what a finished loop has seen of it.     *)
LEMMA RangeIs ==
  ASSUME NEW S, NEW s \in Seq(S)
  PROVE  /\ Range(s) = {s[k] : k \in 1 .. Len(s)} /\ Range(s) \subseteq S
         /\ DOMAIN s = 1 .. Len(s) /\ Len(s) \in Nat
         /\ Range(s) = Before(s, Len(s) + 1)
<1>1. DOMAIN s = 1 .. Len(s) /\ Len(s) \in Nat /\ \A k \in 1 .. Len(s) : s[k] \in S
  OBVIOUS
<1>2. Len(s) + 1 - 1 = Len(s)
  BY <1>1
<1> QED BY <1>1, <1>2 DEF Range, Before

(* A loop over nothing has seen nothing.                                    *)
LEMMA Empty == Range(<<>>) = {} /\ DOMAIN <<>> = {} /\ Len(<<>>) = 0
BY DEF Range

(* One round of a loop adds one item to those it has seen.                  *)
LEMMA BeforeIs ==
  ASSUME NEW S, NEW s \in Seq(S), NEW n \in 1 .. (Len(s) + 1)
  PROVE  /\ Before(s, n) \subseteq Range(s)
         /\ n <= Len(s) => Before(s, n + 1) = Before(s, n) \cup {s[n]} /\ s[n] \in Range(s) /\ s[n] \in S
         /\ Before(s, 1) = {}
<1>1. DOMAIN s = 1 .. Len(s) /\ Len(s) \in Nat /\ Range(s) = {s[k] : k \in 1 .. Len(s)} /\ Range(s) \subseteq S
  BY RangeIs
<1>2. 1 .. (n - 1) \subseteq 1 .. Len(s)
  BY <1>1
<1>3. Before(s, n) \subseteq Range(s)
  BY <1>1, <1>2 DEF Before
<1>4. Before(s, 1) = {}
  BY DEF Before
<1>5. ASSUME n <= Len(s) PROVE Before(s, n + 1) = Before(s, n) \cup {s[n]} /\ s[n] \in Range(s) /\ s[n] \in S
  <2>1. n \in 1 .. Len(s) /\ 1 .. (n + 1 - 1) = 1 .. (n - 1) \cup {n}
    BY <1>1, <1>5
  <2> QED BY <2>1, <1>1 DEF Before
<1> QED BY <1>3, <1>4, <1>5

(* What is taken exists, and what is taken newest first lost nothing newer. *)
LEMMA Taking ==
  ASSUME NEW S, NEW at \in [S -> Times], IsFiniteSet(S), NEW n, NEW s \in Answer(at, n)
  PROVE  s \in Seq(S) /\ Newest(s, at) /\ DOMAIN s = 1 .. Len(s)
<1>1. IsFiniteSet(Existing(at)) /\ Existing(at) \subseteq S
  BY ExistingIn
<1>2. /\ s \in Seq(Existing(at)) /\ DOMAIN s = 1 .. Len(s) /\ Range(s) \subseteq Existing(at)
      /\ path = "query" => \A x \in Existing(at) \ Range(s), a \in DOMAIN s : at[x] <= at[s[a]]
  <2>1. CASE path = "query"
    BY <1>1, <2>1, NewestFirstIs DEF Answer
  <2>2. CASE path # "query"
    BY <1>1, <2>2, SomeOf DEF Answer, UpTo
  <2> QED BY <2>1, <2>2
<1>3. s \in Seq(S)
  BY <1>1, <1>2
<1> QED BY <1>2, <1>3 DEF Newest

-----------------------------------------------------------------------------
(* Collecting.                                                              *)
LEMMA Numbers ==
  /\ MaxTime \in Nat /\ LinkInferenceWindow \in Nat /\ AmbiguousWindow \in Nat
  /\ AmbiguousWindow <= LinkInferenceWindow
  /\ 0 \in Times /\ Times \subseteq Nat /\ None \notin Releases /\ None \notin Tags
<1>1. {MaxTime, Since, LinkInferenceWindow, AmbiguousWindow} \subseteq Nat
  BY DataAssumption
<1>2. MaxTime \in Nat /\ LinkInferenceWindow \in Nat /\ AmbiguousWindow \in Nat
  BY <1>1
<1>3. AmbiguousWindow <= LinkInferenceWindow
  BY DataAssumption
<1>4. None \notin Releases /\ None \notin Tags
  BY DataAssumption
<1> QED BY <1>2, <1>3, <1>4 DEF Times

(* Nothing is collected and no loop has begun.                              *)
LEMMA InvInit == Init => DataInv
<1> SUFFICES ASSUME Init PROVE DataInv
  OBVIOUS
<1>1. /\ Collecting /\ pc = "prs" /\ path = "query" /\ prs = <<>> /\ releases = <<>> /\ tags = <<>>
      /\ i = 1 /\ j = 1 /\ chosen = None /\ deployments = <<>> /\ sorted = <<>>
      /\ start = 1 /\ end = 1 /\ ambiguousByPR = <<>> /\ names = <<>> /\ groups = <<>>
  BY DEF Init, Collecting
<1>2. /\ merged \in [PRs -> Times] /\ published \in [Releases -> Times] /\ created \in [Tags -> Times]
  BY Numbers DEF Init
<1>3. /\ prs \in Seq(PRs) /\ releases \in Seq(Releases) /\ tags \in Seq(Tags) /\ sorted \in Seq(Releases)
      /\ Len(prs) = 0 /\ Len(releases) = 0 /\ Len(sorted) = 0
      /\ DOMAIN deployments = {} /\ DOMAIN ambiguousByPR = {} /\ DOMAIN groups = {}
  BY <1>1
<1>4. TypeOK
  BY <1>1, <1>2, <1>3 DEF TypeOK
<1>5. Fresh /\ Taken /\ Looping /\ Deploying /\ Scanning
  BY <1>1, <1>3 DEF Fresh, Taken, Looping, Deploying, Scanning, Inferring, Collecting
<1>6. AmbiguousAmongOptions /\ AmbiguityIsInClusters /\ GroupsCountPRs
  BY <1>1, <1>3 DEF AmbiguousAmongOptions, AmbiguityIsInClusters, GroupsCountPRs
<1> QED BY <1>4, <1>5, <1>6 DEF DataInv

(* What a step of the collector must see to, to keep the invariant.         *)
LEMMA CollectKeeps ==
  ASSUME DataInv, Collecting,
         pc' \in {"api_prs", "api_files", "tags", "releases", "release", "failed"},
         UNCHANGED <<j, chosen, deployments, detection, grouping>>,
         path' \in {"query", "api"},
         merged' \in [PRs -> Times], published' \in [Releases -> Times], created' \in [Tags -> Times],
         prs' \in Seq(PRs), releases' \in Seq(Releases), tags' \in Seq(Tags),
         i' \in 1 .. (Len(prs') + 1),
         pc' \in {"api_prs", "api_files", "tags", "releases"} => releases' = <<>> /\ (pc' # "api_files" => i' = 1),
         pc' \in {"releases", "release"} => UNCHANGED path /\ Newest(tags', created'),
         pc' = "release" => i' = 1 /\ Newest(releases', published')
  PROVE  DataInv'
<1>1. /\ j = 1 /\ chosen = None /\ deployments = <<>> /\ sorted = <<>> /\ start = 1 /\ end = 1
      /\ ambiguousByPR = <<>> /\ names = <<>> /\ groups = <<>>
  BY DEF DataInv, Fresh, Collecting
<1>2. UNCHANGED <<j, chosen, deployments, sorted, start, end, ambiguousByPR, names, groups>>
  BY DEF detection, grouping
<1>3. sorted' \in Seq(Releases) /\ Len(sorted') = 0 /\ DOMAIN deployments' = {} /\ DOMAIN ambiguousByPR' = {}
      /\ DOMAIN groups' = {} /\ Len(releases') \in Nat
  BY <1>1, <1>2
<1>4. TypeOK'
  BY <1>1, <1>2, <1>3 DEF TypeOK
<1>5. Fresh'
  BY <1>1, <1>2 DEF Fresh, Collecting, Inferring
<1>6. Taken'
  BY DEF Taken, Collecting, Newest, Existing, Range
<1>7. Looping'
  <2>1. pc' = "release" => Before(prs', i') = {} /\ Before(releases', j') = {}
    BY <1>1, <1>2 DEF Before
  <2> QED BY <1>1, <1>2, <1>3, <2>1 DEF Looping, Inferring, Picked, Before
<1>8. Deploying' /\ Scanning'
  BY <1>3 DEF Deploying, Scanning
<1>9. AmbiguousAmongOptions' /\ AmbiguityIsInClusters' /\ GroupsCountPRs'
  BY <1>3 DEF AmbiguousAmongOptions, AmbiguityIsInClusters, GroupsCountPRs
<1> QED BY <1>4, <1>5, <1>6, <1>7, <1>8, <1>9 DEF DataInv

(* The types of what was collected.                                         *)
LEMMA Collected ==
  ASSUME DataInv
  PROVE  /\ merged \in [PRs -> Times] /\ published \in [Releases -> Times] /\ created \in [Tags -> Times]
         /\ prs \in Seq(PRs) /\ releases \in Seq(Releases) /\ tags \in Seq(Tags)
         /\ path \in {"query", "api"} /\ i \in 1 .. (Len(prs) + 1)
BY DEF DataInv, TypeOK

(* Each way to collect, and each way to fail, keeps the invariant.          *)
LEMMA FailKeeps == ASSUME DataInv, CallFails \/ AnswerInvalid PROVE DataInv'
<1>1. Collecting /\ pc' = "failed" /\ UNCHANGED <<repository, collected, inference, detection, grouping>>
  BY DEF CallFails, AnswerInvalid, Collecting
<1>2. UNCHANGED <<merged, published, created, path, prs, releases, tags, i, j, chosen, deployments>>
  BY <1>1 DEF repository, collected, inference
<1> QED BY <1>1, <1>2, Collected, CollectKeeps

LEMMA CollectPRsKeeps == ASSUME DataInv, QueryPRs \/ NotQueryable \/ ApiPRs \/ ApiFiles PROVE DataInv'
<1>1. /\ Collecting /\ UNCHANGED <<published, created, tags, releases, j, chosen, deployments, detection, grouping>>
      /\ pc' \in {"api_prs", "api_files", "tags"} /\ path' \in {"query", "api"}
  BY Collected DEF QueryPRs, NotQueryable, ApiPRs, ApiFiles, Collecting, repository, collected, inference
<1>2. releases' = <<>>
  BY <1>1 DEF DataInv, Fresh
<1>3. merged' \in [PRs -> Times]
  BY Collected DEF QueryPRs, NotQueryable, ApiPRs, ApiFiles, repository
<1>4. prs' \in Seq(PRs)
  <2>1. ASSUME NEW T \in SUBSET PRs PROVE IsFiniteSet(T) /\ Seq(T) \subseteq Seq(PRs)
    <3>1. IsFiniteSet(PRs)
      BY DataAssumption
    <3>2. IsFiniteSet(T)
      BY <3>1, FS_Subset
    <3> QED BY <3>2
  <2>2. CASE QueryPRs
    <3> DEFINE T == {p \in PRs : merged'[p] > Since}
    <3>1. T \in SUBSET PRs /\ prs' \in NewestFirst(merged', T, PRLimit)
      BY <2>2 DEF QueryPRs
    <3> HIDE DEF T
    <3>2. IsFiniteSet(T) /\ Seq(T) \subseteq Seq(PRs)
      BY <3>1, <2>1
    <3>3. prs' \in Seq(T)
      BY <3>1, <3>2, NewestFirstIs
    <3> QED BY <3>2, <3>3
  <2>3. CASE ApiPRs
    <3> DEFINE T == {p \in Existing(merged') : merged'[p] >= Since}
    <3>1. T \in SUBSET PRs /\ prs' \in SetToAllKPermutations(T)
      BY <1>3, <2>3 DEF ApiPRs, Existing
    <3> HIDE DEF T
    <3>2. IsFiniteSet(T) /\ Seq(T) \subseteq Seq(PRs)
      BY <3>1, <2>1
    <3>3. prs' \in Seq(T)
      BY <3>1, <3>2, SomeOf
    <3> QED BY <3>2, <3>3
  <2>4. CASE NotQueryable \/ ApiFiles
    BY <2>4, Collected DEF NotQueryable, ApiFiles, collected
  <2> QED BY <2>2, <2>3, <2>4
<1>5. i' \in 1 .. (Len(prs') + 1) /\ (pc' # "api_files" => i' = 1)
  <2>1. Len(prs') \in Nat
    BY <1>4
  <2>2. CASE QueryPRs \/ NotQueryable \/ ApiPRs
    <3>1. i' = i /\ i = 1
      BY <2>2 DEF QueryPRs, NotQueryable, ApiPRs, inference, DataInv, Fresh, Collecting
    <3> QED BY <2>1, <3>1
  <2>3. CASE ApiFiles
    <3>1. prs' = prs /\ IF i <= Len(prs) THEN i' = i + 1 /\ pc' = pc ELSE i' = 1 /\ pc' = "tags"
      BY <2>3 DEF ApiFiles, collected
    <3>2. pc = "api_files"
      BY <2>3 DEF ApiFiles
    <3> QED BY <2>1, <3>1, <3>2, Collected
  <2> QED BY <2>2, <2>3
<1>6. merged' \in [PRs -> Times] /\ published' \in [Releases -> Times] /\ created' \in [Tags -> Times]
      /\ releases' \in Seq(Releases) /\ tags' \in Seq(Tags)
  BY <1>1, <1>3, Collected
<1> QED BY <1>1, <1>2, <1>4, <1>5, <1>6, CollectKeeps

LEMMA CollectTagsKeeps == ASSUME DataInv, CollectTags PROVE DataInv'
<1>1. /\ Collecting /\ pc' = "releases" /\ created' \in [Tags -> Times]
      /\ tags' \in Answer(created', TagLimit)
      /\ UNCHANGED <<merged, published, path, prs, releases, i, j, chosen, deployments, detection, grouping>>
  BY DEF CollectTags, Collecting, inference
<1>2. releases = <<>> /\ i = 1
  BY DEF DataInv, Fresh, CollectTags, Collecting
<1>3. tags' \in Seq(Tags) /\ Newest(tags', created')
  BY <1>1, Taking, DataAssumption
<1> QED BY <1>1, <1>2, <1>3, Collected, CollectKeeps

LEMMA CollectReleasesKeeps == ASSUME DataInv, CollectReleases PROVE DataInv'
<1>1. /\ Collecting /\ pc = "releases" /\ pc' = "release" /\ published' \in [Releases -> Times]
      /\ \E limit \in ReleaseLimits : releases' \in Answer(published', limit)
      /\ UNCHANGED <<merged, created, path, prs, tags, i, j, chosen, deployments, detection, grouping>>
  BY DEF CollectReleases, Collecting, inference
<1>2. i = 1 /\ Newest(tags, created)
  BY <1>1 DEF DataInv, Fresh, Taken
<1>3. releases' \in Seq(Releases) /\ Newest(releases', published')
  BY <1>1, Taking, DataAssumption
<1>4. Newest(tags', created')
  BY <1>1, <1>2
<1> QED BY <1>1, <1>2, <1>3, <1>4, Collected, CollectKeeps

-----------------------------------------------------------------------------
(* Inferring the deployments.                                               *)
LEMMA PickStep ==
  ASSUME NEW S, NEW at, NEW t \in Nat, NEW x, NEW y, y # None,
         \A z \in S \cup {y} : at[z] \in Nat, Picked(x, S, at, t)
  PROVE  Picked(IF Usable(t, at[y]) /\ (x = None \/ Better(at[y], at[x])) THEN y ELSE x,
                S \cup {y}, at, t)
BY DEF Picked, Usable, Near, Better

(* In the loops nothing that was collected changes; nor do the deployments  *)
(* made so far.                                                             *)
LEMMA InferKeeps ==
  ASSUME DataInv, Inferring, UNCHANGED <<repository, collected, detection, grouping>>,
         pc' \in {"release", "tag"}, i' \in 1 .. (Len(prs) + 1),
         pc' = "release" => j' \in 1 .. (Len(releases) + 1) /\ chosen' \in Range(releases) \cup {None},
         pc' = "tag" => j' \in 1 .. (Len(tags) + 1) /\ chosen' \in Range(tags) \cup {None},
         DOMAIN deployments' = Before(prs, i'),
         \A p \in DOMAIN deployments' :
           /\ deployments'[p] \in [source : Sources, marker : Releases \cup Tags \cup {None}, at : Times]
           /\ Placed(p, deployments'[p]),
         pc' = "release" /\ i' <= Len(prs) => Picked(chosen', Before(releases, j'), published, merged[prs[i']]),
         pc' = "tag" =>
           /\ i' <= Len(prs)
           /\ Picked(None, Range(releases), published, merged[prs[i']])
           /\ Picked(chosen', VersionsOf(Before(tags, j')), TagTimes, merged[prs[i']])
  PROVE  DataInv'
<1>1. UNCHANGED <<merged, published, created, path, prs, releases, tags, sorted, start, end, ambiguousByPR, names, groups>>
  BY DEF repository, collected, detection, grouping
<1>2. /\ sorted = <<>> /\ start = 1 /\ end = 1 /\ ambiguousByPR = <<>> /\ names = <<>> /\ groups = <<>>
  BY DEF DataInv, Fresh, Inferring
<1>3. DOMAIN ambiguousByPR' = {} /\ prs \in Seq(PRs)
  BY <1>1, <1>2, Collected
<1>4. Before(prs, i') \subseteq Range(prs)
  BY <1>3, BeforeIs
<1>5. TypeOK'
  <2>1. i' \in 1 .. (Len(prs') + 1)
        /\ j' \in 1 .. ((IF pc' = "tag" THEN Len(tags') ELSE Len(releases')) + 1)
        /\ chosen' \in (IF pc' = "tag" THEN Range(tags') ELSE Range(releases')) \cup {None}
    BY <1>1
  <2>2. DOMAIN deployments' \subseteq Range(prs')
        /\ \A p \in DOMAIN deployments' :
             deployments'[p] \in [source : Sources, marker : Releases \cup Tags \cup {None}, at : Times]
    BY <1>1, <1>4
  <2> QED BY <1>1, <2>1, <2>2 DEF DataInv, TypeOK
<1>6. Fresh'
  BY <1>1, <1>2 DEF Fresh, Collecting
<1>7. Taken'
  BY <1>1 DEF DataInv, Taken, Collecting, Inferring, Newest, Existing, Range
<1>8. TagTimes' = TagTimes
  BY <1>1 DEF TagTimes, CreatedAt
<1>9. Looping'
  BY <1>1, <1>8 DEF Looping, Inferring, Picked, Before, VersionsOf, Range
<1>10. Deploying'
  BY <1>1, <1>8 DEF Deploying, Placed, Picked, VersionsOf, Range, CreatedAt
<1>11. Scanning'
  BY DEF Scanning
<1>12. AmbiguousAmongOptions' /\ AmbiguityIsInClusters' /\ GroupsCountPRs'
  BY <1>3 DEF AmbiguousAmongOptions, AmbiguityIsInClusters, GroupsCountPRs
<1> QED BY <1>5, <1>6, <1>7, <1>9, <1>10, <1>11, <1>12 DEF DataInv

(* The types inside the loops over releases and tags.                       *)
LEMMA InferTypes ==
  ASSUME DataInv, Inferring
  PROVE  /\ i \in 1 .. (Len(prs) + 1) /\ Len(prs) \in Nat /\ Len(releases) \in Nat /\ Len(tags) \in Nat
         /\ pc = "release" => j \in 1 .. (Len(releases) + 1) /\ chosen \in Range(releases) \cup {None}
         /\ pc = "tag" => j \in 1 .. (Len(tags) + 1) /\ chosen \in Range(tags) \cup {None}
         /\ Range(releases) \subseteq Releases /\ Range(tags) \subseteq Tags
         /\ DOMAIN deployments = Before(prs, i)
         /\ \A p \in DOMAIN deployments :
              /\ deployments[p] \in [source : Sources, marker : Releases \cup Tags \cup {None}, at : Times]
              /\ Placed(p, deployments[p])
         /\ \A r \in Releases : published[r] \in Times /\ r # None
         /\ \A t \in Tags : TagTimes[t] \in Times /\ TagTimes[t] = CreatedAt(t) /\ t # None
         /\ i <= Len(prs) => prs[i] \in PRs /\ merged[prs[i]] \in Times
<1>1. Range(releases) \subseteq Releases /\ Range(tags) \subseteq Tags /\ Len(prs) \in Nat /\ Len(releases) \in Nat
      /\ Len(tags) \in Nat
  BY Collected, RangeIs
<1>2. \A t \in Tags : TagTimes[t] \in Times /\ TagTimes[t] = CreatedAt(t)
  BY Collected, Numbers DEF TagTimes, CreatedAt
<1>3. i <= Len(prs) => prs[i] \in PRs /\ merged[prs[i]] \in Times
  BY Collected
<1>4. \A r \in Releases : published[r] \in Times /\ r # None
  BY Collected, Numbers
<1> QED BY <1>1, <1>2, <1>3, <1>4, Numbers DEF DataInv, TypeOK, Looping, Deploying

(* The two loops of inferDeployment, a round at a time.                     *)
LEMMA ConsiderReleaseKeeps == ASSUME DataInv, ConsiderRelease PROVE DataInv'
<1> DEFINE r == releases[j]
           t == merged[prs[i]]
<1>1. /\ Inferring /\ pc = "release" /\ i <= Len(prs) /\ j <= Len(releases) /\ j' = j + 1
      /\ UNCHANGED <<pc, repository, collected, i, deployments, detection, grouping>>
      /\ chosen' = IF Usable(t, published[r]) /\ (chosen = None \/ Better(published[r], published[chosen]))
                   THEN r ELSE chosen
  BY DEF ConsiderRelease, Inferring
<1>2. /\ Before(releases, j + 1) = Before(releases, j) \cup {r} /\ Before(releases, j) \subseteq Range(releases)
      /\ r \in Range(releases) /\ r \in Releases
  BY <1>1, Collected, InferTypes, BeforeIs
<1>3. Picked(chosen, Before(releases, j), published, t)
  BY <1>1 DEF DataInv, Looping
<1>4. t \in Nat /\ r # None /\ \A z \in Before(releases, j) \cup {r} : published[z] \in Nat
  BY <1>1, <1>2, InferTypes, Numbers
<1> HIDE DEF r, t
<1>5. Picked(chosen', Before(releases, j) \cup {r}, published, t)
  BY <1>1, <1>3, <1>4, PickStep
<1>6. Picked(chosen', Before(releases, j'), published, merged[prs[i']])
  BY <1>1, <1>2, <1>5 DEF t
<1>7. chosen' \in Range(releases) \cup {None} /\ j' \in 1 .. (Len(releases) + 1)
  BY <1>1, <1>2, InferTypes
<1> QED BY <1>1, <1>6, <1>7, InferTypes, InferKeeps

LEMMA ConsiderTagKeeps == ASSUME DataInv, ConsiderTag PROVE DataInv'
<1> DEFINE g == tags[j]
           t == merged[prs[i]]
           S == VersionsOf(Before(tags, j))
<1>1. /\ Inferring /\ pc = "tag" /\ j <= Len(tags) /\ j' = j + 1
      /\ UNCHANGED <<pc, repository, collected, i, deployments, detection, grouping>>
      /\ chosen' = IF /\ IsVersionTag(g) /\ Usable(t, CreatedAt(g))
                      /\ chosen = None \/ Better(CreatedAt(g), CreatedAt(chosen))
                   THEN g ELSE chosen
  BY DEF ConsiderTag, Inferring
<1>2. /\ i <= Len(prs) /\ Picked(None, Range(releases), published, t) /\ Picked(chosen, S, TagTimes, t)
  BY <1>1 DEF DataInv, Looping
<1>3. /\ Before(tags, j + 1) = Before(tags, j) \cup {g} /\ Before(tags, j) \subseteq Range(tags)
      /\ g \in Range(tags) /\ g \in Tags
  BY <1>1, Collected, InferTypes, BeforeIs
<1>4. t \in Nat /\ g # None /\ \A z \in S \cup {g} : TagTimes[z] \in Nat
  BY <1>1, <1>2, <1>3, InferTypes, Numbers DEF VersionsOf
<1>5. TagTimes[g] = CreatedAt(g) /\ (chosen # None => TagTimes[chosen] = CreatedAt(chosen))
  BY <1>1, <1>3, InferTypes
<1>6. chosen' \in Range(tags) \cup {None} /\ j' \in 1 .. (Len(tags) + 1)
  BY <1>1, <1>3, InferTypes
<1>7. Picked(chosen', VersionsOf(Before(tags, j')), TagTimes, t)
  <2>1. CASE IsVersionTag(g)
    <3>1. VersionsOf(Before(tags, j')) = S \cup {g}
      BY <1>1, <1>3, <2>1 DEF VersionsOf
    <3>2. chosen' = IF Usable(t, TagTimes[g]) /\ (chosen = None \/ Better(TagTimes[g], TagTimes[chosen]))
                    THEN g ELSE chosen
      BY <1>1, <1>5, <2>1
    <3> HIDE DEF S, t, g
    <3>3. Picked(chosen', S \cup {g}, TagTimes, t)
      BY <1>2, <1>4, <3>2, PickStep
    <3> QED BY <3>1, <3>3
  <2>2. CASE ~IsVersionTag(g)
    <3>1. VersionsOf(Before(tags, j')) = S
      BY <1>1, <1>3, <2>2 DEF VersionsOf
    <3> QED BY <1>1, <1>2, <2>2, <3>1
  <2> QED BY <2>1, <2>2
<1> QED BY <1>1, <1>2, <1>6, <1>7, InferTypes, InferKeeps

(* A deployment made from what a finished loop chose is in its place.       *)
LEMMA DeployKeeps ==
  ASSUME DataInv, Inferring, i <= Len(prs), NEW source \in Sources, NEW at \in Times,
         Deployed(source, at), UNCHANGED <<repository, collected, detection, grouping>>,
         chosen \in Releases \cup Tags \cup {None},
         Placed(prs[i], [source |-> source, marker |-> chosen, at |-> at])
  PROVE  DataInv'
<1> DEFINE d == [source |-> source, marker |-> chosen, at |-> at]
<1>1. /\ pc' = "release" /\ i' = i + 1 /\ j' = 1 /\ chosen' = None
      /\ deployments' = [p \in DOMAIN deployments \cup {prs[i]} |->
                           IF p = prs[i] THEN d ELSE deployments[p]]
  BY DEF Deployed
<1>2. d \in [source : Sources, marker : Releases \cup Tags \cup {None}, at : Times]
  OBVIOUS
<1>3. Placed(prs[i], d)
  OBVIOUS
<1> HIDE DEF d
<1>4. Before(prs, i + 1) = Before(prs, i) \cup {prs[i]}
  BY Collected, BeforeIs
<1>5. DOMAIN deployments' = Before(prs, i')
  BY <1>1, <1>4, InferTypes
<1>6. \A p \in DOMAIN deployments' :
        /\ deployments'[p] \in [source : Sources, marker : Releases \cup Tags \cup {None}, at : Times]
        /\ Placed(p, deployments'[p])
  BY <1>1, <1>2, <1>3, InferTypes
<1>7. Before(releases, j') = {}
  BY <1>1 DEF Before
<1>8. Picked(chosen', Before(releases, j'), published, merged[prs[i']])
  BY <1>1, <1>7 DEF Picked
<1>9. i' \in 1 .. (Len(prs) + 1) /\ j' \in 1 .. (Len(releases) + 1)
  BY <1>1, InferTypes
<1> QED BY <1>1, <1>5, <1>6, <1>8, <1>9, InferKeeps

(* The ends of the two loops.                                               *)
LEMMA ReleaseChosenKeeps == ASSUME DataInv, ReleaseChosen PROVE DataInv'
<1>1. /\ Inferring /\ pc = "release" /\ i <= Len(prs) /\ j > Len(releases)
      /\ UNCHANGED <<repository, collected, detection, grouping>>
  BY DEF ReleaseChosen, Inferring
<1>2. Picked(chosen, Range(releases), published, merged[prs[i]])
  <2>1. j = Len(releases) + 1
    BY <1>1, InferTypes
  <2>2. Range(releases) = Before(releases, j)
    BY <2>1, Collected, RangeIs
  <2> QED BY <1>1, <2>2 DEF DataInv, Looping
<1>3. CASE chosen # None
  <2> DEFINE d == [source |-> "release", marker |-> chosen, at |-> published[chosen]]
  <2>1. chosen \in Releases /\ published[chosen] \in Times
    BY <1>1, <1>3, InferTypes
  <2>2. d.source = "release" /\ d.marker = chosen /\ d.at = published[chosen]
    OBVIOUS
  <2> HIDE DEF d
  <2>3. Placed(prs[i], d)
    BY <1>2, <1>3, <2>2 DEF Placed
  <2>4. Deployed("release", published[chosen]) /\ "release" \in Sources
    BY <1>3 DEF ReleaseChosen, Sources
  <2> QED BY <1>1, <2>1, <2>3, <2>4, DeployKeeps DEF d
<1>4. CASE chosen = None
  <2>1. pc' = "tag" /\ j' = 1 /\ UNCHANGED <<i, chosen, deployments>>
    BY <1>4 DEF ReleaseChosen
  <2>2. VersionsOf(Before(tags, j')) = {}
    BY <2>1 DEF Before, VersionsOf
  <2>3. Picked(chosen', VersionsOf(Before(tags, j')), TagTimes, merged[prs[i']])
    BY <1>4, <2>1, <2>2 DEF Picked
  <2>4. j' \in 1 .. (Len(tags) + 1)
    BY <1>1, <2>1, InferTypes
  <2> QED BY <1>1, <1>2, <1>4, <2>1, <2>3, <2>4, InferTypes, InferKeeps
<1> QED BY <1>3, <1>4

LEMMA TagChosenKeeps == ASSUME DataInv, TagChosen PROVE DataInv'
<1>1. /\ Inferring /\ pc = "tag" /\ j > Len(tags)
      /\ UNCHANGED <<repository, collected, detection, grouping>>
  BY DEF TagChosen, Inferring
<1>2. /\ i <= Len(prs) /\ Picked(None, Range(releases), published, merged[prs[i]])
      /\ Picked(chosen, VersionsOf(Range(tags)), TagTimes, merged[prs[i]])
  <2>1. j = Len(tags) + 1
    BY <1>1, InferTypes
  <2>2. Range(tags) = Before(tags, j)
    BY <2>1, Collected, RangeIs
  <2> QED BY <1>1, <2>2 DEF DataInv, Looping
<1>3. chosen \in Releases \cup Tags \cup {None}
  BY <1>1, InferTypes
<1>4. CASE chosen # None
  <2> DEFINE d == [source |-> "tag", marker |-> chosen, at |-> CreatedAt(chosen)]
  <2>1. CreatedAt(chosen) \in Times
    BY <1>1, <1>4, InferTypes
  <2>2. d.source = "tag" /\ d.marker = chosen /\ d.at = CreatedAt(chosen)
    OBVIOUS
  <2> HIDE DEF d
  <2>3. Placed(prs[i], d)
    BY <1>2, <1>4, <2>2 DEF Placed
  <2>4. Deployed("tag", CreatedAt(chosen)) /\ "tag" \in Sources
    BY <1>4 DEF TagChosen, Sources
  <2> QED BY <1>1, <1>2, <1>3, <2>1, <2>3, <2>4, DeployKeeps DEF d
<1>5. CASE chosen = None
  <2> DEFINE d == [source |-> "fallback_merge_time", marker |-> chosen, at |-> merged[prs[i]]]
  <2>1. merged[prs[i]] \in Times
    BY <1>1, <1>2, InferTypes
  <2>2. d.source = "fallback_merge_time" /\ d.at = merged[prs[i]]
    OBVIOUS
  <2> HIDE DEF d
  <2>3. Placed(prs[i], d)
    BY <1>2, <1>5, <2>2 DEF Placed
  <2>4. Deployed("fallback_merge_time", merged[prs[i]]) /\ "fallback_merge_time" \in Sources
    BY <1>5 DEF TagChosen, Sources
  <2> QED BY <1>1, <1>2, <1>3, <2>1, <2>3, <2>4, DeployKeeps DEF d
<1> QED BY <1>4, <1>5

-----------------------------------------------------------------------------
(* Detecting the ambiguous deployments.                                     *)
ScanTypes ==
    /\ sorted \in Seq(Releases) /\ Len(sorted) \in Nat /\ DOMAIN sorted = 1 .. Len(sorted)
    /\ \A k \in 1 .. Len(sorted) : At(k) \in Nat /\ sorted[k] \in Releases /\ sorted[k] \in Range(releases)
    /\ \A p \in Range(prs) : merged[p] \in Nat
    /\ IsFiniteSet(Range(prs))
    /\ AmbiguousWindow \in Nat
    /\ \A r \in Range(releases) : published[r] \in Nat /\ published[r] # 0
                                  /\ \E k \in 1 .. Len(sorted) : r = sorted[k]
    /\ \A a, b \in 1 .. Len(sorted) : a < b => sorted[a] # sorted[b] /\ At(a) <= At(b)

(* The types inside the loop over the sorted releases.                      *)
LEMMA ScanFacts == ASSUME DataInv, pc = "scan" PROVE ScanTypes
<1>1. /\ Ordered /\ Newest(releases, published) /\ sorted \in Seq(Releases)
  BY DEF DataInv, Scanning, Taken, Collecting, TypeOK
<1>2. DOMAIN sorted = 1 .. Len(sorted) /\ Len(sorted) \in Nat /\ Range(sorted) = {sorted[k] : k \in 1 .. Len(sorted)}
      /\ Range(sorted) \subseteq Releases
  BY <1>1, RangeIs
<1>3. Range(sorted) = Range(releases)
  BY <1>1 DEF Ordered
<1>4. \A r \in Range(releases) : published[r] \in Nat /\ published[r] # 0
                                 /\ \E k \in 1 .. Len(sorted) : r = sorted[k]
  BY <1>1, <1>2, <1>3, Collected, Numbers DEF Newest, Existing
<1>5. \A k \in 1 .. Len(sorted) : sorted[k] \in Range(releases) /\ sorted[k] \in Releases
  BY <1>2, <1>3
<1>6. Range(prs) \subseteq PRs
  BY Collected, RangeIs
<1>7. IsFiniteSet(Range(prs))
  BY <1>6, FS_Subset, DataAssumption
<1>8. \A p \in Range(prs) : merged[p] \in Nat
  BY <1>6, Collected, Numbers
<1> QED BY <1>1, <1>2, <1>4, <1>5, <1>7, <1>8, Numbers DEF ScanTypes, Ordered, At

(* No two releases with a cut between them have a pull request in common.   *)
LEMMA Apart ==
  ASSUME ScanTypes, NEW c \in 2 .. Len(sorted), Cut(c),
         NEW a \in 1 .. (c - 1), NEW b \in c .. Len(sorted)
  PROVE  At(a) < At(b) /\ ~Bridged(At(a), At(b))
<1>1. /\ a \in 1 .. Len(sorted) /\ b \in 1 .. Len(sorted) /\ c - 1 \in 1 .. Len(sorted)
      /\ c \in 1 .. Len(sorted) /\ Len(sorted) \in Nat /\ AmbiguousWindow \in Nat
  BY DEF ScanTypes
<1>2. \A k \in 1 .. Len(sorted) : At(k) \in Nat /\ (k < c => At(k) <= At(c - 1)) /\ (k >= c => At(c) <= At(k))
  <2>1. ASSUME NEW k \in 1 .. Len(sorted) PROVE At(k) \in Nat /\ (k < c => At(k) <= At(c - 1)) /\ (k >= c => At(c) <= At(k))
    <3>1. \A x, y \in 1 .. Len(sorted) : x < y => At(x) <= At(y)
      BY DEF ScanTypes
    <3>2. At(k) \in Nat /\ At(c) \in Nat /\ At(c - 1) \in Nat
      BY <1>1 DEF ScanTypes
    <3>3. ASSUME k < c PROVE At(k) <= At(c - 1)
      <4>1. k < c - 1 \/ k = c - 1
        BY <1>1, <3>3
      <4> QED BY <1>1, <3>1, <3>2, <4>1
    <3>4. ASSUME k >= c PROVE At(c) <= At(k)
      <4>1. c < k \/ k = c
        BY <1>1, <3>4
      <4> QED BY <1>1, <3>1, <3>2, <4>1
    <3> QED BY <3>2, <3>3, <3>4
  <2> QED BY <2>1
<1>3. At(a) <= At(c - 1) /\ At(c - 1) + AmbiguousWindow < At(c) /\ At(c) <= At(b)
  BY <1>1, <1>2 DEF Cut
<1>4. ASSUME Bridged(At(a), At(b)) PROVE FALSE
  <2> DEFINE t == At(c - 1)
  <2>1. t \in At(a) .. (At(b) - 1) /\ t \in Nat
    BY <1>1, <1>2, <1>3
  <2>2. PICK r \in Range(releases) : published[r] \in (t + 1) .. (t + AmbiguousWindow)
    BY <1>4, <2>1 DEF Bridged
  <2>3. PICK k \in 1 .. Len(sorted) : r = sorted[k]
    BY DEF ScanTypes
  <2>4. At(k) = published[r] /\ At(k) \in Nat /\ (k < c \/ k >= c)
    BY <1>1, <1>2, <2>3 DEF At
  <2>5. At(k) <= t \/ At(c) <= At(k)
    BY <1>2, <2>4
  <2> QED BY <1>1, <1>2, <1>3, <2>1, <2>2, <2>4, <2>5
<1> QED BY <1>1, <1>2, <1>3, <1>4

(* What is ambiguous up to e is so before the cluster or within it.         *)
Cluster(s, e) == {sorted[k] : k \in s .. (e - 1)}

(* A gap longer than the window cuts: what is ambiguous in all that was     *)
(* seen is so on one of its sides.                                          *)
LEMMA SplitAtCut ==
  ASSUME ScanTypes, NEW s \in 1 .. Len(sorted), NEW e \in (s + 1) .. (Len(sorted) + 1), s # 1 => Cut(s)
  PROVE  AmbiguousIn(Before(sorted, e)) = AmbiguousIn(Before(sorted, s)) \cup AmbiguousIn(Cluster(s, e))
<1>1. Len(sorted) \in Nat
  BY DEF ScanTypes
<1>2. Before(sorted, s) \subseteq Before(sorted, e) /\ Cluster(s, e) \subseteq Before(sorted, e)
  <2>1. 1 .. (s - 1) \subseteq 1 .. (e - 1) /\ s .. (e - 1) \subseteq 1 .. (e - 1)
    BY <1>1
  <2> QED BY <2>1 DEF Before, Cluster
<1>3. AmbiguousIn(Before(sorted, s)) \subseteq AmbiguousIn(Before(sorted, e))
  BY <1>2 DEF AmbiguousIn
<1>4. AmbiguousIn(Cluster(s, e)) \subseteq AmbiguousIn(Before(sorted, e))
  BY <1>2 DEF AmbiguousIn
<1>5. ASSUME NEW p \in AmbiguousIn(Before(sorted, e))
      PROVE  p \in AmbiguousIn(Before(sorted, s)) \cup AmbiguousIn(Cluster(s, e))
  <2>1. PICK q \in Before(sorted, e), r \in Before(sorted, e), o \in Range(prs) \ {p} :
          /\ q # r /\ Between(merged[p], q, r) /\ Between(merged[o], q, r)
          /\ Bridged(published[q], published[r])
    BY DEF AmbiguousIn
  <2>2. p \in Range(prs) /\ merged[p] \in Nat
    BY DEF AmbiguousIn, ScanTypes
  <2>3. PICK a \in 1 .. (e - 1) : q = sorted[a]
    BY DEF Before
  <2>4. PICK b \in 1 .. (e - 1) : r = sorted[b]
    BY DEF Before
  <2>5. a \in 1 .. Len(sorted) /\ b \in 1 .. Len(sorted) /\ published[q] = At(a) /\ published[r] = At(b)
        /\ At(a) \in Nat /\ At(b) \in Nat
    BY <1>1, <2>3, <2>4 DEF At, ScanTypes
  <2>6. At(a) <= At(b)
    BY <2>1, <2>2, <2>5 DEF Between
  <2>7. CASE a < s /\ b < s
    <3>1. q \in Before(sorted, s) /\ r \in Before(sorted, s)
      BY <1>1, <2>3, <2>4, <2>7 DEF Before
    <3> QED BY <2>1, <2>2, <3>1 DEF AmbiguousIn
  <2>8. CASE a >= s /\ b >= s
    <3>1. q \in Cluster(s, e) /\ r \in Cluster(s, e)
      BY <1>1, <2>3, <2>4, <2>8 DEF Cluster
    <3> QED BY <2>1, <2>2, <3>1 DEF AmbiguousIn
  <2>9. CASE a < s /\ b >= s
    <3>1. s \in 2 .. Len(sorted) /\ Cut(s) /\ a \in 1 .. (s - 1) /\ b \in s .. Len(sorted)
      BY <1>1, <2>5, <2>9
    <3>2. ~Bridged(At(a), At(b))
      BY <3>1, Apart
    <3> QED BY <2>1, <2>5, <3>2
  <2>10. CASE a >= s /\ b < s
    <3>1. s \in 2 .. Len(sorted) /\ Cut(s) /\ b \in 1 .. (s - 1) /\ a \in s .. Len(sorted)
      BY <1>1, <2>5, <2>10
    <3>2. At(b) < At(a)
      BY <3>1, Apart
    <3> QED BY <2>5, <2>6, <3>2
  <2> QED BY <1>1, <2>5, <2>7, <2>8, <2>9, <2>10
<1> QED BY <1>3, <1>4, <1>5

(* The pull requests of a cluster are ambiguous when it has more than one   *)
(* of them and more than one release.                                       *)
LEMMA ClusterAmbiguous ==
  ASSUME ScanTypes, Clustering, start <= Len(sorted), start \in Nat, end \in Nat, start >= 1
  PROVE  AmbiguousIn(Cluster(start, end)) =
           IF end - start > 1 /\ Cardinality(PRsMergedWithinWindow) > 1 THEN PRsMergedWithinWindow ELSE {}
<1> DEFINE W == PRsMergedWithinWindow
<1>1. /\ Len(sorted) \in Nat /\ start < end /\ end <= Len(sorted) + 1
      /\ start \in 1 .. Len(sorted) /\ end - 1 \in 1 .. Len(sorted) /\ start .. (end - 1) \subseteq 1 .. Len(sorted)
      /\ At(start) \in Nat /\ At(end - 1) \in Nat
  <2>1. Len(sorted) \in Nat /\ start < end /\ end <= Len(sorted) + 1
    BY DEF ScanTypes, Clustering
  <2>2. start \in 1 .. Len(sorted) /\ end - 1 \in 1 .. Len(sorted) /\ start .. (end - 1) \subseteq 1 .. Len(sorted)
    BY <2>1
  <2> QED BY <2>1, <2>2 DEF ScanTypes
<1>2. \A k \in start .. (end - 1) : At(k) \in Nat /\ At(start) <= At(k) /\ At(k) <= At(end - 1)
  <2>1. ASSUME NEW k \in start .. (end - 1) PROVE At(k) \in Nat /\ At(start) <= At(k) /\ At(k) <= At(end - 1)
    <3>1. k \in 1 .. Len(sorted) /\ (k = start \/ start < k) /\ (k = end - 1 \/ k < end - 1)
      BY <1>1
    <3>2. \A a, b \in 1 .. Len(sorted) : a < b => At(a) <= At(b)
      BY DEF ScanTypes
    <3>3. At(k) \in Nat
      BY <3>1 DEF ScanTypes
    <3>4. At(start) <= At(k)
      BY <1>1, <3>1, <3>2, <3>3
    <3>5. At(k) <= At(end - 1)
      BY <1>1, <3>1, <3>2, <3>3
    <3> QED BY <3>3, <3>4, <3>5
  <2> QED BY <2>1
<1>3. /\ W = {p \in Range(prs) : At(start) <= merged[p] /\ merged[p] <= At(end - 1)}
      /\ IsFiniteSet(W)
  <2>1. W = {p \in Range(prs) : At(start) <= merged[p] /\ merged[p] <= At(end - 1)}
    BY DEF PRsMergedWithinWindow, At
  <2>2. W \in SUBSET Range(prs) /\ IsFiniteSet(Range(prs))
    BY <2>1 DEF ScanTypes
  <2> HIDE DEF W
  <2>3. IsFiniteSet(W)
    BY <2>2, FS_Subset
  <2> QED BY <2>1, <2>3
<1> HIDE DEF W
<1>4. Cardinality(W) \in Nat /\ (Cardinality(W) = 0 <=> W = {}) /\ (Cardinality(W) = 1 <=> \E x : W = {x})
  BY <1>3, FS_CardinalityType, FS_EmptySet, FS_Singleton
<1>5. ASSUME NEW p \in AmbiguousIn(Cluster(start, end)) PROVE end - start > 1 /\ Cardinality(W) > 1 /\ p \in W
  <2>1. PICK q \in Cluster(start, end), r \in Cluster(start, end), o \in Range(prs) \ {p} :
          q # r /\ Between(merged[p], q, r) /\ Between(merged[o], q, r)
    BY DEF AmbiguousIn
  <2>2. p \in Range(prs) /\ merged[p] \in Nat /\ merged[o] \in Nat
    BY DEF AmbiguousIn, ScanTypes
  <2>3. PICK a \in start .. (end - 1) : q = sorted[a]
    BY DEF Cluster
  <2>4. PICK b \in start .. (end - 1) : r = sorted[b]
    BY DEF Cluster
  <2>5. /\ published[q] = At(a) /\ published[r] = At(b) /\ At(a) \in Nat /\ At(b) \in Nat
        /\ At(start) <= At(a) /\ At(b) <= At(end - 1)
    BY <1>2, <2>3, <2>4 DEF At
  <2>6. p \in W /\ o \in W
    BY <1>1, <1>3, <2>1, <2>2, <2>5 DEF Between
  <2>7. W # {} /\ ~\E x : W = {x}
    BY <2>1, <2>6
  <2>8. Cardinality(W) > 1
    <3>1. Cardinality(W) # 0 /\ Cardinality(W) # 1
      BY <1>4, <2>7, Zenon
    <3> QED BY <1>4, <3>1
  <2>9. a # b
    BY <2>1, <2>3, <2>4
  <2> QED BY <1>1, <2>6, <2>8, <2>9
<1>6. ASSUME end - start > 1, Cardinality(W) > 1, NEW p \in W PROVE p \in AmbiguousIn(Cluster(start, end))
  <2>1. W # {p}
    <3>1. Cardinality(W) # 1
      BY <1>4, <1>6
    <3> QED BY <1>4, <3>1, Zenon
  <2>2. PICK o \in W : o # p
    BY <2>1
  <2> DEFINE q == sorted[start]
             r == sorted[end - 1]
  <2>3. q \in Cluster(start, end) /\ r \in Cluster(start, end) /\ published[q] = At(start) /\ published[r] = At(end - 1)
    BY <1>1 DEF Cluster, At
  <2>4. q # r
    <3>1. start < end - 1
      BY <1>1, <1>6
    <3> QED BY <1>1, <3>1 DEF ScanTypes
  <2>5. Bridged(At(start), At(end - 1))
    <3>1. ASSUME NEW t \in At(start) .. (At(end - 1) - 1)
          PROVE  \E x \in Range(releases) :
                   published[x] \in (t + 1) .. (t + AmbiguousWindow) /\ published[x] <= At(end - 1)
      <4>1. PICK k \in start .. (end - 1) : At(k) \in (t + 1) .. (t + AmbiguousWindow)
        BY <3>1 DEF Clustering
      <4>2. sorted[k] \in Range(releases) /\ published[sorted[k]] = At(k) /\ At(k) <= At(end - 1)
        BY <1>1, <1>2 DEF ScanTypes, At
      <4> QED BY <4>1, <4>2
    <3> QED BY <3>1 DEF Bridged
  <2> HIDE DEF q, r
  <2>6. Between(merged[p], q, r) /\ Between(merged[o], q, r) /\ p \in Range(prs) /\ o \in Range(prs) \ {p}
    BY <1>3, <1>6, <2>2, <2>3 DEF Between
  <2> QED BY <2>3, <2>4, <2>5, <2>6 DEF AmbiguousIn
<1> QED BY <1>5, <1>6 DEF W

(* What a step of the scan must see to, to keep the invariant.              *)
LEMMA ScanKeeps ==
  ASSUME DataInv, pc \in {"release", "scan"}, UNCHANGED <<repository, collected, inference, grouping>>,
         pc' \in {"scan", "groups"}, DOMAIN deployments = Range(prs),
         sorted' \in Seq(Releases), start' \in 1 .. (Len(sorted') + 1), end' \in 1 .. (Len(sorted') + 2),
         DOMAIN ambiguousByPR' \subseteq Range(prs),
         \A p \in DOMAIN ambiguousByPR' :
           /\ ambiguousByPR'[p] \subseteq Markers
           /\ deployments[p].source = "release" /\ Marker(deployments[p].marker) \in ambiguousByPR'[p],
         pc' = "scan" => Ordered' /\ Clustering' /\ DOMAIN ambiguousByPR' = AmbiguousIn(Before(sorted', start')),
         pc' = "groups" => DOMAIN ambiguousByPR' = AmbiguousIn(Range(releases))
  PROVE  DataInv'
<1>1. UNCHANGED <<merged, published, created, path, prs, releases, tags, i, j, chosen, deployments, names, groups>>
  BY DEF repository, collected, inference, grouping
<1>2. j \in 1 .. (Len(releases) + 1) /\ chosen \in Range(releases) \cup {None}
  BY DEF DataInv, TypeOK
<1>3. names = <<>> /\ groups = <<>>
  BY DEF DataInv, Fresh
<1>4. TypeOK'
  <2>1. j' \in 1 .. ((IF pc' = "tag" THEN Len(tags') ELSE Len(releases')) + 1)
        /\ chosen' \in (IF pc' = "tag" THEN Range(tags') ELSE Range(releases')) \cup {None}
    BY <1>1, <1>2
  <2>2. DOMAIN ambiguousByPR' \subseteq Range(prs') /\ \A p \in DOMAIN ambiguousByPR' : ambiguousByPR'[p] \subseteq Markers
    BY <1>1
  <2> QED BY <1>1, <2>1, <2>2 DEF DataInv, TypeOK
<1>5. Fresh'
  BY <1>1, <1>3 DEF Fresh, Collecting, Inferring
<1>6. Taken'
  BY <1>1 DEF DataInv, Taken, Collecting, Newest, Existing, Range
<1>7. Looping'
  BY DEF Looping, Inferring
<1>8. TagTimes' = TagTimes
  BY <1>1 DEF TagTimes, CreatedAt
<1>9. Deploying'
  BY <1>1, <1>8 DEF DataInv, Deploying, Placed, Picked, VersionsOf, Range, CreatedAt
<1>10. AmbiguousAmongOptions'
  BY <1>1 DEF AmbiguousAmongOptions
<1>11. GroupsCountPRs'
  BY DEF GroupsCountPRs
<1>12. Scanning'
  <2>1. Range(prs)' = Range(prs) /\ Range(releases)' = Range(releases)
        /\ Before(sorted, start)' = Before(sorted', start')
    BY <1>1 DEF Range, Before
  <2>2. AmbiguousIn(Before(sorted, start))' = AmbiguousIn(Before(sorted', start'))
    BY <1>1, <2>1 DEF AmbiguousIn, Between, Bridged
  <2> QED BY <1>1, <2>1, <2>2 DEF Scanning
<1>13. AmbiguityIsInClusters'
  BY <1>1 DEF AmbiguityIsInClusters, AmbiguousIn, Between, Bridged, Range
<1> QED BY <1>4, <1>5, <1>6, <1>7, <1>9, <1>10, <1>11, <1>12, <1>13 DEF DataInv

(* Sorted, nothing is seen yet and the first cluster is its first release.  *)
LEMMA SortReleasesKeeps == ASSUME DataInv, SortReleases PROVE DataInv'
<1>1. /\ pc = "release" /\ i > Len(prs) /\ start' = 1 /\ end' = 2
      /\ sorted' \in SetToSeqs(Range(releases))
      /\ \A a, b \in DOMAIN sorted' : a < b => published[sorted'[a]] <= published[sorted'[b]]
      /\ pc' = IF Len(prs) < 2 \/ Len(releases) < 2 THEN "groups" ELSE "scan"
      /\ UNCHANGED <<repository, collected, inference, ambiguousByPR, grouping>>
  BY DEF SortReleases
<1>2. /\ prs \in Seq(PRs) /\ releases \in Seq(Releases) /\ i = Len(prs) + 1 /\ Len(prs) \in Nat /\ Len(releases) \in Nat
  BY <1>1, Collected
<1>3. DOMAIN deployments = Range(prs)
  <2>1. DOMAIN deployments = Before(prs, i)
    BY <1>1, InferTypes DEF Inferring
  <2> QED BY <1>2, <2>1, RangeIs
<1>4. Range(releases) \subseteq Releases /\ IsFiniteSet(Range(releases))
  <2>1. Range(releases) \subseteq Releases
    BY <1>2, RangeIs
  <2> QED BY <2>1, FS_Subset, DataAssumption
<1>5. /\ sorted' \in Seq(Releases) /\ Len(sorted') \in Nat /\ DOMAIN sorted' = 1 .. Len(sorted')
      /\ Range(sorted') = Range(releases)
      /\ \A a, b \in DOMAIN sorted' : a # b => sorted'[a] # sorted'[b]
  <2>1. sorted' \in Seq(Range(releases)) /\ DOMAIN sorted' = 1 .. Len(sorted') /\ Range(sorted') = Range(releases)
        /\ \A a, b \in DOMAIN sorted' : a # b => sorted'[a] # sorted'[b]
    BY <1>1, <1>4, SeqsOf
  <2> QED BY <1>4, <2>1
<1>6. ambiguousByPR' = <<>> /\ DOMAIN ambiguousByPR' = {}
  BY <1>1 DEF DataInv, Fresh, Inferring
<1>7. UNCHANGED <<releases, published>>
  BY <1>1 DEF collected, repository
<1>8. Ordered'
  BY <1>1, <1>5, <1>7 DEF Ordered, At, Range
<1>9. Clustering'
  <2>1. start' <= Len(sorted') => end' <= Len(sorted') + 1
    BY <1>1, <1>5
  <2>2. start' <= Len(sorted') => published[sorted'[1]] \in Nat
    <3>1. ASSUME start' <= Len(sorted') PROVE sorted'[1] \in Releases
      <4>1. 1 \in 1 .. Len(sorted')
        BY <1>1, <1>5, <3>1
      <4> QED BY <4>1, <1>5
    <3> QED BY <3>1, Collected, Numbers
  <2>3. start' <= Len(sorted') =>
          \A t \in published[sorted'[1]] .. (published[sorted'[1]] - 1) :
            \E k \in 1 .. 1 : published[sorted'[k]] \in (t + 1) .. (t + AmbiguousWindow)
    BY <2>2
  <2> QED BY <1>1, <1>7, <2>1, <2>3 DEF Clustering, At
<1>10. AmbiguousIn(Before(sorted', start')) = {}
  BY <1>1 DEF AmbiguousIn, Before
<1>11. ASSUME Len(prs) < 2 \/ Len(releases) < 2 PROVE AmbiguousIn(Range(releases)) = {}
  <2>1. CASE Len(prs) < 2
    <3>1. \A p, o \in Range(prs) : p = o
      <4>1. \A a, b \in 1 .. Len(prs) : a = b
        BY <1>2, <2>1
      <4>2. DOMAIN prs = 1 .. Len(prs)
        BY <1>2
      <4> QED BY <4>1, <4>2 DEF Range
    <3> QED BY <3>1 DEF AmbiguousIn
  <2>2. CASE Len(releases) < 2
    <3>1. \A q, r \in Range(releases) : q = r
      <4>1. \A a, b \in 1 .. Len(releases) : a = b
        BY <1>2, <2>2
      <4>2. DOMAIN releases = 1 .. Len(releases)
        BY <1>2
      <4> QED BY <4>1, <4>2 DEF Range
    <3> QED BY <3>1 DEF AmbiguousIn
  <2> QED BY <1>11, <2>1, <2>2
<1>12. start' \in 1 .. (Len(sorted') + 1) /\ end' \in 1 .. (Len(sorted') + 2)
  BY <1>1, <1>5
<1> QED BY <1>1, <1>3, <1>5, <1>6, <1>8, <1>9, <1>10, <1>11, <1>12, ScanKeeps

(* A release within the window of the one before it joins the cluster.      *)
LEMMA ExtendClusterKeeps == ASSUME DataInv, ExtendCluster PROVE DataInv'
<1>1. /\ pc = "scan" /\ pc' = "scan" /\ start <= Len(sorted) /\ end <= Len(sorted)
      /\ At(end) - At(end - 1) <= AmbiguousWindow /\ end' = end + 1
      /\ UNCHANGED <<repository, collected, inference, sorted, start, ambiguousByPR, grouping>>
  BY DEF ExtendCluster, ClusterGrows, InCluster, At
<1>2. ScanTypes /\ Clustering /\ Ordered /\ DOMAIN ambiguousByPR = AmbiguousIn(Before(sorted, start))
      /\ DOMAIN deployments = Range(prs) /\ AmbiguousAmongOptions
  BY <1>1, ScanFacts DEF DataInv, Scanning
<1>3. /\ start \in 1 .. (Len(sorted) + 1) /\ end \in 1 .. (Len(sorted) + 2) /\ Len(sorted) \in Nat /\ sorted \in Seq(Releases)
      /\ DOMAIN ambiguousByPR \subseteq Range(prs) /\ \A p \in DOMAIN ambiguousByPR : ambiguousByPR[p] \subseteq Markers
  BY <1>2 DEF DataInv, TypeOK, ScanTypes
<1>4. UNCHANGED <<published, releases, prs, merged>>
  BY <1>1 DEF repository, collected
<1>5. start < end /\ end - 1 \in 1 .. Len(sorted) /\ end \in 1 .. Len(sorted) /\ start \in 1 .. Len(sorted)
      /\ (start # 1 => Cut(start))
      /\ At(end) \in Nat /\ At(end - 1) \in Nat /\ At(start) \in Nat
  <2>1. start < end /\ (start # 1 => Cut(start))
    BY <1>1, <1>2 DEF Clustering
  <2>2. end - 1 \in 1 .. Len(sorted) /\ end \in 1 .. Len(sorted) /\ start \in 1 .. Len(sorted)
    BY <1>1, <1>3, <2>1
  <2> QED BY <1>2, <2>1, <2>2 DEF ScanTypes
<1>6. ASSUME NEW t \in At(start) .. (At(end) - 1)
      PROVE  \E k \in start .. end : At(k) \in (t + 1) .. (t + AmbiguousWindow)
  <2>1. CASE t <= At(end - 1) - 1
    <3>1. t \in At(start) .. (At(end - 1) - 1)
      BY <1>5, <2>1
    <3>2. PICK k \in start .. (end - 1) : At(k) \in (t + 1) .. (t + AmbiguousWindow)
      BY <1>1, <1>2, <3>1 DEF Clustering
    <3>3. k \in start .. end
      BY <1>3
    <3> QED BY <3>2, <3>3
  <2>2. CASE t > At(end - 1) - 1
    <3>1. At(end) \in (t + 1) .. (t + AmbiguousWindow)
      BY <1>1, <1>5, <2>2, Numbers
    <3>2. end \in start .. end
      BY <1>3, <1>5
    <3> QED BY <3>1, <3>2
  <2> QED BY <1>5, <2>1, <2>2
<1>7. Clustering'
  <2>1. end' - 1 = end /\ start < end' /\ end' <= Len(sorted) + 1
    BY <1>1, <1>3, <1>5
  <2>2. start # 1 => Cut(start)
    BY <1>5
  <2> QED BY <1>1, <1>4, <1>6, <2>1, <2>2 DEF Clustering, At, Cut
<1>8. Ordered'
  BY <1>1, <1>2, <1>4 DEF Ordered, At, Range
<1>9. DOMAIN ambiguousByPR' = AmbiguousIn(Before(sorted', start'))
  BY <1>1, <1>2
<1>10. start' \in 1 .. (Len(sorted') + 1) /\ end' \in 1 .. (Len(sorted') + 2)
  BY <1>1, <1>3
<1> QED BY <1>1, <1>2, <1>3, <1>7, <1>8, <1>9, <1>10, ScanKeeps DEF AmbiguousAmongOptions

(* Behind the last cluster everything is seen.                              *)
LEMMA ScannedKeeps == ASSUME DataInv, Scanned PROVE DataInv'
<1>1. /\ pc = "scan" /\ pc' = "groups" /\ start > Len(sorted)
      /\ UNCHANGED <<repository, collected, inference, detection, grouping>>
      /\ UNCHANGED <<sorted, start, end, ambiguousByPR>>
  BY DEF Scanned, detection
<1>2. /\ start \in 1 .. (Len(sorted) + 1) /\ end \in 1 .. (Len(sorted) + 2) /\ sorted \in Seq(Releases)
      /\ DOMAIN ambiguousByPR \subseteq Range(prs) /\ \A p \in DOMAIN ambiguousByPR : ambiguousByPR[p] \subseteq Markers
      /\ AmbiguousAmongOptions /\ DOMAIN deployments = Range(prs)
      /\ Ordered /\ DOMAIN ambiguousByPR = AmbiguousIn(Before(sorted, start))
  BY <1>1 DEF DataInv, TypeOK, Scanning
<1>3. start = Len(sorted) + 1
  BY <1>1, <1>2
<1>4. Before(sorted, start) = Range(releases)
  BY <1>2, <1>3, RangeIs DEF Ordered
<1> QED BY <1>1, <1>2, <1>4, ScanKeeps DEF AmbiguousAmongOptions

(* The two windows agree: the deployment of a pull request of the cluster   *)
(* is a release of the cluster.                                             *)
LEMMA DeployedInCluster ==
  ASSUME DataInv, pc = "scan", start <= Len(sorted), ~ClusterGrows, NEW p \in PRsMergedWithinWindow
  PROVE  deployments[p].source = "release" /\ Marker(deployments[p].marker) \in ClusterReleaseOptions
<1> DEFINE t == merged[p]
           d == deployments[p]
           m == d.marker
<1>1. ScanTypes /\ Clustering /\ DOMAIN deployments = Range(prs) /\ Len(sorted) \in Nat
  BY ScanFacts DEF DataInv, Scanning, ScanTypes
<1>2. start \in 1 .. (Len(sorted) + 1) /\ end \in 1 .. (Len(sorted) + 2)
  BY DEF DataInv, TypeOK
<1>3. start < end /\ end <= Len(sorted) + 1 /\ (start # 1 => Cut(start))
  BY <1>1 DEF Clustering
<1>4. start \in 1 .. Len(sorted) /\ end - 1 \in 1 .. Len(sorted) /\ AmbiguousWindow \in Nat
      /\ \A k \in 1 .. Len(sorted) : At(k) \in Nat
      /\ \A a, b \in 1 .. Len(sorted) : a < b => At(a) <= At(b)
  BY <1>1, <1>2, <1>3 DEF ScanTypes
<1>5. p \in Range(prs) /\ t \in Nat /\ At(start) <= t /\ t <= At(end - 1)
  BY <1>1 DEF PRsMergedWithinWindow, At, ScanTypes
<1>6. Placed(p, d) /\ d \in [source : Sources, marker : Releases \cup Tags \cup {None}, at : Times]
  BY <1>1, <1>5 DEF DataInv, Deploying, TypeOK
<1>7. PICK k \in start .. (end - 1) : At(k) \in t .. (t + AmbiguousWindow)
  <2>1. CASE t = At(start)
    <3>1. start \in start .. (end - 1)
      BY <1>2, <1>3
    <3>2. t \in t .. (t + AmbiguousWindow)
      BY <1>4, <1>5
    <3> QED BY <2>1, <3>1, <3>2
  <2>2. CASE t # At(start)
    <3>1. t - 1 \in At(start) .. (At(end - 1) - 1)
      BY <1>4, <1>5, <2>2
    <3>2. PICK k \in start .. (end - 1) : At(k) \in ((t - 1) + 1) .. ((t - 1) + AmbiguousWindow)
      BY <1>1, <3>1 DEF Clustering
    <3>3. At(k) \in t .. (t + AmbiguousWindow)
      BY <1>4, <1>5, <3>2
    <3> QED BY <3>3
  <2> QED BY <2>1, <2>2
<1>8. k \in 1 .. Len(sorted) /\ sorted[k] \in Range(releases) /\ published[sorted[k]] = At(k)
  BY <1>1, <1>2, <1>3 DEF ScanTypes, At
<1> HIDE DEF t, d
<1>9. Usable(t, At(k))
  <2>1. At(k) # 0
    BY <1>1, <1>8 DEF ScanTypes
  <2> QED BY <1>4, <1>5, <1>7, <1>8, <2>1, Numbers DEF Usable, Near
<1>10. d.source = "release"
  BY <1>6, <1>8, <1>9 DEF Placed, Picked, t
<1>11. m \in Range(releases) /\ Usable(t, published[m]) /\ published[m] <= At(k)
  BY <1>6, <1>8, <1>9, <1>10 DEF Placed, Picked, t
<1>12. PICK b \in 1 .. Len(sorted) : m = sorted[b]
  BY <1>1, <1>11 DEF ScanTypes
<1>13. At(b) = published[m] /\ t <= At(b) /\ At(b) <= At(k) /\ At(b) \in Nat
  BY <1>4, <1>11, <1>12 DEF At, Usable, Near
<1>14. ASSUME b < start PROVE FALSE
  <2>1. start \in 2 .. Len(sorted) /\ b \in 1 .. (start - 1) /\ start \in start .. Len(sorted) /\ Cut(start)
    BY <1>3, <1>4, <1>14
  <2>2. At(b) < At(start)
    BY <1>1, <2>1, Apart
  <2> QED BY <1>4, <1>5, <1>13, <2>2
<1>15. ASSUME b >= end PROVE FALSE
  <2>1. end \in 1 .. Len(sorted) /\ At(end) - At(end - 1) > AmbiguousWindow
    <3>1. end \in 1 .. Len(sorted)
      BY <1>2, <1>4, <1>15
    <3>2. ~(At(end) - At(end - 1) <= AmbiguousWindow)
      BY <3>1 DEF ClusterGrows, InCluster, At
    <3> QED BY <3>1, <3>2, <1>4
  <2>2. At(end) <= At(b)
    <3>1. end = b \/ end < b
      BY <1>2, <1>15
    <3> QED BY <1>4, <2>1, <3>1
  <2>3. At(k) <= At(end - 1)
    <3>1. k = end - 1 \/ k < end - 1
      BY <1>2, <1>7
    <3> QED BY <1>4, <1>8, <3>1
  <2> QED BY <1>4, <1>8, <1>13, <2>1, <2>2, <2>3
<1>16. b \in start .. (end - 1)
  BY <1>2, <1>14, <1>15
<1> QED BY <1>10, <1>12, <1>16 DEF ClusterReleaseOptions, d

(* A cluster closed adds exactly the pull requests ambiguous within it.     *)
LEMMA CloseClusterKeeps == ASSUME DataInv, CloseCluster PROVE DataInv'
<1> DEFINE W == PRsMergedWithinWindow
           O == ClusterReleaseOptions
           big == end - start > 1 /\ Cardinality(W) > 1
<1>1. /\ pc = "scan" /\ pc' = "scan" /\ start <= Len(sorted) /\ ~ClusterGrows
      /\ ambiguousByPR' =
           IF big
           THEN [p \in DOMAIN ambiguousByPR \cup W |->
                   (IF p \in DOMAIN ambiguousByPR THEN ambiguousByPR[p] ELSE {})
                     \cup (IF p \in W THEN O ELSE {})]
           ELSE ambiguousByPR
      /\ start' = end /\ end' = end + 1
      /\ UNCHANGED <<repository, collected, inference, sorted, grouping>>
  BY DEF CloseCluster, MergeDistinctOptions
<1>2. ScanTypes /\ Clustering /\ Ordered /\ DOMAIN ambiguousByPR = AmbiguousIn(Before(sorted, start))
      /\ DOMAIN deployments = Range(prs) /\ AmbiguousAmongOptions
  BY <1>1, ScanFacts DEF DataInv, Scanning
<1>3. /\ start \in 1 .. (Len(sorted) + 1) /\ end \in 1 .. (Len(sorted) + 2) /\ Len(sorted) \in Nat /\ sorted \in Seq(Releases)
      /\ DOMAIN ambiguousByPR \subseteq Range(prs) /\ \A p \in DOMAIN ambiguousByPR : ambiguousByPR[p] \subseteq Markers
  BY <1>2 DEF DataInv, TypeOK, ScanTypes
<1>4. UNCHANGED <<published, releases, prs, merged>>
  BY <1>1 DEF repository, collected
<1>5. start < end /\ end <= Len(sorted) + 1 /\ start \in 1 .. Len(sorted) /\ end \in (start + 1) .. (Len(sorted) + 1)
      /\ start \in Nat /\ end \in Nat /\ start >= 1 /\ (start # 1 => Cut(start))
  BY <1>1, <1>2, <1>3 DEF Clustering
<1>6. AmbiguousIn(Cluster(start, end)) = IF big THEN W ELSE {}
  BY <1>1, <1>2, <1>5, ClusterAmbiguous
<1>7. AmbiguousIn(Before(sorted, end)) = AmbiguousIn(Before(sorted, start)) \cup AmbiguousIn(Cluster(start, end))
  BY <1>2, <1>5, SplitAtCut
<1>8. W \subseteq Range(prs) /\ O \subseteq Markers
  <2>1. \A k \in start .. (end - 1) : sorted[k] \in Releases
    BY <1>3, <1>5
  <2> QED BY <2>1, DataAssumption DEF PRsMergedWithinWindow, ClusterReleaseOptions
<1>9. \A p \in W : deployments[p].source = "release" /\ Marker(deployments[p].marker) \in O
  BY <1>1, DeployedInCluster
<1> HIDE DEF W, O, big
<1>10. DOMAIN ambiguousByPR' = DOMAIN ambiguousByPR \cup (IF big THEN W ELSE {})
  BY <1>1
<1>11. DOMAIN ambiguousByPR' = AmbiguousIn(Before(sorted', start'))
  BY <1>1, <1>2, <1>6, <1>7, <1>10
<1>12. DOMAIN ambiguousByPR' \subseteq Range(prs)
  BY <1>3, <1>8, <1>10
<1>13. ASSUME NEW p \in DOMAIN ambiguousByPR'
       PROVE  /\ ambiguousByPR'[p] \subseteq Markers
              /\ deployments[p].source = "release" /\ Marker(deployments[p].marker) \in ambiguousByPR'[p]
  <2>1. p \in DOMAIN ambiguousByPR =>
          /\ ambiguousByPR[p] \subseteq Markers
          /\ deployments[p].source = "release" /\ Marker(deployments[p].marker) \in ambiguousByPR[p]
    BY <1>2, <1>3 DEF AmbiguousAmongOptions
  <2>2. CASE big
    <3>1. /\ p \in DOMAIN ambiguousByPR \cup W
          /\ ambiguousByPR'[p] = (IF p \in DOMAIN ambiguousByPR THEN ambiguousByPR[p] ELSE {})
                                   \cup (IF p \in W THEN O ELSE {})
      BY <1>1, <1>13, <2>2
    <3> QED BY <1>8, <1>9, <2>1, <3>1
  <2>3. CASE ~big
    BY <1>1, <1>13, <2>1, <2>3
  <2> QED BY <2>2, <2>3
<1>14. Clustering'
  <2>1. end' <= Len(sorted) + 2 /\ start' < end' /\ end' - 1 = end
    BY <1>1, <1>3, <1>5
  <2>2. ASSUME end <= Len(sorted)
        PROVE  end + 1 <= Len(sorted) + 1 /\ Cut(end) /\ At(end) \in Nat
    <3>1. end \in 1 .. Len(sorted) /\ end - 1 \in 1 .. Len(sorted)
      BY <1>3, <1>5, <2>2
    <3>2. ~(At(end) - At(end - 1) <= AmbiguousWindow)
      BY <1>1, <2>2 DEF ClusterGrows, InCluster, At
    <3>3. At(end) \in Nat /\ At(end - 1) \in Nat
      BY <1>2, <3>1 DEF ScanTypes
    <3> QED BY <1>3, <2>2, <3>2, <3>3, Numbers DEF Cut
  <2>3. end <= Len(sorted) => \A t \in At(end) .. (At(end) - 1) :
          \E k \in end .. end : At(k) \in (t + 1) .. (t + AmbiguousWindow)
    BY <2>2
  <2> QED BY <1>1, <1>4, <2>1, <2>2, <2>3 DEF Clustering, At, Cut
<1>15. Ordered'
  BY <1>1, <1>2, <1>4 DEF Ordered, At, Range
<1>16. start' \in 1 .. (Len(sorted') + 1) /\ end' \in 1 .. (Len(sorted') + 2)
  BY <1>1, <1>3, <1>5
<1> QED BY <1>1, <1>2, <1>3, <1>11, <1>12, <1>13, <1>14, <1>15, <1>16, ScanKeeps

-----------------------------------------------------------------------------
(* Proposing the groups.                                                    *)
LEMMA KeysAre ==
  ASSUME NEW p \in PRs, NEW n \in Names
  PROVE  /\ KeysOf(p, n) \subseteq Features
         /\ KeysOf(p, n) = {} => n.feature = None /\ "" \in {n.branch, n.title, n.file}
         /\ Cardinality(KeysOf(p, n)) > 1 => KeysOf(p, n) \subseteq n.labels \cup {n.feature}
<1> DEFINE name == FeatureNameFromPR(p, n)
<1>1. /\ n.labels \subseteq Features /\ n.feature \in Features \cup {None}
      /\ {n.branch, n.title, n.file} \subseteq Features \cup {None, ""}
  BY DEF Names, Candidates
<1>2. Explicit(n) \subseteq n.labels \cup {n.feature} /\ Explicit(n) \subseteq Features
  BY <1>1 DEF Explicit
<1>3. CASE Explicit(n) # {}
  BY <1>2, <1>3 DEF KeysOf
<1>4. CASE Explicit(n) = {}
  <2>1. KeysOf(p, n) = {name} \ {""}
    BY <1>4 DEF KeysOf
  <2>2. n.feature = None
    BY <1>4 DEF Explicit
  <2>3. name \in Features \cup {""} /\ (name = "" => "" \in {n.branch, n.title, n.file})
    BY <1>1, DataAssumption DEF FeatureNameFromPR
  <2> HIDE DEF name
  <2>4. CASE name = ""
    <3>1. KeysOf(p, n) = {}
      BY <2>1, <2>4
    <3>2. Cardinality(KeysOf(p, n)) = 0
      BY <3>1, FS_EmptySet
    <3> QED BY <2>2, <2>3, <2>4, <3>1, <3>2
  <2>5. CASE name # ""
    <3>1. KeysOf(p, n) = {name}
      BY <2>1, <2>5
    <3>2. Cardinality(KeysOf(p, n)) = 1
      BY <3>1, FS_Singleton
    <3>3. KeysOf(p, n) # {} /\ KeysOf(p, n) \subseteq Features
      BY <2>3, <2>5, <3>1
    <3>4. ~(Cardinality(KeysOf(p, n)) > 1)
      BY <3>2
    <3> QED BY <3>3, <3>4
  <2> QED BY <2>4, <2>5
<1> QED BY <1>3, <1>4

(* Each name left by the normalisation makes its group.                     *)
LEMMA GroupsKeeps == ASSUME DataInv, ProposeFeatureGroups PROVE DataInv'
<1>1. /\ pc = "groups" /\ pc' = "done" /\ names' \in Namings
      /\ groups' = [f \in UNION {KeysOf(p, names'[p]) : p \in Range(prs)} |->
                      {p \in Range(prs) : f \in KeysOf(p, names'[p])}]
      /\ UNCHANGED <<repository, collected, inference, detection>>
  BY DEF ProposeFeatureGroups
<1>2. UNCHANGED <<merged, published, created, path, prs, releases, tags, i, j, chosen, deployments,
                  sorted, start, end, ambiguousByPR>>
  BY <1>1 DEF repository, collected, inference, detection
<1>3. Range(prs) \subseteq PRs /\ \A p \in Range(prs) : names'[p] \in Names
  <2>1. names' \in [PRs -> Names]
    BY <1>1, DataAssumption
  <2>2. Range(prs) \subseteq PRs
    BY Collected, RangeIs
  <2> QED BY <2>1, <2>2
<1>4. \A p \in Range(prs) : {f \in DOMAIN groups' : p \in groups'[f]} = KeysOf(p, names'[p])
  BY <1>1
<1>5. DOMAIN groups' \subseteq Features /\ \A f \in DOMAIN groups' : groups'[f] \subseteq Range(prs)
  <2>1. \A p \in Range(prs) : KeysOf(p, names'[p]) \subseteq Features
    BY <1>3, KeysAre
  <2>2. DOMAIN groups' = UNION {KeysOf(p, names'[p]) : p \in Range(prs)}
    BY <1>1
  <2>3. DOMAIN groups' \subseteq Features
    BY <2>1, <2>2
  <2> QED BY <1>1, <2>3
<1>6. Range(prs)' = Range(prs)
  BY <1>2 DEF Range
<1>7. GroupsCountPRs'
  <2>1. ASSUME NEW p \in Range(prs)
        PROVE  LET in == {f \in DOMAIN groups' : p \in groups'[f]} IN
               /\ in = {} => /\ names'[p].feature = None
                             /\ "" \in {names'[p].branch, names'[p].title, names'[p].file}
               /\ Cardinality(in) > 1 => in \subseteq names'[p].labels \cup {names'[p].feature}
    BY <1>3, <1>4, KeysAre
  <2> QED BY <1>6, <2>1 DEF GroupsCountPRs
<1>8. TypeOK'
  <2>1. names' \in Namings \cup {<<>>} /\ pc' = "done"
    BY <1>1
  <2>2. j' \in 1 .. ((IF pc' = "tag" THEN Len(tags') ELSE Len(releases')) + 1)
        /\ chosen' \in (IF pc' = "tag" THEN Range(tags') ELSE Range(releases')) \cup {None}
    BY <1>1, <1>2 DEF DataInv, TypeOK
  <2> QED BY <1>2, <1>5, <1>6, <2>1, <2>2 DEF DataInv, TypeOK
<1>9. Fresh' /\ Looping'
  BY <1>1 DEF Fresh, Looping, Collecting, Inferring
<1>10. Taken'
  BY <1>1, <1>2 DEF DataInv, Taken, Collecting, Newest, Existing, Range
<1>11. TagTimes' = TagTimes
  BY <1>2 DEF TagTimes, CreatedAt
<1>12. Deploying'
  BY <1>2, <1>11 DEF DataInv, Deploying, Placed, Picked, VersionsOf, Range, CreatedAt
<1>13. Scanning'
  BY <1>1, <1>2, <1>6 DEF DataInv, Scanning
<1>14. AmbiguousAmongOptions'
  BY <1>2 DEF DataInv, AmbiguousAmongOptions
<1>15. AmbiguityIsInClusters'
  <2>1. AmbiguityIsInClusters
    BY DEF DataInv
  <2> QED BY <1>1, <1>2, <2>1 DEF AmbiguityIsInClusters, Between, Bridged, Range
<1> QED BY <1>7, <1>8, <1>9, <1>10, <1>12, <1>13, <1>14, <1>15 DEF DataInv

(* A step that changes nothing keeps the invariant.                         *)
LEMMA StutterKeeps == ASSUME DataInv, UNCHANGED vars PROVE DataInv'
<1>1. UNCHANGED <<pc, merged, published, created, path, prs, releases, tags, i, j, chosen, deployments,
                  sorted, start, end, ambiguousByPR, names, groups>>
  BY DEF vars, repository, collected, inference, detection, grouping
<1>2. TypeOK' /\ Fresh'
  BY <1>1 DEF DataInv, TypeOK, Fresh, Collecting, Inferring
<1>3. Taken'
  BY <1>1 DEF DataInv, Taken, Collecting, Newest, Existing, Range
<1>4. TagTimes' = TagTimes
  BY <1>1 DEF TagTimes, CreatedAt
<1>5. Looping'
  BY <1>1, <1>4 DEF DataInv, Looping, Inferring, Picked, Before, VersionsOf, Range
<1>6. Deploying'
  BY <1>1, <1>4 DEF DataInv, Deploying, Placed, Picked, VersionsOf, Range, CreatedAt
<1>7. Scanning'
  <2>1. Ordered' = Ordered /\ Clustering' = Clustering
    BY <1>1 DEF Ordered, Clustering, At, Cut, Range
  <2>2. AmbiguousIn(Before(sorted, start))' = AmbiguousIn(Before(sorted, start)) /\ Range(prs)' = Range(prs)
    BY <1>1 DEF AmbiguousIn, Before, Between, Bridged, Range
  <2> QED BY <1>1, <2>1, <2>2 DEF DataInv, Scanning
<1>8. AmbiguousAmongOptions' /\ GroupsCountPRs'
  <2>1. AmbiguousAmongOptions /\ GroupsCountPRs
    BY DEF DataInv
  <2>2. AmbiguousAmongOptions'
    BY <1>1, <2>1 DEF AmbiguousAmongOptions
  <2>3. GroupsCountPRs'
    <3>1. Range(prs)' = Range(prs) /\ UNCHANGED <<pc, names, groups>>
      BY <1>1 DEF Range
    <3> QED BY <2>1, <3>1 DEF GroupsCountPRs
  <2> QED BY <2>2, <2>3
<1>9. AmbiguityIsInClusters'
  <2>1. AmbiguityIsInClusters
    BY DEF DataInv
  <2> QED BY <1>1, <2>1 DEF AmbiguityIsInClusters, Between, Bridged, Range
<1> QED BY <1>2, <1>3, <1>5, <1>6, <1>7, <1>8, <1>9 DEF DataInv

(* Every step of the specification keeps the invariant.                     *)
LEMMA InvStep == DataInv /\ [Next]_vars => DataInv'
<1> SUFFICES ASSUME DataInv, [Next]_vars PROVE DataInv'
  OBVIOUS
<1>1. CASE Collect
  BY <1>1, FailKeeps, CollectPRsKeeps, CollectTagsKeeps, CollectReleasesKeeps DEF Collect
<1>2. CASE Link
  BY <1>2, ConsiderReleaseKeeps, ReleaseChosenKeeps, ConsiderTagKeeps, TagChosenKeeps, SortReleasesKeeps,
     ExtendClusterKeeps, CloseClusterKeeps, ScannedKeeps, GroupsKeeps DEF Link
<1>3. CASE UNCHANGED vars
  BY <1>3, StutterKeeps
<1> QED BY <1>1, <1>2, <1>3 DEF Next

(* An item not before the merge is not lost to the limit of a query.        *)
LEMMA NothingLost ==
  ASSUME NEW S, NEW at \in [S -> Times], NEW s, Newest(s, at), NEW t \in Nat, Whole(s, at, t),
         NEW x \in Existing(at), at[x] >= t
  PROVE  x \in Range(s)
<1>1. CASE Range(s) = Existing(at)
  BY <1>1
<1>2. ASSUME path = "query", NEW a \in DOMAIN s, at[s[a]] < t, x \notin Range(s) PROVE FALSE
  <2>1. s[a] \in Range(s) /\ Range(s) \subseteq Existing(at) /\ Existing(at) \subseteq S
    BY DEF Newest, Existing, Range
  <2>2. at[x] <= at[s[a]]
    BY <1>2 DEF Newest
  <2>3. at[x] \in Nat /\ at[s[a]] \in Nat
    BY <2>1, Numbers
  <2> QED BY <1>2, <2>2, <2>3
<1> QED BY <1>1, <1>2 DEF Whole

(* Usable is: known, not before the merge and within the window.            *)
LEMMA UsableIs ==
  ASSUME NEW t \in Nat, NEW n \in Nat
  PROVE  Usable(t, n) <=> n # 0 /\ n \in t .. (t + LinkInferenceWindow)
BY Numbers DEF Usable, Near

-----------------------------------------------------------------------------
(* What the loops hold at each point is what they have seen of their lists. *)
THEOREM DataInvariant == Spec => []DataInv
BY InvInit, InvStep, PTL DEF Spec

(* Indexes, what was chosen and what was linked stay within what was        *)
(* collected.                                                               *)
THEOREM TypeCorrect == Spec => []TypeOK
<1>1. DataInv => TypeOK
  BY DEF DataInv
<1> QED BY <1>1, DataInvariant, PTL

(* A pull request for which the limits of the queries and the page of the   *)
(* API lost nothing is deployed by what the repository holds, not just by   *)
(* what was collected; one for which they did, by a release within the      *)
(* window at least, if by any.                                              *)
THEOREM DeploymentsCorrect == Spec => []DeploymentsMatchRepository
<1>0. ASSUME DataInv, NEW p \in DOMAIN deployments, deployments[p].source = "release"
      PROVE  LET d == deployments[p] IN
             /\ d.marker \in Existing(published) /\ d.at = published[d.marker]
             /\ d.at \in merged[p]..(merged[p] + LinkInferenceWindow)
  <2> DEFINE d == deployments[p]
  <2>1. Placed(p, d) /\ p \in Range(prs)
    BY <1>0 DEF DataInv, Deploying, TypeOK
  <2>2. /\ d.marker \in Range(releases) /\ Usable(merged[p], published[d.marker])
        /\ d.at = published[d.marker]
    BY <1>0, <2>1 DEF Placed, Picked
  <2>3. Newest(releases, published)
    BY <1>0 DEF DataInv, Fresh, Taken
  <2>4. d.marker \in Existing(published)
    BY <2>2, <2>3 DEF Newest
  <2>5. p \in PRs
    BY <1>0, <2>1, Collected, RangeIs
  <2>6. merged[p] \in Nat /\ published[d.marker] \in Nat
    BY <1>0, <2>4, <2>5, Collected, Numbers DEF Existing
  <2>7. published[d.marker] \in merged[p]..(merged[p] + LinkInferenceWindow)
    BY <2>2, <2>6, UsableIs
  <2> QED BY <2>2, <2>4, <2>7
<1>1. DataInv => DeploymentsMatchRepository
  <2> SUFFICES ASSUME DataInv, NEW p \in DOMAIN deployments,
                      Whole(releases, published, merged[p]),
                      deployments[p].source = "release" \/ (path = "query" /\ Whole(tags, created, merged[p]))
               PROVE  TruthOf(p, deployments[p])
    BY <1>0 DEF DeploymentsMatchRepository
  <2> DEFINE d == deployments[p]
             t == merged[p]
             due == t .. (t + LinkInferenceWindow)
             R == {r \in Existing(published) : published[r] \in due}
             T == {v \in Existing(created) : IsVersionTag(v) /\ created[v] \in due}
  <2>1. Placed(p, d) /\ d.source \in Sources /\ p \in Range(prs)
    BY DEF DataInv, Deploying, TypeOK
  <2>2. t \in Nat
    <3>1. p \in PRs
      BY <2>1, Collected, RangeIs
    <3> QED BY <3>1, Collected, Numbers
  <2>3. Newest(releases, published) /\ Newest(tags, created)
    <3>1. ~Collecting /\ pc # "failed"
      BY DEF DataInv, Fresh
    <3> QED BY <3>1 DEF DataInv, Taken
  <2>4. R \subseteq Range(releases) /\ \A r \in Range(releases) : Usable(t, published[r]) => r \in R
    <3>1. \A r \in R : published[r] >= t
      BY <2>2, Collected, Numbers DEF Existing
    <3>2. R \subseteq Range(releases)
      BY <2>2, <2>3, <3>1, Collected, NothingLost
    <3>3. ASSUME NEW r \in Range(releases), Usable(t, published[r]) PROVE r \in R
      BY <2>2, <2>3, <3>3, UsableIs, Collected, Numbers DEF Newest, Existing
    <3> QED BY <3>2, <3>3
  <2>5. \A r \in R : Usable(t, published[r])
    BY <2>2, UsableIs, Collected, Numbers DEF Existing
  <2>6. /\ R # {} /\ d.source = "release" /\ Earliest(R, published, d.marker) /\ d.at = published[d.marker]
           => TruthOf(p, d)
        /\ R = {} /\ T # {} /\ d.source = "tag" /\ Earliest(T, created, d.marker) /\ d.at = created[d.marker]
           => TruthOf(p, d)
        /\ R = {} /\ T = {} /\ d.source = "fallback_merge_time" /\ d.at = t => TruthOf(p, d)
    <3> HIDE DEF d
    <3>1. ASSUME R # {}, d.source = "release", Earliest(R, published, d.marker), d.at = published[d.marker]
          PROVE  TruthOf(p, d)
      BY <3>1, Zenon DEF TruthOf
    <3>2. ASSUME R = {}, T # {}, d.source = "tag", Earliest(T, created, d.marker), d.at = created[d.marker]
          PROVE  TruthOf(p, d)
      BY <3>2, Zenon DEF TruthOf
    <3>3. ASSUME R = {}, T = {}, d.source = "fallback_merge_time", d.at = t
          PROVE  TruthOf(p, d)
      BY <3>3, Zenon DEF TruthOf
    <3> HIDE DEF R, T, t
    <3> QED BY <3>1, <3>2, <3>3
  <2>7. ASSUME d.source = "release" PROVE TruthOf(p, d)
    <3>1. d.marker # None /\ Picked(d.marker, Range(releases), published, t) /\ d.at = published[d.marker]
      BY <2>1, <2>7 DEF Placed
    <3>2. Earliest(R, published, d.marker)
      BY <2>4, <2>5, <3>1 DEF Picked, Earliest
    <3>3. R # {}
      BY <3>2 DEF Earliest
    <3> HIDE DEF R, T, d, t
    <3> QED BY <2>6, <2>7, <3>1, <3>2, <3>3
  <2>8. ASSUME d.source # "release" PROVE TruthOf(p, d)
    <3>1. R = {}
      BY <2>1, <2>4, <2>5, <2>8 DEF Placed, Picked
    <3>2. path = "query" /\ Whole(tags, created, t) /\ \A v \in Tags : CreatedAt(v) = created[v] /\ TagTimes[v] = created[v]
      BY <2>8 DEF CreatedAt, TagTimes
    <3>3. T \subseteq VersionsOf(Range(tags))
      <4>1. \A v \in T : created[v] >= t
        BY <2>2, Collected, Numbers DEF Existing
      <4>2. T \subseteq Range(tags)
        BY <2>2, <2>3, <3>2, <4>1, Collected, NothingLost
      <4> QED BY <4>2 DEF VersionsOf
    <3>4. VersionsOf(Range(tags)) \subseteq Tags
      BY Collected, RangeIs DEF VersionsOf
    <3>5. ASSUME NEW v \in VersionsOf(Range(tags)), Usable(t, TagTimes[v]) PROVE v \in T
      <4>1. v \in Range(tags) /\ IsVersionTag(v) /\ v \in Tags /\ TagTimes[v] = created[v]
        BY <3>2, <3>4 DEF VersionsOf
      <4> QED BY <2>2, <2>3, <3>5, <4>1, UsableIs, Collected, Numbers DEF Newest, Existing
    <3>6. \A v \in T : Usable(t, TagTimes[v]) /\ v \in Tags /\ TagTimes[v] = created[v]
      BY <2>2, <3>2, UsableIs, Collected, Numbers DEF Existing
    <3>7. CASE d.source = "tag"
      <4>1. /\ d.marker # None /\ Picked(d.marker, VersionsOf(Range(tags)), TagTimes, t)
            /\ d.at = CreatedAt(d.marker)
        BY <2>1, <3>7 DEF Placed
      <4>2. d.marker \in VersionsOf(Range(tags)) /\ Usable(t, TagTimes[d.marker])
            /\ \A v \in VersionsOf(Range(tags)) : Usable(t, TagTimes[v]) => TagTimes[d.marker] <= TagTimes[v]
        BY <4>1 DEF Picked
      <4>3. d.marker \in T /\ d.at = created[d.marker] /\ TagTimes[d.marker] = created[d.marker]
        BY <3>2, <3>4, <3>5, <4>1, <4>2
      <4>4. Earliest(T, created, d.marker)
        BY <3>3, <3>6, <4>2, <4>3 DEF Earliest
      <4> HIDE DEF R, T, d, t
      <4> QED BY <2>6, <3>1, <3>7, <4>3, <4>4
    <3>8. CASE d.source = "fallback_merge_time"
      <4>1. Picked(None, VersionsOf(Range(tags)), TagTimes, t) /\ d.at = t
        BY <2>1, <3>8 DEF Placed
      <4>2. T = {}
        BY <3>3, <3>6, <4>1 DEF Picked
      <4> HIDE DEF R, T, d, t
      <4> QED BY <2>6, <3>1, <3>8, <4>1, <4>2
    <3> QED BY <2>1, <2>8, <3>7, <3>8 DEF Sources
  <2> QED BY <2>7, <2>8
<1> QED BY <1>1, DataInvariant, PTL

(* The deployment inferred for an ambiguous pull request is a release, and  *)
(* one of the options it is said to be ambiguous between.                   *)
THEOREM AmbiguousCorrect == Spec => []AmbiguousAmongOptions
<1>1. DataInv => AmbiguousAmongOptions
  BY DEF DataInv
<1> QED BY <1>1, DataInvariant, PTL

(* The pull requests found ambiguous are those that two releases, with no   *)
(* gap between them longer than the window, have among them besides another.*)
THEOREM ClustersCorrect == Spec => []AmbiguityIsInClusters
<1>1. DataInv => AmbiguityIsInClusters
  BY DEF DataInv
<1> QED BY <1>1, DataInvariant, PTL

(* Every pull request with a name counts in a group, and in several only by *)
(* its labels and branch.                                                   *)
THEOREM GroupsCorrect == Spec => []GroupsCountPRs
<1>1. DataInv => GroupsCountPRs
  BY DEF DataInv
<1> QED BY <1>1, DataInvariant, PTL
=============================================================================
