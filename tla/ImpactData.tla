------------------------------ MODULE ImpactData ------------------------------
(* The data of git-impact before any agent sees it: what CollectHandler     *)
(* (phase_collect.go) takes over from the repository's GitHub data, and     *)
(* what LinkHandler (phase_link.go) infers from it: a deployment for every  *)
(* pull request, the deployments that are ambiguous, and feature groups.    *)
(* The loops over what was collected are steps.                             *)
EXTENDS Integers, Sequences, FiniteSets, SequencesExt

CONSTANTS
    PRs, Releases, Tags,  \* of the repository: numbers, and names
    Markers, Marker(_),   \* releaseMarker of a release
    IsVersionTag(_),
    MaxTime,              \* bound: times are 1..MaxTime
    Since,                \* of the analysis; 0 if it has none
    LinkInferenceWindow, AmbiguousWindow,
    PRLimit, TagLimit,    \* of the SQL
    ReleaseLimits,        \* of the SQL: a number, several for one that cuts or does not
    PageLimit,            \* per_page of the API, of which one page is read
    Features,             \* keys normalizeFeatureGroupName may yield
    NumberName(_),        \* pr_%d of a pull request
    Namings               \* bound: labels, branches and names of the pull requests

None == "none"

\* Of a pull request: the keys of its feature/ labels, that of its branch if
\* it is a feature/ branch, and what branchFeatureCandidate,
\* titleFeatureCandidate and fileFeatureCandidate (of the first file that has
\* one) make of it. A candidate is None if there is none, and its key is "" if
\* normalizeFeatureGroupName finds no letter or digit in it.
Candidates == Features \cup {None, ""}

Names == [labels : SUBSET Features, feature : Features \cup {None},
          branch : Candidates, title : Candidates, file : Candidates]

ASSUME DataAssumption ==
    /\ {MaxTime, Since, LinkInferenceWindow, AmbiguousWindow} \subseteq Nat
    /\ {PRLimit, TagLimit, PageLimit} \cup ReleaseLimits \subseteq Nat
    /\ AmbiguousWindow <= LinkInferenceWindow
    /\ IsFiniteSet(PRs) /\ IsFiniteSet(Releases) /\ IsFiniteSet(Tags)
    /\ \A r \in Releases : Marker(r) \in Markers
    /\ None \notin Releases \cup Tags \cup Features /\ "" \notin Features
    /\ \A p \in PRs : NumberName(p) \in Features
    /\ Namings \subseteq [PRs -> Names]

VARIABLES
    pc,
    path,      \* "query", or "api" once the source turned out not queryable
    merged, published, created,  \* of the repository; 0: no such item
    prs, releases, tags,         \* as collected, in the order of the answers
    i, j, chosen,                \* the loops of inferDeployment
    deployments,
    sorted, start, end,          \* the loops of detectAmbiguousDeployments
    ambiguousByPR,
    names, groups                \* proposeFeatureGroups: what it reads, and makes

repository == <<merged, published, created>>
collected == <<path, prs, releases, tags>>
inference == <<i, j, chosen, deployments>>
detection == <<sorted, start, end, ambiguousByPR>>
grouping == <<names, groups>>
vars == <<pc, repository, collected, inference, detection, grouping>>

Times == 0..MaxTime

Init ==
    /\ pc = "prs" /\ path = "query"
    /\ merged = [p \in PRs |-> 0]
    /\ published = [r \in Releases |-> 0]
    /\ created = [t \in Tags |-> 0]
    /\ prs = <<>> /\ releases = <<>> /\ tags = <<>>
    /\ i = 1 /\ j = 1 /\ chosen = None
    /\ deployments = <<>>
    /\ sorted = <<>> /\ start = 1 /\ end = 1
    /\ ambiguousByPR = <<>>
    /\ names = <<>> /\ groups = <<>>

-----------------------------------------------------------------------------
(* Collection: one call of OneQuery after the other. What a call tells of   *)
(* the repository is chosen when it is made.                                *)

Existing(at) == {x \in DOMAIN at : at[x] # 0}

\* n of S, or all of them if there are no more, in any order
UpTo(S, n) ==
    {s \in SetToAllKPermutations(S) :
       Len(s) = IF Cardinality(S) < n THEN Cardinality(S) ELSE n}

\* ORDER BY ... DESC LIMIT n
NewestFirst(at, S, n) ==
    {s \in UpTo(S, n) :
       /\ \A a, b \in DOMAIN s : a < b => at[s[a]] >= at[s[b]]
       /\ \A x \in S \ Range(s), a \in DOMAIN s : at[x] <= at[s[a]]}

\* The API answers a page, the newest by other times than those the linker
\* reads, or by name: which items it holds, and in what order, is GitHub's.
Answer(at, limit) ==
    IF path = "query" THEN NewestFirst(at, Existing(at), limit) ELSE UpTo(Existing(at), PageLimit)

CallFails ==
    /\ pc \in {"prs", "api_prs", "api_files", "tags", "releases"}
    /\ pc' = "failed"
    /\ UNCHANGED <<repository, collected, inference, detection, grouping>>

\* One row that does not parse is enough: a release that is still a draft,
\* and so has no time, fails the collection.
AnswerInvalid ==
    /\ pc \in {"prs", "api_prs", "api_files", "tags", "releases"}
    /\ pc' = "failed"
    /\ UNCHANGED <<repository, collected, inference, detection, grouping>>

QueryPRs ==
    /\ pc = "prs"
    /\ merged' \in [PRs -> Times]
    /\ prs' \in NewestFirst(merged', {p \in PRs : merged'[p] > Since}, PRLimit)
    /\ pc' = "tags"
    /\ UNCHANGED <<published, created, path, tags, releases, inference, detection, grouping>>

NotQueryable ==
    /\ pc = "prs"
    /\ path' = "api" /\ pc' = "api_prs"
    /\ UNCHANGED <<repository, prs, tags, releases, inference, detection, grouping>>

\* The page is one of closed pull requests, those that were updated last; the
\* ones that were merged in time are picked from it.
ApiPRs ==
    /\ pc = "api_prs"
    /\ merged' \in [PRs -> Times]
    /\ prs' \in {s \in SetToAllKPermutations({p \in Existing(merged') : merged'[p] >= Since}) :
                  Len(s) <= PageLimit}
    /\ pc' = "api_files"
    /\ UNCHANGED <<published, created, path, tags, releases, inference, detection, grouping>>

\* One call for each pull request.
ApiFiles ==
    /\ pc = "api_files"
    /\ IF i <= Len(prs) THEN i' = i + 1 /\ UNCHANGED pc ELSE i' = 1 /\ pc' = "tags"
    /\ UNCHANGED <<repository, collected, j, chosen, deployments, detection, grouping>>

CollectTags ==
    /\ pc = "tags"
    /\ created' \in [Tags -> Times]
    /\ tags' \in Answer(created', TagLimit)
    /\ pc' = "releases"
    /\ UNCHANGED <<merged, published, path, prs, releases, inference, detection, grouping>>

CollectReleases ==
    /\ pc = "releases"
    /\ published' \in [Releases -> Times]
    /\ \E limit \in ReleaseLimits : releases' \in Answer(published', limit)
    /\ pc' = "release"
    /\ UNCHANGED <<merged, created, path, prs, tags, inference, detection, grouping>>

\* The answer of the API has no time for a tag.
CreatedAt(t) == IF path = "query" THEN created[t] ELSE 0

-----------------------------------------------------------------------------
(* inferDeployment, for one pull request after the other.                   *)

(* Mutant: a release at the very time of the merge does not count. *)
NearAfter(t, at) == t < at /\ at - t <= LinkInferenceWindow

Near(t, at) == t <= at /\ at - t <= LinkInferenceWindow

Usable(t, at) == at # 0 /\ Near(t, at)

(* Mutant: what was chosen for one pull request stays chosen for the next.  *)
DeployedKeepingChosen(source, at) ==
    /\ deployments' = [p \in DOMAIN deployments \cup {prs[i]} |->
                         IF p = prs[i] THEN [source |-> source, marker |-> chosen, at |-> at]
                         ELSE deployments[p]]
    /\ i' = i + 1 /\ j' = 1
    /\ pc' = "release"
    /\ UNCHANGED chosen

\* Of pull request prs[i]; the marker of a merge is made up from its number.
Deployed(source, at) ==
    /\ deployments' = [p \in DOMAIN deployments \cup {prs[i]} |->
                         IF p = prs[i] THEN [source |-> source, marker |-> chosen, at |-> at]
                         ELSE deployments[p]]
    /\ i' = i + 1 /\ j' = 1 /\ chosen' = None
    /\ pc' = "release"

(* Mutant: the last release of the list wins, not the earliest. *)
BetterLast(new, old) == TRUE

Better(new, old) == new < old

ConsiderRelease ==
    /\ pc = "release" /\ i <= Len(prs) /\ j <= Len(releases)
    /\ LET r == releases[j] IN
       chosen' = IF /\ Usable(merged[prs[i]], published[r])
                    /\ chosen = None \/ Better(published[r], published[chosen])
                 THEN r ELSE chosen
    /\ j' = j + 1
    /\ UNCHANGED <<pc, repository, collected, i, deployments, detection, grouping>>

ReleaseChosen ==
    /\ pc = "release" /\ i <= Len(prs) /\ j > Len(releases)
    /\ IF chosen # None THEN Deployed("release", published[chosen])
       ELSE pc' = "tag" /\ j' = 1 /\ UNCHANGED <<i, chosen, deployments>>
    /\ UNCHANGED <<repository, collected, detection, grouping>>

ConsiderTag ==
    /\ pc = "tag" /\ j <= Len(tags)
    /\ LET t == tags[j] IN
       chosen' = IF /\ IsVersionTag(t)
                    /\ Usable(merged[prs[i]], CreatedAt(t))
                    /\ chosen = None \/ Better(CreatedAt(t), CreatedAt(chosen))
                 THEN t ELSE chosen
    /\ j' = j + 1
    /\ UNCHANGED <<pc, repository, collected, i, deployments, detection, grouping>>

TagChosen ==
    /\ pc = "tag" /\ j > Len(tags)
    /\ IF chosen # None THEN Deployed("tag", CreatedAt(chosen))
       ELSE Deployed("fallback_merge_time", merged[prs[i]])
    /\ UNCHANGED <<repository, collected, detection, grouping>>

-----------------------------------------------------------------------------
(* detectAmbiguousDeployments: releases sorted by time fall into clusters.  *)

SortReleases ==
    /\ pc = "release" /\ i > Len(prs)
    /\ sorted' \in {s \in SetToSeqs(Range(releases)) :
                      \A a, b \in DOMAIN s : a < b => published[s[a]] <= published[s[b]]}
    /\ start' = 1 /\ end' = 2
    /\ pc' = IF Len(prs) < 2 \/ Len(releases) < 2 THEN "groups" ELSE "scan"
    /\ UNCHANGED <<repository, collected, inference, ambiguousByPR, grouping>>

(* Mutant: the cluster is what lies within the window of its first release. *)
InClusterOfFirst == published[sorted[end]] - published[sorted[start]] <= AmbiguousWindow

InCluster == published[sorted[end]] - published[sorted[end - 1]] <= AmbiguousWindow

ClusterGrows == IF end <= Len(sorted) THEN InCluster ELSE FALSE

ExtendCluster ==
    /\ pc = "scan" /\ start <= Len(sorted) /\ ClusterGrows
    /\ end' = end + 1
    /\ UNCHANGED <<pc, repository, collected, inference, sorted, start, ambiguousByPR, grouping>>

(* Mutant: the last release of the cluster does not count. *)
PRsMergedBeforeLast ==
    {p \in Range(prs) : /\ published[sorted[start]] <= merged[p]
                        /\ merged[p] < published[sorted[end - 1]]}

PRsMergedWithinWindow ==
    {p \in Range(prs) : /\ published[sorted[start]] <= merged[p]
                        /\ merged[p] <= published[sorted[end - 1]]}

ClusterReleaseOptions == {Marker(sorted[k]) : k \in start..(end - 1)}

MergeDistinctOptions(current, additions) == current \cup additions

CloseCluster ==
    /\ pc = "scan" /\ start <= Len(sorted) /\ ~ClusterGrows
    /\ ambiguousByPR' =
         IF end - start > 1 /\ Cardinality(PRsMergedWithinWindow) > 1
         THEN [p \in DOMAIN ambiguousByPR \cup PRsMergedWithinWindow |->
                 MergeDistinctOptions(
                   IF p \in DOMAIN ambiguousByPR THEN ambiguousByPR[p] ELSE {},
                   IF p \in PRsMergedWithinWindow THEN ClusterReleaseOptions ELSE {})]
         ELSE ambiguousByPR
    /\ start' = end /\ end' = end + 1
    /\ UNCHANGED <<pc, repository, collected, inference, sorted, grouping>>

Scanned ==
    /\ pc = "scan" /\ start > Len(sorted)
    /\ pc' = "groups"
    /\ UNCHANGED <<repository, collected, inference, detection, grouping>>

-----------------------------------------------------------------------------
(* proposeFeatureGroups. The code makes the groups before it looks for      *)
(* ambiguous deployments; neither reads what the other makes.               *)
Explicit(n) == n.labels \cup ({n.feature} \ {None})

\* A candidate is taken for its text, whatever the normalisation leaves of it.
FeatureNameFromPR(p, n) ==
    IF n.branch # None THEN n.branch
    ELSE IF n.title # None THEN n.title
    ELSE IF n.file # None THEN n.file
    ELSE NumberName(p)

(* Mutant: the made-up name counts besides the explicit ones. *)
KeysWithOther(p, n) == Explicit(n) \cup ({FeatureNameFromPR(p, n)} \ {""})

KeysOf(p, n) == IF Explicit(n) # {} THEN Explicit(n) ELSE {FeatureNameFromPR(p, n)} \ {""}

ProposeFeatureGroups ==
    /\ pc = "groups"
    /\ names' \in Namings
    /\ groups' = [f \in UNION {KeysOf(p, names'[p]) : p \in Range(prs)} |->
                    {p \in Range(prs) : f \in KeysOf(p, names'[p])}]
    /\ pc' = "done"
    /\ UNCHANGED <<repository, collected, inference, detection>>

Collect == CallFails \/ AnswerInvalid \/ QueryPRs \/ NotQueryable \/ ApiPRs \/ ApiFiles
           \/ CollectTags \/ CollectReleases

Link == ConsiderRelease \/ ReleaseChosen \/ ConsiderTag \/ TagChosen \/ SortReleases
        \/ ExtendCluster \/ CloseCluster \/ Scanned \/ ProposeFeatureGroups

Next == Collect \/ Link

Spec == Init /\ [][Next]_vars

-----------------------------------------------------------------------------
Sources == {"release", "tag", "fallback_merge_time"}

TypeOK ==
    /\ pc \in {"prs", "api_prs", "api_files", "tags", "releases", "release", "tag",
               "scan", "groups", "done", "failed"}
    /\ path \in {"query", "api"}
    /\ merged \in [PRs -> Times] /\ published \in [Releases -> Times] /\ created \in [Tags -> Times]
    /\ prs \in Seq(PRs) /\ releases \in Seq(Releases) /\ tags \in Seq(Tags)
    /\ i \in 1..(Len(prs) + 1)
    /\ j \in 1..((IF pc = "tag" THEN Len(tags) ELSE Len(releases)) + 1)
    /\ chosen \in (IF pc = "tag" THEN Range(tags) ELSE Range(releases)) \cup {None}
    /\ DOMAIN deployments \subseteq Range(prs)
    /\ \A p \in DOMAIN deployments :
         deployments[p] \in [source : Sources, marker : Releases \cup Tags \cup {None}, at : Times]
    /\ sorted \in Seq(Releases)
    /\ start \in 1..(Len(sorted) + 1) /\ end \in 1..(Len(sorted) + 2)
    /\ DOMAIN ambiguousByPR \subseteq Range(prs)
    /\ \A p \in DOMAIN ambiguousByPR : ambiguousByPR[p] \subseteq Markers
    /\ names \in Namings \cup {<<>>}
    /\ DOMAIN groups \subseteq Features /\ \A f \in DOMAIN groups : groups[f] \subseteq Range(prs)

(* SPEC.md 3.2, of the repository itself: the release, then the version     *)
(* tag, that comes first after the merge and not too late, then the merge.  *)
Earliest(S, at, x) == x \in S /\ \A y \in S : at[x] <= at[y]

TruthOf(p, d) ==
    LET due == merged[p]..(merged[p] + LinkInferenceWindow)
        R == {r \in Existing(published) : published[r] \in due}
        T == {t \in Existing(created) : IsVersionTag(t) /\ created[t] \in due}
    IN CASE R # {} -> d.source = "release" /\ Earliest(R, published, d.marker)
                      /\ d.at = published[d.marker]
         [] R = {} /\ T # {} -> d.source = "tag" /\ Earliest(T, created, d.marker)
                                /\ d.at = created[d.marker]
         [] OTHER -> d.source = "fallback_merge_time" /\ d.at = merged[p]

\* Nothing that could matter to a pull request merged at t was left out.
Whole(s, at, t) == \/ Range(s) = Existing(at)
                   \/ path = "query" /\ \E a \in DOMAIN s : at[s[a]] < t

(* The limits of the queries lose nothing for the pull requests that are    *)
(* younger than the oldest item they returned: these are deployed by what   *)
(* the repository, not just the answer, holds. A page of the API is in an   *)
(* order of its own: with it that holds only if the page has every release. *)
(* (The API gives tags no time, so there it is about releases only.) A pull *)
(* request for which a release was left out may be deployed by a later one, *)
(* but even then by one of the repository, and within the window.           *)
DeploymentsMatchRepository ==
    \A p \in DOMAIN deployments :
      LET d == deployments[p] IN
      /\ /\ Whole(releases, published, merged[p])
         /\ d.source = "release" \/ (path = "query" /\ Whole(tags, created, merged[p]))
         => TruthOf(p, d)
      /\ d.source = "release" =>
           /\ d.marker \in Existing(published) /\ d.at = published[d.marker]
           /\ d.at \in merged[p]..(merged[p] + LinkInferenceWindow)

(* Two computations over two windows that know nothing of each other: the   *)
(* deployment inferred for an ambiguous pull request is a release, and one  *)
(* of the options it is said to be ambiguous between.                       *)
AmbiguousAmongOptions ==
    \A p \in DOMAIN ambiguousByPR :
      /\ deployments[p].source = "release"
      /\ Marker(deployments[p].marker) \in ambiguousByPR[p]

(* The loop over the sorted releases finds the clusters: the pull requests  *)
(* for which another was merged, and two releases published, with no gap in *)
(* the releases between them longer than the window.                        *)
Bridged(lo, hi) ==
    \A t \in lo..(hi - 1) :
      \E r \in Range(releases) : published[r] \in (t + 1)..(t + AmbiguousWindow) /\ published[r] <= hi

Between(t, q, r) == published[q] <= t /\ t <= published[r]

AmbiguityIsInClusters ==
    pc \in {"groups", "done"} =>
      DOMAIN ambiguousByPR =
        {p \in Range(prs) :
           \E q, r \in Range(releases), o \in Range(prs) \ {p} :
             /\ q # r /\ Between(merged[p], q, r) /\ Between(merged[o], q, r)
             /\ Bridged(published[q], published[r])}

(* Every pull request counts in a group, unless what is found first of its  *)
(* branch, title and files has no letter and no digit, whatever the others  *)
(* would give; and in more than one only if its labels or branch say so.    *)
GroupsCountPRs ==
    pc = "done" =>
      \A p \in Range(prs) :
        LET in == {f \in DOMAIN groups : p \in groups[f]} IN
        /\ in = {} => /\ names[p].feature = None
                      /\ "" \in {names[p].branch, names[p].title, names[p].file}
        /\ Cardinality(in) > 1 => in \subseteq names[p].labels \cup {names[p].feature}
=============================================================================
