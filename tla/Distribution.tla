---------------------------- MODULE Distribution ----------------------------
(***************************************************************************)
(* GetDistribution of pkg/report/distribution.go: which Kubernetes         *)
(* distribution a cluster is, from four calls whose errors are ignored.    *)
(* Node labels come in the random order of a Go map, so that the answer is *)
(* a set: the distributions it may be told.                                *)
(*                                                                         *)
(* A cluster is [groups, nodes, version]: the distributions that its API   *)
(* groups name, in order; its nodes [provider, labels]; its version.       *)
(* Prefixes and label keys stand here as the distribution they name.       *)
(***************************************************************************)
EXTENDS Integers, Sequences

Unknown == "unknown"

\* The calls GetDistribution makes.
DistributionCalls == {"groups", "provider", "labels", "version"}

\* Of the places in a list, the one a loop comes to first.
Foremost(places) == CHOOSE i \in places : \A j \in places : i <= j

FirstOf(s) == IF s = <<>> THEN Unknown ELSE Head(s)

distributionFromServerGroupAndResources(cluster) == {FirstOf(cluster.groups)}

\* The provider of the first node.
distributionFromProviderId(cluster) ==
    {IF cluster.nodes = <<>> THEN Unknown ELSE Head(cluster.nodes).provider}

\* Any label of the first node that has one.
distributionFromLabels(cluster) ==
    LET labelled == {i \in DOMAIN cluster.nodes : cluster.nodes[i].labels # {}}
    IN  IF labelled = {} THEN {Unknown} ELSE cluster.nodes[Foremost(labelled)].labels

distributionFromVersion(cluster) == {cluster.version}

Asked(call, cluster) ==
    CASE call = "groups" -> distributionFromServerGroupAndResources(cluster)
      [] call = "provider" -> distributionFromProviderId(cluster)
      [] call = "labels" -> distributionFromLabels(cluster)
      [] call = "version" -> distributionFromVersion(cluster)

\* The first known answer, of the calls that do not fail.
FirstKnown(calls, cluster, failing) ==
    LET known == {i \in DOMAIN calls :
                    calls[i] \notin failing /\ Asked(calls[i], cluster) # {Unknown}}
    IN  IF known = {} THEN {Unknown} ELSE Asked(calls[Foremost(known)], cluster)

\* Faulty variant of GetDistribution: the version, which is the cheapest call,
\* is asked first.
GetDistributionByVersion(cluster, failing) ==
    FirstKnown(<<"version", "groups", "provider", "labels">>, cluster, failing)

\* "First try get the special ones": the version names what they run on.
GetDistribution(cluster, failing) ==
    FirstKnown(<<"groups", "provider", "labels", "version">>, cluster, failing)

=============================================================================
