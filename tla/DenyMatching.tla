---------------------------- MODULE DenyMatching ----------------------------
(***************************************************************************)
(* What a row of the denylist denies: to ingestion, which answers          *)
(* /v1/rules/check for squid's external-acl helper, and to squid, which    *)
(* reads the file that sync-denylist.sh makes of /v1/rules.txt.            *)
(*                                                                         *)
(* A host name is the sequence of its labels in lower case.  A rule is the *)
(* target of an approved recommendation as it was posted: a host name, one *)
(* with capitals, or one with a port as squid logs a CONNECT.              *)
(***************************************************************************)
EXTENDS Naturals, Sequences

CONSTANTS
    Rules,   \* what a recommendation can target: [labels |-> .., form |-> ..]
    Hosts    \* the hosts clients ask squid for

HostNames == Seq(STRING) \ {<<>>}

ASSUME RulesAssumption ==
    /\ \A r \in Rules :
        r.labels \in HostNames /\ r.form \in {"lower", "capitals", "port"}
    /\ Hosts \subseteq HostNames

Suffixes(host) == {SubSeq(host, i, Len(host)) : i \in 1..Len(host)}

\* Mutant: a rule on a domain does not cover its subdomains.
IsDenied_ExactHost(rules, host) ==
    \E r \in rules : r.form = "lower" /\ r.labels = host

\* store.is_denied: the host itself, then its parents down to two labels,
\* compared with the rule as it was posted.
IsDenied(rules, host) ==
    \E r \in rules :
        /\ r.form = "lower"
        /\ r.labels = host
           \/ \E i \in 2..(Len(host) - 1) : r.labels = SubSeq(host, i, Len(host))

\* The lines of rules.txt that pass VALID, which has no colon in it; each is
\* written with a leading dot.
Entries(rules) == {r \in rules : r.form # "port"}

\* A dotted dstdomain entry matches the domain and every subdomain, in either
\* case.
SquidDenies(entries, host) == \E r \in entries : r.labels \in Suffixes(host)

\* No entry lies under another: sync-denylist.sh says of such a list that squid
\* rejects the subdomain and aborts the reconfigure.
Loadable(entries) ==
    \A a, b \in entries : a # b => a.labels \notin Suffixes(b.labels)

\* A rule both sides understand.
Proper(r) == r.form = "lower" /\ Len(r.labels) >= 2

=============================================================================
