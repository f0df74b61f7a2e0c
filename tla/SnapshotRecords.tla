--------------------------- MODULE SnapshotRecords ---------------------------
(***************************************************************************)
(* The records of the vulnerability snapshot: how one source's entry for a *)
(* CVE becomes a record, how the records of several sources are merged,    *)
(* and which of them are kept (vulnerability_collector.py).                *)
(*                                                                         *)
(* A text is represented by the source it comes from, a time by a number.  *)
(* References, CWE ids and affected products follow the same rules as the  *)
(* fields below and are left out.                                          *)
(***************************************************************************)
EXTENDS Integers, FiniteSets

CONSTANTS
    Ids,       \* CVE ids, numbers in their order
    Stamp,     \* Stamp[s][i]: when source s last changed its entry for i
    Titled,    \* Titled[s]: the ids to which source s gives a title; NVD gives none
    Described, \* Described[s]: those it describes, in whatever language
    Score      \* Score[i]: the base score NVD gives, 0 when there is none

Sources == {"cveproject", "nvd", "cisa_kev"}

Severities == {"unknown", "low", "medium", "high", "critical"}

ASSUME RecordsAssumption ==
    /\ Ids \subseteq Nat
    /\ Stamp \in [Sources -> [Ids -> Nat \ {0}]]
    /\ Titled \in [Sources -> SUBSET Ids]
    /\ Described \in [Sources -> SUBSET Ids]
    /\ Score \in [Ids -> 0..10]

\* Mutant: a score of zero has a name of its own, as in CVSS.
Severity_None(score) ==
    CASE score <= 0 -> "none"
      [] score >= 9 -> "critical"
      [] score >= 7 /\ score < 9 -> "high"
      [] score >= 4 /\ score < 7 -> "medium"
      [] score > 0 /\ score < 4 -> "low"

Severity(score) ==
    CASE score <= 0 -> "unknown"
      [] score >= 9 -> "critical"
      [] score >= 7 /\ score < 9 -> "high"
      [] score >= 4 /\ score < 7 -> "medium"
      [] score > 0 /\ score < 4 -> "low"

Records ==
    [id : Ids, title : {""} \cup Sources, description : {""} \cup Sources,
     modified : Nat, severity : Severities, listed : BOOLEAN, added : Nat,
     sources : SUBSET Sources]

EmptyRecord(i) ==
    [id |-> i, title |-> "", description |-> "", modified |-> 0,
     severity |-> "unknown", listed |-> FALSE, added |-> 0, sources |-> {}]

\* A text that a source may lack: a rejected CVE has no description, an entry
\* of KEV may come without one.
Text(s, i, given) == IF i \in given[s] THEN s ELSE ""

ParseCveproject(i) ==
    [EmptyRecord(i) EXCEPT
        !.title = Text("cveproject", i, Titled),
        !.description = Text("cveproject", i, Described),
        !.modified = Stamp["cveproject"][i],
        !.sources = {"cveproject"}]

ParseNvd(i) ==
    [EmptyRecord(i) EXCEPT
        !.description = Text("nvd", i, Described),
        !.modified = Stamp["nvd"][i],
        !.severity = Severity(Score[i]),
        !.sources = {"nvd"}]

ParseKev(i) ==
    [EmptyRecord(i) EXCEPT
        !.title = Text("cisa_kev", i, Titled),
        !.description = Text("cisa_kev", i, Described),
        !.listed = TRUE,
        !.added = Stamp["cisa_kev"][i],
        !.sources = {"cisa_kev"}]

Parse(s, i) ==
    CASE s = "cveproject" -> ParseCveproject(i)
      [] s = "nvd" -> ParseNvd(i)
      [] s = "cisa_kev" -> ParseKev(i)

-----------------------------------------------------------------------------
\* A field of the incoming record, unless it says nothing.
Field(old, new) == IF new \in {"", "unknown"} THEN old ELSE new

\* Mutant: a source overwrites what is known with what it lacks.
Merge_Overwrites(old, new) ==
    [new EXCEPT !.sources = old.sources \cup new.sources]

\* A record of the CVE list or NVD fills in the fields it is trusted for, one
\* of KEV the listing, and the texts that are still missing.
Merge(old, new) ==
    LET kev == "cisa_kev" \in new.sources
        nvd == "nvd" \in new.sources IN
    [old EXCEPT
        !.title = IF kev THEN Field(new.title, @) ELSE Field(@, new.title),
        !.description = IF kev THEN Field(new.description, @)
                        ELSE Field(@, new.description),
        !.modified = IF kev THEN @ ELSE new.modified,
        !.severity = IF nvd THEN Field(@, new.severity) ELSE @,
        !.listed = @ \/ new.listed,
        !.added = IF kev THEN new.added ELSE @,
        !.sources = @ \cup new.sources]

\* The time a record is ordered by.
RecordTime(r) == IF r.modified > 0 THEN r.modified ELSE r.added

Newer(q, r) ==
    \/ RecordTime(q) > RecordTime(r)
    \/ RecordTime(q) = RecordTime(r) /\ q.id > r.id

Latest(R, limit) == {r \in R : Cardinality({q \in R : Newer(q, r)}) < limit}

\* What one answer adds to the records collected so far.
MergeAll(records, s, ids, limit) ==
    LET parsed == Latest({Parse(s, i) : i \in ids}, limit)
        old(i) == {r \in records : r.id = i} IN
    {r \in records : \A new \in parsed : new.id # r.id}
    \cup {Merge(IF old(new.id) = {} THEN EmptyRecord(new.id)
                ELSE CHOOSE r \in old(new.id) : TRUE, new) : new \in parsed}

\* validate: no id occurs twice.
Valid(snapshot) == \A q, r \in snapshot : q.id = r.id => q = r

=============================================================================
