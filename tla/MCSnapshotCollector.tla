------------------------- MODULE MCSnapshotCollector -------------------------
(***************************************************************************)
(* Three CVEs, of which each source lists two, and places for two: the     *)
(* newest is known to the CVE list and to KEV, the oldest to NVD and KEV.  *)
(***************************************************************************)
EXTENDS SnapshotCollector

Stamps == [s \in Sources |-> [i \in Ids |-> IF s = "cisa_kev" THEN 2 ELSE i]]

Scores == [i \in Ids |-> IF i = 1 THEN 9 ELSE 0]

\* The newest is described by KEV alone, as when the CVE list has rejected it,
\* the other by the CVE list alone; KEV and NVD both describe the oldest.
Titles == [cveproject |-> {3}, nvd |-> {}, cisa_kev |-> {1, 3}]

Descriptions == [cveproject |-> {2}, nvd |-> {1}, cisa_kev |-> {1, 3}]

Lists == [cveproject |-> {2, 3}, nvd |-> {1, 2}, cisa_kev |-> {1, 3}]

\* KEV before and after another source.
Pairs == {<<"cisa_kev", "cveproject">>, <<"nvd", "cisa_kev">>}

AsDelivered == {<<"cveproject", "nvd", "cisa_kev">>}

=============================================================================
