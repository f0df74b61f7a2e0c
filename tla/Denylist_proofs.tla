--------------------------- MODULE Denylist_proofs ---------------------------
(***************************************************************************)
(* What holds of the denylist for every set of rules and workers, and what *)
(* holds when a single worker runs the script.                             *)
(***************************************************************************)
EXTENDS Denylist, SequenceTheorems, TLAPS

-----------------------------------------------------------------------------
(* What a rule denies.                                                     *)

\* A name of two labels or more is a parent of a host or the host itself,
\* exactly when it is one of the suffixes is_denied looks at.
LEMMA SuffixOfTwoLabels ==
    ASSUME NEW host \in HostNames, NEW labels \in HostNames, Len(labels) >= 2
    PROVE  labels \in Suffixes(host) <=>
             \/ labels = host
             \/ \E i \in 2..(Len(host) - 1) : labels = SubSeq(host, i, Len(host))
<1>1. host \in Seq(STRING) /\ Len(host) \in Nat \ {0}
  BY EmptySeq, LenProperties DEF HostNames
<1>2. SubSeq(host, 1, Len(host)) = host
  BY <1>1, SubSeqFull
<1>3. ASSUME labels \in Suffixes(host)
      PROVE  \/ labels = host
             \/ \E i \in 2..(Len(host) - 1) : labels = SubSeq(host, i, Len(host))
  <2>1. PICK i \in 1..Len(host) : labels = SubSeq(host, i, Len(host))
    BY <1>3 DEF Suffixes
  <2>2. Len(labels) = Len(host) - i + 1
    BY <1>1, <2>1, SubSeqProperties
  <2>3. i <= Len(host) - 1
    BY <1>1, <2>2
  <2>4. CASE i = 1
    BY <1>2, <2>1, <2>4
  <2>5. CASE i # 1
    BY <1>1, <2>1, <2>3, <2>5
  <2>6. QED
    BY <2>4, <2>5
<1>4. ASSUME labels = host
      PROVE  labels \in Suffixes(host)
  BY <1>1, <1>2, <1>4 DEF Suffixes
<1>5. ASSUME NEW i \in 2..(Len(host) - 1), labels = SubSeq(host, i, Len(host))
      PROVE  labels \in Suffixes(host)
  BY <1>1, <1>5 DEF Suffixes
<1>6. QED
  BY <1>3, <1>4, <1>5

\* For rules posted in lower case, without a port and with at least two labels,
\* the helper's answer is squid's for every host.
THEOREM ProperRulesAgree ==
    ASSUME NEW some, NEW host \in HostNames,
           \A r \in some : Proper(r) /\ r.labels \in HostNames
    PROVE  IsDenied(some, host) <=> SquidDenies(Entries(some), host)
<1>1. Entries(some) = some
  BY DEF Entries, Proper
<1>2. \A r \in some : r.labels \in Suffixes(host) <=>
        \/ r.labels = host
        \/ \E i \in 2..(Len(host) - 1) : r.labels = SubSeq(host, i, Len(host))
  BY SuffixOfTwoLabels DEF Proper
<1>3. QED
  BY <1>1, <1>2 DEF IsDenied, SquidDenies, Proper

-----------------------------------------------------------------------------
(* Types.                                                                  *)

\* Whatever is posted and however runs interleave and die, only lines that
\* passed the validation reach a file or squid.
THEOREM DenylistTypeCorrect == Spec => []TypeOK
<1>1. Init => TypeOK
  BY DEF Init, TypeOK
<1>2. TypeOK /\ [Next]_vars => TypeOK'
  <2> SUFFICES ASSUME TypeOK, [Next]_vars
               PROVE  TypeOK'
    OBVIOUS
  <2> USE DEF TypeOK, Goto
  <2>1. \A some \in SUBSET Rules : Entries(some) \subseteq Entries(Rules)
    BY DEF Entries
  <2>2. CASE \E r \in Rules : Approve(r) \/ Withdraw(r)
    BY <2>2 DEF Approve, Withdraw
  <2>3. ASSUME NEW w \in Workers, Fetch(w)
        PROVE  TypeOK'
    BY <2>1, <2>3 DEF Fetch
  <2>4. ASSUME NEW w \in Workers, Open(w)
        PROVE  TypeOK'
    BY <2>4 DEF Open
  <2>5. ASSUME NEW w \in Workers, Write(w)
        PROVE  TypeOK'
    BY <2>5 DEF Write
  <2>6. ASSUME NEW w \in Workers,
               Compare(w) \/ MoveFails(w) \/ ReloadFails(w) \/ Dies(w)
        PROVE  TypeOK'
    BY <2>6 DEF Compare, MoveFails, ReloadFails, Dies
  <2>7. ASSUME NEW w \in Workers, Remove(w)
        PROVE  TypeOK'
    BY <2>7 DEF Remove, Removed
  <2>8. ASSUME NEW w \in Workers, Move(w)
        PROVE  TypeOK'
    BY <2>8 DEF Move, Renamed
  <2>9. ASSUME NEW w \in Workers, Reload(w)
        PROVE  TypeOK'
    BY <2>9 DEF Reload
  <2>10. CASE SquidStops \/ SquidStarts
    BY <2>10 DEF SquidStops, SquidStarts
  <2>11. CASE UNCHANGED vars
    BY <2>11 DEF vars
  <2>12. QED
    BY <2>2, <2>3, <2>4, <2>5, <2>6, <2>7, <2>8, <2>9, <2>10, <2>11
       DEF Next, Sync
<1>3. QED
  BY <1>1, <1>2, PTL DEF Spec

\* If every rule is like that, the two agree in every reachable state.
THEOREM HelperAgreesWithSquid ==
    ASSUME \A r \in Rules : Proper(r)
    PROVE  Spec => []SquidAndHelperAgree
<1>1. TypeOK => SquidAndHelperAgree
  <2> SUFFICES ASSUME TypeOK, NEW h \in Hosts
               PROVE  IsDenied(rules, h) <=> SquidDenies(Entries(rules), h)
    BY DEF SquidAndHelperAgree
  <2>1. h \in HostNames
    BY RulesAssumption
  <2>2. \A r \in rules : Proper(r) /\ r.labels \in HostNames
    BY RulesAssumption DEF TypeOK
  <2>3. QED
    BY <2>1, <2>2, ProperRulesAgree
<1>2. QED
  BY <1>1, DenylistTypeCorrect, PTL

-----------------------------------------------------------------------------
(* A single worker.                                                        *)

\* The run that writes has the temporary file open, and squid is behind the
\* file at most between the move and the reload, or after a reload that was
\* lost.
Behind(w) ==
    /\ pc[w] = "write" => out[w] = "tmp"
    /\ up /\ ~ lost /\ pc[w] # "reload" => loaded = target

\* With one worker, squid has read the file whenever no run is on its way and
\* the last reload was not lost, wherever runs die and however squid stops and
\* starts.  A lost reload leaves it behind, and so can a second worker.
THEOREM SingleWorkerSettles ==
    ASSUME NEW worker, Workers = {worker}
    PROVE  Spec => []SettledIsLoaded
<1>1. Init => Behind(worker)
  BY DEF Init, Behind
<1>2. TypeOK /\ Behind(worker) /\ [Next]_vars => Behind(worker)'
  <2> SUFFICES ASSUME TypeOK, Behind(worker), [Next]_vars
               PROVE  Behind(worker)'
    OBVIOUS
  <2> USE DEF TypeOK, Behind, Goto
  <2>1. CASE \E r \in Rules : Approve(r) \/ Withdraw(r)
    BY <2>1 DEF Approve, Withdraw
  <2>2. CASE Fetch(worker) \/ Open(worker)
    BY <2>2 DEF Fetch, Open
  <2>3. CASE Write(worker)
    BY <2>3 DEF Write
  <2>4. CASE Compare(worker) \/ Remove(worker)
    BY <2>4 DEF Compare, Remove
  <2>5. CASE Move(worker) \/ MoveFails(worker)
    BY <2>5 DEF Move, MoveFails
  <2>6. CASE Reload(worker) \/ ReloadFails(worker) \/ Dies(worker)
    BY <2>6 DEF Reload, ReloadFails, Dies
  <2>7. CASE SquidStops \/ SquidStarts
    BY <2>7 DEF SquidStops, SquidStarts
  <2>8. CASE UNCHANGED vars
    BY <2>8 DEF vars
  <2>9. QED
    BY <2>1, <2>2, <2>3, <2>4, <2>5, <2>6, <2>7, <2>8
       DEF Next, Sync
<1>3. Behind(worker) => SettledIsLoaded
  BY DEF Behind, SettledIsLoaded
<1>4. QED
  BY <1>1, <1>2, <1>3, DenylistTypeCorrect, PTL DEF Spec

\* But for what has been withdrawn: squid has at most what the file says, the
\* file at most what the run on its way has fetched, and that at most the rules.
Standing(w) ==
    /\ loaded \ withdrawn \subseteq target
    /\ target \ withdrawn \subseteq Entries(rules)
    /\ pc[w] \in {"open", "write", "compare", "move"} =>
            target \ withdrawn \subseteq got[w]
    /\ got[w] \ withdrawn \subseteq Entries(rules)
    /\ pc[w] = "write" => out[w] = "tmp"
    /\ pc[w] \in {"compare", "move"} => tmp \subseteq {got[w]}

\* With one worker squid stops denying only what has been withdrawn, wherever
\* runs die, whichever reloads are lost and however squid stops and starts.
THEOREM SingleWorkerKeepsDenials ==
    ASSUME NEW worker, Workers = {worker}
    PROVE  Spec => DenialsStay
<1>1. Init => Standing(worker)
  BY DEF Init, Standing, Entries
<1>2. TypeOK /\ Standing(worker) /\ [Next]_vars
        => Standing(worker)' /\ [loaded \ loaded' \subseteq withdrawn]_vars
  <2> SUFFICES ASSUME TypeOK, Standing(worker), [Next]_vars
               PROVE  Standing(worker)' /\ loaded \ loaded' \subseteq withdrawn
    OBVIOUS
  <2> USE DEF TypeOK, Standing, Goto
  <2>1. ASSUME NEW r \in Rules, Approve(r)
        PROVE  Standing(worker)' /\ loaded' = loaded
    BY <2>1 DEF Approve, Entries
  <2>2. ASSUME NEW r \in Rules, Withdraw(r)
        PROVE  Standing(worker)' /\ loaded' = loaded
    BY <2>2 DEF Withdraw, Entries
  <2>3. ASSUME Fetch(worker)
        PROVE  Standing(worker)' /\ loaded' = loaded
    BY <2>3 DEF Fetch
  <2>4. ASSUME Open(worker)
        PROVE  Standing(worker)' /\ loaded' = loaded
    BY <2>4 DEF Open
  <2>5. ASSUME Write(worker)
        PROVE  Standing(worker)' /\ loaded' = loaded
    BY <2>5 DEF Write
  <2>6. ASSUME Compare(worker) \/ Remove(worker)
        PROVE  Standing(worker)' /\ loaded' = loaded
    BY <2>6 DEF Compare, Remove
  <2>7. ASSUME Move(worker) \/ MoveFails(worker)
        PROVE  Standing(worker)' /\ loaded' = loaded
    BY <2>7 DEF Move, MoveFails
  <2>8. ASSUME Reload(worker)
        PROVE  Standing(worker)' /\ loaded \ loaded' \subseteq withdrawn
    BY <2>8 DEF Reload
  <2>9. ASSUME ReloadFails(worker) \/ Dies(worker)
        PROVE  Standing(worker)' /\ loaded' = loaded
    BY <2>9 DEF ReloadFails, Dies
  <2>10. ASSUME SquidStops \/ SquidStarts
         PROVE  Standing(worker)' /\ loaded \ loaded' \subseteq withdrawn
    BY <2>10 DEF SquidStops, SquidStarts
  <2>11. ASSUME UNCHANGED vars
         PROVE  Standing(worker)' /\ loaded' = loaded
    BY <2>11 DEF vars
  <2>12. QED
    BY <2>1, <2>2, <2>3, <2>4, <2>5, <2>6, <2>7, <2>8, <2>9, <2>10, <2>11
       DEF Next, Sync
<1>3. QED
  BY <1>1, <1>2, DenylistTypeCorrect, PTL DEF Spec, DenialsStay

=============================================================================
