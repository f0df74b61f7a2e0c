------------------------------ MODULE Denylist ------------------------------
(***************************************************************************)
(* From the rules table to what squid denies: sync-denylist.sh, run in a   *)
(* loop (--watch) and by hand or by the demo besides.                      *)
(*                                                                         *)
(* Every run of the script works on one target file and one temporary file *)
(* next to it.  A file that is being written keeps its identity when it is *)
(* renamed, so `out` says under which name each run's output now is.       *)
(***************************************************************************)
EXTENDS DenyMatching, FiniteSets

CONSTANTS
    Workers,    \* processes that run the script
    Watchers    \* those in the --watch loop, where a failing command is passed
                \* over; elsewhere `set -e` ends the script

ASSUME WorkersAssumption == Watchers \subseteq Workers

VARIABLES
    rules,    \* the rules table
    pc,       \* pc[w]: where the run of worker w is
    got,      \* got[w]: the entries it has read
    out,      \* out[w]: where the file it opened is: "tmp", "target" or "gone"
    tmp,      \* the content of .domains.tmp, {} when there is no such file
    target,   \* content of domains.txt
    up,       \* whether the squid container runs
    loaded,   \* the entries squid has read
    lost,     \* history: whether squid's last chance to read the list was lost
    withdrawn \* history: the rules that have been withdrawn

vars == <<rules, pc, got, out, tmp, target, up, loaded, lost, withdrawn>>

TypeOK ==
    /\ rules \subseteq Rules
    /\ pc \in [Workers -> {"idle", "open", "write", "compare", "remove",
                           "move", "reload"}]
    /\ got \in [Workers -> SUBSET Entries(Rules)]
    /\ out \in [Workers -> {"tmp", "target", "gone"}]
    /\ tmp \subseteq SUBSET Entries(Rules)
    /\ \A a, b \in tmp : a = b
    /\ target \subseteq Entries(Rules)
    /\ up \in BOOLEAN
    /\ loaded \subseteq Entries(Rules)
    /\ lost \in BOOLEAN
    /\ withdrawn \subseteq Rules

\* The repository's domains.txt has no entries.
Init ==
    /\ rules = {}
    /\ pc = [w \in Workers |-> "idle"]
    /\ got = [w \in Workers |-> {}]
    /\ out = [w \in Workers |-> "gone"]
    /\ tmp = {}
    /\ target = {}
    /\ up = TRUE
    /\ loaded = {}
    /\ lost = FALSE
    /\ withdrawn = {}

Goto(w, label) == pc' = [pc EXCEPT ![w] = label]

-----------------------------------------------------------------------------
(* The rules table changes by approvals and demo clears.                   *)

Approve(r) ==
    /\ rules' = rules \cup {r}
    /\ UNCHANGED <<pc, got, out, tmp, target, up, loaded, lost, withdrawn>>

Withdraw(r) ==
    /\ rules' = rules \ {r}
    /\ withdrawn' = withdrawn \cup {r}
    /\ UNCHANGED <<pc, got, out, tmp, target, up, loaded, lost>>

-----------------------------------------------------------------------------
(* sync_once.                                                              *)

\* Mutant: a run that cannot reach ingestion goes on with no lines.
Fetch_EmptyIfUnreachable(w) ==
    /\ pc[w] = "idle"
    /\ \E lines \in {rules, {}} : got' = [got EXCEPT ![w] = Entries(lines)]
    /\ Goto(w, "open")
    /\ UNCHANGED <<rules, out, tmp, target, up, loaded, lost, withdrawn>>

\* curl rules.txt and the validation of its lines.  When ingestion cannot be
\* reached the run ends here, and nothing changes.
Fetch(w) ==
    /\ pc[w] = "idle"
    /\ got' = [got EXCEPT ![w] = Entries(rules)]
    /\ Goto(w, "open")
    /\ UNCHANGED <<rules, out, tmp, target, up, loaded, lost, withdrawn>>

\* The redirection creates the temporary file, or empties the one that is
\* there.
Open(w) ==
    /\ pc[w] = "open"
    /\ tmp' = {{}}
    /\ out' = [out EXCEPT ![w] = "tmp"]
    /\ Goto(w, "write")
    /\ UNCHANGED <<rules, got, target, up, loaded, lost, withdrawn>>

Write(w) ==
    /\ pc[w] = "write"
    /\ tmp' = IF out[w] = "tmp" THEN {got[w]} ELSE tmp
    /\ target' = IF out[w] = "target" THEN got[w] ELSE target
    /\ Goto(w, "compare")
    /\ UNCHANGED <<rules, got, out, up, loaded, lost, withdrawn>>

\* Mutant: only the number of entries is compared.
Compare_CountOnly(w) ==
    /\ pc[w] = "compare"
    /\ Goto(w, IF \E list \in tmp : Cardinality(list) = Cardinality(target)
               THEN "remove" ELSE "move")
    /\ UNCHANGED <<rules, got, out, tmp, target, up, loaded, lost, withdrawn>>

\* cmp: false as well when the temporary file is missing.
Compare(w) ==
    /\ pc[w] = "compare"
    /\ Goto(w, IF tmp = {target} THEN "remove" ELSE "move")
    /\ UNCHANGED <<rules, got, out, tmp, target, up, loaded, lost, withdrawn>>

\* What becomes of the files others have open when the temporary file is
\* removed, or renamed over the target.
Removed == [w \in Workers |-> IF out[w] = "tmp" THEN "gone" ELSE out[w]]

Renamed == [w \in Workers |-> IF out[w] = "tmp" THEN "target" ELSE "gone"]

Remove(w) ==
    /\ pc[w] = "remove"
    /\ tmp' = {}
    /\ out' = Removed
    /\ Goto(w, "idle")
    /\ UNCHANGED <<rules, got, target, up, loaded, lost, withdrawn>>

\* Mutant: squid is told to read the list before it is in place.
Move_ReloadsFirst(w) ==
    /\ pc[w] = "move"
    /\ loaded' = IF up THEN target ELSE loaded
    /\ target' \in tmp
    /\ tmp' = {}
    /\ out' = Renamed
    /\ Goto(w, "idle")
    /\ UNCHANGED <<rules, got, up, lost, withdrawn>>

Move(w) ==
    /\ pc[w] = "move"
    /\ target' \in tmp
    /\ tmp' = {}
    /\ out' = Renamed
    /\ Goto(w, "reload")
    /\ UNCHANGED <<rules, got, up, loaded, lost, withdrawn>>

\* mv finds no temporary file, because another run has taken it, or the disk
\* refuses.  A run by hand ends (errexit); in the loop, where errexit is off,
\* squid is told to read what is there.
MoveFails(w) ==
    /\ pc[w] = "move"
    /\ Goto(w, IF w \in Watchers THEN "reload" ELSE "idle")
    /\ UNCHANGED <<rules, got, out, tmp, target, up, loaded, lost, withdrawn>>

\* squid -k reconfigure, in a container that runs, with a list squid takes.
Reload(w) ==
    /\ pc[w] = "reload"
    /\ up
    /\ Loadable(target)
    /\ loaded' = target
    /\ lost' = FALSE
    /\ Goto(w, "idle")
    /\ UNCHANGED <<rules, got, out, tmp, target, up, withdrawn>>

\* The reconfigure fails: there is no container, squid refuses the list, or
\* docker does.  The run ends, and squid keeps the list it has.
ReloadFails(w) ==
    /\ pc[w] = "reload"
    /\ lost' = TRUE
    /\ Goto(w, "idle")
    /\ UNCHANGED <<rules, got, out, tmp, target, up, loaded, withdrawn>>

\* The script is killed, or the host goes down: at any command, the reload of
\* a list that is already in place included.
Dies(w) ==
    /\ pc[w] # "idle"
    /\ lost' = (lost \/ pc[w] = "reload")
    /\ Goto(w, "idle")
    /\ UNCHANGED <<rules, got, out, tmp, target, up, loaded, withdrawn>>

-----------------------------------------------------------------------------
(* The container.                                                          *)

SquidStops ==
    /\ up
    /\ up' = FALSE
    /\ UNCHANGED <<rules, pc, got, out, tmp, target, loaded, lost, withdrawn>>

\* Squid reads the list when it starts; with one it refuses it does not start.
SquidStarts ==
    /\ ~ up
    /\ Loadable(target)
    /\ up' = TRUE
    /\ loaded' = target
    /\ lost' = FALSE
    /\ UNCHANGED <<rules, pc, got, out, tmp, target, withdrawn>>

-----------------------------------------------------------------------------
Sync(w) ==
    \/ Fetch(w) \/ Open(w) \/ Write(w)
    \/ Compare(w) \/ Remove(w) \/ Move(w) \/ MoveFails(w)
    \/ Reload(w) \/ ReloadFails(w)

Next ==
    \/ \E r \in Rules : Approve(r) \/ Withdraw(r)
    \/ \E w \in Workers : Sync(w) \/ Dies(w)
    \/ SquidStops \/ SquidStarts

Spec == Init /\ [][Next]_vars

\* The loop goes round for ever and ingestion is reached again and again; no
\* run after the other dies at the same command; the disk does not refuse for
\* ever; docker restarts the container (restart: unless-stopped).  That a
\* reload succeeds is not assumed: it works, or it fails.
Fairness ==
    /\ \A w \in Watchers :
        /\ WF_vars(Fetch(w))
        /\ SF_vars(Open(w)) /\ SF_vars(Write(w)) /\ SF_vars(Compare(w))
        /\ SF_vars(Remove(w)) /\ SF_vars(Move(w))
        /\ SF_vars(tmp = {} /\ MoveFails(w))
        /\ SF_vars(Reload(w) \/ ReloadFails(w))
    /\ WF_vars(SquidStarts)

FairSpec == Spec /\ Fairness

-----------------------------------------------------------------------------
(* Properties.                                                             *)

\* While no run of the script is on its way, squid denies what the file says,
\* unless the reload of that file was lost: it failed, squid refused the list,
\* or the run died between the move and the reload.  Neither a death at another
\* command nor a stop and start of the container leaves squid behind the file.
SettledIsLoaded ==
    up /\ ~ lost /\ (\A w \in Workers : pc[w] = "idle") => loaded = target

\* Squid stops denying only what has been withdrawn: it reads no half-written
\* list, and none from a run that could not reach ingestion ("leaving the
\* current denylist in place").
DenialsStay == [][loaded \ loaded' \subseteq withdrawn]_vars

\* What the script does see to: an approved destination comes to be denied and
\* a withdrawn rule to be lifted, or the file has the change and the reload
\* for it was lost.
RulesReachSquid ==
    \A r \in Entries(Rules) :
        /\ r \in rules
            ~> \/ r \notin rules
               \/ SquidDenies(loaded, r.labels)
               \/ lost /\ r \in target
        /\ r \notin rules
            ~> \/ r \in rules
               \/ r \notin loaded
               \/ lost /\ r \notin target

\* What the architecture says of it (section 7: the worker reloads squid,
\* prevention on the next request): every approved destination comes to be
\* denied, and every withdrawn rule to be lifted.
RulesTakeEffect ==
    \A r \in Rules :
        /\ r \in rules ~> (r \notin rules \/ SquidDenies(loaded, r.labels))
        /\ r \notin rules ~> (r \in rules \/ r \notin loaded)

\* The helper's answer, once the rules are synced, is squid's: is_denied's
\* docstring says dstdomain does the same thing.
SquidAndHelperAgree ==
    \A h \in Hosts : IsDenied(rules, h) <=> SquidDenies(Entries(rules), h)

=============================================================================
