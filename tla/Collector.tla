------------------------------ MODULE Collector ------------------------------
(***************************************************************************)
(* The collector: squid's access log, the command that reads it, one POST  *)
(* for each line that parses, and the events ingestion stores.             *)
(*                                                                         *)
(* Lines are numbered in the order squid writes them.  The source command  *)
(* is either the default `tail -n 0 -F`, which starts behind the last      *)
(* line, or one that reads a file from its beginning, as in the tests.     *)
(* Ingestion gives every record a new id, since a log line has none, so    *)
(* what matters of the events table is how many events a line has.         *)
(*                                                                         *)
(* A request the collector has given up on may still be waiting in         *)
(* ingestion, and be carried out later.                                    *)
(***************************************************************************)
EXTENDS Naturals

CONSTANTS
    LastLine,   \* bound: squid writes lines 1 to LastLine
    Records,    \* the lines parse_line makes a record of
    Sources,    \* the kinds of source command: "tail", "file"
    MaxRuns     \* bound: how often the collector is started

ASSUME CollectorAssumption ==
    /\ LastLine \in Nat
    /\ Records \subseteq 1..LastLine
    /\ Sources \subseteq {"tail", "file"}
    /\ MaxRuns \in Nat

Lines == 1..LastLine

VARIABLES
    source,    \* which kind of command is the source
    retry,     \* FALSE for --no-retry
    runs,      \* how often the collector has been started
    log,       \* the last line squid has written
    attached,  \* whether the source command is running
    at,        \* the next line the command puts out
    next,      \* the next line the collector reads from the command's output
    pc,        \* where run() is
    hand,      \* the line whose record was read last
    request,   \* what has become of the request for it
    late,      \* lines whose requests were given up and wait in ingestion
    events,    \* events[l]: how many events are stored for line l
    posted,    \* the lines this run has counted as posted
    dropped,   \* the lines this run has counted as dropped
    exit       \* the exit status of a run that has ended, or "none"

log_vars == <<source, retry, runs, log>>

counts == <<posted, dropped, exit>>

vars == <<source, retry, runs, log, attached, at, next, pc, hand, request,
          late, events, posted, dropped, exit>>

TypeOK ==
    /\ source \in Sources
    /\ retry \in BOOLEAN
    /\ runs \in 1..MaxRuns
    /\ log \in 0..LastLine
    /\ attached \in BOOLEAN
    /\ at \in 1..(LastLine + 1)
    /\ next \in 1..at
    /\ pc \in {"attaching", "reading", "posting", "exited", "crashed"}
    /\ hand \in 0..LastLine
    /\ request \in {"sent", "stored", "gone"}
    /\ late \subseteq Records
    /\ events \in [Lines -> Nat]
    /\ posted \subseteq Records
    /\ dropped \subseteq Records
    /\ exit \in {"none", "0", "1"}

\* The log may hold lines already.  A file is read with --no-retry: read again
\* every three seconds it would be posted again every three seconds.
Init ==
    /\ source \in Sources
    /\ retry \in BOOLEAN
    /\ source = "file" => ~retry
    /\ runs = 1 /\ MaxRuns >= 1
    /\ log \in 0..LastLine
    /\ attached = FALSE
    /\ at = 1 /\ next = 1
    /\ pc = "attaching"
    /\ hand = 0 /\ request = "gone" /\ late = {}
    /\ events = [l \in Lines |-> 0]
    /\ posted = {} /\ dropped = {} /\ exit = "none"

-----------------------------------------------------------------------------
(* Squid and the source command.                                           *)

\* Squid logs a request.
Log ==
    /\ log < LastLine
    /\ log' = log + 1
    /\ UNCHANGED <<source, retry, runs, attached, at, next, pc, hand, request,
                   late, events, counts>>

\* The command puts out the next line; what it has put out and the collector
\* has not read is in the pipe.
Forward ==
    /\ attached /\ at <= log
    /\ at' = at + 1
    /\ UNCHANGED <<log_vars, attached, next, pc, hand, request, late, events,
                   counts>>

\* The command ends: at the end of a file, or, for the tail, when the squid
\* container goes away.
SourceEnds ==
    /\ attached
    /\ source = "file" => at > log
    /\ attached' = FALSE
    /\ UNCHANGED <<log_vars, at, next, pc, hand, request, late, events, counts>>

-----------------------------------------------------------------------------
(* run() and post_event().                                                 *)

\* follow: start the command.
Attach ==
    /\ pc = "attaching"
    /\ attached' = TRUE
    /\ at' = (IF source = "file" THEN 1 ELSE log + 1)
    /\ next' = at'
    /\ pc' = "reading"
    /\ UNCHANGED <<log_vars, hand, request, late, events, counts>>

\* Mutant: what parse_line makes nothing of is posted as well.
Read_Unparsed ==
    /\ pc = "reading" /\ next < at
    /\ next' = next + 1
    /\ pc' = "posting" /\ hand' = next /\ request' = "sent"
    /\ UNCHANGED <<log_vars, attached, at, late, events, counts>>

\* The for loop takes a line; one that is no record is passed over.
Read ==
    /\ pc = "reading" /\ next < at
    /\ next' = next + 1
    /\ IF next \in Records
       THEN pc' = "posting" /\ hand' = next /\ request' = "sent"
       ELSE UNCHANGED <<pc, hand, request>>
    /\ UNCHANGED <<log_vars, attached, at, late, events, counts>>

\* A 2xx answer arrives.
PostAccepted ==
    /\ pc = "posting" /\ request = "stored"
    /\ posted' = posted \cup {hand}
    /\ pc' = "reading" /\ request' = "gone"
    /\ UNCHANGED <<log_vars, attached, at, next, hand, late, events, dropped,
                   exit>>

\* What a request that has not been carried out leaves behind when the
\* collector stops waiting for it.
GiveUp ==
    /\ request' = "gone"
    /\ \/ late' = late
       \/ request = "sent" /\ late' = late \cup {hand}

\* Mutant: a record that could not be posted is posted again.
PostFails_Again ==
    /\ pc = "posting"
    /\ \/ late' = late
       \/ request = "sent" /\ late' = late \cup {hand}
    /\ request' = "sent"
    /\ UNCHANGED <<log_vars, attached, at, next, pc, hand, events, counts>>

\* Mutant: a timeout is taken for an acceptance.
PostFails_Accepted ==
    /\ pc = "posting"
    /\ GiveUp
    /\ posted' = posted \cup {hand}
    /\ pc' = "reading"
    /\ UNCHANGED <<log_vars, attached, at, next, hand, events, dropped, exit>>

\* URLError or OSError: refused, reset, timed out, or an error status.
PostFails ==
    /\ pc = "posting"
    /\ GiveUp
    /\ dropped' = dropped \cup {hand}
    /\ pc' = "reading"
    /\ UNCHANGED <<log_vars, attached, at, next, hand, events, posted, exit>>

\* An HTTPException, which is neither, ends the program; the command is
\* terminated, and what is in the pipe is lost.
PostEscapes ==
    /\ pc = "posting"
    /\ GiveUp
    /\ pc' = "crashed" /\ exit' = "1"
    /\ attached' = FALSE /\ at' = next
    /\ UNCHANGED <<log_vars, next, hand, events, posted, dropped>>

\* The two ways on once the command's output has ended.
StartAgain == pc' = "attaching" /\ UNCHANGED exit

Stop(complete) == pc' = "exited" /\ exit' = IF complete THEN "0" ELSE "1"

at_the_end == <<log_vars, attached, at, next, hand, request, late, events,
                posted, dropped>>

\* Mutant: the source is started again at once, its output left unread.
EndOfSource_Unread ==
    /\ pc = "reading" /\ ~attached
    /\ IF retry THEN StartAgain ELSE next = at /\ Stop(dropped = {})
    /\ UNCHANGED at_the_end

\* The command has ended and its output is read: wait and start it again, or
\* stop, with the exit status 0 if nothing was dropped.
EndOfSource ==
    /\ pc = "reading" /\ ~attached /\ next = at
    /\ IF retry THEN StartAgain ELSE Stop(dropped = {})
    /\ UNCHANGED at_the_end

\* The collector is started again; it remembers nothing.
Rerun ==
    /\ pc \in {"exited", "crashed"}
    /\ runs < MaxRuns
    /\ runs' = runs + 1
    /\ pc' = "attaching"
    /\ posted' = {} /\ dropped' = {} /\ exit' = "none"
    /\ UNCHANGED <<source, retry, log, attached, at, next, hand, request, late,
                   events>>

-----------------------------------------------------------------------------
(* Ingestion.                                                              *)

\* add_event: a new id, an insert and a commit, and only then the answer.
AddEvent(l) == events' = [events EXCEPT ![l] = @ + 1]

Ingest ==
    /\ pc = "posting" /\ request = "sent"
    /\ AddEvent(hand)
    /\ request' = "stored"
    /\ UNCHANGED <<log_vars, attached, at, next, pc, hand, late, counts>>

\* A request nobody waits for is carried out.
IngestLate ==
    \E l \in late :
        /\ AddEvent(l)
        /\ late' = late \ {l}
        /\ UNCHANGED <<log_vars, attached, at, next, pc, hand, request, counts>>

\* Ingestion restarts: what is stored stays, requests and answers are gone.
IngestionRestarts ==
    /\ late' = {} /\ request' = "gone"
    /\ UNCHANGED <<log_vars, attached, at, next, pc, hand, events, counts>>

-----------------------------------------------------------------------------
Environment == Log \/ Forward \/ SourceEnds \/ Ingest \/ IngestLate
               \/ IngestionRestarts \/ Rerun

\* What the collector's one thread does next.
Work == Attach \/ Read \/ PostAccepted \/ PostFails \/ PostEscapes \/ EndOfSource

Next == Environment \/ Work

Spec == Init /\ [][Next]_vars

\* The collector runs, and a post ends within its five seconds.
FairSpec == Spec /\ WF_vars(Work)

-----------------------------------------------------------------------------
(* Properties.                                                             *)

\* With the tail as its source, no request squid logged is stored as two
\* events, whatever fails, times out, is reattached or restarted: a line is
\* posted once or never.
TailStoresOnce == source = "tail" => \A l \in Lines : events[l] <= 1

\* A line counted as posted is stored.
PostedIsStored == \A l \in posted : events[l] >= 1

\* Every line that reaches the pipe is counted, as posted or as dropped, unless
\* the program ends before it.
LinesAreCounted ==
    \A l \in Records :
        (next <= l /\ l < at) ~> (l \in posted \cup dropped \/ pc = "crashed")

\* "Stable event ids derived from record content are what make replay safe": no
\* line is stored twice, a file that is read again included. False, because
\* neither the collector nor ingestion derives an id from the record.
ReplayStoresOnce == \A l \in Lines : events[l] <= 1

=============================================================================
