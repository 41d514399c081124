------------------------------ MODULE EventLog ------------------------------
(***************************************************************************)
(* The event log (src/src/telemetry/persistence.rs) and what reads it      *)
(* (src/src/replay/): try_persist offers an event to a bounded channel, a  *)
(* writer on a thread of its own appends a line per event through a        *)
(* buffer, and the file outlives the process. A crash loses the channel    *)
(* and the buffer; a restart appends to the same file and numbers its      *)
(* records from one again.                                                 *)
(*                                                                         *)
(* An event is a number, in the order in which events are offered. A line  *)
(* of the file is a "body" piece and the "end" piece of its newline; a     *)
(* body that a crash cut short is "torn".                                  *)
(***************************************************************************)
EXTENDS Integers, FiniteSets, Sequences, Functions

CONSTANTS
  BufferSize,      \* capacity of the channel
  FlushInterval,   \* flush_interval_events
  Critical,        \* the events whose durability() is Critical
  MaxOffers,       \* bound: events offered
  MaxSessions,     \* bound: times the process is started
  MaxFaults        \* bound: crashes and failing file operations

ASSUME LogAssumption ==
  /\ BufferSize \in Nat \ {0}
  /\ FlushInterval \in Nat \ {0}
  /\ Critical \subseteq 1..MaxOffers
  /\ MaxOffers \in Nat /\ MaxSessions \in Nat /\ MaxFaults \in Nat

VARIABLES
  phase,      \* "Down", "Up", or "Closing": the last sender is dropped
  session,    \* number of the process' run
  offered,    \* event -> the session it was offered in
  accepted,   \* events whose try_persist returned true
  reported,   \* events whose loss was logged as an error
  channel,    \* events in the mpsc channel
  writer,     \* where the writer task is
  hand,       \* the event it has received and not written, or none
  seq,        \* EventWriter::seq
  written,    \* records ever written: the order of their persisted_at
  buffer,     \* pieces in the BufWriter
  file,       \* pieces in the file
  meta,       \* session -> event_count in its metadata sidecar
  failed,     \* sessions in which a file operation failed
  crashed     \* sessions that ended in a crash

procVars == <<phase, session>>
offerVars == <<offered, accepted, reported, meta>>
writerVars == <<channel, writer, hand, seq, written, buffer, file>>
faultVars == <<failed, crashed>>
vars == <<procVars, offerVars, writerVars, faultVars>>

Nothing == 0
Event == 1..MaxOffers
Session == 1..MaxSessions
Piece == [id : Event, seq : Nat, at : Nat, part : {"body", "torn", "end"}]

TypeOK ==
  /\ phase \in {"Down", "Up", "Closing"} /\ session \in 0..MaxSessions
  /\ Len(offered) <= MaxOffers
  /\ Range(offered) \subseteq Session
  /\ accepted \cup reported \subseteq DOMAIN offered /\ accepted \cap reported = {}
  /\ Range(channel) \subseteq accepted /\ Len(channel) <= BufferSize
  /\ writer \in {"Gone", "Opening", "Idle", "Writing", "Flushing", "Closing"}
  /\ hand \in accepted \cup {Nothing} /\ (writer = "Writing" <=> hand # Nothing)
  /\ seq \in Nat /\ written \in Nat
  /\ Range(buffer \o file) \subseteq Piece
  /\ DOMAIN meta \subseteq Session /\ \A s \in DOMAIN meta : meta[s] \in Nat
  /\ failed \cup crashed \subseteq Session

Init ==
  /\ phase = "Down" /\ session = 0
  /\ offered = << >> /\ accepted = {} /\ reported = {} /\ meta = << >>
  /\ channel = << >> /\ writer = "Gone" /\ hand = Nothing
  /\ seq = 0 /\ written = 0 /\ buffer = << >> /\ file = << >>
  /\ failed = {} /\ crashed = {}

FaultsLeft == Cardinality(failed) + Cardinality(crashed) < MaxFaults

-----------------------------------------------------------------------------
(* The process and the callers of try_persist.                              *)

Start ==
  /\ phase = "Down" /\ session < MaxSessions
  /\ phase' = "Up" /\ session' = session + 1
  /\ channel' = << >> /\ writer' = "Opening"
  /\ UNCHANGED <<hand, seq, written, buffer, file, offerVars, faultVars>>

AcceptedIn(s) == {id \in accepted : offered[id] = s}

\* Mutant of WithMeta: finalize counts what was offered.
WithMetaOfOffers ==
  [s \in DOMAIN meta \cup {session} |->
     IF s = session THEN Cardinality({id \in DOMAIN offered : offered[id] = s}) ELSE meta[s]]

\* The recorder counts the events that were accepted.
WithMeta ==
  [s \in DOMAIN meta \cup {session} |->
     IF s = session THEN Cardinality(AcceptedIn(s)) ELSE meta[s]]

\* Mutant of LoggedAsError: any full channel is a warning.
OnlyClosedIsError(id) == writer = "Gone"

\* A full channel drops an event of either class, and logs an error only for
\* a critical one; a closed channel is always an error.
LoggedAsError(id) == writer = "Gone" \/ id \in Critical

HasRoom == Len(channel) < BufferSize

TryPersist ==
  LET id == Len(offered) + 1 IN
  /\ phase = "Up" /\ Len(offered) < MaxOffers
  /\ offered' = Append(offered, session)
  /\ \/ /\ writer # "Gone" /\ HasRoom
        /\ channel' = Append(channel, id)
        /\ accepted' = accepted \cup {id}
        /\ UNCHANGED reported
     \/ /\ writer = "Gone" \/ ~HasRoom
        /\ reported' = IF LoggedAsError(id) THEN reported \cup {id} ELSE reported
        /\ UNCHANGED <<channel, accepted>>
  /\ UNCHANGED <<procVars, meta, writer, hand, seq, written, buffer, file, faultVars>>

\* A recorder is finalized and dropped, and the sender with it.
Close ==
  /\ phase = "Up"
  /\ phase' = IF writer = "Gone" THEN "Down" ELSE "Closing"
  /\ meta' = WithMeta
  /\ UNCHANGED <<session, offered, accepted, reported, writerVars, faultVars>>

-----------------------------------------------------------------------------
(* The writer task.                                                         *)

\* Mutant of OpenedFile: opened without append.
TruncatedFile == << >>

OpenedFile == file

Open ==
  /\ writer = "Opening"
  /\ writer' = "Idle" /\ seq' = 0 /\ file' = OpenedFile
  /\ UNCHANGED <<procVars, offerVars, channel, hand, written, buffer, faultVars>>

\* The task returns and drops the receiver with what it holds.
OpenFails ==
  /\ writer = "Opening" /\ FaultsLeft
  /\ writer' = "Gone" /\ channel' = << >> /\ failed' = failed \cup {session}
  /\ phase' = IF phase = "Closing" THEN "Down" ELSE phase
  /\ UNCHANGED <<session, offerVars, hand, seq, written, buffer, file, crashed>>

\* Mutant of MayReceive: the loop asks first whether a sender is left.
ReceiveWhileOpen == phase = "Up" /\ channel # << >>

MayReceive == channel # << >>

Receive ==
  /\ writer = "Idle" /\ MayReceive
  /\ writer' = "Writing" /\ hand' = Head(channel) /\ channel' = Tail(channel)
  /\ UNCHANGED <<procVars, offerVars, seq, written, buffer, file, faultVars>>

Line == [p \in 1..2 |-> [id |-> hand, seq |-> seq + 1, at |-> written + 1,
                         part |-> IF p = 1 THEN "body" ELSE "end"]]

\* Mutant of FlushDue: only the final flush is left.
NeverFlushDue(n) == FALSE

FlushDue(n) == n % FlushInterval = 0

AfterWrite ==
  /\ seq' = seq + 1 /\ written' = written + 1
  /\ writer' = IF FlushDue(seq + 1) THEN "Flushing" ELSE "Idle"
  /\ hand' = Nothing

\* A full BufWriter empties itself before it takes the body, or between the
\* body and the newline.
WriteEvent ==
  /\ writer = "Writing" /\ AfterWrite
  /\ LET pieces == buffer \o Line IN
     \E n \in {0, Len(buffer), Len(buffer) + 1} :
       /\ file' = file \o SubSeq(pieces, 1, n)
       /\ buffer' = SubSeq(pieces, n + 1, Len(pieces))
  /\ UNCHANGED <<procVars, offerVars, channel, faultVars>>

\* Emptying the buffer fails: the body is refused, or the newline is. The
\* number is used up either way.
WriteFails ==
  /\ writer = "Writing" /\ FaultsLeft /\ AfterWrite
  /\ buffer' \in {buffer, Append(buffer, Line[1])}
  /\ failed' = failed \cup {session}
  /\ UNCHANGED <<procVars, offerVars, channel, file, crashed>>

EndOfInput ==
  /\ writer = "Idle" /\ phase = "Closing" /\ channel = << >>
  /\ writer' = "Closing"
  /\ UNCHANGED <<procVars, offerVars, channel, hand, seq, written, buffer, file, faultVars>>

\* After the final flush the task ends, and with it the process.
AfterFlush ==
  /\ writer' = IF writer = "Flushing" THEN "Idle" ELSE "Gone"
  /\ phase' = IF writer = "Flushing" THEN phase ELSE "Down"

Flush ==
  /\ writer \in {"Flushing", "Closing"} /\ AfterFlush
  /\ file' = file \o buffer /\ buffer' = << >>
  /\ UNCHANGED <<session, offerVars, channel, hand, seq, written, faultVars>>

\* Some of the pieces reach the file; the rest stays in the buffer, which a
\* last flush leaves behind.
FlushFails ==
  /\ writer \in {"Flushing", "Closing"} /\ FaultsLeft /\ AfterFlush
  /\ \E n \in 0..(Len(buffer) - 1) :
       /\ file' = file \o SubSeq(buffer, 1, n)
       /\ buffer' = IF writer = "Flushing" THEN SubSeq(buffer, n + 1, Len(buffer)) ELSE << >>
  /\ failed' = failed \cup {session}
  /\ UNCHANGED <<session, offerVars, channel, hand, seq, written, crashed>>

\* What a process that dies in the middle of a flush may have written.
Torn(n) ==
  IF buffer[n].part = "body"
  THEN SubSeq(buffer, 1, n - 1) \o <<[buffer[n] EXCEPT !.part = "torn"]>>
  ELSE SubSeq(buffer, 1, n - 1)

Crash ==
  /\ phase # "Down" /\ FaultsLeft
  /\ phase' = "Down" /\ crashed' = crashed \cup {session}
  /\ file' \in {file} \cup (IF writer \in {"Flushing", "Closing"}
                            THEN {file \o Torn(n) : n \in 1..Len(buffer)} ELSE {})
  /\ writer' = "Gone" /\ hand' = Nothing /\ channel' = << >> /\ buffer' = << >>
  /\ UNCHANGED <<session, offerVars, seq, written, failed>>

-----------------------------------------------------------------------------
Operate == Start \/ TryPersist \/ Close

Write == Open \/ Receive \/ WriteEvent \/ EndOfInput \/ Flush

Next == Operate \/ Write \/ OpenFails \/ WriteFails \/ FlushFails \/ Crash

\* The writer has a thread of its own.
Spec == Init /\ [][Next]_vars /\ WF_vars(Write)

-----------------------------------------------------------------------------
(* Reading back.                                                            *)

Starts(i) == file[i].part = "body" /\ (i > 1 => file[i - 1].part = "end")

\* A line that is one whole body: terminated, or the last of the file.
Readable(i) == Starts(i) /\ (i < Len(file) => file[i + 1].part = "end")

\* The lines of a stretch of the file that can be read.
ReadableUpTo(n) == {i \in 1..n : Readable(i)}

\* The records of read_all: lines that do not parse are skipped.
ReadAll == {file[i] : i \in ReadableUpTo(Len(file))}

\* The elements of a finite set, each after those that come before it.
InOrder(S, Before(_, _)) ==
  [k \in 1..Cardinality(S) |-> CHOOSE x \in S : Cardinality({y \in S : Before(y, x)}) = k - 1]

\* Mutant of ReplayOrder: the newest record first.
NewestFirst(r, s) == r.at > s.at

\* Sorted by sequence number; the sort is stable.
ReplayOrder(r, s) == r.seq < s.seq \/ (r.seq = s.seq /\ r.at < s.at)

\* load_events with a start and an end time.
LoadEvents(start, end) ==
  InOrder({r \in ReadAll : r.at >= start /\ r.at <= end}, ReplayOrder)

\* run_sync with a handler that returns true for the events in wanted.
RunSync(records, wanted) ==
  [events_loaded    |-> Len(records),
   events_processed |-> Cardinality({k \in DOMAIN records : records[k].id \in wanted}),
   events_skipped   |-> Cardinality({k \in DOMAIN records : records[k].id \notin wanted})]

-----------------------------------------------------------------------------
ReadIds == {r.id : r \in ReadAll}

\* The session's first line continues a line that an earlier one left open.
OpenedMidLine(s) ==
  \E i \in DOMAIN file : /\ i > 1 /\ file[i].id \in AcceptedIn(s)
                         /\ file[i - 1].part # "end" /\ file[i - 1].id \notin AcceptedIn(s)

\* Sessions that ended in an orderly way and met no fault.
Clean == {s \in 1..session : /\ s < session \/ phase = "Down"
                             /\ s \notin failed \cup crashed /\ ~OpenedMidLine(s)}

\* The lines whose newline is in the file too, and their events.
Settled == ReadableUpTo(Len(file) - 1)

Kept == LET at == InOrder(Settled, <) IN [k \in DOMAIN at |-> file[at[k]].id]

Pending == IF phase = "Down" THEN {} ELSE AcceptedIn(session) \ Range(Kept)

\* The log keeps accepted events in order, each once, and for ever: nothing
\* a crash, a failing write or a restart does reaches back behind the last
\* newline (persistence.rs 46-75, 154-199).
Promise == INSTANCE LossyLog WITH Id <- Event, pending <- Pending, kept <- Kept

ImplementsLossyLog == Promise!LogSpec

\* A crash costs at most a channel and a flush interval of events, and one
\* more if the crash before it left half a line (persistence.rs 165-181).
LossBounded ==
  \A s \in 1..session : s \notin failed =>
    Cardinality(AcceptedIn(s) \ ReadIds)
      <= BufferSize + FlushInterval + (IF OpenedMidLine(s) THEN 1 ELSE 0)

\* After an orderly session every accepted event is in the file, and a
\* critical one that is not was reported as an error ("Critical events must
\* not be silently dropped by persistence", types.rs 160-161).
OrderlySessionAccounted ==
  \A s \in Clean : \A id \in DOMAIN offered : offered[id] = s =>
    /\ id \in accepted => id \in ReadIds
    /\ id \in Critical => id \in ReadIds \cup reported

\* The sidecar's event_count, taken at the end of an orderly session, is the
\* number of records a replay of that session hands out (recorder.rs 70-91).
CountMatchesReplay ==
  \A s \in Clean \cap DOMAIN meta :
    RunSync(LoadEvents(1, written), AcceptedIn(s)).events_processed = meta[s]

\* A replay of a stretch of one session hands its events to the handler in
\* the order they were offered in. (A stretch over two sessions does not:
\* both count from one.) runner.rs 72-95.
ReplayInOrder ==
  \A start, end \in 1..written :
    LET records == LoadEvents(start, end) IN
    (\A j, k \in DOMAIN records :
        offered[records[j].id] = offered[records[k].id])
    => \A j, k \in DOMAIN records : j < k => records[j].id < records[k].id

\* A log whose senders are gone is brought to its end.
ClosedLogEnds == phase = "Closing" ~> phase = "Down"
=============================================================================
