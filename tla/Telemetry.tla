------------------------------ MODULE Telemetry ------------------------------
(***************************************************************************)
(* The telemetry file: TelemetryBuffer, which a run writes it with, and    *)
(* JsonlTail, which the dashboard follows it with                          *)
(* (src/telemetry/metrics.py)                                              *)
(*                                                                         *)
(* The two are different processes and share nothing but the file.  A      *)
(* record is a line of one or two pieces, the last with the newline:       *)
(* where a file ends, and where a reader resumes, may be inside a line.    *)
(* The first lines of two runs differ (wall_time).  A path names a file;   *)
(* a new run truncates the file that is there, or creates one after the    *)
(* dashboard has unlinked it, and a reader may still hold the old one      *)
(* open.                                                                   *)
(***************************************************************************)
EXTENDS Integers, Sequences, SequencesExt

CONSTANTS
  Width(_, _),  \* the pieces of record k of run r
  MaxRows,      \* max_rows
  Attentive,    \* see Replaceable
  MaxRuns,      \* BOUND: runs
  MaxRecords    \* BOUND: records per run

Runs == 1 .. MaxRuns
Records == Runs \X (1 .. MaxRecords)

ASSUME ConstantsTyped ==
  /\ \A r \in Runs, k \in 1 .. MaxRecords : Width(r, k) \in {1, 2}
  /\ MaxRows \in Nat \ {0} /\ MaxRuns \in Nat /\ MaxRecords \in Nat /\ Attentive \in BOOLEAN

Piece(r, k, p) == [record |-> <<r, k>>, newline |-> p = Width(r, k), start |-> p = 1]
Pieces == [record : Records, newline : BOOLEAN, start : BOOLEAN]
Line(r, k) == [p \in 1 .. Width(r, k) |-> Piece(r, k, p)]

VARIABLES
  \* ---- the file system
  files,      \* per file, its contents
  path,       \* the file metrics.jsonl names, 0 when there is none
  \* ---- the run that writes
  run,        \* the runs started
  writing,    \* TelemetryBuffer._file is open
  written,    \* records_written
  buffer,     \* written and not yet flushed
  \* ---- the reader
  at,         \* where read() is
  again,      \* the second pass
  handle,     \* the file it has open
  firstRead,  \* the local first_line
  firstLine,  \* self._first_line, << >> for None
  rows, total, offset,
  alone       \* HISTORY: no run has replaced the file since the last read began

writer == <<run, writing, written, buffer>>
reader == <<at, again, handle, firstRead, firstLine, rows, total, offset, alone>>
vars == <<files, path, writer, reader>>

Files == 1 .. MaxRuns

TypeOK ==
  /\ files \in [Files -> Seq(Pieces)] /\ path \in 0 .. MaxRuns
  /\ run \in 0 .. MaxRuns /\ writing \in BOOLEAN
  /\ written \in 0 .. MaxRecords /\ buffer \in Seq(Pieces)
  /\ at \in {"idle", "exists", "opened", "sized", "retry"} /\ again \in BOOLEAN
  /\ handle \in 0 .. MaxRuns
  /\ firstRead \in Seq(Pieces) /\ firstLine \in Seq(Pieces)
  /\ rows \in Seq(Records) /\ Len(rows) <= MaxRows
  /\ total \in Nat /\ offset \in Nat /\ alone \in BOOLEAN

Init ==
  /\ files = [f \in Files |-> << >>] /\ path = 0
  /\ run = 0 /\ writing = FALSE /\ written = 0 /\ buffer = << >>
  /\ at = "idle" /\ again = FALSE /\ handle = 0
  /\ firstRead = << >> /\ firstLine = << >>
  /\ rows = << >> /\ total = 0 /\ offset = 0
  /\ alone = TRUE

-----------------------------------------------------------------------------
(***************************************************************************)
(* The writer.                                                             *)
(***************************************************************************)

\* readline() of the first line
FirstOf(s) ==
  LET k == SelectInSeq(s, LAMBDA p : p.newline)
  IN  IF k = 0 THEN s ELSE SubSeq(s, 1, k)

\* ASSUMPTION, when Attentive: a run is only replaced when the reader knows its
\* first line, or has read nothing of it and has no read under way.  Without it
\* RowsAreOfTheFile fails: a first line that is completed while read() runs is
\* parsed but not kept, and a file replaced before the next read() is taken for
\* the same one, once it has outgrown the offset.
Replaceable ==
  Attentive /\ path # 0 =>
    \/ firstLine # << >> /\ firstLine = FirstOf(files[path])
    \/ offset = 0 /\ at \in {"idle", "retry", "exists"}

\* TelemetryBuffer.__init__: open(path, "w")
StartRun ==
  /\ ~writing /\ run < MaxRuns /\ Replaceable
  /\ run' = run + 1
  /\ path' = IF path = 0 THEN run + 1 ELSE path
  /\ files' = [files EXCEPT ![path'] = << >>]
  /\ writing' = TRUE /\ written' = 0 /\ buffer' = << >>
  /\ alone' = FALSE
  /\ UNCHANGED <<at, again, handle, firstRead, firstLine, rows, total, offset>>

\* record(): the line goes to the file's buffer; a flush, or a buffer that is
\* full, passes some of what is buffered on
Record ==
  /\ writing /\ written < MaxRecords
  /\ written' = written + 1
  /\ LET all == buffer \o Line(run, written + 1)
     IN  \E n \in 0 .. Len(all) :
           /\ files' = [files EXCEPT ![path] = @ \o SubSeq(all, 1, n)]
           /\ buffer' = SubSeq(all, n + 1, Len(all))
  /\ UNCHANGED <<path, run, writing, reader>>

\* close()
Close ==
  /\ writing
  /\ files' = [files EXCEPT ![path] = @ \o buffer]
  /\ writing' = FALSE /\ buffer' = << >>
  /\ UNCHANGED <<path, run, written, reader>>

\* the process is killed: what is buffered is lost
Killed ==
  /\ writing
  /\ writing' = FALSE /\ buffer' = << >>
  /\ UNCHANGED <<files, path, run, written, reader>>

\* launch_simulation of the dashboard, when the former run has ended
Unlink ==
  /\ ~writing /\ path # 0 /\ run < MaxRuns /\ Replaceable
  /\ path' = 0
  /\ alone' = FALSE
  /\ UNCHANGED <<files, writer, at, again, handle, firstRead, firstLine, rows, total, offset>>

-----------------------------------------------------------------------------
(***************************************************************************)
(* The reader.                                                             *)
(***************************************************************************)

\* the records of the complete lines that end in s
RecordsIn(s) ==
  LET upTo[n \in 0 .. Len(s)] ==
        IF n = 0 THEN << >>
        ELSE IF s[n].newline THEN Append(upTo[n - 1], s[n].record) ELSE upTo[n - 1]
  IN  upTo[Len(s)]

\* chunk.rfind(newline) + 1
End(s) == SelectLastInSeq(s, LAMBDA p : p.newline)

Ended(line) == line # << >> /\ Last(line).newline

\* mutant: nothing is dropped
Everything(s) == s

\* a deque of max_rows
Recent(s) == SubSeq(s, IF Len(s) > MaxRows THEN Len(s) - MaxRows + 1 ELSE 1, Len(s))

\* read() begins a pass: no file, no rows
Missing ==
  /\ at \in {"idle", "retry"} /\ path = 0
  /\ rows' = << >> /\ total' = 0 /\ offset' = 0 /\ firstLine' = << >>
  /\ at' = "idle" /\ again' = FALSE
  /\ UNCHANGED <<files, path, writer, handle, firstRead, alone>>

Exists ==
  /\ at \in {"idle", "retry"} /\ path # 0
  /\ again' = (at = "retry")
  /\ at' = "exists"
  /\ UNCHANGED <<files, path, writer, handle, firstRead, firstLine, rows, total, offset, alone>>

\* open() raises FileNotFoundError when the file went since
OpenRaises ==
  /\ at = "exists" /\ path = 0
  /\ at' = "idle" /\ again' = FALSE
  /\ UNCHANGED <<files, path, writer, handle, firstRead, firstLine, rows, total, offset, alone>>

Open ==
  /\ at = "exists" /\ path # 0
  /\ handle' = path
  /\ firstRead' = FirstOf(files[path])
  /\ at' = "opened"
  /\ alone' = TRUE
  /\ UNCHANGED <<files, path, writer, again, firstLine, rows, total, offset>>

\* mutant: only a shorter file is a new one
OnlyShorter(size) == size < offset

\* a shorter file or another first line is a new run
IsReplaced(size) == size < offset \/ (firstLine # << >> /\ firstRead # firstLine)

\* self._first_line is set once the line is complete
Identify(known) == IF known = << >> /\ Ended(firstRead) THEN firstRead ELSE known

Size ==
  /\ at = "opened"
  /\ IF IsReplaced(Len(files[handle]))
     THEN /\ rows' = << >> /\ total' = 0 /\ offset' = 0
          /\ firstLine' = Identify(<< >>)
     ELSE /\ firstLine' = Identify(firstLine)
          /\ UNCHANGED <<rows, total, offset>>
  /\ at' = "sized"
  /\ UNCHANGED <<files, path, writer, again, handle, firstRead, alone>>

\* json.loads of a line that does not begin at its beginning
Malformed(chunk) == End(chunk) > 0 /\ ~chunk[1].start

Parse ==
  /\ at = "sized"
  /\ LET chunk == SubSeq(files[handle], offset + 1, Len(files[handle]))
         parsed == RecordsIn(chunk)
     IN  /\ ~Malformed(chunk)
         /\ rows' = Recent(rows \o parsed)
         /\ total' = total + Len(parsed)
         /\ offset' = offset + End(chunk)
  /\ at' = "idle" /\ again' = FALSE
  /\ UNCHANGED <<files, path, writer, handle, firstRead, firstLine, alone>>

\* ValueError: replaced under the reader
ParseRaises ==
  /\ at = "sized"
  /\ Malformed(SubSeq(files[handle], offset + 1, Len(files[handle])))
  /\ rows' = << >> /\ total' = 0 /\ offset' = 0 /\ firstLine' = << >>
  /\ at' = IF again THEN "idle" ELSE "retry"
  /\ again' = FALSE
  /\ UNCHANGED <<files, path, writer, handle, firstRead, alone>>

Read == Missing \/ Exists \/ OpenRaises \/ Open \/ Size \/ Parse \/ ParseRaises

Next == StartRun \/ Record \/ Close \/ Killed \/ Unlink \/ Read

Spec == Init /\ [][Next]_vars

\* the dashboard reads on
FairSpec == Spec /\ WF_vars(Read)

-----------------------------------------------------------------------------
(***************************************************************************)
(* Properties.                                                             *)
(***************************************************************************)

\* What read() has returned, when no run replaced the file meanwhile, are the
\* last max_rows of the first `total' records of the file, however often it
\* was replaced before: no record of another run, none twice, none left out.
RowsAreOfTheFile ==
  at = "idle" /\ alone /\ handle # 0 /\ handle = path =>
    LET all == RecordsIn(files[path])
    IN  total <= Len(all) /\ rows = Recent(SubSeq(all, 1, total))

\* The runs end, and from then on the dashboard comes to show the last rows of
\* the file.
CatchesUp ==
  <>[](writing \/ path = 0 \/ rows = Recent(RecordsIn(files[path])))
=============================================================================
