---------------------------- MODULE Diagnostics ----------------------------
(***************************************************************************)
(* The error diagnostics of the Proxy in shared mode: every replica writes *)
(* its own rotating files on a volume all replicas list, and a clear is a  *)
(* cutoff time in a shared marker.  A replica serializes its own calls;    *)
(* the steps of different replicas interleave between two file operations. *)
(* A file is a sequence of blocks, in the order they were appended.        *)
(***************************************************************************)
EXTENDS Integers, Sequences, FiniteSets, FiniteSetsExt

CONSTANTS
  Writers,      \* the replicas, in the order their directories are listed: 1..n
  Readers,      \* the replicas the console asks for the list
  MaxFiles,     \* options.maxFiles
  FileBlocks,   \* options.maxFileBytes, in blocks of one size
  Redact,       \* options.redacted
  Bodies,       \* bodies of requests and answers: type, encoding, bytes, parses
  CaptureLimit, \* RESPONSE_CAPTURE_LIMIT
  MaxFailures,  \* bound: recorded failures
  MaxTicks,     \* bound: the clock
  MaxFaults     \* bound: crashes and disk errors

ASSUME DiagnosticsAssumption ==
  /\ MaxFiles \in Nat \ {0} /\ FileBlocks \in Nat \ {0} /\ Redact \in BOOLEAN
  /\ MaxFailures \in Nat /\ MaxTicks \in Nat /\ MaxFaults \in Nat
  /\ IsFiniteSet(Writers) /\ Writers = 1..Cardinality(Writers)

VARIABLES
  files,     \* the files of each replica, <<>>: it does not exist
  cutoff,    \* diagnostics.clear-cutoff.json, 0: it does not exist
  job,       \* what each replica's queue is at
  time,      \* the clock
  failures,  \* failures so far, the ids of the records
  written,   \* ghost: records whose append has returned
  faults,    \* ghost: the replicas that lost a step, with the number of faults
  cleared,   \* ghost: the latest cutoff of a clear that returned
  crossed    \* ghost: two clears have overlapped

diagVars == <<files, cutoff, job, time, failures, written, faults, cleared, crossed>>

Places == 0..(MaxFiles - 1)
NoJob == [op |-> "idle"]
TornBlock == [id |-> 0]
NewLine == [id |-> -1]

DiagInit ==
  /\ files = [w \in Writers |-> [i \in Places |-> <<>>]]
  /\ cutoff = 0 /\ job = [w \in Writers |-> NoJob]
  /\ time = 1 /\ failures = 0 /\ written = {}
  /\ faults = [at |-> {}, count |-> 0] /\ cleared = 0 /\ crossed = FALSE

-----------------------------------------------------------------------------
(* DiagnosticBodyCapture: the first bytes of an answer are kept, all are
   counted. *)
Captured(body, complete) ==
  [body EXCEPT !.truncated = body.bytes > CaptureLimit, !.complete = complete]

(* The bodies of a record: recordHttpFailure() has the answer's body,
   recordStreamFailure() the part that came, recordFetchFailure() none.  A
   request's body is there as a whole. *)
BodiesOf(kind, request, response) ==
  {[request EXCEPT !.complete = TRUE, !.truncated = FALSE]} \cup
  CASE kind = "http"   -> {Captured(response, TRUE)}
    [] kind = "stream" -> {Captured(response, FALSE)}
    [] kind = "fetch"  -> {}

(* bodyDto(): what of a captured body is stored.  Without redaction all of it;
   with it only a whole JSON body that could be parsed. *)
BodyForm(body) ==
  CASE ~Redact -> IF body.type # "binary" /\ ~body.encoded THEN "utf8" ELSE "base64"
    [] Redact /\ (~body.complete \/ body.truncated) -> "unavailable"
    [] Redact /\ body.complete /\ ~body.truncated /\ body.type # "json" -> "unavailable"
    [] OTHER -> IF body.parses THEN "redacted" ELSE "unavailable"

(* Stored in the clear, or redacted although only a part was there. *)
Leaks(body) ==
  \/ BodyForm(body) \in {"utf8", "base64"}
  \/ BodyForm(body) = "redacted" /\ (body.truncated \/ ~body.complete)

(* persistRecord(): the record's time is taken before it waits for its turn. *)
DiagRecord(w, bodies) ==
  [id |-> failures + 1, at |-> time, of |-> w, leaks |-> \E b \in bodies : Leaks(b)]

(* parseDiagnosticLog(): blocks that begin on a line of their own and have
   their end marker. *)
Parsed(file) ==
  {file[i] : i \in {j \in DOMAIN file : /\ file[j].id > 0
                                        /\ j > 1 => file[j - 1].id # 0}}

KeptFiles(w) == UNION {Parsed(files[w][i]) : i \in Places}
AllKept == UNION {KeptFiles(w) : w \in Writers}

SetJob(w, next) == job' = [job EXCEPT ![w] = next]

-----------------------------------------------------------------------------
(* append(): is the active file full? *)
StartAppend(w) ==
  /\ job[w].op = "idle" /\ failures < MaxFailures
  /\ failures' = failures + 1
  /\ \E kind \in {"http", "fetch", "stream"}, request \in Bodies, response \in Bodies :
       SetJob(w, [op |-> IF Len(files[w][0]) >= FileBlocks THEN "rotate" ELSE "write",
                  rec |-> DiagRecord(w, BodiesOf(kind, request, response)),
                  place |-> MaxFiles - 1])
  /\ UNCHANGED <<files, cutoff, time, written, faults, cleared, crossed>>

(* rotate(): the oldest file goes, then every file moves one place, the oldest
   first; each is a file operation of its own. *)
Rotate(w) ==
  /\ job[w].op = "rotate"
  /\ LET p == job[w].place IN
       files' = [files EXCEPT ![w] =
         IF p = MaxFiles - 1 THEN [@ EXCEPT ![p] = <<>>]
         ELSE IF files[w][p] = <<>> THEN @
         ELSE [@ EXCEPT ![p + 1] = files[w][p], ![p] = <<>>]]
  /\ SetJob(w, IF job[w].place = 0 THEN [job[w] EXCEPT !.op = "write"]
               ELSE [job[w] EXCEPT !.place = @ - 1])
  /\ UNCHANGED <<cutoff, time, failures, written, faults, cleared, crossed>>

(* endsWithNewline(): a torn tail is closed with a line break. *)
Prefix(file) ==
  IF file # <<>> /\ file[Len(file)].id = 0 THEN <<NewLine>> ELSE <<>>

Write(w) ==
  /\ job[w].op = "write"
  /\ files' = [files EXCEPT ![w][0] = @ \o Prefix(@) \o <<job[w].rec>>]
  /\ written' = written \cup {job[w].rec}
  /\ SetJob(w, NoJob)
  /\ UNCHANGED <<cutoff, time, failures, faults, cleared, crossed>>

(* The process dies or the disk refuses; persistRecord() only logs the latter.
   Part of the block may be on the disk. *)
DiagDies(w) ==
  /\ faults.count < MaxFaults /\ job[w].op \in {"rotate", "write", "mark", "remove"}
  /\ faults' = [at |-> IF job[w].op \in {"rotate", "write"} THEN faults.at \cup {w} ELSE faults.at,
                count |-> faults.count + 1]
  /\ \/ UNCHANGED files
     \/ /\ job[w].op = "write"
        /\ files' = [files EXCEPT ![w][0] = @ \o Prefix(@) \o <<TornBlock>>]
  /\ SetJob(w, NoJob)
  /\ UNCHANGED <<cutoff, time, failures, written, cleared, crossed>>

-----------------------------------------------------------------------------
(* snapshot(): the cutoff, then every file of every replica. *)
StartList(w) ==
  /\ job[w].op = "idle" /\ w \in Readers
  /\ SetJob(w, [op |-> "list", dir |-> 1, place |-> 0, cut |-> cutoff, items |-> {},
                begun |-> AllKept, cleared |-> cleared])
  /\ UNCHANGED <<files, cutoff, time, failures, written, faults, cleared, crossed>>

(* recordAtOrBeforeCutoff() *)
Hidden(rec, cut) == cut # 0 /\ rec.at <= cut

(* Mutant: the oldest file is read first. *)
PlaceFromOldest(n) == MaxFiles - 1 - n
PlaceAt(n) == n

(* visitSharedRecords(): one file after the other, newest file first. *)
ListFile(w) ==
  LET j == job[w] IN
  /\ j.op = "list"
  /\ LET seen == j.items \cup {r \in Parsed(files[j.dir][PlaceAt(j.place)]) : ~Hidden(r, j.cut)}
     IN SetJob(w, IF j.place < MaxFiles - 1
                  THEN [j EXCEPT !.items = seen, !.place = @ + 1]
                  ELSE IF j.dir < Cardinality(Writers)
                       THEN [j EXCEPT !.items = seen, !.place = 0, !.dir = @ + 1]
                       ELSE [j EXCEPT !.items = seen, !.op = "listed"])
  /\ UNCHANGED <<files, cutoff, time, failures, written, faults, cleared, crossed>>

(* The answer is on its way. *)
Listed(w) ==
  /\ job[w].op = "listed" /\ SetJob(w, NoJob)
  /\ UNCHANGED <<files, cutoff, time, failures, written, faults, cleared, crossed>>

-----------------------------------------------------------------------------
Clearing == {w \in Writers : job[w].op \in {"mark", "remove"}}

(* clear(): the time is taken, the marker replaced by a rename, and the own
   files removed one by one.  The files of the others stay. *)
StartClear(w) ==
  /\ job[w].op = "idle" /\ cleared < time
  /\ SetJob(w, [op |-> "mark", cut |-> time, place |-> 0])
  /\ crossed' = (crossed \/ Clearing # {})
  /\ UNCHANGED <<files, cutoff, time, failures, written, faults, cleared>>

MarkCleared(w) ==
  /\ job[w].op = "mark"
  /\ cutoff' = job[w].cut
  /\ SetJob(w, [job[w] EXCEPT !.op = "remove"])
  /\ UNCHANGED <<files, time, failures, written, faults, cleared, crossed>>

RemoveFile(w) ==
  /\ job[w].op = "remove"
  /\ files' = [files EXCEPT ![w][job[w].place] = <<>>]
  /\ IF job[w].place < MaxFiles - 1
     THEN SetJob(w, [job[w] EXCEPT !.place = @ + 1]) /\ UNCHANGED cleared
     ELSE /\ SetJob(w, NoJob)
          /\ cleared' = Max({cleared, job[w].cut})
  /\ UNCHANGED <<cutoff, time, failures, written, faults, crossed>>

DiagTick ==
  /\ time < MaxTicks /\ time' = time + 1
  /\ UNCHANGED <<files, cutoff, job, failures, written, faults, cleared, crossed>>

DiagNext ==
  \/ DiagTick
  \/ \E w \in Writers :
       \/ StartAppend(w) \/ Rotate(w) \/ Write(w) \/ DiagDies(w)
       \/ StartList(w) \/ ListFile(w) \/ Listed(w)
       \/ StartClear(w) \/ MarkCleared(w) \/ RemoveFile(w)

DiagSpec == DiagInit /\ [][DiagNext]_diagVars

-----------------------------------------------------------------------------
(* The newest records of a replica that lost no step are on the disk: a
   rotation costs the oldest file only, at each of its steps (rotate). *)
NewestAreKept ==
  \A w \in Writers \ faults.at :
    LET mine == {r \in written : r.of = w /\ r.at > cutoff}
        newest == {r \in mine : Cardinality({s \in mine : s.id > r.id}) < (MaxFiles - 1) * FileBlocks}
    IN w \notin Clearing /\ ~crossed => newest \subseteq KeptFiles(w)

(* A crash in the middle of a block does not cost the block after it
   (append, endsWithNewline, parseDiagnosticLog). *)
WrittenAreReadable ==
  \A w \in Writers, i \in Places :
    \A n \in DOMAIN files[w][i] :
      files[w][i][n] \in written => files[w][i][n] \in Parsed(files[w][i])

(* A list that runs while other replicas rotate misses no record that was there
   when it began and still is (visitSharedRecords against rotate). *)
ListsAreComplete ==
  \A w \in Writers : job[w].op = "listed" =>
    \A r \in job[w].begun \cap AllKept : ~Hidden(r, job[w].cut) => r \in job[w].items

(* Nothing a finished clear removed is listed again, not even a record whose
   time was taken before the clear and that was written after it.  Unless two
   clears overlapped: the marker is then the one that was renamed last. *)
ClearedStayCleared ==
  \A w \in Writers : job[w].op = "listed" /\ ~crossed =>
    \A r \in job[w].items : r.at > job[w].cleared

(* With redaction no body is stored in the clear, nor a redacted part of one. *)
SecretsAreRedacted ==
  Redact => \A r \in written : ~r.leaks

(* Replicas that write, rotate, list and clear one volume lose nothing the
   operator should see and show nothing he should not. *)
DiagnosticsAreSafe ==
  /\ NewestAreKept /\ WrittenAreReadable /\ ListsAreComplete
  /\ ClearedStayCleared /\ SecretsAreRedacted
=============================================================================
