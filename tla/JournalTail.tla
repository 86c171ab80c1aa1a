---------------------------- MODULE JournalTail -----------------------------
(***************************************************************************)
(* The journal's read side, hubread/journal.py, beside the writers of      *)
(* Journal.tla: one JournalTail that follows a dataset while it grows, and *)
(* historical reads of the same files.  A poll is one step per day file,   *)
(* so writers, repairs and crashes fall between the files it reads.        *)
(* Offsets are byte offsets: a line is as wide as its fact.                *)
(***************************************************************************)
EXTENDS Journal, SequencesExt

CONSTANTS Followed,     \* the dataset the tail and the reader open
          Size,         \* bytes of a line, by fact
          Backfills,    \* whether writers may append to older day files
          MaxRestarts   \* bound on restarts of the tail

ASSUME TailAssumption ==
    /\ Followed \in Datasets
    /\ Size \in [Facts -> Nat \ {0}]
    /\ Backfills \in BOOLEAN
    /\ MaxRestarts \in Nat

VARIABLES days,       \* _days: the day files of the last listing, in order
          index,      \* _index: the file being followed, 0 for none yet
          offset,     \* _offset: bytes of it already consumed
          last,       \* last_seq
          skipped,    \* lines given up on
          polling,    \* whether poll is inside its loop
          restarts,   \* how often the tail was restarted
          delivered,  \* the records handed to the consumer, in order
          seen        \* history: every record a historical read returned

tailState == <<days, index, offset, last, skipped, polling, restarts, delivered>>
tailVars == <<vars, tailState, seen>>

-----------------------------------------------------------------------------
Width(line) == IF line.fact = None THEN 1 ELSE Size[line.fact]

(* Where each line of a file ends. *)
Ends(lines) ==
    LET end[i \in 0..Len(lines)] == IF i = 0 THEN 0 ELSE end[i - 1] + Width(lines[i])
    IN end

(* The complete lines behind byte `o`.  Starting inside a line leaves the  *)
(* rest of it, which does not parse.                                       *)
Chunk(lines, o) ==
    LET end   == Ends(lines)
        after == {i \in 1..Len(lines) : end[i] > o}
        first == Len(lines) + 1 - Cardinality(after)
    IN IF after = {} THEN <<>>
       ELSE (IF end[first - 1] < o THEN <<Garbled>> ELSE <<lines[first]>>)
            \o SubSeq(lines, first + 1, Len(lines))

(* Mutant of Consume: a tail that re-reads a file delivers it again. *)
ConsumeAgain(acc, line) ==
    IF line.seq = 0 THEN [acc EXCEPT !.skipped = @ + 1]
    ELSE [acc EXCEPT !.out = Append(@, line), !.last = line.seq]

(* The body of poll's inner loop. *)
Consume(acc, line) ==
    IF line.seq = 0 THEN [acc EXCEPT !.skipped = @ + 1]
    ELSE IF line.seq <= acc.last THEN acc
    ELSE [acc EXCEPT !.out = Append(@, line), !.last = line.seq]

(* poll's inner loop over the lines of a chunk. *)
ConsumeLines(lines) ==
    FoldLeft(Consume, [out |-> delivered, last |-> last, skipped |-> skipped], lines)

(* list_day_files: by name, which is by date. *)
Listing ==
    CHOOSE s \in SetToSeqs(listed[Followed]) : \A i, j \in DOMAIN s : i < j => s[i] < s[j]

TInit ==
    /\ Init
    /\ days = <<>> /\ index = 0 /\ offset = 0
    /\ last = 0 /\ skipped = 0 /\ polling = FALSE
    /\ restarts = 0 /\ delivered = <<>> /\ seen = {}

(* Mutant of RefreshDays: a new tail starts at the newest day file. *)
RefreshDaysNewest ==
    /\ ~polling
    /\ days' = Listing
    /\ index' = IF index = 0 THEN Len(Listing) ELSE index
    /\ polling' = (index' # 0)
    /\ UNCHANGED <<offset, last, skipped, restarts, delivered, seen>>
    /\ UNCHANGED vars

(* poll up to its loop: _refresh_days.  _index and _offset are kept even   *)
(* when the listing has changed under them.                                *)
RefreshDays ==
    /\ ~polling
    /\ days' = Listing
    /\ index' = IF index = 0 /\ Listing # <<>> THEN 1 ELSE index
    /\ polling' = (index' # 0)
    /\ UNCHANGED <<offset, last, skipped, restarts, delivered, seen>>
    /\ UNCHANGED vars

(* Mutant of ReadDay: the unterminated rest of the newest file is consumed *)
(* as if it were a line.                                                   *)
ReadDayUnterminated ==
    /\ polling
    /\ LET lines == file[Followed][days[index]]
           rest  == tail[Followed][days[index]]
           more  == index + 1 <= Len(days)
           got   == ConsumeLines(Chunk(lines, offset)
                                \o (IF rest.kind = "whole" THEN <<rest.line>> ELSE <<>>))
       IN /\ delivered' = got.out
          /\ last' = got.last
          /\ skipped' = got.skipped
          /\ index' = IF more THEN index + 1 ELSE index
          /\ offset' = IF more THEN 0 ELSE Ends(lines)[Len(lines)]
          /\ polling' = more
    /\ UNCHANGED <<days, restarts, seen>>
    /\ UNCHANGED vars

(* Mutant of ReadDay: moving to the next day keeps the old day's offset. *)
ReadDayKeepsOffset ==
    /\ polling
    /\ LET lines == file[Followed][days[index]]
           more  == index + 1 <= Len(days)
           got   == ConsumeLines(Chunk(lines, offset))
       IN /\ delivered' = got.out
          /\ last' = got.last
          /\ skipped' = got.skipped
          /\ index' = IF more THEN index + 1 ELSE index
          /\ offset' = IF Ends(lines)[Len(lines)] > offset
                       THEN Ends(lines)[Len(lines)] ELSE offset
          /\ polling' = more
    /\ UNCHANGED <<days, restarts, seen>>
    /\ UNCHANGED vars

(* Mutant of ReadDay: an unterminated rest is given up on in any file. *)
ReadDayImpatient ==
    /\ polling
    /\ LET lines == file[Followed][days[index]]
           rest  == tail[Followed][days[index]]
           total == Ends(lines)[Len(lines)]
           more  == index + 1 <= Len(days)
           got   == ConsumeLines(Chunk(lines, offset))
       IN /\ delivered' = got.out
          /\ last' = got.last
          /\ skipped' = got.skipped + (IF rest.kind # "none" THEN 1 ELSE 0)
          /\ index' = IF more THEN index + 1 ELSE index
          /\ offset' = IF more THEN 0 ELSE IF total > offset THEN total ELSE offset
          /\ polling' = more
    /\ UNCHANGED <<days, restarts, seen>>
    /\ UNCHANGED vars

(* One turn of poll's loop: read the current day file from the offset to   *)
(* its end, consume its complete lines, and move on if a later file was    *)
(* listed.  A rest without a newline waits on the newest file and counts as*)
(* skipped on an older one.                                                *)
ReadDay ==
    /\ polling
    /\ LET lines == file[Followed][days[index]]
           rest  == tail[Followed][days[index]]
           total == Ends(lines)[Len(lines)]
           more  == index + 1 <= Len(days)
           got   == ConsumeLines(Chunk(lines, offset))
       IN /\ delivered' = got.out
          /\ last' = got.last
          /\ skipped' = got.skipped + (IF more /\ rest.kind # "none" THEN 1 ELSE 0)
          /\ index' = IF more THEN index + 1 ELSE index
          /\ offset' = IF more THEN 0 ELSE IF total > offset THEN total ELSE offset
          /\ polling' = more
    /\ UNCHANGED <<days, restarts, seen>>
    /\ UNCHANGED vars

(* The consumer restarts and opens a new tail where it left off. *)
RestartTail ==
    /\ restarts < MaxRestarts
    /\ restarts' = restarts + 1
    /\ days' = <<>> /\ index' = 0 /\ offset' = 0 /\ skipped' = 0 /\ polling' = FALSE
    /\ UNCHANGED <<last, delivered, seen>>
    /\ UNCHANGED vars

(* Lines of one day file as read_day_file splits them: on newlines, so the *)
(* bytes after the last newline are a line like any other.                 *)
DayLines(y) ==
    IF tail[Followed][y].kind = "none" THEN file[Followed][y]
    ELSE Append(file[Followed][y],
                IF tail[Followed][y].kind = "whole" THEN tail[Followed][y].line ELSE Garbled)

(* read_range over every day: a malformed line raises and returns nothing. *)
ReadRange ==
    /\ \A y \in listed[Followed] : \A i \in DOMAIN DayLines(y) : DayLines(y)[i] # Garbled
    /\ seen' = seen \cup UNION {Range(DayLines(y)) : y \in listed[Followed]}
    /\ UNCHANGED vars
    /\ UNCHANGED tailState

(* A live collector stamps known_at with a clock that only moves forward,  *)
(* so it never opens a day file older than the newest.                     *)
Forward ==
    \A p \in Procs : (phase[p] = "open" /\ phase'[p] = "write") =>
        \A y \in listed[job'[p].ds] : y <= job'[p].day

Write ==
    /\ Next
    /\ Backfills \/ Forward
    /\ UNCHANGED <<tailState, seen>>

TNext == Write \/ RefreshDays \/ ReadDay \/ RestartTail \/ ReadRange

TSpec == TInit /\ [][TNext]_tailVars

(* The consumer keeps polling; the writer promises nothing. *)
LiveTSpec == TSpec /\ WF_tailVars(RefreshDays) /\ WF_tailVars(ReadDay)

-----------------------------------------------------------------------------
(* The records on complete lines. *)
OnDisk == (UNION {Range(file[Followed][y]) : y \in Days}) \ {Garbled}

(* Records are delivered once each, in seq order, over all polls and       *)
(* restarts (JournalTail.poll, hubread/journal.py:109-112).                *)
TailInOrder ==
    \A i, j \in DOMAIN delivered : i < j => delivered[i].seq < delivered[j].seq

(* What was delivered is a fact: a complete line of the journal that no    *)
(* repair took back ("not yet a fact until the newline lands").            *)
DeliveredIsCommitted == Range(delivered) \subseteq OnDisk

(* The tail passes over nothing: every record numbered at or below the last*)
(* one delivered has been delivered ("newly appended records once each",   *)
(* hubread/journal.py:83).                                                 *)
TailMissesNothing == \A r \in OnDisk : r.seq <= last => r \in Range(delivered)

(* With a writer that only moves forward and always repairs first, no line *)
(* is ever given up on, although fragments come and go under the tail.     *)
SkipsNothing == skipped = 0

(* Every committed record reaches the consumer. *)
EverythingIsDelivered ==
    \A s \in 1..MaxSeq :
        (\E r \in OnDisk : r.seq = s) ~> (\E r \in Range(delivered) : r.seq = s)

(* No seq is given again to a record other than the one a reader saw under *)
(* it: a writer "numbers above every record a reader has seen"             *)
(* (hub/journal.py:124-125).                                               *)
NumbersAboveReads ==
    \A r \in seen, w \in OnDisk : r.seq = w.seq => r = w
=============================================================================
