----------------------------- MODULE Scheduler ------------------------------
(* hub/scheduler.py: the daemon's one thread polls every due source in     *)
(* turn, compiles on a slower timer, beats the heartbeat file and sleeps   *)
(* until the next source is due; with what hub/collectors/http.py remembers*)
(* between fetches and what collect_once makes of an answer.               *)
(*                                                                         *)
(* Time is in ticks.  The clock moves only while the daemon fetches,       *)
(* compiles or sleeps, for as long as those may take.                      *)
EXTENDS Integers, FiniteSets, FiniteSetsExt

CONSTANTS
    Count,         \* sources 1..Count, in the registry's order
    Steady,        \* per source, cadence.steady_seconds
    NearEvery,     \* per source, cadence.near_every_seconds; 0 for none
    Before, After, \* per source, the near-event window around an event
    Releases,      \* per source, the effective_at instants its journal holds
    Validators,    \* the sources whose provider sends an ETag or Last-Modified
    Retry,         \* retry_seconds
    AlertAt,       \* failures_before_alert
    Timeout,       \* the longest turn of a source, from its fetch to its last journal line;
                   \* timeout_seconds bounds one socket operation of it, not the whole
    CompileEvery, CompileTime,   \* compile.every_seconds; the longest compile
    BeatEvery,     \* heartbeat_seconds
    Nap, MinNap,   \* the longest and the shortest sleep of _loop: 60 s and 1 s
    Day, Week,     \* how far _known_events looks back and ahead
    Troubles,      \* per source, what may go wrong: "outage", "refusal", "store"
    Fatal,         \* whether anything but a HubError may be raised
    MaxClock,      \* bound on the clock
    MaxDoc         \* bound on a provider's document versions

Sources == 1..Count
Kinds   == {"outage", "refusal", "store"}

ASSUME SchedulerAssumption ==
    /\ Count \in Nat \ {0}
    /\ {Steady, NearEvery, Before, After} \subseteq [Sources -> Nat]
    /\ Releases \in [Sources -> SUBSET Nat]
    /\ {Retry, AlertAt, CompileEvery, BeatEvery, Nap, MinNap} \subseteq Nat \ {0}
    /\ {Timeout, CompileTime, Day, Week, MaxClock, MaxDoc} \subseteq Nat
    /\ MinNap <= Nap
    /\ Troubles \in [Sources -> SUBSET Kinds] /\ Fatal \in BOOLEAN
    /\ Validators \subseteq Sources

VARIABLES
    clock,
    pc,            \* "poll", "compile", "beat", "sleep"; "dead" without a daemon
    now,           \* the instant the current pass began
    due,           \* the sources of this pass still to poll, the lowest first
    src,           \* SourceState, per source
    nextCompile, nextBeat,
    beat,          \* what the heartbeat file says
    doc,           \* external: the version each provider serves
    etag,          \* the version HttpSource would send If-None-Match for, 0 for none
    held,          \* the newest version whose records are journalled
    dry,           \* history: polls in a row without a usable answer
    failed         \* history: the version whose storing raised since the source last collected, or 0

timers  == <<nextCompile, nextBeat>>
content == <<doc, etag, held>>
record  == <<dry, failed>>
vars == <<clock, pc, now, due, src, timers, beat, content, record>>

-----------------------------------------------------------------------------
SourceState == [next_due |-> 0, failures |-> 0, alerted |-> FALSE, last_success |-> 0, events |-> {}]

(* _known_events *)
KnownEvents(s) ==
    IF NearEvery[s] = 0 THEN {}
    ELSE {e \in Releases[s] : clock - Day <= e /\ e <= clock + Week}

Near(s, e, t) == e - Before[s] <= t /\ t <= e + After[s]

(* _interval_for, at time t with the events read before the fetch. *)
IntervalFor(s, events, t) ==
    IF NearEvery[s] > 0 /\ \E e \in events : Near(s, e, t) THEN NearEvery[s] ELSE Steady[s]

DueNow(t) == {s \in Sources : t >= src[s].next_due}

(* A wait of up to `longest`, within the bound. *)
Elapse(shortest, longest) ==
    \E t \in shortest..longest : clock + t <= MaxClock /\ clock' = clock + t

-----------------------------------------------------------------------------
(* Scheduler.run: the writer is opened, the timers are at 0 and the first  *)
(* beat is this process's own.                                             *)
Fresh(t) ==
    /\ pc' = "poll" /\ now' = t /\ due' = Sources
    /\ src' = [s \in Sources |-> SourceState]
    /\ nextCompile' = 0 /\ nextBeat' = 0 /\ beat' = t
    /\ etag' = [s \in Sources |-> 0]

Init ==
    /\ clock = 0 /\ pc = "dead" /\ now = 0 /\ due = {}
    /\ src = [s \in Sources |-> SourceState]
    /\ nextCompile = 0 /\ nextBeat = 0 /\ beat = 0
    /\ doc = [s \in Sources |-> 1] /\ etag = [s \in Sources |-> 0] /\ held = [s \in Sources |-> 0]
    /\ dry = [s \in Sources |-> 0] /\ failed = [s \in Sources |-> 0]

Start ==
    /\ pc = "dead"
    /\ Fresh(clock)
    /\ dry' = [s \in Sources |-> 0] /\ failed' = [s \in Sources |-> 0]
    /\ UNCHANGED <<clock, doc, held>>

(* A provider publishes a new version of its document. *)
Publish(s) ==
    /\ doc[s] < MaxDoc
    /\ doc' = [doc EXCEPT ![s] = @ + 1]
    /\ UNCHANGED <<clock, pc, now, due, src, timers, beat, etag, held, record>>

(* Mutant of Turn: the heartbeat waits for the end of the pass. *)
TurnWithoutBeat(s) ==
    /\ due' = due \ {s}
    /\ pc' = IF due' = {} THEN "compile" ELSE "poll"
    /\ UNCHANGED <<now, timers, beat, doc>>

(* The end of one turn of _poll_due's loop: a beat, and the next source.   *)
Turn(s) ==
    /\ due' = due \ {s}
    /\ pc' = IF due' = {} THEN "compile" ELSE "poll"
    /\ beat' = clock'
    /\ UNCHANGED <<now, timers, doc>>

(* Mutant of Succeeded: the failure count survives a success. *)
SucceededKeepsCount(s) ==
    src' = [src EXCEPT ![s].next_due = now + IntervalFor(s, KnownEvents(s), clock'),
                       ![s].alerted = FALSE, ![s].last_success = now,
                       ![s].events = KnownEvents(s)]

(* collect_once returned: whatever was fetched, the source succeeded. *)
Succeeded(s) ==
    src' = [src EXCEPT ![s] =
              [next_due |-> now + IntervalFor(s, KnownEvents(s), clock'), failures |-> 0,
               alerted |-> FALSE, last_success |-> now, events |-> KnownEvents(s)]]

Polling(s) == pc = "poll" /\ s \in due /\ \A q \in due : s <= q

(* fetch keeps the validators of the document it returns. *)
Remember(s) == etag' = [etag EXCEPT ![s] = IF s \in Validators THEN doc[s] ELSE 0]

(* The provider sends a document; it is parsed, ingested and journalled. *)
Collect(s) ==
    /\ Polling(s) /\ doc[s] # etag[s]
    /\ Elapse(0, Timeout)
    /\ Succeeded(s)
    /\ Remember(s)
    /\ held' = [held EXCEPT ![s] = doc[s]]
    /\ dry' = [dry EXCEPT ![s] = 0] /\ failed' = [failed EXCEPT ![s] = 0]
    /\ Turn(s)

(* 304: fetch returns None. *)
NotModified(s) ==
    /\ Polling(s) /\ doc[s] = etag[s]
    /\ Elapse(0, Timeout)
    /\ Succeeded(s)
    /\ dry' = [dry EXCEPT ![s] = 0]
    /\ UNCHANGED <<etag, held, failed>>
    /\ Turn(s)

(* A timeout, a connection or HTTP error: fetch returns None as well. *)
Outage(s) ==
    /\ Polling(s) /\ "outage" \in Troubles[s]
    /\ Elapse(0, Timeout)
    /\ Succeeded(s)
    /\ dry' = [dry EXCEPT ![s] = IF @ < AlertAt THEN @ + 1 ELSE @]
    /\ UNCHANGED <<etag, held, failed>>
    /\ Turn(s)

(* Mutant of Refusal: the validators are remembered before the checks. *)
RefusalRemembers(s) ==
    /\ Polling(s) /\ "refusal" \in Troubles[s] /\ doc[s] # etag[s]
    /\ Elapse(0, Timeout)
    /\ Succeeded(s)
    /\ dry' = [dry EXCEPT ![s] = IF @ < AlertAt THEN @ + 1 ELSE @]
    /\ Remember(s)
    /\ UNCHANGED <<held, failed>>
    /\ Turn(s)

(* A wrong content type or an empty body is refused before its validators  *)
(* are remembered.                                                         *)
Refusal(s) ==
    /\ Polling(s) /\ "refusal" \in Troubles[s] /\ doc[s] # etag[s]
    /\ Elapse(0, Timeout)
    /\ Succeeded(s)
    /\ dry' = [dry EXCEPT ![s] = IF @ < AlertAt THEN @ + 1 ELSE @]
    /\ UNCHANGED <<etag, held, failed>>
    /\ Turn(s)

(* The document arrived, and parsing or journalling it raised a HubError.  *)
CollectFails(s) ==
    /\ Polling(s) /\ "store" \in Troubles[s] /\ doc[s] # etag[s]
    /\ Elapse(0, Timeout)
    /\ src' = [src EXCEPT ![s] =
                 [next_due |-> now + Retry, failures |-> @.failures + 1,
                  alerted |-> @.alerted \/ @.failures + 1 >= AlertAt,
                  last_success |-> @.last_success, events |-> KnownEvents(s)]]
    /\ Remember(s)
    /\ dry' = [dry EXCEPT ![s] = IF @ < AlertAt THEN @ + 1 ELSE @]
    /\ failed' = [failed EXCEPT ![s] = doc[s]]
    /\ UNCHANGED held
    /\ Turn(s)

(* Any other exception (a body that is no JSON, a full disk) leaves run,   *)
(* whose finally closes the writer.                                        *)
Die(s) ==
    /\ Polling(s) /\ Fatal
    /\ pc' = "dead"
    /\ UNCHANGED <<clock, now, due, src, timers, beat, content, record>>

(* Nothing was due: _poll_due returned at once. *)
NothingDue ==
    /\ pc = "poll" /\ due = {}
    /\ pc' = "compile"
    /\ UNCHANGED <<clock, now, due, src, timers, beat, content, record>>

(* compile_all, when its timer has run out; a HubError is only logged. *)
Compile ==
    /\ pc = "compile"
    /\ IF now >= nextCompile
       THEN Elapse(0, CompileTime) /\ nextCompile' = now + CompileEvery
       ELSE UNCHANGED <<clock, nextCompile>>
    /\ pc' = "beat"
    /\ UNCHANGED <<now, due, src, nextBeat, beat, content, record>>

(* ... any other exception (a manifest.json that is no JSON) is not caught. *)
CompileDies ==
    /\ pc = "compile" /\ now >= nextCompile /\ Fatal
    /\ pc' = "dead"
    /\ UNCHANGED <<clock, now, due, src, timers, beat, content, record>>

Beat ==
    /\ pc = "beat"
    /\ IF now >= nextBeat
       THEN beat' = clock /\ nextBeat' = now + BeatEvery
       ELSE UNCHANGED <<beat, nextBeat>>
    /\ pc' = "sleep"
    /\ UNCHANGED <<clock, now, due, src, nextCompile, content, record>>

(* Mutant of Wait: the longest sleep, whoever is due. *)
WaitFull == Nap

(* How long _loop sleeps. *)
Soonest == Min({src[s].next_due : s \in Sources})
Wait == Max({MinNap, Min({Soonest - clock, Nap})})

(* _loop sleeps until the soonest source is due, and begins its next pass. *)
Sleep ==
    /\ pc = "sleep"
    /\ Elapse(Wait, Wait)
    /\ now' = clock'
    /\ due' = DueNow(clock')
    /\ pc' = "poll"
    /\ UNCHANGED <<src, timers, beat, content, record>>

Next ==
    \/ Start \/ NothingDue \/ Compile \/ CompileDies \/ Beat \/ Sleep
    \/ \E s \in Sources : \/ Publish(s)
                          \/ Collect(s) \/ NotModified(s) \/ Outage(s) \/ Refusal(s)
                          \/ CollectFails(s) \/ Die(s)

Spec == Init /\ [][Next]_vars

-----------------------------------------------------------------------------
(* While the daemon lives the heartbeat it replaces is no older than a     *)
(* beat's period, the sleep that may overrun it, one compile, and a fetch  *)
(* or one compile more: however many sources a pass has, none of them sums *)
(* up (hub/scheduler.py:148-150, "A first pass over every dataset takes    *)
(* minutes").                                                              *)
Interval(s) == Max({Steady[s], NearEvery[s], Retry})
LongestNap  == Max({MinNap, Min({Nap} \cup {Interval(s) : s \in Sources})})
BeatAge     == BeatEvery - 1 + LongestNap + CompileTime + Max({CompileTime, Timeout})
HeartbeatIsRecent == [][pc # "dead" => clock' - beat <= BeatAge]_vars

(* A source that comes due is polled within the rest of the running pass,  *)
(* one compile, the shortest sleep and the others' turns of the next pass, *)
(* whatever fails.  The running pass may have polled the source itself, at *)
(* least Soon before it comes due again, or only the others, any time      *)
(* before.                                                                 *)
Soon     == Min({Retry} \cup {Steady[s] : s \in Sources} \cup ({NearEvery[s] : s \in Sources} \ {0}))
Lateness == 2 * (Count - 1) * Timeout + CompileTime + MinNap + Max({Timeout - Soon, -1})
PolledInTime ==
    [][\A s \in Sources : (Polling(s) /\ due' # due /\ src[s].next_due # 0) =>
         clock - src[s].next_due <= Lateness]_vars

(* The alert is up exactly while the failures since the last success reach *)
(* the threshold, across retries and successes (hub/scheduler.py:132-147). *)
AlertMatchesFailures == \A s \in Sources : src[s].alerted = (src[s].failures >= AlertAt)

(* A 304 is believed only for a document that was taken in: its records    *)
(* are journalled, or storing it raised in this daemon, was counted as a   *)
(* failure and the source has collected nothing since (hub/collectors/     *)
(* http.py:9-10 and 93).  A page refused or lost on the way is asked for   *)
(* again.                                                                  *)
UnchangedWasTaken ==
    [][\A s \in Sources : (NotModified(s) /\ due' # due) => doc[s] \in {held[s], failed[s]}]_vars

(* A 304 is believed only for a document whose records are journalled.     *)
UnchangedMeansHeld ==
    [][\A s \in Sources : (NotModified(s) /\ due' # due) => held[s] = doc[s]]_vars

(* A source waits no longer than one near-event interval inside the window *)
(* of an event it knows (hub/scheduler.py:5-8).                            *)
TightensNearEvents ==
    pc = "sleep" => \A s \in Sources : \A e \in Releases[s] :
        (NearEvery[s] > 0 /\ Near(s, e, clock)) => src[s].next_due <= clock + NearEvery[s]

(* A fetch without an answer is retried after retry_seconds at the latest  *)
(* (hub/collectors/http.py:63-64, "retry sooner").                         *)
OutageIsRetriedSooner ==
    [][\A s \in Sources : (Outage(s) /\ dry'[s] > dry[s]) => src'[s].next_due <= now + Retry]_vars

(* A source that keeps failing to answer is alerted at the threshold       *)
(* (docs/OPERATIONS.md:30).                                                *)
OutageIsAlerted == \A s \in Sources : dry[s] >= AlertAt => src[s].alerted

(* A dead provider never delays another (hub/scheduler.py:3-4). *)
NeverDelaysAnother ==
    [][\A s, q \in Sources :
         (Polling(s) /\ due' # due /\ src[s].next_due # 0 /\ q # s /\ dry[q] > 0) =>
             clock - src[s].next_due <= MinNap]_vars

(* No source takes the daemon down (hub/scheduler.py:4-5). *)
DaemonSurvives == [][pc # "dead" => pc' # "dead"]_vars
=============================================================================
