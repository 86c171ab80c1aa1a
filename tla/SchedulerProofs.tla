--------------------------- MODULE SchedulerProofs --------------------------
(***************************************************************************)
(* Machine-checked proofs about Scheduler.tla, for every number of sources,*)
(* every cadence, timeout and period, and every bound.                     *)
(***************************************************************************)
EXTENDS Scheduler, FiniteSetTheorems, WellFoundedInduction, TLAPS

(* The least of a set of naturals. *)
LEMMA MinOfNats ==
    ASSUME NEW S \in SUBSET Nat, S # {}
    PROVE  Min(S) \in S /\ \A y \in S : Min(S) <= y
  <1> DEFINE Less == {ss \in Nat \X Nat : ss[1] < ss[2]}
  <1>1. IsWellFoundedOn(Less, Nat)
    BY NatLessThanWellFounded DEF OpToRel
  <1>2. PICK x \in S : \A y \in S : ~(<<y, x>> \in Less)
    <2> HIDE DEF Less
    <2> QED
      BY <1>1, WFMin
  <1>3. ASSUME NEW y \in S
        PROVE  x <= y
    <2>1. x \in Nat /\ y \in Nat /\ <<y, x>> \in Nat \X Nat
      OBVIOUS
    <2>2. ~(y < x)
      BY <1>2, <2>1
    <2> QED
      BY <2>1, <2>2
  <1> QED
    BY <1>3 DEF Min

(* The lesser and the greater of two integers. *)
LEMMA MinMaxOfTwo ==
    ASSUME NEW a \in Int, NEW b \in Int
    PROVE  /\ Min({a, b}) \in Int /\ Min({a, b}) \in {a, b} /\ Min({a, b}) <= a /\ Min({a, b}) <= b
           /\ Max({a, b}) \in Int /\ Max({a, b}) \in {a, b} /\ Max({a, b}) >= a /\ Max({a, b}) >= b
  <1>1. \E x \in {a, b} : \A y \in {a, b} : x <= y
    OBVIOUS
  <1>2. \E x \in {a, b} : \A y \in {a, b} : x >= y
    OBVIOUS
  <1> QED
    BY <1>1, <1>2 DEF Min, Max

(* The greatest of three naturals. *)
LEMMA MaxOfThree ==
    ASSUME NEW a \in Nat, NEW b \in Nat, NEW c \in Nat
    PROVE  /\ Max({a, b, c}) \in Nat
           /\ Max({a, b, c}) >= a /\ Max({a, b, c}) >= b /\ Max({a, b, c}) >= c
  <1>1. \E x \in {a, b, c} : \A y \in {a, b, c} : x >= y
    OBVIOUS
  <1> QED
    BY <1>1 DEF Max

-----------------------------------------------------------------------------
SourceStates ==
    [next_due : Nat, failures : Nat, alerted : BOOLEAN, last_success : Nat, events : SUBSET Nat]

TypeInv ==
    /\ clock \in Nat /\ now \in Nat /\ beat \in Nat
    /\ nextCompile \in Nat /\ nextBeat \in Nat
    /\ pc \in {"poll", "compile", "beat", "sleep", "dead"}
    /\ due \subseteq Sources
    /\ src \in [Sources -> SourceStates]
    /\ doc \in [Sources -> Nat] /\ etag \in [Sources -> Nat] /\ held \in [Sources -> Nat]

(* The fields of a source's state. *)
LEMMA SourceFields ==
    ASSUME TypeInv, NEW s \in Sources
    PROVE  /\ src[s] \in SourceStates
           /\ src[s].next_due \in Nat /\ src[s].failures \in Nat /\ src[s].alerted \in BOOLEAN
  <1>1. src[s] \in SourceStates
    BY DEF TypeInv
  <1> QED
    BY <1>1 DEF SourceStates

(* The constants, one by one. *)
LEMMA ConstantTypes ==
    /\ Count \in Nat /\ Count >= 1
    /\ Steady \in [Sources -> Nat] /\ NearEvery \in [Sources -> Nat]
    /\ Retry \in Nat /\ AlertAt \in Nat /\ AlertAt >= 1 /\ BeatEvery \in Nat /\ BeatEvery >= 1
    /\ CompileEvery \in Nat /\ Nap \in Nat /\ MinNap \in Nat /\ MinNap >= 1
    /\ Timeout \in Nat /\ CompileTime \in Nat
    /\ Releases \in [Sources -> SUBSET Nat]
  BY SchedulerAssumption

(* The shortest interval is no longer than any interval a poll sets, and   *)
(* Interval is no shorter.                                                 *)
LEMMA Intervals ==
    /\ Soon \in Nat /\ Soon <= Retry
    /\ \A s \in Sources : /\ Interval(s) \in Nat /\ Retry <= Interval(s)
                          /\ \A events, t : /\ IntervalFor(s, events, t) \in Nat
                                            /\ Soon <= IntervalFor(s, events, t)
                                            /\ IntervalFor(s, events, t) <= Interval(s)
  <1> DEFINE all == {Retry} \cup {Steady[s] : s \in Sources} \cup ({NearEvery[s] : s \in Sources} \ {0})
  <1>1. all \in SUBSET Nat /\ all # {}
    BY ConstantTypes
  <1>2. Soon \in all /\ \A y \in all : Soon <= y
    BY <1>1, MinOfNats DEF Soon
  <1>3. Soon \in Nat /\ Soon <= Retry
    BY <1>1, <1>2
  <1>4. ASSUME NEW s \in Sources
        PROVE  /\ Interval(s) \in Nat /\ Retry <= Interval(s)
               /\ Steady[s] <= Interval(s) /\ NearEvery[s] <= Interval(s)
    BY MaxOfThree, ConstantTypes DEF Interval
  <1>5. ASSUME NEW s \in Sources, NEW events, NEW t
        PROVE  /\ IntervalFor(s, events, t) \in {Steady[s], NearEvery[s]}
               /\ IntervalFor(s, events, t) \in all /\ IntervalFor(s, events, t) \in Nat
    BY ConstantTypes DEF IntervalFor
  <1> QED
    BY <1>2, <1>3, <1>4, <1>5

-----------------------------------------------------------------------------
(* One turn of _poll_due's loop for source s, whatever the fetch gave. *)
Polled(s) ==
    /\ Polling(s)
    /\ \E t \in 0..Timeout : clock' = clock + t
    /\ \E n \in SourceStates :
         /\ src' = [src EXCEPT ![s] = n]
         /\ now + Soon <= n.next_due /\ n.next_due <= now + Interval(s)
         /\ src[s].alerted = (src[s].failures >= AlertAt) => n.alerted = (n.failures >= AlertAt)
    /\ Turn(s)

(* The six outcomes of a poll are turns of the loop. *)
LEMMA PollsAreTurns ==
    ASSUME TypeInv, NEW s \in Sources,
           Collect(s) \/ NotModified(s) \/ Outage(s) \/ Refusal(s) \/ CollectFails(s)
    PROVE  Polled(s)
  <1>1. Polling(s) /\ Turn(s) /\ Elapse(0, Timeout)
    BY DEF Collect, NotModified, Outage, Refusal, CollectFails
  <1>2. \E t \in 0..Timeout : clock' = clock + t
    BY <1>1 DEF Elapse
  <1>3. KnownEvents(s) \in SUBSET Nat
    BY ConstantTypes DEF KnownEvents
  <1>4. CASE Succeeded(s)
    <2> DEFINE wait == IntervalFor(s, KnownEvents(s), clock')
               n == [next_due |-> now + wait, failures |-> 0,
                     alerted |-> FALSE, last_success |-> now, events |-> KnownEvents(s)]
    <2>1. wait \in Nat /\ Soon <= wait /\ wait <= Interval(s) /\ Soon \in Nat /\ Interval(s) \in Nat
      BY Intervals
    <2>2. src' = [src EXCEPT ![s] = n]
      BY <1>4 DEF Succeeded
    <2> HIDE DEF wait
    <2>3. n \in SourceStates
      BY <1>3, <2>1 DEF TypeInv, SourceStates
    <2>4. now + Soon <= n.next_due /\ n.next_due <= now + Interval(s)
      BY <2>1 DEF TypeInv
    <2>5. n.alerted = (n.failures >= AlertAt)
      <3>1. n.alerted = FALSE /\ n.failures = 0
        OBVIOUS
      <3>2. (0 >= AlertAt) = FALSE
        BY ConstantTypes
      <3> HIDE DEF n
      <3> QED
        BY <3>1, <3>2
    <2> HIDE DEF n
    <2> QED
      BY <1>1, <1>2, <2>2, <2>3, <2>4, <2>5 DEF Polled
  <1>5. CASE CollectFails(s)
    <2> DEFINE n == [next_due |-> now + Retry, failures |-> src[s].failures + 1,
                     alerted |-> src[s].alerted \/ src[s].failures + 1 >= AlertAt,
                     last_success |-> src[s].last_success, events |-> KnownEvents(s)]
    <2>1. src[s] \in SourceStates
      BY DEF TypeInv
    <2>2. src' = [src EXCEPT ![s] = n]
      BY <1>5 DEF CollectFails, TypeInv
    <2>3. n \in SourceStates
      BY <1>3, <2>1, ConstantTypes DEF TypeInv, SourceStates
    <2>4. now + Soon <= n.next_due /\ n.next_due <= now + Interval(s)
      BY <2>1, ConstantTypes, Intervals DEF TypeInv, SourceStates
    <2>5. src[s].alerted = (src[s].failures >= AlertAt) => n.alerted = (n.failures >= AlertAt)
      BY <2>1, ConstantTypes DEF SourceStates
    <2> HIDE DEF n
    <2> QED
      BY <1>1, <1>2, <2>2, <2>3, <2>4, <2>5 DEF Polled
  <1> QED
    BY <1>4, <1>5 DEF Collect, NotModified, Outage, Refusal

-----------------------------------------------------------------------------
(* The longest that polling the sources of d takes, and the longest that   *)
(* every source but one takes.                                             *)
Turns(d) == Cardinality(d) * Timeout
Others   == (Count - 1) * Timeout

(* How far a source's due time may be behind the clock when a pass has     *)
(* polled its last source.                                                 *)
Slip   == Max({Timeout - Soon, -1})
Behind == Others + Slip

(* The greater of the two ways to fall behind. *)
LEMMA SlipType ==
    Slip \in Int /\ Slip >= Timeout - Soon /\ Slip >= -1
  <1>1. Timeout - Soon \in Int /\ -1 \in Int
    BY ConstantTypes, Intervals
  <1> QED
    BY <1>1, MinMaxOfTwo DEF Slip

(* Products by the timeout. *)
LEMMA Products ==
    ASSUME NEW a \in Nat, NEW b \in Nat, NEW t \in Nat
    PROVE  /\ a * t \in Nat /\ (a + 1) * t = a * t + t
           /\ 2 * a * t = a * t + a * t
           /\ a <= b => a * t <= b * t
  OBVIOUS

(* What is left of a pass, one source less at a time. *)
LEMMA TurnsFacts ==
    /\ Others \in Nat
    /\ Turns({}) = 0
    /\ \A d \in SUBSET Sources :
         /\ Turns(d) \in Nat /\ Turns(d) <= Others + Timeout
         /\ \A s \in Sources \ d : Turns(d) <= Others
         /\ \A s \in d : Turns(d) >= Timeout /\ Turns(d \ {s}) = Turns(d) - Timeout
  <1>1. IsFiniteSet(Sources) /\ Cardinality(Sources) = Count /\ Count - 1 \in Nat
    BY FS_Interval, ConstantTypes DEF Sources
  <1>2. Others \in Nat /\ Count * Timeout = Others + Timeout
    BY <1>1, ConstantTypes, Products DEF Others
  <1>3. Turns({}) = 0
    BY FS_EmptySet, ConstantTypes DEF Turns
  <1>4. ASSUME NEW d \in SUBSET Sources
        PROVE  /\ IsFiniteSet(d) /\ Cardinality(d) \in Nat /\ Turns(d) \in Nat
               /\ Turns(d) <= Others + Timeout
    <2>1. IsFiniteSet(d) /\ Cardinality(d) \in Nat /\ Cardinality(d) <= Count
      BY <1>1, FS_Subset, FS_CardinalityType
    <2> QED
      BY <1>2, <2>1, ConstantTypes, Products DEF Turns
  <1>5. ASSUME NEW d \in SUBSET Sources, NEW s \in Sources \ d
        PROVE  Turns(d) <= Others
    <2>1. IsFiniteSet(Sources \ {s}) /\ Cardinality(Sources \ {s}) = Count - 1
      BY <1>1, FS_RemoveElement
    <2>2. Cardinality(d) <= Count - 1
      BY <2>1, FS_Subset
    <2> QED
      BY <1>1, <1>4, <2>2, ConstantTypes, Products DEF Turns, Others
  <1>6. ASSUME NEW d \in SUBSET Sources, NEW s \in d
        PROVE  Turns(d) >= Timeout /\ Turns(d \ {s}) = Turns(d) - Timeout
    <2> DEFINE m == Cardinality(d \ {s})
    <2>1. Cardinality(d) = m + 1 /\ m \in Nat
      <3>1. m = Cardinality(d) - 1 /\ IsFiniteSet(d \ {s})
        BY <1>4, FS_RemoveElement
      <3>2. m \in Nat
        BY <3>1, FS_CardinalityType
      <3> QED
        BY <1>4, <3>1, <3>2
    <2> HIDE DEF m
    <2>2. (m + 1) * Timeout = m * Timeout + Timeout /\ m * Timeout \in Nat
      BY <2>1, ConstantTypes, Products
    <2> QED
      BY <2>1, <2>2, ConstantTypes DEF Turns, m
  <1> QED
    BY <1>2, <1>3, <1>4, <1>5, <1>6

-----------------------------------------------------------------------------
(* How old the heartbeat may be at the end of a sleep. *)
Asleep == BeatEvery - 1 + CompileTime + LongestNap

(* The heartbeat in each phase of a pass: the turns of _poll_due renew it, *)
(* and a pass that polls nothing takes no longer than its compile.         *)
BeatInv ==
    /\ now <= clock
    /\ \A s \in Sources : src[s].next_due <= now + Interval(s)
    /\ pc # "dead" => beat <= clock /\ nextBeat <= beat + BeatEvery
    /\ pc \in {"poll", "compile"} => beat = clock \/ (clock = now /\ now - beat <= Asleep)
    /\ pc = "beat" => \/ clock - beat <= CompileTime
                      \/ clock - now <= CompileTime /\ now - beat <= Asleep
    /\ pc = "sleep" => clock - beat <= BeatEvery - 1 + CompileTime

(* How far behind each source is in each phase of a pass: a source this    *)
(* pass has polled is due Soon after the pass began at the earliest; one it*)
(* skips leaves a turn less to wait for.                                   *)
LateInv ==
    /\ pc = "poll" =>
         /\ clock + Turns(due) <= now + Others + Timeout
         /\ \A s \in Sources \ due :
              \/ now + Soon <= src[s].next_due
              \/ now + 1 <= src[s].next_due /\ clock + Turns(due) <= now + Others
         /\ \A s \in due : src[s].next_due # 0 =>
              now - src[s].next_due <= Behind + CompileTime + MinNap
    /\ pc \notin {"poll", "dead"} => due = {}
    /\ pc = "compile" => \A s \in Sources : clock - src[s].next_due <= Behind
    /\ pc \in {"beat", "sleep"} => \A s \in Sources : clock - src[s].next_due <= Behind + CompileTime

(* The sleep of _loop ends at the latest when the soonest source is due, or*)
(* after the shortest nap, and takes no longer than LongestNap.            *)
LEMMA WaitFacts ==
    ASSUME TypeInv, BeatInv
    PROVE  /\ Wait \in Nat /\ Wait <= LongestNap /\ LongestNap \in Nat
           /\ \A s \in Sources : Wait <= MinNap \/ clock + Wait <= src[s].next_due
  <1> DEFINE dues == {src[s].next_due : s \in Sources}
             naps == {Nap} \cup {Interval(s) : s \in Sources}
  <1>1. dues \in SUBSET Nat /\ dues # {}
    <2>1. 1 \in Sources
      BY ConstantTypes DEF Sources
    <2> QED
      BY <2>1, SourceFields
  <1>2. Soonest \in Nat /\ \A s \in Sources : Soonest <= src[s].next_due
    <2>1. Soonest = Min(dues) /\ \A s \in Sources : src[s].next_due \in dues
      BY DEF Soonest
    <2> HIDE DEF dues
    <2>2. Min(dues) \in dues /\ \A y \in dues : Min(dues) <= y
      BY <1>1, MinOfNats
    <2> QED
      BY <1>1, <2>1, <2>2
  <1>3. naps \in SUBSET Nat /\ naps # {}
    BY ConstantTypes, Intervals
  <1>4. Min(naps) \in naps
    BY <1>3, MinOfNats
  <1> DEFINE a == Min({Soonest - clock, Nap})
             b == Min(naps)
  <1>5. a \in Int /\ a <= Soonest - clock /\ a <= Nap
    <2>1. Soonest - clock \in Int /\ Nap \in Int
      BY <1>2, ConstantTypes DEF TypeInv
    <2> QED
      BY <2>1, MinMaxOfTwo
  <1>6. \A n \in naps : a <= n
    <2>1. ASSUME NEW s \in Sources
          PROVE  a <= Interval(s)
      <3>1. Soonest <= now + Interval(s) /\ Interval(s) \in Nat /\ now <= clock
        BY <1>2, Intervals, SourceFields DEF BeatInv, TypeInv
      <3> QED
        BY <1>2, <1>5, <3>1 DEF TypeInv
    <2> QED
      BY <1>5, <2>1
  <1>7. a <= b /\ b \in Nat
    BY <1>3, <1>4, <1>6
  <1> HIDE DEF a, b
  <1>8. /\ Wait = Max({MinNap, a}) /\ LongestNap = Max({MinNap, b})
    BY DEF Wait, LongestNap, a, b
  <1>9. /\ Wait \in {MinNap, a} /\ Wait >= MinNap /\ Wait >= a
        /\ LongestNap \in {MinNap, b} /\ LongestNap >= MinNap /\ LongestNap >= b
    <2>1. MinNap \in Int /\ a \in Int /\ b \in Int
      BY <1>5, <1>7, ConstantTypes
    <2> QED
      BY <1>8, <2>1, MinMaxOfTwo
  <1> QED
    BY <1>2, <1>5, <1>7, <1>9, ConstantTypes, SourceFields DEF TypeInv

-----------------------------------------------------------------------------
Inv == TypeInv /\ AlertMatchesFailures /\ BeatInv /\ LateInv

(* A daemon's first state. *)
LEMMA InitInv == Init => Inv
  <1> SUFFICES ASSUME Init PROVE Inv
    OBVIOUS
  <1>1. SourceState \in SourceStates
    BY DEF SourceState, SourceStates
  <1>2. TypeInv
    BY <1>1 DEF Init, TypeInv
  <1>3. SourceState.alerted = (SourceState.failures >= AlertAt)
    <2>1. SourceState.alerted = FALSE /\ SourceState.failures = 0
      BY DEF SourceState
    <2>2. (0 >= AlertAt) = FALSE
      BY ConstantTypes
    <2> QED
      BY <2>1, <2>2
  <1>4. AlertMatchesFailures
    BY <1>3 DEF Init, AlertMatchesFailures
  <1>5. BeatInv /\ LateInv
    BY Intervals DEF Init, BeatInv, LateInv, SourceState
  <1> QED
    BY <1>2, <1>4, <1>5 DEF Inv

(* One turn of the loop keeps the invariant. *)
LEMMA TurnKeepsInv ==
    ASSUME Inv, NEW s \in Sources, Polled(s), etag' \in [Sources -> Nat], held' \in [Sources -> Nat]
    PROVE  Inv'
  <1>0. TypeInv /\ AlertMatchesFailures /\ BeatInv /\ LateInv
    BY DEF Inv
  <1>1. PICK t \in 0..Timeout : clock' = clock + t
    BY DEF Polled
  <1>2. PICK n \in SourceStates :
          /\ src' = [src EXCEPT ![s] = n]
          /\ now + Soon <= n.next_due /\ n.next_due <= now + Interval(s)
          /\ src[s].alerted = (src[s].failures >= AlertAt) => n.alerted = (n.failures >= AlertAt)
    BY DEF Polled
  <1>3. /\ pc = "poll" /\ s \in due /\ due' = due \ {s}
        /\ pc' = IF due' = {} THEN "compile" ELSE "poll"
        /\ beat' = clock' /\ UNCHANGED <<now, nextCompile, nextBeat, doc>>
    BY DEF Polled, Polling, Turn, timers
  <1>4. /\ clock \in Nat /\ now \in Nat /\ beat \in Nat /\ nextBeat \in Nat /\ due \in SUBSET Sources
        /\ t \in Nat /\ t <= Timeout /\ clock' \in Nat /\ n.next_due \in Nat
    BY <1>0, <1>1, ConstantTypes DEF TypeInv, SourceStates
  <1>5. /\ src'[s] = n
        /\ \A q \in Sources : q # s => src'[q] = src[q]
    BY <1>0, <1>2 DEF TypeInv
  <1>6. TypeInv'
    BY <1>0, <1>2, <1>3, <1>4 DEF TypeInv
  <1>7. AlertMatchesFailures'
    BY <1>0, <1>2, <1>5 DEF AlertMatchesFailures
  <1>8. BeatInv'
    BY <1>0, <1>1, <1>2, <1>3, <1>4, <1>5, ConstantTypes DEF BeatInv
  <1>9. LateInv'
    <2>1. /\ Turns(due') = Turns(due) - Timeout /\ Turns(due) \in Nat /\ Turns(due') \in Nat
          /\ Others \in Nat /\ Turns({}) = 0
      BY <1>3, <1>4, TurnsFacts
    <2>2. Slip \in Int /\ Slip >= Timeout - Soon /\ Slip >= -1 /\ Soon \in Nat /\ Timeout \in Nat
      BY SlipType, Intervals, ConstantTypes
    <2>3. clock' + Turns(due') <= now + Others + Timeout
      BY <1>0, <1>1, <1>3, <1>4, <2>1, <2>2 DEF LateInv
    <2>4. ASSUME NEW q \in Sources \ due'
          PROVE  \/ now + Soon <= src'[q].next_due
                 \/ now + 1 <= src'[q].next_due /\ clock' + Turns(due') <= now + Others
      <3>1. CASE q = s
        BY <1>2, <1>5, <3>1
      <3>2. CASE q # s
        BY <1>0, <1>1, <1>3, <1>4, <1>5, <2>1, <2>2, <3>2 DEF LateInv
      <3> QED
        BY <3>1, <3>2
    <2>5. \A q \in due' : src'[q] = src[q] /\ q \in due
      BY <1>3, <1>4, <1>5
    <2>6. ASSUME due' = {}, NEW q \in Sources
          PROVE  clock' - src'[q].next_due <= Behind
      <3>1. src'[q].next_due \in Nat
        BY <1>6, SourceFields DEF TypeInv, SourceStates
      <3>2. q \in Sources \ due'
        BY <2>6
      <3>3. Turns(due') = 0
        BY <2>1, <2>6
      <3> QED
        BY <1>4, <2>1, <2>2, <2>3, <2>4, <3>1, <3>2, <3>3 DEF Behind
    <2> QED
      BY <1>0, <1>3, <2>3, <2>4, <2>5, <2>6 DEF LateInv
  <1> QED
    BY <1>6, <1>7, <1>8, <1>9 DEF Inv

(* Sleeping keeps the invariant: the next pass begins MinNap after the last*)
(* one ended, or as its first source comes due.                            *)
LEMMA SleepKeepsInv ==
    ASSUME Inv, Sleep
    PROVE  Inv'
  <1>0. TypeInv /\ AlertMatchesFailures /\ BeatInv /\ LateInv
    BY DEF Inv
  <1>1. /\ Wait \in Nat /\ Wait <= LongestNap /\ LongestNap \in Nat
        /\ \A s \in Sources : Wait <= MinNap \/ clock + Wait <= src[s].next_due
    BY <1>0, WaitFacts
  <1>2. /\ pc = "sleep" /\ clock' = clock + Wait /\ now' = clock' /\ pc' = "poll"
        /\ due' = {s \in Sources : clock' >= src[s].next_due}
        /\ UNCHANGED <<src, nextCompile, nextBeat, beat, doc, etag, held>>
    BY <1>1 DEF Sleep, Elapse, DueNow, timers, content
  <1>3. clock \in Nat /\ now \in Nat /\ beat \in Nat /\ nextBeat \in Nat /\ clock' \in Nat
    BY <1>0, <1>1, <1>2 DEF TypeInv
  <1>4. TypeInv'
    BY <1>0, <1>2, <1>3 DEF TypeInv
  <1>5. AlertMatchesFailures'
    BY <1>0, <1>2 DEF AlertMatchesFailures
  <1>6. BeatInv'
    <2>1. \A s \in Sources : src[s].next_due \in Nat /\ Interval(s) \in Nat
      BY <1>0, SourceFields, Intervals
    <2>2. clock' - beat <= Asleep
      BY <1>0, <1>1, <1>2, <1>3, ConstantTypes DEF BeatInv, Asleep
    <2> QED
      BY <1>0, <1>1, <1>2, <1>3, <2>1, <2>2, ConstantTypes DEF BeatInv
  <1>7. LateInv'
    <2>1. /\ due' \in SUBSET Sources /\ Turns(due') \in Nat /\ Turns(due') <= Others + Timeout
          /\ Others \in Nat /\ \A s \in Sources \ due' : Turns(due') <= Others
      BY <1>2, TurnsFacts
    <2>2. Slip \in Int /\ Slip >= -1 /\ Behind \in Int /\ Behind >= -1
      BY <2>1, SlipType DEF Behind
    <2>3. ASSUME NEW s \in Sources \ due'
          PROVE  now' + 1 <= src'[s].next_due /\ clock' + Turns(due') <= now' + Others
      BY <1>0, <1>2, <1>3, <2>1, SourceFields
    <2>4. ASSUME NEW s \in Sources
          PROVE  now' - src'[s].next_due <= Behind + CompileTime + MinNap
      <3>1. src[s].next_due \in Nat /\ clock - src[s].next_due <= Behind + CompileTime
        BY <1>0, <1>2, SourceFields DEF LateInv
      <3> QED
        BY <1>1, <1>2, <1>3, <2>2, <3>1, ConstantTypes
    <2> QED
      BY <1>2, <1>3, <2>1, <2>3, <2>4, ConstantTypes DEF LateInv
  <1> QED
    BY <1>4, <1>5, <1>6, <1>7 DEF Inv

(* Every step of the daemon and of the providers keeps the invariant. *)
LEMMA StepInv ==
    ASSUME Inv, [Next]_vars
    PROVE  Inv'
  <1>0. TypeInv /\ AlertMatchesFailures /\ BeatInv /\ LateInv
    BY DEF Inv
  <1>t. /\ clock \in Nat /\ now \in Nat /\ beat \in Nat /\ nextBeat \in Nat /\ nextCompile \in Nat
        /\ \A s \in Sources : src[s].next_due \in Nat
    BY <1>0, SourceFields DEF TypeInv
  <1>1. CASE UNCHANGED vars
    BY <1>0, <1>1 DEF Inv, TypeInv, AlertMatchesFailures, BeatInv, LateInv, vars, timers, content
  <1>2. CASE Start
    <2>1. /\ pc' = "poll" /\ now' = clock /\ due' = Sources /\ beat' = clock /\ clock' = clock
          /\ src' = [s \in Sources |-> SourceState] /\ nextCompile' = 0 /\ nextBeat' = 0
          /\ etag' = [s \in Sources |-> 0] /\ UNCHANGED <<doc, held>>
      BY <1>2 DEF Start, Fresh
    <2>2. SourceState \in SourceStates /\ SourceState.next_due = 0
      BY DEF SourceState, SourceStates
    <2>3. TypeInv'
      BY <1>0, <2>1, <2>2 DEF TypeInv
    <2>4. AlertMatchesFailures'
      <3>1. SourceState.alerted = FALSE /\ SourceState.failures = 0
        BY DEF SourceState
      <3>2. (0 >= AlertAt) = FALSE
        BY ConstantTypes
      <3> QED
        BY <2>1, <3>1, <3>2 DEF AlertMatchesFailures
    <2>5. BeatInv'
      BY <1>t, <2>1, <2>2, Intervals, ConstantTypes DEF BeatInv
    <2>6. LateInv'
      <3>1. Turns(Sources) \in Nat /\ Turns(Sources) <= Others + Timeout /\ Others \in Nat
        BY TurnsFacts
      <3>2. /\ pc' = "poll" /\ clock' + Turns(due') <= now' + Others + Timeout
        BY <1>t, <2>1, <3>1, ConstantTypes
      <3>3. \A s \in Sources : src'[s].next_due = 0
        BY <2>1, <2>2
      <3> QED
        BY <2>1, <3>2, <3>3 DEF LateInv
    <2> QED
      BY <2>3, <2>4, <2>5, <2>6 DEF Inv
  <1>3. ASSUME NEW s \in Sources, Publish(s)
        PROVE  Inv'
    <2>1. doc' \in [Sources -> Nat]
      BY <1>0, <1>3 DEF TypeInv, Publish
    <2> QED
      BY <1>0, <1>3, <2>1 DEF Inv, TypeInv, AlertMatchesFailures, BeatInv, LateInv, Publish, timers
  <1>4. ASSUME NEW s \in Sources,
               Collect(s) \/ NotModified(s) \/ Outage(s) \/ Refusal(s) \/ CollectFails(s)
        PROVE  Inv'
    <2>1. etag' \in [Sources -> Nat] /\ held' \in [Sources -> Nat]
      BY <1>0, <1>4 DEF TypeInv, Collect, NotModified, Outage, Refusal, CollectFails, Remember
    <2> QED
      BY <1>0, <1>4, <2>1, PollsAreTurns, TurnKeepsInv
  <1>5. CASE CompileDies \/ \E s \in Sources : Die(s)
    <2>1. pc' = "dead" /\ UNCHANGED <<clock, now, due, src, timers, beat, content, dry>>
      BY <1>5 DEF CompileDies, Die, record
    <2> QED
      BY <1>0, <2>1 DEF Inv, TypeInv, AlertMatchesFailures, BeatInv, LateInv, timers, content
  <1>6. CASE NothingDue
    <2>1. pc = "poll" /\ due = {} /\ pc' = "compile"
          /\ UNCHANGED <<clock, now, due, src, nextCompile, nextBeat, beat, doc, etag, held>>
      BY <1>6 DEF NothingDue, timers, content
    <2>2. TypeInv' /\ AlertMatchesFailures' /\ BeatInv'
      BY <1>0, <2>1 DEF TypeInv, AlertMatchesFailures, BeatInv
    <2>3. ASSUME NEW q \in Sources
          PROVE  clock - src[q].next_due <= Behind
      <3>1. Turns(due) = 0 /\ Others \in Nat
        BY <2>1, TurnsFacts
      <3>2. Slip \in Int /\ Slip >= Timeout - Soon /\ Slip >= -1 /\ Soon \in Nat /\ Timeout \in Nat
        BY SlipType, Intervals, ConstantTypes
      <3>3. /\ clock <= now + Others + Timeout
            /\ \/ now + Soon <= src[q].next_due
               \/ now + 1 <= src[q].next_due /\ clock <= now + Others
        BY <1>0, <1>t, <2>1, <3>1, <3>2 DEF LateInv
      <3> QED
        BY <1>t, <3>1, <3>2, <3>3 DEF Behind
    <2>4. LateInv'
      BY <2>1, <2>3 DEF LateInv
    <2> QED
      BY <2>2, <2>4 DEF Inv
  <1>7. CASE Compile
    <2>1. /\ pc = "compile" /\ pc' = "beat"
          /\ UNCHANGED <<now, due, src, nextBeat, beat, doc, etag, held>>
          /\ \E t \in 0..CompileTime : clock' = clock + t
          /\ nextCompile' = nextCompile \/ nextCompile' = now + CompileEvery
      BY <1>7, <1>t, ConstantTypes DEF Compile, Elapse, content
    <2>2. PICK t \in 0..CompileTime : clock' = clock + t
      BY <2>1
    <2>3. clock' \in Nat /\ clock <= clock' /\ clock' <= clock + CompileTime
      BY <1>t, <2>2, ConstantTypes
    <2>4. TypeInv' /\ AlertMatchesFailures'
      BY <1>0, <1>t, <2>1, <2>3, ConstantTypes DEF TypeInv, AlertMatchesFailures
    <2>5. BeatInv'
      BY <1>0, <1>t, <2>1, <2>3, ConstantTypes DEF BeatInv
    <2>6. LateInv'
      <3>1. Behind \in Int
        BY SlipType, TurnsFacts DEF Behind
      <3> QED
        BY <1>0, <1>t, <2>1, <2>3, <3>1, ConstantTypes DEF LateInv
    <2> QED
      BY <2>4, <2>5, <2>6 DEF Inv
  <1>8. CASE Beat
    <2>1. /\ pc = "beat" /\ pc' = "sleep"
          /\ UNCHANGED <<clock, now, due, src, nextCompile, doc, etag, held>>
          /\ \/ now >= nextBeat /\ beat' = clock /\ nextBeat' = now + BeatEvery
             \/ ~(now >= nextBeat) /\ UNCHANGED <<beat, nextBeat>>
      BY <1>8 DEF Beat, content
    <2>2. TypeInv' /\ AlertMatchesFailures' /\ LateInv'
      BY <1>0, <1>t, <2>1, ConstantTypes DEF TypeInv, AlertMatchesFailures, LateInv
    <2>3. BeatInv'
      BY <1>0, <1>t, <2>1, ConstantTypes DEF BeatInv
    <2> QED
      BY <2>2, <2>3 DEF Inv
  <1>9. CASE Sleep
    BY <1>9, SleepKeepsInv
  <1> QED
    BY <1>1, <1>2, <1>3, <1>4, <1>5, <1>6, <1>7, <1>8, <1>9 DEF Next

-----------------------------------------------------------------------------
(* The alert of a source is up exactly while its failures in a row reach   *)
(* failures_before_alert, whatever the polls in between did.               *)
THEOREM AlertsAtThreshold == Spec => []AlertMatchesFailures
  <1>1. Inv => AlertMatchesFailures
    BY DEF Inv
  <1>2. Inv /\ [Next]_vars => Inv'
    BY StepInv
  <1> QED
    BY <1>1, <1>2, InitInv, PTL DEF Spec

(* The heartbeat file of a living daemon is never older than BeatAge when  *)
(* it is replaced, however many sources a pass polls (_beat in _poll_due   *)
(* and in _loop).                                                          *)
THEOREM BeatsInTime == Spec => HeartbeatIsRecent
  <1>1. Inv /\ [Next]_vars => [pc # "dead" => clock' - beat <= BeatAge]_vars
    <2> SUFFICES ASSUME Inv, Next, pc # "dead"
                 PROVE  clock' - beat <= BeatAge
      OBVIOUS
    <2>0. TypeInv /\ BeatInv
      BY DEF Inv
    <2>1. Wait \in Nat /\ Wait <= LongestNap /\ LongestNap \in Nat
      BY <2>0, WaitFacts
    <2> DEFINE longest == Max({CompileTime, Timeout})
    <2>2. /\ longest \in Int /\ longest >= CompileTime /\ longest >= Timeout
          /\ CompileTime \in Nat /\ Timeout \in Nat
      <3>1. CompileTime \in Nat /\ Timeout \in Nat
        BY ConstantTypes
      <3>2. CompileTime \in Int /\ Timeout \in Int
        BY <3>1
      <3> QED
        BY <3>1, <3>2, MinMaxOfTwo
    <2> HIDE DEF longest
    <2>3. BeatAge = Asleep + longest /\ Asleep \in Nat /\ Asleep >= BeatEvery - 1 + CompileTime
      BY <2>1, <2>2, ConstantTypes DEF BeatAge, Asleep, longest
    <2>4. clock \in Nat /\ beat \in Nat /\ BeatEvery \in Nat /\ now \in Nat
      BY <2>0, ConstantTypes DEF TypeInv
    <2>5. clock - beat <= Asleep + CompileTime /\ (pc \in {"poll", "compile"} => clock - beat <= Asleep)
      BY <2>0, <2>2, <2>3, <2>4 DEF BeatInv, TypeInv
    <2>6. CASE clock' = clock
      BY <2>2, <2>3, <2>4, <2>5, <2>6
    <2>7. ASSUME NEW s \in Sources,
                 Collect(s) \/ NotModified(s) \/ Outage(s) \/ Refusal(s) \/ CollectFails(s)
          PROVE  clock' - beat <= BeatAge
      <3>1. pc = "poll" /\ \E t \in 0..Timeout : clock' = clock + t
        BY <2>0, <2>7, PollsAreTurns DEF Polled, Polling
      <3> QED
        BY <2>2, <2>3, <2>4, <2>5, <3>1
    <2>8. CASE Compile
      <3>1. pc = "compile" /\ \E t \in 0..CompileTime : clock' = clock + t
        BY <2>2, <2>4, <2>8 DEF Compile, Elapse
      <3> QED
        BY <2>2, <2>3, <2>4, <2>5, <3>1
    <2>9. CASE Sleep
      <3>1. pc = "sleep" /\ clock' = clock + Wait
        BY <2>1, <2>9 DEF Sleep, Elapse
      <3> QED
        BY <2>0, <2>1, <2>2, <2>3, <2>4, <3>1 DEF BeatInv, Asleep
    <2>10. CASE Start \/ NothingDue \/ CompileDies \/ Beat \/ \E s \in Sources : Publish(s) \/ Die(s)
      BY <2>6, <2>10 DEF Start, NothingDue, CompileDies, Beat, Publish, Die
    <2> QED
      BY <2>7, <2>8, <2>9, <2>10 DEF Next
  <1>2. Inv /\ [Next]_vars => Inv'
    BY StepInv
  <1> QED
    BY <1>1, <1>2, InitInv, PTL DEF Spec, HeartbeatIsRecent

(* A source that came due is polled at most Lateness later: the other      *)
(* sources' fetches, failing or not, each cost it a timeout in the running *)
(* pass and in the next, and no more (_poll_due, _loop).                   *)
THEOREM PollsInTime == Spec => PolledInTime
  <1>1. Inv /\ [Next]_vars =>
          [\A s \in Sources : (Polling(s) /\ due' # due /\ src[s].next_due # 0) =>
             clock - src[s].next_due <= Lateness]_vars
    <2> SUFFICES ASSUME Inv, NEW s \in Sources, Polling(s), src[s].next_due # 0
                 PROVE  clock - src[s].next_due <= Lateness
      OBVIOUS
    <2>0. TypeInv /\ LateInv /\ pc = "poll" /\ s \in due /\ due \in SUBSET Sources
      BY DEF Inv, Polling, TypeInv
    <2>1. clock \in Nat /\ now \in Nat /\ src[s].next_due \in Nat
      BY <2>0, SourceFields DEF TypeInv
    <2>2. Turns(due) \in Nat /\ Turns(due) >= Timeout /\ Others \in Nat /\ Slip \in Int
      BY <2>0, TurnsFacts, SlipType
    <2>3. clock <= now + Others
      BY <2>0, <2>1, <2>2, ConstantTypes DEF LateInv
    <2>4. now - src[s].next_due <= Behind + CompileTime + MinNap
      BY <2>0 DEF LateInv
    <2>5. Lateness = Others + Others + CompileTime + MinNap + Slip
      <3>1. 2 * (Count - 1) * Timeout = Others + Others
        <4>1. Count - 1 \in Nat /\ Timeout \in Nat
          BY ConstantTypes
        <4> QED
          BY <4>1, Products DEF Others
      <3> QED
        BY <3>1 DEF Lateness, Slip
    <2> QED
      BY <2>1, <2>2, <2>3, <2>4, <2>5, ConstantTypes DEF Behind
  <1>2. Inv /\ [Next]_vars => Inv'
    BY StepInv
  <1> QED
    BY <1>1, <1>2, InitInv, PTL DEF Spec, PolledInTime

-----------------------------------------------------------------------------
(* A remembered validator is that of the newest document whose records are *)
(* held, or of one whose storing raised since.                             *)
HeldInv ==
    /\ failed \in [Sources -> Nat]
    /\ \A s \in Sources : doc[s] >= 1 /\ (etag[s] # 0 => etag[s] \in {held[s], failed[s]})

(* A 304 is believed only for a document that was taken in, whatever the   *)
(* providers, the parsers and the store do: its records are journalled, or *)
(* storing it raised and was counted as a failure.  fetch remembers the    *)
(* validators after its checks and before its caller parses or stores      *)
(* anything (hub/collectors/http.py:86-94), so that is all a 304 says.     *)
THEOREM NotModifiedWasTaken == Spec => UnchangedWasTaken
  <1> DEFINE Held == Inv /\ HeldInv
  <1>1. Init => Held
    BY InitInv DEF HeldInv, Init
  <1>2. Held /\ [Next]_vars => Held'
    <2> SUFFICES ASSUME Inv, HeldInv, [Next]_vars
                 PROVE  HeldInv'
      BY StepInv
    <2>0. TypeInv
      BY DEF Inv
    <2>1. CASE UNCHANGED <<doc, etag, held, failed>>
      BY <2>1 DEF HeldInv
    <2>2. CASE Start
      BY <2>2 DEF HeldInv, Start, Fresh
    <2>3. ASSUME NEW s \in Sources, Publish(s)
          PROVE  HeldInv'
      BY <2>0, <2>3 DEF HeldInv, Publish, TypeInv, record
    <2>4. ASSUME NEW s \in Sources, Collect(s)
          PROVE  HeldInv'
      BY <2>0, <2>4 DEF HeldInv, Collect, Remember, TypeInv, Turn
    <2>5. ASSUME NEW s \in Sources, CollectFails(s)
          PROVE  HeldInv'
      BY <2>0, <2>5 DEF HeldInv, CollectFails, Remember, TypeInv, Turn
    <2>6. ASSUME NEW s \in Sources, NotModified(s) \/ Outage(s) \/ Refusal(s)
          PROVE  HeldInv'
      BY <2>1, <2>6 DEF NotModified, Outage, Refusal, Turn
    <2>7. CASE NothingDue \/ Compile \/ CompileDies \/ Beat \/ Sleep \/ \E s \in Sources : Die(s)
      BY <2>1, <2>7 DEF NothingDue, Compile, CompileDies, Beat, Sleep, Die, content, record
    <2> QED
      BY <2>1, <2>2, <2>3, <2>4, <2>5, <2>6, <2>7 DEF Next, vars, content, record
  <1>3. Held => [\A s \in Sources : (NotModified(s) /\ due' # due) => doc[s] \in {held[s], failed[s]}]_vars
    BY DEF HeldInv, NotModified, Inv, TypeInv
  <1> HIDE DEF Held
  <1> QED
    BY <1>1, <1>2, <1>3, PTL DEF Spec, UnchangedWasTaken
=============================================================================
