-------------------------- MODULE TableLog_proofs --------------------------
(***************************************************************************)
(* The table log, for any number of handlers and keys and any snapshot     *)
(* interval, and whatever versions the commands expect.  Whatever the      *)
(* clocks of the replicas, the log implements AtomicLog; when they agree,  *)
(* each event of a command that was not early is linked to the one before. *)
(***************************************************************************)
EXTENDS TableLog, SequenceTheorems, TLAPS

USE CommandsAssumption, ClocksAssumption, BoundsAssumption

\* An event computed from the version before it and chained to the event before.
Following(i) ==
    /\ log[i].base \in 0..i - 1
    /\ log[i].early \/ (log[i].base = i - 1 /\ log[i].prev = i - 1)

\* The log is contiguous, each event follows the one before it unless its
\* command was early, and each carries a key of its own.
LogInv ==
    /\ \A i \in 1..Len(log) : log[i].sequence = i /\ Following(i)
    /\ \A i, j \in 1..Len(log) : log[i].key = log[j].key => i = j

\* What a handler has read is not older than the version its client quoted,
\* if that version existed when the command came: if it is still the last one
\* when the row is locked, everything the handler has read is up to date.
Current(c) ==
    /\ c.pc # "idle" => c.key \in Keys /\ (c.early \/ c.expected <= Len(log))
    /\ c.pc = "replay" => c.base = 0
    /\ c.pc \in {"head", "append", "insert"} =>
           c.base \in 0..Len(log) /\ (c.early \/ c.base >= c.expected)
    /\ c.pc \in {"append", "insert"} =>
           c.prev \in 0..Len(log) /\ (c.early \/ c.prev >= c.expected)
    /\ c.pc = "publish" => Recorded(c.key)

HandlerInv == \A h \in Handlers : Current(cmd[h])

ToldInv == \A k \in told : Recorded(k)

Inv == TypeOK /\ LogInv /\ HandlerInv /\ ToldInv

LEMMA VersionIsLength ==
  ASSUME TypeOK, LogInv PROVE Version = Len(log) /\ Len(log) \in Nat
BY DEF TypeOK, LogInv, Version

LEMMA InitInv == Init => Inv
BY DEF Init, Inv, TypeOK, LogInv, Following, HandlerInv, ToldInv, Current, Recorded, Command, Idle, Steps

LEMMA IdleIsCurrent == Idle \in Command /\ Current(Idle)
BY DEF Idle, Command, Steps, Current

\* A step that leaves the log alone and moves one handler only has to keep
\* that handler current, and to tell of what is recorded.
LEMMA MoveInv ==
  ASSUME Inv, NEW h \in Handlers, NEW c \in Command, Current(c),
         cmd' = [cmd EXCEPT ![h] = c],
         UNCHANGED <<log, snapshot, now>>,
         told' \subseteq Keys, \A k \in told' : Recorded(k)
  PROVE  Inv'
BY DEF Inv, TypeOK, LogInv, Following, HandlerInv, ToldInv, Current, Recorded

LEMMA AnswerRecordedInv ==
  ASSUME Inv, NEW h \in Handlers, cmd[h].pc # "idle", AnswerRecorded(h) PROVE Inv'
<1>1. told' \subseteq Keys /\ \A k \in told' : Recorded(k)
  BY DEF Inv, TypeOK, HandlerInv, Current, ToldInv, AnswerRecorded
<1> QED
  BY <1>1, IdleIsCurrent, MoveInv DEF AnswerRecorded, Quit

LEMMA ReceiveInv ==
  ASSUME Inv, NEW h \in Handlers, Receive(h) PROVE Inv'
<1>1. PICK k \in Keys, v \in 0..MaxVersion :
        cmd' = [cmd EXCEPT ![h] = [Idle EXCEPT !.pc = "replay", !.key = k,
                                       !.expected = v, !.early = v > Version]]
  BY DEF Receive
<1> DEFINE early == v > Version
           c == [Idle EXCEPT !.pc = "replay", !.key = k, !.expected = v, !.early = early]
<1>2. v \in Nat /\ early \in BOOLEAN /\ (early \/ v <= Len(log))
  BY VersionIsLength DEF Inv
<1> HIDE DEF early
<1>3. /\ c.pc = "replay" /\ c.key = k /\ c.expected = v /\ c.base = 0
      /\ c.early = early /\ c \in Command
  BY <1>2 DEF Idle, Command, Steps
<1>5. Current(c)
  <2> HIDE DEF c
  <2> QED
    BY <1>2, <1>3 DEF Current
<1>4. told' \subseteq Keys /\ \A x \in told' : Recorded(x)
  BY DEF Receive, Inv, TypeOK, ToldInv
<1> QED
  BY <1>1, <1>3, <1>4, <1>5, MoveInv DEF Receive, early

\* The handlers at their next step, with the rest of what they hold.
LEMMA GotoCommand ==
  ASSUME NEW c \in Command, NEW step \in Steps
  PROVE  /\ [c EXCEPT !.pc = step] \in Command
         /\ [c EXCEPT !.pc = step].pc = step
         /\ [c EXCEPT !.pc = step].key = c.key
         /\ [c EXCEPT !.pc = step].expected = c.expected
         /\ [c EXCEPT !.pc = step].early = c.early
         /\ [c EXCEPT !.pc = step].base = c.base
         /\ [c EXCEPT !.pc = step].prev = c.prev
         /\ [c EXCEPT !.pc = step].time = c.time
BY DEF Command

LEMMA ReplayInv ==
  ASSUME Inv, NEW h \in Handlers, Replay(h) PROVE Inv'
<1>1. CASE AnswerRecorded(h)
  BY <1>1, AnswerRecordedInv DEF Replay
<1>2. CASE ~AnswerRecorded(h)
  <2> DEFINE step == IF cmd[h].expected = 0 THEN "head" ELSE "snapshot"
             c == [cmd[h] EXCEPT !.pc = step]
  <2>1. cmd' = [cmd EXCEPT ![h] = c] /\ UNCHANGED <<log, snapshot, now, told>>
    BY <1>2 DEF Replay, Goto, Inv, TypeOK
  <2>2. cmd[h] \in Command /\ Current(cmd[h]) /\ cmd[h].pc = "replay" /\ Len(log) \in Nat
    BY DEF Replay, Inv, TypeOK, HandlerInv
  <2>a. step \in Steps
    BY DEF Steps
  <2>b. step = "snapshot" \/ (step = "head" /\ cmd[h].expected = 0)
    OBVIOUS
  <2> HIDE DEF step
  <2>3. /\ c \in Command /\ c.pc = step /\ c.key = cmd[h].key
        /\ c.expected = cmd[h].expected /\ c.early = cmd[h].early /\ c.base = cmd[h].base
    BY <2>2, <2>a, GotoCommand
  <2>4. Current(c)
    <3>1. cmd[h].base = 0 /\ cmd[h].key \in Keys /\ (cmd[h].early \/ cmd[h].expected <= Len(log))
      BY <2>2 DEF Current
    <3> HIDE DEF c
    <3> QED
      BY <2>2, <2>3, <2>b, <3>1 DEF Current
  <2>5. told' \subseteq Keys /\ \A x \in told' : Recorded(x)
    BY <2>1 DEF Inv, TypeOK, ToldInv
  <2> HIDE DEF c
  <2> QED
    BY <2>1, <2>3, <2>4, <2>5, MoveInv
<1> QED
  BY <1>1, <1>2

LEMMA ReadSnapshotInv ==
  ASSUME Inv, NEW h \in Handlers, ReadSnapshot(h) PROVE Inv'
<1> DEFINE c == [cmd[h] EXCEPT !.pc = "tail", !.from = snapshot]
<1>1. cmd' = [cmd EXCEPT ![h] = c] /\ UNCHANGED <<log, snapshot, now, told>>
  BY DEF ReadSnapshot, Inv, TypeOK
<1>2. cmd[h] \in Command /\ Current(cmd[h]) /\ cmd[h].pc = "snapshot" /\ snapshot \in Nat
  BY DEF ReadSnapshot, Inv, TypeOK, HandlerInv
<1>3. c \in Command /\ c.pc = "tail" /\ c.key = cmd[h].key /\ c.expected = cmd[h].expected /\ c.early = cmd[h].early
  BY <1>2 DEF Command, Steps
<1>4. Current(c)
  BY <1>2, <1>3 DEF Current
<1>5. told' \subseteq Keys /\ \A x \in told' : Recorded(x)
  BY <1>1 DEF Inv, TypeOK, ToldInv
<1> HIDE DEF c
<1> QED
  BY <1>1, <1>3, <1>4, <1>5, MoveInv

LEMMA ReadTailInv ==
  ASSUME Inv, NEW h \in Handlers, ReadTail(h) PROVE Inv'
<1>0. told' \subseteq Keys /\ \A x \in told' : Recorded(x)
  BY DEF ReadTail, Inv, TypeOK, ToldInv
<1>1. CASE Quit(h)
  BY <1>0, <1>1, IdleIsCurrent, MoveInv DEF ReadTail, Quit
<1>2. CASE ~Quit(h)
  <2> DEFINE c == [cmd[h] EXCEPT !.pc = "head", !.base = Version]
  <2>1. cmd' = [cmd EXCEPT ![h] = c] /\ UNCHANGED <<log, snapshot, now, told>>
    BY <1>2 DEF ReadTail, BaseRead, Inv, TypeOK
  <2>2. /\ cmd[h] \in Command /\ Current(cmd[h]) /\ cmd[h].pc = "tail"
        /\ Version = Len(log) /\ Len(log) \in Nat
    BY VersionIsLength DEF ReadTail, Inv, TypeOK, HandlerInv
  <2>3. /\ c \in Command /\ c.pc = "head" /\ c.key = cmd[h].key
        /\ c.expected = cmd[h].expected /\ c.early = cmd[h].early /\ c.base = Len(log)
    BY <2>2 DEF Command, Steps
  <2>4. Current(c)
    BY <2>2, <2>3 DEF Current, Command
  <2> HIDE DEF c
  <2> QED
    BY <1>0, <2>1, <2>3, <2>4, MoveInv
<1> QED
  BY <1>1, <1>2

LEMMA ReadHeadInv ==
  ASSUME Inv, NEW h \in Handlers, ReadHead(h) PROVE Inv'
<1> DEFINE c == [cmd[h] EXCEPT !.pc = "append", !.prev = Len(log), !.time = now + Ahead[h]]
<1>1. cmd' = [cmd EXCEPT ![h] = c] /\ UNCHANGED <<log, snapshot, now, told>>
  BY DEF ReadHead, LogHead, HostClock, Inv, TypeOK
<1>2. /\ cmd[h] \in Command /\ Current(cmd[h]) /\ cmd[h].pc = "head"
      /\ Len(log) \in Nat /\ now + Ahead[h] \in Nat
  BY DEF ReadHead, Inv, TypeOK, HandlerInv
<1>3. /\ c \in Command /\ c.pc = "append" /\ c.key = cmd[h].key
      /\ c.expected = cmd[h].expected /\ c.early = cmd[h].early /\ c.base = cmd[h].base /\ c.prev = Len(log)
  BY <1>2 DEF Command, Steps
<1>4. Current(c)
  BY <1>2, <1>3 DEF Current, Command
<1>5. told' \subseteq Keys /\ \A x \in told' : Recorded(x)
  BY <1>1 DEF Inv, TypeOK, ToldInv
<1> HIDE DEF c
<1> QED
  BY <1>1, <1>3, <1>4, <1>5, MoveInv

LEMMA CheckDuplicateInv ==
  ASSUME Inv, NEW h \in Handlers, CheckDuplicate(h) PROVE Inv'
<1>1. CASE AnswerRecorded(h)
  BY <1>1, AnswerRecordedInv DEF CheckDuplicate
<1>2. CASE ~AnswerRecorded(h)
  <2> DEFINE c == [cmd[h] EXCEPT !.pc = "insert"]
  <2>1. cmd' = [cmd EXCEPT ![h] = c] /\ UNCHANGED <<log, snapshot, now, told>>
    BY <1>2 DEF CheckDuplicate, Goto, Inv, TypeOK
  <2>2. cmd[h] \in Command /\ Current(cmd[h]) /\ cmd[h].pc = "append"
    BY DEF CheckDuplicate, Inv, TypeOK, HandlerInv
  <2>3. /\ c \in Command /\ c.pc = "insert" /\ c.key = cmd[h].key
        /\ c.expected = cmd[h].expected /\ c.early = cmd[h].early /\ c.base = cmd[h].base /\ c.prev = cmd[h].prev
    BY <2>2, GotoCommand DEF Steps
  <2>4. Current(c)
    BY <2>2, <2>3 DEF Current
  <2>5. told' \subseteq Keys /\ \A x \in told' : Recorded(x)
    BY <2>1 DEF Inv, TypeOK, ToldInv
  <2> HIDE DEF c
  <2> QED
    BY <2>1, <2>3, <2>4, <2>5, MoveInv
<1> QED
  BY <1>1, <1>2

LEMMA PublishInv ==
  ASSUME Inv, NEW h \in Handlers, Publish(h) PROVE Inv'
<1>1. told' \subseteq Keys /\ \A x \in told' : Recorded(x)
  BY DEF Publish, Inv, TypeOK, HandlerInv, Current, ToldInv
<1> QED
  BY <1>1, IdleIsCurrent, MoveInv DEF Publish, Quit

LEMMA CrashInv ==
  ASSUME Inv, NEW h \in Handlers, Crash(h) PROVE Inv'
<1>1. told' \subseteq Keys /\ \A x \in told' : Recorded(x)
  BY DEF Crash, Inv, TypeOK, ToldInv
<1> QED
  BY <1>1, IdleIsCurrent, MoveInv DEF Crash, Quit

LEMMA TickInv ==
  ASSUME Inv, Tick PROVE Inv'
<1>1. UNCHANGED <<log, snapshot, cmd, told>> /\ now' = now + 1
  BY DEF Tick
<1>2. TypeOK'
  BY <1>1 DEF Inv, TypeOK
<1>3. LogInv'
  BY <1>1 DEF Inv, LogInv, Following
<1>4. HandlerInv'
  BY <1>1 DEF Inv, HandlerInv, Current, Recorded
<1>5. ToldInv'
  BY <1>1 DEF Inv, ToldInv, Recorded
<1> QED
  BY <1>2, <1>3, <1>4, <1>5 DEF Inv

\* What a commit appends when the version still matches: an event under a
\* fresh key, computed from the last version and chained to the last event
\* unless its command was early.
LEMMA AppendedEvent ==
  ASSUME Inv, NEW h \in Handlers, cmd[h].pc = "insert",
         VersionMatches(cmd[h]), Unique(cmd[h])
  PROVE  LET e == EventOf(cmd[h])
         IN  /\ e \in Event
             /\ e.sequence = Len(log) + 1 /\ e.base \in 0..Len(log)
             /\ e.early \/ (e.base = Len(log) /\ e.prev = Len(log))
             /\ e.key = cmd[h].key /\ e.time = cmd[h].time
             /\ e.prev = cmd[h].prev /\ e.early = cmd[h].early
             /\ \A i \in 1..Len(log) : log[i].key # e.key
<1>1. cmd[h] \in Command /\ Current(cmd[h]) /\ log \in Seq(Event) /\ Len(log) \in Nat
  BY DEF Inv, TypeOK, HandlerInv
<1>2. cmd[h].expected = Len(log)
  BY VersionIsLength DEF VersionMatches, Inv
<1>3. /\ cmd[h].key \in Keys /\ cmd[h].base \in 0..Len(log) /\ cmd[h].prev \in 0..Len(log)
      /\ cmd[h].early \/ (cmd[h].base >= Len(log) /\ cmd[h].prev >= Len(log))
  BY <1>1, <1>2 DEF Current
<1>4. cmd[h].early \/ (cmd[h].base = Len(log) /\ cmd[h].prev = Len(log))
  BY <1>1, <1>3
<1>5. EventOf(cmd[h]) \in Event
  BY <1>1, <1>3 DEF EventOf, Event, Command
<1>6. \A i \in 1..Len(log) : log[i].key # cmd[h].key
  BY <1>1 DEF Unique
<1> QED
  BY <1>2, <1>3, <1>4, <1>5, <1>6 DEF EventOf

LEMMA Appended ==
  ASSUME NEW S, NEW s \in Seq(S), NEW e \in S
  PROVE  /\ Append(s, e) \in Seq(S)
         /\ Len(Append(s, e)) = Len(s) + 1
         /\ DOMAIN Append(s, e) = 1..Len(s) + 1
         /\ \A i \in 1..Len(s) : Append(s, e)[i] = s[i]
         /\ Append(s, e)[Len(s) + 1] = e
BY AppendProperties, LenProperties

LEMMA InsertInv ==
  ASSUME Inv, NEW h \in Handlers, Insert(h) PROVE Inv'
<1>1. CASE VersionMatches(cmd[h]) /\ Unique(cmd[h])
  <2> DEFINE e == EventOf(cmd[h])
             n == Len(log)
             c == [cmd[h] EXCEPT !.pc = "publish"]
  <2>1. /\ log' = Append(log, e) /\ cmd' = [cmd EXCEPT ![h] = c]
        /\ snapshot' = SnapshotAt(cmd[h].expected + 1)
        /\ UNCHANGED <<now, told>>
    BY <1>1 DEF Insert, Goto, Inv, TypeOK
  <2>2. /\ e \in Event /\ e.sequence = n + 1 /\ e.base \in 0..n
        /\ e.early \/ (e.base = n /\ e.prev = n)
        /\ e.key = cmd[h].key
        /\ \A i \in 1..n : log[i].key # e.key
    BY <1>1, AppendedEvent DEF Insert
  <2>3. log \in Seq(Event) /\ n \in Nat
    BY DEF Inv, TypeOK
  <2> HIDE DEF e
  <2>4. /\ log' \in Seq(Event) /\ Len(log') = n + 1 /\ DOMAIN log' = 1..n + 1
        /\ \A i \in 1..n : log'[i] = log[i]
        /\ log'[n + 1] = e
    BY <2>1, <2>2, <2>3, Appended
  <2>5. LogInv'
    <3>1. \A i \in 1..Len(log') : i \in 1..n \/ i = n + 1
      BY <2>3, <2>4
    <3>2. \A i \in 1..n :
            /\ log'[i].sequence = i /\ Following(i)'
            /\ log'[i].key # e.key
            /\ \A j \in 1..n : log'[i].key = log'[j].key => i = j
      BY <2>2, <2>4 DEF Inv, LogInv, Following
    <3>3. \A i : i = n + 1 => log'[i].sequence = i /\ Following(i)'
      BY <2>2, <2>3, <2>4 DEF Following
    <3> QED
      BY <2>2, <2>3, <2>4, <3>1, <3>2, <3>3 DEF LogInv
  <2>6. \A k : Recorded(k) => Recorded(k)'
    BY <2>3, <2>4 DEF Recorded
  <2>7. \E i \in DOMAIN log' : log'[i].key = cmd[h].key
    BY <2>2, <2>3, <2>4 DEF Recorded
  <2>8. /\ cmd[h] \in Command /\ Current(cmd[h]) /\ cmd[h].pc = "insert"
        /\ cmd[h].expected = n
    BY <1>1, VersionIsLength DEF Insert, Inv, TypeOK, HandlerInv, VersionMatches
  <2>9. /\ c \in Command /\ c.pc = "publish" /\ c.key = cmd[h].key
        /\ c.expected = cmd[h].expected /\ c.early = cmd[h].early
    BY <2>8, GotoCommand DEF Steps
  <2> HIDE DEF c
  <2>10. Current(cmd[h])'
    <3>1. cmd'[h] = c
      BY <2>1 DEF Inv, TypeOK
    <3>2. cmd[h].key \in Keys /\ (cmd[h].early \/ cmd[h].expected <= Len(log'))
      BY <2>3, <2>4, <2>8 DEF Current
    <3> QED
      BY <2>7, <2>9, <3>1, <3>2 DEF Current, Recorded
  <2>11. \A g \in Handlers \ {h} : Current(cmd[g])'
    <3> SUFFICES ASSUME NEW g \in Handlers \ {h} PROVE Current(cmd[g])'
      OBVIOUS
    <3>1. cmd'[g] = cmd[g] /\ cmd[g] \in Command /\ Current(cmd[g])
      BY <2>1 DEF Inv, TypeOK, HandlerInv
    <3> QED
      BY <2>3, <2>4, <2>6, <3>1 DEF Current, Command
  <2>12. HandlerInv'
    BY <2>1, <2>10, <2>11 DEF HandlerInv, Inv, TypeOK
  <2>13. ToldInv'
    BY <2>1, <2>6 DEF Inv, ToldInv
  <2>14. TypeOK'
    BY <2>1, <2>3, <2>4, <2>8, <2>9 DEF Inv, TypeOK, SnapshotAt
  <2> QED
    BY <2>5, <2>12, <2>13, <2>14 DEF Inv
<1>2. CASE ~(VersionMatches(cmd[h]) /\ Unique(cmd[h]))
  <2>1. Quit(h) /\ UNCHANGED <<log, snapshot, now, told>>
    BY <1>2 DEF Insert
  <2>2. told' \subseteq Keys /\ \A x \in told' : Recorded(x)
    BY <2>1 DEF Inv, TypeOK, ToldInv
  <2> QED
    BY <2>1, <2>2, IdleIsCurrent, MoveInv DEF Quit
<1> QED
  BY <1>1, <1>2

LEMMA NextInv == Inv /\ [Next]_vars => Inv'
<1> SUFFICES ASSUME Inv, [Next]_vars PROVE Inv'
  OBVIOUS
<1>1. ASSUME NEW h \in Handlers, Step(h) PROVE Inv'
  BY <1>1, ReceiveInv, ReplayInv, ReadSnapshotInv, ReadTailInv, ReadHeadInv,
     CheckDuplicateInv, InsertInv, PublishInv, CrashInv DEF Step
<1>2. CASE UNCHANGED vars
  <2>1. UNCHANGED <<log, snapshot, now, cmd, told>>
    BY <1>2 DEF vars
  <2>2. TypeOK'
    BY <2>1 DEF Inv, TypeOK
  <2>3. LogInv'
    BY <2>1 DEF Inv, LogInv, Following
  <2>4. HandlerInv'
    BY <2>1 DEF Inv, HandlerInv, Current, Recorded
  <2>5. ToldInv'
    BY <2>1 DEF Inv, ToldInv, Recorded
  <2> QED
    BY <2>2, <2>3, <2>4, <2>5 DEF Inv
<1> QED
  BY <1>1, <1>2, TickInv DEF Next

LEMMA InductiveInv == Spec => []Inv
BY InitInv, NextInv, PTL DEF Spec

\* The log and the handlers keep their types, and a snapshot is anchored at an
\* event of the log.
THEOREM TypeCorrect == Spec => []TypeOK
BY InductiveInv, PTL DEF Inv

----------------------------------------------------------------------------
(* The refinement *)

Applied == [key : Keys, base : Nat, early : BOOLEAN]
AppliedBy(e) == [key |-> e.key, base |-> e.base, early |-> e.early]
history ==
    [i \in DOMAIN log |-> [key |-> log[i].key, base |-> log[i].base, early |-> log[i].early]]

LEMMA SameInterval ==
  ASSUME NEW a \in Nat, NEW b \in Nat, 1..a = 1..b PROVE a = b
<1>1. CASE a < b
  <2>1. b \in 1..b /\ b \notin 1..a
    BY <1>1
  <2> QED
    BY <2>1
<1>2. CASE b < a
  <2>1. a \in 1..a /\ a \notin 1..b
    BY <1>2
  <2> QED
    BY <2>1
<1> QED
  BY <1>1, <1>2

LEMMA HistoryLength ==
  ASSUME TypeOK
  PROVE  DOMAIN log = 1..Len(log) /\ Len(log) \in Nat /\ Len(history) = Len(log)
         /\ history \in Seq(Applied)
<1>1. log \in Seq(Event) /\ Len(log) \in Nat /\ DOMAIN log = 1..Len(log)
  BY DEF TypeOK
<1>2. \A i \in 1..Len(log) : log[i] \in Event
  BY <1>1
<1>3. history \in [1..Len(log) -> Applied]
  BY <1>1, <1>2 DEF history, Event, Applied
<1>4. history \in Seq(Applied)
  <2> DEFINE T == Applied
  <2>1. [1..Len(log) -> T] \in {[1..n -> T] : n \in Nat}
    BY <1>1
  <2> QED
    BY <1>3, <2>1, SeqDef
<1>5. Len(history) \in Nat /\ DOMAIN history = 1..Len(history) /\ DOMAIN history = 1..Len(log)
  BY <1>3, <1>4, LenProperties
<1>6. Len(history) = Len(log)
  BY <1>1, <1>5, SameInterval
<1> QED
  BY <1>1, <1>4, <1>6

LEMMA HistoryLengthNext ==
  TypeOK' => (Len(history) = Len(log) /\ history \in Seq(Applied))'
<1>1. TypeOK => Len(history) = Len(log) /\ history \in Seq(Applied)
  BY HistoryLength
<1> QED
  BY <1>1, PTL

LEMMA AppliedIsRecorded ==
  ASSUME TypeOK PROVE \A k : k \in Atomic!Applied <=> Recorded(k)
BY HistoryLength DEF Atomic!Applied, Recorded, history

\* A commit is the abstract step that applies the command.
LEMMA InsertApplies ==
  ASSUME Inv, Inv', NEW h \in Handlers, Insert(h),
         VersionMatches(cmd[h]) /\ Unique(cmd[h])
  PROVE  Atomic!Apply(cmd[h].key)
<1> DEFINE e == EventOf(cmd[h])
           n == Len(log)
<1>1. /\ log' = Append(log, e) /\ told' = told
      /\ log \in Seq(Event) /\ n \in Nat /\ DOMAIN log = 1..n
      /\ e \in Event /\ e.key = cmd[h].key /\ e.base \in 0..n
      /\ e.early \/ e.base = n
      /\ \A i \in 1..n : log[i].key # e.key
  BY AppendedEvent DEF Insert, Inv, TypeOK
<1> HIDE DEF e
<1>2. /\ DOMAIN log' = 1..n + 1
      /\ \A i \in 1..n : log'[i] = log[i]
      /\ log'[n + 1] = e
  BY <1>1, Appended
<1>3. history' = Append(history, AppliedBy(e))
  <2> DEFINE a == AppliedBy(e)
  <2>1. history \in Seq(Applied) /\ Len(history) = n /\ a \in Applied
    BY <1>1, HistoryLength DEF Inv, AppliedBy, Applied, Event
  <2>2. history' \in Seq(Applied) /\ Len(history') = n + 1
    <3>1. TypeOK' /\ Len(log') = n + 1
      BY <1>1, Appended DEF Inv
    <3> QED
      BY <3>1, HistoryLengthNext
  <2>3. \A i \in 1..n : history'[i] = history[i]
    BY <1>1, <1>2 DEF history
  <2>4. history'[n + 1] = a
    BY <1>1, <1>2 DEF history, AppliedBy
  <2> HIDE DEF a
  <2>5. /\ Append(history, a) \in Seq(Applied) /\ Len(Append(history, a)) = n + 1
        /\ \A i \in 1..n : Append(history, a)[i] = history[i]
        /\ Append(history, a)[n + 1] = a
    BY <2>1, AppendProperties
  <2>6. \A i \in 1..n + 1 : history'[i] = Append(history, a)[i]
    BY <1>1, <2>3, <2>4, <2>5
  <2>7. history' = Append(history, a)
    BY <2>2, <2>5, <2>6, SeqEqual
  <2> QED
    BY <2>7 DEF a
<1>4. cmd[h].key \notin Atomic!Applied
  BY <1>1, AppliedIsRecorded DEF Recorded, Inv
<1>5. Len(history) = n /\ e.early \in BOOLEAN
  BY <1>1, HistoryLength DEF Inv, Event
<1>6. \E base \in 0..Len(history), early \in BOOLEAN :
        /\ early \/ base = Len(history)
        /\ history' = Append(history, [key |-> cmd[h].key, base |-> base, early |-> early])
  BY <1>1, <1>3, <1>5 DEF AppliedBy
<1> QED
  BY <1>1, <1>4, <1>6 DEF Atomic!Apply, history

LEMMA StepRefines ==
  ASSUME Inv, Inv', [Next]_vars
  PROVE  [Atomic!Next]_<<history, told>>
<1>1. ASSUME UNCHANGED log, UNCHANGED told PROVE UNCHANGED <<history, told>>
  BY <1>1 DEF history
<1>2. ASSUME NEW h \in Handlers, AnswerRecorded(h), cmd[h].pc # "idle"
      PROVE  [Atomic!Next]_<<history, told>>
  <2>1. cmd[h].key \in Keys /\ cmd[h].key \in Atomic!Applied
    BY <1>2, AppliedIsRecorded DEF AnswerRecorded, Inv, HandlerInv, Current
  <2>2. Atomic!Tell(cmd[h].key) \/ UNCHANGED <<history, told>>
    BY <1>2, <2>1 DEF AnswerRecorded, Atomic!Tell, history
  <2> QED
    BY <2>1, <2>2 DEF Atomic!Next
<1>3. ASSUME NEW h \in Handlers, Publish(h) PROVE [Atomic!Next]_<<history, told>>
  <2>1. cmd[h].key \in Keys /\ cmd[h].key \in Atomic!Applied
    BY <1>3, AppliedIsRecorded DEF Publish, Inv, HandlerInv, Current
  <2>2. Atomic!Tell(cmd[h].key)
    BY <1>3, <2>1 DEF Publish, Atomic!Tell, history
  <2> QED
    BY <2>1, <2>2 DEF Atomic!Next
<1>4. ASSUME NEW h \in Handlers, Insert(h) PROVE [Atomic!Next]_<<history, told>>
  <2>1. CASE VersionMatches(cmd[h]) /\ Unique(cmd[h])
    <3>1. cmd[h].key \in Keys
      BY <1>4 DEF Insert, Inv, HandlerInv, Current
    <3>2. Atomic!Apply(cmd[h].key)
      BY <1>4, <2>1, InsertApplies
    <3>3. Atomic!Next
      BY <3>1, <3>2 DEF Atomic!Next, Atomic!Apply, Atomic!Tell
    <3> QED
      BY <3>3
  <2>2. CASE ~(VersionMatches(cmd[h]) /\ Unique(cmd[h]))
    BY <1>1, <1>4, <2>2 DEF Insert
  <2> QED
    BY <2>1, <2>2
<1>5. ASSUME NEW h \in Handlers, Step(h) PROVE [Atomic!Next]_<<history, told>>
  <2>1. CASE Receive(h) \/ ReadSnapshot(h) \/ ReadTail(h) \/ ReadHead(h) \/ Crash(h)
    BY <1>1, <2>1 DEF Receive, ReadSnapshot, ReadTail, ReadHead, Crash
  <2>2. CASE Replay(h)
    BY <1>1, <1>2, <2>2 DEF Replay
  <2>3. CASE CheckDuplicate(h)
    BY <1>1, <1>2, <2>3 DEF CheckDuplicate
  <2> QED
    BY <1>3, <1>4, <1>5, <2>1, <2>2, <2>3 DEF Step
<1>6. CASE Tick \/ UNCHANGED vars
  BY <1>1, <1>6 DEF Tick, vars
<1> QED
  BY <1>5, <1>6 DEF Next

\* Concurrent handlers, crashes, retries, clocks that disagree and any expected
\* versions: the log is still the one of commands executed one at a time, each
\* at most once, and on the last state unless the command was early.
THEOREM Refinement == Spec => Linearizable
<1>1. Init => Atomic!Init
  BY DEF Init, Atomic!Init
<1>2. Inv /\ Inv' /\ [Next]_vars => [Atomic!Next]_<<history, told>>
  BY StepRefines
<1> QED
  BY <1>1, <1>2, InductiveInv, PTL DEF Spec, Linearizable, Atomic!Spec, history

----------------------------------------------------------------------------
(* The chain verifies when every host has the same time *)

\* No event is later than the clock, and a drafted event is not earlier than
\* the event it is chained to.
Timely(c, offset) ==
    c.pc \in {"append", "insert"} =>
        /\ c.time <= now + offset
        /\ c.prev > 0 => log[c.prev].time <= c.time

TimeInv(offset) ==
    /\ \A i \in 2..Len(log) : log[i].early \/ log[i - 1].time <= log[i].time
    /\ \A i \in 1..Len(log) : log[i].time <= now + offset
    /\ \A h \in Handlers : Timely(cmd[h], offset)

\* A step of a handler that leaves the log alone has to keep its draft timely.
LEMMA MoveTime ==
  ASSUME NEW offset \in Nat, Inv, TimeInv(offset), NEW h \in Handlers,
         UNCHANGED <<log, now>>, \A g \in Handlers \ {h} : cmd'[g] = cmd[g],
         Timely(cmd[h], offset)'
  PROVE  TimeInv(offset)'
<1>1. \A g \in Handlers \ {h} : Timely(cmd[g], offset)'
  BY DEF TimeInv, Timely
<1> QED
  BY <1>1 DEF TimeInv

\* The steps that do not leave a handler with a draft of its own making.
LEMMA OtherSteps ==
  ASSUME NEW offset \in Nat, Inv, TimeInv(offset), NEW h \in Handlers,
         \/ Receive(h) \/ Replay(h) \/ ReadSnapshot(h) \/ ReadTail(h)
         \/ CheckDuplicate(h) \/ Publish(h) \/ Crash(h)
  PROVE  TimeInv(offset)'
<1>1. cmd \in [Handlers -> Command] /\ cmd[h] \in Command /\ Timely(cmd[h], offset)
  BY DEF Inv, TypeOK, TimeInv
<1>2. UNCHANGED <<log, now>> /\ \A g \in Handlers \ {h} : cmd'[g] = cmd[g]
  BY <1>1 DEF Receive, Replay, ReadSnapshot, ReadTail, CheckDuplicate, Publish, Crash,
              AnswerRecorded, Goto, Quit
<1>3. \/ cmd'[h].pc \notin {"append", "insert"}
      \/ /\ cmd[h].pc = "append"
         /\ cmd'[h].time = cmd[h].time /\ cmd'[h].prev = cmd[h].prev
  <2>1. CASE Quit(h)
    BY <1>1, <2>1 DEF Quit, Idle
  <2>2. CASE Receive(h)
    BY <1>1, <2>2 DEF Receive, Idle
  <2>3. CASE Replay(h) /\ ~Quit(h)
    BY <1>1, <2>3 DEF Replay, AnswerRecorded, Goto, Command
  <2>4. CASE ReadSnapshot(h)
    BY <1>1, <2>4 DEF ReadSnapshot, Command
  <2>5. CASE ReadTail(h) /\ ~Quit(h)
    BY <1>1, <2>5 DEF ReadTail, Command
  <2>6. CASE CheckDuplicate(h) /\ ~Quit(h)
    <3> DEFINE c == [cmd[h] EXCEPT !.pc = "insert"]
    <3>1. cmd[h].pc = "append" /\ cmd'[h] = c
      BY <1>1, <2>6 DEF CheckDuplicate, AnswerRecorded, Goto
    <3>2. c.time = cmd[h].time /\ c.prev = cmd[h].prev
      BY <1>1, GotoCommand DEF Steps
    <3> HIDE DEF c
    <3> QED
      BY <3>1, <3>2
  <2> QED
    BY <2>1, <2>2, <2>3, <2>4, <2>5, <2>6 DEF Publish, Crash
<1>4. Timely(cmd[h], offset)'
  BY <1>1, <1>2, <1>3 DEF Timely
<1> QED
  BY <1>2, <1>4, MoveTime

LEMMA ReadHeadTime ==
  ASSUME NEW offset \in Nat, Inv, TimeInv(offset), NEW h \in Handlers,
         Ahead[h] = offset, ReadHead(h)
  PROVE  TimeInv(offset)'
<1>1. cmd \in [Handlers -> Command] /\ cmd[h] \in Command /\ Len(log) \in Nat /\ now \in Nat
  BY DEF Inv, TypeOK
<1>2. UNCHANGED <<log, now>> /\ \A g \in Handlers \ {h} : cmd'[g] = cmd[g]
  BY <1>1 DEF ReadHead
<1>3. cmd'[h].prev = Len(log) /\ cmd'[h].time = now + offset
  BY <1>1 DEF ReadHead, LogHead, HostClock, Command
<1>4. Timely(cmd[h], offset)'
  BY <1>1, <1>2, <1>3 DEF Timely, TimeInv
<1> QED
  BY <1>2, <1>4, MoveTime

LEMMA InsertTime ==
  ASSUME NEW offset \in Nat, Inv, TimeInv(offset), NEW h \in Handlers, Insert(h)
  PROVE  TimeInv(offset)'
<1>0. /\ cmd \in [Handlers -> Command] /\ cmd[h] \in Command /\ now' = now /\ now \in Nat
      /\ \A g \in Handlers \ {h} : cmd'[g] = cmd[g]
  BY DEF Insert, Goto, Quit, Inv, TypeOK
<1>1. CASE VersionMatches(cmd[h]) /\ Unique(cmd[h])
  <2> DEFINE e == EventOf(cmd[h])
             n == Len(log)
  <2>1. /\ log' = Append(log, e) /\ log \in Seq(Event) /\ n \in Nat
        /\ cmd'[h].pc = "publish" /\ cmd[h].pc = "insert"
    BY <1>0, <1>1 DEF Insert, Goto, Inv, TypeOK, Command
  <2>2. e \in Event /\ e.time = cmd[h].time /\ (e.early \/ cmd[h].prev = n)
    BY <1>1, <2>1, AppendedEvent
  <2> HIDE DEF e
  <2>3. /\ Len(log') = n + 1 /\ log'[n + 1] = e
        /\ \A i \in 1..n : log'[i] = log[i] /\ log[i] \in Event
    BY <2>1, <2>2, Appended
  <2>4. e.time <= now + offset /\ (e.early \/ (n > 0 => log[n].time <= e.time))
    BY <2>1, <2>2 DEF TimeInv, Timely
  <2>5. \A i \in 1..n + 1 : log'[i].time <= now' + offset
    <3>1. \A i \in 1..n + 1 : i \in 1..n \/ i = n + 1
      BY <2>1
    <3> QED
      BY <1>0, <2>3, <2>4, <3>1 DEF TimeInv
  <2>6. \A i \in 2..n + 1 : log'[i].early \/ log'[i - 1].time <= log'[i].time
    <3> SUFFICES ASSUME NEW i \in 2..n + 1
                 PROVE  log'[i].early \/ log'[i - 1].time <= log'[i].time
      OBVIOUS
    <3>1. CASE i \in 2..n
      <4>1. i \in 1..n /\ i - 1 \in 1..n
        BY <2>1, <3>1
      <4> QED
        BY <2>3, <3>1, <4>1 DEF TimeInv
    <3>2. CASE i = n + 1
      <4>1. n \in 1..n /\ i - 1 = n
        BY <2>1, <3>2
      <4> QED
        BY <2>1, <2>3, <2>4, <3>2, <4>1
    <3> QED
      BY <2>1, <3>1, <3>2
  <2>7. \A g \in Handlers \ {h} : Timely(cmd[g], offset)'
    <3> SUFFICES ASSUME NEW g \in Handlers \ {h}, cmd[g].pc \in {"append", "insert"}
                 PROVE  /\ cmd[g].time <= now + offset
                        /\ cmd[g].prev > 0 => log'[cmd[g].prev].time <= cmd[g].time
      BY <1>0 DEF Timely
    <3>1. cmd[g].prev \in Nat /\ cmd[g].prev <= n
      BY <2>1 DEF Inv, TypeOK, HandlerInv, Current, Command
    <3>2. cmd[g].prev > 0 => log'[cmd[g].prev] = log[cmd[g].prev]
      BY <2>1, <2>3, <3>1
    <3> QED
      BY <3>2 DEF TimeInv, Timely
  <2>8. Timely(cmd[h], offset)'
    BY <2>1 DEF Timely
  <2> QED
    BY <2>3, <2>5, <2>6, <2>7, <2>8 DEF TimeInv
<1>2. CASE ~(VersionMatches(cmd[h]) /\ Unique(cmd[h]))
  <2>1. Quit(h) /\ UNCHANGED <<log, now>>
    BY <1>2 DEF Insert
  <2>2. Timely(cmd[h], offset)'
    BY <1>0, <2>1 DEF Quit, Idle, Timely
  <2> QED
    BY <1>0, <2>1, <2>2, MoveTime
<1> QED
  BY <1>1, <1>2

LEMMA TimeNext ==
  ASSUME NEW offset \in Nat, \A h \in Handlers : Ahead[h] = offset,
         Inv, TimeInv(offset), [Next]_vars
  PROVE  TimeInv(offset)'
<1>1. ASSUME NEW h \in Handlers, Step(h) PROVE TimeInv(offset)'
  BY <1>1, OtherSteps, ReadHeadTime, InsertTime DEF Step
<1>2. CASE Tick
  <2>1. now' = now + 1 /\ now \in Nat /\ UNCHANGED <<log, cmd>>
    BY <1>2 DEF Tick, Inv, TypeOK
  <2>2. \A i \in 1..Len(log) : log[i] \in Event
    BY ElementOfSeq DEF Inv, TypeOK
  <2>3. \A i \in 1..Len(log) : log[i].time \in Nat
    BY <2>2 DEF Event
  <2>4. \A h \in Handlers : cmd[h] \in Command
    BY DEF Inv, TypeOK
  <2>5. \A h \in Handlers : cmd[h].time \in Nat
    BY <2>4 DEF Command
  <2> QED
    BY <2>1, <2>3, <2>5 DEF TimeInv, Timely
<1>3. CASE UNCHANGED vars
  BY <1>3 DEF vars, TimeInv, Timely
<1> QED
  BY <1>1, <1>2, <1>3 DEF Next

\* With clocks that agree, every event is linked to the one before it, unless
\* its command came before the version it expects existed: only such a command
\* can make a table unreadable.
THEOREM ChainAlwaysVerifies ==
  ASSUME NEW offset \in Nat, \A h \in Handlers : Ahead[h] = offset
  PROVE  Spec => []ChainVerifies
<1>1. Init => TimeInv(offset)
  BY DEF Init, TimeInv, Timely, Idle
<1>2. Inv /\ TimeInv(offset) /\ [Next]_vars => TimeInv(offset)'
  BY TimeNext
<1>3. Inv /\ TimeInv(offset) => ChainVerifies
  BY DEF Inv, TypeOK, LogInv, Following, TimeInv, ChainVerifies, Linked
<1> QED
  BY <1>1, <1>2, <1>3, InductiveInv, PTL DEF Spec
============================================================================
