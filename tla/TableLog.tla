------------------------------ MODULE TableLog ------------------------------
(***************************************************************************)
(* The event log of one table and the commands that are executed on it     *)
(* concurrently, on one or several replicas: #replay, state and #record of *)
(* server/table-coordinator.js over the transactional append, the          *)
(* snapshots and the lookups of server/postgres-table-store.js.            *)
(*                                                                         *)
(* A handler is one execution of a command; its steps are the stretches    *)
(* between two awaits.  The version check, the inserts and the commit of   *)
(* append happen under a row lock and are one step.  A command is its      *)
(* idempotency key and the version it expects, which is whatever number    *)
(* its client sent; the hash of a committed event is modelled by its       *)
(* position in the log, which no other committed event shares.  What the   *)
(* event does to the table is the subject of other modules: a version      *)
(* stands for a state.                                                     *)
(***************************************************************************)
EXTENDS Integers, Sequences

CONSTANTS
    Handlers,
    Keys,
    NoKey,
    Ahead,           \* how far the clock of a handler's host is ahead
    SnapshotEvery,
    MaxVersion,      \* bound on the log
    MaxTime          \* bound on the clock

ASSUME CommandsAssumption == NoKey \notin Keys
ASSUME ClocksAssumption == Ahead \in [Handlers -> Nat]
ASSUME BoundsAssumption ==
    /\ SnapshotEvery \in Nat \ {0}
    /\ MaxVersion \in Nat
    /\ MaxTime \in Nat

VARIABLES
    log,         \* table_events, in the order of their commits
    snapshot,    \* the sequence of the last row of table_state_snapshots, or 0
    now,         \* true time
    cmd,         \* what each handler is doing
    told         \* the commands answered with success (history)

vars == <<log, snapshot, now, cmd, told>>

\* A handler's step to come, its command and what it has computed so far:
\* the snapshot it starts from, the version it computed its event from, and
\* the hash of the previous event and the timestamp of the event it drafted.
\* `early` says of a command that it came before the table had the version it
\* expects (history): no client was shown that version.
Steps == {"idle", "replay", "snapshot", "tail", "head", "append", "insert", "publish"}
Command ==
    [pc : Steps, key : Keys \cup {NoKey}, expected : Nat, early : BOOLEAN,
     from : Nat, base : Nat, prev : Nat, time : Nat]
Idle ==
    [pc |-> "idle", key |-> NoKey, expected |-> 0, early |-> FALSE,
     from |-> 0, base |-> 0, prev |-> 0, time |-> 0]

Event ==
    [sequence : Nat, key : Keys, expected : Nat, early : BOOLEAN,
     base : Nat, prev : Nat, time : Nat]

Version == IF log = <<>> THEN 0 ELSE log[Len(log)].sequence

Recorded(k) == \E i \in DOMAIN log : log[i].key = k
SameRequest(c) == \E i \in DOMAIN log : log[i].key = c.key /\ log[i].expected = c.expected

\* mutant: the previous hash is the one of the last snapshot
LogHeadOfSnapshot == snapshot
LogHead == Len(log)

HostClock(h) == now + Ahead[h]

----------------------------------------------------------------------------
(* verifyTableEventChain, from the snapshot of sequence `from` on *)

Linked(i) ==
    /\ log[i].sequence = i
    /\ log[i].prev = i - 1
    /\ i > 1 => log[i - 1].time <= log[i].time

Verified(from) == \A i \in from + 1..Len(log) : Linked(i)

----------------------------------------------------------------------------
(* The steps of a command *)

Goto(h, step) == cmd' = [cmd EXCEPT ![h].pc = step]
Quit(h) == cmd' = [cmd EXCEPT ![h] = Idle]

\* Nothing on the way of a command compares the version its client quotes with
\* the table: it may be older than the last one, or not exist yet.  A retry
\* quotes its key again.
Receive(h) ==
    /\ cmd[h].pc = "idle"
    /\ \E k \in Keys, v \in 0..MaxVersion :
           cmd' = [cmd EXCEPT ![h] = [Idle EXCEPT !.pc = "replay", !.key = k,
                                          !.expected = v, !.early = v > Version]]
    /\ UNCHANGED <<log, snapshot, now, told>>

\* The answer to a key that is recorded: the recorded event to an exact retry,
\* an error to another request under the same key.
AnswerRecorded(h) ==
    /\ Recorded(cmd[h].key)
    /\ told' = IF SameRequest(cmd[h]) THEN told \cup {cmd[h].key} ELSE told
    /\ Quit(h)
    /\ UNCHANGED <<log, snapshot, now>>

\* findIdempotency; only the creation of a table reads no state.
Replay(h) ==
    /\ cmd[h].pc = "replay"
    /\ \/ AnswerRecorded(h)
       \/ /\ ~Recorded(cmd[h].key)
          /\ Goto(h, IF cmd[h].expected = 0 THEN "head" ELSE "snapshot")
          /\ UNCHANGED <<log, snapshot, now, told>>

\* loadAggregate is two queries: the last snapshot, then the events after it.
ReadSnapshot(h) ==
    /\ cmd[h].pc = "snapshot"
    /\ cmd' = [cmd EXCEPT ![h].pc = "tail", ![h].from = snapshot]
    /\ UNCHANGED <<log, snapshot, now, told>>

\* mutant: the version of the snapshot is taken for the version of the table
BaseOfSnapshot(c) == c.from
BaseRead(c) == Version

\* The command is computed from the version read here, whatever version it
\* expects.  It may also be refused: by the rules, as every command is of a
\* table that does not exist, or because the chain does not verify.
ReadTail(h) ==
    /\ cmd[h].pc = "tail"
    /\ \/ /\ Version > 0 /\ Verified(cmd[h].from)
          /\ cmd' = [cmd EXCEPT ![h].pc = "head", ![h].base = BaseRead(cmd[h])]
       \/ Quit(h)
    /\ UNCHANGED <<log, snapshot, now, told>>

\* #record: head, then makeEvent with the clock of the host.
ReadHead(h) ==
    /\ cmd[h].pc = "head"
    /\ cmd' = [cmd EXCEPT ![h].pc = "append", ![h].prev = LogHead, ![h].time = HostClock(h)]
    /\ UNCHANGED <<log, snapshot, now, told>>

\* append begins with a second lookup of the key, before the row is locked.
CheckDuplicate(h) ==
    /\ cmd[h].pc = "append"
    /\ \/ AnswerRecorded(h)
       \/ /\ ~Recorded(cmd[h].key)
          /\ Goto(h, "insert")
          /\ UNCHANGED <<log, snapshot, now, told>>

\* mutant: the event takes the next free sequence, whatever version it expects
VersionIgnored(c) == TRUE
VersionMatches(c) == Version = c.expected

\* The primary key and the unique key of table_events.
Unique(c) ==
    \A i \in DOMAIN log : log[i].sequence # c.expected + 1 /\ log[i].key # c.key

EventOf(c) ==
    [sequence |-> c.expected + 1, key |-> c.key, expected |-> c.expected, early |-> c.early,
     base |-> c.base, prev |-> c.prev, time |-> c.time]

SnapshotAt(sequence) ==
    IF sequence % SnapshotEvery = 0 THEN sequence ELSE snapshot

\* The lock on the row of the table, the checks, the inserts and the commit.
Insert(h) ==
    /\ cmd[h].pc = "insert"
    /\ \/ /\ VersionMatches(cmd[h]) /\ Unique(cmd[h])
          /\ Len(log) < MaxVersion
          /\ log' = Append(log, EventOf(cmd[h]))
          /\ snapshot' = SnapshotAt(cmd[h].expected + 1)
          /\ Goto(h, "publish")
       \/ /\ ~(VersionMatches(cmd[h]) /\ Unique(cmd[h]))
          /\ Quit(h)
          /\ UNCHANGED <<log, snapshot>>
    /\ UNCHANGED <<now, told>>

\* The listeners are called, then the client is answered.
Publish(h) ==
    /\ cmd[h].pc = "publish"
    /\ told' = told \cup {cmd[h].key}
    /\ Quit(h)
    /\ UNCHANGED <<log, snapshot, now>>

\* The replica stops, or its client is gone, at any await.
Crash(h) ==
    /\ cmd[h].pc # "idle"
    /\ Quit(h)
    /\ UNCHANGED <<log, snapshot, now, told>>

Tick ==
    /\ now < MaxTime
    /\ now' = now + 1
    /\ UNCHANGED <<log, snapshot, cmd, told>>

Init ==
    /\ log = <<>>
    /\ snapshot = 0
    /\ now = 0
    /\ cmd = [h \in Handlers |-> Idle]
    /\ told = {}

Step(h) ==
    \/ Receive(h) \/ Replay(h) \/ ReadSnapshot(h) \/ ReadTail(h) \/ ReadHead(h)
    \/ CheckDuplicate(h) \/ Insert(h) \/ Publish(h) \/ Crash(h)

Next == Tick \/ \E h \in Handlers : Step(h)

Spec == Init /\ [][Next]_vars

----------------------------------------------------------------------------
(* Properties *)

TypeOK ==
    /\ log \in Seq(Event)
    /\ snapshot \in 0..Len(log)
    /\ now \in Nat
    /\ cmd \in [Handlers -> Command]
    /\ told \subseteq Keys

\* The chain that replay insists on ("sequence is not contiguous", "hash chain
\* is broken", "timestamps are invalid") is the one that concurrent appends
\* leave: every event of a command whose version existed when it came is linked
\* to the event before it.  Of a log of such events each suffix verifies, and
\* the table can be read whatever snapshot a reader starts from.
ChainVerifies == \A i \in DOMAIN log : log[i].early \/ Linked(i)

\* Concurrent commands, retries and crashes leave the table as if the commands
\* had been executed one at a time, each once and, if its version existed when
\* it came, on the state the others left; and a success that was reported is a
\* command that took effect.
Atomic ==
    INSTANCE AtomicLog WITH
        history <- [i \in DOMAIN log |->
                       [key |-> log[i].key, base |-> log[i].base, early |-> log[i].early]]
Linearizable == Atomic!Spec
============================================================================
