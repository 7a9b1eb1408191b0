------------------------------ MODULE Backtest ------------------------------
(***************************************************************************)
(* The backtest of src/ingestion/pipeline.py: _amain races a replay task   *)
(* (run_backtest, ReplayDriver and the CSV reader of csv_loader.py)        *)
(* against a task that waits for a signal, beside the stall watchdog of    *)
(* metrics.py.  One event loop runs them: while the replay runs between    *)
(* two awaits nothing else does, so a signal, a timer or a cancellation    *)
(* meets it only asleep.                                                   *)
(*                                                                         *)
(* A row of the fixture is its timestamp when it is well formed, Bad when  *)
(* map_csv_row rejects it, and Broken when the replay cannot go past it: a *)
(* truncated gzip, an invalid byte, or a time that satisfies the schema    *)
(* and that fromisoformat refuses.  Timers fire when due.                  *)
(***************************************************************************)
EXTENDS Integers, Sequences, SequencesExt

CONSTANTS Times,        \* block timestamps, in units of the replay's pace
          Bad, Broken,  \* the rows that are no event
          MaxRows,      \* bound on the length of a fixture
          Capacity,     \* of the DequeRingBuffer
          YieldEvery,   \* _YIELD_EVERY, 1000 in the code
          Interval      \* interval_s of the watchdog, in the same units

ASSUME BacktestAssumption ==
    /\ Times \subseteq Nat /\ {Bad, Broken} \cap Times = {} /\ Bad # Broken
    /\ Capacity \in Nat \ {0} /\ YieldEvery \in Nat \ {0} /\ Interval \in Nat \ {0}
    /\ MaxRows \in Nat

VARIABLES rows,     \* the fixture
          asap,     \* is the speed "asap" (no pacing)?
          usable,   \* does the scenario resolve and the speed parse?
          work,     \* the replay task
          pos,      \* rows read
          prev,     \* prev_ts, or None before the first event
          wake,     \* when asyncio.sleep(delay) ends
          buffer,   \* the ring: <<row, time of its write>>, oldest first
          written,  \* ReplayDriver.run's count
          errorLog, \* the lines written to csv_errors.log
          ingested, \* EVENTS_INGESTED
          main,     \* where _amain is
          stop,     \* the asyncio.Event, and with it the task awaiting it
          waiter, watchdog, \* the states of the other two tasks
          nextCheck,\* when the watchdog looks next
          clock

fixture == <<rows, asap, usable>>
replay == <<pos, prev, wake, buffer, written, errorLog, ingested>>
vars == <<fixture, work, replay, main, stop, waiter, watchdog, nextCheck, clock>>

None == -1
Ended == {"returned", "failed", "cancelled"}
LoopFree == work # "running"
Line(i) == i + 1                \* enumerate(reader, start=2)

Init == /\ rows \in BoundedSeq(Times \cup {Bad, Broken}, MaxRows)
        /\ asap \in BOOLEAN /\ usable \in BOOLEAN
        /\ work = "running" /\ pos = 0 /\ prev = None /\ wake = 0
        /\ buffer = << >> /\ written = 0 /\ errorLog = << >> /\ ingested = 0
        /\ main = "waiting" /\ stop = FALSE
        /\ waiter = "pending" /\ watchdog = "pending"
        /\ nextCheck = Interval /\ clock = 0

-----------------------------------------------------------------------------
(* resolve_scenario_file or _parse_rate raises before a row is read.         *)
Reject == /\ work = "running" /\ ~usable
          /\ work' = "failed"
          /\ UNCHANGED <<fixture, replay, main, stop, waiter, watchdog, nextCheck, clock>>

(* The reader raises, or ReplayDriver.run before it paces or writes.         *)
ReadBroken == /\ work = "running" /\ usable /\ pos < Len(rows) /\ rows[pos + 1] = Broken
              /\ work' = "failed"
              /\ UNCHANGED <<fixture, replay, main, stop, waiter, watchdog, nextCheck, clock>>

(* Mutant: the first bad row ends the replay as if it were the last.         *)
SkipBadEnds == /\ work = "running" /\ usable /\ pos < Len(rows) /\ rows[pos + 1] = Bad
               /\ pos' = Len(rows)
               /\ errorLog' = Append(errorLog, Line(pos + 1))
               /\ UNCHANGED <<fixture, work, prev, wake, buffer, written, ingested,
                              main, stop, waiter, watchdog, nextCheck, clock>>

(* CsvRowError: a line in the error log, and on to the next row.             *)
SkipBad == /\ work = "running" /\ usable /\ pos < Len(rows) /\ rows[pos + 1] = Bad
           /\ pos' = pos + 1
           /\ errorLog' = Append(errorLog, Line(pos + 1))
           /\ UNCHANGED <<fixture, work, prev, wake, buffer, written, ingested,
                          main, stop, waiter, watchdog, nextCheck, clock>>

(* buffer.write(event); count += 1, then the reader's sleep(0) after every   *)
(* YieldEvery-th event.                                                      *)
WriteRow(i) ==
    /\ buffer' = LET b == Append(buffer, <<i, clock>>)
                 IN  IF Len(b) > Capacity THEN Tail(b) ELSE b
    /\ written' = written + 1
    /\ work' = IF written % YieldEvery = 0 THEN "yielding" ELSE "running"
    /\ prev' = rows[i]
    /\ pos' = i
    /\ UNCHANGED <<wake, errorLog, ingested>>

Delay(ts) == IF prev = None \/ asap THEN 0 ELSE ts - prev

(* Mutant: the timestamp is remembered when it was slept for only.           *)
WriteAtOnceForgets ==
    /\ work = "running" /\ usable /\ pos < Len(rows) /\ rows[pos + 1] \in Times
    /\ Delay(rows[pos + 1]) <= 0
    /\ buffer' = Append(buffer, <<pos + 1, clock>>)
    /\ written' = written + 1
    /\ pos' = pos + 1
    /\ UNCHANGED <<fixture, work, prev, wake, errorLog, ingested, main, stop,
                   waiter, watchdog, nextCheck, clock>>

(* An event of the same block, of an earlier time or of an "asap" replay.    *)
WriteAtOnce ==
    /\ work = "running" /\ usable /\ pos < Len(rows) /\ rows[pos + 1] \in Times
    /\ Delay(rows[pos + 1]) <= 0
    /\ WriteRow(pos + 1)
    /\ UNCHANGED <<fixture, main, stop, waiter, watchdog, nextCheck, clock>>

Pace == /\ work = "running" /\ usable /\ pos < Len(rows) /\ rows[pos + 1] \in Times
        /\ Delay(rows[pos + 1]) > 0
        /\ work' = "sleeping"
        /\ wake' = clock + Delay(rows[pos + 1])
        /\ UNCHANGED <<fixture, pos, prev, buffer, written, errorLog, ingested, main,
                       stop, waiter, watchdog, nextCheck, clock>>

WakeAndWrite ==
    /\ work = "sleeping" /\ clock = wake /\ main = "waiting"
    /\ WriteRow(pos + 1)
    /\ UNCHANGED <<fixture, main, stop, waiter, watchdog, nextCheck, clock>>

Resume == /\ work = "yielding" /\ main = "waiting"
          /\ work' = "running"
          /\ UNCHANGED <<fixture, replay, main, stop, waiter, watchdog, nextCheck, clock>>

(* The replay is through: run_backtest counts its events, all at once.       *)
Finish == /\ work = "running" /\ usable /\ pos = Len(rows)
          /\ ingested' = ingested + written
          /\ work' = "returned"
          /\ UNCHANGED <<fixture, pos, prev, wake, buffer, written, errorLog, main,
                         stop, waiter, watchdog, nextCheck, clock>>

-----------------------------------------------------------------------------
(* The signal handler sets the event; the task awaiting it returns.          *)
Signal == /\ LoopFree /\ main = "waiting" /\ ~stop
          /\ stop' = TRUE
          /\ waiter' = "returned"
          /\ UNCHANGED <<fixture, work, replay, main, watchdog, nextCheck, clock>>

(* Mutant: return_when=ALL_COMPLETED.                                        *)
CancelPendingAll ==
    /\ LoopFree /\ main = "waiting" /\ work \in Ended /\ waiter \in Ended
    /\ main' = "closing"
    /\ UNCHANGED <<fixture, work, replay, stop, waiter, watchdog, nextCheck, clock>>

(* asyncio.wait returns: the task still pending is cancelled and gathered.   *)
(* It sleeps, so the CancelledError ends it; a row it slept for is dropped.  *)
CancelPending ==
    /\ LoopFree /\ main = "waiting" /\ (work \in Ended \/ waiter \in Ended)
    /\ work' = IF work \in Ended THEN work ELSE "cancelled"
    /\ waiter' = IF waiter \in Ended THEN waiter ELSE "cancelled"
    /\ main' = "closing"
    /\ UNCHANGED <<fixture, replay, stop, watchdog, nextCheck, clock>>

(* finally: the watchdog is cancelled and awaited, the server shut down.     *)
Shutdown == /\ LoopFree /\ main = "closing"
            /\ watchdog' = "cancelled"
            /\ main' = "done"
            /\ UNCHANGED <<fixture, work, replay, stop, waiter, nextCheck, clock>>

(* _watchdog_loop: a check that logs, then the next interval.                *)
Check == /\ LoopFree /\ watchdog = "pending" /\ clock = nextCheck
         /\ nextCheck' = nextCheck + Interval
         /\ UNCHANGED <<fixture, work, replay, main, stop, waiter, watchdog, clock>>

Tick == /\ work = "sleeping" /\ clock < wake /\ clock < nextCheck /\ main = "waiting"
        /\ clock' = clock + 1
        /\ UNCHANGED <<fixture, work, replay, main, stop, waiter, watchdog, nextCheck>>

Replay == \/ Reject \/ ReadBroken \/ SkipBad \/ WriteAtOnce \/ Pace
          \/ WakeAndWrite \/ Resume \/ Finish
Main == CancelPending \/ Shutdown

Next == Replay \/ Main \/ Signal \/ Check \/ Tick

(* The event loop runs every task that can run, and time passes; a signal    *)
(* need not come.                                                            *)
FairSpec == Init /\ [][Next]_vars /\ WF_vars(Replay) /\ WF_vars(Main)
                 /\ WF_vars(Check) /\ WF_vars(Tick)

-----------------------------------------------------------------------------
(* The rows read up to i that are events, and those that were rejected.      *)
Events(i) == {j \in 1 .. i : rows[j] \in Times}
Rejected(i) == {j \in 1 .. i : rows[j] = Bad}

(* Every row read so far went to one place, in file order: the well-formed   *)
(* ones to the ring (of which it keeps the newest Capacity), the bad ones to *)
(* the error log under their line numbers; a cancellation loses at most the  *)
(* row the driver was sleeping for (csv_loader.py:92-121, 186-204).          *)
RowsAccounted ==
    /\ written = Cardinality(Events(pos))
    /\ Len(buffer) = IF written < Capacity THEN written ELSE Capacity
    /\ \A i \in Events(pos) :
          LET rank == Cardinality(Events(i))
              evicted == written - Len(buffer)
          IN  rank > evicted => buffer[rank - evicted][1] = i
    /\ Len(errorLog) = Cardinality(Rejected(pos))
    /\ \A i \in Rejected(pos) : errorLog[Cardinality(Rejected(i))] = Line(i)
    /\ work = "returned" => pos = Len(rows) /\ ingested = written

(* A paced replay writes no event earlier, after the first one, than its     *)
(* timestamp says, whatever bad rows and steps back in time lie between      *)
(* (csv_loader.py:195-203).                                                  *)
NeverEarly ==
    \A k \in DOMAIN buffer :
        asap \/ \A i \in 1 .. buffer[k][1] :
            (rows[i] \in Times /\ \A j \in 1 .. i - 1 : rows[j] \notin Times)
                => buffer[k][2] >= rows[buffer[k][1]] - rows[i]

(* A backtest ends, by its fixture, by its failure or by the signal, in      *)
(* whichever order they came; and when _amain has returned no task is left   *)
(* behind, and none was cancelled but for the signal (pipeline.py:141-165).  *)
BacktestEnds ==
    <>(/\ main = "done"
       /\ {work, waiter, watchdog} \subseteq Ended
       /\ work = "cancelled" => stop)
=============================================================================
