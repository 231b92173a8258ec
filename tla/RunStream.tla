----------------------------- MODULE RunStream -----------------------------
(* How the events of one run reach a browser.  The process that runs the   *)
(* closure records events in the store; the inspector polls the store and  *)
(* writes what is new to a response (server-sent events); the browser's    *)
(* EventSource reads it and reconnects when it ends.  Either process may   *)
(* die; the first request to a new inspector starts a pass that fails the  *)
(* live rows of processes that are gone.                                   *)
EXTENDS Integers, Sequences, FiniteSets

CONSTANTS
  MaxSeq,      \* bound on the events the closure records
  MaxFaults    \* bound on crashes, failed writes, cut connections, read errors

ASSUME BoundsAssumption == MaxSeq \in Nat \ {0} /\ MaxFaults \in Nat

VARIABLES
  embedded,   \* whether the inspector's own process runs the closure
  owner,      \* that process: "alive", "gone", or "reused" (gone, its pid taken)
  closure,    \* "running", "cancelled" (the cancel is recorded once), "ended"
  seq,        \* the recorder's workflowSeq
  log,        \* the stored events of the run, in runSeq order
  row,        \* the stored status: "live" or "settled"
  server,     \* the inspector: "up" or "down"
  abandon,    \* its pass over live rows: "todo", "listed" (the row was read,
              \* live), "read" (the events too) or "done"
  next,       \* the runSeq the pass would record with
  lost,       \* history: the process was gone when the pass read the live row,
              \* and its pid was free for as long as the pass took
  stream,     \* the poll of one response: "closed", "polling" or "checking"
  cursor,     \* the runSeq it has sent up to
  wire,       \* what was written and not yet read by the browser
  conn,       \* the browser: "away", "connecting", "open", "closed" or "failed"
  after,      \* the afterSeq of its EventSource URL
  shown,      \* the runSeqs it shows, in order
  faults

run == <<embedded, owner, closure, seq>>
store == <<log, row>>
boot == <<abandon, next, lost>>
poll == <<server, stream, cursor>>
browser == <<conn, after, shown>>
vars == <<run, store, boot, poll, wire, browser, faults>>

\* What a run records is terminal or not; "lost" is the terminal event of the
\* inspector's pass.
Kinds == {"step", "end", "lost"}
Seqs == Nat \ {0}
Event == [seq : Seqs, kind : Kinds]
Eof == [seq |-> 0, kind |-> "eof"]
ReadError == [seq |-> 0, kind |-> "error"]

TypeOK ==
  /\ embedded \in BOOLEAN
  /\ owner \in {"alive", "gone", "reused"} /\ closure \in {"running", "cancelled", "ended"}
  /\ seq \in 0..MaxSeq
  /\ log \in Seq(Event) /\ log # <<>>
  /\ row \in {"live", "settled"}
  /\ server \in {"up", "down"}
  /\ abandon \in {"todo", "listed", "read", "done"} /\ next \in Nat /\ lost \in BOOLEAN
  /\ stream \in {"closed", "polling", "checking"}
  /\ cursor \in {0} \cup Seqs
  /\ wire \in Seq(Event \cup {Eof, ReadError})
  /\ conn \in {"away", "connecting", "open", "closed", "failed"}
  /\ after \in {0} \cup Seqs /\ shown \in Seq(Seqs)
  /\ faults \in 0..MaxFaults

LastSeq(events) == events[Len(events)].seq
Ends(event) == event.kind \in {"end", "lost"}
Terminal(events) == \E i \in DOMAIN events : Ends(events[i])

Init ==
  /\ embedded \in BOOLEAN
  /\ owner = "alive" /\ closure = "running" /\ seq = 1
  /\ log = <<[seq |-> 1, kind |-> "step"]>> /\ row = "live"
  /\ server = "up" /\ abandon = "done" /\ next = 0 /\ lost = FALSE
  /\ stream = "closed" /\ cursor = 0 /\ wire = <<>>
  /\ conn = "away" /\ after = 0 /\ shown = <<>>
  /\ faults = 0

Fault == faults < MaxFaults /\ faults' = faults + 1

-----------------------------------------------------------------------------
(* The closure and its recorder.                                           *)

\* materializeEvent: the event is inserted, then the row is updated.  Each of
\* the two may fail, and there is no transaction around them.
Recorded(events, status) ==
  \/ log' = events /\ row' = status /\ UNCHANGED faults
  \/ log' \in {log, events} /\ UNCHANGED row /\ Fault

\* What a recorded event makes of the closure.  A cancel after the body has
\* returned is recorded there, thrown, and recorded again where it is caught.
\* Effects and steps that nobody waited for go on reporting after the end.
AfterEvent(kind) ==
  CASE kind = "step"         -> {closure}
    [] closure = "running"   -> {"cancelled", "ended"}
    [] closure = "cancelled" -> {"ended"}
    [] OTHER                 -> {}

\* RunRecorder.emit: the number is taken and the event recorded in one stretch.
\* A failure to record is only reported: that event is missing for good.
Emit(kind) ==
  /\ owner = "alive" /\ seq < MaxSeq
  /\ closure' \in AfterEvent(kind) /\ seq' = seq + 1
  /\ Recorded(Append(log, [seq |-> seq + 1, kind |-> kind]),
              IF kind = "end" THEN "settled" ELSE row)
  /\ UNCHANGED <<embedded, owner, boot, poll, wire, browser>>

\* The response is cut: the browser reconnects, the server stops polling.
Cut == /\ stream' = "closed" /\ wire' = <<>>
       /\ conn' = IF conn = "open" THEN "connecting" ELSE conn

\* The process that runs the closure dies.
OwnerDies ==
  /\ Fault /\ owner = "alive" /\ owner' = "gone"
  /\ IF embedded THEN server' = "down" /\ Cut ELSE UNCHANGED <<server, stream, wire, conn>>
  /\ UNCHANGED <<embedded, closure, seq, store, boot, cursor, after, shown>>

\* Another process takes its pid, or gives it up again.
PidChanges ==
  /\ owner \in {"gone", "reused"} /\ owner' \in {"gone", "reused"} \ {owner}
  /\ lost' = (lost /\ abandon = "done")
  /\ UNCHANGED <<embedded, closure, seq, store, abandon, next, poll, wire, browser, faults>>

\* The inspector dies or is restarted, and is not what runs the closure.
ServerDies ==
  /\ Fault /\ server = "up" /\ (embedded => owner # "alive")
  /\ server' = "down" /\ Cut
  /\ UNCHANGED <<run, store, boot, cursor, after, shown>>

-----------------------------------------------------------------------------
(* The inspector.                                                          *)

\* A new process has no latch of an earlier one.
Boot ==
  /\ server = "down"
  /\ server' = "up" /\ abandon' = "todo"
  /\ UNCHANGED <<run, store, next, lost, stream, cursor, wire, browser, faults>>

\* Mutant of OwnerIsGone: every process but this one is taken for gone.
OwnerIsNotThisOne == ~embedded \/ owner # "alive"

\* runOwnerLiveness: a pid that answers a signal is alive, whoever has it.
OwnerIsGone == owner = "gone"

\* How many events are numbered up to c: listEvents returns them by runSeq,
\* those of one number in the order in which they were inserted.
Covered(c) == Cardinality({i \in DOMAIN log : log[i].seq <= c})
Inserted(event) ==
  SubSeq(log, 1, Covered(event.seq)) \o <<event>> \o SubSeq(log, Covered(event.seq) + 1, Len(log))

\* A request that finds the latch open starts abandonLiveRunsLostOnRestart,
\* which lists the rows ...
ListRuns ==
  /\ server = "up" /\ abandon = "todo"
  /\ abandon' = IF row = "live" THEN "listed" ELSE "done"
  /\ lost' = IF row = "live" THEN owner = "gone" ELSE lost
  /\ UNCHANGED <<run, store, next, poll, wire, browser, faults>>

\* Mutant of NextSeq: the events are counted.
NextSeqOfCount == Len(log) + 1

NextSeq == LastSeq(log) + 1

\* ... reads the events of a row that was live ...
ListEvents ==
  /\ server = "up" /\ abandon = "listed"
  /\ abandon' = "read" /\ next' = NextSeq
  /\ UNCHANGED <<run, store, lost, poll, wire, browser, faults>>

\* ... leaves it alone if its process may be running it ...
LeaveRun ==
  /\ server = "up" /\ abandon = "read" /\ ~OwnerIsGone
  /\ abandon' = "done"
  /\ UNCHANGED <<run, store, next, lost, poll, wire, browser, faults>>

\* ... and otherwise records workflow_failed with the number computed before,
\* without another look at the row.
FailLostRun ==
  /\ server = "up" /\ abandon = "read" /\ OwnerIsGone
  /\ log' = Inserted([seq |-> next, kind |-> "lost"]) /\ row' = "settled"
  /\ abandon' = "done"
  /\ UNCHANGED <<run, next, lost, poll, wire, browser, faults>>

\* Mutant of AfterFailedPass: a pass that failed counts as done.
AfterFailedPassDone == "done"

\* createOnceAsync forgets a pass that failed.
AfterFailedPass == "todo"

\* The pass throws, at any of its reads or in the middle of its write.  The
\* requests that wait for it fail, and an EventSource does not try again then.
PassFails ==
  /\ Fault /\ server = "up" /\ abandon \in {"todo", "listed", "read"}
  /\ abandon' = AfterFailedPass
  /\ \/ UNCHANGED log
     \/ abandon = "read" /\ OwnerIsGone /\ log' = Inserted([seq |-> next, kind |-> "lost"])
  /\ conn' \in {conn} \cup (IF conn = "connecting" THEN {"failed"} ELSE {})
  /\ UNCHANGED <<run, row, next, lost, poll, wire, after, shown>>

\* listEvents with afterSeq.
EventsAfter(c) == SubSeq(log, Covered(c) + 1, Len(log))

\* One poll of the response: everything after the cursor is written; with a
\* terminal event the response ends, with nothing new the status is read next.
Poll ==
  LET new == EventsAfter(cursor) IN
  /\ stream = "polling"
  /\ cursor' = IF new = <<>> THEN cursor ELSE LastSeq(new)
  /\ wire' = wire \o new \o (IF Terminal(new) THEN <<Eof>> ELSE <<>>)
  /\ stream' = IF Terminal(new) THEN "closed"
               ELSE IF new = <<>> THEN "checking" ELSE "polling"
  /\ UNCHANGED <<run, store, boot, server, browser, faults>>

\* shouldCloseWorkflowRunStream, after an empty poll.
CheckStatus ==
  /\ stream = "checking"
  /\ stream' = IF row = "settled" THEN "closed" ELSE "polling"
  /\ wire' = IF row = "settled" THEN Append(wire, Eof) ELSE wire
  /\ UNCHANGED <<run, store, boot, server, cursor, browser, faults>>

\* A poll that throws reports the error and ends the response.
PollFails ==
  /\ Fault /\ stream # "closed"
  /\ stream' = "closed" /\ wire' = wire \o <<ReadError, Eof>>
  /\ UNCHANGED <<run, store, boot, server, cursor, browser>>

-----------------------------------------------------------------------------
(* The browser.                                                            *)

Ready == server = "up" /\ abandon = "done"

\* The page's loader returns the events stored so far.
Load ==
  /\ Ready /\ conn = "away"
  /\ conn' = "connecting" /\ after' = LastSeq(log)
  /\ shown' = [i \in DOMAIN log |-> log[i].seq]
  /\ UNCHANGED <<run, store, boot, poll, wire, faults>>

\* EventSource connects to the URL it was created with.
Connect ==
  /\ Ready /\ conn = "connecting"
  /\ conn' = "open" /\ stream' = "polling" /\ cursor' = after /\ wire' = <<>>
  /\ UNCHANGED <<run, store, boot, server, after, shown, faults>>

\* Mutant of Shows: an event that was already shown is appended again.
ShowsAgain(e) == Append(shown, e.seq)

\* An event whose runSeq is already there is dropped.
Shows(e) == IF \E i \in DOMAIN shown : shown[i] = e.seq THEN shown ELSE Append(shown, e.seq)

\* Mutant of AfterEof: the end of a response is taken for the end of the run.
AfterEofStop == "closed"

\* EventSource reconnects when a response ends.
AfterEof == "connecting"

Receive ==
  LET e == Head(wire) IN
  /\ conn = "open" /\ wire # <<>>
  /\ conn' = CASE Ends(e)          -> "closed"
               [] e.kind = "error" -> "failed"
               [] e.kind = "eof"   -> AfterEof
               [] OTHER            -> "open"
  /\ shown' = IF e \in {Eof, ReadError} THEN shown ELSE Shows(e)
  /\ wire' = IF conn' = "open" THEN Tail(wire) ELSE <<>>
  /\ stream' = IF conn' = "open" THEN stream ELSE "closed"
  /\ UNCHANGED <<run, store, boot, server, cursor, after, faults>>

ConnectionLost ==
  /\ Fault /\ conn = "open" /\ Cut
  /\ UNCHANGED <<run, store, boot, server, cursor, after, shown>>

Next ==
  \/ \E k \in {"step", "end"} : Emit(k)
  \/ OwnerDies \/ PidChanges \/ ServerDies \/ Boot
  \/ ListRuns \/ ListEvents \/ LeaveRun \/ FailLostRun \/ PassFails
  \/ Poll \/ CheckStatus \/ PollFails
  \/ Load \/ Connect \/ Receive \/ ConnectionLost

\* The timers and promises of an inspector that is up, and of EventSource, run;
\* a page that connects makes a request, which starts the pass if none is done.
\* Nothing starts the inspector, the closure owes nothing, and nobody has to
\* open a page.
Fairness ==
  /\ WF_vars(conn = "connecting" /\ ListRuns)
  /\ WF_vars(ListEvents) /\ WF_vars(LeaveRun \/ FailLostRun)
  /\ WF_vars(Poll) /\ WF_vars(CheckStatus)
  /\ WF_vars(Connect) /\ WF_vars(Receive)

Spec == Init /\ [][Next]_vars /\ Fairness

-----------------------------------------------------------------------------
\* The numbers follow the order of recording: the pass did not use a number that
\* the run itself used, or passed, after its events were read.
Numbered ==
  \A i, j \in DOMAIN log : i < j =>
    /\ log[i].seq < log[j].seq
    /\ log[i].kind = "lost" => log[j].kind = "lost"

\* When the process of a run was gone before a pass read its row, the pass adds
\* to the end of the log, under a number above all others, although it computed
\* that number before its last await, and although numbers of lost writes are
\* missing (abandonLiveRunsLostOnRestart, nextRunSeq).
LostEventIsLast ==
  [][lost /\ log' # log =>
       /\ \A i \in DOMAIN log : log[i].seq < next
       /\ log' = Append(log, [seq |-> next, kind |-> "lost"])]_vars

\* Whatever connections are cut and opened again, the browser shows a prefix
\* of the stored events: none missing in between, none twice, in order.
ShownIsPrefixOfLog ==
  Numbered => /\ Len(shown) <= Len(log)
              /\ \A i \in DOMAIN shown : shown[i] = log[i].seq

\* Nothing is recorded for a run as lost while its process lives, in part or
\* whole, whoever owns it and whoever restarts (abandonLiveRunsLostOnRestart).
OnlyLostRunsAreFailed == owner = "alive" => \A i \in DOMAIN log : log[i].kind # "lost"

\* A page that waits when a terminal event it did not load is stored shows a
\* terminal event, however often its response is cut, closed or opened again,
\* unless it was told that the stream failed, its request failed with the pass,
\* or the inspector is down.
TerminalIsShown ==
  (conn \in {"connecting", "open"} /\ \E i \in DOMAIN log : Ends(log[i]) /\ log[i].seq > after)
    ~> \/ conn = "failed" \/ server = "down" \/ ~Numbered
       \/ \E i \in DOMAIN shown : Ends(log[i])

\* A page that asks a new inspector for a lost run gets it settled, unless the
\* request fails, the inspector dies or the pid of the run is taken.
LostRunIsSettled ==
  (server = "up" /\ abandon = "todo" /\ owner = "gone" /\ conn = "connecting")
    ~> (row = "settled" \/ conn = "failed" \/ server = "down" \/ owner = "reused")

\* The response of a run ends with its terminal event: when the server ends
\* it without an error, and the page had loaded no terminal event, one that is
\* stored was sent before.
StreamEndsWithTerminal ==
  \A i \in DOMAIN wire :
    /\ wire[i] = Eof /\ ~\E j \in 1..i : wire[j] = ReadError
    /\ Terminal(log) /\ \A j \in DOMAIN log : Ends(log[j]) => log[j].seq > after
    => \E j \in 1..i : Ends(wire[j])
=============================================================================
