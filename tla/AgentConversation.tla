-------------------------- MODULE AgentConversation --------------------------
(* One conversation of the inspector: the turns of agents on its            *)
(* memoryScope, the transcript they load once and then save as a whole, the *)
(* title, and the people who send, rename and delete.  Turns may overlap:   *)
(* nothing in the code keeps a second one out.                              *)
EXTENDS Integers, Sequences

CONSTANTS
  Turns,        \* calls of agent.run on this memoryScope
  Prompted,     \* those whose agent has a system prompt
  Structured,   \* those with tools and an outputSchema
  Titled,       \* those whose agent has a titleWorkflow
  NoTurn,
  MaxCommits,   \* bound on the commits of each turn
  MaxMessages,  \* bound on the messages of one model step
  MaxRequests,  \* bound on the requests to rename or delete in one process
  MaxRestarts   \* bound on restarts of the inspector

ASSUME TurnsAssumption ==
  /\ Prompted \cup Structured \cup Titled \subseteq Turns /\ NoTurn \notin Turns
  /\ MaxCommits \in [Turns -> Nat] /\ {MaxMessages, MaxRequests, MaxRestarts} \subseteq Nat

VARIABLES
  transcript,  \* what the message store holds; << >> when it has nothing
  pc,          \* how far the turn has got
  loaded,      \* its storedMessages
  added,       \* its allNewMessages
  batch,       \* how many messages of them wait for their commit event
  commits,     \* its agent_messages_committed events
  order,       \* the turns in the order of their agent_started events
  session,     \* the inspector's entry for the conversation: "here" or "none"
  barred,      \* whether deletedMemoryScopes has it
  title,       \* of that entry: "placeholder", "generated" or "chosen"
  row,         \* what the metadata store holds
  saves,       \* how many calls of persistInspectorSession nobody awaits
  renaming,    \* whether renameAgentSession awaits one
  deleting,    \* how far deleteAgentSession has got
  restarts,
  fresh,       \* history: nobody else wrote since the turn loaded
  disturbed,   \* history: a turn that was not fresh has written, or a delete
  renamed,     \* history: a rename was acknowledged, and no restart came between a
               \* generated title and the save that puts the chosen one back
  revived      \* history: the row was written again after its deletion

store == <<transcript, loaded, added, batch, commits, fresh, disturbed>>
inspector == <<session, barred, title, row, saves, renaming, deleting, restarts,
               renamed, revived>>
vars == <<store, pc, order, inspector>>

Roles == {"system", "user", "reply", "format"}
Message == [turn : Turns, role : Roles, n : Nat]
Commit == [total : Nat, count : Nat]
Titles == {"placeholder", "generated", "chosen"}
InFlight == {"sent", "started", "loaded", "loop", "loopCommit", "prose",
             "asking", "format", "formatCommit", "titling", "titled"}

TypeOK ==
  /\ transcript \in Seq(Message)
  /\ pc \in [Turns -> InFlight \cup {"idle", "ended"}]
  /\ loaded \in [Turns -> Seq(Message)] /\ added \in [Turns -> Seq(Message)]
  /\ batch \in [Turns -> Nat] /\ commits \in [Turns -> Seq(Commit)]
  /\ order \in Seq(Turns)
  /\ session \in {"here", "none"} /\ barred \in BOOLEAN /\ title \in Titles
  /\ row \in [title : Titles, deleted : BOOLEAN]
  /\ saves \in Nat
  /\ renaming \in BOOLEAN /\ deleting \in {"no", "marking", "marked", "dropped", "done"}
  /\ restarts \in 0..MaxRestarts
  /\ fresh \in [Turns -> BOOLEAN]
  /\ disturbed \in BOOLEAN /\ renamed \in BOOLEAN /\ revived \in BOOLEAN

\* createStandaloneAgentSession: an entry, its row, and no transcript.
Init ==
  /\ transcript = <<>> /\ order = <<>>
  /\ pc = [t \in Turns |-> "idle"]
  /\ loaded = [t \in Turns |-> <<>>] /\ added = [t \in Turns |-> <<>>]
  /\ batch = [t \in Turns |-> 0] /\ commits = [t \in Turns |-> <<>>]
  /\ session = "here" /\ barred = FALSE /\ title = "placeholder"
  /\ row = [title |-> "placeholder", deleted |-> FALSE]
  /\ saves = 0 /\ renaming = FALSE /\ deleting = "no" /\ restarts = 0
  /\ fresh = [t \in Turns |-> FALSE]
  /\ disturbed = FALSE /\ renamed = FALSE /\ revived = FALSE

Goes(t, from, to) == pc[t] = from /\ pc' = [pc EXCEPT ![t] = to]

-----------------------------------------------------------------------------
(* The transcript of a turn.                                               *)

IsTurn(m) == m.role # "system"
HasPin(messages) == messages # <<>> /\ ~IsTurn(Head(messages))

\* splitStoredSystemPrompt, withStoredSystemPrompt: the system prompt that a
\* scope was started with stays its first message; a new scope is pinned to the
\* prompt of the turn that starts it, one without a pin is never pinned later.
Pin(t) ==
  IF HasPin(loaded[t]) THEN <<Head(loaded[t])>>
  ELSE IF loaded[t] = <<>> /\ t \in Prompted
       THEN <<[turn |-> t, role |-> "system", n |-> 0]>>
       ELSE <<>>

User(t) == [turn |-> t, role |-> "user", n |-> 0]
FormatRequest(t) == [turn |-> t, role |-> "format", n |-> Len(added[t])]
Replies(t, k) == [i \in 1..k |-> [turn |-> t, role |-> "reply", n |-> Len(added[t]) + i - 1]]

\* What the turn saves: the pin, what it loaded, its user message, and its own.
Persisted(t, own) ==
  Pin(t) \o (IF HasPin(loaded[t]) THEN Tail(loaded[t]) ELSE loaded[t]) \o <<User(t)>> \o own

\* MessageStore.save replaces what is there, whoever wrote it.
Save(t, own) ==
  /\ transcript' = Persisted(t, own)
  /\ fresh' = [u \in Turns |-> u = t /\ fresh[t]]
  /\ disturbed' = (disturbed \/ ~fresh[t])

\* Mutant of SaveStep: the step's messages replace those of earlier steps.
SaveStepReplacing(t, messages) ==
  /\ added' = [added EXCEPT ![t] = messages] /\ batch' = [batch EXCEPT ![t] = Len(messages)]
  /\ Save(t, messages)

\* persistResponseMessages, up to the store: nothing is saved for no messages.
SaveStep(t, messages) ==
  /\ added' = [added EXCEPT ![t] = @ \o messages] /\ batch' = [batch EXCEPT ![t] = Len(messages)]
  /\ IF messages = <<>> THEN UNCHANGED <<transcript, fresh, disturbed>>
                        ELSE Save(t, added'[t])

\* Mutant of CommitOf: the total leaves the pinned system prompt out.
CommitWithoutPin(t) == [total |-> 1 + Len(added[t]), count |-> batch[t]]

\* ... and the event after it.
CommitOf(t) == [total |-> Len(Persisted(t, added[t])), count |-> batch[t]]

-----------------------------------------------------------------------------
(* A turn: executeTurn, one action for each stretch between two awaits that *)
(* touches shared state.                                                    *)

\* startAgentTurn: agent.run records agent_started; the entry is persisted.
Send(t) ==
  /\ Goes(t, "idle", "sent")
  /\ order' = Append(order, t)
  /\ saves' = IF session = "here" THEN saves + 1 ELSE saves
  /\ UNCHANGED <<store, session, barred, title, row, renaming, deleting, restarts,
                 renamed, revived>>

\* registerAgentSessionFromEvent, in the inspector's observer.
Observe(t) ==
  /\ Goes(t, "sent", "started")
  /\ IF session = "none" /\ ~barred
       THEN session' = "here" /\ title' = "placeholder"
       ELSE UNCHANGED <<session, title>>
  /\ UNCHANGED <<store, order, barred, row, saves, renaming, deleting, restarts,
                 renamed, revived>>

Load(t) ==
  /\ Goes(t, "started", "loaded")
  /\ loaded' = [loaded EXCEPT ![t] = transcript] /\ fresh' = [fresh EXCEPT ![t] = TRUE]
  /\ UNCHANGED <<transcript, added, batch, commits, disturbed, order, inspector>>

\* After resolveAgentTools: the user's message is stored before the model runs.
SaveUser(t) ==
  /\ Goes(t, "loaded", "loop")
  /\ Save(t, <<>>)
  /\ UNCHANGED <<loaded, added, batch, commits, order, inspector>>

\* onStepEnd, also for the partial text of a step that fails.  The call that
\* asks for the schema has one step.
StepEnds(t) ==
  /\ Len(commits[t]) < MaxCommits[t]
  /\ \/ Goes(t, "loop", "loopCommit")
     \/ Goes(t, "format", "formatCommit")
  /\ \E k \in 0..MaxMessages : SaveStep(t, Replies(t, k))
  /\ UNCHANGED <<loaded, commits, order, inspector>>

Committed(t) ==
  /\ commits' = [commits EXCEPT ![t] = Append(@, CommitOf(t))]
  /\ batch' = [batch EXCEPT ![t] = 0]
  /\ UNCHANGED <<transcript, loaded, added, fresh, disturbed, order, inspector>>

\* A conversation is titled after its first turn.
AfterStream(t) ==
  IF t \in Titled /\ \A i \in DOMAIN loaded[t] : ~IsTurn(loaded[t][i])
  THEN "titling" ELSE "ended"

\* After the commit event the model goes on with its next step, or the stream
\* ends: with what was asked for or, in a Structured turn, with prose.
StepCommitted(t) ==
  /\ \/ Goes(t, "loopCommit", "loop")
     \/ Goes(t, "loopCommit", AfterStream(t))
     \/ t \in Structured /\ Goes(t, "loopCommit", "prose")
     \/ Goes(t, "formatCommit", AfterStream(t))
  /\ Committed(t)

\* consumeModelStream asks once more, without tools, for the schema ...
AskForFormat(t) ==
  /\ Goes(t, "prose", "asking")
  /\ SaveStep(t, <<FormatRequest(t)>>)
  /\ UNCHANGED <<loaded, commits, order, inspector>>

FormatAsked(t) == Goes(t, "asking", "format") /\ Committed(t)

\* applyGeneratedConversationTitle
TitleIfUnnamed == IF title = "placeholder" THEN "generated" ELSE title

\* maybeSetConversationTitle, which never fails the turn: there may be no
\* title, or its event is stored, and with it the title in the row, chosen or
\* not (projectConversationMetadata).
RecordTitle(t) ==
  /\ \/ Goes(t, "titling", "ended") /\ UNCHANGED row
     \/ Goes(t, "titling", "titled") /\ row' = [row EXCEPT !.title = "generated"]
  /\ UNCHANGED <<store, order, session, barred, title, saves, renaming, deleting, restarts,
                 renamed, revived>>

\* Mutant of ApplyTitle: an entry whose title did not change is not saved.
ApplyTitleLazily(t) ==
  /\ Goes(t, "titled", "ended")
  /\ IF session = "here" /\ title # TitleIfUnnamed
       THEN title' = TitleIfUnnamed /\ saves' = saves + 1
       ELSE UNCHANGED <<title, saves>>
  /\ UNCHANGED <<store, order, session, barred, row, renaming, deleting, restarts,
                 renamed, revived>>

\* handleInspectorAgentEvent: the observer saves the entry, whatever its title.
ApplyTitle(t) ==
  /\ Goes(t, "titled", "ended")
  /\ IF session = "here"
       THEN title' = TitleIfUnnamed /\ saves' = saves + 1
       ELSE UNCHANGED <<title, saves>>
  /\ UNCHANGED <<store, order, session, barred, row, renaming, deleting, restarts,
                 renamed, revived>>

\* An abort, an error of the store, the tools, the model or the schema.
Fail(t) ==
  /\ pc[t] \in {"started", "loaded", "loop", "prose", "format"}
  /\ pc' = [pc EXCEPT ![t] = "ended"]
  /\ UNCHANGED <<store, order, inspector>>

-----------------------------------------------------------------------------
(* The inspector.                                                          *)

\* persistInspectorSession writes the entry as it is when the project has been
\* awaited; without deletedAt the row is no longer marked as deleted.
WriteRow ==
  /\ row' = [title |-> title, deleted |-> FALSE]
  /\ revived' = (revived \/ row.deleted)

\* Mutant of SaveRow: an entry is also saved when nobody asked for it.
SaveRowUnasked ==
  /\ saves' = saves - 1
  /\ WriteRow
  /\ UNCHANGED <<store, pc, order, session, barred, title, renaming, deleting, restarts, renamed>>

\* One of the saves that Send and ApplyTitle started.
SaveRow ==
  /\ saves > 0 /\ saves' = saves - 1
  /\ WriteRow
  /\ UNCHANGED <<store, pc, order, session, barred, title, renaming, deleting, restarts, renamed>>

Requests == (IF title = "chosen" THEN 1 ELSE 0) + (IF deleting = "no" THEN 0 ELSE 1)

Rename ==
  /\ session = "here" /\ Requests < MaxRequests /\ title # "chosen"
  /\ title' = "chosen" /\ renaming' = TRUE
  /\ UNCHANGED <<store, pc, order, session, barred, row, saves, deleting, restarts,
                 renamed, revived>>

RenameSaved ==
  /\ renaming /\ renaming' = FALSE /\ renamed' = TRUE
  /\ WriteRow
  /\ UNCHANGED <<store, pc, order, session, barred, title, saves, deleting, restarts>>

\* deleteAgentSession and the awaits in it; turns are not cancelled.
DeleteStarts ==
  /\ session = "here" /\ Requests < MaxRequests /\ deleting = "no" /\ deleting' = "marking"
  /\ UNCHANGED <<store, pc, order, session, barred, title, row, saves, renaming, restarts,
                 renamed, revived>>

MarkDeleted ==
  /\ deleting = "marking" /\ deleting' = "marked"
  /\ row' = [title |-> title, deleted |-> TRUE]
  /\ UNCHANGED <<store, pc, order, session, barred, title, saves, renaming, restarts,
                 renamed, revived>>

DropTranscript ==
  /\ deleting = "marked" /\ deleting' = "dropped"
  /\ transcript' = <<>>
  /\ fresh' = [t \in Turns |-> FALSE] /\ disturbed' = TRUE
  /\ UNCHANGED <<loaded, added, batch, commits, pc, order, session, barred, title, row, saves,
                 renaming, restarts, renamed, revived>>

\* Mutant of Unregister: the scope is not remembered as deleted.
UnregisterOnly ==
  /\ deleting = "dropped" /\ deleting' = "done"
  /\ session' = "none"
  /\ UNCHANGED <<store, pc, order, barred, title, row, saves, renaming, restarts, renamed, revived>>

\* unregisterAgentSession
Unregister ==
  /\ deleting = "dropped" /\ deleting' = "done"
  /\ session' = "none" /\ barred' = TRUE
  /\ UNCHANGED <<store, pc, order, title, row, saves, renaming, restarts, renamed, revived>>

\* ensureSessionsHydrated, in the next process: the entries of the rows that
\* are not marked, and a bar for those that are.  Turns die with the process.
Restart ==
  /\ restarts < MaxRestarts /\ restarts' = restarts + 1
  /\ pc' = [t \in Turns |-> IF pc[t] \in InFlight THEN "ended" ELSE pc[t]]
  /\ session' = (IF row.deleted THEN "none" ELSE "here")
  /\ barred' = row.deleted /\ title' = row.title
  /\ saves' = 0 /\ renaming' = FALSE
  /\ deleting' = (IF deleting = "done" THEN "done" ELSE "no")
  /\ renamed' = (renamed /\ saves = 0 /\ \A t \in Turns : pc[t] # "titled")
  /\ UNCHANGED <<store, order, row, revived>>

Next ==
  \/ \E t \in Turns :
       \/ Send(t) \/ Observe(t) \/ Load(t) \/ SaveUser(t)
       \/ StepEnds(t) \/ StepCommitted(t) \/ AskForFormat(t) \/ FormatAsked(t)
       \/ RecordTitle(t) \/ ApplyTitle(t) \/ Fail(t)
  \/ SaveRow
  \/ Rename \/ RenameSaved
  \/ DeleteStarts \/ MarkDeleted \/ DropTranscript \/ Unregister
  \/ Restart

Spec == Init /\ [][Next]_vars

-----------------------------------------------------------------------------
(* The inspector's view of who said what (agent-call-focus.ts).            *)

SaidByUser(i) == i \in DOMAIN transcript /\ transcript[i].role \in {"user", "format"}
Smaller(a, b) == IF a < b THEN a ELSE b

\* startIndexForCommit: what the first commit of a call appended begins after
\* total - count messages; the user's message before it belongs to the call.
FirstOf(t) ==
  LET own == commits[t][1].total - commits[t][1].count
  IN  IF SaidByUser(own) THEN own ELSE own + 1

\* agentCallMessageRange: up to the total of the last commit, within what is
\* stored, and without the pinned system prompt.
RangeOf(t) ==
  IF commits[t] = <<>> \/ transcript = <<>> THEN {}
  ELSE LET last == Smaller(Len(transcript), commits[t][Len(commits[t])].total)
           first == IF FirstOf(t) = 1 /\ HasPin(transcript) THEN 2 ELSE FirstOf(t)
       IN  Smaller(first, last)..last

\* mapMessageIdsToAgentCallIds: a later call overwrites an earlier one.
AttributedTo(i) ==
  LET calls == {k \in DOMAIN order : i \in RangeOf(order[k])}
  IN  IF calls = {} THEN NoTurn
      ELSE order[CHOOSE k \in calls : \A l \in calls : l <= k]

-----------------------------------------------------------------------------
\* A turn that nobody else wrote under keeps what is stored and appends to it:
\* the pin, earlier turns and its own earlier steps (persistTranscript).
SavesKeepTranscript ==
  [][\A t \in Turns : fresh[t] /\ pc'[t] # pc[t] =>
       /\ Len(transcript) <= Len(transcript')
       /\ \A i \in DOMAIN transcript : transcript'[i] = transcript[i]]_vars

\* As long as turns did not write under each other, the inspector attributes
\* what a turn committed to that turn, and nothing to a wrong one: also after
\* turns that failed, steps without messages, and a request for the schema.
MessagesAttributed ==
  ~disturbed => \A i \in DOMAIN transcript :
    LET m == transcript[i]
        cs == commits[m.turn]
        committed == IsTurn(m) /\ cs # <<>> /\ i <= cs[Len(cs)].total
    IN  AttributedTo(i) = IF committed THEN m.turn ELSE NoTurn

\* A title that a person chose stays until the conversation is deleted, whatever
\* titles are generated by turns in flight: their events overwrite it in the
\* store, and the observer has to put it back before the next restart reads it.
RenameSticks == renamed /\ session = "here" /\ deleting # "done" => title = "chosen"

\* A deleted conversation is not listed again by turns that were in flight, nor
\* after a restart, unless a save that was under way has unmarked its row.
DeletedIsUnlisted == deleting = "done" /\ ~revived => session = "none"
=============================================================================
