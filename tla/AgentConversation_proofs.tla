---------------------- MODULE AgentConversation_proofs ----------------------
(* Theorems about module AgentConversation, for any turns and bounds.      *)
EXTENDS AgentConversation, SequenceTheorems, TLAPS

-----------------------------------------------------------------------------
(* Transcripts as sequences.                                               *)

Extends(s, u) == Len(s) <= Len(u) /\ \A i \in DOMAIN s : u[i] = s[i]

LEMMA ConcatExtends ==
  ASSUME NEW S, NEW s \in Seq(S), NEW u \in Seq(S)
  PROVE  Extends(s, s \o u)
BY ConcatProperties, LenProperties DEF Extends

LEMMA HeadThenTail ==
  ASSUME NEW S, NEW s \in Seq(S), s # <<>>
  PROVE  <<Head(s)>> \o Tail(s) = s
<1>1. /\ Head(s) \in S /\ Tail(s) \in Seq(S) /\ Len(Tail(s)) = Len(s) - 1
      /\ \A i \in 1..Len(Tail(s)) : Tail(s)[i] = s[i + 1]
  BY HeadTailProperties
<1>2. Len(s) \in Nat \ {0} /\ Head(s) = s[1]
  BY EmptySeq
<1>3. /\ <<Head(s)>> \in Seq(S) /\ Len(<<Head(s)>>) = 1 /\ <<Head(s)>>[1] = s[1]
  BY <1>1, <1>2
<1>4. /\ <<Head(s)>> \o Tail(s) \in Seq(S) /\ Len(<<Head(s)>> \o Tail(s)) = Len(s)
      /\ \A i \in 1..Len(s) : (<<Head(s)>> \o Tail(s))[i] = s[i]
  BY <1>1, <1>2, <1>3, ConcatProperties
<1> QED
  BY <1>4, SeqEqual

\* The user's message and the replies of a turn are messages.
LEMMA OwnTyped ==
  ASSUME TypeOK, NEW t \in Turns
  PROVE  /\ User(t) \in Message /\ <<User(t)>> \in Seq(Message)
         /\ <<FormatRequest(t)>> \in Seq(Message)
         /\ \A k \in Nat : Replies(t, k) \in Seq(Message)
<1>1. Len(added[t]) \in Nat
  BY LenProperties DEF TypeOK
<1>2. User(t) \in Message /\ FormatRequest(t) \in Message
  BY <1>1 DEF User, FormatRequest, Message, Roles
<1>3. ASSUME NEW k \in Nat PROVE Replies(t, k) \in Seq(Message)
  <2>1. \A i \in 1..k : [turn |-> t, role |-> "reply", n |-> Len(added[t]) + i - 1] \in Message
    BY <1>1 DEF Message, Roles
  <2> QED
    <3>1. Replies(t, k) \in [1..k -> Message]
      BY <2>1 DEF Replies
    <3>2. \A f \in [1..k -> Message] : f \in Seq(Message)
      OBVIOUS
    <3> QED
      BY <3>1, <3>2
<1> QED
  BY <1>2, <1>3

LEMMA PinTyped ==
  ASSUME TypeOK, NEW t \in Turns
  PROVE  Pin(t) \in Seq(Message)
<1>1. loaded[t] \in Seq(Message)
  BY DEF TypeOK
<1>2. loaded[t] # <<>> => Head(loaded[t]) \in Message
  BY <1>1, HeadTailProperties
<1>3. [turn |-> t, role |-> "system", n |-> 0] \in Message
  BY DEF Message, Roles
<1> QED
  BY <1>2, <1>3 DEF Pin, HasPin

\* What a turn begins to save with: the pin, what it loaded, the user's message.
Opening(t) ==
  Pin(t) \o (IF HasPin(loaded[t]) THEN Tail(loaded[t]) ELSE loaded[t]) \o <<User(t)>>

LEMMA OpeningExtends ==
  ASSUME TypeOK, NEW t \in Turns
  PROVE  Opening(t) \in Seq(Message) /\ Extends(loaded[t], Opening(t))
<1>1. /\ loaded[t] \in Seq(Message) /\ Pin(t) \in Seq(Message) /\ <<User(t)>> \in Seq(Message)
  BY OwnTyped, PinTyped DEF TypeOK
<1>2. CASE HasPin(loaded[t])
  <2>1. loaded[t] # <<>> /\ Pin(t) = <<Head(loaded[t])>>
    BY <1>2 DEF HasPin, Pin
  <2>2. Tail(loaded[t]) \in Seq(Message) /\ Pin(t) \o Tail(loaded[t]) = loaded[t]
    BY <1>1, <2>1, HeadThenTail, HeadTailProperties
  <2>3. Opening(t) = loaded[t] \o <<User(t)>>
    BY <1>2, <2>2 DEF Opening
  <2> QED
    <3>1. /\ loaded[t] \o <<User(t)>> \in Seq(Message)
          /\ Extends(loaded[t], loaded[t] \o <<User(t)>>)
      BY <1>1, ConcatExtends, ConcatProperties
    <3> QED
      BY <2>3, <3>1, Zenon
<1>3. CASE ~HasPin(loaded[t]) /\ loaded[t] # <<>>
  <2>1. Pin(t) \o loaded[t] = loaded[t]
    BY <1>1, <1>3, ConcatEmptySeq DEF Pin
  <2>2. Opening(t) = loaded[t] \o <<User(t)>>
    BY <1>3, <2>1 DEF Opening
  <2> QED
    <3>1. /\ loaded[t] \o <<User(t)>> \in Seq(Message)
          /\ Extends(loaded[t], loaded[t] \o <<User(t)>>)
      BY <1>1, ConcatExtends, ConcatProperties
    <3> QED
      BY <2>2, <3>1, Zenon
<1>4. CASE loaded[t] = <<>>
  <2>1. Opening(t) = Pin(t) \o <<>> \o <<User(t)>>
    BY <1>4 DEF Opening, HasPin
  <2>2. Opening(t) \in Seq(Message)
    BY <1>1, <2>1, EmptySeq, ConcatProperties
  <2> QED
    BY <1>4, <2>2, LenProperties, EmptySeq DEF Extends
<1> QED
  BY <1>2, <1>3, <1>4

LEMMA PersistedGrows ==
  ASSUME TypeOK, NEW t \in Turns, NEW own \in Seq(Message), NEW more \in Seq(Message)
  PROVE  /\ Persisted(t, own) \in Seq(Message)
         /\ Persisted(t, <<>>) = Opening(t)
         /\ Extends(Persisted(t, own), Persisted(t, own \o more))
<1>1. Opening(t) \in Seq(Message)
  BY OpeningExtends
<1>2. \A s : Persisted(t, s) = Opening(t) \o s
  BY DEF Persisted, Opening
<1>3. Opening(t) \o own \in Seq(Message) /\ Opening(t) \o <<>> = Opening(t)
  BY <1>1, ConcatProperties, ConcatEmptySeq
<1>4. (Opening(t) \o own) \o more = Opening(t) \o (own \o more)
  <2>1. \A s \in Seq(Message) : (s \o own) \o more = s \o (own \o more)
    BY ONLY own \in Seq(Message), more \in Seq(Message), ConcatAssociative, SMTT(30)
  <2> QED
    BY <1>1, <2>1
<1>5. Extends(Opening(t) \o own, (Opening(t) \o own) \o more)
  BY <1>3, ConcatExtends
<1>6. Persisted(t, own) \in Seq(Message) /\ Persisted(t, <<>>) = Opening(t)
  BY <1>2, <1>3, Zenon
<1>7. Persisted(t, own \o more) = (Opening(t) \o own) \o more
  BY <1>2, <1>4, Zenon
<1> QED
  BY <1>2, <1>5, <1>6, <1>7, Zenon

-----------------------------------------------------------------------------
(* Types, in three parts.                                                  *)

StoreTyped ==
  /\ transcript \in Seq(Message)
  /\ loaded \in [Turns -> Seq(Message)] /\ added \in [Turns -> Seq(Message)]
  /\ batch \in [Turns -> Nat] /\ commits \in [Turns -> Seq(Commit)]
  /\ fresh \in [Turns -> BOOLEAN] /\ disturbed \in BOOLEAN

PlacesTyped ==
  /\ pc \in [Turns -> InFlight \cup {"idle", "ended"}]
  /\ order \in Seq(Turns)

InspectorTyped ==
  /\ session \in {"here", "none"} /\ barred \in BOOLEAN /\ title \in Titles
  /\ row \in [title : Titles, deleted : BOOLEAN] /\ saves \in Nat
  /\ renaming \in BOOLEAN /\ deleting \in {"no", "marking", "marked", "dropped", "done"}
  /\ restarts \in 0..MaxRestarts
  /\ renamed \in BOOLEAN /\ revived \in BOOLEAN

LEMMA TypeParts == TypeOK <=> StoreTyped /\ PlacesTyped /\ InspectorTyped
BY DEF TypeOK, StoreTyped, PlacesTyped, InspectorTyped

LEMMA InitTyped == Init => TypeOK
<1> SUFFICES ASSUME Init PROVE StoreTyped /\ PlacesTyped /\ InspectorTyped
  BY TypeParts
<1>1. StoreTyped
  <2>1. <<>> \in Seq(Message) /\ <<>> \in Seq(Commit)
    BY EmptySeq
  <2> QED
    BY <2>1 DEF Init, StoreTyped
<1>2. PlacesTyped
  BY DEF Init, PlacesTyped
<1>3. InspectorTyped
  <2>1. row \in [title : Titles, deleted : BOOLEAN] /\ restarts \in 0..MaxRestarts
    BY TurnsAssumption DEF Init, Titles
  <2> QED
    BY <2>1 DEF Init, InspectorTyped, Titles
<1> QED
  BY <1>1, <1>2, <1>3

\* Saves keep the types of what they write.
LEMMA SaveTyped ==
  ASSUME TypeOK, NEW t \in Turns, NEW own \in Seq(Message), Save(t, own)
  PROVE  transcript' \in Seq(Message) /\ fresh' \in [Turns -> BOOLEAN] /\ disturbed' \in BOOLEAN
<1>1. Persisted(t, own) \in Seq(Message)
  BY PersistedGrows
<1>2. fresh \in [Turns -> BOOLEAN] /\ disturbed \in BOOLEAN
  BY DEF TypeOK
<1> QED
  BY <1>1, <1>2 DEF Save

LEMMA SaveStepTyped ==
  ASSUME TypeOK, NEW t \in Turns, NEW messages \in Seq(Message), SaveStep(t, messages)
  PROVE  /\ transcript' \in Seq(Message) /\ fresh' \in [Turns -> BOOLEAN] /\ disturbed' \in BOOLEAN
         /\ added' \in [Turns -> Seq(Message)] /\ batch' \in [Turns -> Nat]
         /\ added'[t] = added[t] \o messages
<1>1. added[t] \in Seq(Message) /\ Len(messages) \in Nat
  BY LenProperties DEF TypeOK
<1>2. added[t] \o messages \in Seq(Message)
  BY <1>1, ConcatProperties
<1>3. /\ added' \in [Turns -> Seq(Message)] /\ batch' \in [Turns -> Nat]
      /\ added'[t] = added[t] \o messages
  BY <1>1, <1>2 DEF SaveStep, TypeOK
<1>4. CASE messages = <<>>
  BY <1>3, <1>4 DEF SaveStep, TypeOK
<1>5. CASE messages # <<>>
  <2>1. Save(t, added'[t]) /\ added'[t] \in Seq(Message)
    BY <1>2, <1>3, <1>5 DEF SaveStep
  <2> QED
    BY <1>3, <2>1, SaveTyped
<1> QED
  BY <1>4, <1>5

LEMMA CommittedTyped ==
  ASSUME TypeOK, NEW t \in Turns, Committed(t)
  PROVE  StoreTyped'
<1>1. Persisted(t, added[t]) \in Seq(Message)
  BY PersistedGrows, EmptySeq DEF TypeOK
<1>2. Len(Persisted(t, added[t])) \in Nat /\ batch[t] \in Nat
  BY <1>1, LenProperties DEF TypeOK
<1>3. CommitOf(t) \in Commit
  BY <1>2 DEF CommitOf, Commit
<1>4. commits' \in [Turns -> Seq(Commit)] /\ batch' \in [Turns -> Nat]
  <2>1. commits \in [Turns -> Seq(Commit)] /\ batch \in [Turns -> Nat]
    BY DEF TypeOK
  <2>2. Append(commits[t], CommitOf(t)) \in Seq(Commit)
    BY <1>3, <2>1
  <2> QED
    BY <2>1, <2>2 DEF Committed
<1> QED
  BY <1>4 DEF Committed, TypeOK, StoreTyped

\* What a turn does.
TurnStep(t) ==
  \/ Send(t) \/ Observe(t) \/ Load(t) \/ SaveUser(t)
  \/ StepEnds(t) \/ StepCommitted(t) \/ AskForFormat(t) \/ FormatAsked(t)
  \/ RecordTitle(t) \/ ApplyTitle(t) \/ Fail(t)

InspectorStep ==
  \/ SaveRow \/ Rename \/ RenameSaved
  \/ DeleteStarts \/ MarkDeleted \/ DropTranscript \/ Unregister \/ Restart

LEMMA NextParts == Next <=> (\E t \in Turns : TurnStep(t)) \/ InspectorStep
BY DEF Next, TurnStep, InspectorStep

\* Turns in which the user's message is stored and the title not yet due.
Saving == {"loop", "loopCommit", "prose", "asking", "format", "formatCommit"}
Places == InFlight \cup {"idle", "ended"}

\* A turn's step moves this turn only, to a place that the actions name.
LEMMA TurnMoves ==
  ASSUME PlacesTyped, NEW t \in Turns, TurnStep(t)
  PROVE  /\ pc' \in [Turns -> Places]
         /\ \A u \in Turns : u # t => pc'[u] = pc[u]
<1> USE DEF PlacesTyped, Goes, Places, InFlight
<1>1. CASE Send(t) \/ Observe(t) \/ Load(t) \/ SaveUser(t)
  BY <1>1 DEF Send, Observe, Load, SaveUser
<1>2. CASE StepEnds(t)
  BY <1>2 DEF StepEnds
<1>3. CASE StepCommitted(t)
  BY <1>3 DEF StepCommitted, AfterStream
<1>4. CASE AskForFormat(t) \/ FormatAsked(t)
  BY <1>4 DEF AskForFormat, FormatAsked
<1>5. CASE RecordTitle(t) \/ ApplyTitle(t)
  BY <1>5 DEF RecordTitle, ApplyTitle
<1>6. CASE Fail(t)
  BY <1>6 DEF Fail
<1> QED
  BY <1>1, <1>2, <1>3, <1>4, <1>5, <1>6 DEF TurnStep

LEMMA StepPlaces == TypeOK /\ [Next]_vars => PlacesTyped'
<1> SUFFICES ASSUME TypeOK, [Next]_vars PROVE PlacesTyped'
  OBVIOUS
<1>0. PlacesTyped
  BY TypeParts
<1>1. CASE \E t \in Turns : TurnStep(t)
  <2>1. PICK t \in Turns : TurnStep(t)
    BY <1>1
  <2>2. pc' \in [Turns -> InFlight \cup {"idle", "ended"}]
    BY <1>0, <2>1, TurnMoves DEF Places
  <2>3. order' = order \/ order' = Append(order, t)
    BY <2>1 DEF TurnStep, Send, Observe, Load, SaveUser, StepEnds, StepCommitted, Committed,
                AskForFormat, FormatAsked, RecordTitle, ApplyTitle, Fail, inspector
  <2>4. order' \in Seq(Turns)
    BY <1>0, <2>3 DEF PlacesTyped
  <2> QED
    BY <2>2, <2>4 DEF PlacesTyped
<1>2. CASE InspectorStep
  <2>1. CASE Restart
    BY <1>0, <2>1 DEF Restart, PlacesTyped
  <2>2. CASE ~Restart
    BY <1>0, <1>2, <2>2 DEF InspectorStep, SaveRow, Rename, RenameSaved, DeleteStarts,
          MarkDeleted, DropTranscript, Unregister, PlacesTyped
  <2> QED
    BY <2>1, <2>2
<1>3. CASE UNCHANGED vars
  BY <1>0, <1>3 DEF vars, PlacesTyped
<1> QED
  BY <1>1, <1>2, <1>3, NextParts

LEMMA StepStore == TypeOK /\ [Next]_vars => StoreTyped'
<1> SUFFICES ASSUME TypeOK, [Next]_vars PROVE StoreTyped'
  OBVIOUS
<1>0. StoreTyped
  BY TypeParts
<1>1. ASSUME NEW t \in Turns, TurnStep(t) PROVE StoreTyped'
  <2>1. CASE UNCHANGED store
    BY <1>0, <2>1 DEF store, StoreTyped
  <2>2. CASE Load(t)
    <3>1. loaded' \in [Turns -> Seq(Message)] /\ fresh' \in [Turns -> BOOLEAN]
      BY <1>0, <2>2 DEF Load, StoreTyped
    <3> QED
      BY <1>0, <2>2, <3>1 DEF Load, StoreTyped
  <2>3. CASE SaveUser(t)
    <3>1. Save(t, <<>>) /\ <<>> \in Seq(Message)
      BY <2>3, EmptySeq DEF SaveUser
    <3>2. transcript' \in Seq(Message) /\ fresh' \in [Turns -> BOOLEAN] /\ disturbed' \in BOOLEAN
      BY <3>1, SaveTyped
    <3> QED
      BY <1>0, <2>3, <3>2 DEF SaveUser, StoreTyped
  <2>4. CASE StepEnds(t) \/ AskForFormat(t)
    <3>1. PICK messages \in Seq(Message) : SaveStep(t, messages)
      <4>1. CASE StepEnds(t)
        <5>1. PICK k \in 0..MaxMessages : SaveStep(t, Replies(t, k))
          BY <4>1 DEF StepEnds
        <5>2. k \in Nat /\ Replies(t, k) \in Seq(Message)
          BY OwnTyped, TurnsAssumption
        <5> QED
          BY <5>1, <5>2
      <4>2. CASE AskForFormat(t)
        BY <4>2, OwnTyped DEF AskForFormat
      <4> QED
        BY <2>4, <4>1, <4>2
    <3>2. /\ transcript' \in Seq(Message) /\ fresh' \in [Turns -> BOOLEAN] /\ disturbed' \in BOOLEAN
          /\ added' \in [Turns -> Seq(Message)] /\ batch' \in [Turns -> Nat]
      BY <3>1, SaveStepTyped
    <3>3. UNCHANGED <<loaded, commits>>
      BY <2>4 DEF StepEnds, AskForFormat
    <3> QED
      BY <1>0, <3>2, <3>3 DEF StoreTyped
  <2>5. CASE StepCommitted(t) \/ FormatAsked(t)
    BY <2>5, CommittedTyped DEF StepCommitted, FormatAsked
  <2>6. CASE Send(t) \/ Observe(t) \/ RecordTitle(t) \/ ApplyTitle(t) \/ Fail(t)
    BY <2>1, <2>6 DEF Send, Observe, RecordTitle, ApplyTitle, Fail
  <2> QED
    BY <1>1, <2>2, <2>3, <2>4, <2>5, <2>6 DEF TurnStep
<1>2. ASSUME InspectorStep PROVE StoreTyped'
  <2>1. CASE DropTranscript
    BY <1>0, <2>1, EmptySeq DEF DropTranscript, StoreTyped
  <2>2. CASE ~DropTranscript
    BY <1>0, <1>2, <2>2 DEF InspectorStep, SaveRow, Rename, RenameSaved, DeleteStarts,
          MarkDeleted, Unregister, Restart, store, StoreTyped
  <2> QED
    BY <2>1, <2>2
<1>3. CASE UNCHANGED vars
  BY <1>0, <1>3 DEF vars, store, StoreTyped
<1> QED
  BY <1>1, <1>2, <1>3, NextParts

LEMMA RowWritten ==
  ASSUME InspectorTyped, WriteRow
  PROVE  row' \in [title : Titles, deleted : BOOLEAN] /\ revived' \in BOOLEAN
<1>1. row' \in [title : Titles, deleted : BOOLEAN]
  BY DEF InspectorTyped, WriteRow, Titles
<1>2. row.deleted \in BOOLEAN /\ revived \in BOOLEAN
  BY DEF InspectorTyped
<1>3. revived' \in BOOLEAN
  BY <1>2, Zenon DEF WriteRow
<1> QED
  BY <1>1, <1>3

LEMMA StepInspector == TypeOK /\ [Next]_vars => InspectorTyped'
<1> SUFFICES ASSUME TypeOK, [Next]_vars PROVE InspectorTyped'
  OBVIOUS
<1>0. InspectorTyped
  BY TypeParts
<1> USE DEF InspectorTyped, Titles
<1>1. ASSUME NEW t \in Turns, TurnStep(t) PROVE InspectorTyped'
  <2>1. CASE UNCHANGED inspector
    BY <1>0, <2>1 DEF inspector
  <2>2. CASE Send(t)
    BY <1>0, <2>2 DEF Send
  <2>3. CASE Observe(t)
    BY <1>0, <2>3 DEF Observe
  <2>4. CASE RecordTitle(t)
    BY <1>0, <2>4 DEF RecordTitle
  <2>5. CASE ApplyTitle(t)
    BY <1>0, <2>5 DEF ApplyTitle, TitleIfUnnamed
  <2>6. CASE Load(t) \/ SaveUser(t) \/ StepEnds(t) \/ StepCommitted(t)
             \/ AskForFormat(t) \/ FormatAsked(t) \/ Fail(t)
    BY <2>1, <2>6 DEF Load, SaveUser, StepEnds, StepCommitted, AskForFormat, FormatAsked,
                      Committed, Fail
  <2> QED
    BY <1>1, <2>2, <2>3, <2>4, <2>5, <2>6 DEF TurnStep
<1>2. ASSUME InspectorStep PROVE InspectorTyped'
  <2>1. CASE SaveRow
    <3>1. row' \in [title : Titles, deleted : BOOLEAN] /\ revived' \in BOOLEAN
      BY <1>0, <2>1, RowWritten DEF SaveRow
    <3>2. saves' \in Nat
      BY <1>0, <2>1 DEF SaveRow
    <3>3. UNCHANGED <<session, barred, title, renaming, deleting, restarts, renamed>>
      BY <2>1 DEF SaveRow
    <3> QED
      BY <1>0, <3>1, <3>2, <3>3
  <2>2. CASE Rename
    BY <1>0, <2>2 DEF Rename
  <2>3. CASE RenameSaved
    <3>1. row' \in [title : Titles, deleted : BOOLEAN] /\ revived' \in BOOLEAN
      BY <1>0, <2>3, RowWritten DEF RenameSaved
    <3>2. renaming' = FALSE /\ renamed' = TRUE
          /\ UNCHANGED <<session, barred, title, saves, deleting, restarts>>
      BY <2>3 DEF RenameSaved
    <3> QED
      BY <1>0, <3>1, <3>2
  <2>4. CASE DeleteStarts
    BY <1>0, <2>4 DEF DeleteStarts
  <2>7. CASE MarkDeleted
    <3>1. row' \in [title : Titles, deleted : BOOLEAN]
      BY <1>0, <2>7 DEF MarkDeleted
    <3> QED
      BY <1>0, <2>7, <3>1 DEF MarkDeleted
  <2>5. CASE DropTranscript \/ Unregister
    BY <1>0, <2>5 DEF DropTranscript, Unregister
  <2>6. CASE Restart
    <3>1. renamed' \in BOOLEAN
      <4>1. renamed \in BOOLEAN
        BY <1>0
      <4> QED
        BY <2>6, <4>1, Zenon DEF Restart
    <3>2. row.deleted \in BOOLEAN /\ row.title \in Titles
      BY <1>0
    <3>3. /\ session' \in {"here", "none"} /\ barred' \in BOOLEAN /\ title' \in Titles
          /\ saves' \in Nat /\ renaming' \in BOOLEAN
      BY <2>6, <3>2 DEF Restart
    <3>4. deleting' \in {"no", "marking", "marked", "dropped", "done"}
          /\ restarts' \in 0..MaxRestarts
      BY <1>0, <2>6, TurnsAssumption DEF Restart
    <3>5. UNCHANGED <<row, revived>>
      BY <2>6 DEF Restart
    <3> QED
      BY <1>0, <3>1, <3>3, <3>4, <3>5
  <2> QED
    BY <1>2, <2>1, <2>2, <2>3, <2>4, <2>5, <2>6, <2>7 DEF InspectorStep
<1>3. CASE UNCHANGED vars
  BY <1>0, <1>3 DEF vars, inspector
<1> QED
  BY <1>1, <1>2, <1>3, NextParts

LEMMA StepTyped == TypeOK /\ [Next]_vars => TypeOK'
BY StepPlaces, StepStore, StepInspector DEF TypeOK, StoreTyped, PlacesTyped, InspectorTyped

\* The variables keep their types, for any turns and bounds.
THEOREM ConversationTyped == Spec => []TypeOK
BY InitTyped, StepTyped, PTL DEF Spec

-----------------------------------------------------------------------------
(* Transcripts.  A turn that nobody wrote under finds in the store what it  *)
(* loaded, and from its first save on what it saved last.                   *)

BooksOf(t) ==
  /\ pc[t] \in {"idle", "sent", "started", "loaded"} => added[t] = <<>>
  /\ fresh[t] /\ pc[t] = "loaded" => transcript = loaded[t]
  /\ fresh[t] /\ pc[t] \in Saving => transcript = Persisted(t, added[t])

TranscriptBooks == \A t \in Turns : BooksOf(t)

KeepsStored(t) == fresh[t] /\ pc'[t] # pc[t] => Extends(transcript, transcript')

LEMMA ExtendsItself ==
  ASSUME NEW S, NEW s \in Seq(S)
  PROVE  Extends(s, s)
BY LenProperties DEF Extends

\* What a turn persists depends on what it loaded and on its own messages.
LEMMA PersistedStable ==
  ASSUME NEW t \in Turns, loaded'[t] = loaded[t]
  PROVE  Persisted(t, added[t])' = Persisted(t, added'[t])
BY DEF Persisted, Pin, HasPin, IsTurn, User

LEMMA SaveStepKeeps ==
  ASSUME TypeOK, NEW t \in Turns, BooksOf(t), pc[t] \in Saving, pc'[t] \in Saving,
         loaded' = loaded, NEW messages \in Seq(Message), SaveStep(t, messages)
  PROVE  BooksOf(t)' /\ KeepsStored(t)
<1>1. /\ added[t] \in Seq(Message) /\ added'[t] = added[t] \o messages
      /\ transcript \in Seq(Message) /\ Persisted(t, added[t])' = Persisted(t, added'[t])
  BY SaveStepTyped, PersistedStable DEF TypeOK
<1>2. pc'[t] \notin {"idle", "sent", "started", "loaded"}
  BY DEF Saving
<1>3. CASE messages = <<>>
  <2>1. added'[t] = added[t] /\ transcript' = transcript /\ fresh' = fresh
    BY <1>1, <1>3, ConcatEmptySeq DEF SaveStep
  <2>2. Extends(transcript, transcript')
    BY <1>1, <2>1, ExtendsItself
  <2> QED
    BY <1>1, <1>2, <2>1, <2>2 DEF BooksOf, KeepsStored
<1>4. CASE messages # <<>>
  <2>1. Save(t, added'[t])
    BY <1>4 DEF SaveStep
  <2>2. transcript' = Persisted(t, added'[t]) /\ fresh'[t] = fresh[t]
    BY <2>1 DEF Save, TypeOK
  <2>3. Extends(Persisted(t, added[t]), Persisted(t, added[t] \o messages))
    BY <1>1, PersistedGrows
  <2>4. fresh[t] => Extends(transcript, transcript')
    BY <1>1, <2>2, <2>3 DEF BooksOf
  <2> QED
    BY <1>1, <1>2, <2>2, <2>4 DEF BooksOf, KeepsStored
<1> QED
  BY <1>3, <1>4

\* A step of a turn keeps its books and what is stored.
LEMMA OwnStep ==
  ASSUME TypeOK, NEW t \in Turns, BooksOf(t), TurnStep(t)
  PROVE  BooksOf(t)' /\ KeepsStored(t)
<1>1. /\ transcript \in Seq(Message) /\ added[t] \in Seq(Message)
      /\ pc \in [Turns -> Places]
  BY DEF TypeOK, Places
<1>2. Extends(transcript, transcript)
  BY <1>1, ExtendsItself
<1>3. CASE Send(t) \/ Observe(t)
  <2>1. UNCHANGED store /\ pc'[t] \in {"sent", "started"} /\ pc[t] \in {"idle", "sent"}
    BY <1>1, <1>3 DEF Send, Observe, Goes
  <2> QED
    BY <1>2, <2>1 DEF BooksOf, KeepsStored, store, Saving
<1>4. CASE Load(t)
  <2>1. pc[t] = "started" /\ pc'[t] = "loaded"
    BY <1>1, <1>4 DEF Load, Goes
  <2>2. loaded'[t] = transcript /\ transcript' = transcript /\ added' = added
    BY <1>4 DEF Load, TypeOK
  <2> QED
    BY <1>2, <2>1, <2>2 DEF BooksOf, KeepsStored, Saving
<1>5. CASE SaveUser(t)
  <2>1. pc[t] = "loaded" /\ pc'[t] = "loop" /\ loaded' = loaded /\ added' = added
    BY <1>1, <1>5 DEF SaveUser, Goes
  <2>2. transcript' = Persisted(t, <<>>) /\ fresh'[t] = fresh[t]
    BY <1>5 DEF SaveUser, Save, TypeOK
  <2>3. added[t] = <<>> /\ (fresh[t] => transcript = loaded[t])
    BY <2>1 DEF BooksOf
  <2>4. Persisted(t, added[t])' = Persisted(t, added'[t])
    BY <2>1, PersistedStable
  <2>5. Extends(loaded[t], Persisted(t, <<>>))
    BY OpeningExtends, PersistedGrows, EmptySeq
  <2> QED
    BY <2>1, <2>2, <2>3, <2>4, <2>5 DEF BooksOf, KeepsStored, Saving
<1>6. CASE StepEnds(t)
  <2>1. pc[t] \in Saving /\ pc'[t] \in Saving /\ loaded' = loaded
    BY <1>1, <1>6 DEF StepEnds, Goes, Saving
  <2>2. PICK k \in 0..MaxMessages : SaveStep(t, Replies(t, k))
    BY <1>6 DEF StepEnds
  <2>3. Replies(t, k) \in Seq(Message)
    BY OwnTyped, TurnsAssumption
  <2> QED
    BY <2>1, <2>2, <2>3, SaveStepKeeps
<1>7. CASE AskForFormat(t)
  <2>1. pc[t] \in Saving /\ pc'[t] \in Saving /\ loaded' = loaded
    BY <1>1, <1>7 DEF AskForFormat, Goes, Saving
  <2>2. SaveStep(t, <<FormatRequest(t)>>) /\ <<FormatRequest(t)>> \in Seq(Message)
    BY <1>7, OwnTyped DEF AskForFormat
  <2> QED
    BY <2>1, <2>2, SaveStepKeeps
<1>8. CASE StepCommitted(t) \/ FormatAsked(t)
  <2>1. UNCHANGED <<transcript, loaded, added, fresh>>
    BY <1>8 DEF StepCommitted, FormatAsked, Committed
  <2>2. pc[t] \in Saving /\ pc'[t] \in Saving \cup {"titling", "ended"}
    BY <1>1, <1>8 DEF StepCommitted, FormatAsked, AfterStream, Goes, Saving
  <2>3. Persisted(t, added[t])' = Persisted(t, added'[t])
    BY <2>1, PersistedStable
  <2> QED
    BY <1>2, <2>1, <2>2, <2>3 DEF BooksOf, KeepsStored, Saving
<1>9. CASE RecordTitle(t) \/ ApplyTitle(t) \/ Fail(t)
  <2>1. UNCHANGED store /\ pc'[t] \in {"titled", "ended"}
    BY <1>1, <1>9 DEF RecordTitle, ApplyTitle, Fail, Goes
  <2> QED
    BY <1>2, <2>1 DEF BooksOf, KeepsStored, store, Saving
<1> QED
  BY <1>3, <1>4, <1>5, <1>6, <1>7, <1>8, <1>9 DEF TurnStep

\* A step of another turn leaves the books alone, or ends the freshness.
LEMMA OthersStep ==
  ASSUME TypeOK, NEW t \in Turns, NEW u \in Turns, u # t, BooksOf(u), TurnStep(t)
  PROVE  BooksOf(u)' /\ KeepsStored(u)
<1>1. pc'[u] = pc[u]
  BY TurnMoves, TypeParts
<1>2. loaded'[u] = loaded[u] /\ added'[u] = added[u]
  BY DEF TurnStep, Send, Observe, Load, SaveUser, StepEnds, SaveStep, StepCommitted, Committed,
         AskForFormat, FormatAsked, RecordTitle, ApplyTitle, Fail, store, TypeOK
<1>3. fresh'[u] => fresh[u] /\ transcript' = transcript
  <2>1. ASSUME NEW own, Save(t, own) PROVE fresh'[u] = FALSE
    BY <2>1 DEF Save
  <2>2. CASE SaveUser(t)
    BY <2>1, <2>2 DEF SaveUser
  <2>3. CASE StepEnds(t) \/ AskForFormat(t)
    <3>1. PICK messages : SaveStep(t, messages)
      BY <2>3 DEF StepEnds, AskForFormat
    <3> QED
      BY <2>1, <3>1 DEF SaveStep
  <2>4. CASE Load(t)
    BY <2>4 DEF Load, TypeOK
  <2>5. CASE Send(t) \/ Observe(t) \/ StepCommitted(t) \/ FormatAsked(t)
             \/ RecordTitle(t) \/ ApplyTitle(t) \/ Fail(t)
    BY <2>5 DEF Send, Observe, StepCommitted, Committed, FormatAsked, RecordTitle, ApplyTitle,
                Fail, store
  <2> QED
    BY <2>2, <2>3, <2>4, <2>5 DEF TurnStep
<1>4. Persisted(u, added[u])' = Persisted(u, added'[u])
  BY <1>2, PersistedStable
<1> QED
  BY <1>1, <1>2, <1>3, <1>4 DEF BooksOf, KeepsStored

LEMMA StepTranscript ==
  ASSUME TypeOK, TranscriptBooks, [Next]_vars
  PROVE  TranscriptBooks' /\ \A t \in Turns : KeepsStored(t)
<1>1. CASE \E t \in Turns : TurnStep(t)
  BY <1>1, OwnStep, OthersStep DEF TranscriptBooks
<1>2. CASE InspectorStep
  <2>1. SUFFICES ASSUME NEW t \in Turns PROVE BooksOf(t)' /\ KeepsStored(t)
    BY DEF TranscriptBooks
  <2>2. BooksOf(t) /\ transcript \in Seq(Message) /\ pc \in [Turns -> Places]
    BY DEF TranscriptBooks, TypeOK, Places
  <2>3. Extends(transcript, transcript)
    BY <2>2, ExtendsItself
  <2>4. CASE DropTranscript
    <3>1. pc' = pc /\ added' = added /\ fresh'[t] = FALSE
      BY <2>4 DEF DropTranscript
    <3> QED
      BY <2>2, <3>1 DEF BooksOf, KeepsStored
  <2>5. CASE ~DropTranscript
    <3>1. UNCHANGED store /\ pc'[t] \in {pc[t], "ended"}
      BY <1>2, <2>2, <2>5 DEF InspectorStep, SaveRow, Rename, RenameSaved, DeleteStarts,
            MarkDeleted, Unregister, Restart
    <3>2. Persisted(t, added[t])' = Persisted(t, added'[t])
      BY <3>1, PersistedStable DEF store
    <3> QED
      BY <2>2, <2>3, <3>1, <3>2 DEF BooksOf, KeepsStored, store, Saving
  <2> QED
    BY <2>4, <2>5
<1>3. CASE UNCHANGED vars
  <2>1. UNCHANGED <<transcript, loaded, added, fresh, pc>>
    BY <1>3 DEF vars, store
  <2>2. \A t \in Turns : Persisted(t, added[t])' = Persisted(t, added'[t])
    BY <2>1, PersistedStable
  <2> QED
    BY <2>1, <2>2 DEF TranscriptBooks, BooksOf, KeepsStored
<1> QED
  BY <1>1, <1>2, <1>3, NextParts

LEMMA InitTranscript == Init => TranscriptBooks
BY DEF Init, TranscriptBooks, BooksOf, Saving

\* Whatever a turn that nobody wrote under saves, it keeps what is stored.
THEOREM NothingIsForgotten == Spec => SavesKeepTranscript
<1>1. TypeOK /\ TranscriptBooks /\ [Next]_vars => TypeOK' /\ TranscriptBooks'
  BY StepTyped, StepTranscript
<1>2. TypeOK /\ TranscriptBooks /\ [Next]_vars =>
        [\A t \in Turns : fresh[t] /\ pc'[t] # pc[t] =>
           /\ Len(transcript) <= Len(transcript')
           /\ \A i \in DOMAIN transcript : transcript'[i] = transcript[i]]_vars
  BY StepTranscript DEF KeepsStored, Extends
<1> QED
  BY <1>1, <1>2, InitTyped, InitTranscript, PTL DEF Spec, SavesKeepTranscript

-----------------------------------------------------------------------------
(* Who said what.  As long as turns do not write under each other, what a   *)
(* turn says stands in one piece: its user's message and, behind it, all it *)
(* has added.                                                               *)

First(t) == Len(Opening(t))
Last(t) == First(t) + Len(added[t])
Says(i, t) == IsTurn(transcript[i]) /\ transcript[i].turn = t

Silent(t) == \A i \in DOMAIN transcript : ~Says(i, t)
Spoken(t) ==
  /\ Last(t) <= Len(transcript) /\ transcript[First(t)] = User(t)
  /\ \A i \in DOMAIN transcript : Says(i, t) <=> i \in First(t)..Last(t)

\* The events of a turn count from its user's message to what it has added.
Counted(t) ==
  commits[t] # <<>> =>
    /\ Spoken(t)
    /\ commits[t][1].total - commits[t][1].count = First(t)
    /\ First(t) <= commits[t][Len(commits[t])].total
    /\ commits[t][Len(commits[t])].total <= Last(t)

Speech(t) ==
  /\ pc[t] \in {"idle", "sent", "started", "loaded"} =>
       Silent(t) /\ commits[t] = <<>> /\ added[t] = <<>>
  /\ pc[t] \in Saving => Spoken(t)
  /\ pc[t] = "loop" /\ commits[t] = <<>> => added[t] = <<>>
  /\ pc[t] = "loopCommit" /\ commits[t] = <<>> => batch[t] = Len(added[t])
  /\ pc[t] \in {"prose", "asking", "format", "formatCommit"} => commits[t] # <<>>
  /\ Counted(t)

SpeechInv == ~disturbed => \A t \in Turns : Speech(t)

\* A turn is in the order once, from its agent_started event on.
OrderInv ==
  /\ \A k, l \in DOMAIN order : order[k] = order[l] => k = l
  /\ \A t \in Turns : pc[t] # "idle" <=> \E k \in DOMAIN order : order[k] = t

\* The opening of a turn: what it loaded, a new pin perhaps, its user's message.
LEMMA OpeningShape ==
  ASSUME TypeOK, NEW t \in Turns
  PROVE  /\ First(t) \in Nat /\ Len(loaded[t]) \in Nat /\ Len(loaded[t]) < First(t)
         /\ Opening(t)[First(t)] = User(t)
         /\ \A i \in DOMAIN Opening(t) :
              Len(loaded[t]) < i /\ i # First(t) => ~IsTurn(Opening(t)[i])
<1>1. /\ loaded[t] \in Seq(Message) /\ Pin(t) \in Seq(Message) /\ <<User(t)>> \in Seq(Message)
      /\ Len(<<User(t)>>) = 1 /\ <<User(t)>>[1] = User(t)
  BY OwnTyped, PinTyped DEF TypeOK
<1>2. CASE loaded[t] # <<>>
  <2>1. Opening(t) = loaded[t] \o <<User(t)>>
    <3>1. CASE HasPin(loaded[t])
      <4>1. Pin(t) = <<Head(loaded[t])>>
        BY <3>1 DEF Pin
      <4>2. Pin(t) \o Tail(loaded[t]) = loaded[t]
        BY <1>1, <1>2, <4>1, HeadThenTail
      <4> QED
        BY <3>1, <4>2 DEF Opening
    <3>2. CASE ~HasPin(loaded[t])
      <4>1. Pin(t) \o loaded[t] = loaded[t]
        BY <1>1, <1>2, <3>2, ConcatEmptySeq DEF Pin
      <4> QED
        BY <3>2, <4>1 DEF Opening
    <3> QED BY <3>1, <3>2
  <2>2. /\ Len(loaded[t] \o <<User(t)>>) = Len(loaded[t]) + 1
        /\ (loaded[t] \o <<User(t)>>)[Len(loaded[t]) + 1] = User(t)
        /\ DOMAIN (loaded[t] \o <<User(t)>>) = 1..(Len(loaded[t]) + 1)
    BY <1>1, ConcatProperties, LenProperties
  <2>3. Len(loaded[t]) \in Nat
    BY <1>1, LenProperties
  <2> QED
    BY <2>1, <2>2, <2>3 DEF First
<1>3. CASE loaded[t] = <<>>
  <2>1. Opening(t) = Pin(t) \o <<User(t)>>
    <3>1. Pin(t) \o <<>> = Pin(t)
      BY <1>1, ConcatEmptySeq
    <3> QED
      BY <1>3, <3>1 DEF Opening, HasPin
  <2>2. /\ Len(Pin(t)) \in {0, 1}
        /\ Len(Pin(t)) = 1 => ~IsTurn(Pin(t)[1])
    BY <1>3 DEF Pin, HasPin, IsTurn
  <2>3. /\ Len(Pin(t) \o <<User(t)>>) = Len(Pin(t)) + 1
        /\ (Pin(t) \o <<User(t)>>)[Len(Pin(t)) + 1] = User(t)
        /\ DOMAIN (Pin(t) \o <<User(t)>>) = 1..(Len(Pin(t)) + 1)
        /\ Len(Pin(t)) = 1 => (Pin(t) \o <<User(t)>>)[1] = Pin(t)[1]
    BY <1>1, <2>2, ConcatProperties, LenProperties
  <2>4. Len(loaded[t]) = 0
    BY <1>3
  <2> QED
    BY <2>1, <2>2, <2>3, <2>4 DEF First
<1> QED BY <1>2, <1>3

LEMMA OpeningStable ==
  ASSUME NEW t \in Turns, loaded'[t] = loaded[t]
  PROVE  First(t)' = First(t)
BY DEF First, Opening, Pin, HasPin, IsTurn, User

LEMMA PersistedLength ==
  ASSUME TypeOK, NEW t \in Turns
  PROVE  /\ Len(Persisted(t, added[t])) = Last(t)
         /\ First(t) \in Nat \ {0} /\ Len(added[t]) \in Nat /\ Last(t) \in Nat
<1>1. Opening(t) \in Seq(Message) /\ added[t] \in Seq(Message)
  BY OpeningExtends DEF TypeOK
<1>2. Persisted(t, added[t]) = Opening(t) \o added[t]
  BY DEF Persisted, Opening
<1>3. Len(added[t]) \in Nat /\ First(t) \in Nat \ {0}
  BY <1>1, OpeningShape, LenProperties
<1> QED
  BY <1>1, <1>2, <1>3, ConcatProperties DEF First, Last

\* What a turn says itself.
OwnWords(t, messages) ==
  \A i \in DOMAIN messages : IsTurn(messages[i]) /\ messages[i].turn = t

LEMMA OwnWordsSaid ==
  ASSUME NEW t \in Turns
  PROVE  /\ OwnWords(t, <<FormatRequest(t)>>)
         /\ \A k \in Nat : OwnWords(t, Replies(t, k))
BY DEF OwnWords, FormatRequest, Replies, IsTurn

\* The store is only appended to, with messages of the turn that moves.
AppendsOwn(t) ==
  /\ Len(transcript) <= Len(transcript')
  /\ \A i \in DOMAIN transcript' :
       IF i <= Len(transcript) THEN transcript'[i] = transcript[i]
       ELSE IsTurn(transcript'[i]) => transcript'[i].turn = t

LEMMA ConcatMessages ==
  ASSUME NEW a \in Seq(Message), NEW b \in Seq(Message), NEW c \in Seq(Message)
  PROVE  (a \o b) \o c = a \o (b \o c)
BY ONLY a \in Seq(Message), b \in Seq(Message), c \in Seq(Message), ConcatAssociative, SMTT(30)

\* The first save of a turn says what its user said.
LEMMA UserIsSaid ==
  ASSUME TypeOK, NEW t \in Turns, BooksOf(t), SaveUser(t), ~disturbed', Speech(t)
  PROVE  AppendsOwn(t) /\ Spoken(t)' /\ added'[t] = <<>>
<1>1. pc[t] = "loaded" /\ UNCHANGED <<loaded, added, commits>>
  BY DEF SaveUser, Goes
<1>2. fresh[t] /\ transcript' = Persisted(t, <<>>)
  BY DEF SaveUser, Save
<1>3. transcript = loaded[t] /\ transcript' = Opening(t)
  BY <1>1, <1>2, PersistedGrows, EmptySeq DEF BooksOf
<1>4. added'[t] = <<>> /\ Silent(t)
  BY <1>1 DEF Speech
<1>5. /\ transcript \in Seq(Message) /\ transcript' \in Seq(Message)
      /\ Len(transcript') = First(t) /\ Extends(transcript, transcript')
  BY <1>3, OpeningExtends DEF TypeOK, First
<1>6. DOMAIN transcript = 1..Len(transcript) /\ DOMAIN transcript' = 1..First(t)
  BY <1>5, LenProperties
<1>7. /\ First(t) \in Nat /\ Len(transcript) \in Nat /\ Len(transcript) < First(t)
      /\ transcript'[First(t)] = User(t)
      /\ \A i \in DOMAIN transcript' :
           Len(transcript) < i /\ i # First(t) => ~IsTurn(transcript'[i])
  BY <1>3, OpeningShape
<1>8. IsTurn(User(t)) /\ User(t).turn = t
  BY DEF IsTurn, User
<1>9. \A i \in 1..Len(transcript) : transcript'[i] = transcript[i] /\ ~Says(i, t)
  BY <1>4, <1>5, <1>6 DEF Extends, Silent
<1>10. AppendsOwn(t)
  BY <1>6, <1>7, <1>8, <1>9 DEF AppendsOwn
<1>11. First(t)' = First(t) /\ Last(t)' = First(t)
  BY <1>1, <1>4, <1>7, OpeningStable DEF Last
<1>12. User(t)' = User(t)
  BY DEF User
<1>13. ASSUME NEW i \in DOMAIN transcript'
       PROVE  (IsTurn(transcript'[i]) /\ transcript'[i].turn = t) <=> i = First(t)
  <2>1. CASE i <= Len(transcript)
    BY <1>6, <1>7, <1>9, <1>13, <2>1 DEF Says
  <2>2. CASE i > Len(transcript)
    BY <1>6, <1>7, <1>8, <1>13, <2>2
  <2> QED BY <1>6, <1>7, <2>1, <2>2
<1>14. Spoken(t)'
  BY <1>5, <1>6, <1>7, <1>11, <1>12, <1>13 DEF Spoken, Says, IsTurn
<1> QED BY <1>4, <1>10, <1>14

\* Every later save adds what the turn says itself.
LEMMA WordsAreSaid ==
  ASSUME TypeOK, NEW t \in Turns, BooksOf(t), pc[t] \in Saving, loaded' = loaded,
         NEW messages \in Seq(Message), OwnWords(t, messages), SaveStep(t, messages),
         ~disturbed', Spoken(t)
  PROVE  AppendsOwn(t) /\ Spoken(t)' /\ Last(t) <= Last(t)'
<1>1. /\ added[t] \in Seq(Message) /\ transcript \in Seq(Message)
      /\ added'[t] = added[t] \o messages
      /\ Len(added[t]) \in Nat /\ Len(messages) \in Nat /\ Len(transcript) \in Nat
      /\ DOMAIN transcript = 1..Len(transcript)
  BY SaveStepTyped, LenProperties DEF TypeOK
<1>2. Len(added'[t]) = Len(added[t]) + Len(messages)
  BY <1>1, ConcatProperties
<1>3. /\ First(t) \in Nat \ {0} /\ First(t)' = First(t)
      /\ Last(t) = First(t) + Len(added[t]) /\ Last(t)' = Last(t) + Len(messages)
      /\ User(t)' = User(t)
  BY <1>1, <1>2, OpeningStable, PersistedLength DEF Last, User
<1>4. CASE messages = <<>>
  <2>1. transcript' = transcript /\ Len(messages) = 0
    BY <1>4 DEF SaveStep
  <2> QED
    BY <1>1, <1>3, <2>1 DEF AppendsOwn, Spoken, Says, IsTurn
<1>5. CASE messages # <<>>
  <2>1. fresh[t] /\ transcript' = Persisted(t, added[t] \o messages)
    BY <1>1, <1>5 DEF SaveStep, Save
  <2>2. transcript = Persisted(t, added[t])
    BY <2>1 DEF BooksOf
  <2>3. transcript' = transcript \o messages /\ Len(transcript) = Last(t)
    <3>1. Opening(t) \in Seq(Message)
      BY OpeningExtends
    <3>2. (Opening(t) \o added[t]) \o messages = Opening(t) \o (added[t] \o messages)
      BY <1>1, <3>1, ConcatMessages
    <3>3. \A s : Persisted(t, s) = Opening(t) \o s
      BY DEF Persisted, Opening
    <3>4. transcript' = transcript \o messages
      BY <2>1, <2>2, <3>2, <3>3, Zenon
    <3> QED BY <2>2, <3>4, PersistedLength
  <2>4. /\ Len(transcript') = Len(transcript) + Len(messages)
        /\ DOMAIN transcript' = 1..(Len(transcript) + Len(messages))
        /\ \A i \in DOMAIN transcript' :
             transcript'[i] = IF i <= Len(transcript) THEN transcript[i]
                              ELSE messages[i - Len(transcript)]
    <3>1. /\ transcript \o messages \in Seq(Message)
          /\ Len(transcript \o messages) = Len(transcript) + Len(messages)
          /\ \A i \in 1..(Len(transcript) + Len(messages)) :
               (transcript \o messages)[i] = IF i <= Len(transcript) THEN transcript[i]
                                             ELSE messages[i - Len(transcript)]
      BY <1>1, ConcatProperties
    <3>2. DOMAIN (transcript \o messages) = 1..(Len(transcript) + Len(messages))
      BY <3>1, LenProperties
    <3> QED BY <2>3, <3>1, <3>2
  <2>5. DOMAIN messages = 1..Len(messages)
    BY LenProperties
  <2>6. ASSUME NEW i \in DOMAIN transcript', i > Len(transcript)
        PROVE  IsTurn(transcript'[i]) /\ transcript'[i].turn = t
    <3>1. i - Len(transcript) \in DOMAIN messages
      BY <1>1, <2>4, <2>5, <2>6
    <3>2. transcript'[i] = messages[i - Len(transcript)]
      BY <1>1, <2>4, <2>6
    <3> QED BY <3>1, <3>2 DEF OwnWords
  <2>7. AppendsOwn(t)
    BY <1>1, <2>4, <2>6 DEF AppendsOwn
  <2>8. ASSUME NEW i \in DOMAIN transcript'
        PROVE  (IsTurn(transcript'[i]) /\ transcript'[i].turn = t) <=> i \in First(t)..Last(t)'
    <3>1. CASE i <= Len(transcript)
      <4>1. i \in DOMAIN transcript /\ transcript'[i] = transcript[i]
        BY <1>1, <2>4, <2>8, <3>1
      <4>2. Says(i, t) <=> i \in First(t)..Last(t)
        BY <4>1 DEF Spoken
      <4> QED BY <1>1, <1>3, <2>3, <3>1, <4>1, <4>2 DEF Says
    <3>2. CASE i > Len(transcript)
      BY <1>1, <1>3, <2>3, <2>4, <2>6, <2>8, <3>2
    <3> QED BY <1>1, <2>4, <2>8, <3>1, <3>2
  <2>9. transcript'[First(t)] = User(t)
    <3>1. First(t) \in DOMAIN transcript' /\ First(t) <= Len(transcript)
      BY <1>1, <1>3, <2>3, <2>4
    <3> QED BY <2>4, <3>1 DEF Spoken
  <2>10. Spoken(t)'
    BY <1>1, <1>3, <2>3, <2>4, <2>8, <2>9 DEF Spoken, Says, IsTurn
  <2> QED BY <1>1, <1>3, <2>7, <2>10
<1> QED BY <1>4, <1>5

\* A turn that does not move keeps its speech when others append their own.
LEMMA OthersAppend ==
  ASSUME TypeOK, NEW t \in Turns, NEW u \in Turns, u # t, AppendsOwn(t), Speech(u),
         transcript' \in Seq(Message),
         UNCHANGED <<loaded[u], added[u], batch[u], commits[u]>>, pc'[u] = pc[u]
  PROVE  Speech(u)'
<1>1. /\ transcript \in Seq(Message) /\ Len(transcript) \in Nat /\ Len(transcript') \in Nat
      /\ DOMAIN transcript = 1..Len(transcript) /\ DOMAIN transcript' = 1..Len(transcript')
  BY LenProperties DEF TypeOK
<1>2. /\ First(u) \in Nat \ {0} /\ Last(u) \in Nat
      /\ First(u)' = First(u) /\ Last(u)' = Last(u) /\ User(u)' = User(u)
  BY PersistedLength, OpeningStable DEF Last, User
<1>3. ASSUME NEW i \in DOMAIN transcript'
      PROVE  IF i \in DOMAIN transcript THEN Says(i, u)' <=> Says(i, u) ELSE ~Says(i, u)'
  BY <1>1, <1>3 DEF AppendsOwn, Says, IsTurn
<1>4. Silent(u) => Silent(u)'
  BY <1>3 DEF Silent
<1>5. Spoken(u) => Spoken(u)'
  <2> SUFFICES ASSUME Spoken(u) PROVE Spoken(u)'
    OBVIOUS
  <2>1. Last(u) <= Len(transcript') /\ First(u) <= Len(transcript)
    BY <1>1, <1>2, PersistedLength DEF AppendsOwn, Spoken, Last
  <2>2. transcript'[First(u)] = User(u)
    <3>1. First(u) \in DOMAIN transcript' /\ transcript'[First(u)] = transcript[First(u)]
      BY <1>1, <1>2, <2>1 DEF AppendsOwn
    <3> QED BY <3>1 DEF Spoken
  <2>3. \A i \in DOMAIN transcript' : Says(i, u)' <=> i \in First(u)..Last(u)
    <3> SUFFICES ASSUME NEW i \in DOMAIN transcript'
                 PROVE  Says(i, u)' <=> i \in First(u)..Last(u)
      OBVIOUS
    <3>1. CASE i \in DOMAIN transcript
      BY <1>3, <3>1 DEF Spoken
    <3>2. CASE i \notin DOMAIN transcript
      <4>1. ~(i <= Last(u))
        BY <1>1, <1>2, <3>2 DEF Spoken
      <4> QED BY <1>2, <1>3, <3>2, <4>1
    <3> QED BY <3>1, <3>2
  <2> QED BY <1>2, <2>1, <2>2, <2>3 DEF Spoken
<1>6. Counted(u)'
  BY <1>2, <1>5 DEF Speech, Counted
<1> QED
  BY <1>4, <1>5, <1>6 DEF Speech

LEMMA SpeechUntouched ==
  ASSUME NEW u \in Turns, Speech(u), UNCHANGED <<transcript, loaded[u], added[u], batch[u], commits[u]>>
  PROVE  /\ Counted(u)' /\ Spoken(u)' = Spoken(u) /\ Silent(u)' = Silent(u)
<1>1. First(u)' = First(u) /\ Last(u)' = Last(u) /\ User(u)' = User(u)
  BY OpeningStable DEF Last, User
<1>2. Spoken(u)' = Spoken(u) /\ Silent(u)' = Silent(u)
  BY <1>1 DEF Spoken, Silent, Says, IsTurn
<1> QED
  BY <1>1, <1>2 DEF Speech, Counted

\* A commit event counts what the turn has added so far.
LEMMA CommitCounts ==
  ASSUME TypeOK, NEW t \in Turns, Committed(t), Spoken(t), Counted(t),
         commits[t] = <<>> => batch[t] = Len(added[t])
  PROVE  Counted(t)' /\ Spoken(t)' /\ commits'[t] # <<>>
<1>1. UNCHANGED <<transcript, loaded, added>>
  BY DEF Committed
<1>2. /\ First(t) \in Nat \ {0} /\ Last(t) = First(t) + Len(added[t]) /\ Len(added[t]) \in Nat
      /\ First(t)' = First(t) /\ Last(t)' = Last(t) /\ User(t)' = User(t)
  BY <1>1, PersistedLength, OpeningStable DEF Last, User
<1>3. Spoken(t)'
  BY <1>1, <1>2 DEF Spoken, Says, IsTurn
<1>4. CommitOf(t) \in Commit /\ CommitOf(t).total = Last(t) /\ CommitOf(t).count = batch[t]
  BY <1>2, PersistedLength DEF CommitOf, Commit, TypeOK
<1>5. commits[t] \in Seq(Commit) /\ commits'[t] = Append(commits[t], CommitOf(t))
  BY DEF Committed, TypeOK
<1>6. /\ Len(commits'[t]) = Len(commits[t]) + 1 /\ commits'[t] # <<>>
      /\ commits'[t][Len(commits'[t])] = CommitOf(t)
      /\ commits[t] # <<>> => commits'[t][1] = commits[t][1]
      /\ commits[t] = <<>> => commits'[t][1] = CommitOf(t)
  <2>1. Len(commits[t]) \in Nat /\ (commits[t] = <<>> <=> Len(commits[t]) = 0)
    BY <1>5, EmptySeq, LenProperties
  <2>2. /\ Len(commits'[t]) = Len(commits[t]) + 1
        /\ \A i \in 1..Len(commits[t]) : commits'[t][i] = commits[t][i]
        /\ commits'[t][Len(commits[t]) + 1] = CommitOf(t)
    BY <1>4, <1>5, AppendProperties
  <2>3. commits'[t] # <<>>
    BY <2>1, <2>2
  <2> QED BY <2>1, <2>2, <2>3
<1>7. commits'[t][1].total - commits'[t][1].count = First(t)
  <2>1. CASE commits[t] = <<>>
    BY <1>2, <1>4, <1>6, <2>1
  <2>2. CASE commits[t] # <<>>
    BY <1>6, <2>2 DEF Counted
  <2> QED BY <2>1, <2>2
<1> QED
  BY <1>2, <1>3, <1>4, <1>6, <1>7 DEF Counted

LEMMA SpeechStep ==
  ASSUME TypeOK, NEW t \in Turns, BooksOf(t), Speech(t), TurnStep(t), ~disturbed'
  PROVE  Speech(t)' /\ AppendsOwn(t)
<1>0. /\ transcript \in Seq(Message) /\ added[t] \in Seq(Message) /\ pc \in [Turns -> Places]
      /\ batch \in [Turns -> Nat] /\ commits \in [Turns -> Seq(Commit)]
      /\ added \in [Turns -> Seq(Message)] /\ loaded \in [Turns -> Seq(Message)]
  BY DEF TypeOK, Places
<1>1. transcript' = transcript => AppendsOwn(t)
  BY <1>0, LenProperties DEF AppendsOwn
<1>2. CASE Send(t) \/ Observe(t)
  <2>1. UNCHANGED store /\ pc'[t] \in {"sent", "started"} /\ pc[t] \in {"idle", "sent"}
    BY <1>0, <1>2 DEF Send, Observe, Goes
  <2>2. UNCHANGED <<transcript, loaded[t], added[t], batch[t], commits[t]>>
    BY <2>1 DEF store
  <2>3. Counted(t)' /\ Silent(t)' = Silent(t)
    BY <2>2, SpeechUntouched
  <2> QED
    BY <1>1, <2>1, <2>2, <2>3 DEF Speech, Saving
<1>3. CASE Load(t)
  <2>1. pc[t] = "started" /\ pc'[t] = "loaded" /\ UNCHANGED <<transcript, added, batch, commits>>
    BY <1>0, <1>3 DEF Load, Goes
  <2>2. Silent(t) /\ commits[t] = <<>> /\ added[t] = <<>>
    BY <2>1 DEF Speech
  <2>3. Silent(t)' /\ commits'[t] = <<>> /\ added'[t] = <<>>
    BY <2>1, <2>2 DEF Silent, Says, IsTurn
  <2> QED
    BY <1>1, <2>1, <2>3 DEF Speech, Counted, Saving
<1>4. CASE SaveUser(t)
  <2>1. pc[t] = "loaded" /\ pc'[t] = "loop" /\ commits' = commits
    BY <1>0, <1>4 DEF SaveUser, Goes
  <2>2. AppendsOwn(t) /\ Spoken(t)' /\ added'[t] = <<>>
    BY <1>4, UserIsSaid
  <2>3. commits'[t] = <<>>
    BY <2>1 DEF Speech
  <2> QED
    BY <2>1, <2>2, <2>3 DEF Speech, Counted, Saving
<1>5. CASE StepEnds(t) \/ AskForFormat(t)
  <2>1. PICK messages \in Seq(Message) : OwnWords(t, messages) /\ SaveStep(t, messages)
    <3>1. CASE StepEnds(t)
      <4>1. PICK k \in 0..MaxMessages : SaveStep(t, Replies(t, k))
        BY <3>1 DEF StepEnds
      <4>2. k \in Nat
        BY TurnsAssumption
      <4>3. Replies(t, k) \in Seq(Message) /\ OwnWords(t, Replies(t, k))
        BY <4>2, OwnTyped, OwnWordsSaid
      <4> QED BY <4>1, <4>3
    <3>2. CASE AskForFormat(t)
      BY <3>2, OwnTyped, OwnWordsSaid DEF AskForFormat
    <3> QED BY <1>5, <3>1, <3>2
  <2>2. UNCHANGED <<loaded, commits>> /\ pc[t] \in Saving /\ Spoken(t)
    BY <1>0, <1>5 DEF StepEnds, AskForFormat, Goes, Saving, Speech
  <2>3. /\ pc'[t] \in {"loopCommit", "formatCommit", "asking"}
        /\ pc'[t] = "loopCommit" => pc[t] = "loop"
        /\ pc'[t] # "loopCommit" => pc[t] \in {"format", "prose"}
    BY <1>0, <1>5 DEF StepEnds, AskForFormat, Goes
  <2>4. AppendsOwn(t) /\ Spoken(t)' /\ Last(t) <= Last(t)'
    BY <2>1, <2>2, WordsAreSaid
  <2>5. First(t)' = First(t) /\ First(t) \in Nat
    BY <2>2, OpeningStable, PersistedLength
  <2>6. Counted(t)'
    <3> SUFFICES ASSUME commits[t] # <<>> PROVE Counted(t)'
      BY <2>2 DEF Counted
    <3>1. commits[t][Len(commits[t])].total <= Last(t) /\ Counted(t)
      BY DEF Speech, Counted
    <3>2. commits[t][Len(commits[t])] \in Commit
      <4>1. Len(commits[t]) \in DOMAIN commits[t]
        BY <1>0, EmptySeq, LenProperties
      <4> QED BY <1>0, <4>1
    <3>3. Last(t) \in Nat /\ Last(t)' \in Nat
      <4>1. added'[t] \in Seq(Message) /\ Len(added'[t]) \in Nat
        BY <2>1, SaveStepTyped, LenProperties
      <4> QED BY <2>5, <4>1, PersistedLength DEF Last
    <3> QED BY <2>2, <2>4, <2>5, <3>1, <3>2, <3>3 DEF Counted, Commit
  <2>7. pc'[t] = "loopCommit" /\ commits[t] = <<>> => batch'[t] = Len(added'[t])
    <3> SUFFICES ASSUME pc'[t] = "loopCommit", commits[t] = <<>>
                 PROVE  batch'[t] = Len(added'[t])
      OBVIOUS
    <3>1. added[t] = <<>>
      BY <2>3 DEF Speech
    <3>2. added'[t] = messages
      BY <2>1, <3>1, SaveStepTyped, ConcatEmptySeq
    <3>3. batch'[t] = Len(messages)
      BY <1>0, <2>1 DEF SaveStep
    <3> QED BY <3>2, <3>3
  <2>8. pc'[t] # "loopCommit" => commits'[t] # <<>>
    BY <2>2, <2>3 DEF Speech
  <2> QED
    BY <2>2, <2>3, <2>4, <2>6, <2>7, <2>8 DEF Speech, Saving
<1>6. CASE StepCommitted(t) \/ FormatAsked(t)
  <2>1. Committed(t) /\ transcript' = transcript
    BY <1>6 DEF StepCommitted, FormatAsked, Committed
  <2>2. /\ pc[t] \in {"loopCommit", "formatCommit", "asking"}
        /\ pc'[t] \in {"loop", "prose", "format", "titling", "ended"}
    BY <1>0, <1>6 DEF StepCommitted, FormatAsked, AfterStream, Goes
  <2>3. Spoken(t) /\ Counted(t) /\ (commits[t] = <<>> => batch[t] = Len(added[t]))
    BY <2>2 DEF Speech, Saving
  <2>4. Counted(t)' /\ Spoken(t)' /\ commits'[t] # <<>>
    BY <2>1, <2>3, CommitCounts
  <2> QED
    BY <1>1, <2>1, <2>2, <2>4 DEF Speech, Saving
<1>7. CASE RecordTitle(t) \/ ApplyTitle(t) \/ Fail(t)
  <2>1. UNCHANGED store /\ pc'[t] \in {"titled", "ended"}
    BY <1>0, <1>7 DEF RecordTitle, ApplyTitle, Fail, Goes
  <2>2. UNCHANGED <<transcript, loaded[t], added[t], batch[t], commits[t]>>
    BY <2>1 DEF store
  <2>3. Counted(t)'
    BY <2>2, SpeechUntouched
  <2> QED
    BY <1>1, <2>1, <2>2, <2>3 DEF Speech, Saving
<1> QED
  BY <1>2, <1>3, <1>4, <1>5, <1>6, <1>7 DEF TurnStep

LEMMA OthersFrame ==
  ASSUME TypeOK, NEW t \in Turns, NEW u \in Turns, u # t, TurnStep(t)
  PROVE  UNCHANGED <<loaded[u], added[u], batch[u], commits[u]>> /\ pc'[u] = pc[u]
<1>1. pc'[u] = pc[u]
  BY TurnMoves, TypeParts
<1>2. UNCHANGED <<loaded[u], added[u], batch[u], commits[u]>>
  BY DEF TurnStep, Send, Observe, Load, SaveUser, StepEnds, SaveStep, StepCommitted, Committed,
         AskForFormat, FormatAsked, RecordTitle, ApplyTitle, Fail, store, TypeOK
<1> QED BY <1>1, <1>2

LEMMA StepSpeech ==
  ASSUME TypeOK, TranscriptBooks, SpeechInv, [Next]_vars
  PROVE  SpeechInv'
<1> SUFFICES ASSUME ~disturbed' PROVE \A u \in Turns : Speech(u)'
  BY DEF SpeechInv
<1>1. ASSUME NEW t \in Turns, TurnStep(t) PROVE \A u \in Turns : Speech(u)'
  <2>1. ~disturbed
    BY <1>1 DEF TurnStep, Send, Observe, Load, SaveUser, StepEnds, SaveStep, Save, StepCommitted,
         Committed, AskForFormat, FormatAsked, RecordTitle, ApplyTitle, Fail, store
  <2>2. \A u \in Turns : Speech(u)
    BY <2>1 DEF SpeechInv
  <2>3. Speech(t)' /\ AppendsOwn(t)
    BY <1>1, <2>2, SpeechStep DEF TranscriptBooks
  <2>4. transcript' \in Seq(Message)
    BY StepTyped DEF TypeOK
  <2>5. ASSUME NEW u \in Turns, u # t PROVE Speech(u)'
    BY <1>1, <2>2, <2>3, <2>4, <2>5, OthersFrame, OthersAppend
  <2> QED BY <2>3, <2>5
<1>2. CASE InspectorStep \/ UNCHANGED vars
  <2> SUFFICES ASSUME NEW u \in Turns PROVE Speech(u)'
    OBVIOUS
  <2>1. UNCHANGED store /\ pc'[u] \in {pc[u], "ended"}
    <3>1. CASE DropTranscript
      BY <3>1 DEF DropTranscript
    <3>2. CASE InspectorStep /\ ~DropTranscript
      BY <3>2 DEF InspectorStep, SaveRow, Rename, RenameSaved, DeleteStarts,
            MarkDeleted, Unregister, Restart
    <3>3. CASE UNCHANGED vars
      BY <3>3 DEF vars
    <3> QED BY <1>2, <3>1, <3>2, <3>3
  <2>2. UNCHANGED <<transcript, loaded[u], added[u], batch[u], commits[u], disturbed>>
    BY <2>1 DEF store
  <2>3. Speech(u)
    BY <2>2 DEF SpeechInv
  <2>4. Counted(u)' /\ Spoken(u)' = Spoken(u) /\ Silent(u)' = Silent(u)
    BY <2>2, <2>3, SpeechUntouched
  <2> QED
    BY <2>1, <2>2, <2>3, <2>4 DEF Speech, Saving
<1> QED
  BY <1>1, <1>2, NextParts

LEMMA StepOrder ==
  ASSUME TypeOK, OrderInv, [Next]_vars
  PROVE  OrderInv'
<1>0. pc \in [Turns -> Places] /\ order \in Seq(Turns) /\ DOMAIN order = 1..Len(order)
      /\ Len(order) \in Nat
  BY LenProperties DEF TypeOK, Places
<1>1. CASE order' = order /\ \A t \in Turns : pc'[t] = "idle" <=> pc[t] = "idle"
  BY <1>1 DEF OrderInv
<1>2. ASSUME NEW t \in Turns, Send(t) PROVE OrderInv'
  <2>1. /\ pc[t] = "idle" /\ pc'[t] = "sent" /\ \A u \in Turns : u # t => pc'[u] = pc[u]
        /\ order' = Append(order, t)
    BY <1>0, <1>2 DEF Send, Goes
  <2>2. /\ DOMAIN order' = 1..(Len(order) + 1) /\ order'[Len(order) + 1] = t
        /\ \A k \in 1..Len(order) : order'[k] = order[k]
    BY <1>0, <2>1, AppendProperties
  <2>3. \A k \in 1..Len(order) : order[k] # t
    BY <1>0, <2>1 DEF OrderInv
  <2>4. \A k, l \in DOMAIN order' : order'[k] = order'[l] => k = l
    BY <1>0, <2>2, <2>3 DEF OrderInv
  <2>5. ASSUME NEW u \in Turns
        PROVE  pc'[u] # "idle" <=> \E k \in DOMAIN order' : order'[k] = u
    <3>1. CASE u = t
      BY <1>0, <2>1, <2>2, <3>1
    <3>2. CASE u # t
      BY <1>0, <2>1, <2>2, <3>2 DEF OrderInv
    <3> QED BY <3>1, <3>2
  <2> QED BY <2>4, <2>5 DEF OrderInv
<1>3. ASSUME NEW t \in Turns, TurnStep(t), ~Send(t) PROVE OrderInv'
  <2>1. order' = order
    BY <1>3 DEF TurnStep, Observe, Load, SaveUser, StepEnds, StepCommitted, Committed,
                AskForFormat, FormatAsked, RecordTitle, ApplyTitle, Fail, inspector
  <2>2. \A u \in Turns : u # t => pc'[u] = pc[u]
    BY <1>3, TurnMoves, TypeParts
  <2>3. pc[t] # "idle" /\ pc'[t] # "idle"
    BY <1>0, <1>3 DEF TurnStep, Observe, Load, SaveUser, StepEnds, StepCommitted, AfterStream,
                AskForFormat, FormatAsked, RecordTitle, ApplyTitle, Fail, Goes
  <2> QED BY <1>1, <2>1, <2>2, <2>3
<1>4. CASE InspectorStep \/ UNCHANGED vars
  <2>1. CASE Restart
    BY <1>0, <1>1, <2>1 DEF Restart, InFlight
  <2>2. CASE ~Restart
    BY <1>1, <1>4, <2>2 DEF InspectorStep, SaveRow, Rename, RenameSaved, DeleteStarts,
          MarkDeleted, DropTranscript, Unregister, vars
  <2> QED BY <2>1, <2>2
<1> QED
  BY <1>2, <1>3, <1>4, NextParts

LEMMA SpeechInvariance == Spec => [](TypeOK /\ SpeechInv /\ OrderInv)
<1>1. Init => TypeOK /\ TranscriptBooks /\ SpeechInv /\ OrderInv
  <2> SUFFICES ASSUME Init PROVE SpeechInv /\ OrderInv
    BY InitTyped, InitTranscript
  <2>1. DOMAIN transcript = {} /\ DOMAIN order = {}
    BY DEF Init
  <2>2. SpeechInv
    BY <2>1 DEF Init, SpeechInv, Speech, Silent, Counted, Saving
  <2>3. OrderInv
    BY <2>1 DEF Init, OrderInv
  <2> QED BY <2>2, <2>3
<1>2. TypeOK /\ TranscriptBooks /\ SpeechInv /\ OrderInv /\ [Next]_vars
        => (TypeOK /\ TranscriptBooks /\ SpeechInv /\ OrderInv)'
  BY StepTyped, StepTranscript, StepSpeech, StepOrder
<1> QED
  BY <1>1, <1>2, PTL DEF Spec

LEMMA LastCommitTyped ==
  ASSUME TypeOK, NEW t \in Turns, commits[t] # <<>>
  PROVE  commits[t][Len(commits[t])].total \in Nat
<1>1. commits[t] \in Seq(Commit)
  BY DEF TypeOK
<1>2. Len(commits[t]) \in DOMAIN commits[t]
  BY <1>1, EmptySeq, LenProperties
<1>3. commits[t][Len(commits[t])] \in Commit
  BY <1>1, <1>2
<1> QED
  BY <1>3 DEF Commit

\* The range of a turn that has committed: from its user's message to the total
\* of its last commit.
LEMMA RangeIsOwn ==
  ASSUME TypeOK, NEW t \in Turns, Speech(t)
  PROVE  RangeOf(t) = IF commits[t] = <<>> THEN {}
                      ELSE First(t)..commits[t][Len(commits[t])].total
<1>1. CASE commits[t] = <<>>
  BY <1>1 DEF RangeOf
<1>2. CASE commits[t] # <<>>
  <2> DEFINE total == commits[t][Len(commits[t])].total
  <2>1. /\ Spoken(t) /\ commits[t][1].total - commits[t][1].count = First(t)
        /\ First(t) <= total /\ total <= Last(t)
    BY <1>2 DEF Speech, Counted
  <2>2. /\ First(t) \in Nat \ {0} /\ Last(t) \in Nat /\ Len(transcript) \in Nat
        /\ transcript \in Seq(Message) /\ DOMAIN transcript = 1..Len(transcript)
        /\ Last(t) <= Len(transcript)
    BY <2>1, PersistedLength, LenProperties DEF TypeOK, Spoken
  <2>3. total \in Nat
    BY <1>2, LastCommitTyped
  <2>4. First(t) \in DOMAIN transcript /\ transcript[First(t)] = User(t) /\ transcript # <<>>
    BY <2>1, <2>2, <2>3 DEF Spoken
  <2>5. FirstOf(t) = First(t)
    BY <2>1, <2>4 DEF FirstOf, SaidByUser, User
  <2>6. ~(FirstOf(t) = 1 /\ HasPin(transcript))
    <3>1. Head(transcript) = transcript[1]
      BY <2>2, <2>4
    <3> QED BY <2>4, <2>5, <3>1 DEF HasPin, IsTurn, User
  <2>7. Smaller(Len(transcript), total) = total
    BY <2>1, <2>2, <2>3 DEF Smaller
  <2>8. Smaller(First(t), total) = First(t)
    BY <2>1, <2>2, <2>3 DEF Smaller
  <2> HIDE DEF total
  <2> QED BY <1>2, <2>4, <2>5, <2>6, <2>7, <2>8 DEF RangeOf, total
<1> QED BY <1>1, <1>2

\* For any turns and bounds, the inspector attributes what was committed to the
\* turn that said it, and nothing to a wrong one.
THEOREM CommittedIsAttributed == Spec => []MessagesAttributed
<1>1. TypeOK /\ SpeechInv /\ OrderInv => MessagesAttributed
  <2> SUFFICES ASSUME TypeOK, SpeechInv, OrderInv, ~disturbed, NEW i \in DOMAIN transcript
               PROVE  LET m == transcript[i]
                          cs == commits[m.turn]
                          committed == IsTurn(m) /\ cs # <<>> /\ i <= cs[Len(cs)].total
                      IN  AttributedTo(i) = IF committed THEN m.turn ELSE NoTurn
    BY DEF MessagesAttributed
  <2> DEFINE m == transcript[i]
             cs == commits[m.turn]
             committed == IsTurn(m) /\ cs # <<>> /\ i <= cs[Len(cs)].total
             calls == {k \in DOMAIN order : i \in RangeOf(order[k])}
  <2>1. /\ transcript \in Seq(Message) /\ DOMAIN transcript = 1..Len(transcript)
        /\ Len(transcript) \in Nat /\ m \in Message /\ m.turn \in Turns
        /\ order \in Seq(Turns) /\ \A k \in DOMAIN order : order[k] \in Turns
    <3>1. transcript \in Seq(Message) /\ order \in Seq(Turns)
      BY DEF TypeOK
    <3>2. /\ DOMAIN transcript = 1..Len(transcript) /\ Len(transcript) \in Nat
          /\ \A k \in DOMAIN order : order[k] \in Turns
      BY <3>1, LenProperties
    <3>3. m \in Message
      BY <3>1
    <3>4. m.turn \in Turns
      BY <3>3 DEF Message
    <3> QED BY <3>1, <3>2, <3>3, <3>4
  <2>2. \A t \in Turns : Speech(t)
    BY DEF SpeechInv
  <2>3. ASSUME NEW t \in Turns
        PROVE  i \in RangeOf(t) <=> t = m.turn /\ committed
    <3>1. CASE commits[t] = <<>>
      BY <2>2, <3>1, RangeIsOwn
    <3>2. CASE commits[t] # <<>>
      <4>1. RangeOf(t) = First(t)..commits[t][Len(commits[t])].total
        BY <2>2, <3>2, RangeIsOwn
      <4>2. /\ Says(i, t) <=> i \in First(t)..Last(t)
            /\ commits[t][Len(commits[t])].total <= Last(t)
        BY <2>2, <3>2 DEF Speech, Counted, Spoken
      <4>3. /\ First(t) \in Nat /\ Last(t) \in Nat /\ i \in Nat
            /\ commits[t][Len(commits[t])].total \in Nat
        <5>1. commits[t][Len(commits[t])].total \in Nat
          BY <3>2, LastCommitTyped
        <5>2. First(t) \in Nat /\ Last(t) \in Nat
          BY PersistedLength
        <5>3. i \in Nat
          BY <2>1
        <5> QED BY <5>1, <5>2, <5>3
      <4>4. Says(i, t) <=> IsTurn(m) /\ t = m.turn
        BY DEF Says
      <4>5. i \in RangeOf(t) => t = m.turn /\ committed
        BY <3>2, <4>1, <4>2, <4>3, <4>4
      <4>6. t = m.turn /\ committed => i \in RangeOf(t)
        BY <4>1, <4>2, <4>3, <4>4
      <4> QED BY <4>5, <4>6
    <3> QED BY <3>1, <3>2
  <2>4. CASE ~committed
    <3>1. calls = {}
      <4> HIDE DEF committed
      <4> QED BY <2>1, <2>3, <2>4
    <3> QED BY <2>4, <3>1 DEF AttributedTo
  <2>5. CASE committed
    <3>1. pc[m.turn] # "idle"
      BY <2>1, <2>2, <2>5 DEF Speech
    <3>2. PICK k \in DOMAIN order : order[k] = m.turn
      BY <2>1, <3>1 DEF OrderInv
    <3>3. calls = {k}
      <4>1. \A l \in DOMAIN order : i \in RangeOf(order[l]) <=> order[l] = m.turn
        <5> HIDE DEF committed
        <5> QED BY <2>1, <2>3, <2>5
      <4>2. \A l \in DOMAIN order : order[l] = m.turn <=> l = k
        BY <3>2 DEF OrderInv
      <4> QED BY <4>1, <4>2
    <3>4. k <= k
      BY <2>1, LenProperties
    <3>5. (CHOOSE c \in calls : \A l \in calls : l <= c) = k
      <4> HIDE DEF calls
      <4> QED BY <3>3, <3>4
    <3> QED BY <2>5, <3>2, <3>3, <3>5 DEF AttributedTo
  <2> QED BY <2>4, <2>5
<1> QED
  BY <1>1, SpeechInvariance, PTL

-----------------------------------------------------------------------------
(* The entry and its row.                                                  *)

\* An entry that is missing stays missing: it is barred, and until the delete
\* is complete its row is marked and nobody is about to write it.
MissingStays ==
  session = "none" =>
    /\ barred
    /\ \/ deleting = "done"
       \/ deleting = "no" /\ row.deleted /\ saves = 0 /\ ~renaming

\* The mark of a deleted row is there, unless a save has removed it.
MarkStays == deleting \in {"marked", "dropped", "done"} /\ ~revived => row.deleted

\* A chosen title is that of the entry, and of its row unless a save of the
\* entry is due.
ChoiceStays ==
  deleting # "done" =>
    /\ renaming => title = "chosen"
    /\ renamed /\ session = "here" =>
         /\ title = "chosen"
         /\ saves = 0 /\ (\A t \in Turns : pc[t] # "titled") => row.title = "chosen"

EntryInv == MissingStays /\ MarkStays /\ DeletedIsUnlisted /\ ChoiceStays

LEMMA StepMissing ==
  ASSUME TypeOK, EntryInv, [Next]_vars
  PROVE  MissingStays'
<1> USE DEF EntryInv, MissingStays
<1>1. ASSUME NEW t \in Turns, TurnStep(t) PROVE MissingStays'
  BY <1>1 DEF TurnStep, Send, Observe, Load, SaveUser, StepEnds, StepCommitted, Committed,
     AskForFormat, FormatAsked, RecordTitle, ApplyTitle, Fail, inspector, TypeOK
<1>2. CASE InspectorStep
  <2>1. CASE SaveRow
    BY <2>1 DEF SaveRow, WriteRow
  <2>2. CASE Rename \/ RenameSaved
    BY <2>2 DEF Rename, RenameSaved, WriteRow
  <2>3. CASE DeleteStarts \/ MarkDeleted
    BY <2>3 DEF DeleteStarts, MarkDeleted
  <2>4. CASE DropTranscript \/ Unregister
    BY <2>4 DEF DropTranscript, Unregister
  <2>5. CASE Restart
    BY <2>5 DEF Restart, TypeOK
  <2> QED
    BY <1>2, <2>1, <2>2, <2>3, <2>4, <2>5 DEF InspectorStep
<1>3. CASE UNCHANGED vars
  BY <1>3 DEF vars, inspector
<1> QED
  BY <1>1, <1>2, <1>3, NextParts

LEMMA StepMark ==
  ASSUME TypeOK, EntryInv, [Next]_vars
  PROVE  MarkStays'
<1> USE DEF EntryInv, MarkStays
<1>1. ASSUME NEW t \in Turns, TurnStep(t) PROVE MarkStays'
  BY <1>1 DEF TurnStep, Send, Observe, Load, SaveUser, StepEnds, StepCommitted, Committed,
     AskForFormat, FormatAsked, RecordTitle, ApplyTitle, Fail, inspector, TypeOK
<1>2. CASE InspectorStep
  <2>1. CASE SaveRow \/ RenameSaved
    BY <2>1 DEF SaveRow, RenameSaved, WriteRow
  <2>2. CASE Rename \/ DeleteStarts \/ DropTranscript \/ Unregister
    BY <2>2 DEF Rename, DeleteStarts, DropTranscript, Unregister
  <2>3. CASE MarkDeleted
    BY <2>3 DEF MarkDeleted
  <2>4. CASE Restart
    BY <2>4 DEF Restart
  <2> QED
    BY <1>2, <2>1, <2>2, <2>3, <2>4 DEF InspectorStep
<1>3. CASE UNCHANGED vars
  BY <1>3 DEF vars, inspector
<1> QED
  BY <1>1, <1>2, <1>3, NextParts

LEMMA StepUnlisted ==
  ASSUME TypeOK, EntryInv, [Next]_vars
  PROVE  DeletedIsUnlisted'
<1> USE DEF EntryInv, MissingStays, MarkStays, DeletedIsUnlisted
<1>1. ASSUME NEW t \in Turns, TurnStep(t) PROVE DeletedIsUnlisted'
  BY <1>1 DEF TurnStep, Send, Observe, Load, SaveUser, StepEnds, StepCommitted, Committed,
     AskForFormat, FormatAsked, RecordTitle, ApplyTitle, Fail, inspector, TypeOK
<1>2. CASE InspectorStep
  <2>1. CASE SaveRow \/ RenameSaved
    BY <2>1 DEF SaveRow, RenameSaved, WriteRow
  <2>2. CASE Rename \/ DeleteStarts \/ DropTranscript \/ MarkDeleted
    BY <2>2 DEF Rename, DeleteStarts, DropTranscript, MarkDeleted
  <2>3. CASE Unregister
    BY <2>3 DEF Unregister
  <2>4. CASE Restart
    BY <2>4 DEF Restart
  <2> QED
    BY <1>2, <2>1, <2>2, <2>3, <2>4 DEF InspectorStep
<1>3. CASE UNCHANGED vars
  BY <1>3 DEF vars, inspector
<1> QED
  BY <1>1, <1>2, <1>3, NextParts

LEMMA StepChoice ==
  ASSUME TypeOK, EntryInv, [Next]_vars
  PROVE  ChoiceStays'
<1> USE DEF EntryInv, MissingStays, ChoiceStays
<1>1. ASSUME NEW t \in Turns, TurnStep(t) PROVE ChoiceStays'
  <2>0. /\ \A u \in Turns : u # t => pc'[u] = pc[u]
        /\ pc \in [Turns -> Places] /\ pc' \in [Turns -> Places] /\ saves \in Nat
    BY <1>1, TurnMoves, TypeParts DEF TypeOK, Places
  <2>1. CASE Send(t)
    <3>1. pc[t] # "titled" /\ (saves' = 0 => saves = 0)
      BY <2>0, <2>1 DEF Send, Goes
    <3> QED
      BY <2>0, <2>1, <3>1 DEF Send
  <2>2. CASE Observe(t)
    <3>1. pc[t] # "titled" /\ UNCHANGED <<row, saves, renaming, deleting, renamed>>
      BY <2>0, <2>2 DEF Observe, Goes
    <3>2. deleting # "done" /\ session = "none" => barred
      OBVIOUS
    <3>3. CASE session = "none" /\ ~barred
      BY <3>1, <3>2, <3>3
    <3>4. CASE ~(session = "none" /\ ~barred)
      BY <2>0, <2>2, <3>1, <3>4 DEF Observe
    <3> QED
      BY <3>3, <3>4
  <2>3. CASE RecordTitle(t)
    <3>1. pc[t] = "titling"
          /\ UNCHANGED <<session, title, saves, renaming, deleting, renamed>>
      BY <2>0, <2>3 DEF RecordTitle, Goes
    <3>2. pc'[t] = "titled" \/ row' = row
      BY <2>0, <2>3 DEF RecordTitle, Goes
    <3> QED
      BY <2>0, <3>1, <3>2
  <2>4. CASE ApplyTitle(t)
    <3>1. /\ UNCHANGED <<session, row, renaming, deleting, renamed>>
          /\ session = "here" => title' = TitleIfUnnamed /\ saves' # 0
          /\ session # "here" => UNCHANGED <<title, saves>>
      BY <2>0, <2>4 DEF ApplyTitle
    <3>2. title = "chosen" => TitleIfUnnamed = "chosen"
      BY DEF TitleIfUnnamed
    <3> QED
      BY <3>1, <3>2
  <2>5. CASE Load(t) \/ SaveUser(t) \/ StepEnds(t) \/ StepCommitted(t)
             \/ AskForFormat(t) \/ FormatAsked(t) \/ Fail(t)
    <3>1. UNCHANGED inspector
      BY <2>5 DEF Load, SaveUser, StepEnds, StepCommitted, Committed, AskForFormat,
                  FormatAsked, Fail
    <3>2. pc[t] # "titled"
      BY <2>0, <2>5 DEF Load, SaveUser, StepEnds, StepCommitted, AskForFormat,
                  FormatAsked, Fail, Goes
    <3> QED
      BY <2>0, <3>1, <3>2 DEF inspector
  <2> QED
    BY <1>1, <2>1, <2>2, <2>3, <2>4, <2>5 DEF TurnStep
<1>2. CASE InspectorStep
  <2>1. CASE SaveRow \/ RenameSaved
    BY <2>1 DEF SaveRow, RenameSaved, WriteRow
  <2>2. CASE Rename
    BY <2>2 DEF Rename
  <2>3. CASE DeleteStarts \/ DropTranscript \/ Unregister
    BY <2>3 DEF DeleteStarts, DropTranscript, Unregister
  <2>4. CASE MarkDeleted
    BY <2>4 DEF MarkDeleted
  <2>5. CASE Restart
    <3>1. /\ deleting' # "done" => deleting # "done"
          /\ title' = row.title /\ row' = row /\ renaming' = FALSE
          /\ session' = "here" => ~row.deleted
      BY <2>5 DEF Restart
    <3>2. renamed' => renamed /\ saves = 0 /\ \A t \in Turns : pc[t] # "titled"
      BY <2>5 DEF Restart
    <3>3. ~row.deleted /\ deleting # "done" => session = "here"
      BY DEF TypeOK
    <3> QED
      BY <3>1, <3>2, <3>3, Zenon
  <2> QED
    BY <1>2, <2>1, <2>2, <2>3, <2>4, <2>5 DEF InspectorStep
<1>3. CASE UNCHANGED vars
  BY <1>3 DEF vars, inspector
<1> QED
  BY <1>1, <1>2, <1>3, NextParts

LEMMA EntryInvariance == Spec => []EntryInv
<1>1. Init => EntryInv
  BY DEF Init, EntryInv, MissingStays, MarkStays, DeletedIsUnlisted, ChoiceStays
<1>2. TypeOK /\ EntryInv /\ [Next]_vars => EntryInv'
  BY StepMissing, StepMark, StepUnlisted, StepChoice DEF EntryInv
<1> QED
  BY <1>1, <1>2, ConversationTyped, PTL DEF Spec

\* A title that a person chose stays, for any number of turns, requests and
\* restarts.
THEOREM RenamesStick == Spec => []RenameSticks
<1>1. EntryInv => RenameSticks
  BY DEF EntryInv, ChoiceStays, RenameSticks
<1> QED
  BY <1>1, EntryInvariance, PTL

\* A deleted conversation stays off the list, unless a save unmarked its row.
THEOREM DeletedStaysUnlisted == Spec => []DeletedIsUnlisted
<1>1. EntryInv => DeletedIsUnlisted
  BY DEF EntryInv
<1> QED
  BY <1>1, EntryInvariance, PTL
=============================================================================
