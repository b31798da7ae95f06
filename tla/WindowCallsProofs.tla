------------------------- MODULE WindowCallsProofs --------------------------
(***************************************************************************)
(* Proofs about the parts of the window that wait for answers: the runs of *)
(* a tab, the keyboard with its timers, the git panel with its refreshes   *)
(* and commands, the connections with their rail and their objects, and    *)
(* the pages of a result.  Each has an inductive invariant; none of them   *)
(* bounds how many runs, chords, repositories, commands, connections or    *)
(* pages there are.                                                        *)
(***************************************************************************)
EXTENDS QueryRuns, Keybindings, GitPanel, WindowConnections, ResultPaging,
        PositionsProofs, WellFoundedInduction, SequenceTheorems, TLAPS

-----------------------------------------------------------------------------
(* The runs of a tab.                                                      *)

\* While no two runs have overlapped, a run in flight is alone: the result before it
\* was released when it was started, so the backend keeps none.
OneRunInv ==
    ~overlapped /\ inFlight # {} =>
        /\ \A r, s \in inFlight : r = s
        /\ spill = None /\ retained = {}

\* The inductive invariant of the window's runs.
RunIInv == RunsAreSound /\ OneRunInv

\* Its parts that a step keeps for the same reason: those about runs in flight,
LiveRuns == BusyMeansInFlight /\ CancelsAreForLiveRuns /\ PaintsAreOfLiveRuns
\* and those that are about runs which do not overlap.
LoneRuns == OneAtATimeLeaksNothing /\ OneAtATimePagesWhatItShows /\ OneRunInv

\* It holds when the window opens.
LEMMA RunInitially == RunInit => RunIInv
<1> SUFFICES ASSUME RunInit PROVE RunIInv
  OBVIOUS
<1> USE RunConstants DEF RunInit, None, NoResult, Runs
<1>1. RunTypeOK
  <2>1. shown \in [run : 0..started, held : {"nothing", "streamed", "paged", "history"}]
    <3>1. 0 \in 0..started
      OBVIOUS
    <3> QED
      BY <3>1
  <2> QED
    <3>1. 0 \in 0..MaxRuns /\ 0 \in 0..started
      OBVIOUS
    <3> QED
      BY <2>1, <3>1 DEF RunTypeOK
<1>2. BusyMeansInFlight /\ CancelsAreForLiveRuns /\ PaintsAreOfLiveRuns
  BY DEF BusyMeansInFlight, Busy, CancelsAreForLiveRuns, PaintsAreOfLiveRuns
<1>3. OneAtATimeLeaksNothing /\ OneAtATimePagesWhatItShows /\ OneRunInv
  BY DEF OneAtATimeLeaksNothing, OneAtATimePagesWhatItShows, OneRunInv
<1> QED
  BY <1>1, <1>2, <1>3 DEF RunIInv, RunsAreSound

\* No step of the window or the backend gives a variable another type.
LEMMA RunTypeStep ==
    ASSUME RunIInv, [RunNext]_runVars
    PROVE  RunTypeOK'
<1> USE RunConstants DEF RunIInv, RunsAreSound, RunTypeOK, Runs, None, Send, EndRun,
           ReleaseSpill, NoResult, FirstPage, Paged, Restored
<1>1. CASE ExecuteQuery
  BY <1>1 DEF ExecuteQuery
<1>2. CASE CancelQuery
  BY <1>2 DEF CancelQuery, CancelsAreForLiveRuns
<1>3. CASE RestoreHistoryResult
  BY <1>3 DEF RestoreHistoryResult
<1>4. ASSUME NEW r \in Runs, ColumnsArrive(r) PROVE RunTypeOK'
  BY <1>4 DEF ColumnsArrive
<1>5. ASSUME NEW r \in Runs, RowsArrive(r) PROVE RunTypeOK'
  BY <1>5 DEF RowsArrive
<1>6. ASSUME NEW r \in Runs, Paint(r) PROVE RunTypeOK'
  BY <1>6 DEF Paint, PaintsAreOfLiveRuns
<1>7. ASSUME NEW r \in Runs, Answers(r) PROVE RunTypeOK'
  BY <1>7 DEF Answers
<1>8. ASSUME NEW r \in Runs, StreamEnds(r) PROVE RunTypeOK'
  BY <1>8 DEF StreamEnds
<1>9. ASSUME NEW r \in Runs, NEW b \in BOOLEAN, Fails(r, b) PROVE RunTypeOK'
  BY <1>9 DEF Fails
<1>10. ASSUME NEW r \in Runs, NEW b \in BOOLEAN, CancelAnswers(r, b) PROVE RunTypeOK'
  BY <1>10 DEF CancelAnswers
<1>11. CASE UNCHANGED runVars
  BY <1>11 DEF runVars
<1> QED
  BY <1>1, <1>2, <1>3, <1>4, <1>5, <1>6, <1>7, <1>8, <1>9, <1>10, <1>11
  DEF RunNext

\* No step leaves the window waiting for, cancelling or painting a run that has ended.
LEMMA RunLiveStep ==
    ASSUME RunIInv, [RunNext]_runVars
    PROVE  LiveRuns'
<1> USE RunConstants DEF RunIInv, RunsAreSound, RunTypeOK, Runs, None, Send, EndRun,
           ReleaseSpill, Busy, LiveRuns, BusyMeansInFlight, CancelsAreForLiveRuns, PaintsAreOfLiveRuns
<1>1. CASE ExecuteQuery
  BY <1>1 DEF ExecuteQuery
<1>2. CASE CancelQuery
  BY <1>2 DEF CancelQuery
<1>3. CASE RestoreHistoryResult
  BY <1>3 DEF RestoreHistoryResult
<1>4. ASSUME NEW r \in Runs, ColumnsArrive(r) PROVE LiveRuns'
  BY <1>4 DEF ColumnsArrive
<1>5. ASSUME NEW r \in Runs, RowsArrive(r) PROVE LiveRuns'
  BY <1>5 DEF RowsArrive
<1>6. ASSUME NEW r \in Runs, Paint(r) PROVE LiveRuns'
  BY <1>6 DEF Paint
<1>7. ASSUME NEW r \in Runs, Answers(r) PROVE LiveRuns'
  BY <1>7 DEF Answers
<1>8. ASSUME NEW r \in Runs, StreamEnds(r) PROVE LiveRuns'
  BY <1>8 DEF StreamEnds
<1>9. ASSUME NEW r \in Runs, NEW b \in BOOLEAN, Fails(r, b) PROVE LiveRuns'
  BY <1>9 DEF Fails
<1>10. ASSUME NEW r \in Runs, NEW b \in BOOLEAN, CancelAnswers(r, b) PROVE LiveRuns'
  BY <1>10 DEF CancelAnswers
<1>11. CASE UNCHANGED runVars
  BY <1>11 DEF runVars
<1> QED
  BY <1>1, <1>2, <1>3, <1>4, <1>5, <1>6, <1>7, <1>8, <1>9, <1>10, <1>11
  DEF RunNext

\* Without overlap, a step keeps one result, and it is the one shown.
LEMMA RunAloneStep ==
    ASSUME RunIInv, [RunNext]_runVars
    PROVE  LoneRuns'
<1> USE RunConstants DEF RunIInv, RunsAreSound, RunTypeOK, Runs, None, Send, EndRun,
           ReleaseSpill, Busy, LoneRuns, OneAtATimeLeaksNothing,
           OneAtATimePagesWhatItShows, PaintsAreOfLiveRuns, OneRunInv, FirstPage, Paged, Restored
<1>1. CASE ExecuteQuery
  BY <1>1 DEF ExecuteQuery
<1>2. CASE CancelQuery
  BY <1>2 DEF CancelQuery
<1>3. CASE RestoreHistoryResult
  BY <1>3 DEF RestoreHistoryResult
<1>4. ASSUME NEW r \in Runs, ColumnsArrive(r) PROVE LoneRuns'
  BY <1>4 DEF ColumnsArrive
<1>5. ASSUME NEW r \in Runs, RowsArrive(r) PROVE LoneRuns'
  BY <1>5 DEF RowsArrive
<1>6. ASSUME NEW r \in Runs, Paint(r) PROVE LoneRuns'
  BY <1>6 DEF Paint
<1>7. ASSUME NEW r \in Runs, Answers(r) PROVE LoneRuns'
  BY <1>7 DEF Answers
<1>8. ASSUME NEW r \in Runs, StreamEnds(r) PROVE LoneRuns'
  BY <1>8 DEF StreamEnds
<1>9. ASSUME NEW r \in Runs, NEW b \in BOOLEAN, Fails(r, b) PROVE LoneRuns'
  BY <1>9 DEF Fails
<1>10. ASSUME NEW r \in Runs, NEW b \in BOOLEAN, CancelAnswers(r, b) PROVE LoneRuns'
  BY <1>10 DEF CancelAnswers
<1>11. CASE UNCHANGED runVars
  BY <1>11 DEF runVars
<1> QED
  BY <1>1, <1>2, <1>3, <1>4, <1>5, <1>6, <1>7, <1>8, <1>9, <1>10, <1>11
  DEF RunNext

\* What the window waits for, may cancel or will paint belongs to a run in flight,
\* however many are started, overlap and in whatever order they end.
THEOREM RunsStaySound == RunSpec => []RunsAreSound
<1>1. RunInit => RunIInv
  BY RunInitially
<1>2. RunIInv /\ [RunNext]_runVars => RunIInv'
  BY RunTypeStep, RunLiveStep, RunAloneStep DEF RunIInv, RunsAreSound, LiveRuns, LoneRuns
<1>3. RunIInv => RunsAreSound
  BY DEF RunIInv
<1> QED
  BY <1>1, <1>2, <1>3, PTL DEF RunSpec

-----------------------------------------------------------------------------
(* The keyboard.                                                           *)

\* A sequence of chords: its chords are chords, and one more makes it longer.
LEMMA ElementsOfSeq ==
    ASSUME NEW S, NEW s \in Seq(S)
    PROVE  Range(s) \subseteq S
<1>1. \A i \in DOMAIN s : s[i] \in S
  OBVIOUS
<1> QED
  BY <1>1 DEF Range

\* One chord more makes a longer sequence.
LEMMA OneChordMore ==
    ASSUME NEW S, NEW s \in Seq(S), NEW x \in S
    PROVE  /\ Append(s, x) \in Seq(S)
           /\ Len(Append(s, x)) = Len(s) + 1
           /\ Append(s, x) # << >>
  <1>1. Append(s, x) \in Seq(S) /\ Len(Append(s, x)) = Len(s) + 1 /\ Len(s) \in Nat
    OBVIOUS
  <1>2. Len(<< >>) = 0
    OBVIOUS
  <1> QED
    BY <1>1, <1>2

\* A single chord is a sequence.
LEMMA OneChord ==
    ASSUME NEW S, NEW x \in S
    PROVE  << x >> \in Seq(S) /\ Len(<< x >>) = 1 /\ << x >> # << >> /\ << x >> = Append(<< >>, x)
  OBVIOUS

\* The user's sequences are sequences of at most two chords of commands there are;
\* so are those being typed or recorded, the latter of at most one.
AreOverrides(o) ==
    DOMAIN o \subseteq Commands /\ \A c \in DOMAIN o : o[c] \in Seq(Chords) /\ Len(o[c]) <= 2

\* What is recorded, stored and being typed are sequences of chords.
SequencesTyped ==
    /\ AreOverrides(overrides)
    /\ pendingChords \in Seq(Chords)
    /\ recorded \in Seq(Chords) /\ Len(recorded) <= 1

\* The rest of the keyboard's state.
ControlsTyped ==
    /\ scope \in Scopes
    /\ keyTimer \in BOOLEAN /\ recTimer \in BOOLEAN /\ overlay \in BOOLEAN
    /\ recording \in Commands \cup {NoCommand}

\* The inductive invariant of the keyboard.
KeyIInv == SequencesTyped /\ ControlsTyped /\ TimersGuard /\ OneEffectPerKey

\* The typing of the proof implies the model's own.
LEMMA TypedMeansTypeOK == SequencesTyped /\ ControlsTyped => KeyTypeOK
<1> SUFFICES ASSUME SequencesTyped, ControlsTyped PROVE KeyTypeOK
  OBVIOUS
<1>1. \A c \in DOMAIN overrides : Range(overrides[c]) \subseteq Chords /\ Len(overrides[c]) <= 2
  BY ElementsOfSeq DEF SequencesTyped, AreOverrides
<1>2. Range(pendingChords) \subseteq Chords /\ Range(recorded) \subseteq Chords
  BY ElementsOfSeq DEF SequencesTyped
<1>3. DOMAIN overrides \subseteq Commands
  BY DEF SequencesTyped, AreOverrides
<1>4. /\ scope \in Scopes /\ {keyTimer, recTimer, overlay} \subseteq BOOLEAN
      /\ recording \in Commands \cup {NoCommand}
  BY DEF ControlsTyped
<1> QED
  BY <1>1, <1>2, <1>3, <1>4 DEF KeyTypeOK

\* What a command without an entry among the overrides has: its default.
LEMMA NoCommandIsNone == NoCommand \notin Commands
  BY KeyConstants DEF NoCommand, Commands

\* What the settings make of the overrides.
LEMMA ReplacedOverrides == AreOverrides(<< >>) /\ AreOverrides(Suggested)
  BY KeyConstants DEF AreOverrides, Commands

\* Recording a sequence for a command, and resetting one, keep the overrides typed.
LEMMA OneMoreOverride ==
    ASSUME NEW o, AreOverrides(o), NEW c \in Commands,
           NEW seq \in Seq(Chords), Len(seq) <= 2
    PROVE  AreOverrides(WithKeys(o, c, seq))
  BY DEF AreOverrides, WithKeys

\* A reset command has no sequence of its own any more.
LEMMA OneOverrideLess ==
    ASSUME NEW o, AreOverrides(o), NEW c
    PROVE  AreOverrides(WithoutKeys(o, c))
  BY DEF AreOverrides, WithoutKeys

\* It holds when the window opens, whatever was stored.
LEMMA KeyInitially == KeyInit => KeyIInv
<1> SUFFICES ASSUME KeyInit PROVE KeyIInv
  OBVIOUS
<1>1. AreOverrides(overrides)
  BY ReplacedOverrides DEF KeyInit
<1>2. pendingChords \in Seq(Chords) /\ recorded \in Seq(Chords) /\ Len(recorded) <= 1
  BY DEF KeyInit
<1>3. /\ scope \in Scopes /\ recording \in Commands \cup {NoCommand}
      /\ keyTimer \in BOOLEAN /\ recTimer \in BOOLEAN /\ overlay \in BOOLEAN
  BY DEF KeyInit, Scopes
<1>4. TimersGuard
  BY DEF KeyInit, TimersGuard
<1>5. OneEffectPerKey
  BY DEF KeyInit, OneEffectPerKey, NoKey
<1> QED
  BY <1>1, <1>2, <1>3, <1>4, <1>5 DEF KeyIInv, SequencesTyped, ControlsTyped

\* No step gives a command a sequence that is none, or one of more than two chords.
LEMMA KeySequencesStep ==
    ASSUME KeyIInv, [KeyNext]_keyVars
    PROVE  SequencesTyped'
<1> USE DEF KeyIInv, SequencesTyped, SetOverrides, StopRecording, ClearPending
<1>1. CASE RecordingTimesOut
  <2>1. recording \in Commands
    BY <1>1 DEF RecordingTimesOut, TimersGuard, ControlsTyped
  <2>2. AreOverrides(overrides')
    BY <1>1, <2>1, OneMoreOverride DEF RecordingTimesOut
  <2> QED
    BY <1>1, <2>2 DEF RecordingTimesOut
<1>2. CASE PendingTimesOut
  BY <1>2 DEF PendingTimesOut
<1>3. CASE ToggleOverlay
  BY <1>3 DEF ToggleOverlay
<1>4. CASE ReplaceKeymapOverrides
  BY <1>4, ReplacedOverrides DEF ReplaceKeymapOverrides, Settings
<1>5. ASSUME NEW place \in Places, EscapeClosesOverlay(place) PROVE SequencesTyped'
  BY <1>5 DEF EscapeClosesOverlay
<1>6. ASSUME NEW place \in Places, NEW chord \in Chords, KeyRecorded(chord, place) PROVE SequencesTyped'
  <2>1. CASE chord = Escape
    BY <1>6, <2>1 DEF KeyRecorded
  <2>2. CASE chord # Escape /\ recorded # << >>
    <3>1. Append(recorded, chord) \in Seq(Chords) /\ Len(Append(recorded, chord)) <= 2
      BY OneChordMore
    <3>2. recording \in Commands
      BY <1>6 DEF KeyRecorded, ControlsTyped
    <3>3. AreOverrides(WithKeys(overrides, recording, Append(recorded, chord)))
      BY <3>1, <3>2, OneMoreOverride
    <3> QED
      BY <1>6, <2>2, <3>3 DEF KeyRecorded
  <2>3. CASE chord # Escape /\ recorded = << >>
    <3>1. recorded' = << chord >> /\ UNCHANGED overrides /\ UNCHANGED pendingChords
      BY <1>6, <2>3 DEF KeyRecorded
    <3> QED
      BY <3>1, OneChord
  <2> QED
    BY <2>1, <2>2, <2>3
<1>7. ASSUME NEW place \in Places, NEW chord \in Chords, KeyResolved(chord, place) PROVE SequencesTyped'
  <2>1. Append(pendingChords, chord) \in Seq(Chords)
    BY OneChordMore
  <2>2. pendingChords' \in {<< >>, Append(pendingChords, chord)}
    BY <1>7 DEF KeyResolved
  <2>3. pendingChords' \in Seq(Chords)
    <3>1. << >> \in Seq(Chords)
      OBVIOUS
    <3> QED
      BY <2>1, <2>2, <3>1
  <2>4. UNCHANGED <<overrides, recorded>>
    BY <1>7 DEF KeyResolved
  <2> QED
    BY <2>3, <2>4
<1>8. ASSUME NEW c \in Commands, BeginRecording(c) PROVE SequencesTyped'
  <2>1. UNCHANGED overrides /\ UNCHANGED pendingChords
    BY <1>8 DEF BeginRecording, Settings
  <2>2. recorded' = << >>
    BY <1>8 DEF BeginRecording
  <2> QED
    BY <2>1, <2>2
<1>9. ASSUME NEW c \in Commands, ResetKeybinding(c) PROVE SequencesTyped'
  <2>1. AreOverrides(overrides')
    BY <1>9, OneOverrideLess DEF ResetKeybinding
  <2>2. recorded' \in Seq(Chords) /\ Len(recorded') <= 1
    <3>1. CASE recording = c
      BY <1>9, <3>1 DEF ResetKeybinding
    <3>2. CASE recording # c
      <4>1. UNCHANGED <<recording, recorded, recTimer>>
        BY <1>9, <3>2 DEF ResetKeybinding
      <4> QED
        BY <4>1
    <3> QED
      BY <3>1, <3>2
  <2>3. UNCHANGED pendingChords
    BY <1>9 DEF ResetKeybinding, Settings
  <2> QED
    BY <2>1, <2>2, <2>3
<1>10. ASSUME NEW unset \in SUBSET Commands, ApplyVimKeybindingPlan(unset) PROVE SequencesTyped'
  <2>1. AreOverrides(overrides')
    BY <1>10, ReplacedOverrides DEF ApplyVimKeybindingPlan, AreOverrides
  <2> QED
    BY <1>10, <2>1 DEF ApplyVimKeybindingPlan, Settings
<1>11. CASE UNCHANGED keyVars
  BY <1>11 DEF keyVars
<1> QED
  BY <1>1, <1>2, <1>3, <1>4, <1>5, <1>6, <1>7, <1>8, <1>9, <1>10, <1>11 DEF KeyNext

\* The timers stay set or not, and what is recorded is of a command there is.
LEMMA KeyControlsStep ==
    ASSUME KeyIInv, [KeyNext]_keyVars
    PROVE  ControlsTyped'
<1> USE DEF KeyIInv, ControlsTyped, StopRecording, ClearPending
<1>1. CASE RecordingTimesOut
  BY <1>1 DEF RecordingTimesOut
<1>2. CASE PendingTimesOut
  BY <1>2 DEF PendingTimesOut
<1>3. CASE ToggleOverlay
  BY <1>3 DEF ToggleOverlay
<1>4. CASE ReplaceKeymapOverrides
  BY <1>4 DEF ReplaceKeymapOverrides, Settings
<1>5. ASSUME NEW place \in Places, EscapeClosesOverlay(place) PROVE ControlsTyped'
  BY <1>5 DEF EscapeClosesOverlay
<1>6. ASSUME NEW place \in Places, NEW chord \in Chords, KeyRecorded(chord, place) PROVE ControlsTyped'
  BY <1>6 DEF KeyRecorded
<1>7. ASSUME NEW place \in Places, NEW chord \in Chords, KeyResolved(chord, place) PROVE ControlsTyped'
  <2>1. ScopeAt(place) \in Scopes
    BY DEF ScopeAt, Scopes, Places, ControlsTyped
  <2> QED
    BY <1>7, <2>1 DEF KeyResolved
<1>8. ASSUME NEW c \in Commands, BeginRecording(c) PROVE ControlsTyped'
  BY <1>8 DEF BeginRecording, Settings
<1>9. ASSUME NEW c \in Commands, ResetKeybinding(c) PROVE ControlsTyped'
  BY <1>9 DEF ResetKeybinding, Settings
<1>10. ASSUME NEW unset \in SUBSET Commands, ApplyVimKeybindingPlan(unset) PROVE ControlsTyped'
  BY <1>10 DEF ApplyVimKeybindingPlan, Settings
<1>11. CASE UNCHANGED keyVars
  BY <1>11 DEF keyVars
<1> QED
  BY <1>1, <1>2, <1>3, <1>4, <1>5, <1>6, <1>7, <1>8, <1>9, <1>10, <1>11 DEF KeyNext

\* What is unfinished has its timer, and a timer something to end.
LEMMA KeyTimersStep ==
    ASSUME KeyIInv, [KeyNext]_keyVars
    PROVE  TimersGuard'
<1> USE NoCommandIsNone DEF KeyIInv, TimersGuard, StopRecording, ClearPending
<1>1. CASE RecordingTimesOut
  BY <1>1 DEF RecordingTimesOut
<1>2. CASE PendingTimesOut
  BY <1>2 DEF PendingTimesOut
<1>3. CASE ToggleOverlay
  BY <1>3 DEF ToggleOverlay
<1>4. CASE ReplaceKeymapOverrides
  BY <1>4 DEF ReplaceKeymapOverrides, Settings
<1>5. ASSUME NEW place \in Places, EscapeClosesOverlay(place) PROVE TimersGuard'
  BY <1>5 DEF EscapeClosesOverlay
<1>6. ASSUME NEW place \in Places, NEW chord \in Chords, KeyRecorded(chord, place) PROVE TimersGuard'
  BY <1>6, OneChord DEF KeyRecorded
<1>7. ASSUME NEW place \in Places, NEW chord \in Chords, KeyResolved(chord, place) PROVE TimersGuard'
  <2>1. Append(pendingChords, chord) # << >>
    BY OneChordMore DEF SequencesTyped
  <2> QED
    BY <1>7, <2>1 DEF KeyResolved
<1>8. ASSUME NEW c \in Commands, BeginRecording(c) PROVE TimersGuard'
  BY <1>8 DEF BeginRecording, Settings
<1>9. ASSUME NEW c \in Commands, ResetKeybinding(c) PROVE TimersGuard'
  BY <1>9 DEF ResetKeybinding, Settings
<1>10. ASSUME NEW unset \in SUBSET Commands, ApplyVimKeybindingPlan(unset) PROVE TimersGuard'
  BY <1>10 DEF ApplyVimKeybindingPlan, Settings
<1>11. CASE UNCHANGED keyVars
  BY <1>11 DEF keyVars
<1> QED
  BY <1>1, <1>2, <1>3, <1>4, <1>5, <1>6, <1>7, <1>8, <1>9, <1>10, <1>11 DEF KeyNext

\* The window takes a key of the editor, other than Escape, exactly when it claims it.
LEMMA KeyEffectStep ==
    ASSUME KeyIInv, [KeyNext]_keyVars
    PROVE  OneEffectPerKey'
<1> USE DEF KeyIInv, OneEffectPerKey, Settings
<1>1. CASE RecordingTimesOut
  BY <1>1 DEF RecordingTimesOut
<1>2. CASE PendingTimesOut
  BY <1>2 DEF PendingTimesOut
<1>3. CASE ToggleOverlay
  BY <1>3 DEF ToggleOverlay
<1>4. CASE ReplaceKeymapOverrides
  BY <1>4 DEF ReplaceKeymapOverrides, Settings
<1>5. ASSUME NEW place \in Places, EscapeClosesOverlay(place) PROVE OneEffectPerKey'
  BY <1>5 DEF EscapeClosesOverlay, Pressed
<1>6. ASSUME NEW place \in Places, NEW chord \in Chords, KeyRecorded(chord, place) PROVE OneEffectPerKey'
  BY <1>6 DEF KeyRecorded, AppClaims, Pressed
<1>7. ASSUME NEW place \in Places, NEW chord \in Chords, KeyResolved(chord, place) PROVE OneEffectPerKey'
  <2> DEFINE found == Resolve(ScopeAt(place), Append(pendingChords, chord), place \notin Typing)
  <2>1. recording = NoCommand
    BY <1>7 DEF KeyResolved
  <2>2. last' = [typed   |-> place = "cm-host" /\ chord # Escape,
                 claimed |-> place = "cm-host" /\ AppClaims(chord),
                 taken   |-> found.kind # "none" \/ pendingChords # << >>,
                 ran     |-> found.command]
    BY <1>7 DEF KeyResolved, Pressed
  <2>3. CASE place = "cm-host" /\ pendingChords = << >>
    <3>1. Append(pendingChords, chord) = << chord >> /\ ScopeAt(place) = "editor"
      BY <2>3, OneChord DEF ScopeAt
    <3>2. (place \notin Typing) = FALSE
      BY <2>3 DEF Typing
    <3>3. found = Resolve("editor", << chord >>, FALSE)
      BY <3>1, <3>2
    <3>4. AppClaims(chord) <=> found.kind # "none"
      BY <2>1, <2>3, <3>3 DEF AppClaims
    <3> QED
      BY <2>2, <2>3, <3>4
  <2>4. CASE place = "cm-host" /\ pendingChords # << >>
    BY <2>2, <2>4 DEF AppClaims
  <2>5. CASE place # "cm-host"
    BY <2>2, <2>5
  <2> QED
    BY <2>3, <2>4, <2>5
<1>8. ASSUME NEW c \in Commands, BeginRecording(c) PROVE OneEffectPerKey'
  BY <1>8 DEF BeginRecording, Settings
<1>9. ASSUME NEW c \in Commands, ResetKeybinding(c) PROVE OneEffectPerKey'
  BY <1>9 DEF ResetKeybinding, Settings
<1>10. ASSUME NEW unset \in SUBSET Commands, ApplyVimKeybindingPlan(unset) PROVE OneEffectPerKey'
  BY <1>10 DEF ApplyVimKeybindingPlan, Settings
<1>11. CASE UNCHANGED keyVars
  BY <1>11 DEF keyVars
<1> QED
  BY <1>1, <1>2, <1>3, <1>4, <1>5, <1>6, <1>7, <1>8, <1>9, <1>10, <1>11 DEF KeyNext

\* And ever after.
LEMMA KeyInvariant == KeySpec => []KeyIInv
<1>1. KeyIInv /\ [KeyNext]_keyVars => KeyIInv'
  BY KeySequencesStep, KeyControlsStep, KeyTimersStep, KeyEffectStep DEF KeyIInv
<1> QED
  BY KeyInitially, <1>1, PTL DEF KeySpec

\* Every key of the SQL editor has one effect, whatever sequences the user has, and
\* nothing unfinished is left without its timer.
THEOREM KeysStaySound == KeySpec => []KeysAreSound
<1>1. KeyIInv => KeysAreSound
  BY TypedMeansTypeOK DEF KeyIInv, KeysAreSound
<1> QED
  BY KeyInvariant, <1>1, PTL

\* The first place in the catalog that keys may name.
LEMMA MinIsThere ==
    ASSUME NEW places \in SUBSET Nat, places # {}
    PROVE  Min(places) \in places
<1> DEFINE Less == {p \in Nat \X Nat : p[1] < p[2]}
<1>1. IsWellFoundedOn(Less, Nat)
  BY NatLessThanWellFounded DEF OpToRel
<1> HIDE DEF Less
<1>2. PICK x \in places : \A y \in places : ~(<<y, x>> \in Less)
  BY <1>1, WFMin
<1>3. ASSUME NEW y \in places PROVE x <= y
  <2>1. x \in Nat /\ y \in Nat
    OBVIOUS
  <2>2. y < x => <<y, x>> \in Less
    BY <2>1 DEF Less
  <2> QED
    BY <1>2, <2>1, <2>2
<1> QED
  BY <1>3 DEF Min

\* The sequence of a command, recorded or not, is one of chords.
LEMMA KeymapTyped ==
    ASSUME KeyIInv, NEW c \in Commands
    PROVE  Keymap[c] \in Seq(Chords)
<1>1. Default[c] \in Seq(Chords)
  BY KeyConstants DEF Commands
<1>2. c \in DOMAIN overrides => overrides[c] \in Seq(Chords)
  BY DEF KeyIInv, SequencesTyped, AreOverrides
<1> QED
  BY <1>1, <1>2 DEF Keymap

\* The beginning of a sequence is taken for a sequence that goes on.
LEMMA BeginningIsAStrictPrefix ==
    ASSUME NEW S, NEW seq \in Seq(S), NEW n \in 1..(Len(seq) - 1)
    PROVE  IsStrictPrefix(SubSeq(seq, 1, n), seq)
<1>1. Len(SubSeq(seq, 1, n)) = n /\ SubSeq(seq, 1, n) \in Seq(S)
  OBVIOUS
<1>2. SubSeq(SubSeq(seq, 1, n), 1, n) = SubSeq(seq, 1, n)
  BY <1>1, SubSeqFull
<1>3. SubSeq(seq, 1, n) # seq
  BY <1>1
<1> QED
  BY <1>1, <1>2, <1>3 DEF IsStrictPrefix, IsPrefix

\* A command that shares its keys with none that is reported, and whose keys do not
\* begin those of another, is run by its keys in every scope it applies to: chord by
\* chord the sequence is waited for, and complete it names the command.
LEMMA KeysReach ==
    ASSUME KeyIInv
    PROVE  KeysRunTheirCommand
<1> SUFFICES ASSUME NEW c \in Commands, NEW s \in Scopes,
                    AppliesTo(c, s), Keymap[c] # << >>, ~HasConflict(c),
                    ~\E d \in Commands : AppliesTo(d, s) /\ IsStrictPrefix(Keymap[c], Keymap[d])
             PROVE  Reaches(c, s, TRUE)
  BY DEF KeysRunTheirCommand
<1> DEFINE binds == Candidates(s, TRUE)
<1>1. PICK place \in DOMAIN Catalog : Catalog[place] = c
  BY DEF Commands, Range
<1>2. place \in binds
  BY <1>1 DEF Candidates
<1>3. \A i \in binds : i \in DOMAIN Catalog /\ Catalog[i] \in Commands /\ AppliesTo(Catalog[i], s)
  BY DEF Candidates, Commands, Range
<1>4. ASSUME NEW n \in 1..(Len(Keymap[c]) - 1)
      PROVE  Resolve(s, SubSeq(Keymap[c], 1, n), TRUE).kind = "pending"
  <2>1. IsStrictPrefix(SubSeq(Keymap[c], 1, n), Keymap[c])
    BY KeymapTyped, BeginningIsAStrictPrefix
  <2>2. place \in Longer(binds, SubSeq(Keymap[c], 1, n))
    BY <1>1, <1>2, <2>1 DEF Longer
  <2> QED
    BY <2>2 DEF Resolve
<1>5. Resolve(s, Keymap[c], TRUE).command = c
  <2>1. Longer(binds, Keymap[c]) = {}
    BY <1>3 DEF Longer
  <2>2. place \in Exact(binds, Keymap[c])
    BY <1>1, <1>2 DEF Exact
  <2>3. \A i \in Exact(binds, Keymap[c]) : Catalog[i] = c
    BY <1>3 DEF Exact, HasConflict
  <2>4. Min(Exact(binds, Keymap[c])) \in Exact(binds, Keymap[c])
    <3>1. DOMAIN Catalog \subseteq Nat
      BY KeyConstants
    <3>2. Exact(binds, Keymap[c]) \in SUBSET Nat
      BY <1>3, <3>1 DEF Exact
    <3> QED
      BY <2>2, <3>2, MinIsThere
  <2> QED
    BY <2>1, <2>2, <2>3, <2>4 DEF Resolve
<1> QED
  BY <1>4, <1>5 DEF Reaches

\* Whatever the user has recorded, reset, imported or moved out of Vim's way: keys that
\* no conflict is reported for run their command.
THEOREM KeysAlwaysRunTheirCommand == KeySpec => []KeysRunTheirCommand
  BY KeyInvariant, KeysReach, PTL

-----------------------------------------------------------------------------
(* The git panel.                                                          *)

\* What is known of a repository, and what was read of one.
Contents == [files : SUBSET Files, head : Nat]
\* What a refresh has read of a repository.
Statuses == [path : Paths, files : SUBSET Files, head : Nat]

\* A call has the fields of its kind; what it has read is of a repository.
IsCall(c) ==
    /\ c.kind \in {"refresh", "file", "commitFile", "command"}
    /\ c.path \in Paths
    /\ c.kind = "refresh" =>
        /\ DOMAIN c = {"kind", "id", "path", "read", "none", "files", "head"}
        /\ c.read \subseteq {"status", "log"} /\ c.none \in BOOLEAN
        /\ c.files \subseteq Files /\ c.head \in Nat
        /\ c.read # {} => IsRepo(c.path)
    /\ c.kind = "command" =>
        DOMAIN c = {"kind", "id", "path", "name", "file", "shown", "done"}

\* The repositories there are, and the one the panel shows.
ReposTyped ==
    /\ repoPath \in Paths
    /\ DOMAIN repo \subseteq Paths /\ repo \in [DOMAIN repo -> Contents]
    /\ status \in {Nothing} \cup Statuses
    /\ status = Nothing \/ status.path \in DOMAIN repo

\* The panel's flags; it offers to set up a repository only when it shows none.
FlagsTyped ==
    /\ setupReason => status = Nothing
    /\ loading \in BOOLEAN /\ commitDiffLoading \in BOOLEAN /\ setupReason \in BOOLEAN
    /\ commitMessage \in BOOLEAN /\ overlappedCalls \in BOOLEAN

\* The calls under way are finitely many, and each is a call.
CallsInv ==
    /\ IsFiniteSet(calls)
    /\ \A c \in calls : IsCall(c)

\* While nothing has overlapped, one refresh or command at most is under way; a
\* refresh is of the path the panel is set to, and what it has read is still so.
OneCallInv ==
    ~overlappedCalls =>
        /\ \A c, d \in calls : Main(c) /\ Main(d) => c = d
        /\ \A c \in calls : c.kind = "refresh" =>
            /\ c.path = repoPath
            /\ "status" \in c.read => c.files = repo[c.path].files
            /\ "log" \in c.read => c.head = repo[c.path].head

\* The inductive invariant of the git panel.
PanelIInv ==
    /\ ReposTyped /\ FlagsTyped /\ CallsInv /\ OneCallInv
    /\ SelectionIsListed /\ CommitDiffIsOfItsSelection /\ AtRestItIsUpToDate

\* A set of one element at most has no two.
LEMMA NoTwo ==
    ASSUME NEW S, IsFiniteSet(S), ~(Cardinality(S) > 1), NEW x \in S, NEW y \in S
    PROVE  x = y
<1> SUFFICES ASSUME x # y PROVE FALSE
  OBVIOUS
<1>1. IsFiniteSet({x}) /\ Cardinality({x}) = 1
  BY FS_Singleton
<1>2. Cardinality({x} \cup {y}) = 2 /\ IsFiniteSet({x} \cup {y})
  <2>1. y \notin {x}
    OBVIOUS
  <2>2. IsFiniteSet({x} \cup {y}) /\ Cardinality({x} \cup {y}) = Cardinality({x}) + 1
    BY <1>1, <2>1, FS_AddElement
  <2> QED
    BY <1>1, <2>2
<1>3. {x} \cup {y} \subseteq S
  OBVIOUS
<1>4. Cardinality({x} \cup {y}) <= Cardinality(S)
  BY <1>3, FS_Subset
<1>5. Cardinality(S) \in Nat
  BY FS_CardinalityType
<1> QED
  BY <1>2, <1>4, <1>5

\* What sending calls makes of those under way.
LEMMA SentCalls ==
    ASSUME NEW kept, NEW sent, IsFiniteSet(kept), IsFiniteSet(sent), SendCalls(kept, sent),
           overlappedCalls \in BOOLEAN
    PROVE  /\ calls' = kept \cup sent /\ IsFiniteSet(calls')
           /\ overlappedCalls' \in BOOLEAN
           /\ ~overlappedCalls' => ~overlappedCalls /\ \A c, d \in calls' : Main(c) /\ Main(d) => c = d
<1>1. calls' = kept \cup sent /\ IsFiniteSet(calls')
  BY FS_Union DEF SendCalls
<1> DEFINE mains == {c \in kept \cup sent : Main(c)}
<1>2. IsFiniteSet(mains)
  BY <1>1, FS_Subset
<1>3. overlappedCalls' = (overlappedCalls \/ Cardinality(mains) > 1)
  BY DEF SendCalls
<1>4. ASSUME ~overlappedCalls', NEW c \in calls', NEW d \in calls', Main(c), Main(d)
      PROVE  c = d
  <2>1. c \in mains /\ d \in mains
    BY <1>1, <1>4
  <2>2. ~(Cardinality(mains) > 1)
    BY <1>3, <1>4
  <2> HIDE DEF mains
  <2> QED
    BY <1>2, <2>1, <2>2, NoTwo
<1> HIDE DEF mains
<1> QED
  BY <1>1, <1>3, <1>4

\* It holds when the panel opens.
LEMMA PanelInitially == PanelInit => PanelIInv
<1> SUFFICES ASSUME PanelInit PROVE PanelIInv
  OBVIOUS
<1> USE PanelConstants
<1>1. ReposTyped
  <2>1. [files |-> Files, head |-> 1] \in Contents
    BY DEF Contents
  <2>2. repo \in [Repos -> Contents] /\ DOMAIN repo = Repos
    BY <2>1 DEF PanelInit
  <2> QED
    BY <2>2 DEF PanelInit, ReposTyped, Paths
<1>2. CallsInv
  BY FS_EmptySet DEF PanelInit, CallsInv
<1>3. OneCallInv /\ AtRestItIsUpToDate /\ CommitDiffIsOfItsSelection
  BY DEF PanelInit, OneCallInv, AtRestItIsUpToDate, CommitDiffIsOfItsSelection
<1>4. SelectionIsListed
  BY DEF PanelInit, SelectionIsListed
<1>5. FlagsTyped
  BY DEF PanelInit, FlagsTyped
<1> QED
  BY <1>1, <1>2, <1>3, <1>4, <1>5 DEF PanelIInv

\* Finite sets: one element or none, and one element in another's place.
LEMMA OneOrNone ==
    ASSUME NEW x, NEW S \in {{}, {x}}
    PROVE  IsFiniteSet(S)
<1>1. CASE S = {}
  BY <1>1, FS_EmptySet
<1>2. CASE S = {x}
  BY <1>2, FS_Singleton
<1> QED
  BY <1>1, <1>2

\* An element in another's place leaves a set finite.
LEMMA Replaced ==
    ASSUME NEW S, IsFiniteSet(S), NEW x, NEW y
    PROVE  IsFiniteSet(S \ {x}) /\ IsFiniteSet((S \ {x}) \cup {y})
<1>1. IsFiniteSet(S \ {x})
  BY FS_RemoveElement
<1> QED
  BY <1>1, FS_AddElement

\* A part of a repository is read, or none is found.
LEMMA ReadMeans ==
    ASSUME NEW c \in calls, IsCall(c), BackendReads(c)
    PROVE  \E d : /\ calls' = (calls \ {c}) \cup {d}
                  /\ d.kind = "refresh" /\ d.path = c.path
                  /\ \/ d.read = c.read /\ d.files = c.files /\ d.head = c.head
                     \/ /\ d.read = c.read \cup {"status"}
                        /\ d.files = repo[c.path].files /\ d.head = c.head
                     \/ /\ d.read = c.read \cup {"log"}
                        /\ d.files = c.files /\ d.head = repo[c.path].head
<1> DEFINE n == [c EXCEPT !.none = TRUE]
           s == [c EXCEPT !.read = @ \cup {"status"}, !.files = repo[c.path].files]
           l == [c EXCEPT !.read = @ \cup {"log"}, !.head = repo[c.path].head]
<1>1. DOMAIN c = {"kind", "id", "path", "read", "none", "files", "head"} /\ c.kind = "refresh"
  BY DEF IsCall, BackendReads
<1>2. /\ n.kind = "refresh" /\ n.path = c.path
      /\ n.read = c.read /\ n.files = c.files /\ n.head = c.head
  BY <1>1
<1>3. /\ s.kind = "refresh" /\ s.path = c.path
      /\ s.read = c.read \cup {"status"} /\ s.files = repo[c.path].files /\ s.head = c.head
  BY <1>1
<1>4. /\ l.kind = "refresh" /\ l.path = c.path
      /\ l.read = c.read \cup {"log"} /\ l.files = c.files /\ l.head = repo[c.path].head
  BY <1>1
<1>5. \E d \in {n, s, l} : calls' = (calls \ {c}) \cup {d}
  BY DEF BackendReads
<1> HIDE DEF n, s, l
<1> QED
  BY <1>2, <1>3, <1>4, <1>5

\* No step gives a variable another type, or shows what is not of a repository.
LEMMA PanelTypedStep ==
    ASSUME ReposTyped, CallsInv, [PanelNext]_panelVars
    PROVE  ReposTyped'
<1> USE PanelConstants DEF ReposTyped
<1>1. CASE PressRefresh
  BY <1>1 DEF PressRefresh, RefreshPath, SendCalls, shownVars, commitVars
<1>2. CASE TypeMessage
  BY <1>2 DEF TypeMessage, SendCalls, shownVars, commitVars
<1>3. CASE InitRepository
  BY <1>3 DEF InitRepository, SendCalls, shownVars, commitVars
<1>4. ASSUME NEW p \in Paths, SetRepoPath(p) PROVE ReposTyped'
  BY <1>4 DEF SetRepoPath, RefreshPath, SendCalls, shownVars, commitVars
<1>5. ASSUME NEW f \in Files, SelectFile(f) PROVE ReposTyped'
  BY <1>5 DEF SelectFile, SendCalls, shownVars, commitVars
<1>6. ASSUME NEW f \in Files \cup {Nothing}, PickCommitFile(f) PROVE ReposTyped'
  BY <1>6 DEF PickCommitFile, SelectCommitFile, SendCalls, shownVars, commitVars
<1>7. ASSUME NEW c \in CommitsOf(status), SelectCommit(c) PROVE ReposTyped'
  BY <1>7 DEF SelectCommit, SelectCommitFile, SendCalls, shownVars, commitVars
<1>8. ASSUME NEW name, NEW f, RunCommand(name, f) PROVE ReposTyped'
  BY <1>8 DEF RunCommand, SendCalls, shownVars, commitVars
<1>9. ASSUME NEW c \in calls, BackendReads(c) PROVE ReposTyped'
  BY <1>9 DEF BackendReads, SendCalls, shownVars, commitVars
<1>10. ASSUME NEW c \in calls, BackendDoes(c) PROVE ReposTyped'
  <2>1. c.path \in Paths /\ IsCall(c)
    BY DEF CallsInv, IsCall
  <2>2. CASE c.name = "init"
    <3>1. [files |-> {}, head |-> 0] \in Contents
      BY DEF Contents
    <3>2. repo' = [p \in DOMAIN repo \cup {c.path} |->
                     IF p \in DOMAIN repo THEN repo[p] ELSE [files |-> {}, head |-> 0]]
      BY <1>10, <2>2 DEF BackendDoes
    <3>3. DOMAIN repo' = DOMAIN repo \cup {c.path} /\ repo' \in [DOMAIN repo' -> Contents]
      BY <3>1, <3>2
    <3> QED
      BY <1>10, <2>1, <3>3 DEF BackendDoes, IsRepo, shownVars, commitVars
  <2>3. CASE c.name # "init"
    <3>1. repo' = [repo EXCEPT ![c.path] = Changed(@, c.name, c.file)] /\ c.path \in DOMAIN repo
      BY <1>10, <2>3 DEF BackendDoes, IsRepo
    <3>2. repo[c.path] \in Contents
      BY <3>1
    <3>3. Changed(repo[c.path], c.name, c.file) \in Contents
      BY <3>2 DEF Changed, Contents
    <3>4. DOMAIN repo' = DOMAIN repo /\ repo' \in [DOMAIN repo' -> Contents]
      BY <3>1, <3>3
    <3> QED
      BY <1>10, <2>1, <3>4 DEF BackendDoes, IsRepo, shownVars, commitVars
  <2> QED
    BY <2>2, <2>3
<1>11. ASSUME NEW c \in calls, RefreshAnswered(c) PROVE ReposTyped'
  <2>1. IsCall(c) /\ c.kind = "refresh" /\ c.read = {"status", "log"} /\ c.read # {}
    BY <1>11 DEF CallsInv, RefreshAnswered
  <2>2. IsRepo(c.path) /\ c.path \in Paths /\ c.files \subseteq Files /\ c.head \in Nat
    BY <2>1 DEF IsCall
  <2>3. status' \in Statuses /\ status'.path = c.path
    BY <1>11, <2>2 DEF RefreshAnswered, Statuses
  <2> QED
    BY <1>11, <2>2, <2>3 DEF RefreshAnswered, IsRepo
<1>12. ASSUME NEW c \in calls, RefreshFindsNone(c) PROVE ReposTyped'
  BY <1>12 DEF RefreshFindsNone, SendCalls, shownVars, commitVars
<1>13. ASSUME NEW c \in calls, RefreshFails(c) PROVE ReposTyped'
  BY <1>13 DEF RefreshFails, SendCalls, shownVars, commitVars
<1>14. ASSUME NEW c \in calls, CommandAnswered(c) PROVE ReposTyped'
  BY <1>14 DEF CommandAnswered, RefreshPath, SendCalls, shownVars, commitVars
<1>15. ASSUME NEW c \in calls, CommandFails(c) PROVE ReposTyped'
  BY <1>15 DEF CommandFails, SendCalls, shownVars, commitVars
<1>16. ASSUME NEW c \in calls, FileAnswered(c) PROVE ReposTyped'
  BY <1>16 DEF FileAnswered, SendCalls, shownVars, commitVars
<1>17. ASSUME NEW c \in calls, CommitFileAnswered(c) PROVE ReposTyped'
  BY <1>17 DEF CommitFileAnswered, SendCalls, shownVars, commitVars
<1>18. CASE UNCHANGED panelVars
  BY <1>18 DEF panelVars, shownVars, commitVars, SendCalls, shownVars, commitVars
<1> QED
  BY <1>1, <1>2, <1>3, <1>4, <1>5, <1>6, <1>7, <1>8, <1>9, <1>10, <1>11, <1>12, <1>13,
     <1>14, <1>15, <1>16, <1>17, <1>18 DEF PanelNext, Answer

\* The flags stay flags, and the panel offers to set up a repository only where it shows none.
LEMMA PanelFlagsStep ==
    ASSUME FlagsTyped, [PanelNext]_panelVars
    PROVE  FlagsTyped'
<1> USE PanelConstants DEF FlagsTyped
<1>1. CASE PressRefresh
  BY <1>1 DEF PressRefresh, RefreshPath, SendCalls, shownVars, commitVars
<1>2. CASE TypeMessage
  BY <1>2 DEF TypeMessage, SendCalls, shownVars, commitVars
<1>3. CASE InitRepository
  BY <1>3 DEF InitRepository, SendCalls, shownVars, commitVars
<1>4. ASSUME NEW p \in Paths, SetRepoPath(p) PROVE FlagsTyped'
  BY <1>4 DEF SetRepoPath, RefreshPath, SendCalls, shownVars, commitVars
<1>5. ASSUME NEW f \in Files, SelectFile(f) PROVE FlagsTyped'
  BY <1>5 DEF SelectFile, SendCalls, shownVars, commitVars
<1>6. ASSUME NEW f \in Files \cup {Nothing}, PickCommitFile(f) PROVE FlagsTyped'
  BY <1>6 DEF PickCommitFile, SelectCommitFile, SendCalls, shownVars, commitVars
<1>7. ASSUME NEW c \in CommitsOf(status), SelectCommit(c) PROVE FlagsTyped'
  BY <1>7 DEF SelectCommit, SelectCommitFile, SendCalls, shownVars, commitVars
<1>8. ASSUME NEW name, NEW f, RunCommand(name, f) PROVE FlagsTyped'
  BY <1>8 DEF RunCommand, SendCalls, shownVars, commitVars
<1>9. ASSUME NEW c \in calls, BackendReads(c) PROVE FlagsTyped'
  BY <1>9 DEF BackendReads, SendCalls, shownVars, commitVars
<1>10. ASSUME NEW c \in calls, BackendDoes(c) PROVE FlagsTyped'
  BY <1>10 DEF BackendDoes, SendCalls, shownVars, commitVars
<1>11. ASSUME NEW c \in calls, RefreshAnswered(c) PROVE FlagsTyped'
  BY <1>11 DEF RefreshAnswered, SelectCommitFile, SendCalls, shownVars, commitVars
<1>12. ASSUME NEW c \in calls, RefreshFindsNone(c) PROVE FlagsTyped'
  BY <1>12 DEF RefreshFindsNone, SendCalls, shownVars, commitVars
<1>13. ASSUME NEW c \in calls, RefreshFails(c) PROVE FlagsTyped'
  BY <1>13 DEF RefreshFails, SendCalls, shownVars, commitVars
<1>14. ASSUME NEW c \in calls, CommandAnswered(c) PROVE FlagsTyped'
  BY <1>14 DEF CommandAnswered, RefreshPath, SendCalls, shownVars, commitVars
<1>15. ASSUME NEW c \in calls, CommandFails(c) PROVE FlagsTyped'
  BY <1>15 DEF CommandFails, SendCalls, shownVars, commitVars
<1>16. ASSUME NEW c \in calls, FileAnswered(c) PROVE FlagsTyped'
  BY <1>16 DEF FileAnswered, SendCalls, shownVars, commitVars
<1>17. ASSUME NEW c \in calls, CommitFileAnswered(c) PROVE FlagsTyped'
  BY <1>17 DEF CommitFileAnswered, SendCalls, shownVars, commitVars
<1>18. CASE UNCHANGED panelVars
  BY <1>18 DEF panelVars, shownVars, commitVars, SendCalls, shownVars, commitVars
<1> QED
  BY <1>1, <1>2, <1>3, <1>4, <1>5, <1>6, <1>7, <1>8, <1>9, <1>10, <1>11, <1>12, <1>13,
     <1>14, <1>15, <1>16, <1>17, <1>18 DEF PanelNext, Answer

\* Calls have the fields of their kind, and what was read of a repository stays of one.
LEMMA PanelCallsStep ==
    ASSUME ReposTyped, FlagsTyped, CallsInv, [PanelNext]_panelVars
    PROVE  CallsInv'
<1> USE PanelConstants DEF ReposTyped, FlagsTyped, CallsInv
<1>1. CASE PressRefresh
  <2>1. IsFiniteSet(calls) /\ IsFiniteSet({RefreshCall(calls, repoPath)})
    BY FS_RemoveElement, FS_Singleton
  <2>2. SendCalls(calls, {RefreshCall(calls, repoPath)}) /\ repo' = repo
    BY <1>1 DEF PressRefresh, RefreshPath
  <2>3. IsFiniteSet(calls') /\ calls' = calls \cup {RefreshCall(calls, repoPath)}
    BY <2>1, <2>2, SentCalls
  <2>4. IsCall(RefreshCall(calls, repoPath))
    BY DEF RefreshCall, IsCall
  <2> QED
    BY <2>2, <2>3, <2>4 DEF IsCall, IsRepo
<1>2. CASE TypeMessage
  BY <1>2 DEF TypeMessage, IsCall, IsRepo
<1>3. CASE InitRepository
  <2>1. IsFiniteSet(calls) /\ IsFiniteSet({CommandCall("init", Nothing)})
    BY FS_RemoveElement, FS_Singleton
  <2>2. SendCalls(calls, {CommandCall("init", Nothing)}) /\ repo' = repo
    BY <1>3 DEF InitRepository
  <2>3. IsFiniteSet(calls') /\ calls' = calls \cup {CommandCall("init", Nothing)}
    BY <2>1, <2>2, SentCalls
  <2>4. IsCall(CommandCall("init", Nothing))
    BY DEF CommandCall, IsCall
  <2> QED
    BY <2>2, <2>3, <2>4 DEF IsCall, IsRepo
<1>4. ASSUME NEW p \in Paths, SetRepoPath(p) PROVE CallsInv'
  <2>1. IsFiniteSet(calls) /\ IsFiniteSet({RefreshCall(calls, p)})
    BY FS_RemoveElement, FS_Singleton
  <2>2. SendCalls(calls, {RefreshCall(calls, p)}) /\ repo' = repo
    BY <1>4 DEF SetRepoPath, RefreshPath
  <2>3. IsFiniteSet(calls') /\ calls' = calls \cup {RefreshCall(calls, p)}
    BY <2>1, <2>2, SentCalls
  <2>4. IsCall(RefreshCall(calls, p))
    BY DEF RefreshCall, IsCall
  <2> QED
    BY <2>2, <2>3, <2>4 DEF IsCall, IsRepo
<1>5. ASSUME NEW f \in Files, SelectFile(f) PROVE CallsInv'
  <2>1. IsFiniteSet(calls) /\ IsFiniteSet({FileCall(calls, f)})
    BY FS_RemoveElement, FS_Singleton
  <2>2. SendCalls(calls, {FileCall(calls, f)}) /\ repo' = repo
    BY <1>5 DEF SelectFile
  <2>3. IsFiniteSet(calls') /\ calls' = calls \cup {FileCall(calls, f)}
    BY <2>1, <2>2, SentCalls
  <2>4. IsCall(FileCall(calls, f))
    BY DEF FileCall, IsCall
  <2> QED
    BY <2>2, <2>3, <2>4 DEF IsCall, IsRepo
<1>6. ASSUME NEW f \in Files \cup {Nothing}, PickCommitFile(f) PROVE CallsInv'
  <2>1. PICK more \in {{}, {CommitFileCall(calls, selectedCommit, f)}} : SendCalls(calls, more) /\ repo' = repo
    BY <1>6 DEF PickCommitFile, SelectCommitFile
  <2>2. IsFiniteSet(more)
    BY <2>1, OneOrNone
  <2>3. IsFiniteSet(calls') /\ calls' = calls \cup more
    BY <2>1, <2>2, SentCalls
  <2>4. IsCall(CommitFileCall(calls, selectedCommit, f))
    BY DEF CommitFileCall, IsCall
  <2> QED
    BY <2>1, <2>3, <2>4 DEF IsCall, IsRepo
<1>7. ASSUME NEW c \in CommitsOf(status), SelectCommit(c) PROVE CallsInv'
  <2>1. PICK more \in {{}, {CommitFileCall(calls, c, Nothing)}} : SendCalls(calls, more) /\ repo' = repo
    BY <1>7 DEF SelectCommit, SelectCommitFile
  <2>2. IsFiniteSet(more)
    BY <2>1, OneOrNone
  <2>3. IsFiniteSet(calls') /\ calls' = calls \cup more
    BY <2>1, <2>2, SentCalls
  <2>4. IsCall(CommitFileCall(calls, c, Nothing))
    BY DEF CommitFileCall, IsCall
  <2> QED
    BY <2>1, <2>3, <2>4 DEF IsCall, IsRepo
<1>8. ASSUME NEW name, NEW f, RunCommand(name, f) PROVE CallsInv'
  <2>1. IsFiniteSet(calls) /\ IsFiniteSet({CommandCall(name, f)})
    BY FS_RemoveElement, FS_Singleton
  <2>2. SendCalls(calls, {CommandCall(name, f)}) /\ repo' = repo
    BY <1>8 DEF RunCommand
  <2>3. IsFiniteSet(calls') /\ calls' = calls \cup {CommandCall(name, f)}
    BY <2>1, <2>2, SentCalls
  <2>4. IsCall(CommandCall(name, f))
    BY DEF CommandCall, IsCall
  <2> QED
    BY <2>2, <2>3, <2>4 DEF IsCall, IsRepo
<1>9. ASSUME NEW c \in calls, BackendReads(c) PROVE CallsInv'
  <2>1. IsCall(c) /\ c.kind = "refresh" /\ repo' = repo
    BY <1>9 DEF BackendReads, shownVars, commitVars
  <2>2. PICK d : IsCall(d) /\ calls' = (calls \ {c}) \cup {d}
    <3>1. CASE ~IsRepo(c.path) /\ calls' = (calls \ {c}) \cup {[c EXCEPT !.none = TRUE]}
      <4>1. IsCall([c EXCEPT !.none = TRUE])
        BY <2>1 DEF IsCall
      <4> QED
        BY <3>1, <4>1
    <3>2. CASE /\ IsRepo(c.path)
               /\ calls' = (calls \ {c}) \cup {[c EXCEPT !.read = @ \cup {"status"}, !.files = repo[c.path].files]}
      <4>1. repo[c.path].files \subseteq Files
        BY <3>2 DEF IsRepo, Contents
      <4>2. IsCall([c EXCEPT !.read = @ \cup {"status"}, !.files = repo[c.path].files])
        BY <2>1, <3>2, <4>1 DEF IsCall
      <4> QED
        BY <3>2, <4>2
    <3>3. CASE /\ IsRepo(c.path)
               /\ calls' = (calls \ {c}) \cup {[c EXCEPT !.read = @ \cup {"log"}, !.head = repo[c.path].head]}
      <4>1. repo[c.path].head \in Nat
        BY <3>3 DEF IsRepo, Contents
      <4>2. IsCall([c EXCEPT !.read = @ \cup {"log"}, !.head = repo[c.path].head])
        BY <2>1, <3>3, <4>1 DEF IsCall
      <4> QED
        BY <3>3, <4>2
    <3> QED
      BY <1>9, <3>1, <3>2, <3>3 DEF BackendReads
  <2>3. IsFiniteSet(calls')
    BY <2>2, Replaced
  <2> QED
    BY <2>1, <2>2, <2>3 DEF IsCall, IsRepo
<1>10. ASSUME NEW c \in calls, BackendDoes(c) PROVE CallsInv'
  <2>1. IsCall(c) /\ c.kind = "command" /\ calls' = (calls \ {c}) \cup {[c EXCEPT !.done = "done"]}
    BY <1>10 DEF BackendDoes
  <2>2. IsCall([c EXCEPT !.done = "done"])
    BY <2>1 DEF IsCall
  <2>3. IsFiniteSet(calls')
    <3> HIDE DEF ReposTyped, FlagsTyped
    <3> QED
      BY <2>1, Replaced
  <2>4. DOMAIN repo \subseteq DOMAIN repo'
    BY <1>10 DEF BackendDoes
  <2> QED
    BY <2>1, <2>2, <2>3, <2>4 DEF IsCall, IsRepo
<1>11. ASSUME NEW c \in calls, RefreshAnswered(c) PROVE CallsInv'
  <2>1. PICK f, h :
          SelectCommitFile((calls \ {c}) \cup {FileCall(calls \ {c}, f)}, h, Nothing)
    BY <1>11 DEF RefreshAnswered
  <2> DEFINE kept == (calls \ {c}) \cup {FileCall(calls \ {c}, f)}
  <2>2. IsFiniteSet(kept)
    BY FS_RemoveElement, FS_AddElement
  <2>3. IsCall(FileCall(calls \ {c}, f)) /\ IsCall(CommitFileCall(kept, h, Nothing))
    BY DEF FileCall, CommitFileCall, IsCall
  <2>4. \A d \in kept : IsCall(d)
    BY <2>3
  <2> HIDE DEF kept
  <2>5. PICK more \in {{}, {CommitFileCall(kept, h, Nothing)}} : SendCalls(kept, more)
    BY <2>1 DEF SelectCommitFile, kept
  <2>6. IsFiniteSet(more)
    BY <2>5, OneOrNone
  <2>7. IsFiniteSet(calls') /\ calls' = kept \cup more
    BY <2>2, <2>5, <2>6, SentCalls
  <2>8. repo' = repo
    BY <1>11 DEF RefreshAnswered
  <2> QED
    BY <2>3, <2>4, <2>7, <2>8 DEF IsCall, IsRepo
<1>12. ASSUME NEW c \in calls, RefreshFindsNone(c) PROVE CallsInv'
  <2>1. calls' = calls \ {c} /\ repo' = repo
    BY <1>12 DEF RefreshFindsNone, SendCalls
  <2>2. IsFiniteSet(calls')
    BY <2>1, FS_RemoveElement
  <2> QED
    BY <2>1, <2>2 DEF IsCall, IsRepo
<1>13. ASSUME NEW c \in calls, RefreshFails(c) PROVE CallsInv'
  <2>1. calls' = calls \ {c} /\ repo' = repo
    BY <1>13 DEF RefreshFails
  <2>2. IsFiniteSet(calls')
    BY <2>1, FS_RemoveElement
  <2> QED
    BY <2>1, <2>2 DEF IsCall, IsRepo
<1>14. ASSUME NEW c \in calls, CommandAnswered(c) PROVE CallsInv'
  <2>1. IsFiniteSet((calls \ {c})) /\ IsFiniteSet({RefreshCall(calls \ {c}, repoPath)})
    BY FS_RemoveElement, FS_Singleton
  <2>2. SendCalls((calls \ {c}), {RefreshCall(calls \ {c}, repoPath)}) /\ repo' = repo
    BY <1>14 DEF CommandAnswered, RefreshPath
  <2>3. IsFiniteSet(calls') /\ calls' = (calls \ {c}) \cup {RefreshCall(calls \ {c}, repoPath)}
    BY <2>1, <2>2, SentCalls
  <2>4. IsCall(RefreshCall(calls \ {c}, repoPath))
    BY DEF RefreshCall, IsCall
  <2> QED
    BY <2>2, <2>3, <2>4 DEF IsCall, IsRepo
<1>15. ASSUME NEW c \in calls, CommandFails(c) PROVE CallsInv'
  <2>1. calls' = calls \ {c} /\ repo' = repo
    BY <1>15 DEF CommandFails
  <2>2. IsFiniteSet(calls')
    BY <2>1, FS_RemoveElement
  <2> QED
    BY <2>1, <2>2 DEF IsCall, IsRepo
<1>16. ASSUME NEW c \in calls, FileAnswered(c) PROVE CallsInv'
  <2>1. calls' = calls \ {c} /\ repo' = repo
    BY <1>16 DEF FileAnswered
  <2>2. IsFiniteSet(calls')
    BY <2>1, FS_RemoveElement
  <2> QED
    BY <2>1, <2>2 DEF IsCall, IsRepo
<1>17. ASSUME NEW c \in calls, CommitFileAnswered(c) PROVE CallsInv'
  <2>1. calls' = calls \ {c} /\ repo' = repo
    BY <1>17 DEF CommitFileAnswered
  <2>2. IsFiniteSet(calls')
    BY <2>1, FS_RemoveElement
  <2> QED
    BY <2>1, <2>2 DEF IsCall, IsRepo
<1>18. CASE UNCHANGED panelVars
  BY <1>18 DEF panelVars, shownVars, commitVars, IsCall, IsRepo
<1> QED
  BY <1>1, <1>2, <1>3, <1>4, <1>5, <1>6, <1>7, <1>8, <1>9, <1>10, <1>11, <1>12, <1>13,
     <1>14, <1>15, <1>16, <1>17, <1>18 DEF PanelNext, Answer

\* While nothing overlaps, what a refresh has read is not changed under it.
LEMMA OneCallStep ==
    ASSUME ReposTyped, FlagsTyped, CallsInv, OneCallInv, [PanelNext]_panelVars
    PROVE  OneCallInv'
<1> USE PanelConstants
<1>1. CASE PressRefresh
  <2>1. SendCalls(calls, {RefreshCall(calls, repoPath)}) /\ UNCHANGED repo
    BY <1>1 DEF PressRefresh, RefreshPath
  <2>2. IsFiniteSet(calls) /\ IsFiniteSet({RefreshCall(calls, repoPath)})
    BY FS_Singleton, FS_RemoveElement DEF CallsInv
  <2>3. /\ calls' = calls \cup {RefreshCall(calls, repoPath)}
        /\ ~overlappedCalls' => ~overlappedCalls /\ \A d, e \in calls' : Main(d) /\ Main(e) => d = e
    BY <2>1, <2>2, SentCalls DEF FlagsTyped
  <2>4. RefreshCall(calls, repoPath).kind = "refresh" /\ RefreshCall(calls, repoPath).path = repoPath' /\ RefreshCall(calls, repoPath).read = {}
    BY <1>1 DEF PressRefresh, RefreshPath, RefreshCall
  <2> QED
    BY <2>3, <2>4 DEF OneCallInv, Main
<1>2. CASE TypeMessage
  BY <1>2 DEF TypeMessage, OneCallInv, SendCalls, shownVars, commitVars, Main
<1>3. CASE InitRepository
  <2>1. SendCalls(calls, {CommandCall("init", Nothing)}) /\ UNCHANGED repo
    BY <1>3 DEF InitRepository
  <2>2. IsFiniteSet(calls) /\ IsFiniteSet({CommandCall("init", Nothing)})
    BY FS_Singleton, FS_RemoveElement DEF CallsInv
  <2>3. /\ calls' = calls \cup {CommandCall("init", Nothing)}
        /\ ~overlappedCalls' => ~overlappedCalls /\ \A d, e \in calls' : Main(d) /\ Main(e) => d = e
    BY <2>1, <2>2, SentCalls DEF FlagsTyped
  <2>4. CommandCall("init", Nothing).kind = "command"
    BY DEF CommandCall
  <2> QED
    BY <2>3, <2>4 DEF OneCallInv, Main
<1>4. ASSUME NEW p \in Paths, SetRepoPath(p) PROVE OneCallInv'
  <2>1. SendCalls(calls, {RefreshCall(calls, p)}) /\ UNCHANGED repo
    BY <1>4 DEF SetRepoPath, RefreshPath
  <2>2. IsFiniteSet(calls) /\ IsFiniteSet({RefreshCall(calls, p)})
    BY FS_Singleton, FS_RemoveElement DEF CallsInv
  <2>3. /\ calls' = calls \cup {RefreshCall(calls, p)}
        /\ ~overlappedCalls' => ~overlappedCalls /\ \A d, e \in calls' : Main(d) /\ Main(e) => d = e
    BY <2>1, <2>2, SentCalls DEF FlagsTyped
  <2>4. RefreshCall(calls, p).kind = "refresh" /\ RefreshCall(calls, p).path = repoPath' /\ RefreshCall(calls, p).read = {}
    BY <1>4 DEF SetRepoPath, RefreshPath, RefreshCall
  <2> QED
    BY <2>3, <2>4 DEF OneCallInv, Main
<1>5. ASSUME NEW f \in Files, SelectFile(f) PROVE OneCallInv'
  <2>1. PICK more \in {{}, {FileCall(calls, f)}} : SendCalls(calls, more)
    BY <1>5 DEF SelectFile
  <2>2. IsFiniteSet(calls) /\ IsFiniteSet(more)
    BY OneOrNone DEF CallsInv
  <2>3. /\ calls' = calls \cup more
        /\ ~overlappedCalls' => ~overlappedCalls /\ \A d, e \in calls' : Main(d) /\ Main(e) => d = e
    BY <2>1, <2>2, SentCalls DEF FlagsTyped
  <2>4. \A d \in more : d.kind \in {"file", "commitFile"}
    BY DEF FileCall, CommitFileCall
  <2>5. UNCHANGED <<repo, repoPath, status>>
    BY <1>5 DEF SelectFile, shownVars, commitVars
  <2> QED
    BY <2>3, <2>4, <2>5 DEF OneCallInv, Main
<1>6. ASSUME NEW f \in Files \cup {Nothing}, PickCommitFile(f) PROVE OneCallInv'
  <2>1. PICK more \in {{}, {CommitFileCall(calls, selectedCommit, f)}} : SendCalls(calls, more)
    BY <1>6 DEF PickCommitFile, SelectCommitFile
  <2>2. IsFiniteSet(calls) /\ IsFiniteSet(more)
    BY OneOrNone DEF CallsInv
  <2>3. /\ calls' = calls \cup more
        /\ ~overlappedCalls' => ~overlappedCalls /\ \A d, e \in calls' : Main(d) /\ Main(e) => d = e
    BY <2>1, <2>2, SentCalls DEF FlagsTyped
  <2>4. \A d \in more : d.kind \in {"file", "commitFile"}
    BY DEF FileCall, CommitFileCall
  <2>5. UNCHANGED <<repo, repoPath, status>>
    BY <1>6 DEF PickCommitFile, SelectCommitFile, shownVars, commitVars
  <2> QED
    BY <2>3, <2>4, <2>5 DEF OneCallInv, Main
<1>7. ASSUME NEW c \in CommitsOf(status), SelectCommit(c) PROVE OneCallInv'
  <2>1. PICK more \in {{}, {CommitFileCall(calls, c, Nothing)}} : SendCalls(calls, more)
    BY <1>7 DEF SelectCommit, SelectCommitFile
  <2>2. IsFiniteSet(calls) /\ IsFiniteSet(more)
    BY OneOrNone DEF CallsInv
  <2>3. /\ calls' = calls \cup more
        /\ ~overlappedCalls' => ~overlappedCalls /\ \A d, e \in calls' : Main(d) /\ Main(e) => d = e
    BY <2>1, <2>2, SentCalls DEF FlagsTyped
  <2>4. \A d \in more : d.kind \in {"file", "commitFile"}
    BY DEF FileCall, CommitFileCall
  <2>5. UNCHANGED <<repo, repoPath, status>>
    BY <1>7 DEF SelectCommit, SelectCommitFile, shownVars, commitVars
  <2> QED
    BY <2>3, <2>4, <2>5 DEF OneCallInv, Main
<1>8. ASSUME NEW name, NEW f, RunCommand(name, f) PROVE OneCallInv'
  <2>1. SendCalls(calls, {CommandCall(name, f)}) /\ UNCHANGED repo
    BY <1>8 DEF RunCommand
  <2>2. IsFiniteSet(calls) /\ IsFiniteSet({CommandCall(name, f)})
    BY FS_Singleton, FS_RemoveElement DEF CallsInv
  <2>3. /\ calls' = calls \cup {CommandCall(name, f)}
        /\ ~overlappedCalls' => ~overlappedCalls /\ \A d, e \in calls' : Main(d) /\ Main(e) => d = e
    BY <2>1, <2>2, SentCalls DEF FlagsTyped
  <2>4. CommandCall(name, f).kind = "command"
    BY DEF CommandCall
  <2> QED
    BY <2>3, <2>4 DEF OneCallInv, Main
<1>9. ASSUME NEW c \in calls, BackendReads(c) PROVE OneCallInv'
  <2>1. IsCall(c) /\ c.kind = "refresh" /\ UNCHANGED <<repo, repoPath, overlappedCalls, status>>
    BY <1>9 DEF BackendReads, CallsInv, shownVars, commitVars
  <2>2. PICK d : /\ calls' = (calls \ {c}) \cup {d}
                 /\ d.kind = "refresh" /\ d.path = c.path
                 /\ \/ d.read = c.read /\ d.files = c.files /\ d.head = c.head
                    \/ d.read = c.read \cup {"status"} /\ d.files = repo[c.path].files /\ d.head = c.head
                    \/ d.read = c.read \cup {"log"} /\ d.files = c.files /\ d.head = repo[c.path].head
    BY <1>9, <2>1, ReadMeans
  <2> QED
    BY <2>1, <2>2 DEF OneCallInv, Main
<1>10. ASSUME NEW c \in calls, BackendDoes(c) PROVE OneCallInv'
  <2>1. IsCall(c) /\ c.kind = "command" /\ calls' = (calls \ {c}) \cup {[c EXCEPT !.done = "done"]}
        /\ UNCHANGED <<repoPath, overlappedCalls>>
    BY <1>10 DEF BackendDoes, CallsInv
  <2>2. [c EXCEPT !.done = "done"].kind = "command"
    BY <2>1 DEF IsCall
  <2> QED
    BY <2>1, <2>2 DEF OneCallInv, Main
<1>11. ASSUME NEW c \in calls, RefreshAnswered(c) PROVE OneCallInv'
  <2>1. PICK f, h :
          SelectCommitFile((calls \ {c}) \cup {FileCall(calls \ {c}, f)}, h, Nothing)
    BY <1>11 DEF RefreshAnswered
  <2> DEFINE kept == (calls \ {c}) \cup {FileCall(calls \ {c}, f)}
  <2>2. IsFiniteSet(kept) /\ kept = (calls \ {c}) \cup {FileCall(calls \ {c}, f)}
    BY Replaced DEF CallsInv
  <2> HIDE DEF kept
  <2>3. PICK more \in {{}, {CommitFileCall(kept, h, Nothing)}} : SendCalls(kept, more)
    BY <2>1, <2>2 DEF SelectCommitFile
  <2>4. IsFiniteSet(more) /\ \A d \in more : d.kind = "commitFile"
    <3>1. IsFiniteSet(more)
      BY <2>3, OneOrNone
    <3> QED
      BY <2>3, <3>1 DEF CommitFileCall
  <2>5. FileCall(calls \ {c}, f).kind = "file"
    BY DEF FileCall
  <2>6. /\ calls' = kept \cup more
        /\ ~overlappedCalls' => ~overlappedCalls /\ \A d, e \in calls' : Main(d) /\ Main(e) => d = e
    BY <2>2, <2>3, <2>4, SentCalls DEF FlagsTyped
  <2>7. c \in calls /\ c.kind = "refresh" /\ c.read = {"status", "log"} /\ UNCHANGED <<repo, repoPath>>
        /\ status' = [path |-> c.path, files |-> c.files, head |-> c.head]
    BY <1>11 DEF RefreshAnswered
  <2>8. ~overlappedCalls' => \A d \in calls \ {c} : ~Main(d)
    BY <2>6, <2>7 DEF OneCallInv, Main
  <2> QED
    BY <2>2, <2>4, <2>5, <2>6, <2>7, <2>8 DEF OneCallInv, Main
<1>12. ASSUME NEW c \in calls, RefreshFindsNone(c) PROVE OneCallInv'
  <2>1. SendCalls(calls \ {c}, {}) /\ UNCHANGED <<repo, repoPath>> /\ status' = Nothing
    BY <1>12 DEF RefreshFindsNone
  <2>2. IsFiniteSet(calls \ {c}) /\ IsFiniteSet({})
    BY FS_RemoveElement, FS_EmptySet DEF CallsInv
  <2>3. /\ calls' = calls \ {c}
        /\ ~overlappedCalls' => ~overlappedCalls /\ \A d, e \in calls' : Main(d) /\ Main(e) => d = e
    BY <2>1, <2>2, SentCalls DEF FlagsTyped
  <2> QED
    BY <2>1, <2>3 DEF OneCallInv, Main
<1>13. ASSUME NEW c \in calls, RefreshFails(c) PROVE OneCallInv'
  <2>1. overlappedCalls'
    BY <1>13 DEF RefreshFails
  <2> QED
    BY <2>1 DEF OneCallInv
<1>14. ASSUME NEW c \in calls, CommandAnswered(c) PROVE OneCallInv'
  <2>1. SendCalls((calls \ {c}), {RefreshCall(calls \ {c}, repoPath)}) /\ UNCHANGED repo
    BY <1>14 DEF CommandAnswered, RefreshPath
  <2>2. IsFiniteSet((calls \ {c})) /\ IsFiniteSet({RefreshCall(calls \ {c}, repoPath)})
    BY FS_Singleton, FS_RemoveElement DEF CallsInv
  <2>3. /\ calls' = (calls \ {c}) \cup {RefreshCall(calls \ {c}, repoPath)}
        /\ ~overlappedCalls' => ~overlappedCalls /\ \A d, e \in calls' : Main(d) /\ Main(e) => d = e
    BY <2>1, <2>2, SentCalls DEF FlagsTyped
  <2>4. RefreshCall(calls \ {c}, repoPath).kind = "refresh" /\ RefreshCall(calls \ {c}, repoPath).path = repoPath' /\ RefreshCall(calls \ {c}, repoPath).read = {}
    BY <1>14 DEF CommandAnswered, RefreshPath, RefreshCall
  <2> QED
    BY <2>3, <2>4 DEF OneCallInv, Main
<1>15. ASSUME NEW c \in calls, CommandFails(c) PROVE OneCallInv'
  <2>1. overlappedCalls'
    BY <1>15 DEF CommandFails
  <2> QED
    BY <2>1 DEF OneCallInv
<1>16. ASSUME NEW c \in calls, FileAnswered(c) PROVE OneCallInv'
  <2>1. calls' = calls \ {c} /\ UNCHANGED <<repo, repoPath, overlappedCalls, status>>
    BY <1>16 DEF FileAnswered, shownVars, commitVars
  <2>2. c.kind \in {"file", "commitFile"}
    BY <1>16 DEF FileAnswered
  <2> QED
    BY <2>1, <2>2 DEF OneCallInv, Main, Read
<1>17. ASSUME NEW c \in calls, CommitFileAnswered(c) PROVE OneCallInv'
  <2>1. calls' = calls \ {c} /\ UNCHANGED <<repo, repoPath, overlappedCalls, status>>
    BY <1>17 DEF CommitFileAnswered, shownVars, commitVars
  <2>2. c.kind \in {"file", "commitFile"}
    BY <1>17 DEF CommitFileAnswered
  <2> QED
    BY <2>1, <2>2 DEF OneCallInv, Main, Read
<1>18. CASE UNCHANGED panelVars
  BY <1>18 DEF panelVars, shownVars, commitVars, OneCallInv, SendCalls, shownVars,
     commitVars, Main
<1> QED
  BY <1>1, <1>2, <1>3, <1>4, <1>5, <1>6, <1>7, <1>8, <1>9, <1>10, <1>11, <1>12, <1>13,
     <1>14, <1>15, <1>16, <1>17, <1>18 DEF PanelNext, Answer

\* A refresh that nothing overlapped shows the repository as it is.
LEMMA AtRestStep ==
    ASSUME ReposTyped, FlagsTyped, CallsInv, OneCallInv, AtRestItIsUpToDate, [PanelNext]_panelVars
    PROVE  AtRestItIsUpToDate'
<1> USE PanelConstants
<1>1. CASE PressRefresh
  <2>1. SendCalls(calls, {RefreshCall(calls, repoPath)}) /\ UNCHANGED repo
    BY <1>1 DEF PressRefresh, RefreshPath
  <2>2. IsFiniteSet(calls) /\ IsFiniteSet({RefreshCall(calls, repoPath)})
    BY FS_Singleton, FS_RemoveElement DEF CallsInv
  <2>3. /\ calls' = calls \cup {RefreshCall(calls, repoPath)}
        /\ ~overlappedCalls' => ~overlappedCalls /\ \A d, e \in calls' : Main(d) /\ Main(e) => d = e
    BY <2>1, <2>2, SentCalls DEF FlagsTyped
  <2>4. Main(RefreshCall(calls, repoPath))
    BY DEF RefreshCall, Main
  <2> QED
    BY <2>3, <2>4 DEF AtRestItIsUpToDate
<1>2. CASE TypeMessage
  BY <1>2 DEF TypeMessage, AtRestItIsUpToDate, SendCalls, shownVars, commitVars, Main, Read
<1>3. CASE InitRepository
  <2>1. SendCalls(calls, {CommandCall("init", Nothing)}) /\ UNCHANGED repo
    BY <1>3 DEF InitRepository
  <2>2. IsFiniteSet(calls) /\ IsFiniteSet({CommandCall("init", Nothing)})
    BY FS_Singleton, FS_RemoveElement DEF CallsInv
  <2>3. /\ calls' = calls \cup {CommandCall("init", Nothing)}
        /\ ~overlappedCalls' => ~overlappedCalls /\ \A d, e \in calls' : Main(d) /\ Main(e) => d = e
    BY <2>1, <2>2, SentCalls DEF FlagsTyped
  <2>4. Main(CommandCall("init", Nothing))
    BY DEF CommandCall, Main
  <2> QED
    BY <2>3, <2>4 DEF AtRestItIsUpToDate
<1>4. ASSUME NEW p \in Paths, SetRepoPath(p) PROVE AtRestItIsUpToDate'
  <2>1. SendCalls(calls, {RefreshCall(calls, p)}) /\ UNCHANGED repo
    BY <1>4 DEF SetRepoPath, RefreshPath
  <2>2. IsFiniteSet(calls) /\ IsFiniteSet({RefreshCall(calls, p)})
    BY FS_Singleton, FS_RemoveElement DEF CallsInv
  <2>3. /\ calls' = calls \cup {RefreshCall(calls, p)}
        /\ ~overlappedCalls' => ~overlappedCalls /\ \A d, e \in calls' : Main(d) /\ Main(e) => d = e
    BY <2>1, <2>2, SentCalls DEF FlagsTyped
  <2>4. Main(RefreshCall(calls, p))
    BY DEF RefreshCall, Main
  <2> QED
    BY <2>3, <2>4 DEF AtRestItIsUpToDate
<1>5. ASSUME NEW f \in Files, SelectFile(f) PROVE AtRestItIsUpToDate'
  <2>1. PICK more \in {{}, {FileCall(calls, f)}} : SendCalls(calls, more)
    BY <1>5 DEF SelectFile
  <2>2. IsFiniteSet(calls) /\ IsFiniteSet(more)
    BY OneOrNone DEF CallsInv
  <2>3. /\ calls' = calls \cup more
        /\ ~overlappedCalls' => ~overlappedCalls /\ \A d, e \in calls' : Main(d) /\ Main(e) => d = e
    BY <2>1, <2>2, SentCalls DEF FlagsTyped
  <2>4. \A d \in more : d.kind \in {"file", "commitFile"}
    BY DEF FileCall, CommitFileCall
  <2>5. UNCHANGED <<repo, repoPath, status>>
    BY <1>5 DEF SelectFile, shownVars, commitVars
  <2> QED
    BY <2>3, <2>4, <2>5 DEF AtRestItIsUpToDate, Main, Read
<1>6. ASSUME NEW f \in Files \cup {Nothing}, PickCommitFile(f) PROVE AtRestItIsUpToDate'
  <2>1. PICK more \in {{}, {CommitFileCall(calls, selectedCommit, f)}} : SendCalls(calls, more)
    BY <1>6 DEF PickCommitFile, SelectCommitFile
  <2>2. IsFiniteSet(calls) /\ IsFiniteSet(more)
    BY OneOrNone DEF CallsInv
  <2>3. /\ calls' = calls \cup more
        /\ ~overlappedCalls' => ~overlappedCalls /\ \A d, e \in calls' : Main(d) /\ Main(e) => d = e
    BY <2>1, <2>2, SentCalls DEF FlagsTyped
  <2>4. \A d \in more : d.kind \in {"file", "commitFile"}
    BY DEF FileCall, CommitFileCall
  <2>5. UNCHANGED <<repo, repoPath, status>>
    BY <1>6 DEF PickCommitFile, SelectCommitFile, shownVars, commitVars
  <2> QED
    BY <2>3, <2>4, <2>5 DEF AtRestItIsUpToDate, Main, Read
<1>7. ASSUME NEW c \in CommitsOf(status), SelectCommit(c) PROVE AtRestItIsUpToDate'
  <2>1. PICK more \in {{}, {CommitFileCall(calls, c, Nothing)}} : SendCalls(calls, more)
    BY <1>7 DEF SelectCommit, SelectCommitFile
  <2>2. IsFiniteSet(calls) /\ IsFiniteSet(more)
    BY OneOrNone DEF CallsInv
  <2>3. /\ calls' = calls \cup more
        /\ ~overlappedCalls' => ~overlappedCalls /\ \A d, e \in calls' : Main(d) /\ Main(e) => d = e
    BY <2>1, <2>2, SentCalls DEF FlagsTyped
  <2>4. \A d \in more : d.kind \in {"file", "commitFile"}
    BY DEF FileCall, CommitFileCall
  <2>5. UNCHANGED <<repo, repoPath, status>>
    BY <1>7 DEF SelectCommit, SelectCommitFile, shownVars, commitVars
  <2> QED
    BY <2>3, <2>4, <2>5 DEF AtRestItIsUpToDate, Main, Read
<1>8. ASSUME NEW name, NEW f, RunCommand(name, f) PROVE AtRestItIsUpToDate'
  <2>1. SendCalls(calls, {CommandCall(name, f)}) /\ UNCHANGED repo
    BY <1>8 DEF RunCommand
  <2>2. IsFiniteSet(calls) /\ IsFiniteSet({CommandCall(name, f)})
    BY FS_Singleton, FS_RemoveElement DEF CallsInv
  <2>3. /\ calls' = calls \cup {CommandCall(name, f)}
        /\ ~overlappedCalls' => ~overlappedCalls /\ \A d, e \in calls' : Main(d) /\ Main(e) => d = e
    BY <2>1, <2>2, SentCalls DEF FlagsTyped
  <2>4. Main(CommandCall(name, f))
    BY DEF CommandCall, Main
  <2> QED
    BY <2>3, <2>4 DEF AtRestItIsUpToDate
<1>9. ASSUME NEW c \in calls, BackendReads(c) PROVE AtRestItIsUpToDate'
  <2>1. IsCall(c) /\ c.kind = "refresh" /\ UNCHANGED <<repo, repoPath, overlappedCalls, status>>
    BY <1>9 DEF BackendReads, CallsInv, shownVars, commitVars
  <2>2. PICK d : calls' = (calls \ {c}) \cup {d} /\ d.kind = "refresh"
    BY <1>9, <2>1, ReadMeans
  <2> QED
    BY <2>2 DEF AtRestItIsUpToDate, Main
<1>10. ASSUME NEW c \in calls, BackendDoes(c) PROVE AtRestItIsUpToDate'
  <2>1. IsCall(c) /\ c.kind = "command" /\ calls' = (calls \ {c}) \cup {[c EXCEPT !.done = "done"]}
    BY <1>10 DEF BackendDoes, CallsInv
  <2>2. [c EXCEPT !.done = "done"].kind = "command"
    BY <2>1 DEF IsCall
  <2> QED
    BY <2>1, <2>2 DEF AtRestItIsUpToDate, Main
<1>11. ASSUME NEW c \in calls, RefreshAnswered(c) PROVE AtRestItIsUpToDate'
  <2>1. PICK f, h :
          SelectCommitFile((calls \ {c}) \cup {FileCall(calls \ {c}, f)}, h, Nothing)
    BY <1>11 DEF RefreshAnswered
  <2> DEFINE kept == (calls \ {c}) \cup {FileCall(calls \ {c}, f)}
  <2>2. IsFiniteSet(kept) /\ kept = (calls \ {c}) \cup {FileCall(calls \ {c}, f)}
    BY Replaced DEF CallsInv
  <2> HIDE DEF kept
  <2>3. PICK more \in {{}, {CommitFileCall(kept, h, Nothing)}} : SendCalls(kept, more)
    BY <2>1, <2>2 DEF SelectCommitFile
  <2>4. IsFiniteSet(more) /\ \A d \in more : d.kind = "commitFile"
    <3>1. IsFiniteSet(more)
      BY <2>3, OneOrNone
    <3> QED
      BY <2>3, <3>1 DEF CommitFileCall
  <2>5. FileCall(calls \ {c}, f).kind = "file"
    BY DEF FileCall
  <2>6. /\ calls' = kept \cup more
        /\ ~overlappedCalls' => ~overlappedCalls /\ \A d, e \in calls' : Main(d) /\ Main(e) => d = e
    BY <2>2, <2>3, <2>4, SentCalls DEF FlagsTyped
  <2>7. c \in calls /\ c.kind = "refresh" /\ c.read = {"status", "log"} /\ UNCHANGED <<repo, repoPath>>
        /\ status' = [path |-> c.path, files |-> c.files, head |-> c.head]
    BY <1>11 DEF RefreshAnswered
  <2>8. ~overlappedCalls' => \A d \in calls \ {c} : ~Main(d)
    BY <2>6, <2>7 DEF OneCallInv, Main
  <2>9. ~overlappedCalls' => c.path = repoPath /\ c.files = repo[c.path].files /\ c.head = repo[c.path].head
    BY <2>6, <2>7 DEF OneCallInv
  <2> QED
    BY <2>7, <2>9 DEF AtRestItIsUpToDate, Read
<1>12. ASSUME NEW c \in calls, RefreshFindsNone(c) PROVE AtRestItIsUpToDate'
  <2>1. SendCalls(calls \ {c}, {}) /\ UNCHANGED <<repo, repoPath>> /\ status' = Nothing
    BY <1>12 DEF RefreshFindsNone
  <2>2. IsFiniteSet(calls \ {c}) /\ IsFiniteSet({})
    BY FS_RemoveElement, FS_EmptySet DEF CallsInv
  <2>3. /\ calls' = calls \ {c}
        /\ ~overlappedCalls' => ~overlappedCalls /\ \A d, e \in calls' : Main(d) /\ Main(e) => d = e
    BY <2>1, <2>2, SentCalls DEF FlagsTyped
  <2> QED
    BY <2>1 DEF AtRestItIsUpToDate
<1>13. ASSUME NEW c \in calls, RefreshFails(c) PROVE AtRestItIsUpToDate'
  <2>1. overlappedCalls'
    BY <1>13 DEF RefreshFails
  <2> QED
    BY <2>1 DEF AtRestItIsUpToDate
<1>14. ASSUME NEW c \in calls, CommandAnswered(c) PROVE AtRestItIsUpToDate'
  <2>1. SendCalls((calls \ {c}), {RefreshCall(calls \ {c}, repoPath)}) /\ UNCHANGED repo
    BY <1>14 DEF CommandAnswered, RefreshPath
  <2>2. IsFiniteSet((calls \ {c})) /\ IsFiniteSet({RefreshCall(calls \ {c}, repoPath)})
    BY FS_Singleton, FS_RemoveElement DEF CallsInv
  <2>3. /\ calls' = (calls \ {c}) \cup {RefreshCall(calls \ {c}, repoPath)}
        /\ ~overlappedCalls' => ~overlappedCalls /\ \A d, e \in calls' : Main(d) /\ Main(e) => d = e
    BY <2>1, <2>2, SentCalls DEF FlagsTyped
  <2>4. Main(RefreshCall(calls \ {c}, repoPath))
    BY DEF RefreshCall, Main
  <2> QED
    BY <2>3, <2>4 DEF AtRestItIsUpToDate
<1>15. ASSUME NEW c \in calls, CommandFails(c) PROVE AtRestItIsUpToDate'
  <2>1. overlappedCalls'
    BY <1>15 DEF CommandFails
  <2> QED
    BY <2>1 DEF AtRestItIsUpToDate
<1>16. ASSUME NEW c \in calls, FileAnswered(c) PROVE AtRestItIsUpToDate'
  <2>1. calls' = calls \ {c} /\ UNCHANGED <<repo, repoPath, overlappedCalls, status>>
    BY <1>16 DEF FileAnswered, shownVars, commitVars
  <2>2. c.kind \in {"file", "commitFile"}
    BY <1>16 DEF FileAnswered
  <2> QED
    BY <2>1, <2>2 DEF AtRestItIsUpToDate, Main, Read
<1>17. ASSUME NEW c \in calls, CommitFileAnswered(c) PROVE AtRestItIsUpToDate'
  <2>1. calls' = calls \ {c} /\ UNCHANGED <<repo, repoPath, overlappedCalls, status>>
    BY <1>17 DEF CommitFileAnswered, shownVars, commitVars
  <2>2. c.kind \in {"file", "commitFile"}
    BY <1>17 DEF CommitFileAnswered
  <2> QED
    BY <2>1, <2>2 DEF AtRestItIsUpToDate, Main, Read
<1>18. CASE UNCHANGED panelVars
  BY <1>18 DEF panelVars, shownVars, commitVars, AtRestItIsUpToDate, SendCalls,
     shownVars, commitVars, Main, Read
<1> QED
  BY <1>1, <1>2, <1>3, <1>4, <1>5, <1>6, <1>7, <1>8, <1>9, <1>10, <1>11, <1>12, <1>13,
     <1>14, <1>15, <1>16, <1>17, <1>18 DEF PanelNext, Answer

\* The diff of a commit goes with what is selected.
LEMMA DiffStep ==
    ASSUME CommitDiffIsOfItsSelection, [PanelNext]_panelVars
    PROVE  CommitDiffIsOfItsSelection'
<1> USE DEF CommitDiffIsOfItsSelection
<1>1. CASE PressRefresh
  BY <1>1 DEF PressRefresh, RefreshPath, shownVars, commitVars
<1>2. CASE TypeMessage
  BY <1>2 DEF TypeMessage, shownVars, commitVars
<1>3. CASE InitRepository
  BY <1>3 DEF InitRepository, shownVars, commitVars
<1>4. ASSUME NEW p \in Paths, SetRepoPath(p) PROVE CommitDiffIsOfItsSelection'
  BY <1>4 DEF SetRepoPath, RefreshPath, shownVars, commitVars
<1>5. ASSUME NEW f \in Files, SelectFile(f) PROVE CommitDiffIsOfItsSelection'
  BY <1>5 DEF SelectFile, shownVars, commitVars
<1>6. ASSUME NEW f \in Files \cup {Nothing}, PickCommitFile(f) PROVE CommitDiffIsOfItsSelection'
  BY <1>6 DEF PickCommitFile, SelectCommitFile, shownVars, commitVars
<1>7. ASSUME NEW c \in CommitsOf(status), SelectCommit(c) PROVE CommitDiffIsOfItsSelection'
  BY <1>7 DEF SelectCommit, SelectCommitFile, shownVars, commitVars
<1>8. ASSUME NEW name, NEW f, RunCommand(name, f) PROVE CommitDiffIsOfItsSelection'
  BY <1>8 DEF RunCommand, shownVars, commitVars
<1>9. ASSUME NEW c \in calls, BackendReads(c) PROVE CommitDiffIsOfItsSelection'
  BY <1>9 DEF BackendReads, shownVars, commitVars
<1>10. ASSUME NEW c \in calls, BackendDoes(c) PROVE CommitDiffIsOfItsSelection'
  BY <1>10 DEF BackendDoes, shownVars, commitVars
<1>11. ASSUME NEW c \in calls, RefreshAnswered(c) PROVE CommitDiffIsOfItsSelection'
  BY <1>11 DEF RefreshAnswered, SelectCommitFile, shownVars, commitVars
<1>12. ASSUME NEW c \in calls, RefreshFindsNone(c) PROVE CommitDiffIsOfItsSelection'
  BY <1>12 DEF RefreshFindsNone, shownVars, commitVars
<1>13. ASSUME NEW c \in calls, RefreshFails(c) PROVE CommitDiffIsOfItsSelection'
  BY <1>13 DEF RefreshFails, shownVars, commitVars
<1>14. ASSUME NEW c \in calls, CommandAnswered(c) PROVE CommitDiffIsOfItsSelection'
  BY <1>14 DEF CommandAnswered, RefreshPath, shownVars, commitVars
<1>15. ASSUME NEW c \in calls, CommandFails(c) PROVE CommitDiffIsOfItsSelection'
  BY <1>15 DEF CommandFails, shownVars, commitVars
<1>16. ASSUME NEW c \in calls, FileAnswered(c) PROVE CommitDiffIsOfItsSelection'
  BY <1>16 DEF FileAnswered, shownVars, commitVars
<1>17. ASSUME NEW c \in calls, CommitFileAnswered(c) PROVE CommitDiffIsOfItsSelection'
  BY <1>17 DEF CommitFileAnswered, shownVars, commitVars
<1>18. CASE UNCHANGED panelVars
  BY <1>18 DEF panelVars, shownVars, commitVars, shownVars, commitVars
<1> QED
  BY <1>1, <1>2, <1>3, <1>4, <1>5, <1>6, <1>7, <1>8, <1>9, <1>10, <1>11, <1>12, <1>13,
     <1>14, <1>15, <1>16, <1>17, <1>18 DEF PanelNext, Answer

\* What is selected goes with the lists that are shown.
LEMMA ListedStep ==
    ASSUME ReposTyped, CallsInv, SelectionIsListed, [PanelNext]_panelVars
    PROVE  SelectionIsListed'
<1> USE DEF SelectionIsListed
<1>1. CASE PressRefresh
  BY <1>1 DEF PressRefresh, RefreshPath, shownVars, commitVars
<1>2. CASE TypeMessage
  BY <1>2 DEF TypeMessage, shownVars, commitVars
<1>3. CASE InitRepository
  BY <1>3 DEF InitRepository, shownVars, commitVars
<1>4. ASSUME NEW p \in Paths, SetRepoPath(p) PROVE SelectionIsListed'
  BY <1>4 DEF SetRepoPath, RefreshPath, shownVars, commitVars
<1>5. ASSUME NEW f \in Files, SelectFile(f) PROVE SelectionIsListed'
  BY <1>5 DEF SelectFile, shownVars, commitVars
<1>6. ASSUME NEW f \in Files \cup {Nothing}, PickCommitFile(f) PROVE SelectionIsListed'
  BY <1>6 DEF PickCommitFile, SelectCommitFile, shownVars, commitVars
<1>7. ASSUME NEW c \in CommitsOf(status), SelectCommit(c) PROVE SelectionIsListed'
  BY <1>7 DEF SelectCommit, SelectCommitFile, shownVars, commitVars
<1>8. ASSUME NEW name, NEW f, RunCommand(name, f) PROVE SelectionIsListed'
  BY <1>8 DEF RunCommand, shownVars, commitVars
<1>9. ASSUME NEW c \in calls, BackendReads(c) PROVE SelectionIsListed'
  BY <1>9 DEF BackendReads, shownVars, commitVars
<1>10. ASSUME NEW c \in calls, BackendDoes(c) PROVE SelectionIsListed'
  BY <1>10 DEF BackendDoes, shownVars, commitVars
<1>11. ASSUME NEW c \in calls, RefreshAnswered(c) PROVE SelectionIsListed'
  <2>1. PICK f \in StillOrFirst(selectedPath, c.files), h \in StillOrFirst(selectedCommit, CommitsOf(status')) :
          selectedPath' = f /\ selectedCommit' = h
    BY <1>11 DEF RefreshAnswered
  <2>2. FilesOf(status') = c.files
    <3>1. IsCall(c) /\ c.kind = "refresh" /\ status' = [path |-> c.path, files |-> c.files, head |-> c.head]
      BY <1>11 DEF RefreshAnswered, CallsInv
    <3>2. status' \in [path : Paths, files : SUBSET Files, head : Nat]
      BY <3>1 DEF IsCall
    <3>3. status' # Nothing
      BY <3>2, PanelConstants DEF Paths
    <3> QED
      BY <3>1, <3>3 DEF FilesOf
  <2>3. f \in c.files \cup {Nothing} /\ h \in CommitsOf(status') \cup {Nothing}
    BY <2>1 DEF StillOrFirst
  <2> QED
    BY <2>1, <2>2, <2>3 DEF FilesOf, CommitsOf
<1>12. ASSUME NEW c \in calls, RefreshFindsNone(c) PROVE SelectionIsListed'
  BY <1>12 DEF RefreshFindsNone, shownVars, commitVars
<1>13. ASSUME NEW c \in calls, RefreshFails(c) PROVE SelectionIsListed'
  BY <1>13 DEF RefreshFails, shownVars, commitVars
<1>14. ASSUME NEW c \in calls, CommandAnswered(c) PROVE SelectionIsListed'
  BY <1>14 DEF CommandAnswered, RefreshPath, shownVars, commitVars
<1>15. ASSUME NEW c \in calls, CommandFails(c) PROVE SelectionIsListed'
  BY <1>15 DEF CommandFails, shownVars, commitVars
<1>16. ASSUME NEW c \in calls, FileAnswered(c) PROVE SelectionIsListed'
  BY <1>16 DEF FileAnswered, shownVars, commitVars
<1>17. ASSUME NEW c \in calls, CommitFileAnswered(c) PROVE SelectionIsListed'
  BY <1>17 DEF CommitFileAnswered, shownVars, commitVars
<1>18. CASE UNCHANGED panelVars
  BY <1>18 DEF panelVars, shownVars, commitVars, shownVars, commitVars
<1> QED
  BY <1>1, <1>2, <1>3, <1>4, <1>5, <1>6, <1>7, <1>8, <1>9, <1>10, <1>11, <1>12, <1>13,
     <1>14, <1>15, <1>16, <1>17, <1>18 DEF PanelNext, Answer

\* Every step of the panel, the backend or the user keeps the invariant.
LEMMA PanelStep == PanelIInv /\ [PanelNext]_panelVars => PanelIInv'
  BY PanelTypedStep, PanelFlagsStep, PanelCallsStep, OneCallStep, AtRestStep, DiffStep,
     ListedStep
  DEF PanelIInv

\* However refreshes, commands and selections interleave: what the panel has selected is
\* in what it shows, the diff of a commit is that of the selected one, and a panel at
\* rest, where no two refreshes or commands overlapped and none failed, shows the
\* repository it is set to as it is (refresh, selectCommitFile and runCommand of
\* git-store.ts).
THEOREM PanelsStaySound == PanelSpec => []PanelIsSound
<1>1. PanelIInv => PanelIsSound
  BY PanelConstants DEF PanelIInv, PanelIsSound, PanelTypeOK, ReposTyped, FlagsTyped,
     IsRepo, Statuses
<1> QED
  BY <1>1, PanelInitially, PanelStep, PTL DEF PanelSpec

-----------------------------------------------------------------------------
(* The window's connections.                                               *)

ProfileRows == [id : Ids, edited : BOOLEAN]
Versions    == 0 .. MaxCommands

\* What a disconnect remembers of the window, and what a refresh is known by.
Closings  == [id : Ids, rail : SUBSET Ids, active : Ids \cup {NoId}, rows : Seq(ProfileRows)]
Refreshes == [no : Nat, id : Ids, got : Versions \cup {Absent}]

IdsOf(rows)    == {rows[i].id : i \in DOMAIN rows}
Distinct(rows) == \A i, j \in DOMAIN rows : rows[i].id = rows[j].id => i = j

\* Each saved profile has an id of its own, and a form opened by Add one that
\* nothing uses, the sample neither.
UserInv ==
    /\ profiles \in Seq(ProfileRows) /\ draft \in [id : Ids, edited : BOOLEAN, fresh : BOOLEAN]
    /\ Distinct(profiles)
    /\ draft.fresh => draft.id \notin IdsOf(profiles) /\ draft.id # Sample

\* The commands under way have their types,
CommandsTyped ==
    /\ connecting \in [DOMAIN connecting -> {"sent", "open"}] /\ DOMAIN connecting \subseteq Ids
    /\ closing \subseteq Closings
    /\ deleting \in [targets : SUBSET Ids, todo : Seq(Ids)]
    /\ Range(deleting.todo) \subseteq deleting.targets
    /\ commands \in Versions /\ crossed \in BOOLEAN

\* and so have the rail, the backend's connections and their schemas,
RailTyped ==
    /\ active \in Ids \cup {NoId} /\ rail \subseteq Ids /\ open \subseteq Ids
    /\ schema \in [Ids -> Versions]

\* and the objects shown and read.
ObjectsTyped ==
    /\ objects \in [Ids -> Versions \cup {Absent}]
    /\ failed \subseteq Ids /\ loadingObjects \subseteq Ids /\ raced \subseteq Ids
    /\ refreshing \subseteq Refreshes /\ IsFiniteSet(refreshing)

\* The connections the backend has opened and the window does not know of yet.
Opened == {i \in DOMAIN connecting : connecting[i] = "open"}

\* While nothing has crossed: connects, a disconnect and a delete exclude each other,
\* and what is open is on the rail, but for those just opened or just closed for a delete.
Uncrossed ==
    /\ rail \subseteq Saved
    /\ \A i \in DOMAIN connecting : i \in Saved \/ i = Sample
    /\ DOMAIN connecting # {} => ~Closing
    /\ closing # {} => deleting = NoDelete
    /\ \A c, d \in closing : c = d
    /\ \A c \in closing : c.rail = rail
    /\ Range(deleting.todo) \subseteq rail
    /\ \A k, l \in DOMAIN deleting.todo : deleting.todo[k] = deleting.todo[l] => k = l
    /\ open = (rail \ deleting.targets) \cup Range(deleting.todo) \cup Opened

OpenInv == ~crossed => Uncrossed

\* A connection that is not raced has at most one refresh under way. While nothing has
\* crossed, what it has read is the schema as it is, and so is what is shown once it has
\* ended; unless the connection was opened again, for then another refresh will follow.
IsUpToDate(i) ==
    /\ \A r \in refreshing : r.id = i => r.got \in {Absent, schema[i]}
    /\ (\A r \in refreshing : r.id # i) /\ objects[i] # Absent /\ i \notin failed => objects[i] = schema[i]

FreshInv ==
    /\ \A i \in Ids \ raced : \A r, s \in refreshing : r.id = i /\ s.id = i => r = s
    /\ ~crossed => \A i \in Ids : i \notin raced /\ i \notin Opened => IsUpToDate(i)

\* The inductive invariant of the window's connections.
ConnIInv ==
    /\ UserInv /\ CommandsTyped /\ RailTyped /\ ObjectsTyped
    /\ OpenInv /\ LoadingIsRefreshing /\ FreshInv

\* How many ids there are, and the numbers outside them.
LEMMA IdsAre ==
    /\ MaxId \in Nat \ {0} /\ MaxCommands \in Nat \ {0}
    /\ Ids \subseteq Nat /\ IsFiniteSet(Ids) /\ Sample \in Ids /\ 1 \in Ids /\ 1 # Sample
    /\ NoId \notin Ids /\ Absent \notin Versions /\ Versions \subseteq Nat
<1>1. MaxId \in Nat \ {0} /\ MaxCommands \in Nat \ {0}
  BY WindowConstants
<1>2. IsFiniteSet(0 .. MaxId)
  BY <1>1, FS_Interval
<1> QED
  BY <1>1, <1>2 DEF Ids, Sample, NoId, Absent, Versions

\* A profile is added at the end,
LEMMA AppendedRow ==
    ASSUME NEW rows \in Seq(ProfileRows), Distinct(rows), NEW row \in ProfileRows, row.id \notin IdsOf(rows)
    PROVE  /\ Append(rows, row) \in Seq(ProfileRows) /\ Distinct(Append(rows, row))
           /\ IdsOf(Append(rows, row)) = IdsOf(rows) \cup {row.id}
           /\ Append(rows, row)[Len(Append(rows, row))] = row
<1> DEFINE n == Len(rows)
           more == Append(rows, row)
<1>1. /\ n \in Nat /\ DOMAIN rows = 1 .. n /\ more \in Seq(ProfileRows) /\ DOMAIN more = 1 .. n + 1
      /\ Len(more) = n + 1 /\ more[n + 1] = row /\ \A i \in 1 .. n : more[i] = rows[i]
  OBVIOUS
<1> HIDE DEF n, more
<1>2. \A i \in 1 .. n + 1 : i \in 1 .. n \/ i = n + 1
  BY <1>1
<1>3. \A i \in 1 .. n : rows[i].id # row.id
  BY <1>1 DEF IdsOf
<1>4. Distinct(more)
  BY <1>1, <1>2, <1>3 DEF Distinct
<1>5. IdsOf(more) = IdsOf(rows) \cup {row.id}
  <2>1. 1 .. n \subseteq 1 .. n + 1 /\ n + 1 \in 1 .. n + 1
    BY <1>1
  <2> QED
    BY <1>1, <1>2, <2>1 DEF IdsOf
<1> QED
  BY <1>1, <1>4, <1>5 DEF more

\* or put in the place of the one with its id,
LEMMA ReplacedRow ==
    ASSUME NEW rows \in Seq(ProfileRows), Distinct(rows), NEW row \in ProfileRows
    PROVE  LET new == [i \in DOMAIN rows |-> IF rows[i].id = row.id THEN row ELSE rows[i]]
           IN  new \in Seq(ProfileRows) /\ Distinct(new) /\ IdsOf(new) = IdsOf(rows)
<1> DEFINE new == [i \in DOMAIN rows |-> IF rows[i].id = row.id THEN row ELSE rows[i]]
           n == Len(rows)
<1>1. n \in Nat /\ DOMAIN rows = 1 .. n /\ \A i \in 1 .. n : rows[i] \in ProfileRows
  OBVIOUS
<1>2. new \in [1 .. n -> ProfileRows] /\ DOMAIN new = 1 .. n
  BY <1>1
<1>3. new \in Seq(ProfileRows)
  <2> HIDE DEF new, n
  <2> QED
    BY <1>1, <1>2
<1>4. \A i \in 1 .. n : new[i].id = rows[i].id
  BY <1>1
<1> HIDE DEF new
<1> QED
  BY <1>1, <1>2, <1>3, <1>4 DEF Distinct, IdsOf, new

\* and some of them are kept.
LEMMA PickedRows ==
    ASSUME NEW rows \in Seq(ProfileRows), Distinct(rows), NEW places \in SUBSET DOMAIN rows
    PROVE  /\ Picked(rows, places) \in Seq(ProfileRows) /\ Distinct(Picked(rows, places))
           /\ IdsOf(Picked(rows, places)) = {rows[i].id : i \in places}
           /\ Range(Picked(rows, places)) = {rows[i] : i \in places}
           /\ Picked(rows, places) # << >> => Picked(rows, places)[1] \in Range(Picked(rows, places))
<1> DEFINE part == Picked(rows, places)
           at == Ascending(places)
<1>1. /\ part \in Seq(ProfileRows) /\ Range(part) = {rows[i] : i \in places}
      /\ \A k \in DOMAIN part : at[k] \in places /\ part[k] = rows[at[k]]
      /\ \A k, l \in DOMAIN part : at[k] = at[l] => k = l
  BY PickedIs
<1> HIDE DEF part, at
<1>2. Distinct(part)
  BY <1>1 DEF Distinct
<1>3. IdsOf(part) = {p.id : p \in Range(part)}
  BY DEF IdsOf, Range
<1>4. {p.id : p \in {rows[i] : i \in places}} = {rows[i].id : i \in places}
  OBVIOUS
<1>5. part # << >> => part[1] \in Range(part)
  BY <1>1 DEF Range
<1> QED
  BY <1>1, <1>2, <1>3, <1>4, <1>5 DEF part

\* There are as many ids as profiles.
LEMMA IdsAreCounted ==
    ASSUME NEW rows \in Seq(ProfileRows), Distinct(rows)
    PROVE  IsFiniteSet(IdsOf(rows)) /\ Cardinality(IdsOf(rows)) = Len(rows)
<1> DEFINE n == Len(rows)
           id == [i \in 1 .. n |-> rows[i].id]
<1>1. n \in Nat /\ DOMAIN rows = 1 .. n /\ IsFiniteSet(1 .. n) /\ Cardinality(1 .. n) = n
  <2>1. n \in Nat /\ DOMAIN rows = 1 .. n
    OBVIOUS
  <2> HIDE DEF n
  <2> QED
    BY <2>1, FS_Interval
<1>2. id \in Bijection(1 .. n, IdsOf(rows))
  <2>1. id \in [1 .. n -> IdsOf(rows)]
    BY <1>1 DEF IdsOf
  <2>2. \A i, j \in 1 .. n : id[i] = id[j] => i = j
    BY <1>1 DEF Distinct
  <2>3. \A x \in IdsOf(rows) : \E i \in 1 .. n : id[i] = x
    BY <1>1 DEF IdsOf
  <2> HIDE DEF n, id
  <2> QED
    BY <2>1, <2>2, <2>3 DEF Bijection, Injection, Surjection, IsInjective
<1> HIDE DEF n, id
<1>3. ExistsBijection(1 .. n, IdsOf(rows))
  BY <1>2 DEF ExistsBijection
<1> QED
  BY <1>1, <1>3, FS_Bijection DEF n

\* A set of numbers that is not empty has a least one.
LEMMA LeastIs ==
    ASSUME NEW S \in SUBSET Nat, S # {}
    PROVE  \E n \in S : \A k \in S : n <= k
<1> DEFINE Less == {p \in Nat \X Nat : p[1] < p[2]}
<1>1. IsWellFoundedOn(Less, Nat)
  BY NatLessThanWellFounded DEF OpToRel
<1> HIDE DEF Less
<1>2. PICK n \in S : \A k \in S : ~(<<k, n>> \in Less)
  BY <1>1, WFMin
<1>3. ASSUME NEW k \in S PROVE n <= k
  <2>1. n \in Nat /\ k \in Nat
    OBVIOUS
  <2>2. k < n => <<k, n>> \in Less
    BY <2>1 DEF Less
  <2> QED
    BY <1>2, <2>1, <2>2
<1> QED
  BY <1>3

\* Of more numbers than a set has elements, one is not among them.
LEMMA OneIsFree ==
    ASSUME NEW S, IsFiniteSet(S), NEW a \in Nat, NEW b \in Nat, Cardinality(S) <= b - a
    PROVE  \E k \in a .. b : k \notin S
<1>1. Cardinality(S) \in Nat
  BY FS_CardinalityType
<1>2. Cardinality(a .. b) = b - a + 1
  BY <1>1, FS_Interval
<1>3. ASSUME a .. b \subseteq S PROVE FALSE
  <2>1. Cardinality(a .. b) <= Cardinality(S)
    BY <1>3, FS_Subset
  <2> QED
    BY <1>1, <1>2, <2>1
<1> QED
  BY <1>3

\* The id Add gives is new, and not the sample's.
LEMMA FirstUnusedIs ==
    ASSUME UserInv
    PROVE  FirstUnused \in Nat \ {0} /\ FirstUnused \notin IdsOf(profiles)
<1> DEFINE n == Len(profiles)
           free == {k \in n + 1 .. 2 * n + 1 : k \notin IdsOf(profiles)}
<1>1. n \in Nat /\ IsFiniteSet(IdsOf(profiles)) /\ Cardinality(IdsOf(profiles)) = n
  BY IdsAreCounted DEF UserInv
<1> HIDE DEF n
<1>2. free \in SUBSET Nat /\ free # {}
  <2>1. n + 1 \in Nat /\ 2 * n + 1 \in Nat /\ n <= (2 * n + 1) - (n + 1)
    BY <1>1
  <2>2. \E k \in n + 1 .. 2 * n + 1 : k \notin IdsOf(profiles)
    BY <1>1, <2>1, OneIsFree
  <2>3. n + 1 .. 2 * n + 1 \subseteq Nat
    BY <2>1
  <2> QED
    BY <2>2, <2>3
<1>3. PICK least \in free : \A k \in free : least <= k
  BY <1>2, LeastIs
<1>4. ASSUME NEW k \in n + 1 .. least - 1 PROVE k \in IdsOf(profiles)
  <2>1. k \in n + 1 .. 2 * n + 1 /\ k \in Nat /\ least \in Nat /\ ~(least <= k)
    BY <1>1, <1>2
  <2> QED
    BY <1>3, <2>1
<1>5. \E k \in n + 1 .. 2 * n + 1 : k \notin Saved /\ \A j \in n + 1 .. k - 1 : j \in Saved
  BY <1>3, <1>4 DEF Saved, IdsOf
<1>6. FirstUnused \in n + 1 .. 2 * n + 1 /\ FirstUnused \notin Saved
  BY <1>5 DEF FirstUnused, n
<1> QED
  BY <1>1, <1>6 DEF Saved, IdsOf

\* The form's profile is saved: in its place, or at the end.
LEMMA DraftIsSaved ==
    ASSUME UserInv
    PROVE  /\ WithDraft \in Seq(ProfileRows) /\ Distinct(WithDraft)
           /\ IdsOf(WithDraft) = IdsOf(profiles) \cup {draft.id}
<1>1. RowOf(draft) \in ProfileRows /\ RowOf(draft).id = draft.id
  BY DEF UserInv, RowOf, ProfileRows
<1>2. profiles \in Seq(ProfileRows) /\ Distinct(profiles) /\ Saved = IdsOf(profiles)
  BY DEF UserInv, Saved, IdsOf
<1>3. CASE draft.id \in Saved
  <2> DEFINE row == RowOf(draft)
             new == [i \in DOMAIN profiles |-> IF profiles[i].id = row.id THEN row ELSE profiles[i]]
  <2>1. WithDraft = new
    BY <1>1, <1>3 DEF WithDraft
  <2>2. new \in Seq(ProfileRows) /\ Distinct(new) /\ IdsOf(new) = IdsOf(profiles)
    BY <1>1, <1>2, ReplacedRow
  <2> QED
    BY <1>2, <1>3, <2>1, <2>2
<1>4. CASE draft.id \notin Saved
  <2> DEFINE row == RowOf(draft)
  <2>1. row \in ProfileRows /\ row.id \notin IdsOf(profiles)
    BY <1>1, <1>2, <1>4
  <2> HIDE DEF row
  <2>2. /\ Append(profiles, row) \in Seq(ProfileRows) /\ Distinct(Append(profiles, row))
        /\ IdsOf(Append(profiles, row)) = IdsOf(profiles) \cup {row.id}
    BY <1>2, <2>1, AppendedRow
  <2> QED
    BY <1>1, <1>4, <2>2 DEF WithDraft, row
<1> QED
  BY <1>3, <1>4

\* The saved ids are those of the profiles.
LEMMA SavedAre ==
    ASSUME UserInv
    PROVE  Saved = IdsOf(profiles) /\ Saved \subseteq Ids /\ IsFiniteSet(Saved)
<1>1. \A i \in DOMAIN profiles : profiles[i] \in ProfileRows
  BY DEF UserInv
<1>2. Saved = IdsOf(profiles)
  BY DEF Saved, IdsOf
<1>3. Saved \subseteq Ids
  BY <1>1 DEF Saved, ProfileRows
<1> QED
  BY <1>2, <1>3, IdsAre, FS_Subset

\* The form of a saved profile, or of a new one when there is none.
LEMMA FormsAre ==
    /\ \A p \in ProfileRows : /\ FormOf(p) \in [id : Ids, edited : BOOLEAN, fresh : BOOLEAN]
                              /\ ~FormOf(p).fresh
    /\ \A i \in Ids : /\ NewDraft(i) \in [id : Ids, edited : BOOLEAN, fresh : BOOLEAN]
                      /\ NewDraft(i).id = i
  BY DEF FormOf, NewDraft, ProfileRows

\* The profiles and the form begin so,
LEMMA UserInitially == WindowInit => UserInv
<1> SUFFICES ASSUME WindowInit PROVE UserInv
  OBVIOUS
<1>1. 1 \in Ids /\ 1 # Sample
  BY IdsAre
<1>2. CASE profiles = << >>
  <2>1. << >> \in Seq(ProfileRows) /\ DOMAIN << >> = {}
    OBVIOUS
  <2>2. Distinct(<< >>) /\ IdsOf(<< >>) = {}
    BY <2>1 DEF Distinct, IdsOf
  <2>3. draft = NewDraft(1)
    BY <1>2 DEF WindowInit
  <2> QED
    BY <1>1, <1>2, <2>1, <2>2, <2>3, FormsAre DEF UserInv
<1>3. CASE profiles # << >>
  <2> DEFINE row == [id |-> 1, edited |-> TRUE]
  <2>1. profiles = <<row>> /\ draft = FormOf(row)
    <3>1. profiles = <<row>> /\ draft = FormOf(profiles[1])
      BY <1>3 DEF WindowInit
    <3> HIDE DEF row
    <3>2. profiles[1] = row
      BY <3>1
    <3> QED
      BY <3>1, <3>2
  <2>2. row \in ProfileRows
    BY <1>1 DEF ProfileRows
  <2> HIDE DEF row
  <2>3. <<row>> \in Seq(ProfileRows) /\ DOMAIN <<row>> = {1}
    BY <2>2
  <2>4. Distinct(<<row>>)
    BY <2>3 DEF Distinct
  <2> QED
    BY <2>1, <2>2, <2>3, <2>4, FormsAre DEF UserInv
<1> QED
  BY <1>2, <1>3

\* and stay so.
LEMMA UserStep ==
    ASSUME UserInv, CommandsTyped, RailTyped, [WindowNext]_windowVars
    PROVE  UserInv'
<1> DEFINE Forms == [id : Ids, edited : BOOLEAN, fresh : BOOLEAN]
<1>0. /\ profiles \in Seq(ProfileRows) /\ Distinct(profiles) /\ draft \in Forms
      /\ draft.fresh => draft.id \notin IdsOf(profiles) /\ draft.id # Sample
  BY DEF UserInv
<1>1. ASSUME UNCHANGED <<profiles, draft>> PROVE UserInv'
  BY <1>1 DEF UserInv, Distinct, IdsOf
<1>2. ASSUME profiles' \in Seq(ProfileRows), Distinct(profiles)', draft' \in Forms, ~draft'.fresh
      PROVE  UserInv'
  BY <1>2 DEF UserInv, Distinct, IdsOf
<1>3. CASE UpdateDraft
  <2>1. profiles' = profiles /\ draft' = [draft EXCEPT !.edited = TRUE]
    BY <1>3 DEF UpdateDraft
  <2>2. draft' \in Forms /\ draft'.fresh = draft.fresh /\ draft'.id = draft.id
    BY <1>0, <2>1
  <2> QED
    BY <1>0, <2>1, <2>2 DEF UserInv, Distinct, IdsOf
<1>4. ASSUME NEW i \in DOMAIN profiles, SelectProfile(i) PROVE UserInv'
  <2>1. profiles' = profiles /\ draft' = FormOf(profiles[i]) /\ profiles[i] \in ProfileRows
    BY <1>0, <1>4 DEF SelectProfile
  <2>2. draft' \in Forms /\ ~draft'.fresh
    BY <2>1, FormsAre
  <2> QED
    BY <1>0, <1>2, <2>1, <2>2 DEF Distinct
<1>5. CASE AddProfile
  <2>1. profiles' = profiles /\ draft' = NewDraft(FirstUnused) /\ FirstUnused <= MaxId
    BY <1>5 DEF AddProfile
  <2>2. FirstUnused \in Nat \ {0} /\ FirstUnused \notin IdsOf(profiles)
    BY FirstUnusedIs
  <2> DEFINE n == FirstUnused
  <2> HIDE DEF n
  <2>3. n \in Ids /\ n # Sample
    BY <2>1, <2>2, IdsAre DEF Ids, Sample, n
  <2>4. draft' \in Forms /\ draft'.id = n /\ n \notin IdsOf(profiles)
    BY <2>1, <2>2, <2>3, FormsAre DEF n
  <2> QED
    BY <1>0, <2>1, <2>3, <2>4 DEF UserInv, Distinct, IdsOf
<1>6. ASSUME profiles' = WithDraft, draft' = [draft EXCEPT !.fresh = FALSE] PROVE UserInv'
  <2>1. profiles' \in Seq(ProfileRows) /\ Distinct(profiles')
    BY <1>6, DraftIsSaved
  <2>2. draft' \in Forms /\ ~draft'.fresh
    BY <1>0, <1>6
  <2> QED
    BY <1>2, <2>1, <2>2 DEF Distinct
<1>7. CASE SaveDraft
  BY <1>6, <1>7 DEF SaveDraft
<1>8. ASSUME NEW places \in SUBSET DOMAIN profiles, profiles' = Picked(profiles, places)
      PROVE  /\ profiles' \in Seq(ProfileRows) /\ Distinct(profiles')
             /\ IdsOf(profiles') \subseteq IdsOf(profiles)
             /\ profiles' # << >> => profiles'[1] \in ProfileRows
  <2>1. /\ profiles' \in Seq(ProfileRows) /\ Distinct(profiles')
        /\ IdsOf(profiles') = {profiles[i].id : i \in places}
        /\ Range(profiles') = {profiles[i] : i \in places}
        /\ profiles' # << >> => profiles'[1] \in Range(profiles')
    BY <1>0, <1>8, PickedRows
  <2>2. \A i \in places : profiles[i] \in ProfileRows
    BY <1>0
  <2> QED
    BY <2>1, <2>2 DEF IdsOf
<1>9. CASE CloseManager
  <2> DEFINE places == {i \in DOMAIN profiles : KeepsProfile(profiles[i])}
  <2>1. /\ profiles' = Picked(profiles, places)
        /\ draft' = IF draft.id \in Pruned /\ profiles' # << >> THEN FormOf(profiles'[1]) ELSE draft
    BY <1>9 DEF CloseManager
  <2>2. /\ profiles' \in Seq(ProfileRows) /\ Distinct(profiles')
        /\ IdsOf(profiles') \subseteq IdsOf(profiles)
        /\ profiles' # << >> => profiles'[1] \in ProfileRows
    BY <1>8, <2>1
  <2>3. CASE draft.id \in Pruned /\ profiles' # << >>
    <3>1. draft' \in Forms /\ ~draft'.fresh
      BY <2>1, <2>2, <2>3, FormsAre
    <3> QED
      BY <1>2, <2>2, <3>1 DEF Distinct
  <2>4. CASE ~(draft.id \in Pruned /\ profiles' # << >>)
    <3>1. draft' = draft
      BY <2>1, <2>4
    <3> QED
      BY <1>0, <2>2, <3>1 DEF UserInv, Distinct, IdsOf
  <2> QED
    BY <2>3, <2>4
<1>10. CASE Deleted
  <2> DEFINE places == {i \in DOMAIN profiles : profiles[i].id \notin deleting.targets}
  <2>1. /\ profiles' = Picked(profiles, places)
        /\ draft' = IF profiles' = << >> THEN NewDraft(1) ELSE FormOf(profiles'[1])
    BY <1>10 DEF Deleted
  <2>2. /\ profiles' \in Seq(ProfileRows) /\ Distinct(profiles')
        /\ profiles' # << >> => profiles'[1] \in ProfileRows
    BY <1>8, <2>1
  <2>3. CASE profiles' = << >>
    <3>1. IdsOf(profiles') = {}
      BY <2>3 DEF IdsOf
    <3>2. draft' \in Forms /\ draft'.id = 1 /\ 1 # Sample
      BY <2>1, <2>3, FormsAre, IdsAre
    <3> QED
      BY <2>2, <3>1, <3>2 DEF UserInv, Distinct, IdsOf
  <2>4. CASE profiles' # << >>
    <3>1. draft' \in Forms /\ ~draft'.fresh
      BY <2>1, <2>2, <2>4, FormsAre
    <3> QED
      BY <1>2, <2>2, <3>1 DEF Distinct
  <2> QED
    BY <2>3, <2>4
<1>11. ASSUME NEW id \in Ids, ImportProfile(id) PROVE UserInv'
  <2> DEFINE row == [id |-> id, edited |-> TRUE]
  <2>1. /\ id \notin Saved /\ profiles' = Append(profiles, row)
        /\ draft' = FormOf(profiles'[Len(profiles')])
    BY <1>11 DEF ImportProfile
  <2>2. row \in ProfileRows /\ row.id \notin IdsOf(profiles)
    BY <2>1 DEF ProfileRows, Saved, IdsOf
  <2> HIDE DEF row
  <2>3. profiles' \in Seq(ProfileRows) /\ Distinct(profiles') /\ profiles'[Len(profiles')] = row
    BY <1>0, <2>1, <2>2, AppendedRow
  <2>4. draft' \in Forms /\ ~draft'.fresh
    BY <2>1, <2>2, <2>3, FormsAre
  <2> QED
    BY <1>2, <2>3, <2>4 DEF Distinct
<1>12. CASE Connect
  BY <1>6, <1>12 DEF Connect
<1>13. CASE OpenSqliteSample
  <2>1. profiles' = profiles /\ draft' = [id |-> Sample, edited |-> TRUE, fresh |-> FALSE]
    BY <1>13 DEF OpenSqliteSample
  <2>2. draft' \in Forms /\ ~draft'.fresh
    BY <2>1, IdsAre
  <2> QED
    BY <1>0, <1>2, <2>1, <2>2 DEF Distinct
<1>14. ASSUME NEW id \in Ids, Connected(id) PROVE UserInv'
  <2> DEFINE row == [id |-> Sample, edited |-> TRUE]
  <2>1. draft' = draft /\ (profiles' = profiles \/ (Sample \notin Saved /\ profiles' = Append(profiles, row)))
    BY <1>14 DEF Connected
  <2>2. CASE profiles' = profiles
    BY <1>1, <2>1, <2>2
  <2>3. CASE Sample \notin Saved /\ profiles' = Append(profiles, row)
    <3>1. row \in ProfileRows /\ row.id = Sample /\ row.id \notin IdsOf(profiles)
      BY <2>3, IdsAre DEF ProfileRows, Saved, IdsOf
    <3> HIDE DEF row
    <3>2. /\ profiles' \in Seq(ProfileRows) /\ Distinct(profiles')
          /\ IdsOf(profiles') = IdsOf(profiles) \cup {Sample}
      BY <1>0, <2>3, <3>1, AppendedRow
    <3> QED
      BY <1>0, <2>1, <3>2 DEF UserInv, Distinct, IdsOf
  <2> QED
    BY <2>1, <2>2, <2>3
<1>15. ASSUME NEW id \in Ids, SwitchTo(id) PROVE UserInv'
  <2> DEFINE at == CHOOSE i \in DOMAIN profiles : profiles[i].id = id
  <2>1. profiles' = profiles /\ draft' = FormOf(profiles[at]) /\ id \in Saved
    BY <1>15 DEF SwitchTo
  <2>2. at \in DOMAIN profiles
    BY <2>1 DEF Saved
  <2> HIDE DEF at
  <2>3. profiles[at] \in ProfileRows
    BY <1>0, <2>2
  <2>4. draft' \in Forms /\ ~draft'.fresh
    BY <2>1, <2>3, FormsAre
  <2> QED
    BY <1>0, <1>2, <2>1, <2>4 DEF Distinct
<1>16. ASSUME AutoRefresh \/ TargetClosed \/ SnapshotArrives \/ UNCHANGED windowVars PROVE UserInv'
  BY <1>1, <1>16 DEF AutoRefresh, TargetClosed, SnapshotArrives, windowVars, userVars
<1>17. ASSUME NEW b \in BOOLEAN, Refresh(b) PROVE UserInv'
  BY <1>1, <1>17 DEF Refresh, userVars
<1>18. ASSUME NEW r \in refreshing, ReadSchema(r) \/ RefreshEnds(r) PROVE UserInv'
  BY <1>1, <1>18 DEF ReadSchema, RefreshEnds, userVars
<1>19. ASSUME NEW c \in closing, Disconnected(c) PROVE UserInv'
  BY <1>1, <1>19 DEF Disconnected, userVars
<1>20. ASSUME NEW targets \in SUBSET Saved, DeleteProfiles(targets) PROVE UserInv'
  BY <1>1, <1>20 DEF DeleteProfiles, userVars
<1>21. ASSUME NEW id \in Ids, BackendConnects(id) \/ ConnectFails(id) \/ Disconnect(id) PROVE UserInv'
  BY <1>1, <1>21 DEF BackendConnects, ConnectFails, Disconnect, userVars
<1> QED
  BY <1>3, <1>4, <1>5, <1>7, <1>9, <1>10, <1>11, <1>12, <1>13, <1>14, <1>15, <1>16, <1>17, <1>18, <1>19,
     <1>20, <1>21 DEF WindowNext

-----------------------------------------------------------------------------
\* A number no refresh has is there, as refreshes are finitely many;
LEMMA StartRefreshIs ==
    ASSUME ObjectsTyped, NEW id \in Ids, StartRefresh(id)
    PROVE  /\ \E new \in Refreshes : new.id = id /\ new.got = Absent /\ refreshing' = refreshing \cup {new}
           /\ IsFiniteSet(refreshing')
           /\ loadingObjects' = loadingObjects \cup {id} /\ failed' = failed \ {id}
           /\ raced' = IF \A r \in refreshing : r.id # id THEN raced \ {id} ELSE raced \cup {id}
<1> DEFINE n == Cardinality(refreshing)
           numbers == {r.no : r \in refreshing}
           no == CHOOSE k \in 0 .. n : \A r \in refreshing : r.no # k
           new == [no |-> no, id |-> id, got |-> Absent]
<1>1. refreshing \subseteq Refreshes /\ IsFiniteSet(refreshing) /\ n \in Nat
  BY FS_CardinalityType DEF ObjectsTyped
<1>2. IsFiniteSet(numbers) /\ Cardinality(numbers) <= n
  <2> DEFINE numbered == [r \in refreshing |-> r.no]
  <2>1. numbered \in Surjection(refreshing, numbers)
    BY DEF Surjection
  <2> HIDE DEF numbered, numbers
  <2> QED
    BY <1>1, <2>1, FS_Surjection
<1>3. \E k \in 0 .. n : k \notin numbers
  <2> HIDE DEF n, numbers
  <2>1. n <= n - 0 /\ Cardinality(numbers) <= n - 0
    BY <1>1, <1>2
  <2> QED
    BY <1>1, <1>2, <2>1, OneIsFree
<1>4. no \in Nat
  <2>1. \E k \in 0 .. n : \A r \in refreshing : r.no # k
    BY <1>3
  <2>2. no \in 0 .. n
    BY <2>1
  <2> QED
    BY <1>1, <2>2
<1>5. new \in Refreshes /\ new.id = id /\ new.got = Absent
  <2> HIDE DEF no
  <2> QED
    BY <1>4 DEF Refreshes
<1>6. /\ refreshing' = refreshing \cup {new}
      /\ loadingObjects' = loadingObjects \cup {id} /\ failed' = failed \ {id}
      /\ raced' = IF Waiting(id) = {} THEN raced \ {id} ELSE raced \cup {id}
  BY DEF StartRefresh
<1> HIDE DEF new
<1>7. IsFiniteSet(refreshing')
  BY <1>1, <1>6, FS_AddElement
<1>8. Waiting(id) = {} <=> \A r \in refreshing : r.id # id
  BY DEF Waiting
<1> QED
  BY <1>5, <1>6, <1>7, <1>8

\* so the objects keep their types when one begins.
LEMMA BegunIsTyped ==
    ASSUME ObjectsTyped, NEW id \in Ids, StartRefresh(id), objects' = objects
    PROVE  ObjectsTyped'
<1>1. PICK new \in Refreshes : refreshing' = refreshing \cup {new}
  BY StartRefreshIs
<1>2. /\ IsFiniteSet(refreshing')
      /\ loadingObjects' = loadingObjects \cup {id} /\ failed' = failed \ {id}
      /\ raced' = raced \ {id} \/ raced' = raced \cup {id}
  BY StartRefreshIs
<1> QED
  BY <1>1, <1>2 DEF ObjectsTyped

\* Nothing is under way at first.
LEMMA TypedInitially == WindowInit => CommandsTyped /\ RailTyped /\ ObjectsTyped
<1> SUFFICES ASSUME WindowInit PROVE CommandsTyped /\ RailTyped /\ ObjectsTyped
  OBVIOUS
<1>1. CommandsTyped
  <2>1. connecting = << >> /\ closing = {} /\ deleting = NoDelete /\ crossed = FALSE
    BY DEF WindowInit
  <2>2. commands \in Versions
    <3>1. PICK u \in UsedUp : commands = u[1]
      BY DEF WindowInit
    <3> QED
      BY <3>1, WindowConstants DEF Versions
  <2>3. << >> \in [DOMAIN << >> -> {"sent", "open"}] /\ DOMAIN << >> = {}
    OBVIOUS
  <2>4. NoDelete \in [targets : SUBSET Ids, todo : Seq(Ids)] /\ Range(NoDelete.todo) \subseteq NoDelete.targets
    BY <2>3 DEF NoDelete, Range
  <2> QED
    BY <2>1, <2>2, <2>3, <2>4 DEF CommandsTyped
<1>2. RailTyped
  BY IdsAre DEF WindowInit, RailTyped, Versions
<1>3. ObjectsTyped
  BY FS_EmptySet DEF WindowInit, ObjectsTyped
<1> QED
  BY <1>1, <1>2, <1>3

\* The commands under way keep their types,
LEMMA CommandsStep ==
    ASSUME UserInv, CommandsTyped, RailTyped, [WindowNext]_windowVars
    PROVE  CommandsTyped'
<1> USE DEF CommandsTyped
<1>1. ASSUME UNCHANGED callVars PROVE CommandsTyped'
  BY <1>1 DEF callVars
<1>2. ASSUME UNCHANGED <<connecting, closing, deleting, commands>>, crossed' \in BOOLEAN
      PROVE  CommandsTyped'
  BY <1>2
<1>3. Command => commands' \in Versions
  <2> SUFFICES ASSUME Command PROVE commands' \in Versions
    OBVIOUS
  <2>1. commands \in Nat /\ commands < MaxCommands /\ commands' = commands + 1 /\ MaxCommands \in Nat
    BY IdsAre DEF Command, Versions
  <2> QED
    BY <2>1 DEF Versions
<1>5. ASSUME NEW id \in Ids, connecting' = With1(connecting, id, "sent"), commands' \in Versions,
             UNCHANGED <<closing, deleting>>, crossed' \in BOOLEAN
      PROVE  CommandsTyped'
  <2>1. DOMAIN connecting' \subseteq Ids /\ connecting' \in [DOMAIN connecting' -> {"sent", "open"}]
    BY <1>5 DEF With1
  <2> QED
    BY <1>5, <2>1
<1>6. ASSUME NEW id \in Ids, connecting' = Less1(connecting, id),
             UNCHANGED <<closing, deleting, commands>>, crossed' \in BOOLEAN
      PROVE  CommandsTyped'
  <2>1. DOMAIN connecting' \subseteq Ids /\ connecting' \in [DOMAIN connecting' -> {"sent", "open"}]
    BY <1>6 DEF Less1
  <2> QED
    BY <1>6, <2>1
<1>7. ASSUME UpdateDraft \/ AddProfile \/ SaveDraft \/ AutoRefresh \/ SnapshotArrives \/ UNCHANGED windowVars
      PROVE  CommandsTyped'
  BY <1>7, <1>1 DEF UpdateDraft, AddProfile, SaveDraft, AutoRefresh, SnapshotArrives, FormOnly, windowVars, callVars
<1>8. CASE CloseManager
  <2>1. UNCHANGED <<connecting, closing, deleting, commands>> /\ crossed' \in BOOLEAN
    BY <1>8 DEF CloseManager, FormOnly
  <2> QED
    BY <1>2, <2>1
<1>9. CASE Connect
  <2>1. /\ commands' \in Versions /\ connecting' = With1(connecting, draft.id, "sent")
        /\ UNCHANGED <<closing, deleting>> /\ crossed' \in BOOLEAN
    BY <1>3, <1>9 DEF Connect
  <2>2. draft.id \in Ids
    BY DEF UserInv
  <2> QED
    BY <1>5, <2>1, <2>2
<1>10. CASE OpenSqliteSample
  <2>1. commands' \in Versions /\ UNCHANGED <<closing, deleting>> /\ crossed' \in BOOLEAN
        /\ (connecting' = connecting \/ connecting' = With1(connecting, Sample, "sent"))
    BY <1>3, <1>10 DEF OpenSqliteSample
  <2> QED
    BY <1>5, <2>1, IdsAre
<1>11. CASE TargetClosed
  <2>1. /\ deleting.todo # << >> /\ deleting' = [deleting EXCEPT !.todo = Tail(@)]
        /\ UNCHANGED <<connecting, closing, crossed, commands>>
    BY <1>11 DEF TargetClosed
  <2> DEFINE todo == deleting.todo
  <2>2. todo \in Seq(Ids) /\ todo # << >>
    BY <2>1
  <2>3. deleting'.targets = deleting.targets /\ deleting'.todo = Tail(todo)
        /\ deleting' \in [targets : SUBSET Ids, todo : {Tail(todo)}]
    BY <2>1
  <2> HIDE DEF todo
  <2>4. Tail(todo) \in Seq(Ids) /\ Range(Tail(todo)) \subseteq Range(todo)
    <3> DEFINE n == Len(todo)
    <3>1. /\ n \in Nat \ {0} /\ Tail(todo) \in Seq(Ids) /\ DOMAIN Tail(todo) = 1 .. n - 1 /\ DOMAIN todo = 1 .. n
          /\ \A k \in 1 .. n - 1 : Tail(todo)[k] = todo[k + 1]
      BY <2>2
    <3> HIDE DEF n
    <3>2. \A k \in 1 .. n - 1 : k + 1 \in 1 .. n
      BY <3>1
    <3> QED
      BY <3>1, <3>2 DEF Range
  <2> QED
    BY <2>1, <2>3, <2>4 DEF todo
<1>12. CASE Deleted
  <2>1. NoDelete \in [targets : SUBSET Ids, todo : Seq(Ids)] /\ Range(NoDelete.todo) \subseteq NoDelete.targets
    BY DEF NoDelete, Range
  <2> QED
    BY <1>12, <2>1 DEF Deleted
<1>13. ASSUME NEW i \in DOMAIN profiles, SelectProfile(i) PROVE CommandsTyped'
  BY <1>13 DEF SelectProfile, FormOnly
<1>14. ASSUME NEW b \in BOOLEAN, Refresh(b) PROVE CommandsTyped'
  BY <1>3, <1>14 DEF Refresh
<1>15. ASSUME NEW r \in refreshing, ReadSchema(r) \/ RefreshEnds(r) PROVE CommandsTyped'
  BY <1>1, <1>15 DEF ReadSchema, RefreshEnds
<1>16. ASSUME NEW c \in closing, Disconnected(c) PROVE CommandsTyped'
  BY <1>16 DEF Disconnected
<1>17. ASSUME NEW targets \in SUBSET Saved, DeleteProfiles(targets) PROVE CommandsTyped'
  <2> DEFINE S == targets \cap rail
             todo == Ascending(S)
  <2>1. targets \subseteq Ids
    BY SavedAre
  <2>2. S \in SUBSET Nat /\ IsFiniteSet(S) /\ S \subseteq targets
    BY <2>1, IdsAre, FS_Subset DEF RailTyped
  <2> HIDE DEF S
  <2>3. todo \in [1 .. Cardinality(S) -> S] /\ Cardinality(S) \in Nat
    BY <2>2, AscendingIs
  <2>4. todo \in Seq(Ids) /\ Range(todo) \subseteq targets
    BY <2>1, <2>2, <2>3 DEF Range
  <2> HIDE DEF todo
  <2>5. /\ commands' \in Versions /\ deleting' = [targets |-> targets, todo |-> todo]
        /\ UNCHANGED <<connecting, closing>> /\ crossed' \in BOOLEAN
    BY <1>3, <1>17 DEF DeleteProfiles, todo, S
  <2> QED
    BY <2>1, <2>4, <2>5
<1>18. ASSUME NEW id \in Ids, ImportProfile(id) \/ SwitchTo(id) PROVE CommandsTyped'
  BY <1>1, <1>18 DEF ImportProfile, SwitchTo
<1>19. ASSUME NEW id \in Ids, BackendConnects(id) PROVE CommandsTyped'
  BY <1>19 DEF BackendConnects
<1>20. ASSUME NEW id \in Ids, Connected(id) PROVE CommandsTyped'
  BY <1>6, <1>20 DEF Connected
<1>21. ASSUME NEW id \in Ids, ConnectFails(id) PROVE CommandsTyped'
  <2>1. /\ connecting' = Less1(connecting, id) /\ UNCHANGED <<closing, deleting, commands>> /\ crossed' \in BOOLEAN
    BY <1>21 DEF ConnectFails
  <2> QED
    BY <1>6, <2>1
<1>22. ASSUME NEW id \in Ids, Disconnect(id) PROVE CommandsTyped'
  <2> DEFINE c == [id |-> id, rail |-> rail, active |-> active, rows |-> profiles]
  <2>1. c \in Closings
    BY DEF Closings, RailTyped, UserInv
  <2> HIDE DEF c
  <2>2. /\ commands' \in Versions /\ closing' = closing \cup {c} /\ UNCHANGED <<connecting, deleting>>
        /\ crossed' \in BOOLEAN
    BY <1>3, <1>22 DEF Disconnect, c
  <2> QED
    BY <2>1, <2>2
<1> QED
  BY <1>7, <1>8, <1>9, <1>10, <1>11, <1>12, <1>13, <1>14, <1>15, <1>16, <1>17, <1>18, <1>19, <1>20, <1>21, <1>22
  DEF WindowNext

\* and so do the rail and the connections,
LEMMA RailStep ==
    ASSUME UserInv, CommandsTyped, RailTyped, [WindowNext]_windowVars
    PROVE  RailTyped'
<1> USE DEF RailTyped
<1>1. ASSUME UNCHANGED <<active, rail, open, schema>> PROVE RailTyped'
  BY <1>1
<1>2. commands \in Versions /\ (Command => commands' \in Versions)
  <2>1. commands \in Nat /\ (Command => commands < MaxCommands /\ commands' = commands + 1) /\ MaxCommands \in Nat
    BY IdsAre DEF Command, Versions, CommandsTyped
  <2> QED
    BY <2>1 DEF Versions, CommandsTyped
<1>3. ASSUME UpdateDraft \/ AddProfile \/ SaveDraft \/ CloseManager \/ AutoRefresh \/ Connect \/ UNCHANGED windowVars
      PROVE  RailTyped'
  BY <1>3 DEF UpdateDraft, AddProfile, SaveDraft, CloseManager, AutoRefresh, Connect, FormOnly, windowVars,
              backendVars, railVars
<1>4. CASE OpenSqliteSample
  BY <1>4, IdsAre DEF OpenSqliteSample, backendVars
<1>5. CASE TargetClosed
  BY <1>5 DEF TargetClosed, railVars
<1>6. CASE Deleted
  BY <1>6 DEF Deleted, backendVars
<1>7. CASE SnapshotArrives
  BY <1>7 DEF SnapshotArrives, backendVars
<1>8. ASSUME NEW i \in DOMAIN profiles, SelectProfile(i) PROVE RailTyped'
  BY <1>8 DEF SelectProfile, FormOnly, backendVars, railVars
<1>9. ASSUME NEW b \in BOOLEAN, Refresh(b) PROVE RailTyped'
  <2>1. /\ active \in Ids /\ commands' \in Versions /\ UNCHANGED <<active, rail, open>>
        /\ schema' = schema \/ schema' = [schema EXCEPT ![active] = commands']
    BY <1>2, <1>9 DEF Refresh, railVars
  <2> QED
    BY <2>1
<1>10. ASSUME NEW r \in refreshing, ReadSchema(r) \/ RefreshEnds(r) PROVE RailTyped'
  BY <1>10 DEF ReadSchema, RefreshEnds, backendVars, railVars
<1>11. ASSUME NEW c \in closing, Disconnected(c) PROVE RailTyped'
  <2> DEFINE places == {i \in DOMAIN c.rows : c.rows[i].id \in c.rail \ {c.id}}
             stay == Picked(c.rows, places)
  <2>1. c.id \in Ids /\ c.rail \subseteq Ids /\ c.rows \in Seq(ProfileRows)
    BY DEF CommandsTyped, Closings
  <2>2. stay \in Seq(ProfileRows)
    <3>1. places \in SUBSET DOMAIN c.rows
      OBVIOUS
    <3> HIDE DEF places
    <3> QED
      BY <2>1, <3>1, PickedIs
  <2>3. Successor(c) = IF c.active # c.id THEN active ELSE IF stay = << >> THEN NoId ELSE stay[1].id
    BY DEF Successor
  <2> HIDE DEF stay
  <2>4. stay # << >> => stay[1] \in ProfileRows
    BY <2>2
  <2>5. Successor(c) \in Ids \cup {NoId}
    BY <2>3, <2>4 DEF ProfileRows
  <2>6. /\ open' = open \ {c.id} /\ rail' = c.rail \ {c.id} /\ active' = Successor(c) /\ schema' = schema
    BY <1>11 DEF Disconnected
  <2> QED
    BY <2>1, <2>5, <2>6
<1>12. ASSUME NEW targets \in SUBSET Saved, DeleteProfiles(targets) PROVE RailTyped'
  BY <1>12 DEF DeleteProfiles, backendVars, railVars
<1>13. ASSUME NEW id \in Ids, ImportProfile(id) \/ SwitchTo(id) PROVE RailTyped'
  BY <1>13 DEF ImportProfile, SwitchTo, backendVars
<1>14. ASSUME NEW id \in Ids, BackendConnects(id) PROVE RailTyped'
  BY <1>2, <1>14 DEF BackendConnects, railVars
<1>15. ASSUME NEW id \in Ids, Connected(id) PROVE RailTyped'
  BY <1>15 DEF Connected, backendVars
<1>16. ASSUME NEW id \in Ids, ConnectFails(id) \/ Disconnect(id) PROVE RailTyped'
  BY <1>16 DEF ConnectFails, Disconnect, backendVars, railVars
<1> QED
  BY <1>3, <1>4, <1>5, <1>6, <1>7, <1>8, <1>9, <1>10, <1>11, <1>12, <1>13, <1>14, <1>15, <1>16 DEF WindowNext

\* and the objects: a refresh begins, reads, or ends.
LEMMA ObjectsStep ==
    ASSUME CommandsTyped, RailTyped, ObjectsTyped, [WindowNext]_windowVars
    PROVE  ObjectsTyped'
<1>1. ASSUME UNCHANGED objectVars PROVE ObjectsTyped'
  BY <1>1 DEF objectVars, ObjectsTyped
<1>2. ASSUME \/ UpdateDraft \/ AddProfile \/ SaveDraft \/ CloseManager \/ Connect \/ OpenSqliteSample
             \/ TargetClosed \/ Deleted \/ SnapshotArrives \/ UNCHANGED windowVars
      PROVE  ObjectsTyped'
  BY <1>1, <1>2 DEF UpdateDraft, AddProfile, SaveDraft, CloseManager, Connect, OpenSqliteSample, TargetClosed,
                    Deleted, SnapshotArrives, FormOnly, windowVars
<1>3. CASE AutoRefresh
  <2>1. active \in Ids /\ StartRefresh(active) /\ objects' = objects
    BY <1>3 DEF AutoRefresh, RailTyped
  <2> QED
    BY <2>1, BegunIsTyped
<1>4. ASSUME NEW i \in DOMAIN profiles, SelectProfile(i) PROVE ObjectsTyped'
  BY <1>1, <1>4 DEF SelectProfile, FormOnly
<1>5. ASSUME NEW b \in BOOLEAN, Refresh(b) PROVE ObjectsTyped'
  <2>1. active \in Ids /\ StartRefresh(active) /\ objects' = objects
    BY <1>5 DEF Refresh, RailTyped
  <2> QED
    BY <2>1, BegunIsTyped
<1>6. ASSUME NEW r \in refreshing, ReadSchema(r) PROVE ObjectsTyped'
  <2>1. r \in Refreshes /\ refreshing \subseteq Refreshes /\ IsFiniteSet(refreshing)
    BY DEF ObjectsTyped
  <2> DEFINE new == [r EXCEPT !.got = schema[r.id]]
  <2>2. /\ refreshing' = (refreshing \ {r}) \cup {new} /\ UNCHANGED <<objects, failed, loadingObjects, raced>>
    BY <1>6 DEF ReadSchema
  <2>3. schema[r.id] \in Versions
    BY <2>1 DEF RailTyped, Refreshes
  <2>4. new \in Refreshes
    BY <2>1, <2>3 DEF Refreshes
  <2> HIDE DEF new
  <2>5. IsFiniteSet(refreshing')
    <3>1. IsFiniteSet(refreshing \ {r})
      BY <2>1, FS_RemoveElement
    <3> QED
      BY <2>2, <3>1, FS_AddElement
  <2> QED
    BY <2>1, <2>2, <2>4, <2>5 DEF ObjectsTyped
<1>7. ASSUME NEW r \in refreshing, RefreshEnds(r) PROVE ObjectsTyped'
  <2>1. r \in Refreshes /\ refreshing \subseteq Refreshes /\ IsFiniteSet(refreshing)
    BY DEF ObjectsTyped
  <2>2. /\ refreshing' = refreshing \ {r} /\ loadingObjects' = loadingObjects \ {r.id} /\ raced' = raced
        /\ failed' = failed \/ failed' = failed \cup {r.id}
        /\ objects' = objects \/ objects' = [objects EXCEPT ![r.id] = r.got]
    BY <1>7 DEF RefreshEnds
  <2>3. IsFiniteSet(refreshing')
    BY <2>1, <2>2, FS_RemoveElement
  <2>4. r.id \in Ids /\ r.got \in Versions \cup {Absent}
    BY <2>1 DEF Refreshes
  <2> QED
    BY <2>1, <2>2, <2>3, <2>4 DEF ObjectsTyped
<1>8. ASSUME NEW c \in closing, Disconnected(c) PROVE ObjectsTyped'
  BY <1>8 DEF Disconnected, ObjectsTyped
<1>9. ASSUME NEW targets \in SUBSET Saved, DeleteProfiles(targets) PROVE ObjectsTyped'
  BY <1>1, <1>9 DEF DeleteProfiles
<1>10. ASSUME NEW id \in Ids,
              ImportProfile(id) \/ SwitchTo(id) \/ BackendConnects(id) \/ ConnectFails(id) \/ Disconnect(id)
       PROVE  ObjectsTyped'
  BY <1>1, <1>10 DEF ImportProfile, SwitchTo, BackendConnects, ConnectFails, Disconnect
<1>11. ASSUME NEW id \in Ids, Connected(id) PROVE ObjectsTyped'
  <2>1. StartRefresh(id) /\ objects' = objects
    BY <1>11 DEF Connected
  <2> QED
    BY <2>1, BegunIsTyped
<1> QED
  BY <1>2, <1>3, <1>4, <1>5, <1>6, <1>7, <1>8, <1>9, <1>10, <1>11 DEF WindowNext

\* What is said to load is being refreshed.
LEMMA LoadingStep ==
    ASSUME ObjectsTyped, RailTyped, LoadingIsRefreshing, [WindowNext]_windowVars
    PROVE  LoadingIsRefreshing'
<1>0. \A i \in loadingObjects : \E r \in refreshing : r.id = i
  BY DEF LoadingIsRefreshing, Waiting
<1>1. ASSUME \A i \in loadingObjects' : \E r \in refreshing' : r.id = i PROVE LoadingIsRefreshing'
  BY <1>1 DEF LoadingIsRefreshing, Waiting
<1>2. ASSUME UNCHANGED <<loadingObjects, refreshing>> PROVE LoadingIsRefreshing'
  BY <1>0, <1>1, <1>2
<1>3. ASSUME NEW id \in Ids, StartRefresh(id) PROVE LoadingIsRefreshing'
  <2>1. PICK new \in Refreshes : new.id = id /\ refreshing' = refreshing \cup {new}
    BY <1>3, StartRefreshIs
  <2>2. loadingObjects' = loadingObjects \cup {id}
    BY <1>3, StartRefreshIs
  <2> QED
    BY <1>0, <1>1, <2>1, <2>2
<1>4. ASSUME \/ UpdateDraft \/ AddProfile \/ SaveDraft \/ CloseManager \/ Connect \/ OpenSqliteSample
             \/ TargetClosed \/ Deleted \/ SnapshotArrives \/ UNCHANGED windowVars
      PROVE  LoadingIsRefreshing'
  BY <1>2, <1>4 DEF UpdateDraft, AddProfile, SaveDraft, CloseManager, Connect, OpenSqliteSample, TargetClosed,
                    Deleted, SnapshotArrives, FormOnly, windowVars, objectVars
<1>5. CASE AutoRefresh
  BY <1>3, <1>5 DEF AutoRefresh, RailTyped
<1>6. ASSUME NEW i \in DOMAIN profiles, SelectProfile(i) PROVE LoadingIsRefreshing'
  BY <1>2, <1>6 DEF SelectProfile, FormOnly, objectVars
<1>7. ASSUME NEW b \in BOOLEAN, Refresh(b) PROVE LoadingIsRefreshing'
  BY <1>3, <1>7 DEF Refresh, RailTyped
<1>8. ASSUME NEW r \in refreshing, ReadSchema(r) PROVE LoadingIsRefreshing'
  <2> DEFINE new == [r EXCEPT !.got = schema[r.id]]
  <2>1. refreshing' = (refreshing \ {r}) \cup {new} /\ loadingObjects' = loadingObjects
    BY <1>8 DEF ReadSchema
  <2>2. new.id = r.id
    BY DEF ObjectsTyped, Refreshes
  <2> HIDE DEF new
  <2> QED
    BY <1>0, <1>1, <2>1, <2>2
<1>9. ASSUME NEW r \in refreshing, RefreshEnds(r) PROVE LoadingIsRefreshing'
  BY <1>0, <1>1, <1>9 DEF RefreshEnds
<1>10. ASSUME NEW c \in closing, Disconnected(c) PROVE LoadingIsRefreshing'
  BY <1>2, <1>10 DEF Disconnected
<1>11. ASSUME NEW targets \in SUBSET Saved, DeleteProfiles(targets) PROVE LoadingIsRefreshing'
  BY <1>2, <1>11 DEF DeleteProfiles, objectVars
<1>12. ASSUME NEW id \in Ids,
              ImportProfile(id) \/ SwitchTo(id) \/ BackendConnects(id) \/ ConnectFails(id) \/ Disconnect(id)
       PROVE  LoadingIsRefreshing'
  BY <1>2, <1>12 DEF ImportProfile, SwitchTo, BackendConnects, ConnectFails, Disconnect, objectVars
<1>13. ASSUME NEW id \in Ids, Connected(id) PROVE LoadingIsRefreshing'
  BY <1>3, <1>13 DEF Connected
<1> QED
  BY <1>4, <1>5, <1>6, <1>7, <1>8, <1>9, <1>10, <1>11, <1>12, <1>13 DEF WindowNext

-----------------------------------------------------------------------------
\* What has crossed stays so.
LEMMA CrossedStays ==
    ASSUME crossed, [WindowNext]_windowVars
    PROVE  crossed'
<1>1. ASSUME UpdateDraft \/ AddProfile \/ SaveDraft \/ CloseManager \/ AutoRefresh \/ Connect \/ OpenSqliteSample
             \/ TargetClosed \/ Deleted \/ SnapshotArrives \/ UNCHANGED windowVars
      PROVE  crossed'
  BY <1>1 DEF UpdateDraft, AddProfile, SaveDraft, CloseManager, AutoRefresh, Connect, OpenSqliteSample,
              TargetClosed, Deleted, SnapshotArrives, FormOnly, callVars, windowVars
<1>2. ASSUME NEW i \in DOMAIN profiles, SelectProfile(i) PROVE crossed'
  BY <1>2 DEF SelectProfile
<1>3. ASSUME NEW b \in BOOLEAN, Refresh(b) PROVE crossed'
  BY <1>3 DEF Refresh
<1>4. ASSUME NEW r \in refreshing, ReadSchema(r) \/ RefreshEnds(r) PROVE crossed'
  BY <1>4 DEF ReadSchema, RefreshEnds, callVars
<1>5. ASSUME NEW c \in closing, Disconnected(c) PROVE crossed'
  BY <1>5 DEF Disconnected
<1>6. ASSUME NEW targets \in SUBSET Saved, DeleteProfiles(targets) PROVE crossed'
  BY <1>6 DEF DeleteProfiles
<1>7. ASSUME NEW id \in Ids, \/ ImportProfile(id) \/ SwitchTo(id) \/ BackendConnects(id) \/ Connected(id)
                             \/ ConnectFails(id) \/ Disconnect(id)
      PROVE  crossed'
  BY <1>7 DEF ImportProfile, SwitchTo, BackendConnects, Connected, ConnectFails, Disconnect, callVars
<1> QED
  BY <1>1, <1>2, <1>3, <1>4, <1>5, <1>6, <1>7 DEF WindowNext

\* The first element of a sequence without repetition is not in the rest.
LEMMA HeadLeaves ==
    ASSUME NEW R, NEW s \in Seq(R), s # << >>, \A k, l \in DOMAIN s : s[k] = s[l] => k = l
    PROVE  /\ Range(Tail(s)) = Range(s) \ {Head(s)} /\ Head(s) \in Range(s)
           /\ \A k, l \in DOMAIN Tail(s) : Tail(s)[k] = Tail(s)[l] => k = l
<1> DEFINE n == Len(s)
           rest == Tail(s)
<1>1. /\ n \in Nat \ {0} /\ DOMAIN s = 1 .. n /\ DOMAIN rest = 1 .. n - 1 /\ Head(s) = s[1]
      /\ \A k \in 1 .. n - 1 : rest[k] = s[k + 1]
  OBVIOUS
<1> HIDE DEF n, rest
<1>2. /\ \A k \in 1 .. n - 1 : k + 1 \in 1 .. n /\ k + 1 # 1
      /\ \A k \in 1 .. n : k = 1 \/ (k - 1 \in 1 .. n - 1 /\ (k - 1) + 1 = k)
      /\ 1 \in 1 .. n
  BY <1>1
<1>3. \A k \in 1 .. n - 1 : rest[k] \in Range(s) \ {s[1]}
  BY <1>1, <1>2 DEF Range
<1>4. \A x \in Range(s) \ {s[1]} : \E k \in 1 .. n - 1 : rest[k] = x
  <2>0. Range(s) = {s[k] : k \in 1 .. n}
    BY <1>1 DEF Range
  <2> SUFFICES ASSUME NEW k \in 1 .. n, s[k] # s[1] PROVE \E j \in 1 .. n - 1 : rest[j] = s[k]
    BY <2>0
  <2>1. k - 1 \in 1 .. n - 1 /\ rest[k - 1] = s[k]
    BY <1>1, <1>2
  <2> QED
    BY <2>1
<1>5. Range(rest) = Range(s) \ {s[1]}
  <2>1. Range(rest) = {rest[k] : k \in 1 .. n - 1}
    BY <1>1 DEF Range
  <2>2. \A x \in Range(rest) : x \in Range(s) \ {s[1]}
    BY <1>3, <2>1
  <2>3. \A x \in Range(s) \ {s[1]} : x \in Range(rest)
    BY <1>4, <2>1
  <2> QED
    BY <2>2, <2>3
<1>6. \A k, l \in 1 .. n - 1 : rest[k] = rest[l] => k = l
  <2> SUFFICES ASSUME NEW k \in 1 .. n - 1, NEW l \in 1 .. n - 1, rest[k] = rest[l] PROVE k = l
    OBVIOUS
  <2>1. k + 1 = l + 1
    BY <1>1, <1>2
  <2> QED
    BY <1>1, <2>1
<1>7. s[1] \in Range(s)
  BY <1>1, <1>2 DEF Range
<1> QED
  BY <1>1, <1>5, <1>6, <1>7 DEF rest

\* While nothing crosses, the rail and the backend stay in step.
LEMMA OpenStep ==
    ASSUME UserInv, CommandsTyped, RailTyped, OpenInv, [WindowNext]_windowVars
    PROVE  OpenInv'
<1> SUFFICES ASSUME ~crossed' PROVE Uncrossed'
  BY DEF OpenInv
<1>1. Uncrossed /\ ~crossed
  BY CrossedStays DEF OpenInv
<1>2. /\ rail \subseteq Saved /\ \A i \in DOMAIN connecting : i \in Saved \/ i = Sample
      /\ DOMAIN connecting # {} => ~Closing
      /\ closing # {} => deleting = NoDelete
      /\ \A c, d \in closing : c = d
      /\ \A c \in closing : c.rail = rail
  BY <1>1 DEF Uncrossed
<1>3. /\ Range(deleting.todo) \subseteq rail
      /\ \A k, l \in DOMAIN deleting.todo : deleting.todo[k] = deleting.todo[l] => k = l
      /\ open = (rail \ deleting.targets) \cup Range(deleting.todo) \cup Opened
  BY <1>1 DEF Uncrossed
<1>4. ASSUME Saved \subseteq Saved', UNCHANGED <<rail, connecting, closing, deleting, open>>
      PROVE  Uncrossed'
  BY <1>1, <1>4 DEF Uncrossed, Opened, Closing
<1>5. ASSUME UNCHANGED <<profiles, rail, connecting, closing, deleting, open>>
      PROVE  Uncrossed'
  BY <1>4, <1>5 DEF Saved
<1>6. NoDelete.targets = {} /\ NoDelete.todo = << >> /\ Range(<< >>) = {} /\ DOMAIN << >> = {}
  BY DEF NoDelete, Range
<1>7. /\ ~Closing => closing = {} /\ deleting = NoDelete
      /\ DOMAIN connecting # {} => closing = {} /\ deleting = NoDelete
      /\ deleting # NoDelete => DOMAIN connecting = {} /\ closing = {}
      /\ closing # {} => DOMAIN connecting = {} /\ deleting = NoDelete
  <2>1. ~Closing => closing = {} /\ deleting = NoDelete
    BY DEF Closing
  <2> QED
    BY <1>2, <2>1
<1>8. ASSUME UpdateDraft \/ AddProfile \/ AutoRefresh \/ SnapshotArrives \/ UNCHANGED windowVars
      PROVE  Uncrossed'
  BY <1>5, <1>8 DEF UpdateDraft, AddProfile, AutoRefresh, SnapshotArrives, FormOnly, windowVars, userVars,
                    backendVars, railVars, callVars
<1>9. ASSUME profiles' = WithDraft PROVE Saved' = Saved \cup {draft.id}
  BY <1>9, SavedAre, DraftIsSaved DEF Saved, IdsOf
<1>10. CASE SaveDraft
  BY <1>4, <1>9, <1>10 DEF SaveDraft, FormOnly, backendVars, railVars
<1>11. CASE CloseManager
  <2>1. /\ profiles' = Picked(profiles, {i \in DOMAIN profiles : KeepsProfile(profiles[i])})
        /\ UNCHANGED <<rail, connecting, closing, deleting, open>> /\ Pruned \cap DOMAIN connecting = {}
    BY <1>11 DEF CloseManager, FormOnly, backendVars, railVars
  <2>2. Range(profiles') = {profiles[i] : i \in {j \in DOMAIN profiles : KeepsProfile(profiles[j])}}
        /\ IdsOf(profiles') = {profiles[i].id : i \in {j \in DOMAIN profiles : KeepsProfile(profiles[j])}}
    BY <2>1, PickedRows DEF UserInv
  <2>3. \A i \in DOMAIN profiles : profiles[i].id \in rail => profiles[i].id \in IdsOf(profiles')
    BY <2>2 DEF KeepsProfile
  <2>4. rail \subseteq IdsOf(profiles')
    BY <1>2, <2>3 DEF Saved
  <2>5. \A i \in DOMAIN profiles : profiles[i].id \in DOMAIN connecting => profiles[i].id \in IdsOf(profiles')
    <3> SUFFICES ASSUME NEW i \in DOMAIN profiles, profiles[i].id \in DOMAIN connecting
                 PROVE  profiles[i] \in Range(profiles')
      BY <2>2
    <3> QED
      BY <2>1 DEF Pruned, Range
  <2>6. \A i \in DOMAIN connecting : i \in IdsOf(profiles') \/ i = Sample
    BY <1>2, <2>5 DEF Saved
  <2>7. Saved' = IdsOf(profiles')
    BY DEF Saved, IdsOf
  <2> QED
    BY <1>1, <2>1, <2>4, <2>6, <2>7 DEF Uncrossed, Opened, Closing
<1>12. ASSUME Saved \subseteq Saved', NEW id \in Ids, id \in Saved' \/ id = Sample, id \notin DOMAIN connecting,
              connecting' = With1(connecting, id, "sent"), ~Closing,
              UNCHANGED <<rail, closing, deleting, open>>
       PROVE  Uncrossed'
  <2>1. DOMAIN connecting' = DOMAIN connecting \cup {id} /\ Opened' = Opened
    BY <1>12 DEF With1, Opened
  <2> QED
    BY <1>1, <1>12, <2>1 DEF Uncrossed, Closing
<1>13. CASE Connect
  <2>1. /\ profiles' = WithDraft /\ draft.id \notin DOMAIN connecting /\ ~Closing
        /\ connecting' = With1(connecting, draft.id, "sent") /\ UNCHANGED <<rail, closing, deleting, open>>
    BY <1>13 DEF Connect, backendVars, railVars
  <2>2. draft.id \in Ids
    BY DEF UserInv
  <2> QED
    BY <1>9, <1>12, <2>1, <2>2
<1>14. CASE OpenSqliteSample
  <2>1. UNCHANGED <<profiles, rail, closing, deleting, open>> /\ Sample \notin DOMAIN connecting
    BY <1>14 DEF OpenSqliteSample, backendVars
  <2>2. connecting' = connecting \/ (connecting' = With1(connecting, Sample, "sent") /\ ~Closing)
    BY <1>14 DEF OpenSqliteSample
  <2>3. Saved' = Saved
    BY <2>1 DEF Saved
  <2> QED
    BY <1>5, <1>12, <2>1, <2>2, <2>3, IdsAre
<1>15. CASE TargetClosed
  <2> DEFINE todo == deleting.todo
  <2>1. /\ todo # << >> /\ open' = open \ {Head(todo)} /\ deleting' = [deleting EXCEPT !.todo = Tail(todo)]
        /\ UNCHANGED <<profiles, rail, connecting, closing>>
    BY <1>15 DEF TargetClosed, userVars, railVars
  <2>2. todo \in Seq(Ids) /\ deleting'.targets = deleting.targets /\ deleting'.todo = Tail(todo)
        /\ Range(todo) \subseteq deleting.targets
    BY <2>1 DEF CommandsTyped
  <2>3. deleting # NoDelete
    BY <1>6, <2>1
  <2>4. DOMAIN connecting = {} /\ closing = {}
    BY <1>7, <2>3
  <2> HIDE DEF todo
  <2>5. /\ Range(Tail(todo)) = Range(todo) \ {Head(todo)} /\ Head(todo) \in Range(todo)
        /\ \A k, l \in DOMAIN Tail(todo) : Tail(todo)[k] = Tail(todo)[l] => k = l
    BY <1>3, <2>1, <2>2, HeadLeaves DEF todo
  <2>6. Opened = {} /\ Opened' = {}
    BY <2>1, <2>4 DEF Opened
  <2>7. open' = (rail' \ deleting'.targets) \cup Range(deleting'.todo) \cup Opened'
    BY <1>3, <2>1, <2>2, <2>5, <2>6 DEF todo
  <2>8. Range(deleting'.todo) \subseteq rail'
        /\ \A k, l \in DOMAIN deleting'.todo : deleting'.todo[k] = deleting'.todo[l] => k = l
    BY <1>3, <2>1, <2>2, <2>5 DEF todo
  <2>9. rail' \subseteq Saved' /\ DOMAIN connecting' = {} /\ closing' = {}
    BY <1>2, <2>1, <2>4 DEF Saved
  <2> QED
    BY <2>7, <2>8, <2>9 DEF Uncrossed
<1>16. CASE Deleted
  <2> DEFINE places == {i \in DOMAIN profiles : profiles[i].id \notin deleting.targets}
  <2>1. /\ deleting # NoDelete /\ deleting.todo = << >> /\ deleting' = NoDelete
        /\ rail' = rail \ deleting.targets /\ profiles' = Picked(profiles, places)
        /\ UNCHANGED <<connecting, closing, open>>
    BY <1>16 DEF Deleted, backendVars
  <2>2. DOMAIN connecting = {} /\ closing = {}
    BY <1>7, <2>1
  <2>3. Opened = {} /\ Opened' = {}
    BY <2>1, <2>2 DEF Opened
  <2>4. IdsOf(profiles') = {profiles[i].id : i \in places}
    BY <2>1, PickedRows DEF UserInv
  <2>5. rail' \subseteq Saved'
    <3>1. Saved' = IdsOf(profiles')
      BY DEF Saved, IdsOf
    <3>2. ASSUME NEW i \in DOMAIN profiles, profiles[i].id \notin deleting.targets
          PROVE  profiles[i].id \in IdsOf(profiles')
      BY <2>4, <3>2
    <3> QED
      BY <1>2, <2>1, <3>1, <3>2 DEF Saved
  <2>6. open' = rail'
    BY <1>3, <1>6, <2>1, <2>3
  <2> QED
    BY <1>6, <2>1, <2>2, <2>3, <2>5, <2>6 DEF Uncrossed
<1>17. ASSUME NEW i \in DOMAIN profiles, SelectProfile(i) PROVE Uncrossed'
  BY <1>5, <1>17 DEF SelectProfile, FormOnly, backendVars, railVars
<1>18. ASSUME NEW b \in BOOLEAN, Refresh(b) PROVE Uncrossed'
  BY <1>5, <1>18 DEF Refresh, userVars, railVars
<1>19. ASSUME NEW r \in refreshing, ReadSchema(r) \/ RefreshEnds(r) PROVE Uncrossed'
  BY <1>5, <1>19 DEF ReadSchema, RefreshEnds, userVars, backendVars, railVars, callVars
<1>20. ASSUME NEW c \in closing, Disconnected(c) PROVE Uncrossed'
  <2>1. /\ closing' = closing \ {c} /\ open' = open \ {c.id} /\ rail' = c.rail \ {c.id}
        /\ UNCHANGED <<profiles, connecting, deleting>>
    BY <1>20 DEF Disconnected, userVars
  <2>2. closing' = {} /\ c.rail = rail /\ deleting = NoDelete /\ DOMAIN connecting = {}
    <3>1. closing # {} /\ c.rail = rail /\ \A d \in closing : d = c
      BY <1>2
    <3> QED
      BY <1>7, <2>1, <3>1
  <2>3. Opened = {} /\ Opened' = {}
    BY <2>1, <2>2 DEF Opened
  <2>4. open = rail
    BY <1>3, <1>6, <2>2, <2>3
  <2>5. rail' \subseteq Saved'
    BY <1>2, <2>1, <2>2 DEF Saved
  <2> QED
    BY <1>6, <2>1, <2>2, <2>3, <2>4, <2>5 DEF Uncrossed
<1>21. ASSUME NEW targets \in SUBSET Saved, DeleteProfiles(targets) PROVE Uncrossed'
  <2> DEFINE S == targets \cap rail
             todo == Ascending(S)
  <2>1. /\ ~Closing /\ connecting = << >> /\ deleting' = [targets |-> targets, todo |-> todo]
        /\ UNCHANGED <<profiles, rail, connecting, closing, open>>
    BY <1>21 DEF DeleteProfiles, userVars, railVars, backendVars
  <2>2. S \in SUBSET Nat /\ IsFiniteSet(S)
    BY SavedAre, IdsAre, FS_Subset
  <2> HIDE DEF S
  <2>3. /\ todo \in [1 .. Cardinality(S) -> S] /\ \A i \in S : \E k \in 1 .. Cardinality(S) : todo[k] = i
        /\ \A k, l \in 1 .. Cardinality(S) : todo[k] = todo[l] => k = l
    BY <2>2, AscendingIs
  <2> HIDE DEF todo
  <2>4. Range(todo) = S /\ \A k, l \in DOMAIN todo : todo[k] = todo[l] => k = l
    BY <2>3 DEF Range
  <2>5. Opened = {} /\ Opened' = {} /\ DOMAIN connecting' = {} /\ closing' = {} /\ deleting = NoDelete
    BY <1>6, <1>7, <2>1 DEF Opened
  <2>6. open = rail
    BY <1>3, <1>6, <2>5
  <2>7. rail' \subseteq Saved'
    BY <1>2, <2>1 DEF Saved
  <2>8. deleting'.targets = targets /\ deleting'.todo = todo
    BY <2>1
  <2>9. open' = (rail' \ deleting'.targets) \cup Range(deleting'.todo) \cup Opened'
    BY <2>1, <2>4, <2>5, <2>6, <2>8 DEF S
  <2>10. Range(deleting'.todo) \subseteq rail'
    BY <2>1, <2>4, <2>8 DEF S
  <2> QED
    BY <2>4, <2>5, <2>7, <2>8, <2>9, <2>10 DEF Uncrossed
<1>22. ASSUME NEW id \in Ids, ImportProfile(id) PROVE Uncrossed'
  <2> DEFINE row == [id |-> id, edited |-> TRUE]
  <2>1. id \notin Saved /\ profiles' = Append(profiles, row) /\ UNCHANGED <<rail, connecting, closing, deleting, open>>
    BY <1>22 DEF ImportProfile, backendVars, callVars
  <2>2. row \in ProfileRows /\ row.id \notin IdsOf(profiles)
    BY <2>1, SavedAre DEF ProfileRows
  <2> HIDE DEF row
  <2>3. Saved \subseteq Saved'
    BY <2>1, <2>2, SavedAre, AppendedRow DEF UserInv, Saved, IdsOf
  <2> QED
    BY <1>4, <2>1, <2>3
<1>23. ASSUME NEW id \in Ids, SwitchTo(id) PROVE Uncrossed'
  BY <1>5, <1>23 DEF SwitchTo, backendVars, callVars
<1>24. ASSUME NEW id \in Ids, BackendConnects(id) PROVE Uncrossed'
  <2>1. /\ id \in DOMAIN connecting /\ connecting' = [connecting EXCEPT ![id] = "open"] /\ open' = open \cup {id}
        /\ UNCHANGED <<profiles, rail, closing, deleting>>
    BY <1>24 DEF BackendConnects, userVars, railVars
  <2>2. DOMAIN connecting' = DOMAIN connecting /\ Opened' = Opened \cup {id} /\ Saved' = Saved
    BY <2>1 DEF CommandsTyped, Opened, Saved
  <2> QED
    BY <1>1, <2>1, <2>2 DEF Uncrossed, Closing
<1>25. ASSUME NEW id \in Ids, Connected(id) PROVE Uncrossed'
  <2> DEFINE row == [id |-> Sample, edited |-> TRUE]
  <2>1. /\ id \in DOMAIN connecting /\ connecting[id] = "open" /\ connecting' = Less1(connecting, id)
        /\ rail' = rail \cup {id} /\ UNCHANGED <<closing, deleting, open>>
        /\ profiles' = IF id # Sample \/ Sample \in Saved THEN profiles ELSE Append(profiles, row)
    BY <1>25 DEF Connected, backendVars
  <2>2. DOMAIN connecting' = DOMAIN connecting \ {id} /\ Opened' = Opened \ {id} /\ id \in Opened
    BY <2>1 DEF Less1, Opened
  <2>3. closing = {} /\ deleting = NoDelete
    <3>1. DOMAIN connecting # {}
      BY <2>1
    <3> QED
      BY <1>7, <3>1
  <2>4. Saved' = IdsOf(profiles')
    BY DEF Saved, IdsOf
  <2>5. Saved \subseteq Saved' /\ id \in Saved'
    <3>1. CASE id # Sample \/ Sample \in Saved
      BY <1>2, <2>1, <3>1 DEF Saved
    <3>2. CASE id = Sample /\ Sample \notin Saved
      <4>1. row \in ProfileRows /\ row.id \notin IdsOf(profiles) /\ row.id = Sample
        BY <3>2, SavedAre, IdsAre DEF ProfileRows
      <4>2. profiles' = Append(profiles, row)
        BY <2>1, <3>2
      <4> HIDE DEF row
      <4>3. IdsOf(profiles') = IdsOf(profiles) \cup {Sample}
        BY <4>1, <4>2, AppendedRow DEF UserInv
      <4> QED
        BY <2>4, <3>2, <4>3, SavedAre
    <3> QED
      BY <3>1, <3>2
  <2>6. open' = rail' \cup Opened'
    BY <1>3, <1>6, <2>1, <2>2, <2>3
  <2>7. rail' \subseteq Saved' /\ \A i \in DOMAIN connecting' : i \in Saved' \/ i = Sample
    BY <1>2, <2>1, <2>2, <2>5
  <2>8. closing' = {} /\ deleting' = NoDelete
    BY <2>1, <2>3
  <2> QED
    BY <1>6, <2>6, <2>7, <2>8 DEF Uncrossed, Closing
<1>26. ASSUME NEW id \in Ids, ConnectFails(id) PROVE Uncrossed'
  <2>1. /\ id \in DOMAIN connecting /\ connecting[id] # "open" /\ connecting' = Less1(connecting, id)
        /\ UNCHANGED <<profiles, rail, closing, deleting, open>>
    BY <1>26 DEF ConnectFails, userVars, railVars, backendVars
  <2>2. DOMAIN connecting' = DOMAIN connecting \ {id} /\ Opened' = Opened /\ Saved' = Saved
    BY <2>1 DEF Less1, Opened, Saved
  <2> QED
    BY <1>1, <2>1, <2>2 DEF Uncrossed, Closing
<1>27. ASSUME NEW id \in Ids, Disconnect(id) PROVE Uncrossed'
  <2> DEFINE c == [id |-> id, rail |-> rail, active |-> active, rows |-> profiles]
  <2>1. /\ ~Closing /\ connecting = << >> /\ closing' = closing \cup {c}
        /\ UNCHANGED <<profiles, rail, connecting, deleting, open>>
    BY <1>27 DEF Disconnect, userVars, railVars, backendVars
  <2>2. c.rail = rail
    OBVIOUS
  <2> HIDE DEF c
  <2>3. closing' = {c} /\ deleting = NoDelete /\ DOMAIN connecting = {} /\ Saved' = Saved /\ Opened' = Opened
    BY <1>6, <1>7, <2>1 DEF Saved, Opened
  <2> QED
    BY <1>1, <2>1, <2>2, <2>3 DEF Uncrossed
<1> QED
  BY <1>8, <1>10, <1>11, <1>13, <1>14, <1>15, <1>16, <1>17, <1>18, <1>19, <1>20, <1>21, <1>22, <1>23, <1>24,
     <1>25, <1>26, <1>27 DEF WindowNext

-----------------------------------------------------------------------------
\* A refresh that begins is the only one of its id, or makes it raced; nothing has
\* been read for it, so the schema of that id may change with it.
LEMMA BegunIsFresh ==
    ASSUME ObjectsTyped, RailTyped, FreshInv, NEW id \in Ids, StartRefresh(id), objects' = objects,
           \A i \in Ids : i # id => schema'[i] = schema[i] /\ (i \in Opened <=> i \in Opened'),
           ~crossed' => ~crossed
    PROVE  FreshInv'
<1>1. PICK new \in Refreshes : new.id = id /\ new.got = Absent /\ refreshing' = refreshing \cup {new}
  BY StartRefreshIs
<1>2. /\ failed' = failed \ {id}
      /\ raced' = IF \A r \in refreshing : r.id # id THEN raced \ {id} ELSE raced \cup {id}
  BY StartRefreshIs
<1>3. id \notin raced' => \A r \in refreshing : r.id # id
  BY <1>2
<1>4. \A i \in Ids : i # id => (i \in raced' <=> i \in raced)
  BY <1>2
<1>5. ASSUME NEW i \in Ids \ raced', NEW r \in refreshing', NEW s \in refreshing', r.id = i, s.id = i
      PROVE  r = s
  <2>1. CASE i = id
    BY <1>1, <1>3, <1>5, <2>1
  <2>2. CASE i # id
    <3>1. r \in refreshing /\ s \in refreshing /\ i \notin raced
      BY <1>1, <1>4, <1>5, <2>2
    <3> QED
      BY <1>5, <3>1 DEF FreshInv
  <2> QED
    BY <2>1, <2>2
<1>6. ASSUME ~crossed', NEW i \in Ids, i \notin raced', i \notin Opened'
      PROVE  IsUpToDate(i)'
  <2>1. CASE i = id
    <3>1. \A r \in refreshing' : r.id = id => r = new
      BY <1>1, <1>3, <1>6, <2>1
    <3> QED
      BY <1>1, <2>1, <3>1 DEF IsUpToDate
  <2>2. CASE i # id
    <3>1. IsUpToDate(i)
      BY <1>4, <1>6, <2>2 DEF FreshInv
    <3>2. \A r \in refreshing' : r.id = i => r \in refreshing
      BY <1>1, <2>2
    <3>3. \A r \in refreshing : r \in refreshing'
      BY <1>1
    <3>4. (i \in failed' <=> i \in failed) /\ objects'[i] = objects[i] /\ schema'[i] = schema[i]
      BY <1>2, <2>2
    <3> QED
      BY <3>1, <3>2, <3>3, <3>4 DEF IsUpToDate
  <2> QED
    BY <2>1, <2>2
<1> QED
  BY <1>5, <1>6 DEF FreshInv

\* What a refresh has read is the schema, until it is changed and another one follows.
LEMMA FreshStep ==
    ASSUME CommandsTyped, RailTyped, ObjectsTyped, FreshInv, [WindowNext]_windowVars
    PROVE  FreshInv'
<1>0. ~crossed' => ~crossed
  BY CrossedStays
<1>1. ASSUME UNCHANGED <<objects, failed, refreshing, raced, schema>>, ~crossed' => Opened' = Opened
      PROVE  FreshInv'
  <2>1. \A i \in Ids : IsUpToDate(i)' <=> IsUpToDate(i)
    BY <1>1 DEF IsUpToDate
  <2> QED
    BY <1>0, <1>1, <2>1 DEF FreshInv
<1>2. ASSUME UNCHANGED <<objectVars, schema, connecting>> PROVE FreshInv'
  BY <1>1, <1>2 DEF objectVars, Opened
<1>3. ASSUME NEW id \in Ids, StartRefresh(id), UNCHANGED <<objects, schema, connecting>> PROVE FreshInv'
  BY <1>0, <1>3, BegunIsFresh DEF Opened
<1>4. ASSUME NEW id, id \notin DOMAIN connecting, connecting' = With1(connecting, id, "sent"),
             UNCHANGED <<objectVars, schema>>
      PROVE  FreshInv'
  <2>1. Opened' = Opened
    BY <1>4 DEF With1, Opened
  <2> QED
    BY <1>1, <1>4, <2>1 DEF objectVars
<1>5. ASSUME \/ UpdateDraft \/ AddProfile \/ SaveDraft \/ CloseManager \/ TargetClosed \/ Deleted
             \/ SnapshotArrives \/ UNCHANGED windowVars
      PROVE  FreshInv'
  BY <1>2, <1>5 DEF UpdateDraft, AddProfile, SaveDraft, CloseManager, TargetClosed, Deleted, SnapshotArrives,
                    FormOnly, backendVars, callVars, windowVars
<1>6. CASE AutoRefresh
  BY <1>3, <1>6 DEF AutoRefresh, backendVars, callVars, RailTyped
<1>7. CASE Connect
  BY <1>4, <1>7 DEF Connect, backendVars
<1>8. CASE OpenSqliteSample
  BY <1>2, <1>4, <1>8 DEF OpenSqliteSample, backendVars
<1>9. ASSUME NEW i \in DOMAIN profiles, SelectProfile(i) PROVE FreshInv'
  BY <1>2, <1>9 DEF SelectProfile, FormOnly, backendVars
<1>10. ASSUME NEW b \in BOOLEAN, Refresh(b) PROVE FreshInv'
  <2>1. /\ active \in Ids /\ StartRefresh(active) /\ objects' = objects /\ connecting' = connecting
        /\ schema' = schema \/ schema' = [schema EXCEPT ![active] = commands']
    BY <1>10 DEF Refresh, RailTyped
  <2>2. \A i \in Ids : i # active => schema'[i] = schema[i] /\ (i \in Opened <=> i \in Opened')
    BY <2>1 DEF RailTyped, Opened
  <2> QED
    BY <1>0, <2>1, <2>2, BegunIsFresh
<1>11. ASSUME NEW r \in refreshing, ReadSchema(r) PROVE FreshInv'
  <2> DEFINE new == [r EXCEPT !.got = schema[r.id]]
  <2>1. /\ refreshing' = (refreshing \ {r}) \cup {new}
        /\ UNCHANGED <<objects, failed, raced, schema, crossed, connecting>>
    BY <1>11 DEF ReadSchema, backendVars, callVars
  <2>2. new.id = r.id /\ new.got = schema[r.id] /\ r.id \in Ids
    BY DEF ObjectsTyped, Refreshes
  <2> HIDE DEF new
  <2>3. ASSUME NEW i \in Ids \ raced', NEW q \in refreshing', NEW s \in refreshing', q.id = i, s.id = i
        PROVE  q = s
    <3>1. CASE i = r.id
      <4>1. \A x \in refreshing : x.id = i => x = r
        BY <2>1, <2>3, <3>1 DEF FreshInv
      <4> QED
        BY <2>1, <2>3, <4>1
    <3>2. CASE i # r.id
      BY <2>1, <2>2, <2>3, <3>2 DEF FreshInv
    <3> QED
      BY <3>1, <3>2
  <2>4. ASSUME ~crossed', NEW i \in Ids, i \notin raced', i \notin Opened'
        PROVE  IsUpToDate(i)'
    <3>1. IsUpToDate(i)
      BY <2>1, <2>4 DEF FreshInv, Opened
    <3>2. \A x \in refreshing' : x.id = i => x \in refreshing \/ x.got = schema[i]
      BY <2>1, <2>2
    <3>3. (\A x \in refreshing' : x.id # i) => \A x \in refreshing : x.id # i
      BY <2>1, <2>2
    <3> QED
      BY <2>1, <3>1, <3>2, <3>3 DEF IsUpToDate
  <2> QED
    BY <2>3, <2>4 DEF FreshInv
<1>12. ASSUME NEW r \in refreshing, RefreshEnds(r) PROVE FreshInv'
  <2>1. /\ refreshing' = refreshing \ {r} /\ UNCHANGED <<raced, schema, crossed, connecting>>
        /\ IF r.got = Absent THEN failed' = failed \cup {r.id} /\ UNCHANGED objects
           ELSE objects' = [objects EXCEPT ![r.id] = r.got] /\ UNCHANGED failed
    BY <1>12 DEF RefreshEnds, backendVars, callVars
  <2>2. \A i \in Ids \ raced' : \A q, s \in refreshing' : q.id = i /\ s.id = i => q = s
    BY <2>1 DEF FreshInv
  <2>3. ASSUME ~crossed', NEW i \in Ids, i \notin raced', i \notin Opened'
        PROVE  IsUpToDate(i)'
    <3>1. IsUpToDate(i)
      BY <2>1, <2>3 DEF FreshInv, Opened
    <3>2. \A x \in refreshing' : x \in refreshing
      BY <2>1
    <3>3. CASE i = r.id
      <4>1. r.got \in {Absent, schema[i]}
        BY <3>1, <3>3 DEF IsUpToDate
      <4>2. i \in failed' \/ objects'[i] = schema'[i]
        BY <2>1, <3>3, <4>1 DEF ObjectsTyped
      <4> QED
        BY <2>1, <3>1, <3>2, <4>2 DEF IsUpToDate
    <3>4. CASE i # r.id
      <4>1. (i \in failed' <=> i \in failed) /\ objects'[i] = objects[i]
        BY <2>1, <3>4 DEF ObjectsTyped
      <4>2. (\A x \in refreshing' : x.id # i) => \A x \in refreshing : x.id # i
        BY <2>1, <3>4
      <4> QED
        BY <2>1, <3>1, <3>2, <4>1, <4>2 DEF IsUpToDate
    <3> QED
      BY <3>3, <3>4
  <2> QED
    BY <2>2, <2>3 DEF FreshInv
<1>13. ASSUME NEW c \in closing, Disconnected(c) PROVE FreshInv'
  <2>1. /\ objects' = [objects EXCEPT ![c.id] = Absent] /\ failed' = failed \ {c.id}
        /\ UNCHANGED <<refreshing, raced, schema, crossed, connecting>>
    BY <1>13 DEF Disconnected
  <2>2. \A i \in Ids : objects'[i] = Absent \/ (objects'[i] = objects[i] /\ (i \in failed' <=> i \in failed))
    BY <2>1 DEF ObjectsTyped
  <2>3. \A i \in Ids : IsUpToDate(i) => IsUpToDate(i)'
    BY <2>1, <2>2 DEF IsUpToDate
  <2> QED
    BY <2>1, <2>3 DEF FreshInv, Opened
<1>14. ASSUME NEW targets \in SUBSET Saved, DeleteProfiles(targets) PROVE FreshInv'
  BY <1>2, <1>14 DEF DeleteProfiles, backendVars
<1>15. ASSUME NEW id \in Ids, ImportProfile(id) \/ SwitchTo(id) \/ Disconnect(id) PROVE FreshInv'
  BY <1>2, <1>15 DEF ImportProfile, SwitchTo, Disconnect, backendVars, callVars
<1>16. ASSUME NEW id \in Ids, BackendConnects(id) PROVE FreshInv'
  <2>1. /\ id \in DOMAIN connecting /\ connecting' = [connecting EXCEPT ![id] = "open"]
        /\ schema' = [schema EXCEPT ![id] = commands]
        /\ UNCHANGED <<objects, failed, refreshing, raced, crossed>>
    BY <1>16 DEF BackendConnects, objectVars
  <2>2. Opened' = Opened \cup {id}
    BY <2>1 DEF CommandsTyped, Opened
  <2>3. \A i \in Ids : i # id => schema'[i] = schema[i]
    BY <2>1 DEF RailTyped
  <2>4. \A i \in Ids : i # id /\ IsUpToDate(i) => IsUpToDate(i)'
    BY <2>1, <2>3 DEF IsUpToDate
  <2> QED
    BY <2>1, <2>2, <2>4 DEF FreshInv
<1>17. ASSUME NEW id \in Ids, Connected(id) PROVE FreshInv'
  <2>1. StartRefresh(id) /\ objects' = objects /\ schema' = schema /\ connecting' = Less1(connecting, id)
    BY <1>17 DEF Connected, backendVars
  <2>2. Opened' = Opened \ {id}
    BY <2>1 DEF Less1, Opened
  <2> QED
    BY <1>0, <2>1, <2>2, BegunIsFresh
<1>18. ASSUME NEW id \in Ids, ConnectFails(id) PROVE FreshInv'
  <2>1. /\ connecting' = Less1(connecting, id) /\ ~crossed' => connecting[id] # "open"
        /\ UNCHANGED <<objectVars, schema>>
    BY <1>18 DEF ConnectFails, backendVars
  <2>2. ~crossed' => Opened' = Opened
    <3> SUFFICES ASSUME ~crossed' PROVE Opened' = Opened
      OBVIOUS
    <3>1. connecting' = Less1(connecting, id) /\ connecting[id] # "open"
      BY <1>18 DEF ConnectFails
    <3> QED
      BY <3>1 DEF Less1, Opened
  <2>3. UNCHANGED <<objectVars, schema>>
    BY <1>18 DEF ConnectFails, backendVars
  <2> QED
    BY <1>1, <2>2, <2>3 DEF objectVars
<1> QED
  BY <1>5, <1>6, <1>7, <1>8, <1>9, <1>10, <1>11, <1>12, <1>13, <1>14, <1>15, <1>16, <1>17, <1>18 DEF WindowNext

\* The invariant holds in every state,
LEMMA ConnectionsInvariant == WindowSpec => []ConnIInv
<1>1. WindowInit => ConnIInv
  <2> SUFFICES ASSUME WindowInit PROVE ConnIInv
    OBVIOUS
  <2>1. UserInv /\ CommandsTyped /\ RailTyped /\ ObjectsTyped
    BY UserInitially, TypedInitially
  <2>2. /\ rail = {} /\ loadingObjects = {} /\ refreshing = {} /\ open = {} /\ closing = {} /\ deleting = NoDelete
        /\ connecting = << >> /\ objects = [i \in Ids |-> Absent]
    BY DEF WindowInit
  <2>3. Uncrossed
    <3>1. DOMAIN connecting = {} /\ Opened = {}
      BY <2>2 DEF Opened
    <3>2. deleting.targets = {} /\ deleting.todo = << >> /\ Range(deleting.todo) = {} /\ DOMAIN deleting.todo = {}
      BY <2>2 DEF NoDelete, Range
    <3> QED
      BY <2>2, <3>1, <3>2 DEF Uncrossed
  <2>4. LoadingIsRefreshing /\ FreshInv
    BY <2>2 DEF LoadingIsRefreshing, FreshInv, IsUpToDate
  <2> QED
    BY <2>1, <2>3, <2>4 DEF ConnIInv, OpenInv
<1>2. ConnIInv /\ [WindowNext]_windowVars => ConnIInv'
  BY UserStep, CommandsStep, RailStep, ObjectsStep, OpenStep, LoadingStep, FreshStep DEF ConnIInv
<1> QED
  BY <1>1, <1>2, PTL DEF WindowSpec

\* and says that the connections are sound: in it every part of ConnectionsAreSound holds.
LEMMA ConnectionsFollow == ConnIInv => ConnectionsAreSound
<1> SUFFICES ASSUME ConnIInv PROVE ConnectionsAreSound
  OBVIOUS
<1> USE DEF ConnIInv
<1>1. WindowTypeOK
  <2>1. \A i \in DOMAIN profiles : profiles[i] \in [id : Ids, edited : BOOLEAN]
    <3>1. \A i \in DOMAIN profiles : profiles[i] \in ProfileRows
      BY DEF UserInv
    <3> QED
      BY <3>1 DEF ProfileRows
  <2>2. /\ draft \in [id : Ids, edited : BOOLEAN, fresh : BOOLEAN] /\ active \in Ids \cup {NoId} /\ rail \subseteq Ids
        /\ open \subseteq Ids /\ schema \in [Ids -> 0 .. MaxCommands]
    BY DEF UserInv, RailTyped, Versions
  <2>3. /\ objects \in [Ids -> 0 .. MaxCommands \cup {Absent}]
        /\ failed \subseteq Ids /\ loadingObjects \subseteq Ids /\ raced \subseteq Ids
        /\ \A r \in refreshing : r \in [no : Nat, id : Ids, got : 0 .. MaxCommands \cup {Absent}]
    BY DEF ObjectsTyped, Versions, Refreshes
  <2>4. /\ DOMAIN connecting \subseteq Ids /\ \A i \in DOMAIN connecting : connecting[i] \in {"sent", "open"}
        /\ \A c \in closing : c.id \in Ids /\ c.rail \subseteq Ids
        /\ deleting.targets \subseteq Ids /\ Range(deleting.todo) \subseteq deleting.targets
    BY DEF CommandsTyped, Closings
  <2> QED
    BY <2>1, <2>2, <2>3, <2>4 DEF WindowTypeOK
<1>2. Settled => ~Closing /\ DOMAIN connecting = {} /\ Opened = {}
  BY DEF Settled, Closing, Opened
<1>3. RailIsWhatIsOpen
  <2> SUFFICES ASSUME Settled, ~crossed PROVE rail = open /\ open \subseteq Saved
    BY DEF RailIsWhatIsOpen
  <2>1. Uncrossed /\ deleting = NoDelete
    BY DEF OpenInv, Settled
  <2>2. deleting.targets = {} /\ Range(deleting.todo) = {}
    BY <2>1 DEF NoDelete, Range
  <2> QED
    BY <1>2, <2>1, <2>2 DEF Uncrossed
<1>4. AddReplacesNoProfile
  BY SavedAre, IdsAreCounted DEF AddReplacesNoProfile, UserInv
<1>5. ObjectsAreUpToDate
  <2> SUFFICES ASSUME NEW i \in rail \cap open, Settled, ~crossed, Waiting(i) = {}, i \notin raced,
                      objects[i] # Absent, i \notin failed
               PROVE  objects[i] = schema[i]
    BY DEF ObjectsAreUpToDate
  <2>1. i \in Ids /\ IsUpToDate(i)
    BY <1>2 DEF RailTyped, FreshInv
  <2> QED
    BY <2>1 DEF IsUpToDate, Waiting
<1> QED
  BY <1>1, <1>3, <1>4, <1>5 DEF ConnectionsAreSound

\* However connects, disconnects, deletes, imports, refreshes and form edits interleave,
\* the profiles, the rail, the objects and what is said to load agree with what is open
\* and under way (use-connection-actions.ts, use-workbench-connections.ts).
THEOREM ConnectionsStaySound == WindowSpec => []ConnectionsAreSound
  BY ConnectionsInvariant, ConnectionsFollow, PTL

-----------------------------------------------------------------------------
(* Paging a result.                                                        *)

\* What paging keeps: the result on screen, the fetch loop and what is waited for,
PagingTyped ==
    /\ latest \in 0..MaxResults /\ source \in {0, latest}
    /\ top \in Rows /\ scrolls \in 0..MaxScrolls
    /\ current \in BOOLEAN /\ missed \in BOOLEAN
    /\ loop \in [of : 0..latest, queue : Seq(PageIndexes)]
    /\ loop = NoLoop \/ loop.queue # << >>
    /\ pending \in SUBSET PageIndexes

\* the resident pages and their order, each page with its own rows,
PagesTyped ==
    /\ lru \in Seq(PageIndexes) /\ IsInjective(lru) /\ Len(lru) <= MaxResidentPages
    /\ DOMAIN pages = Range(lru)
    /\ \A p \in DOMAIN pages : DOMAIN pages[p] = RowsOf(p)

\* a single page with places that hold no row,
HasHole(p) == \E r \in RowsOf(p) : pages[p][r] = Hole
HolesInv   == \A p, q \in DOMAIN pages : HasHole(p) /\ HasHole(q) => p = q

\* and, from one run of the effect to the next rendering, in sight only pages which are
\* there or will be asked for, unless a fetch failed.
SightInv ==
    current /\ ~missed /\ source # 0 =>
        \A r \in InSight : PageOf(r) \in DOMAIN pages \cup Range(loop.queue)

\* The inductive invariant of paging.
PagingIInv == PagingTyped /\ PagesTyped /\ RowsAreTheirOwn /\ HolesInv /\ SightInv

\* A row lies in the page whose first row is not after it and whose next page is;
LEMMA RowLiesIn ==
    ASSUME NEW r \in Nat
    PROVE  /\ PageOf(r) \in Nat /\ PageOf(r) * PageSize <= r /\ r < PageOf(r) * PageSize + PageSize
           /\ PageOf(r) * PageSize \in Nat
<1>1. PageSize \in Nat \ {0}
  BY PagingConstants
<1>2. r \div PageSize \in Nat
  BY <1>1
<1>3. (r \div PageSize) * PageSize <= r
  BY <1>1
<1>4. r < (r \div PageSize) * PageSize + PageSize
  BY <1>1
<1>5. (r \div PageSize) * PageSize \in Nat
  BY <1>1, <1>2
<1> QED
  BY <1>2, <1>3, <1>4, <1>5 DEF PageOf

\* and in no other.
LEMMA LiesInOne ==
    ASSUME NEW r \in Nat, NEW p \in Nat, p * PageSize <= r, r < p * PageSize + PageSize
    PROVE  PageOf(r) = p
<1>1. PageSize \in Nat \ {0}
  BY PagingConstants
<1>2. r \div PageSize = p
  BY <1>1
<1> QED
  BY <1>2 DEF PageOf

\* There are finitely many pages, which are numbers.
LEMMA PagesAre == PageIndexes \in SUBSET Nat /\ IsFiniteSet(PageIndexes) /\ Rows \in SUBSET Nat
<1>1. Total \in Nat \ {0} /\ Rows = 0 .. Total - 1
  BY PagingConstants DEF Rows
<1>2. Rows \in SUBSET Nat /\ IsFiniteSet(Rows)
  BY <1>1, FS_Interval
<1>3. ASSUME NEW r \in Rows PROVE PageOf(r) \in Rows
  <2>1. r \in Nat /\ PageSize \in Nat \ {0} /\ r < Total
    BY <1>1, PagingConstants
  <2>2. r \div PageSize \in Nat /\ r \div PageSize <= r
    BY <2>1
  <2> QED
    BY <1>1, <2>1, <2>2 DEF PageOf
<1>4. PageIndexes \in SUBSET Rows
  BY <1>3 DEF PageIndexes
<1>5. IsFiniteSet(PageIndexes)
  BY <1>2, <1>4, FS_Subset
<1> QED
  BY <1>2, <1>4, <1>5

\* The rows a page is asked for with are all rows of the page, and no others.
LEMMA RequestIsThePage ==
    ASSUME NEW p \in PageIndexes
    PROVE  /\ PageRequest(p).first .. PageRequest(p).last = RowsOf(p)
           /\ RowsOf(p) # {}
<1> DEFINE first == p * PageSize
           final == PageRequest(p).last
<1>1. PICK s \in Rows : p = PageOf(s)
  BY DEF PageIndexes
<1>2. /\ s \in Nat /\ p \in Nat /\ first \in Nat /\ PageSize \in Nat \ {0} /\ Total \in Nat \ {0}
      /\ first <= s /\ s < first + PageSize /\ s < Total
  <2>1. s \in Nat /\ Total \in Nat \ {0} /\ PageSize \in Nat \ {0} /\ s < Total
    BY PagingConstants DEF Rows
  <2> QED
    BY <1>1, <2>1, RowLiesIn
<1>3. /\ PageRequest(p).first = first
      /\ final = IF PageSize <= Total - first THEN first + PageSize - 1 ELSE first + (Total - first) - 1
  BY DEF PageRequest
<1> HIDE DEF first, final
<1>4. final \in Int /\ \A r \in Nat : r <= final <=> r < first + PageSize /\ r < Total
  BY <1>2, <1>3
<1>5. \A r \in first .. final : r \in RowsOf(p)
  <2> SUFFICES ASSUME NEW r \in first .. final PROVE r \in Rows /\ PageOf(r) = p
    BY DEF RowsOf
  <2>1. r \in Nat /\ first <= r /\ r < first + PageSize /\ r < Total
    BY <1>2, <1>4
  <2>2. r \in Rows
    BY <1>2, <2>1 DEF Rows
  <2> QED
    BY <1>2, <2>1, <2>2, LiesInOne DEF first
<1>6. \A r \in RowsOf(p) : r \in first .. final
  <2> SUFFICES ASSUME NEW r \in Rows, PageOf(r) = p PROVE r \in first .. final
    BY DEF RowsOf
  <2>1. r \in Nat /\ r < Total
    BY <1>2 DEF Rows
  <2>2. first <= r /\ r < first + PageSize
    BY <2>1, RowLiesIn DEF first
  <2> QED
    BY <1>2, <1>4, <2>1, <2>2
<1>7. s \in RowsOf(p)
  BY <1>1 DEF RowsOf
<1> QED
  BY <1>3, <1>5, <1>6, <1>7 DEF final

\* A page that is touched goes behind all the others, and none is there twice.
LEMMA TouchedIs ==
    ASSUME NEW order \in Seq(PageIndexes), IsInjective(order), NEW S \in SUBSET PageIndexes
    PROVE  /\ Touched(order, S) \in Seq(PageIndexes) /\ IsInjective(Touched(order, S))
           /\ Range(Touched(order, S)) = Range(order) \cup S
           /\ S \subseteq Range(order) => Len(Touched(order, S)) <= Len(order)
<1> DEFINE places == {i \in DOMAIN order : order[i] \notin S}
           old == Picked(order, places)
           new == Ascending(S)
           n == Len(old)
           m == Cardinality(S)
<1>1. IsFiniteSet(S) /\ S \in SUBSET Nat
  BY PagesAre, FS_Subset
<1>2. /\ m \in Nat /\ new \in [1 .. m -> S]
      /\ \A i \in S : \E k \in 1 .. m : new[k] = i
      /\ \A k, l \in 1 .. m : new[k] = new[l] => k = l
  BY <1>1, AscendingIs
<1>3. places \in SUBSET DOMAIN order
  OBVIOUS
<1>4. /\ old \in Seq(PageIndexes) /\ n = Cardinality(places)
      /\ Range(old) = {order[i] : i \in places}
      /\ \A k \in DOMAIN old : Ascending(places)[k] \in places /\ old[k] = order[Ascending(places)[k]]
      /\ \A k, l \in DOMAIN old : Ascending(places)[k] = Ascending(places)[l] => k = l
      /\ places \in SUBSET Nat /\ IsFiniteSet(places) /\ Cardinality(places) \in Nat
  <2> HIDE DEF places
  <2> QED
    BY <1>3, PickedIs
<1>5. Touched(order, S) = old \o new
  BY DEF Touched
<1>6. \A k, l \in DOMAIN old : old[k] = old[l] => k = l
  BY <1>3, <1>4 DEF IsInjective
<1>7. \A k \in DOMAIN old : old[k] \notin S
  BY <1>4
<1>8. Range(order) \cup S = {order[i] : i \in places} \cup S
  BY DEF Range
<1>9. n \in Nat /\ DOMAIN old = 1 .. n
  BY <1>4
<1> HIDE DEF places, old, new, n, m
<1>10. new \in Seq(PageIndexes) /\ Len(new) = m
  BY <1>2
<1>11. /\ old \o new \in Seq(PageIndexes) /\ Len(old \o new) = n + m
       /\ \A k \in 1 .. n : (old \o new)[k] = old[k]
       /\ \A k \in 1 .. m : (old \o new)[n + k] = new[k]
  <2>1. old \in Seq(PageIndexes) /\ new \in Seq(PageIndexes) /\ Len(new) = m /\ Len(old) = n
    BY <1>4, <1>10 DEF n
  <2>2. old \o new \in Seq(PageIndexes) /\ Len(old \o new) = Len(old) + Len(new)
    BY <2>1
  <2>3. \A k \in 1 .. Len(old) : (old \o new)[k] = old[k]
    BY <2>1
  <2>4. \A k \in 1 .. Len(new) : (old \o new)[Len(old) + k] = new[k]
    BY <2>1
  <2> QED
    BY <2>1, <2>2, <2>3, <2>4
<1> DEFINE both == old \o new
<1>12. DOMAIN both = 1 .. n + m
  BY <1>2, <1>9, <1>11
<1> HIDE DEF both
<1>13. \A k \in 1 .. n + m : k \in 1 .. n \/ (k - n \in 1 .. m /\ n + (k - n) = k)
  BY <1>2, <1>9
<1>14. \A k \in 1 .. n : k \in 1 .. n + m
  BY <1>2, <1>9
<1>15. \A k \in 1 .. m : n + k \in 1 .. n + m
  BY <1>2, <1>9
<1>16. \A k \in 1 .. n + m : \/ k \in 1 .. n /\ both[k] = old[k] /\ both[k] \notin S
                             \/ k - n \in 1 .. m /\ both[k] = new[k - n] /\ both[k] \in S
  <2> SUFFICES ASSUME NEW k \in 1 .. n + m
               PROVE  \/ k \in 1 .. n /\ both[k] = old[k] /\ both[k] \notin S
                      \/ k - n \in 1 .. m /\ both[k] = new[k - n] /\ both[k] \in S
    OBVIOUS
  <2>1. CASE k \in 1 .. n
    BY <1>7, <1>9, <1>11, <2>1 DEF both
  <2>2. CASE k - n \in 1 .. m /\ n + (k - n) = k
    <3>1. both[k] = new[k - n]
      BY <1>11, <2>2 DEF both
    <3> QED
      BY <1>2, <2>2, <3>1
  <2> QED
    BY <1>13, <2>1, <2>2
<1>17. \A k, l \in 1 .. n + m : both[k] = both[l] => k = l
  <2> SUFFICES ASSUME NEW k \in 1 .. n + m, NEW l \in 1 .. n + m, both[k] = both[l] PROVE k = l
    OBVIOUS
  <2>1. CASE both[k] \in S
    <3>1. k - n \in 1 .. m /\ l - n \in 1 .. m /\ new[k - n] = new[l - n]
      BY <1>16, <2>1
    <3>2. k - n = l - n
      BY <1>2, <3>1
    <3> QED
      BY <1>2, <1>9, <3>2
  <2>2. CASE both[k] \notin S
    BY <1>6, <1>9, <1>16, <2>2
  <2> QED
    BY <2>1, <2>2
<1>18. Range(both) = Range(old) \cup S
  <2>1. Range(both) = {both[k] : k \in 1 .. n + m} /\ Range(old) = {old[k] : k \in 1 .. n}
    BY <1>9, <1>12 DEF Range
  <2>2. \A x \in Range(both) : x \in Range(old) \cup S
    BY <1>16, <2>1
  <2>3. \A x \in Range(old) : x \in Range(both)
    <3> SUFFICES ASSUME NEW k \in 1 .. n PROVE old[k] \in Range(both)
      BY <2>1
    <3>1. both[k] = old[k]
      BY <1>11 DEF both
    <3> QED
      BY <1>14, <2>1, <3>1
  <2>4. \A x \in S : x \in Range(both)
    <3> SUFFICES ASSUME NEW x \in S PROVE x \in Range(both)
      OBVIOUS
    <3>1. PICK k \in 1 .. m : new[k] = x
      BY <1>2
    <3>2. both[n + k] = x
      BY <1>11, <3>1 DEF both
    <3> QED
      BY <1>15, <2>1, <3>2
  <2> QED
    BY <2>2, <2>3, <2>4
<1>19. S \subseteq Range(order) => n + m <= Len(order)
  <2> SUFFICES ASSUME S \subseteq Range(order) PROVE n + m <= Len(order)
    OBVIOUS
  <2>1. IsFiniteSet(1 .. Len(order)) /\ Cardinality(1 .. Len(order)) = Len(order) /\ Len(order) \in Nat
    <3> DEFINE length == Len(order)
    <3>1. length \in Nat
      OBVIOUS
    <3> HIDE DEF length
    <3>2. IsFiniteSet(1 .. length) /\ Cardinality(1 .. length) = length
      BY <3>1, FS_Interval
    <3> QED
      BY <3>1, <3>2 DEF length
  <2> DEFINE wide == 1 .. n + m
             place == [k \in wide |-> CHOOSE i \in 1 .. Len(order) : order[i] = both[k]]
  <2>2. \A k \in wide : both[k] \in Range(order)
    <3>1. \A k \in 1 .. n : old[k] \in Range(order)
      BY <1>4, <1>9 DEF Range, places
    <3> QED
      BY <1>16, <3>1
  <2>3. Range(order) = {order[i] : i \in 1 .. Len(order)}
    BY DEF Range
  <2>4. \A k \in wide : place[k] \in 1 .. Len(order) /\ order[place[k]] = both[k]
    <3> SUFFICES ASSUME NEW k \in wide PROVE place[k] \in 1 .. Len(order) /\ order[place[k]] = both[k]
      OBVIOUS
    <3>1. \E i \in 1 .. Len(order) : order[i] = both[k]
      BY <2>2, <2>3
    <3> QED
      BY <3>1
  <2> HIDE DEF place
  <2>5. place \in Injection(wide, 1 .. Len(order))
    <3>1. place \in [wide -> 1 .. Len(order)]
      BY <2>4 DEF place
    <3> HIDE DEF wide
    <3>2. \A k, l \in wide : place[k] = place[l] => k = l
      BY <1>17, <2>4 DEF wide
    <3> QED
      BY <3>1, <3>2 DEF Injection, IsInjective
  <2>6. IsFiniteSet(wide) /\ Cardinality(wide) = n + m
    BY <1>2, <1>9, FS_Interval
  <2> HIDE DEF wide
  <2>7. Cardinality(wide) <= Cardinality(1 .. Len(order))
    BY <2>1, <2>5, FS_Injection
  <2> QED
    BY <2>1, <2>6, <2>7
<1> QED
  BY <1>4, <1>5, <1>8, <1>11, <1>12, <1>17, <1>18, <1>19 DEF both, IsInjective

\* Of a sequence of pages the last are kept, as many as may be resident.
LEMMA KeepsIs ==
    ASSUME NEW order \in Seq(PageIndexes), IsInjective(order)
    PROVE  /\ Keeps(order) \in Seq(PageIndexes) /\ IsInjective(Keeps(order))
           /\ Len(Keeps(order)) <= MaxResidentPages /\ Range(Keeps(order)) \subseteq Range(order)
<1> DEFINE n == Len(order)
           m == MaxResidentPages
           kept == SubSeq(order, n - m + 1, n)
<1>1. n \in Nat /\ m \in Nat /\ m >= 2 /\ DOMAIN order = 1 .. n
  BY PagingConstants
<1>2. CASE n <= m
  BY <1>1, <1>2 DEF Keeps
<1>3. CASE ~(n <= m)
  <2>1. n - m + 1 \in 1 .. n + 1 /\ n - (n - m + 1) + 1 = m
    BY <1>1, <1>3
  <2>2. /\ kept \in Seq(PageIndexes) /\ Len(kept) = m
        /\ \A k \in 1 .. m : kept[k] = order[n - m + k]
    <3>1. kept = [k \in 1 .. m |-> order[n - m + k]]
      <4>1. kept = [k \in 1 .. n - (n - m + 1) + 1 |-> order[k + (n - m + 1) - 1]]
        BY <1>1, <1>3
      <4>2. \A k \in 1 .. m : k + (n - m + 1) - 1 = n - m + k
        BY <1>1
      <4> HIDE DEF n, m, kept
      <4> QED
        BY <2>1, <4>1, <4>2
    <3>2. \A k \in 1 .. m : n - m + k \in 1 .. n
      BY <1>1, <1>3
    <3>3. \A i \in 1 .. n : order[i] \in PageIndexes
      OBVIOUS
    <3> HIDE DEF n, m, kept
    <3>4. kept \in [1 .. m -> PageIndexes]
      BY <3>1, <3>2, <3>3
    <3>5. \A k \in 1 .. m : kept[k] = order[n - m + k]
      BY <3>1
    <3>6. kept \in Seq(PageIndexes) /\ Len(kept) = m
      BY <1>1, <3>4
    <3> QED
      BY <3>5, <3>6
  <2>3. Keeps(order) = kept /\ DOMAIN kept = 1 .. m
    BY <1>3, <2>2 DEF Keeps
  <2>4. \A k \in 1 .. m : n - m + k \in 1 .. n
    BY <1>1, <1>3
  <2> HIDE DEF kept, n, m
  <2>5. \A k, l \in DOMAIN kept : kept[k] = kept[l] => k = l
    <3> SUFFICES ASSUME NEW k \in 1 .. m, NEW l \in 1 .. m, kept[k] = kept[l] PROVE k = l
      BY <2>3
    <3>0. order[n - m + k] = order[n - m + l] /\ n - m + k \in DOMAIN order /\ n - m + l \in DOMAIN order
      BY <1>1, <2>2, <2>4
    <3>1. n - m + k = n - m + l
      BY <3>0 DEF IsInjective
    <3> QED
      BY <1>1, <3>1
  <2>6. \A x \in Range(kept) : x \in Range(order)
    <3>1. Range(kept) = {kept[k] : k \in 1 .. m} /\ Range(order) = {order[i] : i \in 1 .. n}
      BY <1>1, <2>3 DEF Range
    <3> QED
      BY <2>2, <2>4, <3>1
  <2> QED
    BY <1>1, <2>2, <2>3, <2>5, <2>6 DEF IsInjective, m
<1> QED
  BY <1>2, <1>3

\* What is written into the pages keeps them in order; a place has what was written
\* there, what it had, or nothing.
LEMMA IngestIs ==
    ASSUME NEW old, NEW order \in Seq(PageIndexes), IsInjective(order), DOMAIN old = Range(order),
           NEW g, NEW first, NEW final, first .. final \subseteq Rows,
           Ingest(old, order, g, first, final)
    PROVE  /\ PagesTyped'
           /\ \A p \in DOMAIN pages' :
                /\ p \in DOMAIN old \/ \E r \in first .. final : p = PageOf(r)
                /\ \A r \in RowsOf(p) :
                     \/ r \in first .. final /\ pages'[p][r] = Cell(g, r)
                     \/ r \notin first .. final /\ p \in DOMAIN old /\ pages'[p][r] = old[p][r]
                     \/ r \notin first .. final /\ p \notin DOMAIN old /\ pages'[p][r] = Hole
<1> DEFINE new == {PageOf(r) : r \in first .. final}
           kept == Keeps(Touched(order, new))
           at(p, r) == IF r \in first .. final THEN Cell(g, r)
                       ELSE IF p \in DOMAIN old THEN old[p][r] ELSE Hole
<1>1. new \in SUBSET PageIndexes
  BY DEF PageIndexes
<1>2. pages' = [p \in Range(kept) |-> [r \in RowsOf(p) |-> at(p, r)]] /\ lru' = kept
  BY DEF Ingest
<1> HIDE DEF new
<1>3. /\ kept \in Seq(PageIndexes) /\ IsInjective(kept) /\ Len(kept) <= MaxResidentPages
      /\ Range(kept) \subseteq Range(order) \cup new
  <2>1. /\ Touched(order, new) \in Seq(PageIndexes) /\ IsInjective(Touched(order, new))
        /\ Range(Touched(order, new)) = Range(order) \cup new
    BY <1>1, TouchedIs
  <2> QED
    BY <2>1, KeepsIs
<1> HIDE DEF kept
<1>4. PagesTyped'
  <2>1. DOMAIN pages' = Range(kept) /\ \A p \in DOMAIN pages' : DOMAIN pages'[p] = RowsOf(p)
    BY <1>2
  <2> QED
    BY <1>2, <1>3, <2>1 DEF PagesTyped
<1>5. ASSUME NEW p \in DOMAIN pages' PROVE p \in DOMAIN old \/ \E r \in first .. final : p = PageOf(r)
  BY <1>2, <1>3, <1>5 DEF new
<1>6. ASSUME NEW p \in DOMAIN pages', NEW r \in RowsOf(p)
      PROVE  \/ r \in first .. final /\ pages'[p][r] = Cell(g, r)
             \/ r \notin first .. final /\ p \in DOMAIN old /\ pages'[p][r] = old[p][r]
             \/ r \notin first .. final /\ p \notin DOMAIN old /\ pages'[p][r] = Hole
  BY <1>2, <1>6
<1> QED
  BY <1>4, <1>5, <1>6

\* A fetch loop asks for pages one after the other, those nobody waits for, and is over
\* when there are none.
LEMMA BeginIs ==
    ASSUME NEW of, NEW queue \in Seq(PageIndexes), NEW waited \in SUBSET PageIndexes,
           Begin(of, queue, waited)
    PROVE  /\ pending' \in SUBSET PageIndexes
           /\ loop' = NoLoop \/ (loop' \in [of : {of}, queue : Seq(PageIndexes)] /\ loop'.queue # << >>)
           /\ waited = {} => Range(loop'.queue) = Range(queue)
<1> DEFINE places == {i \in DOMAIN queue : queue[i] \notin waited}
           rest == Picked(queue, places)
<1>1. places \in SUBSET DOMAIN queue
  OBVIOUS
<1>2. rest \in Seq(PageIndexes) /\ Range(rest) = {queue[i] : i \in places}
  <2> HIDE DEF places
  <2> QED
    BY <1>1, PickedIs
<1>3. waited = {} => Range(rest) = Range(queue)
  BY <1>2 DEF Range
<1>4. IF rest = << >> THEN loop' = NoLoop /\ pending' = waited
      ELSE loop' = [of |-> of, queue |-> rest] /\ pending' = waited \cup {Head(rest)}
  BY DEF Begin
<1> HIDE DEF rest
<1>5. CASE rest = << >>
  BY <1>3, <1>4, <1>5 DEF NoLoop
<1>6. CASE rest # << >>
  <2>1. Head(rest) \in PageIndexes
    BY <1>2, <1>6
  <2>2. loop' = [of |-> of, queue |-> rest] /\ pending' = waited \cup {Head(rest)}
    BY <1>4, <1>6
  <2>3. loop' \in [of : {of}, queue : Seq(PageIndexes)] /\ loop'.queue = rest
    BY <1>2, <2>2
  <2> QED
    BY <1>3, <1>6, <2>1, <2>2, <2>3
<1> QED
  BY <1>5, <1>6

\* A loop that begins has its type.
LEMMA LoopIsTyped ==
    ASSUME NEW of \in 0 .. latest', latest' \in 0 .. MaxResults,
           loop' = NoLoop \/ (loop' \in [of : {of}, queue : Seq(PageIndexes)] /\ loop'.queue # << >>)
    PROVE  /\ loop' \in [of : 0 .. latest', queue : Seq(PageIndexes)]
           /\ loop' = NoLoop \/ loop'.queue # << >>
<1>1. CASE loop' = NoLoop
  <2>1. 0 \in 0 .. latest' /\ << >> \in Seq(PageIndexes)
    BY PagingConstants
  <2> QED
    BY <1>1, <2>1 DEF NoLoop
<1>2. CASE loop' \in [of : {of}, queue : Seq(PageIndexes)] /\ loop'.queue # << >>
  BY <1>2
<1> QED
  BY <1>1, <1>2

\* A fetch that ends, with an answer or without, makes the loop ask for the next page.
LEMMA FetchEnds ==
    ASSUME PagingTyped, loop # NoLoop, EndFetch, latest' = latest
    PROVE  /\ pending' \in SUBSET PageIndexes
           /\ loop' \in [of : 0 .. latest', queue : Seq(PageIndexes)]
           /\ loop' = NoLoop \/ loop'.queue # << >>
           /\ Head(loop.queue) \in PageIndexes
<1>1. /\ loop.of \in 0 .. latest /\ loop.queue \in Seq(PageIndexes) /\ loop.queue # << >>
      /\ pending \in SUBSET PageIndexes /\ latest \in 0 .. MaxResults
  BY DEF PagingTyped
<1>2. Tail(loop.queue) \in Seq(PageIndexes) /\ Head(loop.queue) \in PageIndexes
  BY <1>1
<1>3. pending \ {Head(loop.queue)} \in SUBSET PageIndexes
  BY <1>1
<1>4. Begin(loop.of, Tail(loop.queue), pending \ {Head(loop.queue)})
  BY DEF EndFetch
<1>5. /\ pending' \in SUBSET PageIndexes
      /\ loop' = NoLoop \/ (loop' \in [of : {loop.of}, queue : Seq(PageIndexes)] /\ loop'.queue # << >>)
  BY <1>2, <1>3, <1>4, BeginIs
<1>6. /\ loop' \in [of : 0 .. latest', queue : Seq(PageIndexes)]
      /\ loop' = NoLoop \/ loop'.queue # << >>
  BY <1>1, <1>5, LoopIsTyped
<1> QED
  BY <1>2, <1>5, <1>6

\* The invariant holds when the window opens.
LEMMA PagingInitially == PagingInit => PagingIInv
<1> SUFFICES ASSUME PagingInit PROVE PagingIInv
  OBVIOUS
<1>1. PagingTyped
  <2>1. /\ 0 \in 0 .. MaxResults /\ 0 \in 0 .. MaxScrolls /\ 0 \in Rows /\ 0 \in 0 .. 0
        /\ << >> \in Seq(PageIndexes)
    BY PagingConstants DEF Rows
  <2> QED
    BY <2>1 DEF PagingInit, PagingTyped, NoLoop
<1>2. PagesTyped
  <2>1. << >> \in Seq(PageIndexes) /\ Len(<< >>) = 0 /\ 0 <= MaxResidentPages /\ DOMAIN << >> = {}
    BY PagingConstants
  <2> QED
    BY <2>1 DEF PagingInit, PagesTyped, Range, IsInjective
<1>3. RowsAreTheirOwn /\ HolesInv /\ SightInv
  <2>1. DOMAIN pages = {} /\ source = 0
    BY DEF PagingInit
  <2> QED
    BY <2>1 DEF RowsAreTheirOwn, HolesInv, SightInv
<1> QED
  BY <1>1, <1>2, <1>3 DEF PagingIInv

\* When the effect runs, every page in sight that is not there is asked for.
LEMMA RenderKeeps ==
    ASSUME PagingIInv, Render
    PROVE  PagingIInv'
<1> USE DEF PagingIInv
<1>1. /\ current' = TRUE /\ missed' = FALSE
      /\ UNCHANGED <<latest, source, pages, top, scrolls>>
  BY DEF Render
<1>2. /\ latest \in 0 .. MaxResults /\ source \in {0, latest} /\ source \in 0 .. latest
      /\ top \in Rows /\ scrolls \in 0 .. MaxScrolls
  BY DEF PagingTyped
<1>3. \A r \in InSight : PageOf(r) \in PageIndexes
  BY DEF InSight, PageIndexes
<1>4. /\ pending' \in SUBSET PageIndexes
      /\ loop' \in [of : 0 .. latest', queue : Seq(PageIndexes)]
      /\ loop' = NoLoop \/ loop'.queue # << >>
      /\ source # 0 => Range(loop'.queue) = Missing
  <2>1. CASE source = 0
    <3>1. loop' = NoLoop /\ pending' = {}
      BY <2>1 DEF Render
    <3>2. /\ loop' \in [of : 0 .. latest', queue : Seq(PageIndexes)]
          /\ loop' = NoLoop \/ loop'.queue # << >>
      BY <1>1, <1>2, <3>1, LoopIsTyped
    <3> QED
      BY <2>1, <3>1, <3>2
  <2>2. CASE source # 0
    <3>1. Begin(source, Ascending(Missing), {})
      BY <2>2 DEF Render
    <3>2. Missing \in SUBSET PageIndexes
      BY <1>3 DEF Missing
    <3>3. Missing \in SUBSET Nat /\ IsFiniteSet(Missing)
      BY <3>2, PagesAre, FS_Subset
    <3> HIDE DEF Missing
    <3>4. /\ Cardinality(Missing) \in Nat /\ Ascending(Missing) \in [1 .. Cardinality(Missing) -> Missing]
          /\ \A p \in Missing : \E k \in 1 .. Cardinality(Missing) : Ascending(Missing)[k] = p
      BY <3>3, AscendingIs
    <3> DEFINE asked == Ascending(Missing)
               n == Cardinality(Missing)
    <3> HIDE DEF asked, n
    <3>5. asked \in Seq(PageIndexes) /\ Range(asked) = Missing
      <4>1. n \in Nat /\ asked \in [1 .. n -> Missing] /\ \A p \in Missing : \E k \in 1 .. n : asked[k] = p
        BY <3>4 DEF asked, n
      <4>2. asked \in [1 .. n -> PageIndexes]
        BY <3>2, <4>1
      <4>3. asked \in Seq(PageIndexes)
        BY <4>1, <4>2
      <4> QED
        BY <4>1, <4>3 DEF Range
    <3>6. /\ pending' \in SUBSET PageIndexes
          /\ loop' = NoLoop \/ (loop' \in [of : {source}, queue : Seq(PageIndexes)] /\ loop'.queue # << >>)
          /\ Range(loop'.queue) = Range(asked)
      <4>1. Begin(source, asked, {})
        BY <3>1 DEF asked
      <4> QED
        BY <3>5, <4>1, BeginIs
    <3>7. /\ loop' \in [of : 0 .. latest', queue : Seq(PageIndexes)]
          /\ loop' = NoLoop \/ loop'.queue # << >>
      BY <1>1, <1>2, <3>6, LoopIsTyped
    <3> QED
      BY <3>5, <3>6, <3>7
  <2> QED
    BY <2>1, <2>2
<1>5. PagingTyped'
  BY <1>1, <1>2, <1>4 DEF PagingTyped
<1>6. PagesTyped'
  <2>1. CASE source = 0
    BY <1>1, <2>1 DEF Render, PagesTyped
  <2>2. CASE source # 0
    <3> DEFINE looked == {PageOf(r) : r \in InSight} \cap DOMAIN pages
    <3>1. lru' = Touched(lru, looked)
      BY <2>2 DEF Render
    <3>2. looked \in SUBSET PageIndexes /\ looked \subseteq Range(lru)
      BY <1>3 DEF PagesTyped
    <3> HIDE DEF looked
    <3>3. lru \in Seq(PageIndexes) /\ IsInjective(lru) /\ Len(lru) <= MaxResidentPages
      BY DEF PagesTyped
    <3>4. /\ lru' \in Seq(PageIndexes) /\ IsInjective(lru') /\ Range(lru') = Range(lru) \cup looked
          /\ Len(lru') <= Len(lru)
      BY <3>1, <3>2, <3>3, TouchedIs
    <3>5. Len(lru') <= MaxResidentPages
      <4>1. Len(lru') \in Nat /\ Len(lru) \in Nat /\ MaxResidentPages \in Nat
        BY <3>3, <3>4, PagingConstants
      <4> QED
        BY <3>3, <3>4, <4>1
    <3>6. Range(lru') = Range(lru)
      BY <3>2, <3>4
    <3> QED
      BY <1>1, <3>4, <3>5, <3>6 DEF PagesTyped
  <2> QED
    BY <2>1, <2>2
<1>7. RowsAreTheirOwn' /\ HolesInv'
  BY <1>1 DEF RowsAreTheirOwn, HolesInv, HasHole
<1>8. SightInv'
  <2> SUFFICES ASSUME source # 0, NEW r \in InSight
               PROVE  PageOf(r) \in DOMAIN pages \cup Range(loop'.queue)
    BY <1>1 DEF SightInv, InSight
  <2> QED
    BY <1>4 DEF Missing
<1> QED
  BY <1>5, <1>6, <1>7, <1>8

\* An answer fills the page it was asked for, if its result is still on screen.
LEMMA ArrivalKeeps ==
    ASSUME PagingIInv, PageArrives
    PROVE  PagingIInv'
<1> USE DEF PagingIInv
<1> DEFINE p == Head(loop.queue)
           request == PageRequest(p)
<1>1. loop # NoLoop /\ current' = FALSE /\ EndFetch /\ UNCHANGED <<latest, source, top, missed, scrolls>>
  BY DEF PageArrives
<1>2. PagingTyped' /\ p \in PageIndexes
  <2>1. /\ pending' \in SUBSET PageIndexes
        /\ loop' \in [of : 0 .. latest', queue : Seq(PageIndexes)]
        /\ loop' = NoLoop \/ loop'.queue # << >>
        /\ p \in PageIndexes
    BY <1>1, FetchEnds
  <2> QED
    BY <1>1, <2>1 DEF PagingTyped
<1> HIDE DEF p
<1>3. SightInv'
  BY <1>1 DEF SightInv
<1>4. CASE loop.of = source
  <2> DEFINE first == request.first
             final == request.last
  <2>1. Ingest(pages, lru, source, first, final)
    BY <1>4 DEF PageArrives, p
  <2>2. first .. final = RowsOf(p)
    BY <1>2, RequestIsThePage
  <2> HIDE DEF first, final
  <2>3. lru \in Seq(PageIndexes) /\ IsInjective(lru) /\ DOMAIN pages = Range(lru) /\ first .. final \subseteq Rows
    BY <2>2 DEF PagesTyped, RowsOf
  <2>4. PagesTyped'
    BY <2>1, <2>3, IngestIs
  <2>5. ASSUME NEW q \in DOMAIN pages'
        PROVE  /\ q = p => \A r \in RowsOf(q) : pages'[q][r] = Cell(source, r)
               /\ q # p => q \in DOMAIN pages /\ \A r \in RowsOf(q) : pages'[q][r] = pages[q][r]
    <3>1. /\ q \in DOMAIN pages \/ \E r \in first .. final : q = PageOf(r)
          /\ \A r \in RowsOf(q) :
               \/ r \in first .. final /\ pages'[q][r] = Cell(source, r)
               \/ r \notin first .. final /\ q \in DOMAIN pages /\ pages'[q][r] = pages[q][r]
               \/ r \notin first .. final /\ q \notin DOMAIN pages /\ pages'[q][r] = Hole
      BY <2>1, <2>3, <2>5, IngestIs
    <3>2. \A r \in first .. final : PageOf(r) = p
      BY <2>2 DEF RowsOf
    <3>3. \A r \in RowsOf(q) : r \in first .. final <=> q = p
      BY <2>2, <3>2 DEF RowsOf
    <3> QED
      BY <3>1, <3>2, <3>3
  <2>6. RowsAreTheirOwn'
    <3> SUFFICES ASSUME NEW q \in DOMAIN pages', NEW r \in RowsOf(q)
                 PROVE  pages'[q][r] \in {Cell(source, r), Hole}
      BY <1>1 DEF RowsAreTheirOwn
    <3>1. CASE q = p
      BY <2>5, <3>1
    <3>2. CASE q # p
      BY <2>5, <3>2 DEF RowsAreTheirOwn
    <3> QED
      BY <3>1, <3>2
  <2>7. HolesInv'
    <3>1. \A q \in DOMAIN pages' : HasHole(q)' => q \in DOMAIN pages /\ HasHole(q)
      <4> SUFFICES ASSUME NEW q \in DOMAIN pages', NEW r \in RowsOf(q), pages'[q][r] = Hole
                   PROVE  q \in DOMAIN pages /\ pages[q][r] = Hole
        BY DEF HasHole
      <4>1. Cell(source, r) # Hole
        BY DEF Cell, Hole
      <4> QED
        BY <2>5, <4>1
    <3> QED
      BY <3>1 DEF HolesInv
  <2> QED
    BY <1>2, <1>3, <2>4, <2>6, <2>7
<1>5. CASE loop.of # source
  <2>1. UNCHANGED <<pages, lru>>
    BY <1>5 DEF PageArrives
  <2> QED
    BY <1>1, <1>2, <1>3, <2>1 DEF PagesTyped, RowsAreTheirOwn, HolesInv, HasHole
<1> QED
  BY <1>4, <1>5

\* The rows that were streamed are the first pages of their result, and all but the last
\* of these pages are full.
LEMMA FinalizeKeeps ==
    ASSUME PagingIInv, NEW streamed \in FirstRows, FinalizeSpillRun(streamed)
    PROVE  PagingIInv'
<1> USE DEF PagingIInv
<1> DEFINE final == streamed - 1
<1>1. /\ latest < MaxResults /\ latest' = latest + 1 /\ source' = latest'
      /\ Ingest(<< >>, << >>, latest', 0, final)
      /\ pending' = {} /\ current' = FALSE /\ UNCHANGED <<top, loop, missed, scrolls>>
  BY DEF FinalizeSpillRun
<1>2. streamed \in 1 .. Total /\ Total \in Nat /\ MaxResults \in Nat
  BY PagingConstants
<1>3. final \in Nat /\ 0 .. final \subseteq Rows
  BY <1>2 DEF Rows
<1> HIDE DEF final
<1>4. PagingTyped'
  <2>1. latest' \in 0 .. MaxResults /\ 0 .. latest \subseteq 0 .. latest'
    BY <1>1, <1>2 DEF PagingTyped
  <2> QED
    BY <1>1, <2>1 DEF PagingTyped
<1>5. << >> \in Seq(PageIndexes) /\ IsInjective(<< >>) /\ DOMAIN << >> = {} /\ Range(<< >>) = {}
  BY DEF IsInjective, Range
<1>6. PagesTyped'
  BY <1>1, <1>3, <1>5, IngestIs
<1>7. ASSUME NEW p \in DOMAIN pages'
      PROVE  /\ \E r \in 0 .. final : p = PageOf(r)
             /\ \A r \in RowsOf(p) : \/ r \in 0 .. final /\ pages'[p][r] = Cell(latest', r)
                                     \/ r \notin 0 .. final /\ pages'[p][r] = Hole
  <2>1. PICK g, none, first : g = latest' /\ none = << >> /\ first = 0
    OBVIOUS
  <2>2. /\ none \in Seq(PageIndexes) /\ IsInjective(none) /\ DOMAIN none = Range(none)
        /\ Ingest(none, none, g, first, final) /\ first .. final \subseteq Rows
    BY <1>1, <1>3, <1>5, <2>1
  <2>3. \A q \in DOMAIN pages' :
          /\ q \in DOMAIN none \/ \E r \in first .. final : q = PageOf(r)
          /\ \A r \in RowsOf(q) :
               \/ r \in first .. final /\ pages'[q][r] = Cell(g, r)
               \/ r \notin first .. final /\ q \in DOMAIN none /\ pages'[q][r] = none[q][r]
               \/ r \notin first .. final /\ q \notin DOMAIN none /\ pages'[q][r] = Hole
    BY ONLY <2>2, IngestIs
  <2> QED
    BY <1>5, <1>7, <2>1, <2>3
<1>8. RowsAreTheirOwn'
  BY <1>1, <1>7 DEF RowsAreTheirOwn
<1>9. ASSUME NEW p \in DOMAIN pages', HasHole(p)'
      PROVE  p = PageOf(final)
  <2>1. PICK r \in RowsOf(p) : pages'[p][r] = Hole
    BY <1>9 DEF HasHole
  <2>2. Cell(latest', r) # Hole
    BY DEF Cell, Hole
  <2>3. r \notin 0 .. final /\ r \in Nat /\ PageOf(r) = p
    BY <1>7, <2>1, <2>2, PagesAre DEF RowsOf
  <2>4. PICK s \in 0 .. final : p = PageOf(s)
    BY <1>7
  <2>5. /\ s \in Nat /\ p \in Nat /\ p * PageSize <= s /\ r < p * PageSize + PageSize
        /\ p * PageSize \in Nat
    <3>1. s \in Nat
      BY <2>4
    <3> QED
      BY <2>3, <2>4, <3>1, RowLiesIn
  <2>6. p * PageSize <= final /\ final < p * PageSize + PageSize
    <3> DEFINE start == p * PageSize
    <3>1. start \in Nat /\ start <= s /\ s <= final /\ final < r /\ r < start + PageSize /\ PageSize \in Nat
      BY <1>3, <2>3, <2>4, <2>5, PagingConstants
    <3> HIDE DEF start
    <3>2. start <= final /\ final < start + PageSize
      BY <1>3, <2>3, <2>5, <3>1
    <3> QED
      BY <3>2 DEF start
  <2> QED
    BY <1>3, <2>5, <2>6, LiesInOne
<1>10. HolesInv'
  BY <1>9 DEF HolesInv
<1>11. SightInv'
  BY <1>1 DEF SightInv
<1> QED
  BY <1>4, <1>6, <1>8, <1>10, <1>11

\* No step of paging disturbs its invariant.
LEMMA PagingStep == PagingIInv /\ [PagingNext]_pagingVars => PagingIInv'
<1> SUFFICES ASSUME PagingIInv, [PagingNext]_pagingVars PROVE PagingIInv'
  OBVIOUS
<1> USE DEF PagingIInv
<1>1. CASE Render
  BY <1>1, RenderKeeps
<1>2. CASE PageArrives
  BY <1>2, ArrivalKeeps
<1>3. CASE FetchFails
  <2>1. loop # NoLoop /\ missed' = TRUE /\ EndFetch
        /\ UNCHANGED <<latest, source, pages, lru, top, current, scrolls>>
    BY <1>3 DEF FetchFails
  <2>2. PagingTyped'
    <3>1. /\ pending' \in SUBSET PageIndexes
          /\ loop' \in [of : 0 .. latest', queue : Seq(PageIndexes)]
          /\ loop' = NoLoop \/ loop'.queue # << >>
      BY <2>1, FetchEnds
    <3> QED
      BY <2>1, <3>1 DEF PagingTyped
  <2> QED
    BY <2>1, <2>2 DEF PagesTyped, RowsAreTheirOwn, HolesInv, HasHole, SightInv
<1>4. CASE ReleaseActiveSpill
  <2>1. /\ source' = 0 /\ pages' = << >> /\ lru' = << >> /\ pending' = {} /\ current' = FALSE
        /\ UNCHANGED <<latest, top, loop, missed, scrolls>>
    BY <1>4 DEF ReleaseActiveSpill
  <2>2. PagingTyped'
    BY <2>1 DEF PagingTyped
  <2>3. DOMAIN << >> = {} /\ << >> \in Seq(PageIndexes) /\ Len(<< >>) = 0 /\ 0 <= MaxResidentPages
    BY PagingConstants
  <2>4. PagesTyped'
    BY <2>1, <2>3 DEF PagesTyped, Range, IsInjective
  <2> QED
    BY <2>1, <2>2, <2>3, <2>4 DEF RowsAreTheirOwn, HolesInv, SightInv
<1>5. ASSUME NEW to \in Rows, Scroll(to) PROVE PagingIInv'
  <2>1. /\ scrolls < MaxScrolls /\ scrolls' = scrolls + 1 /\ top' = to /\ current' = FALSE
        /\ UNCHANGED <<latest, source, pages, lru, loop, pending, missed>>
    BY <1>5 DEF Scroll
  <2>2. scrolls' \in 0 .. MaxScrolls
    BY <2>1, PagingConstants DEF PagingTyped
  <2>3. PagingTyped'
    BY <2>1, <2>2 DEF PagingTyped
  <2> QED
    BY <2>1, <2>3 DEF PagesTyped, RowsAreTheirOwn, HolesInv, HasHole, SightInv
<1>6. ASSUME NEW streamed \in FirstRows, FinalizeSpillRun(streamed) PROVE PagingIInv'
  BY <1>6, FinalizeKeeps
<1>7. CASE UNCHANGED pagingVars
  BY <1>7 DEF pagingVars, PagingTyped, PagesTyped, RowsAreTheirOwn, HolesInv, HasHole, SightInv, InSight
<1> QED
  BY <1>1, <1>2, <1>3, <1>4, <1>5, <1>6, <1>7 DEF PagingNext

\* In a state with the invariant the grid shows rows of its result in their places, and
\* those in sight are there.
LEMMA PagingFollows == PagingIInv => PagingIsSound
<1> SUFFICES ASSUME PagingIInv PROVE PagingIsSound
  OBVIOUS
<1> USE DEF PagingIInv
<1>1. PagingTypeOK
  <2>1. /\ DOMAIN pages \subseteq PageIndexes /\ \A p \in DOMAIN pages : DOMAIN pages[p] = RowsOf(p)
        /\ Range(lru) = DOMAIN pages /\ IsInjective(lru) /\ Len(lru) <= MaxResidentPages
    BY DEF PagesTyped, Range
  <2>2. /\ latest \in 0 .. MaxResults /\ source \in {0, latest} /\ top \in Rows /\ scrolls \in 0 .. MaxScrolls
        /\ {current, missed} \subseteq BOOLEAN /\ pending \subseteq PageIndexes
    BY DEF PagingTyped
  <2>3. loop.of \in 0 .. latest /\ Range(loop.queue) \subseteq PageIndexes
    BY DEF PagingTyped, Range
  <2> QED
    BY <2>1, <2>2, <2>3 DEF PagingTypeOK
<1>2. HolesAreInOnePage
  <2> DEFINE holed == {p \in DOMAIN pages : HasHole(p)}
  <2>1. Cardinality(holed) <= 1
    <3>1. CASE holed = {}
      BY <3>1, FS_EmptySet
    <3>2. CASE holed # {}
      <4>1. PICK p \in holed : TRUE
        BY <3>2
      <4>2. holed = {p}
        BY <4>1 DEF HolesInv
      <4>3. Cardinality({p}) = 1
        BY ONLY FS_Singleton
      <4> HIDE DEF holed
      <4> QED
        BY <4>2, <4>3
    <3> QED
      BY <3>1, <3>2
  <2> QED
    BY <2>1 DEF HolesAreInOnePage, HasHole
<1>3. WhatIsInSightIsResident
  <2> SUFFICES ASSUME source # 0, AtRest, ~missed, NEW r \in InSight PROVE PageOf(r) \in DOMAIN pages
    BY DEF WhatIsInSightIsResident
  <2>1. current /\ Range(loop.queue) = {}
    BY DEF AtRest, NoLoop, Range
  <2> QED
    BY <2>1 DEF SightInv
<1> QED
  BY <1>1, <1>2, <1>3 DEF PagingIsSound

\* However scrolls, answers, failures and results that replace each other interleave, the
\* grid shows rows of its result in their places (result-window.ts, useResultGridSpillPaging).
THEOREM PagingStaysSound == PagingSpec => []PagingIsSound
<1>1. PagingInit => PagingIInv
  BY PagingInitially
<1>2. PagingIInv /\ [PagingNext]_pagingVars => PagingIInv'
  BY PagingStep
<1> QED
  BY <1>1, <1>2, PagingFollows, PTL DEF PagingSpec
=============================================================================
