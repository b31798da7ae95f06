----------------------------- MODULE Keybindings -----------------------------
(***************************************************************************)
(* The window's keyboard (core/keybindings.ts, use-keybinding-manager.ts,  *)
(* app-key-ownership.ts): chords are collected into a sequence until it    *)
(* names a command, a timer drops what is unfinished, and the settings     *)
(* record one or two chords as the new sequence of a command.              *)
(*                                                                         *)
(* A key pressed in the SQL editor is seen by the editor first, which      *)
(* leaves the key alone if the window claims it.                           *)
(***************************************************************************)
EXTENDS Naturals, FiniteSets, SequencesExt

CONSTANTS
    Catalog,       \* the commands, in the order of the catalog
    ScopeOf,       \* the scope of each: global, editor or grid
    Default,       \* its default sequence
    Chords, Bare,  \* what may be pressed; those without a modifier
    Escape,        \* one of Bare
    Clipboard,     \* chords left to a cell that is edited
    Reserved,      \* chords that mean something to Vim
    Suggested,     \* commands with a suggested sequence for Vim mode, and which
    MaxPresses     \* bound: how many keys are pressed

ASSUME KeyConstants ==
    /\ Catalog \in Seq(STRING) /\ "none" \notin Range(Catalog)
    /\ Bare \subseteq Chords /\ Escape \in Bare /\ Clipboard \subseteq Chords \ Bare
    /\ Reserved \subseteq Chords
    /\ Default \in [Range(Catalog) -> Seq(Chords)] /\ MaxPresses \in Nat
    /\ DOMAIN Suggested \subseteq Range(Catalog)
    /\ \A c \in DOMAIN Suggested : Suggested[c] \in Seq(Chords) /\ Len(Suggested[c]) <= 2

Commands == Range(Catalog)
Scopes   == {"global", "editor", "grid"}
\* Where a key is pressed: in the SQL editor, the grid, a cell of it that is edited,
\* another field, anywhere else; and on no element at all.
Places   == {"cm-host", "result-grid", "cell-editor", "field", "elsewhere", "nowhere"}
Typing   == {"cm-host", "cell-editor", "field"}
NoCommand == "none"

VARIABLES
    overrides,   \* the user's sequences, of some commands, in this session;
                 \* saveOverrides ignores a storage that fails
    scope,       \* activeKeyScope
    pendingChords, \* the chords of an unfinished sequence
    keyTimer,    \* its timeout is set
    recording,   \* the command whose keys are recorded, or none
    recorded,    \* the chords so far
    recTimer,    \* the timeout that ends the recording is set
    overlay,     \* a transient overlay is open
    last,        \* history: the last key (an Escape or not, typed into the SQL
                 \* editor or not), and what became of it
    presses

keyVars == <<overrides, scope, pendingChords, keyTimer, recording,
             recorded, recTimer, overlay, last, presses>>

NoKey == [typed |-> FALSE, claimed |-> FALSE, taken |-> FALSE, ran |-> NoCommand]

KeyInit ==
    /\ overrides = << >> /\ scope = "global"
    /\ pendingChords = << >> /\ keyTimer = FALSE
    /\ recording = NoCommand /\ recorded = << >> /\ recTimer = FALSE
    /\ overlay \in BOOLEAN /\ last = NoKey /\ presses = 0

-----------------------------------------------------------------------------
(* Sequences of chords.                                                    *)

\* effectiveKeymap: the overrides over the defaults.
Keymap == [c \in Commands |-> IF c \in DOMAIN overrides THEN overrides[c] ELSE Default[c]]

AppliesTo(c, s) == ScopeOf[c] \in {"global", s}

\* Whether every chord of a sequence is without a modifier.
IsBare(seq) == Range(seq) \subseteq Bare

\* Places in the catalog of the commands that keys may name in a scope.
Candidates(s, allowBare) ==
    {i \in DOMAIN Catalog : LET c == Catalog[i]
                            IN  /\ AppliesTo(c, s) /\ Keymap[c] # << >>
                                /\ allowBare \/ ~IsBare(Keymap[c])}

Exact(binds, typed)  == {i \in binds : Keymap[Catalog[i]] = typed}
Longer(binds, typed) == {i \in binds : IsStrictPrefix(typed, Keymap[Catalog[i]])}

(* Mutated: a sequence that is complete wins over a longer one. *)
ResolveExactFirst(s, typed, allowBare) ==
    LET binds == Candidates(s, allowBare)
    IN  IF Exact(binds, typed) # {}
        THEN [kind |-> "command", command |-> Catalog[Min(Exact(binds, typed))]]
        ELSE IF Longer(binds, typed) # {} THEN [kind |-> "pending", command |-> NoCommand]
        ELSE [kind |-> "none", command |-> NoCommand]

\* resolveKeybinding: what the chords typed so far mean in a scope.  A sequence
\* that may go on is waited for; of equal ones the first command is run.
Resolve(s, typed, allowBare) ==
    LET binds == Candidates(s, allowBare)
    IN  IF Longer(binds, typed) # {} THEN [kind |-> "pending", command |-> NoCommand]
        ELSE IF Exact(binds, typed) # {}
        THEN [kind |-> "command", command |-> Catalog[Min(Exact(binds, typed))]]
        ELSE [kind |-> "none", command |-> NoCommand]

\* keyScopeFromTarget
ScopeAt(place) ==
    CASE place = "cm-host" -> "editor"
      [] place \in {"result-grid", "cell-editor"} -> "grid"
      [] place = "nowhere" -> scope
      [] OTHER -> "global"

\* findConflicts, as commandHasConflict asks it.
HasConflict(c) ==
    \E d \in Commands \ {c} :
        /\ Keymap[c] # << >> /\ Keymap[d] = Keymap[c]
        /\ \E s \in Scopes : AppliesTo(c, s) /\ AppliesTo(d, s)

\* findVimKeybindingConflicts: commands of the editor on a chord Vim uses.
VimConflicts == {c \in Commands : AppliesTo(c, "editor")
                                  /\ \E r \in Reserved : Keymap[c] = <<r>>}

(* Mutated: bare keys count while typing, too. *)
AppClaimsBareKeys(chord) ==
    recording # NoCommand \/ pendingChords # << >>
        \/ Resolve("editor", <<chord>>, TRUE).kind # "none"

\* The owner set by the manager (appClaimsEditorKey): whether the window will
\* take a key of the SQL editor.
AppClaims(chord) ==
    recording # NoCommand \/ pendingChords # << >>
        \/ Resolve("editor", <<chord>>, FALSE).kind # "none"

-----------------------------------------------------------------------------
(* The key listener.                                                       *)

Pressed(chord, place, taken, ran) ==
    /\ presses < MaxPresses /\ presses' = presses + 1
    /\ last' = [typed |-> place = "cm-host" /\ chord # Escape,
                claimed |-> place = "cm-host" /\ AppClaims(chord),
                taken |-> taken, ran |-> ran]

ClearPending == pendingChords' = << >> /\ keyTimer' = FALSE
StopRecording == recording' = NoCommand /\ recorded' = << >> /\ recTimer' = FALSE

SetOverrides(o) == overrides' = o
WithKeys(o, c, seq) == [d \in DOMAIN o \cup {c} |-> IF d = c THEN seq ELSE o[d]]
WithoutKeys(o, c)   == [d \in DOMAIN o \ {c} |-> o[d]]

\* While recording, Escape ends it, a second chord completes the sequence, and
\* the first one sets the timer.
KeyRecorded(chord, place) ==
    /\ recording # NoCommand
    /\ Pressed(chord, place, TRUE, NoCommand)
    /\ IF chord = Escape THEN StopRecording /\ UNCHANGED overrides
       ELSE IF recorded # << >>
       THEN /\ SetOverrides(WithKeys(overrides, recording, Append(recorded, chord)))
            /\ StopRecording
       ELSE /\ recorded' = <<chord>> /\ recTimer' = TRUE
            /\ UNCHANGED <<recording, overrides>>
    /\ UNCHANGED <<scope, pendingChords, keyTimer, overlay>>

\* commitRecordedKeybinding, called by the timer.
RecordingTimesOut ==
    /\ recTimer
    /\ SetOverrides(WithKeys(overrides, recording, recorded))
    /\ StopRecording
    /\ UNCHANGED <<scope, pendingChords, keyTimer, overlay, last, presses>>

EscapeClosesOverlay(place) ==
    /\ recording = NoCommand /\ overlay
    /\ Pressed(Escape, place, TRUE, NoCommand)
    /\ overlay' = FALSE
    /\ ClearPending
    /\ UNCHANGED <<overrides, scope, recording, recorded, recTimer>>

\* Any other key: the sequence goes on, names a command, or comes to nothing.
KeyResolved(chord, place) ==
    /\ recording = NoCommand /\ ~(chord = Escape /\ overlay)
    /\ ~(place = "cell-editor" /\ chord \in Clipboard)
    /\ scope' = ScopeAt(place)
    /\ LET typed == Append(pendingChords, chord)
           found == Resolve(scope', typed, place \notin Typing)
       IN  /\ Pressed(chord, place, found.kind # "none" \/ pendingChords # << >>, found.command)
           /\ IF found.kind = "pending" THEN pendingChords' = typed /\ keyTimer' = TRUE
              ELSE ClearPending
    /\ UNCHANGED <<overrides, recording, recorded, recTimer, overlay>>

PendingTimesOut ==
    /\ keyTimer /\ ClearPending
    /\ UNCHANGED <<overrides, scope, recording, recorded, recTimer,
                   overlay, last, presses>>

-----------------------------------------------------------------------------
(* The settings.                                                           *)

Settings == UNCHANGED <<scope, pendingChords, keyTimer, overlay, last, presses>>

\* beginRecording: asked for again, it ends the recording.
BeginRecording(c) ==
    /\ Settings /\ UNCHANGED overrides
    /\ IF recording = c THEN StopRecording
       ELSE recording' = c /\ recorded' = << >> /\ recTimer' = FALSE

\* resetKeybinding
ResetKeybinding(c) ==
    /\ Settings
    /\ SetOverrides(WithoutKeys(overrides, c))
    /\ IF recording = c THEN StopRecording
       ELSE UNCHANGED <<recording, recorded, recTimer>>

\* replaceKeymapOverrides: the settings are imported, here with no keys or with
\* those suggested for Vim.  A recording goes on.
ReplaceKeymapOverrides ==
    /\ Settings /\ UNCHANGED <<recording, recorded, recTimer>>
    /\ \E o \in {<< >>, Suggested} : SetOverrides(o)

\* applyVimKeybindingPlan: a conflicting command keeps its keys, loses them, or
\* takes the suggested ones.
ApplyVimKeybindingPlan(unset) ==
    /\ Settings /\ VimConflicts # {} /\ unset \subseteq VimConflicts
    /\ StopRecording
    /\ LET moved == (VimConflicts \cap DOMAIN Suggested) \ unset
       IN  SetOverrides([c \in DOMAIN overrides \cup unset \cup moved |->
                            IF c \in unset THEN << >>
                            ELSE IF c \in moved THEN Suggested[c] ELSE overrides[c]])

\* A press elsewhere or an Escape of its own closes the overlay; a menu opens it.
ToggleOverlay ==
    /\ overlay' = ~overlay
    /\ UNCHANGED <<overrides, scope, pendingChords, keyTimer, recording,
                   recorded, recTimer, last, presses>>

KeyNext ==
    \/ RecordingTimesOut \/ PendingTimesOut \/ ToggleOverlay \/ ReplaceKeymapOverrides
    \/ \E place \in Places :
        \/ EscapeClosesOverlay(place)
        \/ \E chord \in Chords : KeyRecorded(chord, place) \/ KeyResolved(chord, place)
    \/ \E c \in Commands : BeginRecording(c) \/ ResetKeybinding(c)
    \/ \E unset \in SUBSET Commands : ApplyVimKeybindingPlan(unset)

KeySpec == KeyInit /\ [][KeyNext]_keyVars

-----------------------------------------------------------------------------
\* Every variable keeps its type, and a recorded sequence has at most two chords.
KeyTypeOK ==
    /\ DOMAIN overrides \subseteq Commands
    /\ \A c \in DOMAIN overrides :
          Range(overrides[c]) \subseteq Chords /\ Len(overrides[c]) <= 2
    /\ scope \in Scopes
    /\ Range(pendingChords) \subseteq Chords /\ Range(recorded) \subseteq Chords
    /\ {keyTimer, recTimer, overlay} \subseteq BOOLEAN
    /\ recording \in Commands \cup {NoCommand}

\* An unfinished sequence always has its timer, and a timer always something to
\* end: neither half a sequence nor half a recording is left behind.
TimersGuard ==
    /\ keyTimer <=> pendingChords # << >>
    /\ recTimer <=> recorded # << >>
    /\ recorded # << >> => recording # NoCommand

\* A command that shares its keys with none that is reported, and whose keys are
\* not the beginning of another's, is run by them, chord by chord.
Reaches(c, s, allowBare) ==
    /\ \A n \in 1..(Len(Keymap[c]) - 1) :
        Resolve(s, SubSeq(Keymap[c], 1, n), allowBare).kind = "pending"
    /\ Resolve(s, Keymap[c], allowBare).command = c

KeysRunTheirCommand ==
    \A c \in Commands, s \in Scopes :
        /\ AppliesTo(c, s) /\ Keymap[c] # << >> /\ ~HasConflict(c)
        /\ ~\E d \in Commands : AppliesTo(d, s) /\ IsStrictPrefix(Keymap[c], Keymap[d])
        => Reaches(c, s, TRUE)

\* A key of the SQL editor has one effect: the editor leaves alone exactly the
\* keys the window takes, except an Escape that closes an overlay.
OneEffectPerKey ==
    last.typed => (last.claimed <=> last.taken)

\* A key is taken once, by the editor or the window, and no half sequence is left
\* without its timer.
KeysAreSound == KeyTypeOK /\ TimersGuard /\ OneEffectPerKey
=============================================================================
